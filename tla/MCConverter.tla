---------------------------- MODULE MCConverter -----------------------------
(* Types, values of them, and what is cast into what, for TLC. *)
EXTENDS Converter

CONSTANTS p1, p2

FieldRow(f) ==
    [name |-> f[2], type |-> f[3], db |-> f[4], json |-> f[5], format |-> f[6],
     embedded |-> f[1] = "embedded", exported |-> f[1] # "private"]

Rows(rows) ==
    [name \in {r[1] : r \in rows} |->
       LET r == CHOOSE r \in rows : r[1] = name
       IN  [kind |-> r[2], bits |-> r[3], key |-> r[4], elem |-> r[5], fields |-> [i \in DOMAIN r[6] |-> FieldRow(r[6][i])]]]

\* name, kind, bits, key and element type, fields; of a field its name, type, db and json tag, format
MCTypes == Rows({
    <<"int", "int", 4, "", "", <<>>>>, <<"int8", "int", 3, "", "", <<>>>>,
    <<"uint", "uint", 4, "", "", <<>>>>, <<"uint8", "uint", 3, "", "", <<>>>>,
    <<"float", "float", 0, "", "", <<>>>>, <<"text", "text", 0, "", "", <<>>>>, <<"bool", "bool", 0, "", "", <<>>>>,
    <<"time", "time", 0, "", "", <<>>>>, <<"any", "any", 0, "", "", <<>>>>, <<"Data", "data", 0, "", "", <<>>>>,
    <<"func", "func", 0, "", "", <<>>>>, <<"[2]int", "array", 0, "", "int", <<>>>>,
    <<"[]int8", "slice", 0, "", "int8", <<>>>>, <<"[]any", "slice", 0, "", "any", <<>>>>, <<"[]text", "slice", 0, "", "text", <<>>>>,
    <<"*int", "ptr", 0, "", "int", <<>>>>, <<"*text", "ptr", 0, "", "text", <<>>>>,
    <<"*time", "ptr", 0, "", "time", <<>>>>, <<"*User", "ptr", 0, "", "User", <<>>>>,
    <<"map any", "map", 0, "text", "any", <<>>>>, <<"map int", "map", 0, "int8", "text", <<>>>>, <<"map wide", "map", 0, "int", "int", <<>>>>,
    \* the structs of the tests, smaller
    <<"User", "struct", 0, "", "",
      <<<<"field", "ID", "int", "id", "uid", "">>, <<"field", "Name", "text", "-", "name", "">>, <<"private", "private", "text", "", "", "">>>>>>,
    <<"Row", "struct", 0, "", "", <<<<"field", "ID", "uint8", "", "id", "">>, <<"field", "At", "time", "at", "", "">>>>>>,
    <<"Mix", "struct", 0, "", "",
      <<<<"field", "ID", "int8", "id", "", "">>, <<"field", "Rate", "float", "-", "rate", "">>, <<"field", "Name", "text", "", "n", "">>,
        <<"field", "On", "bool", "", "", "">>, <<"field", "At", "time", "", "", "">>>>>>,
    <<"Crossed", "struct", 0, "", "", <<<<"field", "ID", "int8", "Name", "", "">>, <<"field", "Name", "text", "", "", "">>>>>>,
    <<"Profile", "struct", 0, "", "",
      <<<<"embedded", "User", "User", "", "", "">>, <<"field", "Age", "int8", "age", "", "">>, <<"field", "Name", "any", "", "", "">>>>>>,
    <<"Inner", "struct", 0, "", "", <<<<"field", "ID", "int8", "", "", "">>, <<"field", "Tip", "int8", "", "", "">>>>>>,
    <<"Outer", "struct", 0, "", "",
      <<<<"field", "Tip", "text", "", "", "">>, <<"embedded", "Inner", "Inner", "", "", "">>, <<"embedded", "Row", "Row", "", "", "">>>>>>,
    <<"Wrap", "struct", 0, "", "", <<<<"embedded", "Outer", "Outer", "", "", "">>, <<"field", "Day", "text", "", "", "d">>>>>>,
    <<"Log", "struct", 0, "", "", <<<<"field", "At", "text", "at", "", "d">>, <<"field", "Due", "*time", "", "due", "">>>>>>,
    <<"Secret", "struct", 0, "", "", <<<<"private", "at", "text", "", "", "">>, <<"field", "ID", "int", "", "", "">>>>>>,
    <<"Masked", "struct", 0, "", "", <<<<"private", "name", "text", "", "", "">>, <<"field", "ID", "int8", "name", "", "">>>>>>,
    <<"Renamed", "struct", 0, "", "", <<<<"embedded", "Inner", "Inner", "", "", "">>, <<"field", "Own", "int8", "Inner", "", "">>>>>>,
    <<"Hoard", "struct", 0, "", "", <<<<"private", "At", "time", "", "", "">>, <<"private", "Tip", "any", "", "", "">>>>>>,
    <<"Box", "struct", 0, "", "", <<<<"field", "It", "[]int8", "", "", "">>>>>>})

A(v) == V("any", <<v>>)
Nil == <<>>

Scalars ==
    {V("int", n) : n \in {-8, -1, 0, 2, 5, 7}} \cup {V("int8", n) : n \in {-4, 3}}
      \cup {V("uint", n) : n \in {0, 9, 15}} \cup {V("uint8", 6)} \cup {V("float", h) : h \in {-3, -1, 0, 5}}
      \cup {V("text", s) : s \in {"", "0", "3", "-2", "9", "1.5", "no", "x", "@2"}} \cup {V("bool", b) : b \in BOOLEAN}
      \cup {V("time", n) : n \in {2, ZeroTime}}

Maps ==
    {V("map any", m) : m \in
       UNION {[ks -> {<<V("int", 5)>>, <<V("text", "x")>>, <<V("time", 2)>>, Nil}] :
                ks \in {{}, {"id"}, {"ID", "id"}, {"Name", "name"}, {"id", "name", "private"}, {"at", "due"}, {"Tip"}, {"at", "ID"}, {"It", "$data"}}}}
      \cup {V("map any", [k \in {"User", "id"} |-> IF k = "id" THEN <<V("int", 2)>> ELSE <<V("map any", "id" :> <<V("int", 7)>>)>>]),
            V("map any", "It" :> <<V("[]int8", <<1, 2>>)>>), V("map any", "Due" :> <<V("text", "@2")>>)}
      \cup {V("map wide", m) : m \in {<<>>, 1 :> 2, 1 :> 2 @@ (-7) :> 3, 2 :> 7 @@ 3 :> 1}}

StructValues ==
    {V("User", <<i, s, "p">>) : i \in {-3, 5}, s \in {"", "x", "3"}}
      \cup {V("Row", <<i, n>>) : i \in {0, 6}, n \in {2, ZeroTime}}
      \cup {V("Mix", <<i, h, s, b, 2>>) : i \in {-4, 3}, h \in {-3, 5}, s \in {"x", "@2"}, b \in BOOLEAN}
      \cup {V("Crossed", <<3, s>>) : s \in {"3", "x"}}
      \cup {V("Profile", <<<<5, "x", "p">>, 2, <<V("text", "x")>>>>), V("Inner", <<1, 2>>),
            V("Outer", <<"t", <<1, 2>>, <<6, 2>>>>), V("Wrap", <<<<"t", <<1, 2>>, <<6, 2>>>>, "@2">>),
            V("Log", <<"@2", Nil>>), V("Log", <<"x", <<2>>>>), V("Secret", <<"q", 2>>), V("Masked", <<"q", 2>>), V("Renamed", <<<<1, 2>>, 3>>),
            V("Hoard", <<2, Nil>>), V("Hoard", <<2, <<V("text", "x")>>>>), V("Box", <<<<1, 2>>>>)}

Lists ==
    {V("[]int8", s) : s \in {<<>>, <<1, 2>>}} \cup {V("[]text", s) : s \in {<<"3">>, <<"3", "x">>}}
      \cup {V("[]any", <<<<V("int", 5)>>, Nil>>), V("[]any", <<<<V("text", "x")>>>>)}

Inners == Scalars \cup Maps \cup StructValues \cup Lists
Pointers ==
    {V("*int", s) : s \in {Nil, <<5>>}} \cup {V("*text", s) : s \in {Nil, <<"3">>}} \cup {V("*time", Nil)}
      \cup {V("*User", s) : s \in {Nil, <<<<5, "x", "p">>>>}}

Sources == Inners \cup Pointers \cup {A(v) : v \in Scalars \cup Lists \cup Pointers} \cup {V("func", Nil), Invalid, V("any", Nil)}

\* what a destination may hold before the cast, but for its zero value
Held(t) == CASE t = "*int" -> {<<1>>} [] t = "*User" -> {<<<<1, "y", "q">>>>} [] t = "User" -> {<<1, "y", "q">>}
             [] t = "[]int8" -> {<<4>>} [] t = "int8" -> {1} [] t = "map int" -> {<<>>, 0 :> "z"} [] OTHER -> {}

Alone ==
    {[p \in {p1, p2} |-> IF p = p1 THEN <<Job(t, d, s)>> ELSE <<>>] :
        <<t, d, s>> \in UNION {{<<t, d, s>> : d \in {Zero(t)} \cup Held(t), s \in Sources} : t \in DOMAIN MCTypes \ {"func"}}}

\* a struct, to a map and back
AndBack ==
    {[p \in {p1, p2} |-> IF p = p1 THEN <<Job("map any", <<>>, s), Onward(s.type)>> ELSE <<>>] : s \in StructValues}

Short == {Job("Wrap", Zero("Wrap"), V("map any", "Tip" :> <<V("int", 5)>>)),
          Job("Outer", Zero("Outer"), V("map any", "ID" :> <<V("int", 2)>>)),
          Job("Row", Zero("Row"), V("Inner", <<1, 2>>)),
          Job("Data", <<>>, V("Profile", <<<<5, "x", "p">>, 2, <<V("text", "x")>>>>))}

MCLoads == Alone \cup AndBack \cup {[p \in {p1, p2} |-> IF p = p1 THEN <<a, b>> ELSE <<c>>] : a \in Short, b \in Short, c \in Short}
=============================================================================
