------------------------------ MODULE MCClone ------------------------------
(* Every well-formed graph of three nodes, and some larger ones, for TLC. *)
EXTENDS Clone

Obj(kind, kids) == [kind |-> kind, kids |-> kids]

Upto2 == {<<>>} \cup {<<a>> : a \in 1..3} \cup {<<a, b>> : a \in 1..3, b \in 1..3}

Nodes == {Obj("basic", <<>>)}
           \cup [kind : {"ptr", "iface"}, kids : {<<>>} \cup {<<a>> : a \in 1..3}]
           \cup [kind : {"slice", "map", "struct", "private"}, kids : Upto2]

To(g, n) == {g[n].kids[k] : k \in DOMAIN g[n].kids}

RECURSIVE Reached(_, _, _)
Reached(g, kinds, from) ==
    LET more == from \cup UNION {To(g, n) : n \in {n \in from : g[n].kind \in kinds}}
    IN  IF more = from THEN from ELSE Reached(g, kinds, more)

(* Go's types: the elements of a slice or map are of one type, no value holds
   itself in line, and an interface holds a value that is none. *)
WellFormed(g) ==
    /\ g[1].kind # "iface"
    /\ Reached(g, Inline \cup Nillable, {1}) = DOMAIN g
    /\ \A n \in DOMAIN g :
         /\ g[n].kind \in Inline =>
              n \notin Reached(g, Inline, To(g, n))
         /\ g[n].kind = "iface" => \A k \in To(g, n) : g[k].kind # "iface"
         /\ g[n].kind \in {"slice", "map"} =>
              \A j, k \in To(g, n) : g[j].kind = g[k].kind /\ (g[j].kind # "basic" => j = k)

Small == {g \in [1..3 -> Nodes] : WellFormed(g)}

B == Obj("basic", <<>>)

Large == {
    \* a pointer to a struct, and one to its first field, typed and not
    <<Obj("struct", <<2, 3>>), Obj("ptr", <<4>>), Obj("ptr", <<5>>), Obj("struct", <<5>>), B>>,
    <<Obj("slice", <<2, 3>>), Obj("iface", <<4>>), Obj("iface", <<5>>), Obj("ptr", <<6>>),
      Obj("ptr", <<7>>), Obj("struct", <<7>>), B>>,
    <<Obj("map", <<2, 3>>), Obj("iface", <<4>>), Obj("iface", <<5>>), Obj("ptr", <<6>>),
      Obj("ptr", <<7>>), Obj("struct", <<7>>), B>>,
    \* a list of three, and a tree whose leaves know the root
    <<Obj("ptr", <<2>>), Obj("struct", <<3, 4>>), B, Obj("ptr", <<5>>), Obj("private", <<3, 1>>)>>,
    <<Obj("ptr", <<2>>), Obj("struct", <<3>>), Obj("slice", <<4, 5>>), Obj("ptr", <<6>>),
      Obj("ptr", <<7>>), Obj("struct", <<1>>), Obj("struct", <<1>>)>>,
    \* a time by value: two numbers and a pointer to a private struct
    <<Obj("private", <<2, 2, 3>>), B, Obj("ptr", <<4>>), Obj("private", <<2, 5>>), Obj("slice", <<6>>),
      Obj("private", <<2>>)>>,
    \* named basic values, functions, channels and arrays, with an address and without
    <<Obj("private", <<2>>), Obj("named", <<>>)>>,
    <<Obj("ptr", <<2>>), Obj("private", <<3, 4, 5>>), Obj("named", <<>>), Obj("func", <<>>), Obj("chan", <<3, 3>>)>>,
    <<Obj("private", <<2, 3>>), Obj("chan", <<4>>), Obj("array", <<4, 4>>), B>>,
    <<Obj("array", <<2, 3>>), Obj("struct", <<4>>), Obj("struct", <<4>>), Obj("func", <<>>)>>,
    \* a map that holds itself, nil and a slice in interfaces
    <<Obj("map", <<2, 3, 4>>), Obj("iface", <<1>>), Obj("iface", <<>>), Obj("iface", <<5>>), Obj("slice", <<>>)>>}

(* A slice, and a map, that holds itself. *)
MCSelfHolding == {<<Obj(kind, <<2>>), Obj("iface", <<1>>)>> : kind \in {"slice", "map"}}

MCGraphs == Small \cup Large
=============================================================================
