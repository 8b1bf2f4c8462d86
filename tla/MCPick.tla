------------------------------- MODULE MCPick -------------------------------
(* Objects, selectors written from nodes, and selectors as they come. *)
EXTENDS Pick, TLC

Leaf(key, kind, text) == [kind |-> kind, key |-> key, text |-> text, kids |-> {}]
Box(key, kind, kids) == [kind |-> kind, key |-> key, text |-> <<>>, kids |-> kids]

\* a list of records below "a", with a record in the second
List == <<Box(<<>>, "map", {2}),
          Box(<<"a">>, "slice", {3, 6}),
          Box(<<"0">>, "map", {4, 5}), Leaf(<<"a">>, "int", <<"1">>), Leaf(<<"b">>, "text", <<"x">>),
          Box(<<"1">>, "map", {7, 8, 9}), Leaf(<<"a">>, "int", <<"1", "1">>), Leaf(<<"b">>, "text", <<"1">>),
          Box(<<"c">>, "map", {10, 11}), Leaf(<<"A">>, "odd", <<"1">>), Leaf(<<"b">>, "text", <<"x">>)>>

\* "a" within "a" within "a"
Deep == <<Box(<<>>, "map", {2}), Box(<<"a">>, "map", {3, 6}), Box(<<"a">>, "map", {4, 5}),
          Leaf(<<"a">>, "text", <<"x", "1">>), Leaf(<<"b">>, "int", <<"1">>), Leaf(<<"b">>, "odd", <<"1", "1">>)>>

\* a map whose keys are of a type toString does not know
Odd == <<Box(<<>>, "map", {2, 5}), Box(<<>>, "map", {3, 4}), Leaf(<<"a">>, "int", <<"1">>),
         Leaf(<<"b">>, "text", <<"1">>), Leaf(<<>>, "text", <<"x">>)>>

\* nil pointers beside and below what has the same name
Nils == <<Box(<<>>, "map", {2, 5}), Box(<<"a">>, "map", {3, 4}), Leaf(<<"a">>, "int", <<"1">>),
          Leaf(<<"b">>, "nil", <<>>), Box(<<"b">>, "slice", {6, 7}), Leaf(<<"0">>, "nil", <<>>),
          Leaf(<<"1">>, "text", <<"x">>)>>

Single == <<Leaf(<<>>, "text", <<"x">>)>>

Keys == {<<>>, <<"a">>, <<"b">>}
Tests == {"==", "!=", "*=", ">", ">=", "<", "<="}
Plainest == {<<"1">>, <<"x">>}
Values == Plainest \cup {<<>>, <<",", "1">>, <<"=", " ">>, <<"*", "'">>}

Conditions == {<<>>} \cup
    {p :> [op |-> o, value |-> v] : p \in {<<"a">>, <<"b">>}, o \in {"==", "*="}, v \in Values} \cup
    {p :> [op |-> o, value |-> v] : p \in {<<"a">>, <<"b">>}, o \in Tests, v \in Plainest}

OneNode == {[key |-> k, props |-> c] : k \in Keys, c \in Conditions}

Both == {[key |-> <<>>, props |-> <<"a">> :> [op |-> o, value |-> <<"1">>] @@ <<"b">> :> [op |-> e, value |-> v]] :
           o \in Tests, e \in {"==", "!="}, v \in {<<"x">>, <<"1">>}}

Word(k) == [key |-> k, props |-> <<>>]

Written ==
    LET named == {n \in OneNode : n.key # <<>> \/ n.props # <<>>}
        simple == {Word(<<"a">>), Word(<<"b">>), Word(<<"A">>)}
        rule(nodes, q) == [text |-> Write(nodes, q), nodes |-> nodes, quote |-> q]
    IN  {rule(<<n>>, q) : n \in named \cup Both, q \in {<<>>, <<"\"">>}}
          \cup {rule(<<w, n>>, <<"\"">>) : w \in simple, n \in named}
          \cup {rule(<<n, w>>, <<"'">>) : w \in simple, n \in {n \in named : n.key = <<>>}}
          \cup {rule(<<v, w, u>>, <<>>) : u \in simple, v \in simple, w \in simple}

Raw == {[text |-> t, nodes |-> <<>>, quote |-> <<>>] :
          t \in UNION {[1..k -> {"a", "[", "]", "=", "\"", ">"}] : k \in 0..4}
                  \cup {<<"[", "a", "*", c, "x", d, "]">> : c \in {"=", "x"}, d \in {"\"", "'", "!", ",", "]"}}}

\* what types T take, and what Cast panics at
AsText  == [want |-> Basic, breaks |-> {"nil"}]
AsAny   == [want |-> Containers \cup Leaves, breaks |-> {}]
AsMap   == [want |-> {"map"}, breaks |-> {"nil"}]
AsArray == [want |-> {}, breaks |-> Containers \cup Leaves]

MCCalls ==
    LET call(o, rs, T, d) == [object |-> o, rules |-> rs, want |-> T.want, breaks |-> T.breaks, distinct |-> d]
        pair == {CHOOSE r \in Written : r.text = <<"a">>, CHOOSE r \in Raw : r.text = <<">">>,
                 CHOOSE r \in Raw : r.text = <<"[", ">", "]">>, CHOOSE r \in Raw : r.text = <<>>}
    IN  {call(o, <<r>>, T, d) : o \in {List, Deep}, r \in Written, T \in {AsText, AsAny}, d \in BOOLEAN}
          \cup {call(Nils, <<r>>, T, d) : r \in {r \in Written : \A k \in DOMAIN r.nodes : Cardinality(DOMAIN r.nodes[k].props) < 2},
                                          T \in {AsText, AsAny, AsMap, AsArray}, d \in BOOLEAN}
          \cup {call(Odd, <<r>>, AsText, FALSE) : r \in {r \in Written : Len(r.nodes) <= 2 /\ \A k \in DOMAIN r.nodes : r.nodes[k].props = <<>>}}
          \cup {call(Odd, <<[text |-> <<"[", "=", "\"", "x", "\"", "]">>, nodes |-> <<>>, quote |-> <<>>]>>, AsAny, FALSE)}
          \cup {call(Deep, <<r>>, AsAny, FALSE) : r \in Raw}
          \cup {call(Single, <<r, s>>, AsText, d) : r \in pair, s \in pair, d \in BOOLEAN}
          \cup {call(Nils, <<r, s>>, AsText, FALSE) : r \in pair, s \in pair}
          \cup {call(Single, <<>>, AsText, TRUE)}
=============================================================================
