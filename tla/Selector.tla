------------------------------ MODULE Selector ------------------------------
(***************************************************************************)
(* The selector language of Pick and its parser.  A text is a sequence of  *)
(* characters, a selector a sequence of nodes, each with a key and a       *)
(* partial function from the names of properties to an operator and a      *)
(* value.  The numerals are the runs of "1": a longer one is greater.      *)
(***************************************************************************)
EXTENDS Integers, FiniteSets, Sequences, SequencesExt

Char   == STRING   \* a character
Space  == {" "}
Quotes == {"\"", "'"}
Signs  == {"<", ">", "!", "*"}

IsWord(c) == c \notin Space \cup {"[", "]"}

IsNumeral(text) == text # <<>> /\ \A k \in DOMAIN text : text[k] = "1"

Cut(text, n) == SubSeq(text, n + 1, Len(text))

Starts(text, prefix) == Len(prefix) <= Len(text) /\ SubSeq(text, 1, Len(prefix)) = prefix

(* What a value means: the operator it starts with, and the rest.  One that is
   to be compared as a number and is none makes the property an error. *)
Prop(value) ==
    LET number(op, n) == [op |-> IF IsNumeral(Cut(value, n)) THEN op ELSE "err",
                          value |-> Cut(value, n)]
    IN  CASE Starts(value, <<"*", "=">>) -> [op |-> "*=", value |-> Cut(value, 2)]
          [] Starts(value, <<"!", "=">>) -> [op |-> "!=", value |-> Cut(value, 2)]
          [] Starts(value, <<">", "=">>) -> number(">=", 2)
          [] Starts(value, <<">">>) /\ ~Starts(value, <<">", "=">>) -> number(">", 1)
          [] Starts(value, <<"<", "=">>) -> number("<=", 2)
          [] Starts(value, <<"<">>) /\ ~Starts(value, <<"<", "=">>) -> number("<", 1)
          [] OTHER -> [op |-> "==", value |-> Cut(value, 1)]

WithProp(props, key, prop) ==
    [p \in DOMAIN props \cup {key} |-> IF p = key THEN prop ELSE props[p]]

(* setProp cuts a character off a value that has no operator: an empty one
   panics. *)
setProp(e, key, value) ==
    IF value = <<>> THEN [e EXCEPT !.panic = TRUE]
    ELSE [e EXCEPT !.props = WithProp(@, key, Prop(value))]

NewExpr == [key |-> <<>>, value |-> <<>>, quote |-> "none", props |-> <<>>, panic |-> FALSE]

(* Mutant: a key without a value counts. *)
EndPairAnyValue(e) ==
    LET set == IF e.key # <<>> THEN setProp(e, e.key, e.value) ELSE e
    IN  [set EXCEPT !.key = <<>>, !.value = <<>>]

(* A pair ends: it counts if it has a key and a value. *)
EndPair(e) ==
    LET set == IF e.key # <<>> /\ e.value # <<>> THEN setProp(e, e.key, e.value) ELSE e
    IN  [set EXCEPT !.key = <<>>, !.value = <<>>]

(* One character of parseExpr.  After a sign it looks for a "=" one place
   further on, and the look panics at the end of the text. *)
ExprChar(str, e, i) ==
    LET c == str[i]
    IN  CASE c \in Quotes /\ e.quote = "none" -> [e EXCEPT !.quote = c]
          [] c \in Quotes /\ e.quote = c ->
               [setProp(e, e.key, e.value) EXCEPT !.quote = "none", !.key = <<>>, !.value = <<>>]
          [] c \in Signs /\ e.quote = "none" ->
               [e EXCEPT !.value = Append(@, c), !.panic = @ \/ i = Len(str)]
          [] c = "=" /\ e.quote = "none" -> [e EXCEPT !.value = Append(@, c)]
          [] c = "," /\ e.quote = "none" -> EndPair(e)
          [] e.quote = "none" /\ c \notin Quotes \cup Signs \cup {"=", ","} ->
               IF e.value = <<>> THEN [e EXCEPT !.key = Append(@, c)]
                                 ELSE [e EXCEPT !.value = Append(@, c)]
          [] OTHER -> [e EXCEPT !.value = Append(@, c)]

ExprStep(str, e, i) == IF e.panic THEN e ELSE ExprChar(str, e, i)

ExprChars(str) ==
    LET after[i \in 0..Len(str)] == IF i = 0 THEN NewExpr ELSE ExprStep(str, after[i - 1], i)
    IN  after[Len(str)]

(* Mutant: the last pair needs a comma after it. *)
parseExprNoLast(str) == ExprChars(str)

parseExpr(str) ==
    LET e == ExprChars(str) IN IF e.panic THEN e ELSE EndPair(e)

NewParse == [nodes |-> <<>>, current |-> FALSE, buf |-> <<>>, inside |-> FALSE, panic |-> FALSE]

(* The node a character belongs to: the current one, or a new one. *)
WithNode(p) ==
    IF p.current THEN p
    ELSE [p EXCEPT !.current = TRUE, !.nodes = Append(@, [key |-> <<>>, props |-> <<>>])]

Keyed(p) ==
    IF p.buf = <<>> THEN p
    ELSE [p EXCEPT !.nodes[Len(p.nodes)].key = p.buf, !.buf = <<>>]

(* One character of parse.  Between brackets everything up to the first "]" is
   one expression, quotes or not. *)
ParseChar(p, c) ==
    CASE p.inside /\ c = "]" ->
           LET e == parseExpr(p.buf)
           IN  [p EXCEPT !.nodes[Len(p.nodes)].props = e.props, !.panic = e.panic,
                         !.buf = <<>>, !.inside = FALSE, !.current = FALSE]
      [] p.inside /\ c # "]" -> [p EXCEPT !.buf = Append(@, c)]
      [] ~p.inside /\ IsWord(c) -> [WithNode(p) EXCEPT !.buf = Append(@, c)]
      [] ~p.inside /\ c \in Space -> IF p.current THEN [Keyed(p) EXCEPT !.current = FALSE] ELSE p
      [] ~p.inside /\ c = "[" -> [Keyed(WithNode(p)) EXCEPT !.inside = TRUE]
      [] OTHER -> p

ParseStep(p, c) == IF p.panic THEN p ELSE ParseChar(p, c)

(* The nodes of a selector, and whether the parser panics. *)
parse(text) ==
    LET chars == Append(text, " ")
        after[i \in 0..Len(chars)] == IF i = 0 THEN NewParse ELSE ParseStep(after[i - 1], chars[i])
        p == after[Len(chars)]
    IN  [nodes |-> p.nodes, panic |-> p.panic]

-----------------------------------------------------------------------------
(* How a caller writes a selector, for the properties: values between quotes,
   or, if `quote` is empty, as they are. *)
Sign(op) == CASE op = "==" -> <<"=">> [] op = "*=" -> <<"*", "=">> [] op = "!=" -> <<"!", "=">>
              [] op = ">=" -> <<">", "=">> [] op = ">" -> <<">">>
              [] op = "<=" -> <<"<", "=">> [] op = "<" -> <<"<">>

WritePair(key, prop, quote) == key \o Sign(prop.op) \o quote \o prop.value \o quote

Joined(parts, separator) ==
    LET upto[k \in 0..Len(parts)] ==
          IF k = 0 THEN <<>>
          ELSE IF k = 1 THEN parts[1] ELSE upto[k - 1] \o separator \o parts[k]
    IN  upto[Len(parts)]

WriteNode(node, quote) ==
    LET keys == SetToSeq(DOMAIN node.props)
        pairs == [k \in DOMAIN keys |-> WritePair(keys[k], node.props[keys[k]], quote)]
    IN  IF keys = <<>> THEN node.key
        ELSE node.key \o <<"[">> \o Joined(pairs, <<",">>) \o <<"]">>

Write(nodes, quote) == Joined([k \in DOMAIN nodes |-> WriteNode(nodes[k], quote)], <<" ">>)

Ops == {"==", "*=", "!=", ">=", ">", "<=", "<"}

(* A rule with nodes has the text a caller writes for them. *)
IsWritten(rule) ==
    /\ rule.text = Write(rule.nodes, rule.quote)
    /\ rule.quote = <<>> \/ \E q \in Quotes : rule.quote = <<q>>
    /\ rule.nodes \in Seq(Range(rule.nodes))
    /\ \A k \in DOMAIN rule.nodes :
          LET node == rule.nodes[k]
          IN  /\ node = [key |-> node.key, props |-> node.props] /\ node.key \in Seq(Char)
              /\ IsFiniteSet(DOMAIN node.props) /\ DOMAIN node.props \subseteq Seq(Char)
              /\ node.props \in [DOMAIN node.props -> [op : Ops, value : Seq(Char)]]
=============================================================================
