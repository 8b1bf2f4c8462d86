-------------------------------- MODULE Pick --------------------------------
(***************************************************************************)
(* Pick: one picker per selector walks the whole object, one step per call *)
(* of walk.  An object is a tree, a sequence of nodes numbered in the      *)
(* order of the walk, node 1 the root: elements come by index, entries and *)
(* exported fields (a struct is walked like a map) by their names.         *)
(***************************************************************************)
EXTENDS Selector

CONSTANT Calls   \* [object, rules, want, breaks, distinct]: the calls of Pick

Containers == {"map", "slice"}
Basic      == {"text", "int", "odd"}   \* odd: a number whose type toString does not know
Leaves     == Basic \cup {"nil"}       \* nil: a nil pointer

(* What the type T of a call does to the kinds of values: those it is or Cast
   makes one of, in `want`, those at which Cast panics, in `breaks`; of the
   others Cast makes an error. *)

ASSUME PickAssumption ==
    \A c \in Calls :
        /\ c.want \subseteq Containers \cup Leaves /\ c.breaks \cap c.want = {}
        /\ c.distinct \in BOOLEAN
        /\ c.rules \in Seq(Range(c.rules))
        /\ \A r \in DOMAIN c.rules :
              /\ c.rules[r].text \in Seq(Char)
              /\ c.rules[r].nodes # <<>> => IsWritten(c.rules[r])
        /\ c.object \in Seq(Range(c.object)) /\ c.object # <<>>
        /\ \A n \in DOMAIN c.object :
             LET kids(m) == c.object[m].kids
             IN  /\ c.object[n].kind \in Containers \cup Leaves
                 /\ kids(n) \subseteq (n + 1)..Len(c.object)
                 /\ n > 1 => \E m \in 1..n - 1 : n \in kids(m)
                 /\ \A m \in 1..n - 1 : kids(m) \cap kids(n) = {}
                 /\ \A j, k \in kids(n) : \A m \in j..k - 1 : \A x \in kids(m) : x < k

VARIABLES
    called,    \* the call under way
    pickers,   \* for each selector: where its picker is, what it has
    ended,     \* "running" while Pick runs, then "returned" or "panicked"
    answer     \* the nodes Pick returned

pickVars == <<called, pickers, ended, answer>>

Rules == called.rules

Node(n) == called.object[n]

Lower == [c \in {"A"} |-> "a"]

EqualFold(a, b) ==
    LET low(c) == IF c \in DOMAIN Lower THEN Lower[c] ELSE c
    IN  Len(a) = Len(b) /\ \A k \in DOMAIN a : low(a[k]) = low(b[k])

toString(n) == IF Node(n).kind \in {"text", "int"} THEN Node(n).text ELSE <<>>

IsFloat(n) == Node(n).kind \in Leaves /\ IsNumeral(Node(n).text)

Includes(text, part) ==
    \E k \in 0..(Len(text) - Len(part)) : SubSeq(text, k + 1, k + Len(part)) = part

Satisfies(n, prop) ==
    LET size == Len(Node(n).text)  than == Len(prop.value)
    IN  CASE prop.op = "==" -> toString(n) = prop.value
          [] prop.op = "!=" -> toString(n) # prop.value
          [] prop.op = "*=" -> Includes(toString(n), prop.value)
          [] prop.op = ">"  -> IsFloat(n) /\ size > than
          [] prop.op = ">=" -> IsFloat(n) /\ size >= than
          [] prop.op = "<"  -> IsFloat(n) /\ size < than
          [] prop.op = "<=" -> IsFloat(n) /\ size <= than
          [] prop.op = "err" -> FALSE

(* Every property is there, under exactly this name, and satisfied. *)
matchProps(kids, node) ==
    \A p \in DOMAIN node.props : \E k \in kids : Node(k).key = p /\ Satisfies(k, node.props[p])

(* The node of a selector fits a value found under `key`; only a container can
   have properties. *)
Fits(n, key, kids, node) ==
    /\ node.key = <<>> \/ EqualFold(node.key, key)
    /\ IF Node(n).kind \in Containers THEN matchProps(kids, node) ELSE node.props = <<>>

(* kvMap holds one value per name: of a map's keys without a name of their own
   any one stays. *)
OnePerKey(n) ==
    {S \in SUBSET Node(n).kids :
       \A k \in Node(n).kids : Cardinality({j \in S : Node(j).key = Node(k).key}) = 1}

-----------------------------------------------------------------------------
NewPicker == [at |-> "parse", nodes |-> <<>>, stack |-> <<>>, result |-> <<>>]

PickInit ==
    /\ called \in Calls
    /\ pickers = [r \in DOMAIN called.rules |-> NewPicker]
    /\ ended = "running" /\ answer = <<>>

(* A panic ends a picker; one that runs in the WaitGroup turns it into an error. *)
Panics(r) == pickers' = [pickers EXCEPT ![r].at = "panicked"]

At(r, place) == ended = "running" /\ pickers[r].at = place

TopWalk(r) == pickers[r].stack[Len(pickers[r].stack)]

(* pick parses its selector.  A selector without nodes panics as soon as the
   walk looks for its first one. *)
Parse(r) ==
    /\ At(r, "parse")
    /\ LET p == parse(Rules[r].text)
       IN  IF p.panic \/ p.nodes = <<>> THEN Panics(r)
           ELSE pickers' = [pickers EXCEPT ![r].at = "walk", ![r].nodes = p.nodes]
    /\ UNCHANGED <<called, ended, answer>>

(* Mutant: below a match the selector starts again. *)
DescendAnew(pos, matched, last) == IF matched THEN 1 ELSE pos

(* The node of the selector the children of a value are held against. *)
Descend(pos, matched, last) == IF matched /\ ~last THEN pos + 1 ELSE pos

(* Cast panics at a nil pointer that it is to make a value of, and at everything
   if it is to make an array. *)
Breaks(n) == Node(n).kind \in called.breaks

(* walk on entry: hold the value against the node of the selector its parent
   left, push it as a result if it was the last one, go below.  A frame has the
   kids that are still to be walked. *)
Walk(r, n, key, pos, stack) ==
    \E kids \in OnePerKey(n) :
        LET nodes   == pickers[r].nodes
            matched == Fits(n, key, kids, nodes[pos])
            last    == pos = Len(nodes)
            frame   == [node |-> n, kids |-> kids, pos |-> Descend(pos, matched, last)]
        IN  IF matched /\ last /\ Breaks(n) THEN Panics(r)
            ELSE pickers' = [pickers EXCEPT
                    ![r].stack = Append(stack, frame),
                    ![r].result = IF matched /\ last /\ Node(n).kind \in called.want
                                  THEN Append(@, n) ELSE @,
                    ![r].at = "walking"]

WalkRoot(r) ==
    /\ At(r, "walk")
    /\ Walk(r, 1, <<>>, 1, <<>>)
    /\ UNCHANGED <<called, ended, answer>>

WalkKid(r) ==
    /\ At(r, "walking") /\ TopWalk(r).kids # {}
    /\ LET kid == Min(TopWalk(r).kids)
           depth == Len(pickers[r].stack)
       IN  Walk(r, kid, Node(kid).key, TopWalk(r).pos, [pickers[r].stack EXCEPT ![depth].kids = @ \ {kid}])
    /\ UNCHANGED <<called, ended, answer>>

WalkReturn(r) ==
    /\ At(r, "walking") /\ TopWalk(r).kids = {}
    /\ pickers' = [pickers EXCEPT ![r].stack = Front(@),
                     ![r].at = IF Len(pickers[r].stack) = 1 THEN "walked" ELSE @]
    /\ UNCHANGED <<called, ended, answer>>

(* With several selectors each stores its result into a slice without length,
   and panics. *)
Store(r) ==
    /\ At(r, "walked") /\ Len(Rules) > 1
    /\ Panics(r)
    /\ UNCHANGED <<called, ended, answer>>

(* What the deferred function compares: the value, as Cast made it if the
   results are texts. *)
Value(n) == IF called.want = Basic THEN Node(n).text ELSE <<Node(n).kind, Node(n).text>>

WithNew(seen, n) == IF \E k \in DOMAIN seen : Value(seen[k]) = Value(n) THEN seen ELSE Append(seen, n)

Distinct(result) ==
    LET seen[k \in 0..Len(result)] == IF k = 0 THEN <<>> ELSE WithNew(seen[k - 1], result[k])
    IN  seen[Len(result)]

(* Pick's deferred function takes the results as keys of a map, and panics if
   one cannot be a key. *)
Finish(result) ==
    IF called.distinct /\ \E k \in DOMAIN result : Node(result[k]).kind \in Containers
    THEN ended' = "panicked" /\ UNCHANGED answer
    ELSE /\ ended' = "returned"
         /\ answer' = IF called.distinct THEN Distinct(result) ELSE result

(* Pick returns: nothing without a selector, the result of the only one. *)
PickReturn ==
    /\ ended = "running"
    /\ \/ Rules = <<>> /\ Finish(<<>>)
       \/ Len(Rules) = 1 /\ pickers[1].at = "walked" /\ Finish(pickers[1].result)
       \/ Len(Rules) = 1 /\ pickers[1].at = "panicked" /\ ended' = "panicked" /\ UNCHANGED answer
    /\ UNCHANGED <<called, pickers>>

(* WaitGroup.Wait has the errors of all pickers, or their results in order. *)
Wait ==
    /\ ended = "running" /\ Len(Rules) > 1
    /\ \A r \in DOMAIN Rules : pickers[r].at = "panicked"
    /\ Finish(<<>>)
    /\ UNCHANGED <<called, pickers>>

PickNext ==
    \/ \E r \in DOMAIN Rules : Parse(r) \/ WalkRoot(r) \/ WalkKid(r) \/ WalkReturn(r) \/ Store(r)
    \/ PickReturn \/ Wait

PickSpec == PickInit /\ [][PickNext]_pickVars

-----------------------------------------------------------------------------
(* The values a value is below. *)
Above(n) ==
    LET holders(m) == {h \in DOMAIN called.object : m \in Node(h).kids}
        above[m \in DOMAIN called.object] == UNION {above[h] \cup {h} : h \in holders(m)}
    IN  above[n]

FitsBelow(n, node) == Fits(n, IF n = 1 THEN <<>> ELSE Node(n).key, Node(n).kids, node)

(* What a selector leads to: the values its last node fits, each with values
   above it that the other nodes fit, in their order. *)
LedTo(n, nodes) ==
    /\ FitsBelow(n, Last(nodes))
    /\ \E place \in [1..(Len(nodes) - 1) -> Above(n)] :
         \A k \in DOMAIN place :
            /\ FitsBelow(place[k], nodes[k])
            /\ k > 1 => place[k - 1] < place[k]

(* What it selects: of these, the values that are or become a T. *)
Selected(n, nodes) == Node(n).kind \in called.want /\ LedTo(n, nodes)

(* The values of a map that have one name: all but one are hidden. *)
Twins(n) ==
    {k \in Node(n).kids : \E j \in Node(n).kids \ {k} : Node(j).key = Node(k).key}

(* A value that may be hidden or is below such a value, or that is, or is below,
   a map of which the selector looks at such a value. *)
Hidden(n, nodes) ==
    \E m \in Above(n) \cup {n} :
        \E k \in Twins(m) :
            \/ k \in Above(n) \cup {n}
            \/ \E i \in DOMAIN nodes : Node(k).key \in DOMAIN nodes[i].props

(* Pick collects what its selector selects, every value once and in the order
   of the walk; of values that hide each other it may miss some.  Several
   selectors collect nothing (walk, checkMatchPos, Pick's results). *)
PickAnswers ==
    ended = "returned" =>
        IF Len(Rules) # 1 THEN answer = <<>>
        ELSE LET all  == {n \in DOMAIN called.object : Selected(n, pickers[1].nodes)}
                 once == {Value(n) : n \in all}
             IN  /\ \A k \in DOMAIN answer : answer[k] \in all /\ (k > 1 => answer[k - 1] < answer[k])
                 /\ \A n \in all : \/ Hidden(n, pickers[1].nodes) \/ n \in Range(answer)
                                   \/ called.distinct /\ \E m \in Range(answer) : m < n /\ Value(m) = Value(n)
                 /\ called.distinct => Len(answer) <= Cardinality(once)

(* A selector in which no text holds a character of the language, or a quote
   or bracket if its values are quoted, and whose numbers are numbers. *)
Plain(rule) ==
    LET special == Space \cup Quotes \cup Signs \cup {"[", "]", "=", ","}
        chars(text) == Range(text)
    IN  \A k \in DOMAIN rule.nodes :
            /\ chars(rule.nodes[k].key) \cap special = {}
            /\ rule.nodes[k].key # <<>> \/ rule.nodes[k].props # <<>>
            /\ \A p \in DOMAIN rule.nodes[k].props :
                 LET prop == rule.nodes[k].props[p]
                 IN  /\ p # <<>> /\ chars(p) \cap special = {}
                     /\ prop.op \in {"==", "!=", "*="} \/ IsNumeral(prop.value)
                     /\ IF rule.quote = <<>> THEN chars(prop.value) \cap special = {}
                        ELSE chars(prop.value) \cap {rule.quote[1], "]"} = {}

(* The parser gives a selector written from plain nodes the nodes it was written
   from, commas, signs and spaces between quotes included (parse, parseExpr,
   setProp). *)
ParsesAsWritten ==
    \A r \in DOMAIN Rules :
        /\ Rules[r].nodes # <<>> /\ Plain(Rules[r]) /\ pickers[r].at # "parse"
        => pickers[r].nodes = Rules[r].nodes

(* Only a selector without nodes, one that ends an expression with a sign or
   holds two quotes side by side, one that leads to a value Cast panics at (a nil
   pointer, if T is no pointer), or containers that were to be distinct make Pick
   panic, and with several selectors nothing does (next, setProp, pick,
   pushResult, the deferred function, WaitGroup.Go). *)
PanicsExplained ==
    ended = "panicked" =>
        /\ Len(Rules) = 1
        /\ LET text == Rules[1].text
           IN  \/ Range(text) \subseteq Space \cup {"]"}
               \/ \E k \in 1..(Len(text) - 1) :
                    \/ text[k] \in Signs /\ text[k + 1] = "]"
                    \/ text[k] \in Quotes /\ text[k + 1] = text[k]
               \/ \E n \in DOMAIN called.object : Breaks(n) /\ LedTo(n, pickers[1].nodes)
               \/ /\ called.distinct
                  /\ \E k \in DOMAIN pickers[1].result : Node(pickers[1].result[k]).kind \in Containers
=============================================================================
