---------------------------- MODULE ObjectProofs ----------------------------
(***************************************************************************)
(* Theorems about the modules that walk objects: Clone (what a clone of    *)
(* any graph shares and copies), FieldCache (the maps goroutines build of  *)
(* a type's fields) and Pick (what can make it panic, what it answers).    *)
(***************************************************************************)
EXTENDS Clone, FieldCache, Pick, DataLemmas, SequenceTheorems

-----------------------------------------------------------------------------
(* The operators of Clone with the graph as a parameter, so that a step, which
   leaves the graph alone, leaves them alone. *)
NilIn(g, n) == g[n].kind \in Nillable /\ g[n].kids = <<>>

AddressIn(g, n) ==
    LET holders(m) == {s \in DOMAIN g : g[s].kind \in Inline /\ g[s].kids # <<>> /\ g[s].kids[1] = m}
        address[m \in DOMAIN g] ==
            IF holders(m) = {} THEN m ELSE address[CHOOSE s \in holders(m) : TRUE]
    IN  address[n]

PartIn(g, n, kid) ==
    IF g[n].kind = "chan" THEN <<>>
    ELSE IF g[n].kind # "map" \/ g[kid].kind # "iface" THEN <<kid>>
    ELSE IF NilIn(g, kid) THEN <<>> ELSE <<g[kid].kids[1]>>

Upto(g, n) ==
    LET upto[k \in 0..Len(g[n].kids)] ==
            IF k = 0 THEN <<>> ELSE upto[k - 1] \o PartIn(g, n, g[n].kids[k])
    IN  upto

InInterfaceIn(g, n, k) ==
    \/ g[n].kind = "iface"
    \/ g[n].kind = "map" /\ \E i \in DOMAIN g[n].kids :
         g[g[n].kids[i]].kind = "iface" /\ ~NilIn(g, g[n].kids[i]) /\ g[g[n].kids[i]].kids[1] = k

KidSetIn(g) == [n \in DOMAIN g |-> {g[n].kids[k] : k \in DOMAIN g[n].kids}]

HeldIn(g) == {1} \cup UNION {KidSetIn(g)[n] : n \in {n \in DOMAIN g : g[n].kind \in {"map", "iface"}}}

WithParts(g, S) == S \cup UNION {KidSetIn(g)[n] : n \in {n \in S : g[n].kind \in Inline}}

PartsIn(g) ==
    LET parts[k \in 0..Len(g)] == IF k = 0 THEN HeldIn(g) ELSE WithParts(g, parts[k - 1])
    IN  parts

ByValueIn(g) == PartsIn(g)[Len(g)]

(* Two pointers to one address at two types. *)
TwoTypes(g) ==
    \E p, q \in DOMAIN g :
       /\ g[p].kind = "ptr" /\ g[q].kind = "ptr" /\ ~NilIn(g, p) /\ ~NilIn(g, q)
       /\ g[p].kids[1] # g[q].kids[1] /\ AddressIn(g, g[p].kids[1]) = AddressIn(g, g[q].kids[1])

(* A private struct without an address that holds more than basic values. *)
HasSecret(g) ==
    \E n \in ByValueIn(g) :
       /\ g[n].kind = "private"
       /\ \E k \in DOMAIN g[n].kids : g[g[n].kids[k]].kind # "basic" /\ ~NilIn(g, g[n].kids[k])

-----------------------------------------------------------------------------
(* The invariant. *)
Type(g) == [kind : Shared \cup Inline \cup Nillable \cup {"chan"}, kids : Seq(DOMAIN g)]

ValIn(g) == [n : DOMAIN g, addr : BOOLEAN, ro : BOOLEAN]

HeapType(g) == Seq([of : DOMAIN g, kids : Seq(Int)])

StackType(g) == Seq([v : ValIn(g), d : Nat, next : Nat])

TypeOK ==
    /\ graph \in Graphs /\ heap \in HeapType(graph) /\ stack \in StackType(graph)
    /\ call \in ValIn(graph) \cup {NoCall}
    /\ status \in {"running", "done", "error", "overflow"}

(* The frame waits for the copy of m. *)
Awaits(g, f, m) ==
    /\ f.next <= Len(g[f.v.n].kids)
    /\ (g[f.v.n].kind = "map" /\ f.v.ro) \/ PartIn(g, f.v.n, g[f.v.n].kids[f.next]) = <<m>>

(* The calls under way: each fills a copy of its own, and waits for the next. *)
FrameOK(g, h, f) ==
    /\ f.d \in 1..Len(h) /\ h[f.d].of = f.v.n
    /\ g[f.v.n].kind \in Inline \cup Nillable /\ ~NilIn(g, f.v.n)
    /\ f.next \in 1..Len(g[f.v.n].kids) + 1
    /\ g[f.v.n].kind = "map" /\ f.v.ro => f.next = 1

FramesOK(g, h, s) ==
    /\ \A k \in 1..Len(s) : FrameOK(g, h, s[k])
    /\ \A j, k \in 1..Len(s) : j < k => s[j].d # s[k].d
    /\ \A k \in 1..Len(s) : k > 1 => Awaits(g, s[k - 1], s[k].v.n)

(* What the copy of m may be, and what a place in a copy of n for it may hold. *)
SameAddress(g, o, m) ==
    /\ g[m].kind = "ptr" /\ g[o].kind = "ptr" /\ ~NilIn(g, m) /\ ~NilIn(g, o)
    /\ AddressIn(g, g[o].kids[1]) = AddressIn(g, g[m].kids[1])

Answers(g, h, v, m) ==
    \/ v = 0 /\ NilIn(g, m)
    \/ v = m /\ v >= 0 /\ g[m].kind \in Shared
    \/ v < 0 /\ -v \in 1..Len(h) /\ (h[-v].of = m \/ SameAddress(g, h[-v].of, m))

Matches(g, h, n, v, m) ==
    /\ Answers(g, h, v, m)
    /\ v < 0 /\ h[-v].of # m /\ g[h[-v].of].kids[1] # g[m].kids[1] => InInterfaceIn(g, n, m)

(* The copy c holds copies of what m kids of its original come to. *)
Filled(g, h, c, m) ==
    LET n == h[c].of
    IN  /\ Len(h[c].kids) = Len(Upto(g, n)[m])
        /\ \A i \in 1..Len(h[c].kids) : Matches(g, h, n, h[c].kids[i], Upto(g, n)[m][i])

CopiesOK(g, h, s) ==
    /\ \A k \in 1..Len(s) : Filled(g, h, s[k].d, s[k].next - 1)
    /\ \A c \in 1..Len(h) :
         (\A k \in 1..Len(s) : s[k].d # c) => Filled(g, h, c, Len(g[h[c].of].kids))

(* The pointers made are remembered under what they point to. *)
IsPtr(g, h, c, a) ==
    g[h[c].of].kind = "ptr" /\ ~NilIn(g, h[c].of) /\ AddressIn(g, g[h[c].of].kids[1]) = a

PtrsVisited(g, seen, h) ==
    \A c \in 1..Len(h) : g[h[c].of].kind = "ptr" =>
        \E a \in DOMAIN seen : IsPtr(g, h, c, a) /\ seen[a] = -c

VisitedOK(g, seen, h) ==
    \A a \in DOMAIN seen : \E c \in 1..Len(h) : IsPtr(g, h, c, a) /\ seen[a] = -c

(* A value without an address is one of ByValue; one that may not be set was
   reached through a private struct without an address. *)
Reached(g, v) ==
    /\ ~v.addr => v.n \in ByValueIn(g)
    /\ v.ro => NilIn(g, v.n) \/ HasSecret(g)

Explained(g, s) == s = <<>> \/ TwoTypes(g) \/ HasSecret(g)

CallOK ==
    /\ call # NoCall => Reached(graph, call)
    /\ call # NoCall /\ stack # <<>> => Awaits(graph, stack[Len(stack)], call.n)
    /\ \A k \in 1..Len(stack) : Reached(graph, stack[k].v)

StatusOK ==
    /\ status = "done" => stack = <<>>
    /\ status = "error" => Explained(graph, stack)
    /\ status = "running" => VisitedOK(graph, visited, heap)

Inv ==
    /\ TypeOK /\ FramesOK(graph, heap, stack) /\ CopiesOK(graph, heap, stack)
    /\ PtrsVisited(graph, visited, heap) /\ CallOK /\ StatusOK
-----------------------------------------------------------------------------
(* They are what they stand for. *)
LEMMA Same ==
    /\ \A n : IsNil(n) <=> NilIn(graph, n)
    /\ \A n : Address(n) = AddressIn(graph, n)
    /\ \A n : Content(n) = Upto(graph, n)[Len(graph[n].kids)]
    /\ \A n, k : InInterface(n, k) <=> InInterfaceIn(graph, n, k)
    /\ ByValue = ByValueIn(graph)
PROOF
<1>1. \A n : IsNil(n) <=> NilIn(graph, n)
  BY DEF IsNil, NilIn, KindOf, Kids
<1>2. \A n : Address(n) = AddressIn(graph, n)
  BY DEF Address, AddressIn, KindOf, Kids
<1>3. \A n : Content(n) = Upto(graph, n)[Len(graph[n].kids)]
  BY DEF Content, Upto, Part, PartIn, IsNil, NilIn, KindOf, Kids, Target
<1>4. \A n, k : InInterface(n, k) <=> InInterfaceIn(graph, n, k)
  BY DEF InInterface, InInterfaceIn, IsNil, NilIn, KindOf, Kids, Target
<1>5. ByValue = ByValueIn(graph)
  BY DEF ByValue, ByValueIn, PartsIn, HeldIn, WithParts, KidSet, KidSetIn, KindOf, Kids
<1> QED BY <1>1, <1>2, <1>3, <1>4, <1>5

(* An object graph. *)
IsGraph(g) == g # <<>> /\ g \in Seq(Type(g))

LEMMA GraphFacts ==
    ASSUME NEW g, IsGraph(g)
    PROVE  /\ Len(g) \in Nat \ {0} /\ DOMAIN g = 1..Len(g)
           /\ \A n \in DOMAIN g :
                /\ n \in Nat \ {0}
                /\ g[n].kind \in Shared \cup Inline \cup Nillable \cup {"chan"}
                /\ g[n].kids \in Seq(DOMAIN g) /\ Len(g[n].kids) \in Nat
                /\ \A k \in 1..Len(g[n].kids) : g[n].kids[k] \in DOMAIN g
                /\ ~NilIn(g, n) /\ g[n].kind \in Nillable => g[n].kids[1] \in DOMAIN g
PROOF
<1>1. Len(g) \in Nat \ {0} /\ DOMAIN g = 1..Len(g)
  BY DEF IsGraph
<1>2. ASSUME NEW n \in DOMAIN g PROVE g[n] \in Type(g)
  BY <1>1, <1>2 DEF IsGraph
<1>3. ASSUME NEW n \in DOMAIN g
      PROVE  /\ g[n].kind \in Shared \cup Inline \cup Nillable \cup {"chan"}
             /\ g[n].kids \in Seq(DOMAIN g)
  BY <1>2 DEF Type
<1>4. ASSUME NEW n \in DOMAIN g, NEW s \in Seq(DOMAIN g)
      PROVE  Len(s) \in Nat /\ (\A k \in 1..Len(s) : s[k] \in DOMAIN g) /\ (s # <<>> => s[1] \in DOMAIN g)
  OBVIOUS
<1> QED BY <1>1, <1>3, <1>4 DEF NilIn

LEMMA PartType ==
    ASSUME NEW g, IsGraph(g), NEW n \in DOMAIN g, NEW kid \in DOMAIN g
    PROVE  PartIn(g, n, kid) \in Seq(DOMAIN g)
PROOF
<1>1. g[kid].kind = "iface" /\ ~NilIn(g, kid) => g[kid].kids[1] \in DOMAIN g
  BY GraphFacts DEF Nillable
<1>2. <<>> \in Seq(DOMAIN g) /\ \A x \in DOMAIN g : <<x>> \in Seq(DOMAIN g)
  OBVIOUS
<1> QED BY <1>1, <1>2 DEF PartIn

(* The definition of Upto, without its recursion. *)
UptoOf(g, n, f) ==
    f = [k \in 0..Len(g[n].kids) |-> IF k = 0 THEN <<>> ELSE f[k - 1] \o PartIn(g, n, g[n].kids[k])]

LEMMA UptoIs ==
    ASSUME NEW g, IsGraph(g), NEW n \in DOMAIN g
    PROVE  /\ Upto(g, n)[0] = <<>>
           /\ \A k \in 0..Len(g[n].kids) : Upto(g, n)[k] \in Seq(DOMAIN g)
           /\ \A k \in 1..Len(g[n].kids) :
                Upto(g, n)[k] = Upto(g, n)[k - 1] \o PartIn(g, n, g[n].kids[k])
PROOF
<1> DEFINE len == Len(g[n].kids)
           A == Seq(DOMAIN g)
           step == [k \in 1..len |-> [s \in A |-> s \o PartIn(g, n, g[n].kids[k])]]
<1>1. /\ len \in Nat /\ <<>> \in A
      /\ \A k \in 1..len : PartIn(g, n, g[n].kids[k]) \in A
  BY GraphFacts, PartType
<1>2. /\ len \in 0..len /\ 0 \in 0..len
      /\ \A k \in 1..len : k \in 0..len /\ k # 0 /\ k - 1 \in 0..len
      /\ \A k \in 0..len : k = 0 \/ k \in 1..len
  BY <1>1
<1>3. \A s, t \in A : s \o t \in A
  OBVIOUS
<1> HIDE DEF A
<1>4. \A k \in 1..len : \A s \in A :
        step[k][s] = s \o PartIn(g, n, g[n].kids[k]) /\ step[k][s] \in A
  BY <1>1, <1>3
<1> HIDE DEF step
<1>5. Steps(len, A, <<>>, step)
  BY <1>1, <1>4 DEF Steps
<1>6. PICK f : Carries(f, len, A, <<>>, step)
  BY <1>5, RecursionExists
<1> HIDE DEF len
<1>7. UptoOf(g, n, f)
  <2>1. f \in [0..len -> A]
    BY <1>6 DEF Carries
  <2>2. \A k \in 0..len : f[k] = IF k = 0 THEN <<>> ELSE f[k - 1] \o PartIn(g, n, g[n].kids[k])
    BY <1>2, <1>4, <1>6, <2>1 DEF Carries
  <2> QED BY <2>1, <2>2 DEF UptoOf, len
<1> DEFINE u == CHOOSE u : UptoOf(g, n, u)
<1>8. Upto(g, n) = u
  BY DEF Upto, UptoOf
<1>9. UptoOf(g, n, u)
  BY <1>7
<1> HIDE DEF u
<1>10. u[0] = <<>> /\ \A k \in 1..len : u[k] = u[k - 1] \o PartIn(g, n, g[n].kids[k])
  <2>1. \A k \in 0..len : u[k] = IF k = 0 THEN <<>> ELSE u[k - 1] \o PartIn(g, n, g[n].kids[k])
    BY <1>9 DEF UptoOf, len
  <2> QED BY <1>2, <2>1
<1>11. \A k \in 0..len : u[k] \in A
  <2> DEFINE T == {k \in 0..len : u[k] \in A}
  <2>1. 0 \in T
    BY <1>1, <1>2, <1>10
  <2>2. \A k \in 1..len : k - 1 \in T => k \in T
    <3> SUFFICES ASSUME NEW k \in 1..len, u[k - 1] \in A PROVE u[k] \in A /\ k \in 0..len
      OBVIOUS
    <3> QED BY <1>1, <1>2, <1>3, <1>10, len \in Nat DEF len
  <2>3. \A k \in 0..len : k \in T
    <3> HIDE DEF T
    <3> QED BY <1>1, <2>1, <2>2, StretchInduction
  <2> QED BY <2>3
<1> QED BY <1>8, <1>10, <1>11 DEF A, len

-----------------------------------------------------------------------------
(* The values without an address: the sets PartsIn builds stop growing before
   the graph is exhausted. *)
PartsOf(g, f) == f = [k \in 0..Len(g) |-> IF k = 0 THEN HeldIn(g) ELSE WithParts(g, f[k - 1])]

LEMMA PartsType ==
    ASSUME NEW g, IsGraph(g)
    PROVE  /\ HeldIn(g) \in SUBSET DOMAIN g
           /\ \A S \in SUBSET DOMAIN g : WithParts(g, S) \in SUBSET DOMAIN g
PROOF
<1>1. \A n \in DOMAIN g : KidSetIn(g)[n] \subseteq DOMAIN g
  <2>1. \A n \in DOMAIN g : DOMAIN g[n].kids = 1..Len(g[n].kids)
    BY GraphFacts
  <2> QED BY <2>1, GraphFacts DEF KidSetIn
<1>2. 1 \in DOMAIN g
  BY GraphFacts
<1> QED BY <1>1, <1>2 DEF HeldIn, WithParts

LEMMA PartsIs ==
    ASSUME NEW g, IsGraph(g)
    PROVE  /\ PartsIn(g)[0] = HeldIn(g)
           /\ \A k \in 0..Len(g) : PartsIn(g)[k] \in SUBSET DOMAIN g
           /\ \A k \in 1..Len(g) : PartsIn(g)[k] = WithParts(g, PartsIn(g)[k - 1])
PROOF
<1> DEFINE len == Len(g)
           A == SUBSET DOMAIN g
           step == [k \in 1..len |-> [S \in A |-> WithParts(g, S)]]
<1>1. len \in Nat /\ HeldIn(g) \in A /\ \A S \in A : WithParts(g, S) \in A
  BY GraphFacts, PartsType
<1>2. /\ len \in 0..len /\ 0 \in 0..len
      /\ \A k \in 1..len : k \in 0..len /\ k # 0 /\ k - 1 \in 0..len
      /\ \A k \in 0..len : k = 0 \/ k \in 1..len
  BY <1>1
<1> HIDE DEF A
<1>4. \A k \in 1..len : \A S \in A : step[k][S] = WithParts(g, S) /\ step[k][S] \in A
  BY <1>1
<1> HIDE DEF step
<1>5. Steps(len, A, HeldIn(g), step)
  BY <1>1, <1>4 DEF Steps
<1>6. PICK f : Carries(f, len, A, HeldIn(g), step)
  BY <1>5, RecursionExists
<1> HIDE DEF len
<1>7. PartsOf(g, f)
  <2>1. f \in [0..len -> A]
    BY <1>6 DEF Carries
  <2>2. \A k \in 0..len : f[k] = IF k = 0 THEN HeldIn(g) ELSE WithParts(g, f[k - 1])
    BY <1>2, <1>4, <1>6, <2>1 DEF Carries
  <2> QED BY <2>1, <2>2 DEF PartsOf, len
<1> DEFINE u == CHOOSE u : PartsOf(g, u)
<1>8. PartsIn(g) = u
  BY DEF PartsIn, PartsOf
<1>9. PartsOf(g, u)
  BY <1>7
<1> HIDE DEF u
<1>10. u[0] = HeldIn(g) /\ \A k \in 1..len : u[k] = WithParts(g, u[k - 1])
  <2>1. \A k \in 0..len : u[k] = IF k = 0 THEN HeldIn(g) ELSE WithParts(g, u[k - 1])
    BY <1>9 DEF PartsOf, len
  <2> QED BY <1>2, <2>1
<1>11. \A k \in 0..len : u[k] \in A
  <2> DEFINE T == {k \in 0..len : u[k] \in A}
  <2>1. 0 \in T
    BY <1>1, <1>2, <1>10
  <2>2. \A k \in 1..len : k - 1 \in T => k \in T
    <3> SUFFICES ASSUME NEW k \in 1..len, u[k - 1] \in A PROVE u[k] \in A /\ k \in 0..len
      OBVIOUS
    <3> QED BY <1>1, <1>2, <1>10
  <2>3. \A k \in 0..len : k \in T
    <3> HIDE DEF T
    <3> QED BY <1>1, <2>1, <2>2, StretchInduction
  <2> QED BY <2>3
<1> QED BY <1>8, <1>10, <1>11 DEF A, len

LEMMA ByValueClosed ==
    ASSUME NEW g, IsGraph(g)
    PROVE  /\ 1 \in ByValueIn(g) /\ ByValueIn(g) \in SUBSET DOMAIN g
           /\ \A n \in DOMAIN g : \A k \in 1..Len(g[n].kids) :
                g[n].kind \in {"map", "iface"} \/ (g[n].kind \in Inline /\ n \in ByValueIn(g))
                => g[n].kids[k] \in ByValueIn(g)
PROOF
<1> DEFINE len == Len(g)
           P == PartsIn(g)
           T == {k \in 0..len : P[k] = WithParts(g, P[k]) \/ Cardinality(P[k]) >= k + 1}
<1>1. /\ len \in Nat /\ DOMAIN g = 1..len
      /\ P[0] = HeldIn(g)
      /\ \A k \in 0..len : P[k] \in SUBSET DOMAIN g
      /\ \A k \in 1..len : P[k] = WithParts(g, P[k - 1])
  BY GraphFacts, PartsIs
<1> HIDE DEF len, P
<1>2. /\ len \in 0..len /\ 0 \in 0..len
      /\ \A k \in 1..len : k \in 0..len /\ k - 1 \in 0..len /\ k \in Nat
  BY <1>1
<1>3. IsFiniteSet(DOMAIN g) /\ Cardinality(DOMAIN g) = len
  <2>1. len \in Int /\ 1 \in Int /\ ~(1 > len) /\ len - 1 + 1 = len
    BY GraphFacts DEF len
  <2>2. IsFiniteSet(1..len) /\ Cardinality(1..len) = len
    BY <2>1, FS_Interval
  <2> QED BY <1>1, <2>2
<1>4. \A k \in 0..len : IsFiniteSet(P[k]) /\ Cardinality(P[k]) \in Nat
  BY <1>1, <1>3, FS_Subset, FS_CardinalityType
<1>5. \A S : S \subseteq WithParts(g, S)
  BY DEF WithParts
<1>6. 0 \in T
  <2>1. 1 \in P[0]
    BY <1>1 DEF HeldIn
  <2>2. Cardinality(P[0]) # 0
    BY <1>2, <1>4, <2>1, FS_EmptySet
  <2> QED BY <1>2, <1>4, <2>2
<1>7. ASSUME NEW k \in 1..len, k - 1 \in T PROVE k \in T
  <2>1. k \in 0..len /\ k - 1 \in 0..len /\ P[k] = WithParts(g, P[k - 1]) /\ k \in Nat
    BY <1>1, <1>2
  <2>2. CASE P[k] = P[k - 1]
    BY <2>1, <2>2
  <2>3. CASE P[k] # P[k - 1]
    <3>1. Cardinality(P[k - 1]) >= (k - 1) + 1
      BY <1>7, <2>1, <2>3
    <3>2. P[k - 1] \subseteq P[k] /\ P[k - 1] # P[k]
      BY <1>5, <2>1, <2>3
    <3>3. Cardinality(P[k - 1]) < Cardinality(P[k])
      BY <1>4, <2>1, <3>2, FS_Subset
    <3> QED BY <1>4, <2>1, <3>1, <3>3
  <2> QED BY <2>2, <2>3
<1>8. len \in T
  <2> HIDE DEF T
  <2> QED BY <1>1, <1>2, <1>6, <1>7, StretchInduction
<1>9. P[len] = WithParts(g, P[len])
  <2>1. Cardinality(P[len]) <= len
    BY <1>1, <1>2, <1>3, FS_Subset
  <2> QED BY <1>1, <1>2, <1>4, <1>8, <2>1
<1>10. \A k \in 0..len : HeldIn(g) \subseteq P[k]
  <2> DEFINE R == {k \in 0..len : HeldIn(g) \subseteq P[k]}
  <2>1. 0 \in R
    BY <1>1, <1>2
  <2>2. \A k \in 1..len : k - 1 \in R => k \in R
    BY <1>1, <1>2, <1>5
  <2>3. \A k \in 0..len : k \in R
    <3> HIDE DEF R
    <3> QED BY <1>1, <2>1, <2>2, StretchInduction
  <2> QED BY <2>3
<1>11. ByValueIn(g) = P[len]
  BY DEF ByValueIn, P, len
<1>12. ASSUME NEW n \in DOMAIN g, NEW k \in 1..Len(g[n].kids)
       PROVE  g[n].kids[k] \in KidSetIn(g)[n]
  <2>1. DOMAIN g[n].kids = 1..Len(g[n].kids)
    BY GraphFacts
  <2> QED BY <2>1 DEF KidSetIn
<1>13. ASSUME NEW n \in DOMAIN g, g[n].kind \in {"map", "iface"}
       PROVE  KidSetIn(g)[n] \subseteq P[len]
  BY <1>2, <1>10, <1>13 DEF HeldIn
<1>14. ASSUME NEW n \in P[len], g[n].kind \in Inline
       PROVE  KidSetIn(g)[n] \subseteq P[len]
  <2>1. KidSetIn(g)[n] \subseteq WithParts(g, P[len])
    BY <1>14 DEF WithParts
  <2> QED BY <1>9, <2>1
<1>15. 1 \in P[len] /\ P[len] \in SUBSET DOMAIN g
  BY <1>1, <1>2, <1>10 DEF HeldIn
<1> QED BY <1>11, <1>12, <1>13, <1>14, <1>15

-----------------------------------------------------------------------------
LEMMA EntriesIn ==
    ASSUME NEW S, NEW s \in Seq(S)
    PROVE  Len(s) \in Nat /\ \A k \in 1..Len(s) : k \in Nat \ {0} /\ s[k] \in S
OBVIOUS

(* Copies are only added, and stay copies of what they are copies of. *)
Extends(h, k) == Len(h) <= Len(k) /\ \A c \in 1..Len(h) : k[c].of = h[c].of

LEMMA Bounds ==
    ASSUME NEW x \in Nat, NEW y \in Nat
    PROVE  /\ x <= y => x + 1 \in 1..y + 1
           /\ x > y /\ x \in 1..y + 1 => x - 1 = y
OBVIOUS

LEMMA HeapFacts ==
    ASSUME NEW g, IsGraph(g), NEW h \in HeapType(g)
    PROVE  /\ Len(h) \in Nat
           /\ \A c \in 1..Len(h) :
                /\ c \in Nat \ {0} /\ h[c] \in [of : DOMAIN g, kids : Seq(Int)]
                /\ h[c].of \in DOMAIN g /\ h[c].kids \in Seq(Int) /\ Len(h[c].kids) \in Nat
                /\ \A i \in 1..Len(h[c].kids) : h[c].kids[i] \in Int
PROOF
<1>1. Len(h) \in Nat /\ \A c \in 1..Len(h) : c \in Nat \ {0} /\ h[c] \in [of : DOMAIN g, kids : Seq(Int)]
  BY EntriesIn DEF HeapType
<1>2. \A s \in Seq(Int) : Len(s) \in Nat /\ \A i \in 1..Len(s) : s[i] \in Int
  OBVIOUS
<1> QED BY <1>1, <1>2

LEMMA StackFacts ==
    ASSUME NEW g, IsGraph(g), NEW s \in StackType(g)
    PROVE  /\ Len(s) \in Nat
           /\ \A k \in 1..Len(s) :
                /\ k \in Nat \ {0} /\ s[k] \in [v : ValIn(g), d : Nat, next : Nat]
                /\ s[k].v \in ValIn(g) /\ s[k].d \in Nat /\ s[k].next \in Nat
                /\ s[k].v.n \in DOMAIN g /\ s[k].v.addr \in BOOLEAN /\ s[k].v.ro \in BOOLEAN
PROOF
<1>1. Len(s) \in Nat /\ \A k \in 1..Len(s) : k \in Nat \ {0} /\ s[k] \in [v : ValIn(g), d : Nat, next : Nat]
  BY EntriesIn DEF StackType
<1> QED BY <1>1 DEF ValIn

LEMMA MatchesStays ==
    ASSUME NEW g, NEW h, NEW k, Len(h) \in Nat, Len(k) \in Nat, Extends(h, k),
           NEW n, NEW v \in Int, NEW m
    PROVE  /\ Answers(g, h, v, m) => Answers(g, k, v, m)
           /\ Matches(g, h, n, v, m) => Matches(g, k, n, v, m)
PROOF
<1>1. v < 0 /\ -v \in 1..Len(h) => -v \in 1..Len(k) /\ k[-v].of = h[-v].of
  BY DEF Extends
<1>2. Answers(g, h, v, m) => Answers(g, k, v, m)
  BY <1>1 DEF Answers
<1>3. v < 0 /\ Answers(g, h, v, m) => -v \in 1..Len(h) \/ v = 0 \/ v >= 0
  BY DEF Answers
<1> QED BY <1>1, <1>2, <1>3 DEF Matches

LEMMA FilledStays ==
    ASSUME NEW g, IsGraph(g), NEW h \in HeapType(g), NEW k \in HeapType(g), Extends(h, k),
           NEW c \in 1..Len(h), k[c].kids = h[c].kids, NEW m, Filled(g, h, c, m)
    PROVE  Filled(g, k, c, m)
PROOF
<1>1. Len(h) \in Nat /\ Len(k) \in Nat /\ k[c].of = h[c].of
  BY HeapFacts DEF Extends
<1>2. \A i \in 1..Len(h[c].kids) : h[c].kids[i] \in Int
  BY HeapFacts
<1>3. \A i \in 1..Len(h[c].kids) : Matches(g, k, h[c].of, h[c].kids[i], Upto(g, h[c].of)[m][i])
  BY <1>1, <1>2, MatchesStays DEF Filled
<1> QED BY <1>1, <1>3 DEF Filled

LEMMA FilledSkip ==
    ASSUME NEW g, IsGraph(g), NEW h \in HeapType(g), NEW c \in 1..Len(h),
           NEW m \in 1..Len(g[h[c].of].kids), Filled(g, h, c, m - 1),
           PartIn(g, h[c].of, g[h[c].of].kids[m]) = <<>>
    PROVE  Filled(g, h, c, m)
PROOF
<1>1. h[c].of \in DOMAIN g /\ m - 1 \in 0..Len(g[h[c].of].kids)
  BY HeapFacts, GraphFacts
<1>2. Upto(g, h[c].of)[m] = Upto(g, h[c].of)[m - 1] \o <<>> /\ Upto(g, h[c].of)[m - 1] \in Seq(DOMAIN g)
  <2> DEFINE o == h[c].of
  <2>1. o \in DOMAIN g
    BY <1>1
  <2> HIDE DEF o
  <2>2. /\ \A k \in 0..Len(g[o].kids) : Upto(g, o)[k] \in Seq(DOMAIN g)
        /\ \A k \in 1..Len(g[o].kids) : Upto(g, o)[k] = Upto(g, o)[k - 1] \o PartIn(g, o, g[o].kids[k])
    BY <2>1, UptoIs
  <2> QED BY <1>1, <2>2 DEF o
<1>3. \A s \in Seq(DOMAIN g) : s \o <<>> = s
  BY ConcatEmptySeq
<1>4. Upto(g, h[c].of)[m] = Upto(g, h[c].of)[m - 1]
  BY <1>2, <1>3
<1> QED BY <1>4 DEF Filled

LEMMA FilledMore ==
    ASSUME NEW g, IsGraph(g), NEW h \in HeapType(g), NEW k \in HeapType(g), Extends(h, k),
           NEW c \in 1..Len(h), NEW m \in 1..Len(g[h[c].of].kids), Filled(g, h, c, m - 1),
           NEW v \in Int, NEW n \in DOMAIN g, PartIn(g, h[c].of, g[h[c].of].kids[m]) = <<n>>,
           Matches(g, h, h[c].of, v, n), k[c].kids = Append(h[c].kids, v)
    PROVE  Filled(g, k, c, m)
PROOF
<1> DEFINE o == h[c].of
           u == Upto(g, o)[m - 1]
           w == Upto(g, o)[m]
           old == h[c].kids
           new == k[c].kids
<1>1. /\ o \in DOMAIN g /\ m - 1 \in 0..Len(g[o].kids) /\ k[c].of = o
      /\ Len(h) \in Nat /\ Len(k) \in Nat /\ old \in Seq(Int)
  <2>1. o \in DOMAIN g /\ old \in Seq(Int) /\ Len(h) \in Nat /\ Len(k) \in Nat
    BY HeapFacts
  <2>2. k[c].of = o
    BY DEF Extends
  <2> HIDE DEF o
  <2>3. Len(g[o].kids) \in Nat
    BY <2>1, GraphFacts, Zenon
  <2>4. m \in 1..Len(g[o].kids)
    BY DEF o
  <2> QED BY <2>1, <2>2, <2>3, <2>4
<1>2. w = u \o <<n>> /\ u \in Seq(DOMAIN g)
  <2> HIDE DEF o
  <2>1. o \in DOMAIN g
    BY <1>1
  <2>2. /\ \A i \in 0..Len(g[o].kids) : Upto(g, o)[i] \in Seq(DOMAIN g)
        /\ \A i \in 1..Len(g[o].kids) : Upto(g, o)[i] = Upto(g, o)[i - 1] \o PartIn(g, o, g[o].kids[i])
    BY <2>1, UptoIs
  <2>3. m \in 1..Len(g[o].kids) /\ PartIn(g, o, g[o].kids[m]) = <<n>>
    BY DEF o
  <2>4. Upto(g, o)[m] = Upto(g, o)[m - 1] \o <<n>>
    BY <2>2, <2>3, Zenon
  <2>5. m - 1 \in 0..Len(g[o].kids)
    BY <1>1
  <2>6. Upto(g, o)[m - 1] \in Seq(DOMAIN g)
    BY <2>2, <2>5, Zenon
  <2> QED BY <2>4, <2>6
<1>3. Len(old) = Len(u) /\ \A i \in 1..Len(old) : Matches(g, h, o, old[i], u[i])
  BY DEF Filled
<1> HIDE DEF u, w, o, old, new
<1>4. \A s \in Seq(DOMAIN g) : /\ Len(s \o <<n>>) = Len(s) + 1 /\ (s \o <<n>>)[Len(s) + 1] = n
                               /\ \A i \in 1..Len(s) : (s \o <<n>>)[i] = s[i]
  OBVIOUS
<1>5. /\ Len(w) = Len(u) + 1 /\ w[Len(u) + 1] = n
      /\ \A i \in 1..Len(u) : w[i] = u[i]
  BY <1>2, <1>4
<1>6. new = Append(old, v)
  BY DEF new, old
<1>7. /\ Len(old) \in Nat /\ Len(new) = Len(old) + 1 /\ new[Len(old) + 1] = v
      /\ \A i \in 1..Len(old) : new[i] = old[i] /\ old[i] \in Int
  BY <1>1, <1>6
<1>8. ASSUME NEW i \in 1..Len(new) PROVE Matches(g, k, o, new[i], w[i])
  <2>1. CASE i \in 1..Len(old)
    BY <1>1, <1>3, <1>5, <1>7, <2>1, MatchesStays
  <2>2. CASE i = Len(old) + 1
    <3>1. Matches(g, k, o, v, n)
      BY <1>1, MatchesStays DEF o
    <3> QED BY <1>3, <1>5, <1>7, <2>2, <3>1
  <2> QED BY <1>7, <2>1, <2>2
<1> QED BY <1>1, <1>3, <1>5, <1>7, <1>8 DEF Filled, o, w, new

LEMMA FilledNone ==
    ASSUME NEW g, IsGraph(g), NEW h \in HeapType(g), NEW c \in 1..Len(h), h[c].kids = <<>>
    PROVE  /\ Filled(g, h, c, 0)
           /\ g[h[c].of].kind = "chan" => Filled(g, h, c, Len(g[h[c].of].kids))
PROOF
<1> DEFINE o == h[c].of
           len == Len(g[o].kids)
           T == {k \in 0..len : Filled(g, h, c, k)}
<1>1. o \in DOMAIN g /\ len \in Nat
  BY HeapFacts, GraphFacts
<1>2. Filled(g, h, c, 0)
  <2> HIDE DEF o
  <2>1. o \in DOMAIN g
    BY <1>1
  <2>2. Upto(g, o)[0] = <<>>
    BY <2>1, UptoIs
  <2> QED BY <2>2 DEF Filled, o
<1>3. ASSUME g[o].kind = "chan" PROVE Filled(g, h, c, len)
  <2>1. 0 \in T
    BY <1>1, <1>2
  <2>2. ASSUME NEW k \in 1..len, k - 1 \in T PROVE k \in T
    <3>1. PartIn(g, o, g[o].kids[k]) = <<>>
      BY <1>3 DEF PartIn
    <3>2. k \in 0..len
      BY <1>1
    <3> QED BY <2>2, <3>1, <3>2, FilledSkip
  <2>3. \A k \in 0..len : k \in T
    <3> HIDE DEF T, len
    <3> QED BY <1>1, <2>1, <2>2, StretchInduction
  <2> QED BY <1>1, <2>3
<1> QED BY <1>2, <1>3

-----------------------------------------------------------------------------
(* What the steps do to the calls under way and the copies made. *)
Sound(g, h, s) == FramesOK(g, h, s) /\ CopiesOK(g, h, s)

LEMMA FrameStays ==
    ASSUME NEW g, NEW h, NEW k, Len(h) \in Nat, Len(k) \in Nat, Extends(h, k),
           NEW f, FrameOK(g, h, f)
    PROVE  FrameOK(g, k, f)
BY DEF FrameOK, Extends

(* The top call goes on to its next kid. *)
Advanced(s) == [s EXCEPT ![Len(s)].next = @ + 1]

LEMMA AdvancedIs ==
    ASSUME NEW g, IsGraph(g), NEW s \in StackType(g), s # <<>>
    PROVE  /\ Advanced(s) \in StackType(g) /\ Len(Advanced(s)) = Len(s)
           /\ Len(s) \in 1..Len(s)
           /\ \A k \in 1..Len(s) : /\ Advanced(s)[k].v = s[k].v /\ Advanced(s)[k].d = s[k].d
                                   /\ k # Len(s) => Advanced(s)[k] = s[k]
           /\ Advanced(s)[Len(s)].next = s[Len(s)].next + 1
PROOF
<1> DEFINE len == Len(s)
           F == [v : ValIn(g), d : Nat, next : Nat]
           f == s[len]
           n == [f EXCEPT !.next = f.next + 1]
<1>1. len \in 1..len /\ len \in Nat
  BY DEF StackType
<1>2. f \in F /\ f.next \in Nat
  BY <1>1, StackFacts
<1>3. n \in F /\ n.v = f.v /\ n.d = f.d /\ n.next = f.next + 1
  BY <1>2
<1>4. Advanced(s) = [s EXCEPT ![len] = n]
  BY DEF Advanced
<1> HIDE DEF F, n, len
<1>5. s \in Seq(F)
  BY DEF StackType, F
<1>6. /\ [s EXCEPT ![len] = n] \in Seq(F) /\ Len([s EXCEPT ![len] = n]) = len
      /\ [s EXCEPT ![len] = n][len] = n
      /\ \A k \in 1..len : k # len => [s EXCEPT ![len] = n][k] = s[k]
  BY <1>1, <1>3, <1>5 DEF len
<1> QED BY <1>1, <1>3, <1>4, <1>6 DEF StackType, F, len

LEMMA Advance ==
    ASSUME NEW g, IsGraph(g), NEW h \in HeapType(g), NEW k \in HeapType(g), NEW s \in StackType(g),
           Sound(g, h, s), Extends(h, k), Len(k) = Len(h), s # <<>>,
           s[Len(s)].next <= Len(g[s[Len(s)].v.n].kids),
           ~(g[s[Len(s)].v.n].kind = "map" /\ s[Len(s)].v.ro),
           \A c \in 1..Len(h) : c # s[Len(s)].d => k[c].kids = h[c].kids,
           Filled(g, k, s[Len(s)].d, s[Len(s)].next)
    PROVE  Sound(g, k, Advanced(s))
PROOF
<1> DEFINE t == Advanced(s)
           len == Len(s)
<1>1. /\ t \in StackType(g) /\ Len(t) = len /\ len \in 1..len
      /\ \A j \in 1..len : t[j].v = s[j].v /\ t[j].d = s[j].d /\ (j # len => t[j] = s[j])
      /\ t[len].next = s[len].next + 1
  BY AdvancedIs
<1>2. /\ \A j \in 1..len : FrameOK(g, h, s[j])
      /\ \A i, j \in 1..len : i < j => s[i].d # s[j].d
      /\ \A j \in 1..len : j > 1 => Awaits(g, s[j - 1], s[j].v.n)
  BY DEF Sound, FramesOK
<1>3. Len(h) \in Nat /\ Len(k) \in Nat /\ len \in Nat
  BY HeapFacts, StackFacts
<1>4. /\ s[len].next <= Len(g[s[len].v.n].kids) /\ s[len].next \in Nat /\ s[len].v.n \in DOMAIN g
      /\ Len(g[s[len].v.n].kids) \in Nat /\ ~(g[s[len].v.n].kind = "map" /\ s[len].v.ro)
  BY <1>1, StackFacts, GraphFacts
<1> HIDE DEF t, len
<1>5. \A j \in 1..len : FrameOK(g, k, s[j])
  BY <1>2, <1>3, FrameStays
<1>6. FrameOK(g, k, t[len])
  <2>1. FrameOK(g, k, s[len]) /\ t[len].v = s[len].v /\ t[len].d = s[len].d
    BY <1>1, <1>5
  <2>2. t[len].next \in 1..Len(g[s[len].v.n].kids) + 1
    <3>1. s[len].next + 1 \in 1..Len(g[s[len].v.n].kids) + 1
      BY <1>4, Bounds
    <3>2. t[len].next = s[len].next + 1
      BY <1>1
    <3> QED BY <3>1, <3>2
  <2> QED BY <1>4, <2>1, <2>2 DEF FrameOK
<1>7. \A j \in 1..len : j > 1 => Awaits(g, t[j - 1], t[j].v.n)
  <2> SUFFICES ASSUME NEW j \in 1..len, j > 1 PROVE Awaits(g, t[j - 1], t[j].v.n)
    OBVIOUS
  <2>1. j - 1 \in 1..len /\ j - 1 # len
    BY <1>3
  <2> QED BY <1>1, <1>2, <2>1
<1>8. FramesOK(g, k, t)
  BY <1>1, <1>2, <1>5, <1>6, <1>7 DEF FramesOK
<1>9. ASSUME NEW j \in 1..len PROVE Filled(g, k, t[j].d, t[j].next - 1)
  <2>1. CASE j = len
    BY <1>1, <1>4, <2>1 DEF len
  <2>2. CASE j # len
    <3>1. s[j].d \in 1..Len(h) /\ s[j].d # s[len].d
      BY <1>1, <1>2, <1>3, <2>2 DEF FrameOK
    <3>2. Filled(g, h, s[j].d, s[j].next - 1)
      BY DEF Sound, CopiesOK, len
    <3>3. Filled(g, k, s[j].d, s[j].next - 1)
      BY <3>1, <3>2, FilledStays DEF len
    <3> QED BY <1>1, <2>2, <3>3
  <2> QED BY <2>1, <2>2
<1>10. ASSUME NEW c \in 1..Len(k), \A j \in 1..len : t[j].d # c
       PROVE  Filled(g, k, c, Len(g[k[c].of].kids))
  <2>1. (\A j \in 1..len : s[j].d # c) /\ c \in 1..Len(h)
    BY <1>1, <1>10
  <2>2. Filled(g, h, c, Len(g[h[c].of].kids)) /\ k[c].of = h[c].of
    BY <2>1 DEF Sound, CopiesOK, Extends, len
  <2>3. c # s[len].d
    BY <1>1, <2>1
  <2> QED BY <2>1, <2>2, <2>3, FilledStays DEF len
<1> QED BY <1>1, <1>8, <1>9, <1>10 DEF Sound, CopiesOK, t

(* The top call returns: its copy is complete. *)
Popped(s) == SubSeq(s, 1, Len(s) - 1)

LEMMA PoppedIs ==
    ASSUME NEW g, IsGraph(g), NEW s \in StackType(g), s # <<>>
    PROVE  /\ Popped(s) \in StackType(g) /\ Len(Popped(s)) = Len(s) - 1
           /\ Len(s) \in 1..Len(s)
           /\ \A k \in 1..Len(s) - 1 : Popped(s)[k] = s[k] /\ k \in 1..Len(s) /\ k # Len(s)
PROOF
<1> DEFINE F == [v : ValIn(g), d : Nat, next : Nat]
<1>1. s \in Seq(F)
  BY DEF StackType
<1> HIDE DEF F
<1>2. Len(s) \in Nat /\ Len(s) \in 1..Len(s)
  BY <1>1
<1>3. Popped(s) \in Seq(F) /\ Len(Popped(s)) = Len(s) - 1 /\ \A k \in 1..Len(s) - 1 : Popped(s)[k] = s[k]
  <2> DEFINE len == Len(s) - 1
  <2>1. len \in Nat /\ len \in Int /\ 1 \in Int
    BY <1>2
  <2>2. \A i \in 1..len : s[i] \in F
    BY <1>1, <1>2, EntriesIn
  <2>3. /\ SubSeq(s, 1, len) \in Seq(F)
        /\ Len(SubSeq(s, 1, len)) = IF 1 <= len THEN len - 1 + 1 ELSE 0
        /\ \A i \in 1..len - 1 + 1 : SubSeq(s, 1, len)[i] = s[1 + i - 1]
    BY <2>1, <2>2, SubSeqProperties
  <2>4. (IF 1 <= len THEN len - 1 + 1 ELSE 0) = len /\ \A i \in 1..len : i \in 1..len - 1 + 1 /\ 1 + i - 1 = i
    <3> HIDE DEF len
    <3>1. (IF 1 <= len THEN len - 1 + 1 ELSE 0) = len
      BY <2>1
    <3>2. \A i \in 1..len : i \in 1..len - 1 + 1 /\ 1 + i - 1 = i
      BY <2>1
    <3> QED BY <3>1, <3>2
  <2> QED BY <2>3, <2>4 DEF Popped
<1>4. \A k \in 1..Len(s) - 1 : k \in 1..Len(s) /\ k # Len(s)
  BY <1>2
<1> QED BY <1>2, <1>3, <1>4 DEF StackType, F

LEMMA Pop ==
    ASSUME NEW g, IsGraph(g), NEW h \in HeapType(g), NEW s \in StackType(g),
           Sound(g, h, s), s # <<>>, s[Len(s)].next > Len(g[s[Len(s)].v.n].kids)
    PROVE  Sound(g, h, Popped(s))
PROOF
<1> DEFINE t == Popped(s)
           len == Len(s)
<1>1. /\ t \in StackType(g) /\ Len(t) = len - 1 /\ len \in 1..len /\ len \in Nat
      /\ \A k \in 1..len - 1 : t[k] = s[k] /\ k \in 1..len /\ k # len
  BY PoppedIs, StackFacts
<1>2. /\ \A j \in 1..len : FrameOK(g, h, s[j])
      /\ \A i, j \in 1..len : i < j => s[i].d # s[j].d
      /\ \A j \in 1..len : j > 1 => Awaits(g, s[j - 1], s[j].v.n)
      /\ \A j \in 1..len : Filled(g, h, s[j].d, s[j].next - 1)
      /\ \A c \in 1..Len(h) :
           (\A j \in 1..len : s[j].d # c) => Filled(g, h, c, Len(g[h[c].of].kids))
  BY DEF Sound, FramesOK, CopiesOK
<1>3. Filled(g, h, s[len].d, Len(g[h[s[len].d].of].kids))
  <2>1. /\ s[len].next \in Nat /\ s[len].next > Len(g[s[len].v.n].kids)
        /\ Len(g[s[len].v.n].kids) \in Nat
    BY <1>1, StackFacts, GraphFacts
  <2>2. s[len].next \in 1..Len(g[s[len].v.n].kids) + 1 /\ h[s[len].d].of = s[len].v.n
    BY <1>1, <1>2 DEF FrameOK
  <2>3. s[len].next - 1 = Len(g[s[len].v.n].kids)
    BY <2>1, <2>2, Bounds
  <2>4. Filled(g, h, s[len].d, s[len].next - 1)
    BY <1>1, <1>2
  <2> QED BY <2>2, <2>3, <2>4
<1> HIDE DEF t, len
<1>4. FramesOK(g, h, t)
  <2>1. \A k \in 1..Len(t) : k > 1 => k - 1 \in 1..Len(t)
    BY <1>1
  <2>2. \A k \in 1..Len(t) : t[k] = s[k] /\ k \in 1..len
    BY <1>1
  <2> QED BY <1>2, <2>1, <2>2 DEF FramesOK
<1>5. \A k \in 1..Len(t) : Filled(g, h, t[k].d, t[k].next - 1)
  BY <1>1, <1>2
<1>6. ASSUME NEW c \in 1..Len(h), \A k \in 1..Len(t) : t[k].d # c
      PROVE  Filled(g, h, c, Len(g[h[c].of].kids))
  <2>1. CASE c = s[len].d
    BY <1>3, <2>1
  <2>2. CASE c # s[len].d
    <3>1. \A j \in 1..len : j = len \/ j \in 1..len - 1
      BY <1>1
    <3>2. \A j \in 1..len : s[j].d # c
      BY <1>1, <1>6, <2>2, <3>1
    <3> QED BY <1>2, <3>2
  <2> QED BY <2>1, <2>2
<1> QED BY <1>4, <1>5, <1>6 DEF Sound, CopiesOK, t

(* A new copy, still empty. *)
Added(h, n) == Append(h, [of |-> n, kids |-> <<>>])

LEMMA AddedIs ==
    ASSUME NEW g, IsGraph(g), NEW h \in HeapType(g), NEW n \in DOMAIN g
    PROVE  /\ Added(h, n) \in HeapType(g) /\ Len(h) \in Nat
           /\ Len(Added(h, n)) = Len(h) + 1 /\ Extends(h, Added(h, n))
           /\ \A c \in 1..Len(h) : Added(h, n)[c] = h[c]
           /\ Added(h, n)[Len(h) + 1].of = n /\ Added(h, n)[Len(h) + 1].kids = <<>>
PROOF
<1> DEFINE C == [of : DOMAIN g, kids : Seq(Int)]
           c == [of |-> n, kids |-> <<>>]
<1>1. c \in C /\ c.of = n /\ c.kids = <<>>
  BY EmptySeq
<1>2. h \in Seq(C)
  BY DEF HeapType
<1>3. Added(h, n) = Append(h, c)
  BY DEF Added
<1> HIDE DEF C, c
<1>4. /\ Len(h) \in Nat /\ Append(h, c) \in Seq(C) /\ Len(Append(h, c)) = Len(h) + 1
      /\ \A i \in 1..Len(h) : Append(h, c)[i] = h[i]
      /\ Append(h, c)[Len(h) + 1] = c
  BY <1>1, <1>2
<1> QED BY <1>1, <1>3, <1>4 DEF HeapType, Extends, C

LEMMA AddedSound ==
    ASSUME NEW g, IsGraph(g), NEW h \in HeapType(g), NEW s \in StackType(g), Sound(g, h, s),
           NEW n \in DOMAIN g, g[n].kind = "chan"
    PROVE  Sound(g, Added(h, n), s)
PROOF
<1> DEFINE k == Added(h, n)
<1>1. /\ k \in HeapType(g) /\ Len(h) \in Nat /\ Len(k) = Len(h) + 1 /\ Extends(h, k)
      /\ \A c \in 1..Len(h) : k[c] = h[c]
      /\ k[Len(h) + 1].of = n /\ k[Len(h) + 1].kids = <<>>
  BY AddedIs
<1> HIDE DEF k
<1>2. Len(k) \in Nat
  BY <1>1
<1>3. FramesOK(g, k, s)
  BY <1>1, <1>2, FrameStays DEF Sound, FramesOK
<1>4. ASSUME NEW j \in 1..Len(s) PROVE Filled(g, k, s[j].d, s[j].next - 1)
  <2>1. s[j].d \in 1..Len(h) /\ Filled(g, h, s[j].d, s[j].next - 1)
    BY DEF Sound, FramesOK, FrameOK, CopiesOK
  <2> QED BY <1>1, <2>1, FilledStays
<1>5. ASSUME NEW c \in 1..Len(k), \A j \in 1..Len(s) : s[j].d # c
      PROVE  Filled(g, k, c, Len(g[k[c].of].kids))
  <2>1. CASE c \in 1..Len(h)
    BY <1>1, <1>5, <2>1, FilledStays DEF Sound, CopiesOK
  <2>2. CASE c = Len(h) + 1
    BY <1>1, <2>2, FilledNone
  <2> QED BY <1>1, <2>1, <2>2
<1> QED BY <1>3, <1>4, <1>5 DEF Sound, CopiesOK, k

LEMMA PushSound ==
    ASSUME NEW g, IsGraph(g), NEW h \in HeapType(g), NEW s \in StackType(g), Sound(g, h, s),
           NEW v \in ValIn(g), g[v.n].kind \in Inline \cup Nillable, ~NilIn(g, v.n),
           s # <<>> => Awaits(g, s[Len(s)], v.n)
    PROVE  /\ Sound(g, Added(h, v.n), Append(s, Frame(v, Len(h) + 1)))
           /\ Append(s, Frame(v, Len(h) + 1)) \in StackType(g)
PROOF
<1> DEFINE F == [v : ValIn(g), d : Nat, next : Nat]
           k == Added(h, v.n)
           f == Frame(v, Len(h) + 1)
           t == Append(s, f)
           len == Len(s)
<1>1. v.n \in DOMAIN g
  BY DEF ValIn
<1>2. /\ k \in HeapType(g) /\ Len(h) \in Nat /\ Len(k) = Len(h) + 1 /\ Extends(h, k)
      /\ \A c \in 1..Len(h) : k[c] = h[c]
      /\ k[Len(h) + 1].of = v.n /\ k[Len(h) + 1].kids = <<>>
  BY <1>1, AddedIs
<1>3. f \in F /\ f.v = v /\ f.d = Len(h) + 1 /\ f.next = 1
  BY <1>2 DEF Frame
<1>4. s \in Seq(F)
  BY DEF StackType
<1> HIDE DEF F, k, f
<1>5. /\ t \in Seq(F) /\ len \in Nat /\ Len(t) = len + 1 /\ t[len + 1] = f
      /\ \A j \in 1..len : t[j] = s[j]
  BY <1>3, <1>4
<1>6. Len(g[v.n].kids) \in Nat
  BY <1>1, GraphFacts
<1> HIDE DEF t, len
<1>7. /\ \A j \in 1..len : FrameOK(g, h, s[j])
      /\ \A i, j \in 1..len : i < j => s[i].d # s[j].d
      /\ \A j \in 1..len : j > 1 => Awaits(g, s[j - 1], s[j].v.n)
      /\ \A j \in 1..len : Filled(g, h, s[j].d, s[j].next - 1)
      /\ \A c \in 1..Len(h) :
           (\A j \in 1..len : s[j].d # c) => Filled(g, h, c, Len(g[h[c].of].kids))
  BY DEF Sound, FramesOK, CopiesOK, len
<1>8. \A j \in 1..Len(t) : j = len + 1 \/ j \in 1..len
  BY <1>5
<1>9. FramesOK(g, k, t)
  <2>1. FrameOK(g, k, f)
    BY <1>2, <1>3, <1>6 DEF FrameOK
  <2>2. \A j \in 1..len : FrameOK(g, k, s[j]) /\ s[j].d \in 1..Len(h)
    <3>1. \A j \in 1..len : FrameOK(g, k, s[j])
      BY <1>2, <1>7, FrameStays
    <3>2. \A j \in 1..len : s[j].d \in 1..Len(h)
      BY <1>7 DEF FrameOK
    <3> QED BY <3>1, <3>2
  <2>3. \A i, j \in 1..Len(t) : i < j => t[i].d # t[j].d
    <3> SUFFICES ASSUME NEW i \in 1..Len(t), NEW j \in 1..Len(t), i < j PROVE t[i].d # t[j].d
      OBVIOUS
    <3>1. i \in 1..len
      BY <1>5
    <3>2. CASE j = len + 1
      BY <1>2, <1>3, <1>5, <2>2, <3>1, <3>2
    <3> QED BY <1>5, <1>7, <1>8, <3>1, <3>2
  <2>4. \A j \in 1..Len(t) : j > 1 => Awaits(g, t[j - 1], t[j].v.n)
    <3> SUFFICES ASSUME NEW j \in 1..Len(t), j > 1 PROVE Awaits(g, t[j - 1], t[j].v.n)
      OBVIOUS
    <3>1. j - 1 \in 1..len /\ t[j - 1] = s[j - 1]
      BY <1>5
    <3>2. CASE j = len + 1
      <4>1. s # <<>> /\ t[j - 1] = s[len]
        BY <1>4, <1>5, <3>1, <3>2 DEF len
      <4> QED BY <1>3, <1>5, <3>2, <4>1 DEF len
    <3> QED BY <1>5, <1>7, <1>8, <3>1, <3>2
  <2> QED BY <1>5, <1>8, <2>1, <2>2, <2>3, <2>4 DEF FramesOK
<1>10. ASSUME NEW j \in 1..Len(t) PROVE Filled(g, k, t[j].d, t[j].next - 1)
  <2>1. CASE j = len + 1
    <3>1. Len(h) + 1 \in 1..Len(k) /\ Filled(g, k, Len(h) + 1, 0)
      BY <1>2, FilledNone
    <3> QED BY <1>3, <1>5, <2>1, <3>1
  <2>2. CASE j \in 1..len
    <3>1. s[j].d \in 1..Len(h) /\ Filled(g, h, s[j].d, s[j].next - 1)
      BY <1>7, <2>2 DEF FrameOK
    <3>2. Filled(g, k, s[j].d, s[j].next - 1)
      BY <1>2, <3>1, FilledStays
    <3> QED BY <1>5, <2>2, <3>2
  <2> QED BY <1>8, <2>1, <2>2
<1>11. ASSUME NEW c \in 1..Len(k), \A j \in 1..Len(t) : t[j].d # c
       PROVE  Filled(g, k, c, Len(g[k[c].of].kids))
  <2>1. c # Len(h) + 1
    BY <1>3, <1>5, <1>11
  <2>2. c \in 1..Len(h)
    BY <1>2, <2>1
  <2>3. \A j \in 1..len : s[j].d # c
    BY <1>5, <1>11
  <2>4. Filled(g, h, c, Len(g[h[c].of].kids))
    BY <1>7, <2>2, <2>3
  <2> QED BY <1>2, <2>2, <2>4, FilledStays
<1>12. Sound(g, k, t)
  BY <1>9, <1>10, <1>11 DEF Sound, CopiesOK
<1> QED BY <1>5, <1>12 DEF StackType, F, k, t, f

LEMMA PlacedIs ==
    ASSUME NEW g, IsGraph(g), NEW h \in HeapType(g), NEW d \in 1..Len(h), NEW v \in Int
    PROVE  /\ Placed(h, d, v) \in HeapType(g) /\ Len(Placed(h, d, v)) = Len(h)
           /\ Extends(h, Placed(h, d, v))
           /\ Placed(h, d, v)[d].kids = Append(h[d].kids, v)
           /\ \A c \in 1..Len(h) : c # d => Placed(h, d, v)[c] = h[c]
PROOF
<1> DEFINE C == [of : DOMAIN g, kids : Seq(Int)]
           x == [h[d] EXCEPT !.kids = Append(h[d].kids, v)]
<1>1. Len(h) \in Nat /\ h[d] \in C /\ h[d].kids \in Seq(Int)
  BY HeapFacts
<1>2. Append(h[d].kids, v) \in Seq(Int)
  BY <1>1, AppendProperties
<1>3. x \in C /\ x.of = h[d].of /\ x.kids = Append(h[d].kids, v)
  BY <1>1, <1>2
<1>4. Placed(h, d, v) = [h EXCEPT ![d] = x]
  BY DEF Placed
<1>5. h \in Seq(C)
  BY DEF HeapType
<1> HIDE DEF C, x
<1>6. /\ [h EXCEPT ![d] = x] \in Seq(C) /\ Len([h EXCEPT ![d] = x]) = Len(h)
      /\ [h EXCEPT ![d] = x][d] = x
      /\ \A c \in 1..Len(h) : c # d => [h EXCEPT ![d] = x][c] = h[c]
  BY <1>1, <1>3, <1>5
<1>7. /\ Placed(h, d, v) \in Seq(C) /\ Len(Placed(h, d, v)) = Len(h)
      /\ Placed(h, d, v)[d] = x
      /\ \A c \in 1..Len(h) : c # d => Placed(h, d, v)[c] = h[c]
  BY <1>4, <1>6
<1>8. \A c \in 1..Len(h) : Placed(h, d, v)[c].of = h[c].of
  BY <1>3, <1>7
<1> QED BY <1>1, <1>3, <1>7, <1>8 DEF HeapType, Extends, C

(* A place that can be set to an answer may hold it, and one that cannot tells
   why. *)
LEMMA FitsGraph ==
    ASSUME IsGraph(graph), NEW h, NEW f, FrameOK(graph, h, f), f.v.n \in DOMAIN graph, f.next \in Nat,
           NEW v \in Int, NEW ro, NEW m \in DOMAIN graph, NEW k, Len(k) \in Nat,
           Awaits(graph, f, m), Answers(graph, k, v, m),
           v < 0 => graph[m].kind = "chan" \/ heap[-v].of = k[-v].of,
           \A c \in 1..Len(k) : k[c].of \in DOMAIN graph,
           ro => HasSecret(graph), f.v.ro => HasSecret(graph)
    PROVE  /\ Settable(f, v, ro) =>
                /\ ~(graph[f.v.n].kind = "map" /\ f.v.ro)
                /\ PartIn(graph, f.v.n, graph[f.v.n].kids[f.next]) = <<m>>
                /\ Matches(graph, k, f.v.n, v, m)
           /\ ~Settable(f, v, ro) => TwoTypes(graph) \/ HasSecret(graph)
PROOF
<1> DEFINE n == f.v.n
           kid == graph[n].kids[f.next]
           map == graph[n].kind = "map"
<1>1. Settable(f, v, ro) <=>
        /\ ~ro /\ ~(map /\ f.v.ro)
        /\ \/ graph[n].kind = "iface" \/ graph[kid].kind = "iface"
           \/ v >= 0 \/ graph[kid].kind # "ptr"
           \/ graph[IF v < 0 THEN heap[-v].of ELSE v].kids[1] = graph[kid].kids[1]
  BY DEF Settable, KindOf, Kids, Target, Of
<1>2. /\ f.next <= Len(graph[n].kids) /\ f.next \in 1..Len(graph[n].kids)
      /\ (map /\ f.v.ro) \/ PartIn(graph, n, kid) = <<m>>
      /\ graph[n].kind # "chan"
  <2>1. Len(graph[n].kids) \in Nat
    BY GraphFacts
  <2> QED BY <2>1 DEF Awaits, FrameOK, Inline, Nillable
<1>3. PartIn(graph, n, kid) = <<m>> =>
        \/ kid = m
        \/ map /\ graph[kid].kind = "iface" /\ ~NilIn(graph, kid) /\ graph[kid].kids[1] = m
  BY <1>2 DEF PartIn
<1>4. f.next \in DOMAIN graph[n].kids
  BY <1>2, GraphFacts
<1>5. v < 0 => -v \in 1..Len(k)
  <2>1. m \in Nat
    BY GraphFacts
  <2> QED BY <2>1 DEF Answers
<1>6. v < 0 => k[-v].of = m \/ SameAddress(graph, k[-v].of, m)
  <2>1. m \in Nat
    BY GraphFacts
  <2> QED BY <2>1 DEF Answers
<1> HIDE DEF n, kid, map
<1>7. ASSUME Settable(f, v, ro) PROVE Matches(graph, k, n, v, m)
  <2> SUFFICES ASSUME v < 0, k[-v].of # m, graph[k[-v].of].kids[1] # graph[m].kids[1]
               PROVE  InInterfaceIn(graph, n, m)
    BY DEF Matches
  <2>1. SameAddress(graph, k[-v].of, m) /\ graph[m].kind = "ptr" /\ heap[-v].of = k[-v].of
    BY <1>6 DEF SameAddress
  <2>2. CASE graph[n].kind = "iface"
    BY <2>2 DEF InInterfaceIn
  <2>3. CASE kid = m /\ graph[n].kind # "iface"
    BY <1>1, <1>7, <2>1, <2>3
  <2>4. CASE map /\ graph[kid].kind = "iface" /\ ~NilIn(graph, kid) /\ graph[kid].kids[1] = m
    BY <1>4, <2>4 DEF InInterfaceIn, kid, map
  <2> QED BY <1>1, <1>2, <1>3, <1>7, <2>2, <2>3, <2>4
<1>8. ASSUME ~Settable(f, v, ro) PROVE TwoTypes(graph) \/ HasSecret(graph)
  <2> SUFFICES ASSUME ~ro, ~(map /\ f.v.ro) PROVE TwoTypes(graph)
    OBVIOUS
  <2>1. /\ graph[n].kind # "iface" /\ graph[kid].kind = "ptr" /\ ~(v >= 0)
        /\ graph[IF v < 0 THEN heap[-v].of ELSE v].kids[1] # graph[kid].kids[1]
    BY <1>1, <1>8
  <2>2. v < 0 /\ graph[heap[-v].of].kids[1] # graph[kid].kids[1]
    BY <2>1
  <2>3. kid = m
    BY <1>2, <1>3, <2>1
  <2>4. heap[-v].of = k[-v].of /\ SameAddress(graph, k[-v].of, m) /\ k[-v].of \in DOMAIN graph
    BY <1>5, <1>6, <2>1, <2>2, <2>3
  <2> QED BY <2>2, <2>3, <2>4 DEF SameAddress, TwoTypes
<1> QED BY <1>1, <1>2, <1>7, <1>8 DEF n, kid, map

-----------------------------------------------------------------------------
(* The steps.  What a step does to all but the pointers it remembers. *)
StatusType == {"running", "done", "error", "overflow"}

Kept ==
    /\ heap' \in HeapType(graph) /\ stack' \in StackType(graph) /\ Sound(graph, heap', stack')
    /\ Extends(heap, heap')
    /\ \A k \in 1..Len(stack') : Reached(graph, stack'[k].v)
    /\ status' \in StatusType
    /\ status' = "done" => stack' = <<>>
    /\ status' = "error" => Explained(graph, stack')

Old == TypeOK /\ IsGraph(graph) /\ Sound(graph, heap, stack) /\ CallOK /\ status = "running"

LEMMA ResultKeeps ==
    ASSUME Old, NEW v \in Int, NEW ro, NEW h \in HeapType(graph), NEW frames \in StackType(graph),
           Sound(graph, h, frames), Extends(heap, h),
           \A k \in 1..Len(frames) : Reached(graph, frames[k].v),
           NEW m \in DOMAIN graph, Answers(graph, h, v, m),
           frames # <<>> => Awaits(graph, frames[Len(frames)], m),
           ro => HasSecret(graph),
           v < 0 => graph[m].kind = "chan" \/ heap[-v].of = h[-v].of,
           Result(v, ro, h, frames)
    PROVE  Kept /\ call' = NoCall /\ (heap' = heap \/ (Len(heap') = Len(h) /\ Extends(h, heap')))
PROOF
<1>1. CASE frames = <<>>
  <2>1. heap' = h /\ stack' = frames /\ status' \in {"done", "error"} /\ call' = NoCall
    BY <1>1 DEF Result
  <2>2. Len(h) \in Nat /\ Extends(h, h)
    BY HeapFacts DEF Extends, Old
  <2> QED BY <1>1, <2>1, <2>2 DEF Kept, Explained, StatusType
<1>2. CASE frames # <<>>
  <2> DEFINE k == Len(frames)
             f == frames[k]
  <2>1. /\ call' = NoCall
        /\ \/ /\ Settable(f, v, ro) /\ heap' = Placed(h, f.d, v) /\ stack' = Advanced(frames)
              /\ status' = status
           \/ ~Settable(f, v, ro) /\ status' = "error" /\ heap' = heap /\ stack' = stack
    BY <1>2 DEF Result, Advanced
  <2>2. k \in 1..k /\ f.v.n \in DOMAIN graph /\ f.next \in Nat /\ Awaits(graph, f, m)
    BY <1>2, AdvancedIs, StackFacts DEF Old
  <2>3. FrameOK(graph, h, f) /\ Filled(graph, h, f.d, f.next - 1) /\ Reached(graph, f.v)
    BY <2>2 DEF Sound, FramesOK, CopiesOK
  <2>4. f.d \in 1..Len(h) /\ h[f.d].of = f.v.n /\ (f.v.ro => HasSecret(graph)) /\ Len(h) \in Nat
        /\ \A c \in 1..Len(h) : h[c].of \in DOMAIN graph
    BY <2>3, HeapFacts DEF FrameOK, Reached, Old
  <2>5. /\ Settable(f, v, ro) =>
             /\ ~(graph[f.v.n].kind = "map" /\ f.v.ro)
             /\ PartIn(graph, f.v.n, graph[f.v.n].kids[f.next]) = <<m>>
             /\ Matches(graph, h, f.v.n, v, m)
        /\ ~Settable(f, v, ro) => TwoTypes(graph) \/ HasSecret(graph)
    BY <2>2, <2>3, <2>4, FitsGraph DEF Old
  <2>6. CASE Settable(f, v, ro)
    <3> DEFINE new == Placed(h, f.d, v)
    <3>1. /\ new \in HeapType(graph) /\ Len(new) = Len(h) /\ Extends(h, new)
          /\ new[f.d].kids = Append(h[f.d].kids, v)
          /\ \A c \in 1..Len(h) : c # f.d => new[c] = h[c]
      <4>1. IsGraph(graph) /\ h \in HeapType(graph) /\ f.d \in 1..Len(h) /\ v \in Int
        BY <2>4 DEF Old
      <4> QED BY <4>1, PlacedIs
    <3>2. heap' = new /\ stack' = Advanced(frames) /\ status' = status
      BY <2>1, <2>6
    <3> HIDE DEF new
    <3>3. f.next <= Len(graph[f.v.n].kids) /\ f.next \in 1..Len(graph[h[f.d].of].kids)
      <4>1. Len(graph[f.v.n].kids) \in Nat
        BY <2>2, GraphFacts DEF Old
      <4> QED BY <2>2, <2>3, <2>4, <4>1 DEF Awaits, FrameOK
    <3>4. Filled(graph, new, f.d, f.next)
      <4> HIDE DEF f
      <4> QED BY <2>3, <2>4, <2>5, <2>6, <3>1, <3>3, FilledMore DEF Old
    <3>5. Sound(graph, new, Advanced(frames))
      BY <1>2, <2>5, <2>6, <3>1, <3>3, <3>4, Advance DEF Old
    <3>6. Advanced(frames) \in StackType(graph) /\ Len(Advanced(frames)) = Len(frames)
          /\ \A j \in 1..Len(frames) : Advanced(frames)[j].v = frames[j].v
      BY <1>2, AdvancedIs DEF Old
    <3>7. Extends(heap, new)
      <4>1. Len(heap) \in Nat
        BY HeapFacts DEF Old, TypeOK
      <4> QED BY <2>4, <3>1, <4>1 DEF Extends
    <3> QED BY <2>1, <3>1, <3>2, <3>5, <3>6, <3>7 DEF Kept, Old, StatusType
  <2>7. CASE ~Settable(f, v, ro)
    <3>1. heap' = heap /\ stack' = stack /\ status' = "error" /\ Explained(graph, stack)
      BY <2>1, <2>5, <2>7 DEF Explained
    <3>2. Len(heap) \in Nat /\ Extends(heap, heap)
      BY HeapFacts DEF Extends, Old, TypeOK
    <3>3. /\ heap \in HeapType(graph) /\ stack \in StackType(graph) /\ Sound(graph, heap, stack)
          /\ \A j \in 1..Len(stack) : Reached(graph, stack[j].v)
      BY DEF Old, TypeOK, CallOK
    <3> QED BY <2>1, <3>1, <3>2, <3>3 DEF Kept, StatusType
  <2> QED BY <2>6, <2>7
<1> QED BY <1>1, <1>2

(* What it does to the value about to be cloned, and to the pointers. *)
CallNext ==
    /\ call' \in ValIn(graph) \cup {NoCall}
    /\ call' # NoCall => Reached(graph, call')
    /\ call' # NoCall /\ stack' # <<>> => Awaits(graph, stack'[Len(stack')], call'.n)

NoPointer ==
    /\ visited' = visited
    /\ \A c \in 1..Len(heap') : c \in 1..Len(heap) \/ graph[heap'[c].of].kind # "ptr"

LEMMA Unchanged ==
    ASSUME Old, heap' = heap, stack' = stack, status' \in StatusType \ {"done"},
           status' = "error" => Explained(graph, stack)
    PROVE  Kept
PROOF
<1>1. Len(heap) \in Nat /\ Extends(heap, heap)
  BY HeapFacts DEF Extends, Old, TypeOK
<1>2. /\ heap \in HeapType(graph) /\ stack \in StackType(graph) /\ Sound(graph, heap, stack)
      /\ \A j \in 1..Len(stack) : Reached(graph, stack[j].v)
  BY DEF Old, TypeOK, CallOK
<1> QED BY <1>1, <1>2 DEF Kept

LEMMA CalledIs ==
    ASSUME Old, NEW kinds, Called(kinds)
    PROVE  /\ call \in ValIn(graph) /\ call.n \in DOMAIN graph /\ call.n \in Nat \ {0}
           /\ call.ro \in BOOLEAN /\ graph[call.n].kind \in kinds
           /\ Reached(graph, call)
           /\ stack # <<>> => Awaits(graph, stack[Len(stack)], call.n)
PROOF
<1>1. call \in ValIn(graph) /\ graph[call.n].kind \in kinds /\ call # NoCall
  BY DEF Called, Old, TypeOK, KindOf
<1>2. call.n \in DOMAIN graph /\ call.ro \in BOOLEAN
  BY <1>1 DEF ValIn
<1>3. call.n \in Nat \ {0}
  BY <1>2, GraphFacts DEF Old
<1> QED BY <1>1, <1>2, <1>3 DEF Old, CallOK

LEMMA NoCallIs == ASSUME call' = NoCall PROVE CallNext
BY DEF CallNext

(* A call that returns at once. *)
LEMMA AtOnce ==
    ASSUME Old, NEW kinds, Called(kinds), NEW v \in Int, NEW ro, Answers(graph, heap, v, call.n),
           ro => HasSecret(graph), visited' = visited, Result(v, ro, heap, stack)
    PROVE  Kept /\ CallNext /\ NoPointer
PROOF
<1>1. /\ call.n \in DOMAIN graph
      /\ stack # <<>> => Awaits(graph, stack[Len(stack)], call.n)
  BY CalledIs
<1>2. heap \in HeapType(graph) /\ stack \in StackType(graph) /\ Sound(graph, heap, stack) /\ Len(heap) \in Nat
  BY HeapFacts DEF Old, TypeOK
<1>3. Extends(heap, heap) /\ \A k \in 1..Len(stack) : Reached(graph, stack[k].v)
  BY <1>2 DEF Extends, Old, CallOK
<1>4. Kept /\ call' = NoCall /\ (heap' = heap \/ (Len(heap') = Len(heap) /\ Extends(heap, heap')))
  BY <1>1, <1>2, <1>3, ResultKeeps
<1> QED BY <1>4, NoCallIs DEF NoPointer

LEMMA SharedStep ==
    ASSUME Old, CallShared
    PROVE  Kept /\ CallNext /\ NoPointer
PROOF
<1>1. Called(Shared) /\ Result(call.n, call.ro, heap, stack) /\ visited' = visited
  BY DEF CallShared
<1>2. call.n \in Nat \ {0} /\ graph[call.n].kind \in Shared /\ Reached(graph, call)
  BY <1>1, CalledIs
<1>3. Answers(graph, heap, call.n, call.n)
  BY <1>2 DEF Answers
<1>4. call.ro => HasSecret(graph)
  BY <1>2 DEF Reached, NilIn, Shared, Nillable
<1>5. call.n \in Int
  BY <1>2
<1> QED BY <1>1, <1>3, <1>4, <1>5, AtOnce

LEMMA NilStep ==
    ASSUME Old, CallNil
    PROVE  Kept /\ CallNext /\ NoPointer
PROOF
<1>1. Called(Nillable) /\ Result(0, FALSE, heap, stack) /\ visited' = visited
  BY DEF CallNil
<1>2. NilIn(graph, call.n)
  BY Same DEF CallNil
<1>3. Answers(graph, heap, 0, call.n)
  BY <1>2 DEF Answers
<1>4. 0 \in Int /\ (FALSE => HasSecret(graph))
  OBVIOUS
<1> QED BY <1>1, <1>3, <1>4, AtOnce

LEMMA SeenStep ==
    ASSUME Old, VisitedOK(graph, visited, heap), clonePtr,
           Address(Target(call.n)) \in DOMAIN visited
    PROVE  Kept /\ CallNext /\ NoPointer
PROOF
<1> DEFINE a == Address(Target(call.n))
<1>1. Called({"ptr"}) /\ Result(visited[a], FALSE, heap, stack) /\ visited' = visited /\ ~IsNil(call.n)
  BY DEF clonePtr
<1>2. graph[call.n].kind = "ptr" /\ ~NilIn(graph, call.n) /\ a = AddressIn(graph, graph[call.n].kids[1])
  BY <1>1, CalledIs, Same DEF Target, Kids
<1>3. PICK c \in 1..Len(heap) : IsPtr(graph, heap, c, a) /\ visited[a] = -c
  BY DEF VisitedOK
<1>4. c \in Nat \ {0}
  BY HeapFacts DEF Old, TypeOK
<1>5. visited[a] \in Int /\ visited[a] < 0 /\ -visited[a] = c
  BY <1>3, <1>4
<1> HIDE DEF a
<1>6. Answers(graph, heap, visited[a], call.n)
  BY <1>2, <1>3, <1>5 DEF Answers, SameAddress, IsPtr
<1> QED BY <1>1, <1>5, <1>6, AtOnce

(* A new channel. *)
LEMMA ChanStep ==
    ASSUME Old, cloneChan
    PROVE  Kept /\ CallNext /\ NoPointer
PROOF
<1> DEFINE n == call.n
           h == Added(heap, n)
           v == -(Len(heap) + 1)
<1>1. Called({"chan"}) /\ Result(v, FALSE, h, stack) /\ visited' = visited
  BY DEF cloneChan, New, Added
<1>2. n \in DOMAIN graph /\ graph[n].kind = "chan" /\ (stack # <<>> => Awaits(graph, stack[Len(stack)], n))
  BY <1>1, CalledIs
<1>3. /\ heap \in HeapType(graph) /\ stack \in StackType(graph) /\ Sound(graph, heap, stack)
      /\ \A k \in 1..Len(stack) : Reached(graph, stack[k].v)
  BY DEF Old, TypeOK, CallOK
<1>4. /\ h \in HeapType(graph) /\ Len(heap) \in Nat /\ Len(h) = Len(heap) + 1 /\ Extends(heap, h)
      /\ h[Len(heap) + 1].of = n
  BY <1>2, <1>3, AddedIs DEF Old
<1>5. Sound(graph, h, stack)
  BY <1>2, <1>3, AddedSound DEF Old
<1> HIDE DEF h, n
<1>6. v \in Int /\ v < 0 /\ -v = Len(heap) + 1
  BY <1>4
<1>7. Answers(graph, h, v, n)
  BY <1>4, <1>6 DEF Answers
<1> HIDE DEF v
<1>8. Kept /\ call' = NoCall /\ (heap' = heap \/ (Len(heap') = Len(h) /\ Extends(h, heap')))
  BY <1>1, <1>2, <1>3, <1>4, <1>5, <1>6, <1>7, ResultKeeps
<1>9. NoPointer
  <2>1. CASE heap' = heap
    BY <1>1, <2>1 DEF NoPointer
  <2>2. CASE Len(heap') = Len(h) /\ Extends(h, heap')
    <3>1. \A c \in 1..Len(heap') : c \in 1..Len(heap) \/ c = Len(heap) + 1
      BY <1>4, <2>2
    <3>2. heap'[Len(heap) + 1].of = n
      BY <1>4, <2>2 DEF Extends
    <3> QED BY <1>1, <1>2, <3>1, <3>2 DEF NoPointer
  <2> QED BY <1>8, <2>1, <2>2
<1> QED BY <1>8, <1>9, NoCallIs

(* The copy of a container is begun. *)
LEMMA PushKeeps ==
    ASSUME Old, NEW kinds \in SUBSET (Inline \cup Nillable), Called(kinds), ~IsNil(call.n), Push(call)
    PROVE  /\ Kept /\ CallNext
           /\ \/ status' = "overflow" /\ heap' = heap
              \/ heap' = Added(heap, call.n)
PROOF
<1>1. /\ call \in ValIn(graph) /\ call.n \in DOMAIN graph /\ graph[call.n].kind \in kinds
      /\ Reached(graph, call)
      /\ stack # <<>> => Awaits(graph, stack[Len(stack)], call.n)
  BY CalledIs
<1>2. ~NilIn(graph, call.n)
  BY Same
<1>3. /\ heap \in HeapType(graph) /\ stack \in StackType(graph) /\ Sound(graph, heap, stack)
      /\ \A k \in 1..Len(stack) : Reached(graph, stack[k].v)
      /\ status = "running" /\ IsGraph(graph)
  BY DEF Old, TypeOK, CallOK
<1>4. CASE Len(stack) < StackLimit
  <2> DEFINE t == Append(stack, Frame(call, Len(heap) + 1))
  <2>1. heap' = Added(heap, call.n) /\ stack' = t /\ call' = NoCall /\ status' = status
    BY <1>4 DEF Push, New, Added
  <2>2. Sound(graph, Added(heap, call.n), t) /\ t \in StackType(graph)
    BY <1>1, <1>2, <1>3, PushSound
  <2>3. Added(heap, call.n) \in HeapType(graph) /\ Extends(heap, Added(heap, call.n))
    BY <1>1, <1>3, AddedIs
  <2>4. \A k \in 1..Len(t) : Reached(graph, t[k].v)
    <3>1. Len(stack) \in Nat /\ stack \in Seq([v : ValIn(graph), d : Nat, next : Nat])
      BY <1>3, StackFacts DEF StackType
    <3>2. Frame(call, Len(heap) + 1).v = call
      BY DEF Frame
    <3>3. \A k \in 1..Len(t) : (k \in 1..Len(stack) /\ t[k] = stack[k]) \/ t[k] = Frame(call, Len(heap) + 1)
      <4> DEFINE S == [v : ValIn(graph), d : Nat, next : Nat]
                 f == Frame(call, Len(heap) + 1)
      <4> HIDE DEF S, f
      <4>1. stack \in Seq(S)
        BY <3>1 DEF S
      <4> QED BY <3>1, <4>1 DEF f
    <3> QED BY <1>1, <1>3, <3>2, <3>3
  <2> HIDE DEF t
  <2> QED BY <1>3, <2>1, <2>2, <2>3, <2>4, NoCallIs DEF Kept, StatusType
<1>5. CASE ~(Len(stack) < StackLimit)
  <2>1. status' = "overflow" /\ heap' = heap /\ stack' = stack /\ call' = call
    BY <1>5 DEF Push
  <2>2. Kept
    BY <2>1, Unchanged DEF StatusType
  <2> QED BY <1>1, <2>1, <2>2 DEF CallNext
<1> QED BY <1>4, <1>5

LEMMA IntoStep ==
    ASSUME Old, CallInto
    PROVE  Kept /\ CallNext /\ NoPointer
PROOF
<1> DEFINE kinds == (Inline \cup Nillable) \ {"ptr"}
<1>1. Called(kinds) /\ ~IsNil(call.n) /\ Push(call) /\ visited' = visited
  BY DEF CallInto
<1>2. kinds \in SUBSET (Inline \cup Nillable) /\ "ptr" \notin kinds
  OBVIOUS
<1> HIDE DEF kinds
<1>3. /\ Kept /\ CallNext
      /\ heap' = heap \/ heap' = Added(heap, call.n)
  BY <1>1, <1>2, PushKeeps
<1>4. call.n \in DOMAIN graph /\ graph[call.n].kind # "ptr"
  BY <1>1, <1>2, CalledIs
<1>5. /\ Len(Added(heap, call.n)) = Len(heap) + 1 /\ Len(heap) \in Nat
      /\ Added(heap, call.n)[Len(heap) + 1].of = call.n
  BY <1>4, AddedIs DEF Old, TypeOK
<1>6. CASE heap' = Added(heap, call.n)
  <2>1. \A c \in 1..Len(heap') : c \in 1..Len(heap) \/ c = Len(heap) + 1
    BY <1>5, <1>6
  <2> QED BY <1>1, <1>3, <1>4, <1>5, <1>6, <2>1 DEF NoPointer
<1>7. CASE heap' = heap
  BY <1>1, <1>3, <1>7 DEF NoPointer
<1> QED BY <1>3, <1>6, <1>7

LEMMA PtrStep ==
    ASSUME Old, clonePtr, Address(Target(call.n)) \notin DOMAIN visited,
           PtrsVisited(graph, visited, heap), VisitedOK(graph, visited, heap)
    PROVE  /\ Kept /\ CallNext
           /\ PtrsVisited(graph, visited', heap')
           /\ status' = "running" => VisitedOK(graph, visited', heap')
PROOF
<1> DEFINE a == Address(Target(call.n))
           k == Len(heap) + 1
<1>1. /\ Called({"ptr"}) /\ ~IsNil(call.n) /\ Push(call)
      /\ visited' = [x \in DOMAIN visited \cup {a} |-> IF x = a THEN -k ELSE visited[x]]
  BY DEF clonePtr, Remembered
<1>2. /\ Kept /\ CallNext
      /\ (status' = "overflow" /\ heap' = heap) \/ heap' = Added(heap, call.n)
  <2>1. {"ptr"} \in SUBSET (Inline \cup Nillable)
    BY DEF Nillable
  <2> QED BY <1>1, <2>1, PushKeeps
<1>3. /\ call.n \in DOMAIN graph /\ graph[call.n].kind = "ptr" /\ ~NilIn(graph, call.n)
      /\ a = AddressIn(graph, graph[call.n].kids[1])
  BY <1>1, CalledIs, Same DEF Target, Kids
<1>4. /\ Len(Added(heap, call.n)) = k /\ Len(heap) \in Nat
      /\ Added(heap, call.n)[k].of = call.n
      /\ \A c \in 1..Len(heap) : Added(heap, call.n)[c] = heap[c]
  BY <1>3, AddedIs DEF Old, TypeOK
<1>5. /\ DOMAIN visited' = DOMAIN visited \cup {a} /\ visited'[a] = -k
      /\ \A b \in DOMAIN visited : b # a /\ visited'[b] = visited[b]
  BY <1>1
<1> HIDE DEF a, k
<1>6. PtrsVisited(graph, visited', heap)
  BY <1>5 DEF PtrsVisited
<1>7. ASSUME heap' = Added(heap, call.n)
      PROVE  PtrsVisited(graph, visited', heap') /\ VisitedOK(graph, visited', heap')
  <2>1. /\ \A c \in 1..Len(heap') : c \in 1..Len(heap) \/ c = k
        /\ \A c \in 1..Len(heap) : c \in 1..Len(heap') /\ heap'[c] = heap[c]
        /\ k \in 1..Len(heap') /\ heap'[k].of = call.n
    BY <1>4, <1>7 DEF k
  <2>2. IsPtr(graph, heap', k, a)
    BY <1>3, <2>1 DEF IsPtr
  <2>3. \A c \in 1..Len(heap) : \A b : IsPtr(graph, heap, c, b) <=> IsPtr(graph, heap', c, b)
    BY <2>1 DEF IsPtr
  <2>4. PtrsVisited(graph, visited', heap')
    <3> SUFFICES ASSUME NEW c \in 1..Len(heap'), graph[heap'[c].of].kind = "ptr"
                 PROVE  \E b \in DOMAIN visited' : IsPtr(graph, heap', c, b) /\ visited'[b] = -c
      BY DEF PtrsVisited
    <3>1. CASE c = k
      BY <1>5, <2>2, <3>1
    <3>2. CASE c \in 1..Len(heap)
      <4>1. PICK b \in DOMAIN visited : IsPtr(graph, heap, c, b) /\ visited[b] = -c
        BY <2>1, <3>2 DEF PtrsVisited
      <4> QED BY <1>5, <2>3, <3>2, <4>1
    <3> QED BY <2>1, <3>1, <3>2
  <2>5. VisitedOK(graph, visited', heap')
    <3> SUFFICES ASSUME NEW b \in DOMAIN visited'
                 PROVE  \E c \in 1..Len(heap') : IsPtr(graph, heap', c, b) /\ visited'[b] = -c
      BY DEF VisitedOK
    <3>1. CASE b = a
      BY <1>5, <2>1, <2>2, <3>1
    <3>2. CASE b \in DOMAIN visited
      <4>1. PICK c \in 1..Len(heap) : IsPtr(graph, heap, c, b) /\ visited[b] = -c
        BY <3>2 DEF VisitedOK
      <4> QED BY <1>5, <2>1, <2>3, <3>2, <4>1
    <3> QED BY <1>5, <3>1, <3>2
  <2> QED BY <2>4, <2>5
<1> QED BY <1>2, <1>6, <1>7

-----------------------------------------------------------------------------
(* The steps from kid to kid. *)
LEMMA AtKidIs ==
    ASSUME Old, NEW kinds, AtKid(kinds)
    PROVE  /\ Top = stack[Len(stack)] /\ stack # <<>> /\ Len(stack) \in 1..Len(stack)
           /\ Top.v.n \in DOMAIN graph /\ graph[Top.v.n].kind \in kinds
           /\ Top.v.addr \in BOOLEAN /\ Top.v.ro \in BOOLEAN
           /\ Top.next \in 1..Len(graph[Top.v.n].kids)
           /\ Kid = graph[Top.v.n].kids[Top.next] /\ Kid \in DOMAIN graph
           /\ FrameOK(graph, heap, Top) /\ Filled(graph, heap, Top.d, Top.next - 1)
           /\ Reached(graph, Top.v)
           /\ call = NoCall
PROOF
<1>1. /\ Top = stack[Len(stack)] /\ stack # <<>> /\ call = NoCall
      /\ graph[Top.v.n].kind \in kinds /\ Top.next <= Len(graph[Top.v.n].kids)
      /\ Kid = graph[Top.v.n].kids[Top.next]
  BY DEF AtKid, Top, Kid, KindOf, Kids
<1>2. stack \in StackType(graph) /\ IsGraph(graph)
  BY DEF Old, TypeOK
<1>3. Len(stack) \in 1..Len(stack)
  BY <1>1, <1>2, AdvancedIs
<1>4. Top.v.n \in DOMAIN graph /\ Top.next \in Nat /\ Top.v.addr \in BOOLEAN /\ Top.v.ro \in BOOLEAN
  BY <1>1, <1>2, <1>3, StackFacts
<1>5. FrameOK(graph, heap, Top) /\ Filled(graph, heap, Top.d, Top.next - 1) /\ Reached(graph, Top.v)
  BY <1>1, <1>3 DEF Old, Sound, FramesOK, CopiesOK, CallOK
<1>6. Len(graph[Top.v.n].kids) \in Nat
  BY <1>2, <1>4, GraphFacts
<1>7. Top.next \in 1..Len(graph[Top.v.n].kids)
  BY <1>1, <1>4, <1>5, <1>6 DEF FrameOK
<1>8. Kid \in DOMAIN graph
  BY <1>1, <1>2, <1>4, <1>7, GraphFacts
<1> QED BY <1>1, <1>3, <1>4, <1>5, <1>7, <1>8

LEMMA KidStep ==
    ASSUME Old, NEW kinds, AtKid(kinds), NEW v \in ValIn(graph), CallKid(v), visited' = visited,
           Reached(graph, v),
           (graph[Top.v.n].kind = "map" /\ Top.v.ro) \/ PartIn(graph, Top.v.n, Kid) = <<v.n>>
    PROVE  Kept /\ CallNext /\ NoPointer
PROOF
<1>1. heap' = heap /\ stack' = stack /\ status' = status /\ call' = v
  BY DEF CallKid
<1>2. Kept
  BY <1>1, Unchanged DEF StatusType, Old
<1>3. Awaits(graph, Top, v.n) /\ Top = stack[Len(stack)]
  BY AtKidIs DEF Awaits
<1>4. CallNext
  BY <1>1, <1>3 DEF CallNext
<1>5. NoPointer
  BY <1>1 DEF NoPointer
<1> QED BY <1>2, <1>4, <1>5

LEMMA ValIs ==
    ASSUME NEW g, NEW n \in DOMAIN g, NEW addr \in BOOLEAN, NEW ro \in BOOLEAN
    PROVE  /\ Val(n, addr, ro) \in ValIn(g) /\ Val(n, addr, ro).n = n
           /\ Val(n, addr, ro).addr = addr /\ Val(n, addr, ro).ro = ro
BY DEF Val, ValIn

(* A kid of a value that is in line, or of a map or an interface. *)
LEMMA KidReached ==
    ASSUME Old, NEW kinds, AtKid(kinds)
    PROVE  /\ Top.v.ro => HasSecret(graph)
           /\ graph[Top.v.n].kind \in {"map", "iface"} => Kid \in ByValueIn(graph)
           /\ graph[Top.v.n].kind \in Inline /\ ~Top.v.addr => Kid \in ByValueIn(graph)
PROOF
<1>1. /\ Reached(graph, Top.v) /\ ~NilIn(graph, Top.v.n) /\ Top.v.n \in DOMAIN graph
      /\ Top.next \in 1..Len(graph[Top.v.n].kids) /\ Kid = graph[Top.v.n].kids[Top.next]
  BY AtKidIs DEF FrameOK
<1>2. IsGraph(graph)
  BY DEF Old
<1> QED BY <1>1, <1>2, ByValueClosed DEF Reached

LEMMA ElemStep ==
    ASSUME Old, NextElem \/ PtrElem \/ InterfaceElem \/ NextField
    PROVE  Kept /\ CallNext /\ NoPointer
PROOF
<1>1. PICK kinds \in SUBSET {"array", "slice", "ptr", "iface", "struct"}, addr \in BOOLEAN :
        /\ AtKid(kinds) /\ CallKid(Val(Kid, addr, Top.v.ro)) /\ visited' = visited
        /\ ~addr => graph[Top.v.n].kind = "iface" \/ (graph[Top.v.n].kind \in Inline /\ ~Top.v.addr)
  <2>1. CASE NextElem
    <3> DEFINE addr == KindOf(Top.v.n) = "slice" \/ Top.v.addr
    <3>1. AtKid({"array", "slice"}) /\ CallKid(Val(Kid, addr, Top.v.ro)) /\ visited' = visited
      BY <2>1 DEF NextElem
    <3>2. graph[Top.v.n].kind \in {"array", "slice"} /\ Top.v.addr \in BOOLEAN
      BY <3>1, AtKidIs
    <3>3. addr \in BOOLEAN /\ (~addr => graph[Top.v.n].kind \in Inline /\ ~Top.v.addr)
      BY <3>2 DEF KindOf, Inline
    <3>4. {"array", "slice"} \in SUBSET {"array", "slice", "ptr", "iface", "struct"}
      OBVIOUS
    <3> HIDE DEF addr
    <3> QED BY <3>1, <3>3, <3>4
  <2>2. CASE PtrElem
    BY <2>2 DEF PtrElem
  <2>3. CASE InterfaceElem
    <3>1. AtKid({"iface"}) /\ CallKid(Val(Kid, FALSE, Top.v.ro)) /\ visited' = visited
      BY <2>3 DEF InterfaceElem
    <3>2. graph[Top.v.n].kind \in {"iface"}
      BY <3>1, AtKidIs
    <3> QED BY <3>1, <3>2
  <2>4. CASE NextField
    <3>1. AtKid({"struct"}) /\ CallKid(Val(Kid, Top.v.addr, Top.v.ro)) /\ visited' = visited
      BY <2>4 DEF NextField
    <3>2. graph[Top.v.n].kind \in {"struct"} /\ Top.v.addr \in BOOLEAN
      BY <3>1, AtKidIs
    <3> QED BY <3>1, <3>2 DEF Inline
  <2> QED BY <2>1, <2>2, <2>3, <2>4
<1> DEFINE v == Val(Kid, addr, Top.v.ro)
<1>2. /\ Kid \in DOMAIN graph /\ Top.v.ro \in BOOLEAN /\ graph[Top.v.n].kind \in kinds
  BY <1>1, AtKidIs
<1>3. v \in ValIn(graph) /\ v.n = Kid /\ v.addr = addr /\ v.ro = Top.v.ro
  BY <1>2, ValIs
<1>4. PartIn(graph, Top.v.n, Kid) = <<v.n>>
  BY <1>2, <1>3 DEF PartIn
<1> HIDE DEF v
<1>5. Reached(graph, v)
  BY <1>1, <1>3, KidReached DEF Reached
<1> QED BY <1>1, <1>3, <1>4, <1>5, KidStep DEF v

(* A kid that is passed over or is copied where it is. *)
LEMMA InPlace ==
    ASSUME Old, NEW kinds, AtKid(kinds), visited' = visited, status' = status, call' = call,
           stack' = Advanced(stack), ~(graph[Top.v.n].kind = "map" /\ Top.v.ro),
           \/ heap' = heap /\ PartIn(graph, Top.v.n, Kid) = <<>>
           \/ /\ heap' = Placed(heap, Top.d, Kid) /\ PartIn(graph, Top.v.n, Kid) = <<Kid>>
              /\ graph[Kid].kind \in Shared
    PROVE  Kept /\ CallNext /\ NoPointer
PROOF
<1>1. /\ Top = stack[Len(stack)] /\ stack # <<>>
      /\ Top.next \in 1..Len(graph[Top.v.n].kids)
      /\ Kid = graph[Top.v.n].kids[Top.next] /\ Kid \in DOMAIN graph
      /\ FrameOK(graph, heap, Top) /\ Filled(graph, heap, Top.d, Top.next - 1)
      /\ call = NoCall
  BY AtKidIs
<1>2. /\ heap \in HeapType(graph) /\ stack \in StackType(graph) /\ Sound(graph, heap, stack)
      /\ IsGraph(graph) /\ status = "running" /\ \A k \in 1..Len(stack) : Reached(graph, stack[k].v)
  BY DEF Old, TypeOK, CallOK
<1>3. /\ Top.d \in 1..Len(heap) /\ heap[Top.d].of = Top.v.n /\ Len(heap) \in Nat
      /\ Top.next <= Len(graph[Top.v.n].kids)
  <2>1. Top.d \in 1..Len(heap) /\ heap[Top.d].of = Top.v.n
    BY <1>1 DEF FrameOK
  <2>2. Len(heap) \in Nat
    BY <1>2, HeapFacts
  <2>3. Top.next <= Len(graph[Top.v.n].kids)
    BY DEF AtKid, Kids
  <2> QED BY <2>1, <2>2, <2>3
<1>4. /\ heap' \in HeapType(graph) /\ Len(heap') = Len(heap) /\ Extends(heap, heap')
      /\ \A c \in 1..Len(heap) : c # Top.d => heap'[c].kids = heap[c].kids
      /\ Filled(graph, heap', Top.d, Top.next)
  <2>1. CASE heap' = heap /\ PartIn(graph, Top.v.n, Kid) = <<>>
    <3>1. Filled(graph, heap, Top.d, Top.next)
      BY <1>1, <1>2, <1>3, <2>1, FilledSkip
    <3> QED BY <1>2, <1>3, <2>1, <3>1 DEF Extends
  <2>2. CASE /\ heap' = Placed(heap, Top.d, Kid) /\ PartIn(graph, Top.v.n, Kid) = <<Kid>>
             /\ graph[Kid].kind \in Shared
    <3>1. Kid \in Int /\ Kid >= 0 /\ ~(Kid < 0)
      <4>1. Kid \in Nat \ {0}
        BY <1>1, <1>2, GraphFacts
      <4> QED BY <4>1
    <3>2. Matches(graph, heap, Top.v.n, Kid, Kid)
      BY <2>2, <3>1 DEF Matches, Answers
    <3> DEFINE new == Placed(heap, Top.d, Kid)
    <3>3. /\ new \in HeapType(graph) /\ Len(new) = Len(heap) /\ Extends(heap, new)
          /\ new[Top.d].kids = Append(heap[Top.d].kids, Kid)
          /\ \A c \in 1..Len(heap) : c # Top.d => new[c] = heap[c]
      BY <1>2, <1>3, <3>1, PlacedIs
    <3> HIDE DEF new
    <3>4. Filled(graph, new, Top.d, Top.next)
      BY <1>1, <1>2, <1>3, <2>2, <3>1, <3>2, <3>3, FilledMore
    <3>5. heap' = new
      BY <2>2 DEF new
    <3> QED BY <3>3, <3>4, <3>5
  <2> QED BY <2>1, <2>2
<1>5. Sound(graph, heap', Advanced(stack))
  BY <1>1, <1>2, <1>3, <1>4, Advance
<1>6. /\ Advanced(stack) \in StackType(graph) /\ Len(Advanced(stack)) = Len(stack)
      /\ \A j \in 1..Len(stack) : Advanced(stack)[j].v = stack[j].v
  BY <1>1, <1>2, AdvancedIs
<1>7. Kept
  BY <1>2, <1>4, <1>5, <1>6 DEF Kept, StatusType
<1> QED BY <1>1, <1>4, <1>7, NoCallIs DEF NoPointer

LEMMA EntryStep ==
    ASSUME Old, NextEntry
    PROVE  Kept /\ CallNext /\ NoPointer
PROOF
<1>1. /\ AtKid({"map"}) /\ visited' = visited
      /\ IF graph[Kid].kind # "iface" \/ Top.v.ro THEN CallKid(Val(Kid, FALSE, Top.v.ro))
         ELSE IF NilIn(graph, Kid) THEN Skip
         ELSE CallKid(Val(graph[Kid].kids[1], FALSE, FALSE))
  BY Same DEF NextEntry, KindOf, Kids, Target
<1>2. /\ Kid \in DOMAIN graph /\ Top.v.ro \in BOOLEAN /\ graph[Top.v.n].kind = "map"
      /\ Top.v.ro => HasSecret(graph)
      /\ Kid \in ByValueIn(graph) /\ IsGraph(graph)
  BY <1>1, AtKidIs, KidReached DEF Old
<1>3. CASE graph[Kid].kind # "iface" \/ Top.v.ro
  <2> DEFINE v == Val(Kid, FALSE, Top.v.ro)
  <2>1. v \in ValIn(graph) /\ v.n = Kid /\ v.addr = FALSE /\ v.ro = Top.v.ro
    <3>1. v \in ValIn(graph)
      BY <1>2 DEF Val, ValIn
    <3>2. v.n = Kid /\ v.addr = FALSE /\ v.ro = Top.v.ro
      BY DEF Val
    <3> QED BY <3>1, <3>2
  <2>2. (graph[Top.v.n].kind = "map" /\ Top.v.ro) \/ PartIn(graph, Top.v.n, Kid) = <<Kid>>
    BY <1>2, <1>3 DEF PartIn
  <2>3. CallKid(v)
    BY <1>1, <1>3
  <2> HIDE DEF v
  <2>4. Reached(graph, v)
    BY <1>2, <2>1 DEF Reached
  <2> QED BY <1>1, <2>1, <2>2, <2>3, <2>4, KidStep
<1>4. CASE graph[Kid].kind = "iface" /\ ~Top.v.ro /\ NilIn(graph, Kid)
  <2>1. heap' = heap /\ call' = call /\ status' = status /\ stack' = Advanced(stack)
    BY <1>1, <1>4 DEF Skip, Advanced
  <2>2. PartIn(graph, Top.v.n, Kid) = <<>>
    BY <1>2, <1>4 DEF PartIn
  <2> QED BY <1>1, <1>4, <2>1, <2>2, InPlace
<1>5. CASE graph[Kid].kind = "iface" /\ ~Top.v.ro /\ ~NilIn(graph, Kid)
  <2> DEFINE v == Val(graph[Kid].kids[1], FALSE, FALSE)
             m == graph[Kid].kids[1]
  <2>1. m \in DOMAIN graph
    BY <1>2, <1>5, GraphFacts DEF Nillable
  <2>2. v \in ValIn(graph) /\ v.n = m /\ v.addr = FALSE /\ v.ro = FALSE
    BY <2>1, ValIs
  <2>3. PartIn(graph, Top.v.n, Kid) = <<m>>
    BY <1>2, <1>5 DEF PartIn
  <2>4. CallKid(v)
    BY <1>1, <1>5
  <2>5. m \in ByValueIn(graph)
    <3>1. 1 \in 1..Len(graph[Kid].kids)
      <4>1. graph[Kid].kids # <<>> /\ graph[Kid].kids \in Seq(DOMAIN graph)
        BY <1>2, <1>5, GraphFacts DEF NilIn, Nillable
      <4> QED BY <4>1
    <3> QED BY <1>2, <1>5, <3>1, ByValueClosed
  <2> HIDE DEF v, m
  <2>6. Reached(graph, v)
    BY <2>2, <2>5 DEF Reached
  <2> QED BY <1>1, <2>2, <2>3, <2>4, <2>6, KidStep
<1> QED BY <1>3, <1>4, <1>5

LEMMA PrivateStep ==
    ASSUME Old, NextPrivateField
    PROVE  Kept /\ CallNext /\ NoPointer
PROOF
<1>1. /\ AtKid({"private"}) /\ visited' = visited
      /\ IF Top.v.addr THEN CallKid(Val(Kid, TRUE, FALSE))
         ELSE CASE graph[Kid].kind = "basic" ->
                     heap' = Placed(heap, Top.d, Kid) /\ stack' = Advanced(stack)
                       /\ call' = call /\ status' = status
                [] graph[Kid].kind = "named" ->
                     status' = "error" /\ heap' = heap /\ stack' = stack /\ call' = call
                [] OTHER -> CallKid(Val(Kid, FALSE, TRUE))
  BY DEF NextPrivateField, ReachedByAddress, KindOf, Advanced
<1>2. /\ Kid \in DOMAIN graph /\ graph[Top.v.n].kind = "private" /\ Top.v.addr \in BOOLEAN
      /\ Top.v.n \in DOMAIN graph /\ Top.next \in 1..Len(graph[Top.v.n].kids)
      /\ Kid = graph[Top.v.n].kids[Top.next] /\ Reached(graph, Top.v) /\ call = NoCall
      /\ ~Top.v.addr => Kid \in ByValueIn(graph)
  BY <1>1, AtKidIs, KidReached DEF Inline
<1>3. PartIn(graph, Top.v.n, Kid) = <<Kid>>
  BY <1>2 DEF PartIn
<1>4. ASSUME ~Top.v.addr, graph[Kid].kind # "basic", ~NilIn(graph, Kid) PROVE HasSecret(graph)
  <2>1. Top.next \in DOMAIN graph[Top.v.n].kids
    BY <1>2, GraphFacts DEF Old
  <2>2. Top.v.n \in ByValueIn(graph)
    BY <1>2, <1>4 DEF Reached
  <2> QED BY <1>2, <1>4, <2>1, <2>2 DEF HasSecret
<1>5. CASE Top.v.addr
  <2> DEFINE v == Val(Kid, TRUE, FALSE)
  <2>1. v \in ValIn(graph) /\ v.n = Kid /\ v.addr = TRUE /\ v.ro = FALSE /\ CallKid(v)
    BY <1>1, <1>2, <1>5, ValIs
  <2> HIDE DEF v
  <2>2. Reached(graph, v)
    BY <2>1 DEF Reached
  <2> QED BY <1>1, <1>3, <2>1, <2>2, KidStep
<1>6. CASE ~Top.v.addr /\ graph[Kid].kind = "basic"
  <2>1. heap' = Placed(heap, Top.d, Kid) /\ stack' = Advanced(stack) /\ call' = call /\ status' = status
    BY <1>1, <1>6
  <2>2. graph[Kid].kind \in Shared
    BY <1>6 DEF Shared
  <2> QED BY <1>1, <1>2, <1>3, <2>1, <2>2, InPlace
<1>7. CASE ~Top.v.addr /\ graph[Kid].kind = "named"
  <2>1. status' = "error" /\ heap' = heap /\ stack' = stack /\ call' = call
    BY <1>1, <1>7
  <2>2. HasSecret(graph)
    BY <1>4, <1>7 DEF NilIn, Nillable
  <2>3. Kept
    BY <2>1, <2>2, Unchanged DEF StatusType, Explained
  <2> QED BY <1>1, <1>2, <2>1, <2>3, NoCallIs DEF NoPointer
<1>8. CASE ~Top.v.addr /\ graph[Kid].kind \notin {"basic", "named"}
  <2> DEFINE v == Val(Kid, FALSE, TRUE)
  <2>1. v \in ValIn(graph) /\ v.n = Kid /\ v.addr = FALSE /\ v.ro = TRUE /\ CallKid(v)
    BY <1>1, <1>2, <1>8, ValIs
  <2> HIDE DEF v
  <2>2. Reached(graph, v)
    BY <1>2, <1>4, <1>8, <2>1 DEF Reached
  <2> QED BY <1>1, <1>3, <2>1, <2>2, KidStep
<1> QED BY <1>2, <1>5, <1>6, <1>7, <1>8

LEMMA ReturnStep ==
    ASSUME Old, Return
    PROVE  Kept /\ CallNext /\ NoPointer
PROOF
<1> DEFINE len == Len(stack)
           top == stack[len]
           frames == Popped(stack)
           v == -top.d
<1>1. /\ stack # <<>> /\ top.next > Len(graph[top.v.n].kids)
      /\ Result(v, FALSE, heap, frames) /\ visited' = visited
  BY DEF Return, Top, Kids, Popped
<1>2. /\ heap \in HeapType(graph) /\ stack \in StackType(graph) /\ Sound(graph, heap, stack)
      /\ IsGraph(graph) /\ \A k \in 1..len : Reached(graph, stack[k].v)
  BY DEF Old, TypeOK, CallOK
<1>3. /\ frames \in StackType(graph) /\ Len(frames) = len - 1 /\ len \in 1..len /\ len \in Nat
      /\ \A k \in 1..len - 1 : frames[k] = stack[k] /\ k \in 1..len
  BY <1>1, <1>2, PoppedIs, StackFacts
<1>4. Sound(graph, heap, frames)
  BY <1>1, <1>2, Pop
<1>5. FrameOK(graph, heap, top) /\ (len > 1 => Awaits(graph, stack[len - 1], top.v.n))
  BY <1>2, <1>3 DEF Sound, FramesOK
<1>6. top.d \in 1..Len(heap) /\ heap[top.d].of = top.v.n /\ top.v.n \in DOMAIN graph
  BY <1>2, <1>3, <1>5, StackFacts DEF FrameOK
<1>7. v \in Int /\ v < 0 /\ -v = top.d
  <2>1. Len(heap) \in Nat
    BY <1>2, HeapFacts
  <2> HIDE DEF top
  <2> QED BY <1>6, <2>1
<1> HIDE DEF v
<1>8. Answers(graph, heap, v, top.v.n)
  BY <1>6, <1>7 DEF Answers
<1>9. frames # <<>> => Awaits(graph, frames[Len(frames)], top.v.n)
  <2> SUFFICES ASSUME frames # <<>> PROVE Awaits(graph, frames[Len(frames)], top.v.n)
    OBVIOUS
  <2> HIDE DEF frames, len
  <2>1. Len(frames) \in 1..Len(frames)
    BY <1>2, <1>3, AdvancedIs
  <2>2. len - 1 \in 1..len - 1 /\ len > 1
    BY <1>3, <2>1
  <2> QED BY <1>3, <1>5, <2>2
<1>10. \A k \in 1..Len(frames) : Reached(graph, frames[k].v)
  BY <1>2, <1>3
<1>11. Len(heap) \in Nat /\ Extends(heap, heap)
  BY <1>2, HeapFacts DEF Extends
<1> HIDE DEF frames, top, len
<1>12. Kept /\ call' = NoCall /\ (heap' = heap \/ (Len(heap') = Len(heap) /\ Extends(heap, heap')))
  BY <1>1, <1>2, <1>3, <1>4, <1>6, <1>7, <1>8, <1>9, <1>10, <1>11, ResultKeeps
<1> QED BY <1>1, <1>12, NoCallIs DEF NoPointer

-----------------------------------------------------------------------------
(* The theorems. *)
LEMMA GraphIs ==
    ASSUME NEW g \in Graphs
    PROVE  IsGraph(g)
BY CloneAssumption DEF IsGraph, Type

LEMMA InvInit == Init => Inv
PROOF
<1> SUFFICES ASSUME Init PROVE Inv
  OBVIOUS
<1>1. /\ graph \in Graphs /\ visited = <<>> /\ heap = <<>> /\ stack = <<>>
      /\ call = Val(1, FALSE, FALSE) /\ status = "running"
  BY DEF Init
<1>2. IsGraph(graph)
  BY <1>1, GraphIs
<1>3. 1 \in DOMAIN graph /\ 1 \in ByValueIn(graph)
  BY <1>2, GraphFacts, ByValueClosed
<1>4. TypeOK
  BY <1>1, <1>3, ValIs, EmptySeq DEF TypeOK, HeapType, StackType
<1>5. Len(heap) = 0 /\ Len(stack) = 0 /\ DOMAIN visited = {}
  BY <1>1
<1>6. FramesOK(graph, heap, stack) /\ CopiesOK(graph, heap, stack)
  BY <1>5 DEF FramesOK, CopiesOK
<1>7. PtrsVisited(graph, visited, heap) /\ VisitedOK(graph, visited, heap)
  BY <1>5 DEF PtrsVisited, VisitedOK
<1>8. Reached(graph, call)
  BY <1>1, <1>3, ValIs DEF Reached
<1>9. CallOK
  <2>1. \A k \in 1..Len(stack) : Reached(graph, stack[k].v)
    BY <1>5
  <2> QED BY <1>1, <1>8, <2>1 DEF CallOK
<1>10. StatusOK
  BY <1>1, <1>7 DEF StatusOK
<1> QED BY <1>4, <1>6, <1>7, <1>9, <1>10 DEF Inv

(* Pointers stay remembered when none is made. *)
LEMMA NoPointerKeeps ==
    ASSUME PtrsVisited(graph, visited, heap), Extends(heap, heap'), NoPointer, Len(heap) \in Nat, Len(heap') \in Nat
    PROVE  /\ PtrsVisited(graph, visited', heap')
           /\ VisitedOK(graph, visited, heap) => VisitedOK(graph, visited', heap')
PROOF
<1>1. /\ visited' = visited
      /\ \A c \in 1..Len(heap') : c \in 1..Len(heap) \/ graph[heap'[c].of].kind # "ptr"
      /\ \A c \in 1..Len(heap) : c \in 1..Len(heap') /\ heap'[c].of = heap[c].of
  BY DEF NoPointer, Extends
<1>2. \A c \in 1..Len(heap) : \A a : IsPtr(graph, heap, c, a) <=> IsPtr(graph, heap', c, a)
  BY <1>1 DEF IsPtr
<1>3. PtrsVisited(graph, visited', heap')
  BY <1>1, <1>2 DEF PtrsVisited
<1>4. ASSUME VisitedOK(graph, visited, heap) PROVE VisitedOK(graph, visited', heap')
  BY <1>1, <1>2, <1>4 DEF VisitedOK
<1> QED BY <1>3, <1>4

LEMMA InvNext == Inv /\ [Next]_vars => Inv'
PROOF
<1> SUFFICES ASSUME Inv, [Next]_vars PROVE Inv'
  OBVIOUS
<1>1. CASE UNCHANGED vars
  BY <1>1 DEF vars, Inv, TypeOK, CallOK, StatusOK
<1>2. CASE Next
  <2>1. status = "running" /\ graph' = graph
    BY <1>2 DEF Next, CallShared, CallNil, clonePtr, CallInto, cloneChan, NextElem, PtrElem,
                InterfaceElem, NextEntry, NextField, NextPrivateField, Return, Called, AtKid
  <2>2. Old /\ PtrsVisited(graph, visited, heap) /\ VisitedOK(graph, visited, heap)
    BY <2>1, GraphIs DEF Old, Inv, StatusOK, Sound, TypeOK
  <2>3. /\ Kept /\ CallNext
        /\ PtrsVisited(graph, visited', heap')
        /\ status' = "running" => VisitedOK(graph, visited', heap')
    <3>1. CASE clonePtr /\ Address(Target(call.n)) \notin DOMAIN visited
      BY <2>2, <3>1, PtrStep
    <3>2. CASE ~(clonePtr /\ Address(Target(call.n)) \notin DOMAIN visited)
      <4>1. Kept /\ CallNext /\ NoPointer
        BY <1>2, <2>2, <3>2, SharedStep, NilStep, SeenStep, IntoStep, ChanStep, ElemStep,
           EntryStep, PrivateStep, ReturnStep DEF Next
      <4>2. Len(heap) \in Nat /\ Len(heap') \in Nat /\ Extends(heap, heap')
        BY <2>2, <4>1, HeapFacts DEF Kept, Old, TypeOK
      <4> QED BY <2>2, <4>1, <4>2, NoPointerKeeps
    <3> QED BY <3>1, <3>2
  <2>4. /\ TypeOK' /\ FramesOK(graph', heap', stack') /\ CopiesOK(graph', heap', stack')
    BY <2>1, <2>2, <2>3 DEF Kept, CallNext, TypeOK, Old, Sound, StatusType
  <2>5. CallOK' /\ StatusOK'
    BY <2>1, <2>3 DEF Kept, CallNext, CallOK, StatusOK
  <2> QED BY <2>1, <2>3, <2>4, <2>5 DEF Inv
<1> QED BY <1>1, <1>2

(* The invariant all of this rests on. *)
THEOREM AlwaysInv == Spec => []Inv
PROOF
<1> QED BY InvInit, InvNext, PTL DEF Spec

(* Two copies of pointers to one address would both be what clonePtr remembers
   under it. *)
THEOREM AddressCorrect == Spec => []OneCopyPerAddress
PROOF
<1>1. Inv => OneCopyPerAddress
  <2> SUFFICES ASSUME Inv, NEW c \in DOMAIN heap, NEW d \in DOMAIN heap, c # d,
                      KindOf(heap[c].of) = "ptr", KindOf(heap[d].of) = "ptr",
                      Address(Target(heap[c].of)) = Address(Target(heap[d].of))
               PROVE  FALSE
    BY DEF OneCopyPerAddress
  <2>1. DOMAIN heap = 1..Len(heap) /\ Len(heap) \in Nat
    BY DEF Inv, TypeOK, HeapType
  <2>2. PICK a \in DOMAIN visited : IsPtr(graph, heap, c, a) /\ visited[a] = -c
    BY <2>1 DEF Inv, PtrsVisited, KindOf
  <2>3. PICK b \in DOMAIN visited : IsPtr(graph, heap, d, b) /\ visited[b] = -d
    BY <2>1 DEF Inv, PtrsVisited, KindOf
  <2>4. a = b
    BY <2>2, <2>3, Same DEF IsPtr, Target, Kids
  <2> QED BY <2>1, <2>2, <2>3, <2>4
<1> QED BY <1>1, AlwaysInv, PTL

(* Once the outermost call has returned no frame is left, and every copy is
   complete: Filled is then what CopyIsFaithful asks of it. *)
THEOREM CopyCorrect == Spec => []CopyIsFaithful
PROOF
<1>1. Inv => CopyIsFaithful
  <2> SUFFICES ASSUME Inv, status = "done", NEW c \in DOMAIN heap
               PROVE  LET n == heap[c].of
                          kids == heap[c].kids
                      IN  /\ Len(kids) = Len(Content(n))
                          /\ \A i \in DOMAIN kids :
                               LET v == kids[i]
                                   k == Content(n)[i]
                               IN  IF v >= 0 THEN (v = 0 /\ IsNil(k)) \/ (v = k /\ KindOf(k) \in Shared)
                                   ELSE \/ Of(v) = k
                                        \/ /\ KindOf(k) = "ptr" /\ KindOf(Of(v)) = "ptr"
                                           /\ Address(Target(Of(v))) = Address(Target(k))
                                           /\ Target(Of(v)) # Target(k) => InInterface(n, k)
    BY DEF CopyIsFaithful
  <2> DEFINE n == heap[c].of
             kids == heap[c].kids
  <2>1. c \in 1..Len(heap) /\ kids \in Seq(Int)
    <3>1. heap \in HeapType(graph) /\ IsGraph(graph)
      BY GraphIs DEF Inv, TypeOK
    <3>2. DOMAIN heap = 1..Len(heap)
      BY <3>1 DEF HeapType
    <3> QED BY <3>1, <3>2, HeapFacts
  <2>2. DOMAIN kids = 1..Len(kids) /\ \A i \in 1..Len(kids) : kids[i] \in Int
    BY <2>1
  <2>3. Filled(graph, heap, c, Len(graph[n].kids))
    <3>1. \A k \in 1..Len(stack) : stack[k].d # c
      BY DEF Inv, StatusOK
    <3> QED BY <2>1, <3>1 DEF Inv, CopiesOK
  <2>4. /\ Len(kids) = Len(Content(n))
        /\ \A i \in 1..Len(kids) : Matches(graph, heap, n, kids[i], Content(n)[i])
    BY <2>3, Same DEF Filled
  <2> HIDE DEF n, kids
  <2>5. ASSUME NEW v \in Int, NEW k, Matches(graph, heap, n, v, k)
        PROVE  IF v >= 0 THEN (v = 0 /\ IsNil(k)) \/ (v = k /\ KindOf(k) \in Shared)
               ELSE \/ Of(v) = k
                    \/ /\ KindOf(k) = "ptr" /\ KindOf(Of(v)) = "ptr"
                       /\ Address(Target(Of(v))) = Address(Target(k))
                       /\ Target(Of(v)) # Target(k) => InInterface(n, k)
    <3>1. CASE v >= 0
      <4>1. ~(v < 0)
        BY <3>1
      <4> QED BY <2>5, <3>1, <4>1, Same DEF Matches, Answers, KindOf
    <3>2. CASE ~(v >= 0)
      <4>1. v < 0 /\ v # 0
        BY <3>2
      <4>2. Of(v) = heap[-v].of
        BY <4>1 DEF Of
      <4> QED BY <2>5, <3>2, <4>1, <4>2, Same DEF Matches, Answers, SameAddress, KindOf, Target, Kids
    <3> QED BY <3>1, <3>2
  <2>6. \A i \in DOMAIN kids : kids[i] \in Int /\ Matches(graph, heap, n, kids[i], Content(n)[i])
    BY <2>2, <2>4
  <2> QED BY <2>4, <2>5, <2>6 DEF n, kids
<1> QED BY <1>1, AlwaysInv, PTL

(* Result, and NextPrivateField, fail for the reasons ErrorsExplained lists:
   StatusOK records them when they do. *)
THEOREM ErrorsCorrect == Spec => []ErrorsExplained
PROOF
<1>1. Inv => ErrorsExplained
  <2> SUFFICES ASSUME Inv, status = "error", stack # <<>>
               PROVE  \/ \E p, q \in DOMAIN graph :
                           /\ KindOf(p) = "ptr" /\ KindOf(q) = "ptr" /\ ~IsNil(p) /\ ~IsNil(q)
                           /\ Target(p) # Target(q) /\ Address(Target(p)) = Address(Target(q))
                      \/ \E n \in ByValue :
                           /\ KindOf(n) = "private"
                           /\ \E k \in DOMAIN Kids(n) : KindOf(Kids(n)[k]) # "basic" /\ ~IsNil(Kids(n)[k])
    BY DEF ErrorsExplained
  <2>1. TwoTypes(graph) \/ HasSecret(graph)
    BY DEF Inv, StatusOK, Explained
  <2>2. CASE TwoTypes(graph)
    BY <2>2, Same DEF TwoTypes, KindOf, Kids, Target
  <2>3. CASE HasSecret(graph)
    BY <2>3, Same DEF HasSecret, KindOf, Kids
  <2> QED BY <2>1, <2>2, <2>3
<1> QED BY <1>1, AlwaysInv, PTL

-----------------------------------------------------------------------------
(* Maps that hold, under each name, the entry of the offer that counts.     *)

Names(offers) == {a.name : a \in offers}

Counts(a, offers) == \A b \in offers : b.name = a.name => b.rank <= a.rank

Ranked(map, offers) ==
    /\ map = [k \in Names(offers) |-> map[k]]
    /\ \A k \in Names(offers) : \E a \in offers : a.name = k /\ map[k] = a.entry /\ Counts(a, offers)

IsOffers(offers) == \A a \in offers : a.rank \in Int

LEMMA OffersValue ==
    ASSUME NEW entries, NEW rank \in Int
    PROVE  /\ Names(Offers(entries, rank)) = DOMAIN entries
           /\ IsOffers(Offers(entries, rank))
           /\ \A a \in Offers(entries, rank) : a.rank = rank /\ a.name \in DOMAIN entries /\ a.entry = entries[a.name]
<1>1. \A a \in Offers(entries, rank) : a.rank = rank /\ a.name \in DOMAIN entries /\ a.entry = entries[a.name]
  BY DEF Offers
<1>2. ASSUME NEW k \in DOMAIN entries
      PROVE  k \in Names(Offers(entries, rank))
  <2> DEFINE a == [name |-> k, rank |-> rank, entry |-> entries[k]]
  <2>1. a \in Offers(entries, rank) /\ a.name = k
    BY DEF Offers
  <2> QED
    BY <2>1, Zenon DEF Names
<1>3. Names(Offers(entries, rank)) \subseteq DOMAIN entries
  BY <1>1 DEF Names
<1> QED
  BY <1>1, <1>2, <1>3 DEF IsOffers

LEMMA NamesUnion ==
    ASSUME NEW A, NEW B
    PROVE  Names(A \cup B) = Names(A) \cup Names(B)
BY DEF Names

(* New offers that outrank all others go over a ranked map. *)
LEMMA OnTop ==
    ASSUME NEW A, NEW map, Ranked(map, A), IsOffers(A),
           NEW entries, NEW rank \in Int, \A a \in A : a.rank < rank
    PROVE  /\ Ranked(Over(entries, map), A \cup Offers(entries, rank))
           /\ IsOffers(A \cup Offers(entries, rank))
<1> DEFINE B == Offers(entries, rank)
           new == Over(entries, map)
<1>1. /\ Names(B) = DOMAIN entries
      /\ IsOffers(B)
      /\ \A a \in B : a.rank = rank /\ a.name \in DOMAIN entries /\ a.entry = entries[a.name]
  BY OffersValue
<1>2. DOMAIN map = Names(A)
  BY DEF Ranked
<1>3. /\ DOMAIN new = DOMAIN entries \cup DOMAIN map
      /\ new = [k \in DOMAIN new |-> new[k]]
      /\ \A k \in DOMAIN entries : new[k] = entries[k]
      /\ \A k \in DOMAIN map \ DOMAIN entries : new[k] = map[k]
  BY DEF Over
<1>4. Names(A \cup B) = Names(A) \cup Names(B)
  BY NamesUnion
<1> HIDE DEF B, new
<1>5. new = [k \in Names(A \cup B) |-> new[k]]
  BY <1>1, <1>2, <1>3, <1>4, Zenon
<1>6. IsOffers(A \cup B)
  BY <1>1 DEF IsOffers
<1>7. ASSUME NEW k \in Names(A \cup B)
      PROVE  \E a \in A \cup B : a.name = k /\ new[k] = a.entry /\ Counts(a, A \cup B)
  <2>1. CASE k \in DOMAIN entries
    <3>1. PICK a \in B : a.name = k
      BY <1>1, <2>1 DEF Names
    <3>2. new[k] = a.entry
      BY <3>1, <1>1, <1>3, <2>1
    <3>3. Counts(a, A \cup B)
      BY <1>1, <1>6 DEF Counts, IsOffers
    <3> QED
      BY <3>1, <3>2, <3>3
  <2>2. CASE k \notin DOMAIN entries
    <3>1. k \in Names(A)
      BY <1>1, <1>4, <2>2
    <3>2. PICK a \in A : a.name = k /\ map[k] = a.entry /\ Counts(a, A)
      BY <3>1 DEF Ranked
    <3>3. new[k] = map[k]
      BY <3>1, <1>2, <1>3, <2>2
    <3>4. Counts(a, A \cup B)
      BY <3>2, <1>1, <2>2 DEF Counts
    <3> QED
      BY <3>2, <3>3, <3>4
  <2> QED
    BY <2>1, <2>2
<1> QED
  BY <1>5, <1>6, <1>7 DEF Ranked, B, new

(* New offers that all others outrank fill the free names of a ranked map. *)
LEMMA Below ==
    ASSUME NEW A, NEW map, Ranked(map, A), IsOffers(A),
           NEW entries, NEW rank \in Int, \A a \in A : rank < a.rank
    PROVE  /\ Ranked(Over(map, entries), A \cup Offers(entries, rank))
           /\ IsOffers(A \cup Offers(entries, rank))
<1> DEFINE B == Offers(entries, rank)
           new == Over(map, entries)
<1>1. /\ Names(B) = DOMAIN entries
      /\ IsOffers(B)
      /\ \A a \in B : a.rank = rank /\ a.name \in DOMAIN entries /\ a.entry = entries[a.name]
  BY OffersValue
<1>2. DOMAIN map = Names(A)
  BY DEF Ranked
<1>3. /\ DOMAIN new = DOMAIN map \cup DOMAIN entries
      /\ new = [k \in DOMAIN new |-> new[k]]
      /\ \A k \in DOMAIN map : new[k] = map[k]
      /\ \A k \in DOMAIN entries \ DOMAIN map : new[k] = entries[k]
  BY DEF Over
<1>4. Names(A \cup B) = Names(A) \cup Names(B)
  BY NamesUnion
<1> HIDE DEF B, new
<1>5. new = [k \in Names(A \cup B) |-> new[k]]
  BY <1>1, <1>2, <1>3, <1>4, Zenon
<1>6. IsOffers(A \cup B)
  BY <1>1 DEF IsOffers
<1>7. ASSUME NEW k \in Names(A \cup B)
      PROVE  \E a \in A \cup B : a.name = k /\ new[k] = a.entry /\ Counts(a, A \cup B)
  <2>1. CASE k \in Names(A)
    <3>1. PICK a \in A : a.name = k /\ map[k] = a.entry /\ Counts(a, A)
      BY <2>1 DEF Ranked
    <3>2. new[k] = map[k]
      BY <2>1, <1>2, <1>3
    <3>3. Counts(a, A \cup B)
      BY <3>1, <1>1 DEF Counts, IsOffers
    <3> QED
      BY <3>1, <3>2, <3>3
  <2>2. CASE k \notin Names(A)
    <3>1. k \in DOMAIN entries
      BY <1>1, <1>4, <2>2
    <3>2. PICK a \in B : a.name = k
      BY <3>1, <1>1 DEF Names
    <3>3. new[k] = a.entry
      BY <3>1, <3>2, <1>1, <1>2, <1>3, <2>2
    <3>4. \A b \in A : b.name # a.name
      BY <3>2, <2>2 DEF Names
    <3>5. Counts(a, A \cup B)
      BY <3>4, <1>1 DEF Counts
    <3> QED
      BY <3>2, <3>3, <3>5
  <2> QED
    BY <2>1, <2>2
<1> QED
  BY <1>5, <1>6, <1>7 DEF Ranked, B, new

(* A ranked map is the one the offers determine, if no two that share a name
   share a rank. *)
LEMMA RankedIsBest ==
    ASSUME NEW A, NEW map, Ranked(map, A), IsOffers(A),
           \A a, b \in A : a.name = b.name /\ a.rank = b.rank => a = b
    PROVE  map = Leading(A)
<1>1. ASSUME NEW k \in Names(A)
      PROVE  map[k] = (CHOOSE a \in A : a.name = k /\ \A b \in A : b.name = k => b.rank <= a.rank).entry
  <2> DEFINE Best(a) == a.name = k /\ \A b \in A : b.name = k => b.rank <= a.rank
  <2>1. PICK a \in A : a.name = k /\ map[k] = a.entry /\ Counts(a, A)
    BY DEF Ranked
  <2>2. Best(a)
    BY <2>1 DEF Counts
  <2>3. /\ (CHOOSE c \in A : Best(c)) \in A
        /\ Best(CHOOSE c \in A : Best(c))
    BY <2>1, <2>2, Zenon
  <2> DEFINE c == CHOOSE c \in A : Best(c)
  <2>4. c \in A /\ Best(c)
    BY <2>3, Zenon
  <2> HIDE DEF c
  <2>5. c.rank <= a.rank /\ a.rank <= c.rank /\ c.rank \in Int /\ a.rank \in Int
    BY <2>1, <2>2, <2>4 DEF IsOffers
  <2>6. c = a
    BY <2>1, <2>4, <2>5
  <2> QED
    BY <2>1, <2>6 DEF c
<1>2. map = [k \in Names(A) |-> map[k]]
  BY DEF Ranked
<1> QED
  BY <1>1, <1>2, Zenon DEF Leading, Names

-----------------------------------------------------------------------------
(* FieldMap is well defined: what structs embed is well founded.            *)

LEMMA EmbeddedStructs ==
    ASSUME NEW t \in Structs
    PROVE  EmbeddedIn(t) \subseteq Structs
BY DEF EmbeddedIn, IsEmbedded, Structs, Kind

(* Of some structs one embeds none of them. *)
LEMMA Innermost ==
    ASSUME NEW S \in SUBSET Structs, S # {}
    PROVE  \E t \in S : EmbeddedIn(t) \cap S = {}
<1>1. CASE S \subseteq Embedding
  BY <1>1, StructTypesAssumption
<1>2. CASE ~(S \subseteq Embedding)
  BY <1>2 DEF Embedding
<1> QED
  BY <1>1, <1>2

Closed(S) == S \subseteq Structs /\ \A t \in S : EmbeddedIn(t) \subseteq S

Those(t, g) == [s \in EmbeddedIn(t) |-> g[s]]

MapWith(t, g) == Entries(t, Len(Fields(t)), Those(t, g))

Solves(g, S) == g = [t \in S |-> MapWith(t, g)]

LEMMA SameMaps ==
    ASSUME NEW t, NEW g, NEW h, \A s \in EmbeddedIn(t) : g[s] = h[s]
    PROVE  MapWith(t, g) = MapWith(t, h)
<1>1. Those(t, g) = Those(t, h)
  BY DEF Those
<1> QED
  BY <1>1, Zenon DEF MapWith

LEMMA SolutionsAgree ==
    ASSUME NEW S, NEW T, Closed(S), Closed(T), NEW g, NEW h, Solves(g, S), Solves(h, T)
    PROVE  \A t \in S \cap T : g[t] = h[t]
<1> DEFINE Differ == {t \in S \cap T : g[t] # h[t]}
<1>1. SUFFICES ASSUME Differ # {} PROVE FALSE
  OBVIOUS
<1>2. Differ \in SUBSET Structs
  BY DEF Closed
<1>3. PICK t \in Differ : EmbeddedIn(t) \cap Differ = {}
  BY <1>1, <1>2, Innermost
<1>4. EmbeddedIn(t) \subseteq S \cap T
  BY <1>3 DEF Closed
<1>5. \A s \in EmbeddedIn(t) : g[s] = h[s]
  BY <1>3, <1>4
<1>6. g[t] = MapWith(t, g) /\ h[t] = MapWith(t, h)
  BY <1>3 DEF Solves
<1> QED
  BY <1>3, <1>5, <1>6, SameMaps

LEMMA Solvable ==
    \E g : Solves(g, Structs)
<1> DEFINE Over1(t, S, g) == t \in S /\ Closed(S) /\ Solves(g, S)
           U == {t \in Structs : \E S \in SUBSET Structs : \E g : Over1(t, S, g)}
           Sol(t) == CHOOSE g : \E S \in SUBSET Structs : Over1(t, S, g)
           f == [t \in U |-> Sol(t)[t]]
<1>1. ASSUME NEW t \in U
      PROVE  \E S \in SUBSET Structs : Over1(t, S, Sol(t)) /\ S \subseteq U
  <2>1. \E g : \E S \in SUBSET Structs : Over1(t, S, g)
    BY Zenon
  <2>2. \E S \in SUBSET Structs : Over1(t, S, Sol(t))
    BY <2>1, Zenon
  <2> HIDE DEF Sol
  <2>3. PICK S \in SUBSET Structs : Over1(t, S, Sol(t))
    BY <2>2, Zenon
  <2>4. S \subseteq U
    BY <2>3, Zenon
  <2> QED
    BY <2>3, <2>4
<1>2. Closed(U)
  <2> HIDE DEF Sol
  <2>1. U \subseteq Structs
    OBVIOUS
  <2>2. ASSUME NEW t \in U PROVE EmbeddedIn(t) \subseteq U
    <3> HIDE DEF U
    <3>1. PICK S \in SUBSET Structs : Over1(t, S, Sol(t)) /\ S \subseteq U
      BY <1>1
    <3> QED
      BY <3>1 DEF Closed
  <2> QED
    BY <2>1, <2>2 DEF Closed
<1>3. ASSUME NEW t \in U
      PROVE  f[t] = MapWith(t, f)
  <2> HIDE DEF Sol, U
  <2>1. PICK S \in SUBSET Structs : Over1(t, S, Sol(t)) /\ S \subseteq U
    BY <1>1
  <2>2. Sol(t)[t] = MapWith(t, Sol(t))
    BY <2>1 DEF Solves
  <2>3. ASSUME NEW s \in EmbeddedIn(t)
        PROVE  Sol(t)[s] = f[s]
    <3>1. s \in S /\ s \in U
      BY <2>1 DEF Closed
    <3>2. PICK R \in SUBSET Structs : Over1(s, R, Sol(s)) /\ R \subseteq U
      BY <1>1, <3>1
    <3>3. /\ Closed(S) /\ Solves(Sol(t), S)
          /\ Closed(R) /\ Solves(Sol(s), R)
      BY <2>1, <3>2
    <3>4. \A u \in S \cap R : Sol(t)[u] = Sol(s)[u]
      BY <3>3, SolutionsAgree
    <3> QED
      BY <3>1, <3>2, <3>4
  <2> HIDE DEF f
  <2>4. MapWith(t, Sol(t)) = MapWith(t, f)
    BY <2>3, SameMaps
  <2> QED
    BY <2>2, <2>4 DEF f
<1>4. Solves(f, U)
  <2> HIDE DEF Sol, U
  <2>1. f = [t \in U |-> f[t]]
    OBVIOUS
  <2> HIDE DEF f
  <2> QED
    BY <1>3, <2>1, Zenon DEF Solves
<1>5. U = Structs
  <2>1. SUFFICES ASSUME Structs \ U # {} PROVE FALSE
    OBVIOUS
  <2>2. PICK t \in Structs \ U : EmbeddedIn(t) \cap (Structs \ U) = {}
    BY <2>1, Innermost
  <2>3. EmbeddedIn(t) \subseteq U
    BY <2>2, EmbeddedStructs
  <2> DEFINE T == U \cup {t}
             h == [s \in T |-> IF s = t THEN MapWith(t, f) ELSE f[s]]
  <2>4. Closed(T) /\ T \in SUBSET Structs
    BY <1>2, <2>2, <2>3 DEF Closed
  <2>5. ASSUME NEW s \in T
        PROVE  h[s] = MapWith(s, h)
    <3> HIDE DEF f
    <3>1. EmbeddedIn(s) \subseteq U
      BY <1>2, <2>3 DEF Closed
    <3>2. \A u \in EmbeddedIn(s) : h[u] = f[u]
      <4> HIDE DEF U
      <4> QED
        BY <3>1, <2>2
    <3>3. h[s] = MapWith(s, f)
      <4>1. CASE s = t
        BY <4>1
      <4>2. CASE s # t
        <5>1. s \in U /\ h[s] = f[s]
          BY <4>2
        <5> QED
          BY <5>1, <1>4 DEF Solves
      <4> QED
        BY <4>1, <4>2
    <3> HIDE DEF h
    <3> QED
      BY <3>2, <3>3, SameMaps
  <2>6. Solves(h, T)
    <3>1. h = [s \in T |-> h[s]]
      OBVIOUS
    <3> HIDE DEF h, T
    <3> QED
      BY <2>5, <3>1, Zenon DEF Solves
  <2>7. Over1(t, T, h)
    BY <2>4, <2>6
  <2>8. t \in U
    <3> HIDE DEF T, h
    <3> QED
      BY <2>2, <2>4, <2>7
  <2> QED
    BY <2>2, <2>8
<1> HIDE DEF f, U
<1> QED
  BY <1>4, <1>5

LEMMA FieldMapIs ==
    Solves(FieldMap, Structs)
<1>1. FieldMap = CHOOSE g : Solves(g, Structs)
  BY Zenon DEF FieldMap, Solves, MapWith, Those
<1> QED
  BY <1>1, Solvable, Zenon

-----------------------------------------------------------------------------
(* The offers of a struct's first fields.                                   *)

UpTo(t, n) == UNION {Offered(t, i, Those(t, FieldMap)) : i \in 1..n}

LEMMA FieldMapValue ==
    ASSUME NEW t \in Structs
    PROVE  FieldMap[t] = Entries(t, Len(Fields(t)), Those(t, FieldMap))
BY FieldMapIs DEF Solves, MapWith

LEMMA FieldLen ==
    ASSUME NEW t \in Structs
    PROVE  Len(Fields(t)) \in Nat /\ DOMAIN Fields(t) = 1..Len(Fields(t))
BY StructTypesAssumption

(* The type of an embedded field is one of the structs embedded. *)
LEMMA EmbeddedField ==
    ASSUME NEW t \in Structs, NEW i \in 1..Len(Fields(t)), IsEmbedded(Fields(t)[i])
    PROVE  /\ Fields(t)[i].type \in EmbeddedIn(t)
           /\ Fields(t)[i].type \in Structs
           /\ Those(t, FieldMap)[Fields(t)[i].type] = FieldMap[Fields(t)[i].type]
<1>1. i \in DOMAIN Fields(t)
  BY FieldLen
<1>2. Fields(t)[i].type \in EmbeddedIn(t)
  BY <1>1 DEF EmbeddedIn
<1> QED
  BY <1>2, EmbeddedStructs DEF Those

(* What an embedded field offers, and what another does. *)
LEMMA OfferedEmbedded ==
    ASSUME NEW t \in Structs, NEW i \in 1..Len(Fields(t)), IsEmbedded(Fields(t)[i])
    PROVE  Offered(t, i, Those(t, FieldMap)) =
             Offers(OwnEntries(t, i), i) \cup Offers(Brought(FieldMap[Fields(t)[i].type], i), -i)
BY EmbeddedField, Zenon DEF Offered

LEMMA OfferedPlain ==
    ASSUME NEW t \in Structs, NEW i \in 1..Len(Fields(t)), ~IsEmbedded(Fields(t)[i])
    PROVE  Offered(t, i, Those(t, FieldMap)) = Offers(OwnEntries(t, i), i)
<1>1. Offered(t, i, Those(t, FieldMap)) = Offers(OwnEntries(t, i), i) \cup Offers(Brought(<<>>, i), -i)
  BY Zenon DEF Offered
<1>2. DOMAIN Brought(<<>>, i) = {}
  BY DEF Brought
<1>3. Offers(Brought(<<>>, i), -i) = {}
  BY <1>2 DEF Offers
<1> QED
  BY <1>1, <1>3

LEMMA RanksOffered ==
    ASSUME NEW t, NEW i \in Int, NEW maps
    PROVE  \A a \in Offered(t, i, maps) : a.rank = i \/ a.rank = -i
<1>1. \A entries : \A a \in Offers(entries, i) : a.rank = i
  BY DEF Offers
<1>2. -i \in Int
  OBVIOUS
<1>3. \A entries : \A a \in Offers(entries, -i) : a.rank = -i
  BY <1>2 DEF Offers
<1> QED
  BY <1>1, <1>3, Zenon DEF Offered

LEMMA RanksUpTo ==
    ASSUME NEW t, NEW n \in Nat
    PROVE  /\ IsOffers(UpTo(t, n))
           /\ \A a \in UpTo(t, n) : -n <= a.rank /\ a.rank <= n
<1>1. ASSUME NEW a \in UpTo(t, n)
      PROVE  a.rank \in Int /\ -n <= a.rank /\ a.rank <= n
  <2>1. PICK i \in 1..n : a \in Offered(t, i, Those(t, FieldMap))
    BY DEF UpTo
  <2>2. a.rank = i \/ a.rank = -i
    BY <2>1, RanksOffered
  <2> QED
    BY <2>2
<1> QED
  BY <1>1 DEF IsOffers

LEMMA UpToNext ==
    ASSUME NEW t, NEW i \in Nat \ {0}
    PROVE  UpTo(t, i) = UpTo(t, i - 1) \cup Offered(t, i, Those(t, FieldMap))
<1>1. 1..i = (1..(i - 1)) \cup {i}
  OBVIOUS
<1> DEFINE R == 1..(i - 1)
           S == 1..i
           O(j) == Offered(t, j, Those(t, FieldMap))
<1>2. S = R \cup {i}
  BY <1>1
<1> HIDE DEF R, S, O
<1>3. UNION {O(j) : j \in S} = (UNION {O(j) : j \in R}) \cup O(i)
  BY <1>2
<1> QED
  BY <1>3 DEF UpTo, R, S, O

(* No two offers share both name and rank. *)
LEMMA OneOffer ==
    ASSUME NEW t, NEW n \in Nat, NEW a \in UpTo(t, n), NEW b \in UpTo(t, n),
           a.name = b.name, a.rank = b.rank
    PROVE  a = b
<1>1. PICK i \in 1..n : a \in Offered(t, i, Those(t, FieldMap))
  BY DEF UpTo
<1>2. PICK j \in 1..n : b \in Offered(t, j, Those(t, FieldMap))
  BY DEF UpTo
<1>3. i = j
  BY <1>1, <1>2, RanksOffered
<1> DEFINE f  == Fields(t)[i]
           in == IF IsEmbedded(f) THEN Those(t, FieldMap)[f.type] ELSE <<>>
           own == OwnEntries(t, i)
           brought == Brought(in, i)
<1>4. Offered(t, i, Those(t, FieldMap)) = Offers(own, i) \cup Offers(brought, -i)
  BY Zenon DEF Offered
<1> HIDE DEF own, brought
<1>5. ASSUME NEW entries, NEW r, NEW x \in Offers(entries, r), NEW y \in Offers(entries, r), x.name = y.name
      PROVE  x = y
  BY <1>5 DEF Offers
<1>6. i # -i /\ i \in Int /\ -i \in Int
  OBVIOUS
<1>7. \A e : \A x \in Offers(e, i) : x.rank = i
  BY DEF Offers
<1>8. \A e : \A x \in Offers(e, -i) : x.rank = -i
  BY <1>6 DEF Offers
<1>9. \/ a \in Offers(own, i) /\ b \in Offers(own, i)
      \/ a \in Offers(brought, -i) /\ b \in Offers(brought, -i)
  BY <1>1, <1>2, <1>3, <1>4, <1>6, <1>7, <1>8
<1> QED
  BY <1>5, <1>9

(* A map that ranks the offers of all fields is the struct's. *)
LEMMA RankedAll ==
    ASSUME NEW t \in Structs, NEW map, Ranked(map, UpTo(t, Len(Fields(t))))
    PROVE  map = FieldMap[t]
<1> DEFINE n == Len(Fields(t))
<1>1. n \in Nat
  BY FieldLen
<1>2. IsOffers(UpTo(t, n))
  BY <1>1, RanksUpTo
<1>3. \A a, b \in UpTo(t, n) : a.name = b.name /\ a.rank = b.rank => a = b
  BY <1>1, OneOffer
<1> HIDE DEF n
<1>4. map = Leading(UpTo(t, n))
  BY <1>2, <1>3, RankedIsBest DEF n
<1>5. Entries(t, n, Those(t, FieldMap)) = Leading(UpTo(t, n))
  BY Zenon DEF Entries, UpTo
<1>6. FieldMap[t] = Entries(t, n, Those(t, FieldMap))
  BY FieldMapValue DEF n
<1> QED
  BY <1>4, <1>5, <1>6, Zenon

LEMMA RankedNone ==
    ASSUME NEW t
    PROVE  Ranked(<<>>, UpTo(t, 0))
<1>1. UpTo(t, 0) = {}
  BY DEF UpTo
<1>2. Names(UpTo(t, 0)) = {}
  BY <1>1 DEF Names
<1>3. <<>> = [k \in {} |-> <<>>[k]]
  OBVIOUS
<1> QED
  BY <1>2, <1>3 DEF Ranked

-----------------------------------------------------------------------------
(* Stacks: sequences of which only the length and the elements matter.      *)

IsStack(b) == Len(b) \in Nat /\ b = [k \in 1..Len(b) |-> b[k]]

LEMMA StackSeq ==
    ASSUME NEW b, IsStack(b), NEW x
    PROVE  \E S : b \in Seq(S) /\ x \in S
<1> DEFINE S == {b[k] : k \in 1..Len(b)} \cup {x}
<1>1. \A k \in 1..Len(b) : b[k] \in S
  OBVIOUS
<1>2. x \in S
  OBVIOUS
<1> HIDE DEF S
<1>3. b \in [1..Len(b) -> S]
  BY <1>1, Zenon DEF IsStack
<1>4. b \in Seq(S)
  BY <1>3 DEF IsStack
<1> QED
  BY <1>2, <1>4

LEMMA SeqStack ==
    ASSUME NEW S, NEW b \in Seq(S)
    PROVE  IsStack(b)
BY DEF IsStack

LEMMA EmptyStack ==
    ASSUME NEW b, IsStack(b)
    PROVE  /\ b = <<>> <=> Len(b) = 0
           /\ b # <<>> => Len(b) \in 1..Len(b) /\ Len(b) - 1 \in Nat
<1>1. PICK S : b \in Seq(S)
  BY StackSeq
<1> QED
  BY <1>1

LEMMA PushStack ==
    ASSUME NEW b, IsStack(b), NEW x
    PROVE  /\ IsStack(Append(b, x))
           /\ Len(Append(b, x)) = Len(b) + 1
           /\ \A k \in 1..Len(b) : Append(b, x)[k] = b[k]
           /\ Append(b, x)[Len(b) + 1] = x
<1>1. PICK S : b \in Seq(S) /\ x \in S
  BY StackSeq
<1>2. Append(b, x) \in Seq(S)
  BY <1>1
<1>3. IsStack(Append(b, x))
  BY <1>2, SeqStack
<1> QED
  BY <1>1, <1>3

LEMMA PopStack ==
    ASSUME NEW b, IsStack(b), b # <<>>
    PROVE  LET c == SubSeq(b, 1, Len(b) - 1)
           IN  /\ IsStack(c)
               /\ Len(c) = Len(b) - 1
               /\ \A k \in 1..(Len(b) - 1) : c[k] = b[k]
<1>1. PICK S : b \in Seq(S)
  BY StackSeq
<1>2. Len(b) \in Nat /\ Len(b) # 0
  BY EmptyStack DEF IsStack
<1> DEFINE c == SubSeq(b, 1, Len(b) - 1)
<1>3. c \in Seq(S) /\ Len(c) = Len(b) - 1
  BY <1>1, <1>2
<1>4. \A k \in 1..(Len(b) - 1) : c[k] = b[k]
  BY <1>1, <1>2
<1>5. IsStack(c)
  BY <1>3, SeqStack
<1> QED
  BY <1>3, <1>4, <1>5

LEMMA SetStack ==
    ASSUME NEW b, IsStack(b), NEW n \in 1..Len(b), NEW x, NEW c, c = [b EXCEPT ![n] = x]
    PROVE  /\ IsStack(c)
           /\ Len(c) = Len(b)
           /\ c[n] = x
           /\ \A k \in 1..Len(b) : k # n => c[k] = b[k]
<1>1. PICK S : b \in Seq(S) /\ x \in S
  BY StackSeq
<1>2. c \in Seq(S) /\ Len(c) = Len(b)
  BY <1>1
<1>3. c[n] = x /\ \A k \in 1..Len(b) : k # n => c[k] = b[k]
  BY <1>1
<1>4. IsStack(c)
  BY <1>2, SeqStack
<1> QED
  BY <1>2, <1>3, <1>4

-----------------------------------------------------------------------------
(* A map under way holds what counts of the offers of the fields it has taken
   in, and of the entries of its own a field has while its struct is looked up. *)

TakenIn(f) ==
    UpTo(f.t, f.i - 1) \cup IF f.wants = "none" THEN {} ELSE Offers(OwnEntries(f.t, f.i), f.i)

BuildOK(f) ==
    /\ f = [t |-> f.t, i |-> f.i, map |-> f.map, wants |-> f.wants]
    /\ f.t \in Structs
    /\ f.i \in 1..(Len(Fields(f.t)) + 1)
    /\ f.wants # "none" => f.i <= Len(Fields(f.t)) /\ IsEmbedded(Field(f)) /\ f.wants = Field(f).type
    /\ Ranked(f.map, TakenIn(f))

LEMMA FrameNew ==
    ASSUME NEW t \in Structs
    PROVE  BuildOK(NewMap(t))
<1> DEFINE f == NewMap(t)
<1>1. /\ f = [t |-> t, i |-> 1, map |-> <<>>, wants |-> "none"]
      /\ f.t = t /\ f.i = 1 /\ f.map = <<>> /\ f.wants = "none"
  BY DEF NewMap
<1>2. f.i - 1 = 0
  BY <1>1
<1>3. TakenIn(f) = UpTo(t, 0)
  BY <1>1, <1>2 DEF TakenIn
<1>4. Ranked(f.map, TakenIn(f))
  BY <1>1, <1>3, RankedNone
<1>5. f.i \in 1..(Len(Fields(f.t)) + 1)
  BY <1>1, FieldLen
<1> HIDE DEF f
<1>6. f = [t |-> f.t, i |-> f.i, map |-> f.map, wants |-> f.wants]
  BY <1>1
<1>7. BuildOK(f)
  BY <1>1, <1>4, <1>5, <1>6 DEF BuildOK
<1> QED
  BY <1>7 DEF f

LEMMA FrameDone ==
    ASSUME NEW f, BuildOK(f), f.wants = "none", f.i > Len(Fields(f.t))
    PROVE  f.map = FieldMap[f.t]
<1> DEFINE n == Len(Fields(f.t))
<1>1. f.t \in Structs /\ n \in Nat /\ f.i \in 1..(n + 1)
  BY FieldLen DEF BuildOK
<1>2. f.i - 1 = n
  BY <1>1
<1>3. TakenIn(f) = UpTo(f.t, n)
  BY <1>2 DEF TakenIn
<1>4. Ranked(f.map, UpTo(f.t, n))
  BY <1>3 DEF BuildOK
<1> QED
  BY <1>1, <1>4, RankedAll

LEMMA FrameOwn ==
    ASSUME NEW f, BuildOK(f), f.wants = "none", f.i <= Len(Fields(f.t))
    PROVE  BuildOK(WithField(f)) /\ WithField(f).t = f.t
<1> DEFINE g == WithField(f)
           n == Len(Fields(f.t))
           own == OwnEntries(f.t, f.i)
<1>1. f.t \in Structs /\ n \in Nat /\ f.i \in 1..n /\ f.i \in Int
  BY FieldLen DEF BuildOK
<1>2. /\ g.t = f.t
      /\ g.map = Over(own, f.map)
      /\ g.wants = IF IsEmbedded(Field(f)) THEN Field(f).type ELSE "none"
      /\ g.i = IF IsEmbedded(Field(f)) THEN f.i ELSE f.i + 1
      /\ g = [t |-> g.t, i |-> g.i, map |-> g.map, wants |-> g.wants]
  <2>1. f = [t |-> f.t, i |-> f.i, map |-> f.map, wants |-> f.wants]
    BY DEF BuildOK
  <2>2. g = [t |-> f.t,
             i |-> IF IsEmbedded(Field(f)) THEN f.i ELSE f.i + 1,
             map |-> Over(own, f.map),
             wants |-> IF IsEmbedded(Field(f)) THEN Field(f).type ELSE "none"]
    <3> DEFINE e == IsEmbedded(Field(f))
               m == Over(own, f.map)
               w == IF e THEN Field(f).type ELSE "none"
               j == IF e THEN f.i ELSE f.i + 1
    <3>1. g = [f EXCEPT !.map = m, !.wants = w, !.i = j]
      BY Zenon DEF WithField
    <3> HIDE DEF m, w, j, g
    <3>2. g = [t |-> f.t, i |-> j, map |-> m, wants |-> w]
      BY <2>1, <3>1
    <3> QED
      BY <3>2 DEF m, w, j
  <2> HIDE DEF g, own
  <2> QED
    BY <2>2
<1> DEFINE U == UpTo(f.t, f.i - 1)
<1>3. IsOffers(U) /\ \A a \in U : a.rank < f.i
  <2>1. f.i - 1 \in Nat
    BY <1>1
  <2>2. IsOffers(U) /\ \A a \in U : a.rank <= f.i - 1
    BY <2>1, RanksUpTo
  <2> HIDE DEF U
  <2> QED
    BY <2>2, <1>1 DEF IsOffers
<1>4. TakenIn(f) = U
  BY DEF TakenIn
<1>5. Ranked(f.map, U)
  BY <1>4 DEF BuildOK
<1>6. Ranked(g.map, U \cup Offers(own, f.i))
  BY <1>1, <1>2, <1>3, <1>5, OnTop
<1>7. IsEmbedded(Field(f)) => Field(f).type # "none"
  BY StructTypesAssumption DEF IsEmbedded, Kind
<1>8. CASE IsEmbedded(Field(f))
  <2>1. g.i = f.i /\ g.wants # "none" /\ g.wants = Field(f).type
    BY <1>2, <1>8, <1>7
  <2>2. TakenIn(g) = U \cup Offers(own, f.i)
    BY <1>2, <2>1 DEF TakenIn
  <2>3. Field(g) = Field(f)
    BY <1>2, <2>1 DEF Field
  <2>4. g.i \in 1..(Len(Fields(g.t)) + 1) /\ g.i <= Len(Fields(g.t))
    BY <2>1, <1>1, <1>2
  <2> HIDE DEF g
  <2>5. BuildOK(g)
    BY <1>1, <1>2, <1>6, <1>8, <2>1, <2>2, <2>3, <2>4 DEF BuildOK
  <2> QED
    BY <1>2, <2>5 DEF g
<1>9. CASE ~IsEmbedded(Field(f))
  <2>1. g.i = f.i + 1 /\ g.wants = "none"
    BY <1>2, <1>7, <1>9
  <2>2. g.i - 1 = f.i
    BY <1>1, <2>1
  <2>3. TakenIn(g) = UpTo(f.t, f.i)
    BY <1>2, <2>1, <2>2 DEF TakenIn
  <2>4. Offered(f.t, f.i, Those(f.t, FieldMap)) = Offers(own, f.i)
    BY <1>1, <1>9, OfferedPlain DEF Field
  <2>5. UpTo(f.t, f.i) = U \cup Offers(own, f.i)
    BY <1>1, <2>4, UpToNext
  <2>6. g.i \in 1..(Len(Fields(g.t)) + 1)
    BY <2>1, <1>1, <1>2
  <2> HIDE DEF g
  <2>7. BuildOK(g)
    BY <1>1, <1>2, <1>6, <2>1, <2>3, <2>5, <2>6 DEF BuildOK
  <2> QED
    BY <1>2, <2>7 DEF g
<1> QED
  BY <1>2, <1>8, <1>9

LEMMA FrameMerge ==
    ASSUME NEW f, BuildOK(f), f.wants # "none"
    PROVE  /\ f.wants \in Structs /\ f.wants = Field(f).type
           /\ BuildOK(WithEmbedded(f, FieldMap[f.wants]))
           /\ WithEmbedded(f, FieldMap[f.wants]).t = f.t
<1> DEFINE nested == FieldMap[f.wants]
           g == WithEmbedded(f, nested)
           n == Len(Fields(f.t))
           own == OwnEntries(f.t, f.i)
           brought == Brought(nested, f.i)
           U == UpTo(f.t, f.i - 1)
           A == U \cup Offers(own, f.i)
<1>1. f.t \in Structs /\ n \in Nat /\ f.i \in 1..n /\ f.i \in Int /\ IsEmbedded(Field(f))
  BY FieldLen DEF BuildOK
<1>2. /\ g.t = f.t
      /\ g.map = Over(f.map, brought)
      /\ g.wants = "none"
      /\ g.i = f.i + 1
      /\ g = [t |-> g.t, i |-> g.i, map |-> g.map, wants |-> g.wants]
  <2>1. f = [t |-> f.t, i |-> f.i, map |-> f.map, wants |-> f.wants]
    BY DEF BuildOK
  <2> DEFINE m == Over(f.map, brought)
             j == f.i + 1
  <2>2. g = [f EXCEPT !.map = m, !.wants = "none", !.i = j]
    BY Zenon DEF WithEmbedded, Promoted
  <2> HIDE DEF m, j, g
  <2>3. g = [t |-> f.t, i |-> j, map |-> m, wants |-> "none"]
    BY <2>1, <2>2
  <2> QED
    BY <2>3 DEF m, j
<1>3. f.wants \in Structs /\ f.wants = Field(f).type
  BY <1>1, EmbeddedField DEF Field, BuildOK
<1>4. IsOffers(A) /\ \A a \in A : -(f.i) < a.rank
  <2>1. f.i - 1 \in Nat
    BY <1>1
  <2>2. IsOffers(U) /\ \A a \in U : -(f.i - 1) <= a.rank
    BY <2>1, RanksUpTo
  <2>3. \A a \in Offers(own, f.i) : a.rank = f.i
    BY <1>1, OffersValue
  <2> HIDE DEF U, own
  <2> QED
    BY <1>1, <2>2, <2>3 DEF IsOffers
<1>5. TakenIn(f) = A
  BY DEF TakenIn
<1>6. Ranked(f.map, A)
  BY <1>5 DEF BuildOK
<1>7. -(f.i) \in Int
  BY <1>1
<1>8. Ranked(g.map, A \cup Offers(brought, -(f.i)))
  <2> HIDE DEF A, brought
  <2> QED
    BY <1>2, <1>4, <1>6, <1>7, Below
<1>9. g.i - 1 = f.i
  BY <1>1, <1>2
<1>10. TakenIn(g) = UpTo(f.t, f.i)
  BY <1>2, <1>9 DEF TakenIn
<1>11. Offered(f.t, f.i, Those(f.t, FieldMap)) = Offers(own, f.i) \cup Offers(brought, -(f.i))
  BY <1>1, <1>3, OfferedEmbedded DEF Field
<1>12. UpTo(f.t, f.i) = A \cup Offers(brought, -(f.i))
  BY <1>1, <1>3, <1>11, UpToNext
<1>13. g.i \in 1..(Len(Fields(g.t)) + 1)
  BY <1>1, <1>2
<1> HIDE DEF g
<1>14. BuildOK(g)
  BY <1>1, <1>2, <1>8, <1>10, <1>12, <1>13 DEF BuildOK
<1> QED
  BY <1>2, <1>3, <1>14 DEF g

-----------------------------------------------------------------------------
(* The maps a goroutine is building: each waits for the one above it.       *)

StackOK(b, types) ==
    /\ IsStack(b)
    /\ \A k \in 1..Len(b) : BuildOK(b[k])
    /\ \A k \in 1..(Len(b) - 1) : b[k].wants = b[k + 1].t
    /\ b # <<>> => types # <<>>

LEMMA StackTop ==
    ASSUME NEW b, NEW types, StackOK(b, types), b # <<>>
    PROVE  BuildOK(b[Len(b)]) /\ Len(b) \in 1..Len(b) /\ Len(b) - 1 \in Nat
<1>1. Len(b) \in 1..Len(b) /\ Len(b) - 1 \in Nat
  BY EmptyStack DEF StackOK
<1> QED
  BY <1>1 DEF StackOK

LEMMA StackEmpty ==
    ASSUME NEW types
    PROVE  StackOK(<<>>, types)
<1>1. Len(<<>>) = 0 /\ <<>> = [k \in 1..0 |-> <<>>[k]]
  OBVIOUS
<1> QED
  BY <1>1 DEF StackOK, IsStack

LEMMA StackPush ==
    ASSUME NEW b, NEW types, StackOK(b, types), types # <<>>, NEW t \in Structs,
           b # <<>> => b[Len(b)].wants = t
    PROVE  StackOK(Append(b, NewMap(t)), types)
<1> DEFINE f == NewMap(t)
           c == Append(b, f)
<1>1. Len(b) \in Nat /\ IsStack(b)
  BY DEF StackOK, IsStack
<1>2. BuildOK(f) /\ f.t = t
  BY FrameNew DEF NewMap
<1> HIDE DEF f
<1>3. /\ IsStack(c)
      /\ Len(c) = Len(b) + 1
      /\ \A k \in 1..Len(b) : c[k] = b[k]
      /\ c[Len(b) + 1] = f
  BY <1>1, PushStack
<1> HIDE DEF c
<1>4. ASSUME NEW k \in 1..Len(c)
      PROVE  BuildOK(c[k])
  <2>1. CASE k \in 1..Len(b)
    BY <1>3, <2>1 DEF StackOK
  <2>2. CASE k = Len(b) + 1
    BY <1>2, <1>3, <2>2
  <2> QED
    BY <1>1, <1>3, <2>1, <2>2
<1>5. ASSUME NEW k \in 1..(Len(c) - 1)
      PROVE  c[k].wants = c[k + 1].t
  <2>1. k \in 1..Len(b)
    BY <1>1, <1>3
  <2>2. CASE k < Len(b)
    <3>1. k \in 1..(Len(b) - 1) /\ k + 1 \in 1..Len(b)
      BY <1>1, <2>1, <2>2
    <3> QED
      BY <1>3, <2>1, <3>1 DEF StackOK
  <2>3. CASE k = Len(b)
    <3>1. b # <<>>
      BY <1>1, <2>1, EmptyStack
    <3> QED
      BY <1>2, <1>3, <2>1, <2>3, <3>1
  <2> QED
    BY <1>1, <2>1, <2>2, <2>3
<1>6. StackOK(c, types)
  BY <1>3, <1>4, <1>5 DEF StackOK
<1> QED
  BY <1>6 DEF c, f

LEMMA StackPop ==
    ASSUME NEW b, NEW types, StackOK(b, types), b # <<>>
    PROVE  LET c == SubSeq(b, 1, Len(b) - 1)
           IN  /\ StackOK(c, types)
               /\ c # <<>> => c[Len(c)].wants = b[Len(b)].t
<1> DEFINE c == SubSeq(b, 1, Len(b) - 1)
<1>1. Len(b) \in Nat /\ IsStack(b) /\ Len(b) \in 1..Len(b)
  BY StackTop DEF StackOK, IsStack
<1>2. /\ IsStack(c)
      /\ Len(c) = Len(b) - 1
      /\ \A k \in 1..(Len(b) - 1) : c[k] = b[k]
  BY <1>1, PopStack
<1> HIDE DEF c
<1>3. StackOK(c, types)
  <2>1. \A k \in 1..Len(c) : BuildOK(c[k])
    BY <1>1, <1>2 DEF StackOK
  <2>2. ASSUME NEW k \in 1..(Len(c) - 1)
        PROVE  c[k].wants = c[k + 1].t
    <3>1. k \in 1..(Len(b) - 1) /\ k + 1 \in 1..(Len(b) - 1)
      BY <1>1, <1>2
    <3>2. c[k] = b[k] /\ c[k + 1] = b[k + 1]
      BY <1>2, <3>1
    <3> QED
      BY <3>1, <3>2 DEF StackOK
  <2> QED
    BY <1>2, <2>1, <2>2 DEF StackOK
<1>4. ASSUME c # <<>>
      PROVE  c[Len(c)].wants = b[Len(b)].t
  <2>1. Len(c) \in 1..(Len(b) - 1) /\ Len(c) + 1 = Len(b)
    BY <1>1, <1>2, <1>4, EmptyStack
  <2>2. c[Len(c)] = b[Len(c)]
    BY <1>2, <2>1
  <2> QED
    BY <2>1, <2>2 DEF StackOK
<1>5. StackOK(c, types) /\ (c # <<>> => c[Len(c)].wants = b[Len(b)].t)
  BY <1>3, <1>4
<1> QED
  BY <1>5, Zenon DEF c

(* The top frame is replaced by one of the same struct. *)
LEMMA StackSet ==
    ASSUME NEW b, NEW types, StackOK(b, types), b # <<>>,
           NEW g, BuildOK(g), g.t = b[Len(b)].t
    PROVE  StackOK([b EXCEPT ![Len(b)] = g], types)
<1> DEFINE n == Len(b)
           c == [b EXCEPT ![n] = g]
<1>1. n \in Nat /\ IsStack(b) /\ n \in 1..n
  BY StackTop DEF StackOK, IsStack
<1>2. /\ IsStack(c)
      /\ Len(c) = n
      /\ c[n] = g
      /\ \A k \in 1..n : k # n => c[k] = b[k]
  BY <1>1, SetStack
<1>3. \A k \in 1..n : BuildOK(b[k])
  BY DEF StackOK
<1>4. \A k \in 1..(n - 1) : b[k].wants = b[k + 1].t
  BY DEF StackOK
<1>5. g.t = b[n].t
  OBVIOUS
<1> HIDE DEF c, n
<1>6. \A k \in 1..Len(c) : BuildOK(c[k])
  BY <1>1, <1>2, <1>3
<1>7. ASSUME NEW k \in 1..(Len(c) - 1)
      PROVE  c[k].wants = c[k + 1].t
  <2>1. k \in 1..(n - 1) /\ k \in 1..n /\ k # n /\ k + 1 \in 1..n
    BY <1>1, <1>2
  <2>2. c[k] = b[k]
    BY <1>2, <2>1
  <2>3. c[k + 1].t = b[k + 1].t
    BY <1>2, <1>5, <2>1
  <2> QED
    BY <1>4, <2>1, <2>2, <2>3
<1>8. c # <<>>
  BY <1>1, <1>2, EmptyStack
<1>9. types # <<>>
  BY DEF StackOK
<1>10. StackOK(c, types)
  BY <1>2, <1>6, <1>7, <1>9 DEF StackOK
<1> QED
  BY <1>10 DEF c, n

LEMMA StackMerge ==
    ASSUME NEW b, NEW types, StackOK(b, types), b # <<>>,
           NEW t \in Structs, b[Len(b)].wants = t
    PROVE  StackOK(Merged(b, FieldMap[t]), types)
<1> DEFINE n == Len(b)
           f == b[n]
           g == WithEmbedded(f, FieldMap[t])
<1>1. BuildOK(f) /\ n \in 1..n /\ IsStack(b)
  BY StackTop DEF StackOK
<1>2. f.wants = t /\ t # "none"
  BY StructTypesAssumption DEF Structs
<1> HIDE DEF f
<1>3. BuildOK(g) /\ g.t = f.t
  BY <1>1, <1>2, FrameMerge
<1>4. n \in DOMAIN b
  BY <1>1 DEF IsStack
<1> HIDE DEF n
<1>5. Merged(b, FieldMap[t]) = [b EXCEPT ![n] = g]
  BY <1>4 DEF Merged, n, f
<1> HIDE DEF g
<1>6. StackOK([b EXCEPT ![n] = g], types)
  BY <1>3, StackSet DEF n, f
<1> QED
  BY <1>5, <1>6

-----------------------------------------------------------------------------
(* The inductive invariant.                                                 *)

CachedOK == DOMAIN fieldCache \subseteq Structs /\ \A t \in DOMAIN fieldCache : fieldCache[t] = FieldMap[t]

CacheInv ==
    /\ CachedOK
    /\ ask \in [Proc -> Seq(Structs)]
    /\ build = [p \in Proc |-> build[p]]
    /\ \A p \in Proc : StackOK(build[p], ask[p])

LEMMA InitInv ==
    CacheInit => CacheInv
<1> SUFFICES ASSUME CacheInit PROVE CacheInv
  OBVIOUS
<1>1. CachedOK
  BY DEF CacheInit, CachedOK
<1>2. ASSUME NEW p \in Proc PROVE StackOK(build[p], ask[p])
  BY StackEmpty DEF CacheInit
<1> QED
  BY <1>1, <1>2 DEF CacheInit, CacheInv

(* What is looked up is a struct's map: the top one's, or the cast's. *)
LEMMA WantedOK ==
    ASSUME CacheInv, NEW p \in Proc, Wanted(p) # "none"
    PROVE  /\ Wanted(p) \in Structs
           /\ ask[p] # <<>>
           /\ build[p] # <<>> => build[p][Len(build[p])].wants = Wanted(p)
<1>1. StackOK(build[p], ask[p]) /\ ask[p] \in Seq(Structs)
  BY DEF CacheInv
<1>2. CASE build[p] = <<>>
  <2>1. ask[p] # <<>> /\ Wanted(p) = Head(ask[p])
    BY <1>2 DEF Wanted
  <2>2. Head(ask[p]) \in Structs
    BY <1>1, <2>1
  <2> QED
    BY <1>2, <2>1, <2>2
<1>3. CASE build[p] # <<>>
  <2> DEFINE f == build[p][Len(build[p])]
  <2>1. Wanted(p) = f.wants
    BY <1>3 DEF Wanted, Building
  <2>2. BuildOK(f)
    BY <1>1, <1>3, StackTop
  <2>3. f.wants \in Structs
    <3> HIDE DEF f
    <3> QED
      BY <2>1, <2>2, FrameMerge
  <2> QED
    BY <1>1, <1>3, <2>1, <2>3 DEF StackOK
<1> QED
  BY <1>2, <1>3

(* What one goroutine's step leaves of the others. *)
LEMMA StacksKept ==
    ASSUME CacheInv, NEW p \in Proc, NEW b, NEW types \in Seq(Structs), StackOK(b, types),
           build' = [build EXCEPT ![p] = b], ask' = [ask EXCEPT ![p] = types]
    PROVE  /\ ask' \in [Proc -> Seq(Structs)]
           /\ build' = [q \in Proc |-> build'[q]]
           /\ \A q \in Proc : StackOK(build'[q], ask'[q])
<1>1. build = [q \in Proc |-> build[q]] /\ ask \in [Proc -> Seq(Structs)]
  BY DEF CacheInv
<1>2. ask' \in [Proc -> Seq(Structs)] /\ build' = [q \in Proc |-> build'[q]]
  BY <1>1
<1>3. ASSUME NEW q \in Proc PROVE StackOK(build'[q], ask'[q])
  <2>1. CASE q = p
    <3>1. build'[q] = b /\ ask'[q] = types
      BY <1>1, <2>1
    <3> QED
      BY <3>1
  <2>2. CASE q # p
    <3>1. build'[q] = build[q] /\ ask'[q] = ask[q]
      BY <1>1, <2>2
    <3> QED
      BY <3>1 DEF CacheInv
  <2> QED
    BY <2>1, <2>2
<1> QED
  BY <1>2, <1>3

LEMMA AskKept ==
    ASSUME CacheInv, NEW p \in Proc
    PROVE  ask = [ask EXCEPT ![p] = ask[p]] /\ ask[p] \in Seq(Structs)
BY DEF CacheInv

(* The map that is found is the one that was asked for. *)
LEMMA GotOK ==
    ASSUME CacheInv, NEW p \in Proc, NEW t \in Structs, NEW under,
           StackOK(under, ask[p]), ask[p] # <<>>, under # <<>> => under[Len(under)].wants = t,
           GotMap(p, FieldMap[t], under)
    PROVE  /\ ask' \in [Proc -> Seq(Structs)]
           /\ build' = [q \in Proc |-> build'[q]]
           /\ \A q \in Proc : StackOK(build'[q], ask'[q])
<1>1. CASE under = <<>>
  <2> DEFINE types == Tail(ask[p])
  <2>1. types \in Seq(Structs)
    BY AskKept
  <2>2. build' = [build EXCEPT ![p] = under] /\ ask' = [ask EXCEPT ![p] = types]
    BY <1>1 DEF GotMap
  <2>3. StackOK(under, types)
    BY <1>1, StackEmpty
  <2> HIDE DEF types
  <2> QED
    BY <2>1, <2>2, <2>3, StacksKept
<1>2. CASE under # <<>>
  <2> DEFINE b == Merged(under, FieldMap[t])
  <2>1. build' = [build EXCEPT ![p] = b] /\ ask' = ask
    BY <1>2 DEF GotMap
  <2>2. StackOK(b, ask[p])
    BY <1>2, StackMerge
  <2> HIDE DEF b
  <2>3. ask' = [ask EXCEPT ![p] = ask[p]] /\ ask[p] \in Seq(Structs)
    BY <2>1, AskKept
  <2> QED
    BY <2>1, <2>2, <2>3, StacksKept
<1> QED
  BY <1>1, <1>2

LEMMA HitInv ==
    ASSUME CacheInv, NEW p \in Proc, Hit(p)
    PROVE  CacheInv'
<1> DEFINE t == Wanted(p)
<1>1. t \in DOMAIN fieldCache /\ GotMap(p, fieldCache[t], build[p]) /\ fieldCache' = fieldCache
  BY DEF Hit
<1>2. t \in Structs /\ t # "none" /\ fieldCache[t] = FieldMap[t]
  BY <1>1, StructTypesAssumption DEF CacheInv, CachedOK, Structs
<1>3. /\ ask[p] # <<>>
      /\ build[p] # <<>> => build[p][Len(build[p])].wants = t
  BY <1>2, WantedOK
<1> HIDE DEF t
<1>4. StackOK(build[p], ask[p])
  BY DEF CacheInv
<1>5. GotMap(p, FieldMap[t], build[p])
  BY <1>1, <1>2
<1>6. /\ ask' \in [Proc -> Seq(Structs)]
      /\ build' = [q \in Proc |-> build'[q]]
      /\ \A q \in Proc : StackOK(build'[q], ask'[q])
  BY <1>2, <1>3, <1>4, <1>5, GotOK
<1>7. CachedOK'
  BY <1>1 DEF CacheInv, CachedOK
<1> QED
  BY <1>6, <1>7 DEF CacheInv

LEMMA MissInv ==
    ASSUME CacheInv, NEW p \in Proc, Miss(p)
    PROVE  CacheInv'
<1> DEFINE t == Wanted(p)
           b == Append(build[p], NewMap(t))
<1>1. t # "none" /\ build' = [build EXCEPT ![p] = b] /\ fieldCache' = fieldCache /\ ask' = ask
  BY DEF Miss, Unpublished
<1>2. /\ t \in Structs
      /\ ask[p] # <<>>
      /\ build[p] # <<>> => build[p][Len(build[p])].wants = t
  BY <1>1, WantedOK
<1>3. StackOK(build[p], ask[p])
  BY DEF CacheInv
<1> HIDE DEF t
<1>4. StackOK(b, ask[p])
  BY <1>2, <1>3, StackPush
<1> HIDE DEF b
<1>5. ask' = [ask EXCEPT ![p] = ask[p]] /\ ask[p] \in Seq(Structs)
  BY <1>1, AskKept
<1>6. /\ ask' \in [Proc -> Seq(Structs)]
      /\ build' = [q \in Proc |-> build'[q]]
      /\ \A q \in Proc : StackOK(build'[q], ask'[q])
  BY <1>1, <1>4, <1>5, StacksKept
<1>7. CachedOK'
  BY <1>1 DEF CacheInv, CachedOK
<1> QED
  BY <1>6, <1>7 DEF CacheInv

LEMMA AddFieldInv ==
    ASSUME CacheInv, NEW p \in Proc, AddField(p)
    PROVE  CacheInv'
<1> DEFINE n == Len(build[p])
           f == build[p][n]
           g == WithField(f)
           b == [build[p] EXCEPT ![n] = g]
<1>1. StackOK(build[p], ask[p]) /\ build[p] # <<>>
  BY DEF CacheInv, AddField
<1>2. f.wants = "none" /\ f.i <= Len(Fields(f.t))
  BY DEF AddField, Building
<1>3. BuildOK(f) /\ n \in 1..n
  BY <1>1, StackTop
<1>4. BuildOK(g) /\ g.t = f.t
  <2> HIDE DEF f
  <2> QED
    BY <1>2, <1>3, FrameOwn
<1>5. build' = [build EXCEPT ![p] = b] /\ fieldCache' = fieldCache /\ ask' = ask
  BY Zenon DEF AddField, Building
<1> HIDE DEF g
<1>6. StackOK(b, ask[p])
  BY <1>1, <1>4, StackSet
<1> HIDE DEF b
<1>7. ask' = [ask EXCEPT ![p] = ask[p]] /\ ask[p] \in Seq(Structs)
  BY <1>5, AskKept
<1>8. /\ ask' \in [Proc -> Seq(Structs)]
      /\ build' = [q \in Proc |-> build'[q]]
      /\ \A q \in Proc : StackOK(build'[q], ask'[q])
  BY <1>5, <1>6, <1>7, StacksKept
<1>9. CachedOK'
  BY <1>5 DEF CacheInv, CachedOK
<1> QED
  BY <1>8, <1>9 DEF CacheInv

(* A map that is built is the struct's. *)
LEMMA BuiltOK ==
    ASSUME CacheInv, NEW p \in Proc, IsBuilt(p)
    PROVE  /\ build[p] # <<>> /\ ask[p] # <<>>
           /\ Building(p).t \in Structs
           /\ Building(p).map = FieldMap[Building(p).t]
<1> DEFINE f == build[p][Len(build[p])]
<1>1. StackOK(build[p], ask[p]) /\ build[p] # <<>> /\ ask[p] # <<>>
  BY DEF CacheInv, IsBuilt, StackOK
<1>2. f.wants = "none" /\ f.i > Len(Fields(f.t))
  BY DEF IsBuilt, Building
<1>3. BuildOK(f)
  BY <1>1, StackTop
<1>4. f.map = FieldMap[f.t] /\ f.t \in Structs
  <2> HIDE DEF f
  <2> QED
    BY <1>2, <1>3, FrameDone DEF BuildOK
<1> QED
  BY <1>1, <1>4 DEF Building

LEMMA StoreMapInv ==
    ASSUME CacheInv, NEW p \in Proc, StoreMap(p)
    PROVE  CacheInv'
<1> DEFINE t == Building(p).t
           under == SubSeq(build[p], 1, Len(build[p]) - 1)
<1>1. IsBuilt(p) /\ Stored(t, Building(p).map) /\ GotMap(p, Building(p).map, under)
  BY DEF StoreMap
<1>2. build[p] # <<>> /\ ask[p] # <<>> /\ t \in Structs /\ Building(p).map = FieldMap[t]
  BY <1>1, BuiltOK
<1>3. StackOK(build[p], ask[p])
  BY DEF CacheInv
<1>4. /\ StackOK(under, ask[p])
      /\ under # <<>> => under[Len(under)].wants = t
  BY <1>2, <1>3, StackPop DEF Building
<1> HIDE DEF t, under
<1>5. /\ ask' \in [Proc -> Seq(Structs)]
      /\ build' = [q \in Proc |-> build'[q]]
      /\ \A q \in Proc : StackOK(build'[q], ask'[q])
  BY <1>1, <1>2, <1>4, GotOK
<1>6. CachedOK'
  <2> DEFINE one == [s \in {t} |-> FieldMap[t]]
  <2>1. fieldCache' = Over(one, fieldCache)
    BY <1>1, <1>2 DEF Stored
  <2>2. DOMAIN one = {t} /\ one[t] = FieldMap[t]
    OBVIOUS
  <2> HIDE DEF one
  <2> DEFINE new == Over(one, fieldCache)
  <2>3. /\ DOMAIN new = DOMAIN one \cup DOMAIN fieldCache
        /\ \A s \in DOMAIN one : new[s] = one[s]
        /\ \A s \in DOMAIN fieldCache \ DOMAIN one : new[s] = fieldCache[s]
    BY DEF Over
  <2>4. CachedOK
    BY DEF CacheInv
  <2> HIDE DEF new
  <2>5. DOMAIN new \subseteq Structs /\ \A s \in DOMAIN new : new[s] = FieldMap[s]
    BY <1>2, <2>2, <2>3, <2>4 DEF CachedOK
  <2>6. fieldCache' = new
    BY <2>1 DEF new
  <2> QED
    BY <2>5, <2>6 DEF CachedOK
<1> QED
  BY <1>5, <1>6 DEF CacheInv

LEMMA RequestInv ==
    ASSUME CacheInv, NEW p \in Proc, NEW types \in Seq(Structs), Request(p, types)
    PROVE  CacheInv'
<1>1. build[p] = <<>> /\ ask' = [ask EXCEPT ![p] = types] /\ build' = build /\ fieldCache' = fieldCache
  BY DEF Request, HasMaps
<1>2. build' = [build EXCEPT ![p] = build[p]]
  BY <1>1 DEF CacheInv
<1>3. StackOK(build[p], types)
  BY <1>1, StackEmpty
<1>4. /\ ask' \in [Proc -> Seq(Structs)]
      /\ build' = [q \in Proc |-> build'[q]]
      /\ \A q \in Proc : StackOK(build'[q], ask'[q])
  BY <1>1, <1>2, <1>3, StacksKept
<1>5. CachedOK'
  BY <1>1 DEF CacheInv, CachedOK
<1> QED
  BY <1>4, <1>5 DEF CacheInv

LEMMA NextInv ==
    CacheInv /\ [CacheNext]_cacheVars => CacheInv'
<1> SUFFICES ASSUME CacheInv, [CacheNext]_cacheVars PROVE CacheInv'
  OBVIOUS
<1>1. ASSUME NEW p \in Proc, Hit(p) PROVE CacheInv'
  BY <1>1, HitInv
<1>2. ASSUME NEW p \in Proc, Miss(p) PROVE CacheInv'
  BY <1>2, MissInv
<1>3. ASSUME NEW p \in Proc, AddField(p) PROVE CacheInv'
  BY <1>3, AddFieldInv
<1>4. ASSUME NEW p \in Proc, StoreMap(p) PROVE CacheInv'
  BY <1>4, StoreMapInv
<1>5. ASSUME NEW p \in Proc, NEW types \in Seq(Structs), Request(p, types) PROVE CacheInv'
  BY <1>5, RequestInv
<1>6. CASE UNCHANGED cacheVars
  BY <1>6 DEF cacheVars, CacheInv, CachedOK
<1> QED
  BY <1>1, <1>2, <1>3, <1>4, <1>5, <1>6 DEF CacheNext, GetFieldMap

(* The cached maps are complete and so are those that are built; a map that is
   under way holds the entries of the fields that were read; each map under way
   waits for the one above it (getFieldMap). *)
THEOREM CacheAlwaysInv ==
    CacheSpec => []CacheInv
<1> QED
  BY InitInv, NextInv, PTL DEF CacheSpec

(* Whatever goroutines look up, build and store at once, of any types, a field
   map that can be found or is about to be stored is the struct's (getFieldMap). *)
THEOREM MapsComplete ==
    CacheSpec => []FieldMapsComplete
<1>1. CacheInv => FieldMapsComplete
  <2> SUFFICES ASSUME CacheInv PROVE FieldMapsComplete
    OBVIOUS
  <2>1. \A t \in DOMAIN fieldCache : fieldCache[t] = FieldMap[t]
    BY DEF CacheInv, CachedOK
  <2>2. \A p \in Proc : IsBuilt(p) => Building(p).map = FieldMap[Building(p).t]
    BY BuiltOK
  <2> QED
    BY <2>1, <2>2 DEF FieldMapsComplete
<1> QED
  BY <1>1, CacheAlwaysInv, PTL

(* A map that a goroutine has found in the cache is what anyone finds there
   later, though it is stored again by whoever was slower (getFieldMap). *)
FoundAgain ==
    \A t \in DOMAIN fieldCache : t \in DOMAIN fieldCache' /\ fieldCache'[t] = fieldCache[t]

THEOREM MapsStay ==
    CacheSpec => [][FoundAgain]_cacheVars
<1>1. CacheInv /\ CacheInv' /\ [CacheNext]_cacheVars => [FoundAgain]_cacheVars
  <2> SUFFICES ASSUME CacheInv, CacheInv', CacheNext PROVE FoundAgain
    BY DEF FoundAgain
  <2>1. DOMAIN fieldCache \subseteq DOMAIN fieldCache'
    <3>1. ASSUME NEW p \in Proc, StoreMap(p) PROVE DOMAIN fieldCache \subseteq DOMAIN fieldCache'
      BY <3>1 DEF StoreMap, Stored, Over
    <3>2. ASSUME NEW p \in Proc, ~StoreMap(p), Hit(p) \/ Miss(p) \/ AddField(p)
          PROVE  fieldCache' = fieldCache
      BY <3>2 DEF Hit, Miss, Unpublished, AddField
    <3>3. ASSUME NEW p \in Proc, NEW types \in Seq(Structs), Request(p, types)
          PROVE  fieldCache' = fieldCache
      BY <3>3 DEF Request
    <3> QED
      BY <3>1, <3>2, <3>3 DEF CacheNext, GetFieldMap
  <2>2. \A t \in DOMAIN fieldCache : fieldCache[t] = FieldMap[t]
    BY DEF CacheInv, CachedOK
  <2>3. \A t \in DOMAIN fieldCache' : fieldCache'[t] = FieldMap[t]
    BY DEF CacheInv, CachedOK
  <2> QED
    BY <2>1, <2>2, <2>3 DEF FoundAgain
<1> QED
  BY <1>1, CacheAlwaysInv, PTL DEF CacheSpec

(* A goroutine never builds a struct's map while it builds that struct's map: it
   asks for embedded structs only, so getFieldMap comes to an end and the stack
   holds at most one map of each struct (getFieldMap). *)
NoneTwice ==
    \A p \in Proc : \A j, k \in 1..Len(build[p]) : build[p][j].t = build[p][k].t => j = k

THEOREM CallsEnd ==
    CacheSpec => []NoneTwice
<1>1. CacheInv => NoneTwice
  <2> SUFFICES ASSUME CacheInv, NEW p \in Proc,
                      NEW j \in 1..Len(build[p]), NEW k \in 1..Len(build[p]),
                      build[p][j].t = build[p][k].t, j < k
               PROVE  FALSE
    <3>1. \A p \in Proc : Len(build[p]) \in Nat
      BY DEF CacheInv, StackOK, IsStack
    <3> QED
      BY <3>1 DEF NoneTwice
  <2> DEFINE b == build[p]
             S == {b[m].t : m \in j..(k - 1)}
  <2>1. /\ \A m \in 1..Len(b) : BuildOK(b[m])
        /\ \A m \in 1..(Len(b) - 1) : b[m].wants = b[m + 1].t
        /\ Len(b) \in Nat
    BY DEF CacheInv, StackOK, IsStack
  <2>2. b[j].t = b[k].t
    OBVIOUS
  <2> HIDE DEF b
  <2>3. \A m \in j..(k - 1) : m \in 1..Len(b) /\ m \in 1..(Len(b) - 1) /\ m + 1 \in 1..Len(b)
    BY <2>1 DEF b
  <2>4. S \in SUBSET Structs
    BY <2>1, <2>3 DEF BuildOK
  <2>5. ASSUME NEW m \in j..(k - 1)
        PROVE  b[m + 1].t \in EmbeddedIn(b[m].t) \cap S
    <3>1. BuildOK(b[m]) /\ b[m + 1].t \in Structs /\ b[m].wants = b[m + 1].t
      BY <2>1, <2>3 DEF BuildOK
    <3>2. b[m].wants # "none"
      BY <3>1, StructTypesAssumption DEF Structs
    <3> DEFINE f == b[m]
    <3>3. f.wants \in EmbeddedIn(f.t)
      <4>1. BuildOK(f) /\ f.wants # "none"
        BY <3>1, <3>2
      <4> HIDE DEF f
      <4>2. /\ f.t \in Structs /\ f.i \in 1..(Len(Fields(f.t)) + 1) /\ f.i <= Len(Fields(f.t))
            /\ IsEmbedded(Fields(f.t)[f.i]) /\ f.wants = Fields(f.t)[f.i].type
        BY <4>1 DEF BuildOK, Field
      <4>3. f.i \in 1..Len(Fields(f.t))
        BY <4>2, FieldLen
      <4> QED
        BY <4>2, <4>3, EmbeddedField
    <3>4. b[m + 1].t \in S
      <4>1. CASE m + 1 \in j..(k - 1)
        BY <4>1
      <4>2. CASE m + 1 \notin j..(k - 1)
        <5>1. m + 1 = k /\ j \in j..(k - 1)
          BY <4>2
        <5>2. b[m + 1].t = b[j].t
          BY <2>2, <5>1
        <5> QED
          BY <5>1, <5>2
      <4> QED
        BY <4>1, <4>2
    <3> QED
      BY <3>1, <3>3, <3>4
  <2>6. S # {}
    <3>1. j \in j..(k - 1)
      OBVIOUS
    <3> QED
      BY <3>1
  <2>7. PICK t \in S : EmbeddedIn(t) \cap S = {}
    <3> HIDE DEF S
    <3> QED
      BY <2>4, <2>6, Innermost
  <2>8. PICK m \in j..(k - 1) : t = b[m].t
    OBVIOUS
  <2> HIDE DEF S
  <2> QED
    BY <2>5, <2>7, <2>8
<1> QED
  BY <1>1, CacheAlwaysInv, PTL

-----------------------------------------------------------------------------
(* The parser.  What makes it panic is in the text. *)
Character == Char \cup {" "}

IsExpr(e) ==
    /\ e = [key |-> e.key, value |-> e.value, quote |-> e.quote, props |-> e.props, panic |-> e.panic]
    /\ e.value \in Seq(Character) /\ e.panic \in BOOLEAN

LEMMA SetPropIs ==
    ASSUME NEW e, IsExpr(e), NEW key, NEW value \in Seq(Character), NEW s, s = setProp(e, key, value)
    PROVE  /\ IsExpr(s) /\ s.value = e.value /\ s.quote = e.quote
           /\ s.panic <=> e.panic \/ value = <<>>
PROOF
<1>1. CASE value = <<>>
  BY <1>1 DEF setProp, IsExpr
<1>2. CASE value # <<>>
  <2> DEFINE more == WithProp(e.props, key, Prop(value))
  <2>1. s = [e EXCEPT !.props = more]
    BY <1>2 DEF setProp
  <2> HIDE DEF more
  <2> QED BY <1>2, <2>1 DEF IsExpr
<1> QED BY <1>1, <1>2

LEMMA EndPairIs ==
    ASSUME NEW e, IsExpr(e), NEW s, s = EndPair(e)
    PROVE  IsExpr(s) /\ s.value = <<>> /\ s.quote = e.quote /\ s.panic = e.panic
PROOF
<1> DEFINE set == IF e.key # <<>> /\ e.value # <<>> THEN setProp(e, e.key, e.value) ELSE e
<1>1. IsExpr(set) /\ set.quote = e.quote /\ set.panic = e.panic
  <2>1. CASE e.key # <<>> /\ e.value # <<>>
    <3> DEFINE x == setProp(e, e.key, e.value)
    <3>1. IsExpr(x) /\ x.quote = e.quote /\ (x.panic <=> e.panic \/ e.value = <<>>)
      <4>1. e.value \in Seq(Character)
        BY DEF IsExpr
      <4> QED BY <4>1, SetPropIs
    <3>2. x.panic \in BOOLEAN /\ e.panic \in BOOLEAN
      BY <3>1 DEF IsExpr
    <3> HIDE DEF x
    <3> QED BY <2>1, <3>1, <3>2 DEF x
  <2>2. CASE ~(e.key # <<>> /\ e.value # <<>>)
    BY <2>2
  <2> QED BY <2>1, <2>2
<1>2. s = [set EXCEPT !.key = <<>>, !.value = <<>>]
  BY DEF EndPair
<1> HIDE DEF set
<1>3. s = [key |-> <<>>, value |-> <<>>, quote |-> set.quote, props |-> set.props, panic |-> set.panic]
  BY <1>1, <1>2 DEF IsExpr
<1>4. set.panic \in BOOLEAN
  BY <1>1 DEF IsExpr
<1>5. <<>> \in Seq(Character)
  OBVIOUS
<1> QED BY <1>1, <1>3, <1>4, <1>5 DEF IsExpr

(* Two quotes side by side, or a sign at the end. *)
Flawed(str) ==
    \/ \E k \in 1..Len(str) - 1 : str[k] \in Quotes /\ str[k + 1] = str[k]
    \/ Len(str) >= 1 /\ str[Len(str)] \in Signs

ExprInv(str, e, i) ==
    /\ IsExpr(e)
    /\ e.panic => Flawed(str)
    /\ ~e.panic /\ e.quote # "none" /\ e.value = <<>> => i >= 1 /\ str[i] = e.quote

LEMMA ExprCharKeeps ==
    ASSUME NEW str \in Seq(Character), NEW i \in 1..Len(str), NEW e, ExprInv(str, e, i - 1), ~e.panic
    PROVE  ExprInv(str, ExprChar(str, e, i), i)
PROOF
<1> DEFINE c == str[i]
           x == ExprChar(str, e, i)
<1> SUFFICES ExprInv(str, x, i)
  OBVIOUS
<1>1. c \in Character /\ "none" \notin Quotes /\ i >= 1 /\ Len(str) \in Nat
  BY DEF Quotes
<1>2. /\ e = [key |-> e.key, value |-> e.value, quote |-> e.quote, props |-> e.props, panic |-> FALSE]
      /\ e.value \in Seq(Character) /\ e.panic = FALSE
  BY DEF ExprInv, IsExpr
<1> HIDE DEF c, x
<1>3. Append(e.value, c) \in Seq(Character) /\ Append(e.value, c) # <<>>
  <2> DEFINE v == e.value
  <2>1. v \in Seq(Character)
    BY <1>2
  <2> HIDE DEF v
  <2>2. Append(v, c) \in Seq(Character) /\ Len(Append(v, c)) = Len(v) + 1 /\ Len(v) \in Nat
    BY <1>1, <2>1, AppendProperties
  <2>3. Append(v, c) # <<>>
    BY <2>2
  <2> QED BY <2>2, <2>3 DEF v
<1>4. CASE c \in Quotes /\ e.quote = "none"
  <2>1. x = [e EXCEPT !.quote = c]
    BY <1>1, <1>4 DEF ExprChar, c, x, Quotes, Signs
  <2> QED BY <1>1, <1>2, <2>1 DEF ExprInv, IsExpr, c
<1>5. CASE c \in Quotes /\ e.quote = c
  <2> DEFINE s == setProp(e, e.key, e.value)
  <2>1. x = [s EXCEPT !.quote = "none", !.key = <<>>, !.value = <<>>]
    BY <1>1, <1>5 DEF ExprChar, c, x
  <2>2. IsExpr(s) /\ (s.panic <=> e.value = <<>>)
    <3>1. IsExpr(e)
      BY DEF ExprInv
    <3> QED BY <1>2, <3>1, SetPropIs
  <2>3. e.value = <<>> => Flawed(str)
    <3> SUFFICES ASSUME e.value = <<>> PROVE Flawed(str)
      OBVIOUS
    <3>1. i - 1 >= 1 /\ str[i - 1] = c
      BY <1>1, <1>2, <1>5 DEF ExprInv
    <3>2. i - 1 \in 1..Len(str) - 1 /\ (i - 1) + 1 = i
      BY <3>1
    <3> QED BY <1>5, <3>1, <3>2 DEF Flawed, c
  <2> HIDE DEF s
  <2>4. x = [key |-> <<>>, value |-> <<>>, quote |-> "none", props |-> s.props, panic |-> s.panic]
    BY <2>1, <2>2 DEF IsExpr
  <2>5. s.panic \in BOOLEAN /\ <<>> \in Seq(Character)
    BY <2>2 DEF IsExpr
  <2>6. x.quote = "none" /\ (x.panic <=> s.panic)
    BY <2>4
  <2>7. IsExpr(x)
    BY <2>4, <2>5 DEF IsExpr
  <2> QED BY <2>2, <2>3, <2>6, <2>7 DEF ExprInv
<1>6. CASE c \in Signs /\ e.quote = "none"
  <2> DEFINE end == i = Len(str)
  <2>1. x = [e EXCEPT !.value = Append(@, c), !.panic = @ \/ end]
    BY <1>1, <1>6 DEF ExprChar, c, x, Quotes, Signs
  <2>2. x = [key |-> e.key, value |-> Append(e.value, c), quote |-> e.quote, props |-> e.props, panic |-> end]
    BY <1>2, <2>1
  <2>3. end => Flawed(str)
    BY <1>1, <1>6 DEF Flawed, c
  <2> HIDE DEF end
  <2>4. end \in BOOLEAN
    BY DEF end
  <2>5. IsExpr(x)
    BY <1>3, <2>2, <2>4 DEF IsExpr
  <2>6. x.quote = "none" /\ (x.panic <=> end)
    BY <1>6, <2>2
  <2> QED BY <2>3, <2>5, <2>6 DEF ExprInv
<1>7. CASE c = "=" /\ e.quote = "none"
  <2>1. x = [e EXCEPT !.value = Append(@, c)]
    BY <1>1, <1>7 DEF ExprChar, c, x, Quotes, Signs
  <2> QED BY <1>2, <1>3, <1>7, <2>1 DEF ExprInv, IsExpr
<1>8. CASE c = "," /\ e.quote = "none"
  <2>1. x = EndPair(e)
    BY <1>1, <1>8 DEF ExprChar, c, x, Quotes, Signs
  <2>2. IsExpr(e)
    BY DEF ExprInv
  <2>3. IsExpr(x) /\ x.quote = "none" /\ x.panic = FALSE
    BY <1>2, <1>8, <2>1, <2>2, EndPairIs
  <2> QED BY <2>3 DEF ExprInv
<1>9. CASE e.quote = "none" /\ c \notin Quotes \cup Signs \cup {"=", ","}
  <2>1. x = IF e.value = <<>> THEN [e EXCEPT !.key = Append(@, c)] ELSE [e EXCEPT !.value = Append(@, c)]
    BY <1>1, <1>9 DEF ExprChar, c, x, Quotes, Signs
  <2> QED BY <1>2, <1>3, <1>9, <2>1 DEF ExprInv, IsExpr
<1>10. CASE e.quote # "none" /\ ~(c \in Quotes /\ e.quote = c)
  <2>1. x = [e EXCEPT !.value = Append(@, c)]
    BY <1>1, <1>10 DEF ExprChar, c, x
  <2> QED BY <1>2, <1>3, <1>10, <2>1 DEF ExprInv, IsExpr
<1>11. \/ e.quote = "none" /\ c \in Quotes \cup Signs \cup {"=", ","}
       \/ e.quote = "none" /\ c \notin Quotes \cup Signs \cup {"=", ","}
       \/ c \in Quotes /\ e.quote = c
       \/ e.quote # "none" /\ ~(c \in Quotes /\ e.quote = c)
  OBVIOUS
<1> QED BY <1>4, <1>5, <1>6, <1>7, <1>8, <1>9, <1>10, <1>11

(* What parseExpr has after i characters. *)
ExpressingOf(str, n, f) == f = [k \in 0..n |-> IF k = 0 THEN NewExpr ELSE ExprStep(str, f[k - 1], k)]

LEMMA ExpressingExists ==
    ASSUME NEW str, NEW n \in Nat
    PROVE  \E f : ExpressingOf(str, n, f)
PROOF
<1> DEFINE T == {m \in 0..n : \E f : ExpressingOf(str, m, f)}
<1>1. 0 \in T
  <2> DEFINE g == [k \in 0..0 |-> NewExpr]
  <2>1. ExpressingOf(str, 0, g)
    BY DEF ExpressingOf
  <2> QED BY <2>1
<1>2. ASSUME NEW m \in 1..n, m - 1 \in T PROVE m \in T
  <2>1. PICK f : ExpressingOf(str, m - 1, f)
    BY <1>2
  <2> DEFINE g == [k \in 0..m |-> IF k < m THEN f[k] ELSE ExprStep(str, f[m - 1], m)]
  <2>2. ASSUME NEW k \in 0..m
        PROVE  g[k] = IF k = 0 THEN NewExpr ELSE ExprStep(str, g[k - 1], k)
    <3>1. k < m => f[k] = IF k = 0 THEN NewExpr ELSE ExprStep(str, f[k - 1], k)
      BY <2>1 DEF ExpressingOf
    <3>2. k # 0 => g[k - 1] = f[k - 1]
      OBVIOUS
    <3> QED BY <3>1, <3>2
  <2>3. ExpressingOf(str, m, g)
    BY <2>2 DEF ExpressingOf
  <2> QED BY <2>3
<1>3. \A m \in 0..n : m \in T
  <2> HIDE DEF T
  <2> QED BY <1>1, <1>2, StretchInduction
<1> QED BY <1>3

LEMMA ParseExprPanics ==
    ASSUME NEW str \in Seq(Character), NEW x, x = parseExpr(str)
    PROVE  IsExpr(x) /\ (x.panic => Flawed(str))
PROOF
<1> DEFINE n == Len(str)
           f == CHOOSE f : ExpressingOf(str, n, f)
<1>1. n \in Nat
  OBVIOUS
<1>2. ExpressingOf(str, n, f)
  BY <1>1, ExpressingExists
<1>3. x = IF f[n].panic THEN f[n] ELSE EndPair(f[n])
  BY DEF parseExpr, ExprChars, ExpressingOf
<1> HIDE DEF f
<1>4. f[0] = NewExpr /\ \A i \in 1..n : f[i] = ExprStep(str, f[i - 1], i)
  <2>1. \A i \in 0..n : f[i] = IF i = 0 THEN NewExpr ELSE ExprStep(str, f[i - 1], i)
    BY <1>2 DEF ExpressingOf
  <2> QED BY <1>1, <2>1
<1> DEFINE T == {i \in 0..n : ExprInv(str, f[i], i)}
<1>5. 0 \in T
  <2>1. ExprInv(str, NewExpr, 0)
    BY DEF ExprInv, IsExpr, NewExpr
  <2> QED BY <1>1, <1>4, <2>1
<1>6. ASSUME NEW i \in 1..n, i - 1 \in T PROVE i \in T
  <2> DEFINE e == f[i - 1]  d == f[i]
  <2>1. ExprInv(str, e, i - 1) /\ d = ExprStep(str, e, i) /\ i \in 0..n /\ i \in 1..Len(str)
    BY <1>4, <1>6
  <2> HIDE DEF e, d
  <2>2. CASE e.panic
    <3>1. d = e
      BY <2>1, <2>2 DEF ExprStep
    <3>2. ExprInv(str, d, i)
      BY <2>1, <2>2, <3>1 DEF ExprInv
    <3> QED BY <2>1, <3>2 DEF d
  <2>3. CASE ~e.panic
    <3>1. d = ExprChar(str, e, i)
      BY <2>1, <2>3 DEF ExprStep
    <3>2. ExprInv(str, d, i)
      BY <2>1, <2>3, <3>1, ExprCharKeeps
    <3> QED BY <2>1, <3>2 DEF d
  <2> QED BY <2>2, <2>3
<1>7. ExprInv(str, f[n], n)
  <2>1. \A i \in 0..n : i \in T
    <3> HIDE DEF T, n
    <3> QED BY <1>1, <1>5, <1>6, StretchInduction
  <2>2. n \in 0..n
    BY <1>1
  <2> QED BY <2>1, <2>2
<1> DEFINE e == f[n]
<1>8. IsExpr(e) /\ (e.panic => Flawed(str)) /\ x = IF e.panic THEN e ELSE EndPair(e)
  BY <1>3, <1>7 DEF ExprInv
<1> HIDE DEF e
<1>9. CASE ~e.panic
  <2>1. x = EndPair(e)
    BY <1>8, <1>9
  <2> QED BY <1>8, <1>9, <2>1, EndPairIs
<1> QED BY <1>8, <1>9

-----------------------------------------------------------------------------
(* parse.  Between brackets the buffer has the text since the bracket; without
   a node there was nothing but spaces and closing brackets. *)
IsSequence(s) == \E S : s \in Seq(S)

LEMMA LongerIsSequence ==
    ASSUME NEW s, IsSequence(s), NEW x
    PROVE  IsSequence(Append(s, x)) /\ Append(s, x) # <<>>
PROOF
<1>1. PICK S : s \in Seq(S)
  BY DEF IsSequence
<1> DEFINE T == S \cup {x}
<1>2. s \in Seq(T) /\ x \in T
  BY <1>1
<1> HIDE DEF T
<1>3. Append(s, x) \in Seq(T) /\ Len(Append(s, x)) = Len(s) + 1 /\ Len(s) \in Nat
  BY <1>2, AppendProperties
<1>4. Append(s, x) # <<>>
  BY <1>3
<1> QED BY <1>3, <1>4 DEF IsSequence

LEMMA ChangedIsSequence ==
    ASSUME NEW s, IsSequence(s), NEW k, NEW x
    PROVE  IsSequence([s EXCEPT ![k] = x]) /\ (s # <<>> => [s EXCEPT ![k] = x] # <<>>)
PROOF
<1>1. PICK S : s \in Seq(S)
  BY DEF IsSequence
<1> DEFINE T == S \cup {x}  t == [s EXCEPT ![k] = x]
<1>2. s \in [1..Len(s) -> T] /\ Len(s) \in Nat /\ x \in T
  BY <1>1
<1>3. t \in [1..Len(s) -> T]
  BY <1>2
<1> HIDE DEF T
<1>4. t \in Seq(T)
  BY <1>2, <1>3
<1>5. s # <<>> => t # <<>>
  <2>1. Len(t) = Len(s)
    BY <1>2, <1>3, <1>4
  <2>2. s # <<>> => Len(s) # 0
    BY <1>1
  <2> HIDE DEF t
  <2> QED BY <2>1, <2>2
<1> QED BY <1>4, <1>5 DEF IsSequence

IsParse(p) ==
    /\ p = [nodes |-> p.nodes, current |-> p.current, buf |-> p.buf, inside |-> p.inside, panic |-> p.panic]
    /\ IsSequence(p.nodes) /\ p.buf \in Seq(Character)
    /\ p.current \in BOOLEAN /\ p.inside \in BOOLEAN /\ p.panic \in BOOLEAN

LEMMA WithNodeIs ==
    ASSUME NEW p, IsParse(p), p.current => p.nodes # <<>>
    PROVE  /\ IsParse(WithNode(p)) /\ WithNode(p).nodes # <<>>
           /\ WithNode(p).buf = p.buf /\ (WithNode(p).inside <=> p.inside)
           /\ (WithNode(p).panic <=> p.panic) /\ WithNode(p).current
PROOF
<1>1. CASE p.current
  <2>1. WithNode(p) = p
    BY <1>1 DEF WithNode
  <2> QED BY <1>1, <2>1
<1>2. CASE ~p.current
  <2> DEFINE more == Append(p.nodes, [key |-> <<>>, props |-> <<>>])
             x == WithNode(p)
  <2>1. IsSequence(more) /\ more # <<>>
    BY LongerIsSequence DEF IsParse
  <2>2. x = [p EXCEPT !.current = TRUE, !.nodes = more]
    BY <1>2 DEF WithNode
  <2> HIDE DEF more
  <2>3. x = [nodes |-> more, current |-> TRUE, buf |-> p.buf, inside |-> p.inside, panic |-> p.panic]
    BY <2>2 DEF IsParse
  <2> HIDE DEF x
  <2>4. IsParse(x)
    BY <2>1, <2>3 DEF IsParse
  <2>5. x.nodes # <<>> /\ x.buf = p.buf /\ (x.inside <=> p.inside) /\ (x.panic <=> p.panic) /\ x.current
    BY <2>1, <2>3
  <2> QED BY <2>4, <2>5 DEF x
<1> QED BY <1>1, <1>2

LEMMA KeyedIs ==
    ASSUME NEW p, IsParse(p)
    PROVE  /\ IsParse(Keyed(p)) /\ (p.nodes # <<>> => Keyed(p).nodes # <<>>)
           /\ Keyed(p).buf = <<>> /\ (Keyed(p).inside <=> p.inside)
           /\ (Keyed(p).panic <=> p.panic)
PROOF
<1>1. CASE p.buf = <<>>
  <2>1. Keyed(p) = p
    BY <1>1 DEF Keyed
  <2> QED BY <1>1, <2>1
<1>2. CASE p.buf # <<>>
  <2> DEFINE node == [p.nodes[Len(p.nodes)] EXCEPT !.key = p.buf]
             more == [p.nodes EXCEPT ![Len(p.nodes)] = node]
             x == Keyed(p)
  <2>1. IsSequence(more) /\ (p.nodes # <<>> => more # <<>>)
    <3>1. IsSequence(p.nodes)
      BY DEF IsParse
    <3> HIDE DEF node
    <3> QED BY <3>1, ChangedIsSequence
  <2>2. x = [p EXCEPT !.nodes = more, !.buf = <<>>]
    BY <1>2 DEF Keyed, IsParse
  <2> HIDE DEF more
  <2>3. x = [nodes |-> more, current |-> p.current, buf |-> <<>>, inside |-> p.inside, panic |-> p.panic]
    BY <2>2 DEF IsParse
  <2>4. <<>> \in Seq(Character)
    OBVIOUS
  <2> HIDE DEF x
  <2>5. IsParse(x)
    BY <2>1, <2>3, <2>4 DEF IsParse
  <2>6. (p.nodes # <<>> => x.nodes # <<>>) /\ x.buf = <<>> /\ (x.inside <=> p.inside) /\ (x.panic <=> p.panic)
    BY <2>1, <2>3
  <2> QED BY <2>5, <2>6 DEF x
<1> QED BY <1>1, <1>2

(* A sign before a closing bracket, or two quotes side by side. *)
Paired(text) ==
    \E k \in 1..Len(text) - 1 :
        \/ text[k] \in Signs /\ text[k + 1] = "]"
        \/ text[k] \in Quotes /\ text[k + 1] = text[k]

ParseInv(chars, p, i) ==
    /\ IsParse(p)
    /\ p.panic => Paired(chars)
    /\ ~p.panic =>
          /\ p.inside => /\ Len(p.buf) < i
                         /\ \A k \in 1..Len(p.buf) : p.buf[k] = chars[i - Len(p.buf) + k]
          /\ p.inside \/ p.current => p.nodes # <<>>
          /\ p.nodes = <<>> => \A k \in 1..i : chars[k] \in Space \cup {"]"}

LEMMA FlawedBuffer ==
    ASSUME NEW chars \in Seq(Character), NEW buf \in Seq(Character), NEW i \in 1..Len(chars),
           chars[i] = "]", Len(buf) < i - 1,
           \A k \in 1..Len(buf) : buf[k] = chars[(i - 1) - Len(buf) + k],
           Flawed(buf)
    PROVE  Paired(chars)
PROOF
<1>1. Len(buf) \in Nat /\ Len(chars) \in Nat
  OBVIOUS
<1> DEFINE n == Len(buf)  m == Len(chars)
<1> HIDE DEF n, m
<1>2. CASE \E k \in 1..n - 1 : buf[k] \in Quotes /\ buf[k + 1] = buf[k]
  <2>1. PICK k \in 1..n - 1 : buf[k] \in Quotes /\ buf[k + 1] = buf[k]
    BY <1>2
  <2> DEFINE j == (i - 1) - n + k
  <2>2. k \in 1..n /\ k + 1 \in 1..n
    BY <1>1, <2>1 DEF n
  <2>3. j \in 1..m - 1 /\ (i - 1) - n + (k + 1) = j + 1
    BY <1>1, <2>1 DEF n, m
  <2>4. buf[k] = chars[j] /\ buf[k + 1] = chars[j + 1]
    BY <2>2, <2>3 DEF n
  <2> HIDE DEF j
  <2> QED BY <2>1, <2>3, <2>4 DEF Paired, m
<1>3. CASE n >= 1 /\ buf[n] \in Signs
  <2>1. n \in 1..n /\ i - 1 \in 1..m - 1 /\ (i - 1) - n + n = i - 1 /\ (i - 1) + 1 = i
    BY <1>1, <1>3 DEF n, m
  <2>2. buf[n] = chars[i - 1]
    BY <2>1 DEF n
  <2> QED BY <1>3, <2>1, <2>2 DEF Paired, m
<1> QED BY <1>2, <1>3 DEF Flawed, n

LEMMA ParseCharKeeps ==
    ASSUME NEW chars \in Seq(Character), NEW i \in 1..Len(chars), NEW p, ParseInv(chars, p, i - 1), ~p.panic
    PROVE  ParseInv(chars, ParseChar(p, chars[i]), i)
PROOF
<1> DEFINE c == chars[i]
           x == ParseChar(p, c)
<1> SUFFICES ParseInv(chars, x, i)
  OBVIOUS
<1>1. c \in Character /\ i >= 1 /\ i - 1 \in Nat /\ Len(chars) \in Nat
  OBVIOUS
<1>2. IsParse(p) /\ p.buf \in Seq(Character) /\ p.inside \in BOOLEAN /\ p.current \in BOOLEAN /\ p.panic = FALSE
  BY DEF ParseInv, IsParse
<1>3. p.inside => Len(p.buf) < i - 1 /\ \A k \in 1..Len(p.buf) : p.buf[k] = chars[(i - 1) - Len(p.buf) + k]
  BY <1>1 DEF ParseInv
<1>4. /\ p.inside \/ p.current => p.nodes # <<>>
      /\ p.nodes = <<>> => \A k \in 1..i - 1 : chars[k] \in Space \cup {"]"}
  BY <1>1 DEF ParseInv
<1>5. p = [nodes |-> p.nodes, current |-> p.current, buf |-> p.buf, inside |-> p.inside, panic |-> FALSE]
  BY <1>2 DEF IsParse
<1>6. /\ Append(p.buf, c) \in Seq(Character) /\ Len(Append(p.buf, c)) = Len(p.buf) + 1 /\ Len(p.buf) \in Nat
      /\ Append(p.buf, c)[Len(p.buf) + 1] = c
      /\ \A k \in 1..Len(p.buf) : Append(p.buf, c)[k] = p.buf[k]
  <2> DEFINE b == p.buf
  <2>1. b \in Seq(Character) /\ c \in Character
    BY <1>1, <1>2
  <2> HIDE DEF b, c
  <2> QED BY <2>1, AppendProperties DEF b
<1> HIDE DEF c, x
<1>7. CASE p.inside /\ c = "]"
  <2> DEFINE e == parseExpr(p.buf)
             more == [p.nodes EXCEPT ![Len(p.nodes)] = [p.nodes[Len(p.nodes)] EXCEPT !.props = e.props]]
  <2>1. x = [p EXCEPT !.nodes = more, !.panic = e.panic, !.buf = <<>>, !.inside = FALSE, !.current = FALSE]
    BY <1>5, <1>7 DEF ParseChar, x, IsWord
  <2>2. IsExpr(e) /\ (e.panic => Flawed(p.buf))
    BY <1>2, ParseExprPanics
  <2>3. IsSequence(more) /\ more # <<>>
    <3>1. IsSequence(p.nodes) /\ p.nodes # <<>>
      BY <1>2, <1>4, <1>7 DEF IsParse
    <3> QED BY <3>1, ChangedIsSequence
  <2>4. e.panic \in BOOLEAN /\ <<>> \in Seq(Character)
    BY <2>2 DEF IsExpr
  <2>5. e.panic => Paired(chars)
    BY <1>2, <1>3, <1>7, <2>2, FlawedBuffer DEF c
  <2> HIDE DEF e, more
  <2>6. x = [nodes |-> more, current |-> FALSE, buf |-> <<>>, inside |-> FALSE, panic |-> e.panic]
    BY <1>5, <2>1
  <2>7. IsParse(x)
    BY <2>3, <2>4, <2>6 DEF IsParse
  <2>8. x.nodes # <<>> /\ (x.panic <=> e.panic) /\ ~x.inside /\ ~x.current
    BY <2>3, <2>6
  <2> QED BY <2>5, <2>7, <2>8 DEF ParseInv
<1>8. CASE p.inside /\ c # "]"
  <2> DEFINE b == Append(p.buf, c)
  <2>1. x = [p EXCEPT !.buf = b]
    BY <1>5, <1>8 DEF ParseChar, x, IsWord
  <2>2. Len(b) < i /\ \A k \in 1..Len(b) : b[k] = chars[i - Len(b) + k]
    <3> DEFINE m == Len(p.buf)
    <3>1. /\ m \in Nat /\ m < i - 1 /\ Len(b) = m + 1 /\ b[m + 1] = c
          /\ \A k \in 1..m : b[k] = p.buf[k] /\ p.buf[k] = chars[(i - 1) - m + k]
      BY <1>3, <1>6, <1>8
    <3> HIDE DEF m, b
    <3>2. ASSUME NEW k \in 1..m + 1 PROVE b[k] = chars[i - (m + 1) + k]
      <4>1. CASE k = m + 1
        <5>1. i - (m + 1) + k = i
          BY <3>1, <4>1
        <5> QED BY <3>1, <4>1, <5>1 DEF c
      <4>2. CASE k # m + 1
        <5>1. k \in 1..m /\ i - (m + 1) + k = (i - 1) - m + k
          BY <3>1, <4>2
        <5> QED BY <3>1, <5>1
      <4> QED BY <4>1, <4>2
    <3> QED BY <3>1, <3>2
  <2>3. b \in Seq(Character)
    BY <1>6
  <2> HIDE DEF b
  <2>4. x = [nodes |-> p.nodes, current |-> p.current, buf |-> b, inside |-> p.inside, panic |-> p.panic]
    BY <1>2, <2>1 DEF IsParse
  <2>5. IsParse(x)
    BY <1>2, <2>3, <2>4 DEF IsParse
  <2>6. x.nodes = p.nodes /\ x.buf = b /\ ~x.panic
    BY <1>2, <2>4
  <2> QED BY <1>4, <1>8, <2>2, <2>5, <2>6 DEF ParseInv
<1>9. CASE ~p.inside /\ IsWord(c)
  <2> DEFINE w == WithNode(p)
             b == Append(p.buf, c)
  <2>1. /\ IsParse(w) /\ w.nodes # <<>> /\ w.buf = p.buf /\ (w.inside <=> p.inside)
        /\ (w.panic <=> p.panic) /\ w.current
    BY <1>2, <1>4, WithNodeIs
  <2>2. x = [w EXCEPT !.buf = b]
    BY <1>9, <2>1 DEF ParseChar, x, IsWord
  <2>3. b \in Seq(Character)
    BY <1>6
  <2> HIDE DEF w, b
  <2>4. x = [nodes |-> w.nodes, current |-> w.current, buf |-> b, inside |-> w.inside, panic |-> w.panic]
    BY <2>1, <2>2 DEF IsParse
  <2>5. IsParse(x)
    BY <2>1, <2>3, <2>4 DEF IsParse
  <2>6. x.nodes # <<>> /\ ~x.panic /\ ~x.inside
    BY <1>2, <1>9, <2>1, <2>4
  <2> QED BY <2>5, <2>6 DEF ParseInv
<1>10. CASE ~p.inside /\ c \in Space
  <2>1. CASE p.current
    <3> DEFINE w == Keyed(p)
    <3>1. /\ IsParse(w) /\ w.nodes # <<>> /\ (w.inside <=> p.inside) /\ (w.panic <=> p.panic)
      BY <1>2, <1>4, <2>1, KeyedIs
    <3>2. x = [w EXCEPT !.current = FALSE]
      BY <1>10, <2>1 DEF ParseChar, x, IsWord, Space
    <3> HIDE DEF w
    <3>3. x = [nodes |-> w.nodes, current |-> FALSE, buf |-> w.buf, inside |-> w.inside, panic |-> w.panic]
      BY <3>1, <3>2 DEF IsParse
    <3>4. IsParse(x)
      BY <3>1, <3>3 DEF IsParse
    <3>5. x.nodes # <<>> /\ ~x.panic /\ ~x.inside
      BY <1>2, <1>10, <3>1, <3>3
    <3> QED BY <3>4, <3>5 DEF ParseInv
  <2>2. CASE ~p.current
    <3>1. x = p
      BY <1>10, <2>2 DEF ParseChar, x, IsWord, Space
    <3>2. p.nodes = <<>> => \A k \in 1..i : chars[k] \in Space \cup {"]"}
      <4>1. \A k \in 1..i : k \in 1..i - 1 \/ k = i
        OBVIOUS
      <4> QED BY <1>4, <1>10, <4>1 DEF c
    <3> QED BY <1>2, <1>10, <2>2, <3>1, <3>2 DEF ParseInv
  <2> QED BY <2>1, <2>2
<1>11. CASE ~p.inside /\ c = "["
  <2> DEFINE v == WithNode(p)
             w == Keyed(v)
  <2>1. IsParse(v) /\ v.nodes # <<>> /\ (v.panic <=> p.panic)
    BY <1>2, <1>4, WithNodeIs
  <2> HIDE DEF v
  <2>2. IsParse(w) /\ w.nodes # <<>> /\ w.buf = <<>> /\ (w.panic <=> p.panic)
    BY <2>1, KeyedIs
  <2>3. x = [w EXCEPT !.inside = TRUE]
    BY <1>11 DEF ParseChar, x, v, IsWord, Space
  <2> HIDE DEF w
  <2>4. x = [nodes |-> w.nodes, current |-> w.current, buf |-> <<>>, inside |-> TRUE, panic |-> w.panic]
    BY <2>2, <2>3 DEF IsParse
  <2>5. IsParse(x)
    BY <2>2, <2>4 DEF IsParse
  <2>6. x.nodes # <<>> /\ ~x.panic /\ x.buf = <<>>
    BY <1>2, <2>2, <2>4
  <2>7. Len(x.buf) < i /\ \A k \in 1..Len(x.buf) : x.buf[k] = chars[i - Len(x.buf) + k]
    BY <1>1, <2>6
  <2> QED BY <2>5, <2>6, <2>7 DEF ParseInv
<1>12. CASE ~p.inside /\ c = "]"
  <2>1. x = p
    BY <1>12 DEF ParseChar, x, IsWord, Space
  <2>2. p.nodes = <<>> => \A k \in 1..i : chars[k] \in Space \cup {"]"}
    <3>1. \A k \in 1..i : k \in 1..i - 1 \/ k = i
      OBVIOUS
    <3> QED BY <1>4, <1>12, <3>1 DEF c
  <2> QED BY <1>2, <1>4, <1>12, <2>1, <2>2 DEF ParseInv
<1> QED BY <1>7, <1>8, <1>9, <1>10, <1>11, <1>12 DEF IsWord

(* What parse has after i characters. *)
ParsingOf(chars, n, f) == f = [k \in 0..n |-> IF k = 0 THEN NewParse ELSE ParseStep(f[k - 1], chars[k])]

LEMMA ParsingExists ==
    ASSUME NEW chars, NEW n \in Nat
    PROVE  \E f : ParsingOf(chars, n, f)
PROOF
<1> DEFINE T == {m \in 0..n : \E f : ParsingOf(chars, m, f)}
<1>1. 0 \in T
  <2> DEFINE g == [k \in 0..0 |-> NewParse]
  <2>1. ParsingOf(chars, 0, g)
    BY DEF ParsingOf
  <2> QED BY <2>1
<1>2. ASSUME NEW m \in 1..n, m - 1 \in T PROVE m \in T
  <2>1. PICK f : ParsingOf(chars, m - 1, f)
    BY <1>2
  <2> DEFINE g == [k \in 0..m |-> IF k < m THEN f[k] ELSE ParseStep(f[m - 1], chars[m])]
  <2>2. ASSUME NEW k \in 0..m
        PROVE  g[k] = IF k = 0 THEN NewParse ELSE ParseStep(g[k - 1], chars[k])
    <3>1. k < m => f[k] = IF k = 0 THEN NewParse ELSE ParseStep(f[k - 1], chars[k])
      BY <2>1 DEF ParsingOf
    <3>2. k # 0 => g[k - 1] = f[k - 1]
      OBVIOUS
    <3> QED BY <3>1, <3>2
  <2>3. ParsingOf(chars, m, g)
    BY <2>2 DEF ParsingOf
  <2> QED BY <2>3
<1>3. \A m \in 0..n : m \in T
  <2> HIDE DEF T
  <2> QED BY <1>1, <1>2, StretchInduction
<1> QED BY <1>3

LEMMA ParsingKeeps ==
    ASSUME NEW chars \in Seq(Character), NEW f, ParsingOf(chars, Len(chars), f)
    PROVE  ParseInv(chars, f[Len(chars)], Len(chars))
PROOF
<1> DEFINE n == Len(chars)
<1>1. n \in Nat
  OBVIOUS
<1>2. f[0] = NewParse /\ \A i \in 1..n : f[i] = ParseStep(f[i - 1], chars[i])
  <2>1. \A i \in 0..n : f[i] = IF i = 0 THEN NewParse ELSE ParseStep(f[i - 1], chars[i])
    BY DEF ParsingOf
  <2> QED BY <1>1, <2>1
<1> DEFINE T == {i \in 0..n : ParseInv(chars, f[i], i)}
<1>3. 0 \in T
  <2> DEFINE p == NewParse
  <2>1. p = [nodes |-> <<>>, current |-> FALSE, buf |-> <<>>, inside |-> FALSE, panic |-> FALSE]
    BY DEF NewParse
  <2>2. <<>> \in Seq(Character)
    OBVIOUS
  <2>3. IsSequence(<<>>)
    BY <2>2 DEF IsSequence
  <2> HIDE DEF p
  <2>4. IsParse(p) /\ ~p.panic /\ ~p.inside /\ ~p.current
    BY <2>1, <2>2, <2>3 DEF IsParse
  <2>5. ParseInv(chars, p, 0)
    BY <2>4 DEF ParseInv
  <2> QED BY <1>1, <1>2, <2>5 DEF p
<1>4. ASSUME NEW i \in 1..n, i - 1 \in T PROVE i \in T
  <2> DEFINE e == f[i - 1]  d == f[i]
  <2>1. /\ ParseInv(chars, e, i - 1) /\ d = ParseStep(e, chars[i])
        /\ i \in 0..n /\ i \in 1..Len(chars)
    BY <1>2, <1>4
  <2> HIDE DEF e, d
  <2>2. CASE e.panic
    <3>1. d = e
      BY <2>1, <2>2 DEF ParseStep
    <3>2. ParseInv(chars, d, i)
      BY <2>1, <2>2, <3>1 DEF ParseInv
    <3> QED BY <2>1, <3>2 DEF d
  <2>3. CASE ~e.panic
    <3>1. d = ParseChar(e, chars[i])
      BY <2>1, <2>3 DEF ParseStep
    <3>2. ParseInv(chars, d, i)
      BY <2>1, <2>3, <3>1, ParseCharKeeps
    <3> QED BY <2>1, <3>2 DEF d
  <2> QED BY <2>2, <2>3
<1>5. \A i \in 0..n : i \in T
  <2> HIDE DEF T, n
  <2> QED BY <1>1, <1>3, <1>4, StretchInduction
<1>6. n \in 0..n
  BY <1>1
<1> QED BY <1>5, <1>6

Unfit(text) == Range(text) \subseteq Space \cup {"]"} \/ Paired(text)

LEMMA AfterLast ==
    ASSUME NEW S, NEW s \in Seq(S), NEW e \in S
    PROVE  /\ Append(s, e) \in Seq(S) /\ Len(Append(s, e)) = Len(s) + 1 /\ Len(s) \in Nat
           /\ DOMAIN s = 1..Len(s) /\ Append(s, e)[Len(s) + 1] = e
           /\ \A k \in 1..Len(s) : Append(s, e)[k] = s[k]
BY AppendProperties

(* What parse reads: the text and a blank that ends it. *)
Ended(text) == Append(text, " ")

LEMMA EndedIs ==
    ASSUME NEW text \in Seq(Char)
    PROVE  /\ Ended(text) \in Seq(Character) /\ Len(Ended(text)) = Len(text) + 1 /\ Len(text) \in Nat
           /\ DOMAIN text = 1..Len(text)
           /\ Ended(text)[Len(text) + 1] \notin Quotes \cup {"]"}
           /\ \A k \in 1..Len(text) : Ended(text)[k] = text[k]
PROOF
<1> DEFINE blank == " "
<1>1. text \in Seq(Character)
  <2>1. Char \subseteq Character
    BY DEF Character
  <2> QED BY <2>1
<1>2. blank \in Character
  BY DEF Character
<1>3. blank \notin Quotes \cup {"]"}
  BY DEF Quotes
<1>4. Ended(text) = Append(text, blank)
  BY DEF Ended
<1> HIDE DEF blank
<1> QED BY <1>1, <1>2, <1>3, <1>4, AfterLast

LEMMA Parsed ==
    ASSUME NEW text \in Seq(Char)
    PROVE  \E p : /\ ParseInv(Ended(text), p, Len(text) + 1)
                 /\ parse(text).panic = p.panic /\ parse(text).nodes = p.nodes
PROOF
<1> DEFINE chars == Ended(text)
           f == CHOOSE f : ParsingOf(chars, Len(chars), f)
           p == f[Len(chars)]
<1>1. chars \in Seq(Character) /\ Len(chars) = Len(text) + 1 /\ Len(chars) \in Nat
  BY EndedIs
<1>2. ParsingOf(chars, Len(chars), f)
  <2> HIDE DEF chars
  <2> QED BY <1>1, ParsingExists
<1>3. parse(text).panic = p.panic /\ parse(text).nodes = p.nodes
  BY DEF parse, ParsingOf, Ended
<1> HIDE DEF f, chars
<1>4. ParseInv(chars, p, Len(text) + 1)
  BY <1>1, <1>2, ParsingKeeps
<1> QED BY <1>3, <1>4 DEF chars

(* A text that makes the parser panic, or gives no node, is unfit. *)
LEMMA ParsePanics ==
    ASSUME NEW text \in Seq(Char)
    PROVE  parse(text).panic \/ parse(text).nodes = <<>> => Unfit(text)
PROOF
<1> DEFINE chars == Ended(text)  m == Len(text)
<1>1. /\ Len(chars) = m + 1 /\ m \in Nat /\ DOMAIN text = 1..m
      /\ chars[m + 1] \notin Quotes \cup {"]"}
      /\ \A k \in 1..m : chars[k] = text[k]
  BY EndedIs
<1>2. PICK p : /\ ParseInv(chars, p, m + 1)
               /\ parse(text).panic = p.panic /\ parse(text).nodes = p.nodes
  BY Parsed
<1> HIDE DEF chars, m
<1>3. CASE p.panic
  <2>1. PICK k \in 1..Len(chars) - 1 :
           \/ chars[k] \in Signs /\ chars[k + 1] = "]"
           \/ chars[k] \in Quotes /\ chars[k + 1] = chars[k]
    BY <1>2, <1>3 DEF ParseInv, Paired
  <2>2. k # m
    BY <1>1, <2>1
  <2>3. k \in 1..m - 1 /\ k \in 1..m /\ k + 1 \in 1..m
    BY <1>1, <2>1, <2>2
  <2>4. chars[k] = text[k] /\ chars[k + 1] = text[k + 1]
    BY <1>1, <2>3
  <2> QED BY <2>1, <2>3, <2>4 DEF Unfit, Paired, m
<1>4. CASE ~p.panic /\ p.nodes = <<>>
  <2>1. \A k \in 1..m + 1 : chars[k] \in Space \cup {"]"}
    BY <1>2, <1>4 DEF ParseInv
  <2>2. \A k \in 1..m : text[k] \in Space \cup {"]"}
    <3> SUFFICES ASSUME NEW k \in 1..m PROVE text[k] \in Space \cup {"]"}
      OBVIOUS
    <3>1. k \in 1..m + 1 /\ text[k] = chars[k]
      BY <1>1
    <3> QED BY <2>1, <3>1
  <2> QED BY <1>1, <2>2 DEF Unfit, Range
<1> QED BY <1>2, <1>3, <1>4

LEMMA ParsedNodes ==
    ASSUME NEW text \in Seq(Char)
    PROVE  IsSequence(parse(text).nodes)
PROOF
<1>1. PICK p : ParseInv(Ended(text), p, Len(text) + 1) /\ parse(text).nodes = p.nodes
  BY Parsed
<1> QED BY <1>1 DEF ParseInv, IsParse

-----------------------------------------------------------------------------
(* The pickers. *)
IsPicker(p) == p = [at |-> p.at, nodes |-> p.nodes, stack |-> p.stack, result |-> p.result]

PickersOK ==
    /\ called \in Calls
    /\ pickers = [r \in DOMAIN Rules |-> pickers[r]]
    /\ \A r \in DOMAIN Rules : IsPicker(pickers[r])

-----------------------------------------------------------------------------
(* The operators of Pick with the call as a parameter, so that a step, which
   leaves the call alone, leaves them alone. *)
KidsIn(c, n) == c.object[n].kids

KeyIn(c, n) == IF n = 1 THEN <<>> ELSE c.object[n].key

toStringIn(c, n) == IF c.object[n].kind \in {"text", "int"} THEN c.object[n].text ELSE <<>>

IsFloatIn(c, n) == c.object[n].kind \in Leaves /\ IsNumeral(c.object[n].text)

SatisfiesIn(c, n, prop) ==
    LET size == Len(c.object[n].text)  than == Len(prop.value)
    IN  CASE prop.op = "==" -> toStringIn(c, n) = prop.value
          [] prop.op = "!=" -> toStringIn(c, n) # prop.value
          [] prop.op = "*=" -> Includes(toStringIn(c, n), prop.value)
          [] prop.op = ">"  -> IsFloatIn(c, n) /\ size > than
          [] prop.op = ">=" -> IsFloatIn(c, n) /\ size >= than
          [] prop.op = "<"  -> IsFloatIn(c, n) /\ size < than
          [] prop.op = "<=" -> IsFloatIn(c, n) /\ size <= than
          [] prop.op = "err" -> FALSE

matchPropsIn(c, kids, node) ==
    \A p \in DOMAIN node.props :
        \E k \in kids : c.object[k].key = p /\ SatisfiesIn(c, k, node.props[p])

FitsIn(c, n, key, kids, node) ==
    /\ node.key = <<>> \/ EqualFold(node.key, key)
    /\ IF c.object[n].kind \in Containers THEN matchPropsIn(c, kids, node) ELSE node.props = <<>>

OnePerKeyIn(c, n) ==
    {S \in SUBSET KidsIn(c, n) :
       \A k \in KidsIn(c, n) : Cardinality({j \in S : c.object[j].key = c.object[k].key}) = 1}

AboveIn(c, n) ==
    LET holders(m) == {h \in DOMAIN c.object : m \in c.object[h].kids}
        above[m \in DOMAIN c.object] == UNION {above[h] \cup {h} : h \in holders(m)}
    IN  above[n]

FitsBelowIn(c, n, node) == FitsIn(c, n, KeyIn(c, n), KidsIn(c, n), node)

(* Nodes of the selector up to, and without, the q-th have places in A. *)
PlacedOn(c, A, q, nodes) ==
    \E place \in [1..(q - 1) -> A] :
        \A k \in DOMAIN place :
            /\ FitsBelowIn(c, place[k], nodes[k])
            /\ k > 1 => place[k - 1] < place[k]

LedToIn(c, n, nodes) ==
    /\ FitsBelowIn(c, n, Last(nodes))
    /\ PlacedOn(c, AboveIn(c, n), Len(nodes), nodes)

SelectedIn(c, n, nodes) == c.object[n].kind \in c.want /\ LedToIn(c, n, nodes)

TwinsIn(c, n) ==
    {k \in KidsIn(c, n) : \E j \in KidsIn(c, n) \ {k} : c.object[j].key = c.object[k].key}

HiddenIn(c, n, nodes) ==
    \E m \in AboveIn(c, n) \cup {n} :
        \E k \in TwinsIn(c, m) :
            \/ k \in AboveIn(c, n) \cup {n}
            \/ \E i \in DOMAIN nodes : c.object[k].key \in DOMAIN nodes[i].props

ValueIn(c, n) ==
    IF c.want = Basic THEN c.object[n].text ELSE <<c.object[n].kind, c.object[n].text>>

DistinctIn(c, result) ==
    LET seen[k \in 0..Len(result)] ==
            IF k = 0 THEN <<>>
            ELSE IF \E i \in DOMAIN seen[k - 1] : ValueIn(c, seen[k - 1][i]) = ValueIn(c, result[k])
                 THEN seen[k - 1] ELSE Append(seen[k - 1], result[k])
    IN  seen[Len(result)]

LEMMA FitsCalled ==
    ASSUME NEW n, NEW key, NEW kids, NEW node
    PROVE  Fits(n, key, kids, node) <=> FitsIn(called, n, key, kids, node)
BY DEF Fits, FitsIn, matchProps, matchPropsIn, Satisfies, SatisfiesIn, toString, toStringIn,
       IsFloat, IsFloatIn, Node

LEMMA WalkedCalled ==
    ASSUME NEW n
    PROVE  /\ OnePerKey(n) = OnePerKeyIn(called, n)
           /\ Above(n) = AboveIn(called, n)
           /\ Value(n) = ValueIn(called, n)
           /\ Twins(n) = TwinsIn(called, n)
BY DEF OnePerKey, OnePerKeyIn, Above, AboveIn, Value, ValueIn, Twins, TwinsIn, KidsIn, Node

LEMMA SelectedCalled ==
    ASSUME NEW n, NEW nodes
    PROVE  /\ LedTo(n, nodes) <=> LedToIn(called, n, nodes)
           /\ Selected(n, nodes) <=> SelectedIn(called, n, nodes)
           /\ Hidden(n, nodes) <=> HiddenIn(called, n, nodes)
PROOF
<1>1. \A m, node : FitsBelow(m, node) <=> FitsBelowIn(called, m, node)
  BY FitsCalled DEF FitsBelow, FitsBelowIn, KeyIn, KidsIn, Node
<1>2. Above(n) = AboveIn(called, n) /\ \A m : Twins(m) = TwinsIn(called, m)
  BY WalkedCalled
<1>3. LedTo(n, nodes) <=> LedToIn(called, n, nodes)
  BY <1>1, <1>2 DEF LedTo, LedToIn, PlacedOn
<1>5. Selected(n, nodes) <=> SelectedIn(called, n, nodes)
  BY <1>3 DEF Selected, SelectedIn, Node
<1>4. Hidden(n, nodes) <=> HiddenIn(called, n, nodes)
  BY <1>2 DEF Hidden, HiddenIn, Node
<1> QED BY <1>3, <1>4, <1>5

LEMMA DistinctCalled ==
    ASSUME NEW result
    PROVE  Distinct(result) = DistinctIn(called, result)
BY DEF Distinct, DistinctIn, WithNew, Value, ValueIn, Node

-----------------------------------------------------------------------------
(* Objects are trees, numbered in the order of the walk. *)
IsTree(c) ==
    /\ Len(c.object) \in Nat /\ Len(c.object) >= 1 /\ DOMAIN c.object = 1..Len(c.object)
    /\ \A n \in 1..Len(c.object) :
         /\ KidsIn(c, n) \subseteq (n + 1)..Len(c.object)
         /\ n > 1 => \E m \in 1..n - 1 : n \in KidsIn(c, m)
         /\ \A m \in 1..n - 1 : KidsIn(c, m) \cap KidsIn(c, n) = {}
         /\ \A j, k \in KidsIn(c, n) : \A m \in j..k - 1 : \A x \in KidsIn(c, m) : x < k

LEMMA CallIsTree ==
    ASSUME NEW c \in Calls
    PROVE  IsTree(c)
PROOF
<1>1. c.object \in Seq(Range(c.object)) /\ c.object # <<>>
  BY PickAssumption
<1>2. Len(c.object) \in Nat /\ Len(c.object) >= 1 /\ DOMAIN c.object = 1..Len(c.object)
  <2> DEFINE s == c.object  S == Range(c.object)
  <2>1. s \in Seq(S) /\ s # <<>>
    BY <1>1
  <2> HIDE DEF s, S
  <2>2. Len(s) \in Nat /\ Len(s) >= 1 /\ DOMAIN s = 1..Len(s)
    BY <2>1
  <2> QED BY <2>2 DEF s
<1>3. \A n \in DOMAIN c.object :
         /\ KidsIn(c, n) \subseteq (n + 1)..Len(c.object)
         /\ n > 1 => \E m \in 1..n - 1 : n \in KidsIn(c, m)
         /\ \A m \in 1..n - 1 : KidsIn(c, m) \cap KidsIn(c, n) = {}
         /\ \A j, k \in KidsIn(c, n) : \A m \in j..k - 1 : \A x \in KidsIn(c, m) : x < k
  BY PickAssumption DEF KidsIn
<1> QED BY <1>2, <1>3 DEF IsTree

HoldersIn(c, m) == {h \in 1..Len(c.object) : m \in KidsIn(c, h)}

LEMMA OneHolder ==
    ASSUME NEW c, IsTree(c), NEW h \in 1..Len(c.object), NEW k \in KidsIn(c, h)
    PROVE  k \in 1..Len(c.object) /\ h < k /\ HoldersIn(c, k) = {h}
PROOF
<1>1. k \in 1..Len(c.object) /\ h < k
  BY DEF IsTree
<1>2. ASSUME NEW g \in 1..Len(c.object), k \in KidsIn(c, g), g # h PROVE FALSE
  <2>1. CASE g < h
    <3>1. g \in 1..h - 1
      BY <2>1 DEF IsTree
    <3> QED BY <1>2, <3>1 DEF IsTree
  <2>2. CASE h < g
    <3>1. h \in 1..g - 1
      BY <2>2 DEF IsTree
    <3> QED BY <1>2, <3>1 DEF IsTree
  <2> QED BY <1>2, <2>1, <2>2 DEF IsTree
<1> QED BY <1>1, <1>2 DEF HoldersIn

AboveOf(c, N, f) ==
    f = [m \in 1..N |-> UNION {f[h] \cup {h} : h \in HoldersIn(c, m)}]

LEMMA AboveExists ==
    ASSUME NEW c, IsTree(c)
    PROVE  \E f : AboveOf(c, Len(c.object), f)
PROOF
<1> DEFINE N == Len(c.object)
           T == {n \in 0..N : \E f : AboveOf(c, n, f)}
<1>1. N \in Nat
  BY DEF IsTree
<1>2. \A m \in 1..N : HoldersIn(c, m) \subseteq 1..m - 1
  BY DEF HoldersIn, IsTree
<1> HIDE DEF N
<1>3. 0 \in T
  <2> DEFINE g == [m \in 1..0 |-> {}]
  <2>1. AboveOf(c, 0, g)
    BY DEF AboveOf
  <2> QED BY <1>1, <2>1
<1>4. ASSUME NEW n \in 1..N, n - 1 \in T PROVE n \in T
  <2>1. PICK f : AboveOf(c, n - 1, f)
    BY <1>4
  <2> DEFINE g == [m \in 1..n |-> IF m < n THEN f[m] ELSE UNION {f[h] \cup {h} : h \in HoldersIn(c, n)}]
  <2>2. ASSUME NEW m \in 1..n
        PROVE  g[m] = UNION {g[h] \cup {h} : h \in HoldersIn(c, m)}
    <3>1. \A h \in HoldersIn(c, m) : g[h] = f[h]
      BY <1>1, <1>2
    <3>2. g[m] = UNION {f[h] \cup {h} : h \in HoldersIn(c, m)}
      <4>1. CASE m < n
        <5>1. m \in 1..n - 1 /\ g[m] = f[m]
          BY <1>1, <4>1
        <5> QED BY <2>1, <5>1 DEF AboveOf
      <4>2. CASE m = n
        BY <4>2
      <4> QED BY <1>1, <4>1, <4>2
    <3>3. {f[h] \cup {h} : h \in HoldersIn(c, m)} = {g[h] \cup {h} : h \in HoldersIn(c, m)}
      <4> HIDE DEF g
      <4> QED BY <3>1
    <3> HIDE DEF g
    <3> QED BY <3>2, <3>3
  <2>3. g = [m \in 1..n |-> g[m]]
    OBVIOUS
  <2>4. AboveOf(c, n, g)
    <3> HIDE DEF g
    <3> QED BY <2>2, <2>3 DEF AboveOf
  <2> QED BY <2>4
<1>5. \A n \in 0..N : n \in T
  <2> HIDE DEF T
  <2> QED BY <1>1, <1>3, <1>4, StretchInduction
<1>6. N \in T
  BY <1>1, <1>5
<1> QED BY <1>6 DEF N

(* Above a kid are its holder and what is above that. *)
LEMMA AboveIs ==
    ASSUME NEW c, IsTree(c)
    PROVE  /\ AboveIn(c, 1) = {}
           /\ \A h \in 1..Len(c.object) : \A k \in KidsIn(c, h) : AboveIn(c, k) = AboveIn(c, h) \cup {h}
PROOF
<1> DEFINE N == Len(c.object)
           f == CHOOSE f : AboveOf(c, N, f)
<1>1. DOMAIN c.object = 1..N /\ N \in Nat /\ N >= 1
  BY DEF IsTree
<1>2. AboveOf(c, N, f)
  BY AboveExists
<1>3. \A n : AboveIn(c, n) = f[n]
  <2>1. \A m : {h \in DOMAIN c.object : m \in c.object[h].kids} = HoldersIn(c, m)
    BY <1>1 DEF HoldersIn, KidsIn
  <2> QED BY <1>1, <2>1 DEF AboveIn, AboveOf
<1> HIDE DEF f
<1>4. \A m \in 1..N : f[m] = UNION {f[h] \cup {h} : h \in HoldersIn(c, m)}
  BY <1>2 DEF AboveOf
<1>5. AboveIn(c, 1) = {}
  <2>1. 1 \in 1..N /\ HoldersIn(c, 1) = {}
    BY <1>1 DEF HoldersIn, IsTree
  <2> QED BY <1>3, <1>4, <2>1
<1>6. ASSUME NEW h \in 1..N, NEW k \in KidsIn(c, h)
      PROVE  AboveIn(c, k) = AboveIn(c, h) \cup {h}
  <2>1. k \in 1..N /\ HoldersIn(c, k) = {h}
    BY OneHolder
  <2>2. f[k] = UNION {f[g] \cup {g} : g \in {h}}
    BY <1>4, <2>1
  <2>3. f[k] = f[h] \cup {h}
    BY <2>2
  <2> QED BY <1>3, <2>3
<1> QED BY <1>5, <1>6

(* Every value is the root or the kid of one before it. *)
LEMMA TreeInduction ==
    ASSUME NEW c, IsTree(c), NEW T, 1 \in T,
           \A h \in 1..Len(c.object) : \A k \in KidsIn(c, h) : h \in T => k \in T
    PROVE  \A n \in 1..Len(c.object) : n \in T
PROOF
<1> DEFINE N == Len(c.object)
           R == {m \in 0..N : \A n \in 1..m : n \in T}
<1>1. N \in Nat
  BY DEF IsTree
<1>2. 0 \in R
  BY <1>1
<1>3. ASSUME NEW m \in 1..N, m - 1 \in R PROVE m \in R
  <2>1. m \in T
    <3>1. CASE m > 1
      <4>1. PICK h \in 1..m - 1 : m \in KidsIn(c, h)
        BY <1>1, <3>1 DEF IsTree
      <4>2. h \in T /\ h \in 1..N
        BY <1>1, <1>3, <4>1
      <4> QED BY <4>1, <4>2
    <3> QED BY <1>1, <3>1
  <2> QED BY <1>1, <1>3, <2>1
<1>4. \A m \in 0..N : m \in R
  <2> HIDE DEF R, N
  <2> QED BY <1>1, <1>2, <1>3, StretchInduction
<1>5. N \in R
  BY <1>1, <1>4
<1> QED BY <1>5

LEMMA AboveType ==
    ASSUME NEW c, IsTree(c)
    PROVE  \A n \in 1..Len(c.object) : AboveIn(c, n) \subseteq 1..n - 1
PROOF
<1> DEFINE T == {n \in 1..Len(c.object) : AboveIn(c, n) \subseteq 1..n - 1}
<1>1. 1 \in T
  BY AboveIs DEF IsTree
<1>2. ASSUME NEW h \in 1..Len(c.object), NEW k \in KidsIn(c, h), h \in T PROVE k \in T
  <2>1. k \in 1..Len(c.object) /\ h < k
    BY OneHolder
  <2>2. AboveIn(c, k) = AboveIn(c, h) \cup {h}
    BY AboveIs
  <2>3. AboveIn(c, h) \subseteq 1..h - 1
    BY <1>2
  <2>4. AboveIn(c, k) \subseteq 1..k - 1
    BY <2>1, <2>2, <2>3 DEF IsTree
  <2> QED BY <2>1, <2>4
<1>3. \A n \in 1..Len(c.object) : n \in T
  <2> HIDE DEF T
  <2> QED BY <1>1, <1>2, TreeInduction
<1> QED BY <1>3

(* The root is above all others, and above a value that is below n there is a
   kid of n, unless it is one. *)
LEMMA BelowRoot ==
    ASSUME NEW c, IsTree(c)
    PROVE  \A n \in 1..Len(c.object) : n = 1 \/ 1 \in AboveIn(c, n)
PROOF
<1> DEFINE T == {n \in 1..Len(c.object) : n = 1 \/ 1 \in AboveIn(c, n)}
<1>1. 1 \in T
  BY DEF IsTree
<1>2. ASSUME NEW h \in 1..Len(c.object), NEW k \in KidsIn(c, h), h \in T PROVE k \in T
  <2>1. k \in 1..Len(c.object) /\ AboveIn(c, k) = AboveIn(c, h) \cup {h}
    BY OneHolder, AboveIs
  <2> QED BY <1>2, <2>1
<1>3. \A n \in 1..Len(c.object) : n \in T
  <2> HIDE DEF T
  <2> QED BY <1>1, <1>2, TreeInduction
<1> QED BY <1>3

LEMMA BelowKid ==
    ASSUME NEW c, IsTree(c), NEW n \in 1..Len(c.object)
    PROVE  \A x \in 1..Len(c.object) :
              n \in AboveIn(c, x) => \E k \in KidsIn(c, n) : k = x \/ k \in AboveIn(c, x)
PROOF
<1> DEFINE T == {x \in 1..Len(c.object) :
                   n \in AboveIn(c, x) => \E k \in KidsIn(c, n) : k = x \/ k \in AboveIn(c, x)}
<1>1. 1 \in T
  BY AboveIs DEF IsTree
<1>2. ASSUME NEW h \in 1..Len(c.object), NEW k \in KidsIn(c, h), h \in T PROVE k \in T
  <2>1. k \in 1..Len(c.object) /\ AboveIn(c, k) = AboveIn(c, h) \cup {h}
    BY OneHolder, AboveIs
  <2> QED BY <1>2, <2>1
<1>3. \A x \in 1..Len(c.object) : x \in T
  <2> HIDE DEF T
  <2> QED BY <1>1, <1>2, TreeInduction
<1> QED BY <1>3

LEMMA HiddenBelow ==
    ASSUME NEW c, IsTree(c), NEW h \in 1..Len(c.object), NEW k \in KidsIn(c, h), NEW nodes,
           HiddenIn(c, h, nodes)
    PROVE  HiddenIn(c, k, nodes)
PROOF
<1>1. AboveIn(c, k) = AboveIn(c, h) \cup {h}
  BY AboveIs
<1> QED BY <1>1 DEF HiddenIn

-----------------------------------------------------------------------------
(* The entries the walk has of a map: a value that has its name alone is one. *)
LEMMA AloneStays ==
    ASSUME NEW c, NEW n, NEW S \in OnePerKeyIn(c, n), NEW k \in KidsIn(c, n), k \notin TwinsIn(c, n)
    PROVE  k \in S
PROOF
<1> DEFINE same == {j \in S : c.object[j].key = c.object[k].key}
<1>1. Cardinality(same) = 1
  BY DEF OnePerKeyIn
<1>2. same # {}
  <2>1. Cardinality({}) = 0
    BY FS_EmptySet
  <2> HIDE DEF same
  <2> QED BY <1>1, <2>1
<1>3. PICK j \in S : c.object[j].key = c.object[k].key
  BY <1>2
<1>4. j \in KidsIn(c, n)
  BY DEF OnePerKeyIn
<1> QED BY <1>3, <1>4 DEF TwinsIn

LEMMA KeptAreKids ==
    ASSUME NEW c, NEW n, NEW S \in OnePerKeyIn(c, n)
    PROVE  S \subseteq KidsIn(c, n)
BY DEF OnePerKeyIn

(* What fits by the entries the walk has, fits. *)
LEMMA FitsMore ==
    ASSUME NEW c, NEW n, NEW S \in OnePerKeyIn(c, n), NEW node, FitsIn(c, n, KeyIn(c, n), S, node)
    PROVE  FitsBelowIn(c, n, node)
BY KeptAreKids DEF FitsBelowIn, FitsIn, matchPropsIn

(* What is not hidden fits by those entries. *)
LEMMA FitsUnhidden ==
    ASSUME NEW c, NEW n, NEW S \in OnePerKeyIn(c, n), NEW nodes, NEW i \in DOMAIN nodes,
           ~HiddenIn(c, n, nodes), FitsBelowIn(c, n, nodes[i])
    PROVE  FitsIn(c, n, KeyIn(c, n), S, nodes[i])
PROOF
<1>1. ASSUME NEW p \in DOMAIN nodes[i].props, matchPropsIn(c, KidsIn(c, n), nodes[i])
      PROVE  \E k \in S : c.object[k].key = p /\ SatisfiesIn(c, k, nodes[i].props[p])
  <2>1. PICK k \in KidsIn(c, n) : c.object[k].key = p /\ SatisfiesIn(c, k, nodes[i].props[p])
    BY <1>1 DEF matchPropsIn
  <2>2. k \notin TwinsIn(c, n)
    BY <1>1, <2>1 DEF HiddenIn
  <2> QED BY <2>1, <2>2, AloneStays
<1> QED BY <1>1 DEF FitsBelowIn, FitsIn, matchPropsIn

(* The walk of n has a way to what is below n and not hidden. *)
LEMMA UnhiddenKid ==
    ASSUME NEW c, IsTree(c), NEW n \in 1..Len(c.object), NEW S \in OnePerKeyIn(c, n), NEW nodes,
           NEW x \in 1..Len(c.object), n \in AboveIn(c, x), ~HiddenIn(c, x, nodes)
    PROVE  \E k \in S : k = x \/ k \in AboveIn(c, x)
PROOF
<1>1. PICK k \in KidsIn(c, n) : k = x \/ k \in AboveIn(c, x)
  BY BelowKid
<1>2. k \notin TwinsIn(c, n)
  BY <1>1 DEF HiddenIn
<1> QED BY <1>1, <1>2, AloneStays

-----------------------------------------------------------------------------
(* Places for the nodes of a selector, in a set of values and one after them. *)
LEMMA PlacedNone ==
    ASSUME NEW c, NEW A, NEW nodes
    PROVE  PlacedOn(c, A, 1, nodes)
PROOF
<1> DEFINE place == [k \in 1..(1 - 1) |-> k]
<1>1. DOMAIN place = {} /\ place \in [1..(1 - 1) -> A]
  OBVIOUS
<1> HIDE DEF place
<1> QED BY <1>1 DEF PlacedOn

LEMMA PlacedWider ==
    ASSUME NEW c, NEW A, NEW B, A \subseteq B, NEW q, NEW nodes, PlacedOn(c, A, q, nodes)
    PROVE  PlacedOn(c, B, q, nodes)
PROOF
<1>1. PICK place \in [1..(q - 1) -> A] :
         \A k \in DOMAIN place :
            /\ FitsBelowIn(c, place[k], nodes[k])
            /\ k > 1 => place[k - 1] < place[k]
  BY DEF PlacedOn
<1>2. place \in [1..(q - 1) -> B]
  OBVIOUS
<1> QED BY <1>1, <1>2 DEF PlacedOn

LEMMA PlacedOneMore ==
    ASSUME NEW c, NEW A, NEW n \in Int, A \subseteq Int, \A a \in A : a < n,
           NEW q \in Nat, q >= 1, NEW nodes,
           PlacedOn(c, A, q, nodes), FitsBelowIn(c, n, nodes[q])
    PROVE  PlacedOn(c, A \cup {n}, q + 1, nodes)
PROOF
<1>1. PICK place \in [1..(q - 1) -> A] :
         \A k \in DOMAIN place :
            /\ FitsBelowIn(c, place[k], nodes[k])
            /\ k > 1 => place[k - 1] < place[k]
  BY DEF PlacedOn
<1> DEFINE more == [k \in 1..((q + 1) - 1) |-> IF k < q THEN place[k] ELSE n]
<1>2. more \in [1..((q + 1) - 1) -> A \cup {n}] /\ DOMAIN more = 1..q
  OBVIOUS
<1>3. ASSUME NEW k \in 1..q
      PROVE  FitsBelowIn(c, more[k], nodes[k]) /\ (k > 1 => more[k - 1] < more[k])
  <2>1. CASE k < q
    <3>1. k \in DOMAIN place /\ more[k] = place[k] /\ (k > 1 => more[k - 1] = place[k - 1])
      BY <2>1
    <3> HIDE DEF more
    <3> QED BY <1>1, <3>1
  <2>2. CASE k = q
    <3>1. more[k] = n /\ (k > 1 => more[k - 1] = place[k - 1] /\ place[k - 1] \in A)
      BY <2>2
    <3> HIDE DEF more
    <3> QED BY <2>2, <3>1
  <2> QED BY <2>1, <2>2
<1> HIDE DEF more
<1> QED BY <1>2, <1>3 DEF PlacedOn

LEMMA PlacedLast ==
    ASSUME NEW c, NEW A, NEW n \in Int, A \subseteq Int, \A a \in A : a < n,
           NEW q \in Nat, q >= 1, NEW nodes, PlacedOn(c, A \cup {n}, q, nodes)
    PROVE  \/ PlacedOn(c, A, q, nodes)
           \/ q > 1 /\ PlacedOn(c, A, q - 1, nodes) /\ FitsBelowIn(c, n, nodes[q - 1])
PROOF
<1>1. PICK place \in [1..(q - 1) -> A \cup {n}] :
         \A k \in DOMAIN place :
            /\ FitsBelowIn(c, place[k], nodes[k])
            /\ k > 1 => place[k - 1] < place[k]
  BY DEF PlacedOn
<1>2. DOMAIN place = 1..(q - 1) /\ \A k \in 1..(q - 1) : place[k] \in A \cup {n} /\ place[k] \in Int /\ place[k] <= n
  <2>1. \A a \in A \cup {n} : a \in Int /\ a <= n
    OBVIOUS
  <2>2. DOMAIN place = 1..(q - 1) /\ \A k \in 1..(q - 1) : place[k] \in A \cup {n}
    OBVIOUS
  <2> QED BY <2>1, <2>2
<1>3. ASSUME NEW k \in 1..(q - 1), k # q - 1 PROVE place[k] \in A
  <2>1. k + 1 \in 1..(q - 1) /\ k + 1 > 1 /\ (k + 1) - 1 = k
    BY <1>3
  <2>2. place[k] < place[k + 1] /\ place[k + 1] <= n /\ place[k + 1] \in Int
    BY <1>1, <1>2, <2>1
  <2>3. place[k] # n
    BY <1>2, <2>1, <2>2
  <2> QED BY <1>2, <2>3
<1>4. CASE q > 1 /\ place[q - 1] = n
  <2> DEFINE less == [k \in 1..((q - 1) - 1) |-> place[k]]
  <2>1. less \in [1..((q - 1) - 1) -> A]
    <3>1. ASSUME NEW k \in 1..((q - 1) - 1) PROVE place[k] \in A
      <4>1. k \in 1..(q - 1) /\ k # q - 1
        OBVIOUS
      <4> QED BY <1>3, <4>1
    <3> QED BY <3>1
  <2>2. \A k \in 1..((q - 1) - 1) :
           k \in 1..(q - 1) /\ less[k] = place[k] /\ (k > 1 => less[k - 1] = place[k - 1])
    OBVIOUS
  <2>3. DOMAIN less = 1..((q - 1) - 1)
    OBVIOUS
  <2> HIDE DEF less
  <2>4. PlacedOn(c, A, q - 1, nodes)
    BY <1>1, <1>2, <2>1, <2>2, <2>3 DEF PlacedOn
  <2>5. q - 1 \in DOMAIN place
    BY <1>2, <1>4
  <2> QED BY <1>1, <1>4, <2>4, <2>5
<1>5. CASE ~(q > 1 /\ place[q - 1] = n)
  <2>1. ASSUME NEW k \in 1..(q - 1) PROVE place[k] \in A
    BY <1>2, <1>3, <1>5
  <2>2. place \in [1..(q - 1) -> A]
    BY <2>1
  <2> QED BY <1>1, <2>2 DEF PlacedOn
<1> QED BY <1>4, <1>5

-----------------------------------------------------------------------------
(* The walk.  The frame of a value has a position of the selector which places
   in and above the value lead up to, and unless the value is hidden none leads
   further. *)
PosOK(c, A, hidden, pos, nodes) ==
    /\ pos \in 1..Len(nodes) /\ PlacedOn(c, A, pos, nodes)
    /\ ~hidden => \A q \in 1..Len(nodes) : PlacedOn(c, A, q, nodes) => q <= pos

IsWalkFrame(c, f, nodes) ==
    /\ f = [node |-> f.node, kids |-> f.kids, pos |-> f.pos]
    /\ f.node \in 1..Len(c.object) /\ f.kids \subseteq KidsIn(c, f.node)
    /\ PosOK(c, AboveIn(c, f.node) \cup {f.node}, HiddenIn(c, f.node, nodes), f.pos, nodes)

(* A frame is for a kid of the frame below it, and what is still to be walked
   comes before what the frames below have still to walk. *)
WalkStackOK(c, s, nodes) ==
    /\ IsSequence(s)
    /\ \A i \in 1..Len(s) : IsWalkFrame(c, s[i], nodes)
    /\ \A i \in 1..Len(s) : i < Len(s) => s[i + 1].node \in KidsIn(c, s[i].node)
    /\ \A i, j \in 1..Len(s) :
          i < j => s[i].node < s[j].node /\ \A k \in s[i].kids : \A x \in s[j].kids : x < k

(* What is collected is selected, in order, and before what is to be walked. *)
ResultOK(c, s, nodes, result) ==
    /\ result \in Seq(1..Len(c.object))
    /\ \A j \in 1..Len(result) : SelectedIn(c, result[j], nodes)
    /\ \A i, j \in 1..Len(result) : i < j => result[i] < result[j]
    /\ \A j \in 1..Len(result) : \A i \in 1..Len(s) : \A k \in s[i].kids : result[j] < k

ToWalk(c, s, x) == \E i \in 1..Len(s) : \E k \in s[i].kids : k = x \/ k \in AboveIn(c, x)

(* What is selected and not hidden is collected or to be walked. *)
NothingMissed(c, s, nodes, result) ==
    \A x \in 1..Len(c.object) :
        SelectedIn(c, x, nodes) /\ ~HiddenIn(c, x, nodes) => x \in Range(result) \/ ToWalk(c, s, x)

(* A stack with fewer frames, or with fewer kids to walk. *)
Thinner(s, t) ==
    /\ IsSequence(t) /\ Len(t) <= Len(s)
    /\ \A i \in 1..Len(t) :
         /\ t[i] = [node |-> s[i].node, kids |-> t[i].kids, pos |-> s[i].pos]
         /\ t[i].kids \subseteq s[i].kids

LEMMA SequenceLen ==
    ASSUME NEW s, IsSequence(s)
    PROVE  Len(s) \in Nat /\ DOMAIN s = 1..Len(s) /\ (s # <<>> => Len(s) >= 1)
PROOF
<1>1. PICK S : s \in Seq(S)
  BY DEF IsSequence
<1> QED BY <1>1

LEMMA ThinnerOK ==
    ASSUME NEW c, NEW nodes, NEW s, NEW t, WalkStackOK(c, s, nodes), Thinner(s, t), NEW result
    PROVE  /\ WalkStackOK(c, t, nodes)
           /\ ResultOK(c, s, nodes, result) => ResultOK(c, t, nodes, result)
PROOF
<1>1. Len(s) \in Nat /\ Len(t) \in Nat /\ Len(t) <= Len(s)
  BY SequenceLen DEF WalkStackOK, Thinner
<1>2. ASSUME NEW i \in 1..Len(t)
      PROVE  /\ i \in 1..Len(s) /\ t[i].node = s[i].node /\ t[i].pos = s[i].pos
             /\ t[i].kids \subseteq s[i].kids
             /\ t[i] = [node |-> t[i].node, kids |-> t[i].kids, pos |-> t[i].pos]
  <2>1. t[i] = [node |-> s[i].node, kids |-> t[i].kids, pos |-> s[i].pos] /\ t[i].kids \subseteq s[i].kids
    BY DEF Thinner
  <2>2. t[i].node = s[i].node /\ t[i].pos = s[i].pos
    BY <2>1
  <2> QED BY <1>1, <2>1, <2>2
<1>3. \A i \in 1..Len(t) : IsWalkFrame(c, t[i], nodes)
  BY <1>2 DEF WalkStackOK, IsWalkFrame
<1>4. \A i \in 1..Len(t) : i < Len(t) => t[i + 1].node \in KidsIn(c, t[i].node)
  <2> SUFFICES ASSUME NEW i \in 1..Len(t), i < Len(t) PROVE t[i + 1].node \in KidsIn(c, t[i].node)
    OBVIOUS
  <2>1. i + 1 \in 1..Len(t) /\ i < Len(s)
    BY <1>1
  <2> QED BY <1>2, <2>1 DEF WalkStackOK
<1>5. \A i, j \in 1..Len(t) :
          i < j => t[i].node < t[j].node /\ \A k \in t[i].kids : \A x \in t[j].kids : x < k
  BY <1>2 DEF WalkStackOK
<1>6. IsSequence(t)
  BY DEF Thinner
<1>7. ResultOK(c, s, nodes, result) => ResultOK(c, t, nodes, result)
  BY <1>2 DEF ResultOK
<1> QED BY <1>3, <1>4, <1>5, <1>6, <1>7 DEF WalkStackOK

(* The walk goes to n. *)
Meets(c, n, S, pos, nodes) == FitsIn(c, n, KeyIn(c, n), S, nodes[pos])

FrameFor(c, n, S, pos, nodes) ==
    [node |-> n, kids |-> S, pos |-> Descend(pos, Meets(c, n, S, pos, nodes), pos = Len(nodes))]

ResultFor(c, n, S, pos, nodes, result) ==
    IF Meets(c, n, S, pos, nodes) /\ pos = Len(nodes) /\ c.object[n].kind \in c.want
    THEN Append(result, n) ELSE result

(* n comes after what was walked, and before what is to be walked. *)
IsNext(c, s, n) ==
    /\ n \in 1..Len(c.object)
    /\ \A i \in 1..Len(s) : s[i].node < n /\ \A k \in s[i].kids : n < k /\ \A x \in KidsIn(c, n) : x < k
    /\ Len(s) >= 1 => n \in KidsIn(c, s[Len(s)].node)

LEMMA FrameEntered ==
    ASSUME NEW c, IsTree(c), NEW n \in 1..Len(c.object), NEW S \in OnePerKeyIn(c, n),
           NEW nodes, IsSequence(nodes), NEW pos,
           PosOK(c, AboveIn(c, n), HiddenIn(c, n, nodes), pos, nodes)
    PROVE  IsWalkFrame(c, FrameFor(c, n, S, pos, nodes), nodes)
PROOF
<1> DEFINE A == AboveIn(c, n)
           matched == Meets(c, n, S, pos, nodes)
           down == Descend(pos, matched, pos = Len(nodes))
           f == FrameFor(c, n, S, pos, nodes)
           hidden == HiddenIn(c, n, nodes)
<1>1. Len(nodes) \in Nat /\ DOMAIN nodes = 1..Len(nodes)
  BY SequenceLen
<1>2. /\ pos \in 1..Len(nodes) /\ PlacedOn(c, A, pos, nodes)
      /\ ~hidden => \A q \in 1..Len(nodes) : PlacedOn(c, A, q, nodes) => q <= pos
  BY DEF PosOK
<1>3. A \subseteq Int /\ n \in Int /\ \A a \in A : a < n
  <2>1. A \subseteq 1..n - 1
    BY AboveType
  <2> HIDE DEF A
  <2> QED BY <2>1
<1>4. matched => FitsBelowIn(c, n, nodes[pos])
  BY FitsMore DEF Meets
<1>5. \A q \in 1..Len(nodes) : ~hidden /\ FitsBelowIn(c, n, nodes[q]) => FitsIn(c, n, KeyIn(c, n), S, nodes[q])
  BY <1>1, FitsUnhidden
<1> HIDE DEF A, hidden
<1>6. /\ matched /\ pos # Len(nodes) => down = pos + 1
      /\ ~(matched /\ pos # Len(nodes)) => down = pos
  BY DEF Descend
<1> HIDE DEF matched, down
<1>a. pos \in Nat /\ pos >= 1 /\ pos <= Len(nodes)
  <2>1. pos \in 1..Len(nodes)
    BY <1>2
  <2> QED BY <1>1, <2>1
<1>b. down \in Nat /\ down >= pos /\ down <= Len(nodes)
  <2>1. CASE matched /\ pos # Len(nodes)
    <3> DEFINE L == Len(nodes)
    <3>1. down = pos + 1 /\ pos # L
      BY <1>6, <2>1
    <3>2. L \in Nat /\ pos \in Nat /\ pos <= L
      BY <1>1, <1>a
    <3> HIDE DEF L
    <3>3. pos + 1 <= L
      BY <3>1, <3>2
    <3>4. down \in Nat /\ down >= pos /\ down <= L
      BY <3>1, <3>2, <3>3
    <3> QED BY <3>4 DEF L
  <2>2. CASE ~(matched /\ pos # Len(nodes))
    <3>1. down = pos
      BY <1>6, <2>2
    <3> QED BY <1>a, <3>1
  <2> QED BY <2>1, <2>2
<1>7. PosOK(c, A \cup {n}, hidden, down, nodes)
  <2>1. down \in 1..Len(nodes)
    BY <1>1, <1>a, <1>b
  <2>2. PlacedOn(c, A \cup {n}, down, nodes)
    <3>1. CASE matched /\ pos # Len(nodes)
      <4>1. pos \in Nat /\ pos >= 1 /\ down = pos + 1
        BY <1>6, <1>a, <3>1
      <4>2. PlacedOn(c, A \cup {n}, pos + 1, nodes)
        BY <1>2, <1>3, <1>4, <3>1, <4>1, PlacedOneMore
      <4> QED BY <4>1, <4>2
    <3>2. CASE ~(matched /\ pos # Len(nodes))
      <4>1. down = pos
        BY <1>6, <3>2
      <4>2. PlacedOn(c, A \cup {n}, pos, nodes)
        BY <1>2, PlacedWider
      <4> QED BY <4>1, <4>2
    <3> QED BY <3>1, <3>2
  <2>3. ASSUME ~hidden, NEW q \in 1..Len(nodes), PlacedOn(c, A \cup {n}, q, nodes)
        PROVE  q <= down
    <3>1. pos <= down /\ pos \in Nat /\ q \in Nat /\ q >= 1
      BY <1>1, <1>a, <1>b
    <3>2. CASE PlacedOn(c, A, q, nodes)
      <4>1. q <= pos
        BY <1>2, <2>3, <3>2
      <4> QED BY <1>b, <3>1, <4>1
    <3>3. CASE q > 1 /\ PlacedOn(c, A, q - 1, nodes) /\ FitsBelowIn(c, n, nodes[q - 1])
      <4>1. q - 1 \in 1..Len(nodes)
        BY <1>1, <3>3
      <4>2. q - 1 <= pos
        BY <1>2, <2>3, <3>3, <4>1
      <4>3. q - 1 = pos => matched
        BY <1>5, <2>3, <3>3, <4>1 DEF Meets, matched
      <4>4. CASE q - 1 = pos
        <5>1. down = pos + 1
          <6>1. pos # Len(nodes)
            <7> DEFINE L == Len(nodes)
            <7>1. q \in 1..L /\ L \in Nat
              BY <1>1
            <7> HIDE DEF L
            <7>2. pos # L
              BY <3>1, <4>4, <7>1
            <7> QED BY <7>2 DEF L
          <6> QED BY <1>6, <4>3, <4>4, <6>1
        <5> QED BY <3>1, <4>4, <5>1
      <4>5. CASE q - 1 # pos
        BY <1>b, <3>1, <4>2, <4>5
      <4> QED BY <4>4, <4>5
    <3> QED BY <1>3, <2>3, <3>1, <3>2, <3>3, PlacedLast
  <2> QED BY <2>1, <2>2, <2>3 DEF PosOK
<1>8. S \subseteq KidsIn(c, n)
  BY KeptAreKids
<1>9. f = [node |-> n, kids |-> S, pos |-> down]
  BY DEF FrameFor, down, matched
<1> HIDE DEF f
<1>10. f.node = n /\ f.kids = S /\ f.pos = down
  BY <1>9
<1>11. PosOK(c, AboveIn(c, f.node) \cup {f.node}, HiddenIn(c, f.node, nodes), f.pos, nodes)
  BY <1>7, <1>10 DEF A, hidden
<1>12. f = [node |-> f.node, kids |-> f.kids, pos |-> f.pos]
  BY <1>9, <1>10
<1>13. f.node \in 1..Len(c.object) /\ f.kids \subseteq KidsIn(c, f.node)
  BY <1>8, <1>10
<1>14. IsWalkFrame(c, f, nodes)
  BY <1>11, <1>12, <1>13 DEF IsWalkFrame
<1> QED BY <1>14 DEF f

LEMMA StackEntered ==
    ASSUME NEW c, NEW nodes, NEW s, WalkStackOK(c, s, nodes), NEW n, IsNext(c, s, n),
           NEW f, IsWalkFrame(c, f, nodes), f.node = n
    PROVE  WalkStackOK(c, Append(s, f), nodes)
PROOF
<1> DEFINE t == Append(s, f)
<1>1. IsSequence(t)
  BY LongerIsSequence DEF WalkStackOK
<1>2. /\ Len(s) \in Nat /\ Len(t) = Len(s) + 1 /\ t[Len(s) + 1] = f
      /\ \A i \in 1..Len(s) : t[i] = s[i]
  <2>1. PICK Q : s \in Seq(Q)
    BY DEF WalkStackOK, IsSequence
  <2> QED BY <2>1
<1> HIDE DEF t
<1> DEFINE L == Len(s)
<1>3. /\ L \in Nat /\ Len(t) = L + 1 /\ t[L + 1] = f
      /\ \A i \in 1..L : t[i] = s[i]
  BY <1>2
<1>4. /\ \A i \in 1..L : s[i].node < n /\ \A k \in s[i].kids : n < k /\ \A x \in KidsIn(c, n) : x < k
      /\ L >= 1 => n \in KidsIn(c, s[L].node)
  BY DEF IsNext
<1>5. f.kids \subseteq KidsIn(c, n)
  BY DEF IsWalkFrame
<1>6. /\ \A i \in 1..L : IsWalkFrame(c, s[i], nodes)
      /\ \A i \in 1..L : i < L => s[i + 1].node \in KidsIn(c, s[i].node)
      /\ \A i, j \in 1..L :
            i < j => s[i].node < s[j].node /\ \A k \in s[i].kids : \A x \in s[j].kids : x < k
  BY DEF WalkStackOK
<1> HIDE DEF L
<1>7. \A i \in 1..L + 1 : i = L + 1 \/ i \in 1..L
  BY <1>3
<1>8. \A i \in 1..L + 1 : IsWalkFrame(c, t[i], nodes)
  BY <1>3, <1>6, <1>7
<1>9. ASSUME NEW i \in 1..L + 1, i < L + 1
      PROVE  t[i + 1].node \in KidsIn(c, t[i].node)
  <2>1. i \in 1..L
    BY <1>3, <1>7, <1>9
  <2>2. CASE i = L
    BY <1>3, <1>4, <2>1, <2>2
  <2>3. CASE i # L
    <3>1. i + 1 \in 1..L /\ i < L
      BY <1>3, <2>1, <2>3
    <3> QED BY <1>3, <1>6, <2>1, <3>1
  <2> QED BY <2>2, <2>3
<1>10. ASSUME NEW i \in 1..L + 1, NEW j \in 1..L + 1, i < j
       PROVE  t[i].node < t[j].node /\ \A k \in t[i].kids : \A x \in t[j].kids : x < k
  <2>1. i \in 1..L
    BY <1>3, <1>10
  <2>2. CASE j = L + 1
    BY <1>3, <1>4, <1>5, <2>1, <2>2
  <2>3. CASE j \in 1..L
    BY <1>3, <1>6, <1>10, <2>1, <2>3
  <2> QED BY <1>7, <2>2, <2>3
<1>11. WalkStackOK(c, t, nodes)
  BY <1>1, <1>3, <1>8, <1>9, <1>10 DEF WalkStackOK
<1> QED BY <1>11 DEF t

LEMMA ResultKept ==
    ASSUME NEW c, IsTree(c), NEW nodes, NEW s, IsSequence(s), NEW n, IsNext(c, s, n),
           NEW f, f.kids \subseteq KidsIn(c, n),
           NEW result, ResultOK(c, s, nodes, result),
           \A j \in 1..Len(result) : result[j] < n
    PROVE  /\ ResultOK(c, Append(s, f), nodes, result)
           /\ SelectedIn(c, n, nodes) => ResultOK(c, Append(s, f), nodes, Append(result, n))
PROOF
<1> DEFINE t == Append(s, f)  N == 1..Len(c.object)  r == Append(result, n)
<1>1. /\ Len(s) \in Nat /\ Len(t) = Len(s) + 1 /\ t[Len(s) + 1] = f
      /\ \A i \in 1..Len(s) : t[i] = s[i]
  <2>1. PICK Q : s \in Seq(Q)
    BY DEF IsSequence
  <2> QED BY <2>1
<1> HIDE DEF t
<1>2. n \in N /\ n \in Int /\ \A x \in N : x \in Int
  BY DEF IsNext, IsTree
<1>3. \A k \in KidsIn(c, n) : n < k /\ k \in Int
  BY <1>2, OneHolder
<1>4. \A i \in 1..Len(t) : \A k \in t[i].kids : n < k /\ (t[i] = f \/ \E h \in 1..Len(s) : t[i] = s[h])
  <2> DEFINE L == Len(s)
  <2>1. /\ L \in Nat /\ Len(t) = L + 1 /\ t[L + 1] = f
        /\ \A i \in 1..L : t[i] = s[i]
    BY <1>1
  <2>2. \A i \in 1..L : \A k \in s[i].kids : n < k
    BY DEF IsNext
  <2> HIDE DEF L
  <2>3. \A i \in 1..L + 1 : i = L + 1 \/ i \in 1..L
    BY <2>1
  <2>4. \A i \in 1..L + 1 : t[i] = f \/ \E h \in 1..L : t[i] = s[h]
    BY <2>1, <2>3
  <2>5. \A i \in 1..L + 1 : \A k \in t[i].kids : n < k
    BY <1>3, <2>2, <2>4
  <2> QED BY <2>1, <2>4, <2>5 DEF L
<1>5. /\ result \in Seq(N)
      /\ \A j \in 1..Len(result) : SelectedIn(c, result[j], nodes)
      /\ \A i, j \in 1..Len(result) : i < j => result[i] < result[j]
      /\ \A j \in 1..Len(result) : \A i \in 1..Len(s) : \A k \in s[i].kids : result[j] < k
  BY DEF ResultOK
<1> HIDE DEF N
<1>6. \A j \in 1..Len(result) : result[j] \in N /\ result[j] \in Int
  <2>1. result \in Seq(N)
    BY <1>5
  <2>2. \A j \in 1..Len(result) : result[j] \in N
    BY <2>1
  <2> QED BY <1>2, <2>2
<1>7. ASSUME NEW j \in 1..Len(result), NEW i \in 1..Len(t), NEW k \in t[i].kids PROVE result[j] < k
  <2>1. CASE t[i] = f
    <3>1. n < k /\ k \in Int /\ result[j] < n /\ result[j] \in Int /\ n \in Int
      BY <1>2, <1>3, <1>6, <2>1
    <3> QED BY <3>1
  <2>2. CASE \E h \in 1..Len(s) : t[i] = s[h]
    BY <1>5, <2>2
  <2> QED BY <1>4, <2>1, <2>2
<1>8. ResultOK(c, t, nodes, result)
  BY <1>5, <1>7 DEF ResultOK, N
<1>9. ASSUME SelectedIn(c, n, nodes) PROVE ResultOK(c, t, nodes, r)
  <2> DEFINE R == Len(result)
  <2>1. /\ r \in Seq(N) /\ Len(r) = R + 1 /\ r[R + 1] = n /\ R \in Nat
        /\ \A j \in 1..R : r[j] = result[j]
    BY <1>2, <1>5
  <2>2. \A j \in 1..R : result[j] < n
    OBVIOUS
  <2>3. /\ \A j \in 1..R : SelectedIn(c, result[j], nodes)
        /\ \A i, j \in 1..R : i < j => result[i] < result[j]
        /\ \A j \in 1..R : \A i \in 1..Len(t) : \A k \in t[i].kids : result[j] < k
    BY <1>5, <1>7
  <2> HIDE DEF r, R
  <2>4. \A j \in 1..R + 1 : j = R + 1 \/ j \in 1..R
    BY <2>1
  <2>5. \A j \in 1..R + 1 : SelectedIn(c, r[j], nodes)
    BY <1>9, <2>1, <2>3, <2>4
  <2>6. ASSUME NEW i \in 1..R + 1, NEW j \in 1..R + 1, i < j PROVE r[i] < r[j]
    <3>1. i \in 1..R
      BY <2>1, <2>6
    <3>2. CASE j = R + 1
      BY <2>1, <2>2, <3>1, <3>2
    <3>3. CASE j \in 1..R
      BY <2>1, <2>3, <2>6, <3>1, <3>3
    <3> QED BY <2>4, <3>2, <3>3
  <2>7. \A j \in 1..R + 1 : \A i \in 1..Len(t) : \A k \in t[i].kids : r[j] < k
    BY <1>4, <2>1, <2>3, <2>4
  <2> QED BY <2>1, <2>5, <2>6, <2>7 DEF ResultOK, N
<1> QED BY <1>8, <1>9 DEF t

LEMMA SelectedMeets ==
    ASSUME NEW c, IsTree(c), NEW n \in 1..Len(c.object), NEW S \in OnePerKeyIn(c, n),
           NEW nodes, IsSequence(nodes), nodes # <<>>, NEW pos,
           PosOK(c, AboveIn(c, n), HiddenIn(c, n, nodes), pos, nodes)
    PROVE  /\ Meets(c, n, S, pos, nodes) /\ pos = Len(nodes) => LedToIn(c, n, nodes)
           /\ Meets(c, n, S, pos, nodes) /\ pos = Len(nodes) /\ c.object[n].kind \in c.want
              => SelectedIn(c, n, nodes)
           /\ SelectedIn(c, n, nodes) /\ ~HiddenIn(c, n, nodes)
              => Meets(c, n, S, pos, nodes) /\ pos = Len(nodes) /\ c.object[n].kind \in c.want
PROOF
<1> DEFINE L == Len(nodes)
<1>1. L \in Nat /\ L >= 1 /\ DOMAIN nodes = 1..L /\ Last(nodes) = nodes[L]
  BY SequenceLen DEF Last
<1>2. /\ pos \in 1..L /\ PlacedOn(c, AboveIn(c, n), pos, nodes)
      /\ ~HiddenIn(c, n, nodes) => \A q \in 1..L : PlacedOn(c, AboveIn(c, n), q, nodes) => q <= pos
  BY DEF PosOK
<1>3. LedToIn(c, n, nodes) <=> FitsBelowIn(c, n, nodes[L]) /\ PlacedOn(c, AboveIn(c, n), L, nodes)
  BY <1>1 DEF LedToIn
<1>4. SelectedIn(c, n, nodes) <=> c.object[n].kind \in c.want /\ LedToIn(c, n, nodes)
  BY DEF SelectedIn
<1> HIDE DEF L
<1>5. ASSUME Meets(c, n, S, pos, nodes), pos = L
      PROVE  LedToIn(c, n, nodes)
  <2>1. FitsBelowIn(c, n, nodes[L])
    BY <1>5, FitsMore DEF Meets
  <2> QED BY <1>2, <1>3, <1>5, <2>1
<1>6. ASSUME SelectedIn(c, n, nodes), ~HiddenIn(c, n, nodes)
      PROVE  Meets(c, n, S, pos, nodes) /\ pos = L /\ c.object[n].kind \in c.want
  <2>1. L \in 1..L
    BY <1>1
  <2>2. L <= pos
    BY <1>2, <1>3, <1>4, <1>6, <2>1
  <2>3. pos = L
    BY <1>1, <1>2, <2>2
  <2>4. FitsIn(c, n, KeyIn(c, n), S, nodes[L])
    BY <1>1, <1>3, <1>4, <1>6, <2>1, FitsUnhidden
  <2> QED BY <1>4, <1>6, <2>3, <2>4 DEF Meets
<1> QED BY <1>4, <1>5, <1>6 DEF L

(* The walk of n has what was selected at n or can still be found below. *)
LEMMA NothingMissedAt ==
    ASSUME NEW c, IsTree(c), NEW nodes, NEW s, IsSequence(s), NEW n \in 1..Len(c.object),
           NEW S \in OnePerKeyIn(c, n), NEW f, f.kids = S, NEW result, NEW more,
           Range(result) \subseteq Range(more),
           SelectedIn(c, n, nodes) /\ ~HiddenIn(c, n, nodes) => n \in Range(more),
           \A x \in 1..Len(c.object) : SelectedIn(c, x, nodes) /\ ~HiddenIn(c, x, nodes)
              => x \in Range(result) \/ x = n \/ n \in AboveIn(c, x) \/ ToWalk(c, s, x)
    PROVE  NothingMissed(c, Append(s, f), nodes, more)
PROOF
<1> DEFINE t == Append(s, f)
<1>1. /\ Len(s) \in Nat /\ Len(t) = Len(s) + 1 /\ t[Len(s) + 1] = f
      /\ \A i \in 1..Len(s) : t[i] = s[i]
  <2>1. PICK Q : s \in Seq(Q)
    BY DEF IsSequence
  <2> QED BY <2>1
<1> HIDE DEF t
<1>2. /\ Len(s) + 1 \in 1..Len(t) /\ \A i \in 1..Len(s) : i \in 1..Len(t)
  BY <1>1
<1> SUFFICES ASSUME NEW x \in 1..Len(c.object), SelectedIn(c, x, nodes), ~HiddenIn(c, x, nodes)
             PROVE  x \in Range(more) \/ ToWalk(c, t, x)
  BY DEF NothingMissed, t
<1>3. CASE x \in Range(result) \/ x = n
  BY <1>3
<1>4. CASE n \in AboveIn(c, x)
  <2>1. \E k \in S : k = x \/ k \in AboveIn(c, x)
    BY <1>4, UnhiddenKid
  <2> QED BY <1>1, <1>2, <2>1 DEF ToWalk
<1>5. CASE ToWalk(c, s, x)
  BY <1>1, <1>2, <1>5 DEF ToWalk
<1> QED BY <1>3, <1>4, <1>5

(* The walk enters n. *)
LEMMA Entered ==
    ASSUME NEW c, IsTree(c), NEW nodes, IsSequence(nodes), nodes # <<>>,
           NEW s, WalkStackOK(c, s, nodes), NEW n, IsNext(c, s, n), NEW S \in OnePerKeyIn(c, n),
           NEW pos, PosOK(c, AboveIn(c, n), HiddenIn(c, n, nodes), pos, nodes),
           NEW result, ResultOK(c, s, nodes, result), \A j \in 1..Len(result) : result[j] < n,
           \A x \in 1..Len(c.object) : SelectedIn(c, x, nodes) /\ ~HiddenIn(c, x, nodes)
              => x \in Range(result) \/ x = n \/ n \in AboveIn(c, x) \/ ToWalk(c, s, x)
    PROVE  LET t == Append(s, FrameFor(c, n, S, pos, nodes))
               more == ResultFor(c, n, S, pos, nodes, result)
           IN  WalkStackOK(c, t, nodes) /\ ResultOK(c, t, nodes, more) /\ NothingMissed(c, t, nodes, more)
PROOF
<1> DEFINE f == FrameFor(c, n, S, pos, nodes)
           more == ResultFor(c, n, S, pos, nodes, result)
           found == Meets(c, n, S, pos, nodes) /\ pos = Len(nodes) /\ c.object[n].kind \in c.want
<1>1. n \in 1..Len(c.object) /\ IsSequence(s)
  BY DEF IsNext, WalkStackOK
<1>2. f.node = n /\ f.kids = S
  BY DEF FrameFor
<1>3. IsWalkFrame(c, f, nodes)
  BY <1>1, FrameEntered
<1>4. /\ found => more = Append(result, n)
      /\ ~found => more = result
  BY DEF ResultFor
<1>5. /\ found => SelectedIn(c, n, nodes)
      /\ SelectedIn(c, n, nodes) /\ ~HiddenIn(c, n, nodes) => found
  BY <1>1, SelectedMeets
<1>6. result \in Seq(1..Len(c.object))
  BY DEF ResultOK
<1> HIDE DEF f, more, found
<1>7. WalkStackOK(c, Append(s, f), nodes)
  BY <1>2, <1>3, StackEntered
<1>8. S \subseteq KidsIn(c, n)
  BY KeptAreKids
<1>9. ResultOK(c, Append(s, f), nodes, more)
  <2>1. /\ ResultOK(c, Append(s, f), nodes, result)
        /\ SelectedIn(c, n, nodes) => ResultOK(c, Append(s, f), nodes, Append(result, n))
    BY <1>1, <1>2, <1>8, ResultKept
  <2> QED BY <1>4, <1>5, <2>1
<1>10. Range(result) \subseteq Range(more) /\ (found => n \in Range(more))
  <2> DEFINE N == 1..Len(c.object)  r == Append(result, n)
  <2>1. result \in Seq(N) /\ n \in N
    BY <1>1, <1>6
  <2> HIDE DEF N
  <2>2. Range(r) = Range(result) \cup {n}
    <3>1. /\ Len(result) \in Nat /\ DOMAIN result = 1..Len(result) /\ DOMAIN r = 1..Len(result) + 1
          /\ r[Len(result) + 1] = n /\ \A j \in 1..Len(result) : r[j] = result[j]
      BY <2>1
    <3> HIDE DEF r
    <3>2. \A j \in 1..Len(result) + 1 : j = Len(result) + 1 \/ j \in 1..Len(result)
      BY <3>1
    <3>3. Len(result) + 1 \in 1..Len(result) + 1 /\ \A j \in 1..Len(result) : j \in 1..Len(result) + 1
      BY <3>1
    <3> QED BY <3>1, <3>2, <3>3 DEF Range
  <2> QED BY <1>4, <2>2
<1>11. NothingMissed(c, Append(s, f), nodes, more)
  BY <1>1, <1>2, <1>5, <1>10, NothingMissedAt
<1> QED BY <1>7, <1>9, <1>11 DEF f, more

(* The walk takes the least kid that is left, or leaves a value without any. *)
LEMMA LeastKid ==
    ASSUME NEW K, K \subseteq Nat, K # {}
    PROVE  Min(K) \in K /\ \A k \in K : Min(K) <= k
PROOF
<1>1. \E x \in K : \A y \in K : x <= y
  BY LeastNumber
<1> QED BY <1>1 DEF Min

Taken(s) == [s EXCEPT ![Len(s)].kids = s[Len(s)].kids \ {Min(s[Len(s)].kids)}]

LEMMA TakenIs ==
    ASSUME NEW s, IsSequence(s), s # <<>>, NEW f, s[Len(s)] = [node |-> f.node, kids |-> f.kids, pos |-> f.pos]
    PROVE  /\ Len(Taken(s)) = Len(s) /\ Len(s) \in Nat /\ Len(s) >= 1 /\ IsSequence(Taken(s))
           /\ \A i \in 1..Len(s) : i # Len(s) => Taken(s)[i] = s[i]
           /\ Taken(s)[Len(s)] = [node |-> f.node, kids |-> f.kids \ {Min(f.kids)}, pos |-> f.pos]
PROOF
<1> DEFINE d == Len(s)
           g == [node |-> f.node, kids |-> f.kids \ {Min(f.kids)}, pos |-> f.pos]
           h == [node |-> f.node, kids |-> f.kids, pos |-> f.pos]
<1>1. PICK Q : s \in Seq(Q)
  BY DEF IsSequence
<1>2. d \in Nat /\ d >= 1 /\ s \in [1..d -> Q]
  BY <1>1
<1>3. s[d] = h /\ h.kids = f.kids
  OBVIOUS
<1>4. Taken(s) = [s EXCEPT ![d] = [h EXCEPT !.kids = f.kids \ {Min(f.kids)}]]
  <2> HIDE DEF h
  <2> QED BY <1>3 DEF Taken
<1>5. [h EXCEPT !.kids = f.kids \ {Min(f.kids)}] = g
  <2> DEFINE K == f.kids \ {Min(f.kids)}
  <2> HIDE DEF K
  <2>1. [[node |-> f.node, kids |-> f.kids, pos |-> f.pos] EXCEPT !.kids = K]
          = [node |-> f.node, kids |-> K, pos |-> f.pos]
    OBVIOUS
  <2> QED BY <2>1 DEF K
<1>6. Taken(s) = [s EXCEPT ![d] = g]
  BY <1>4, <1>5
<1> HIDE DEF g, h
<1> DEFINE t == [s EXCEPT ![d] = g]
<1>7. IsSequence(t)
  BY ChangedIsSequence
<1>8. DOMAIN t = 1..d /\ t[d] = g /\ \A i \in 1..d : i # d => t[i] = s[i]
  BY <1>2
<1> HIDE DEF t
<1>9. Len(t) = d
  <2> DEFINE m == Len(t)
  <2>1. m \in Nat /\ 1..m = 1..d
    BY <1>7, <1>8, SequenceLen
  <2>2. d \in Nat /\ d >= 1
    BY <1>2
  <2> HIDE DEF d, m
  <2>3. d \in 1..m
    <3>1. d \in 1..d
      BY <2>2
    <3> QED BY <2>1, <3>1
  <2>4. d <= m /\ m >= 1
    BY <2>1, <2>2, <2>3
  <2>5. m \in 1..d
    <3>1. m \in 1..m
      BY <2>1, <2>4
    <3> QED BY <2>1, <3>1
  <2>6. m = d
    BY <2>1, <2>2, <2>4, <2>5
  <2> QED BY <2>6 DEF m
<1> QED BY <1>2, <1>6, <1>7, <1>8, <1>9 DEF t, g

LEMMA KidTaken ==
    ASSUME NEW c, IsTree(c), NEW nodes, NEW s, WalkStackOK(c, s, nodes), s # <<>>,
           s[Len(s)].kids # {}, NEW result, ResultOK(c, s, nodes, result),
           NothingMissed(c, s, nodes, result)
    PROVE  LET n == Min(s[Len(s)].kids)
           IN  /\ WalkStackOK(c, Taken(s), nodes) /\ IsNext(c, Taken(s), n) /\ n # 1
               /\ ResultOK(c, Taken(s), nodes, result) /\ \A j \in 1..Len(result) : result[j] < n
               /\ PosOK(c, AboveIn(c, n), HiddenIn(c, n, nodes), s[Len(s)].pos, nodes)
               /\ \A x \in 1..Len(c.object) : SelectedIn(c, x, nodes) /\ ~HiddenIn(c, x, nodes)
                     => x \in Range(result) \/ x = n \/ n \in AboveIn(c, x) \/ ToWalk(c, Taken(s), x)
PROOF
<1> DEFINE d == Len(s)  f == s[d]  n == Min(f.kids)  t == Taken(s)  N == Len(c.object)
<1>1. /\ IsSequence(s) /\ d \in Nat /\ d >= 1
      /\ \A i \in 1..d : IsWalkFrame(c, s[i], nodes)
      /\ \A i \in 1..d : i < d => s[i + 1].node \in KidsIn(c, s[i].node)
      /\ \A i, j \in 1..d :
            i < j => s[i].node < s[j].node /\ \A k \in s[i].kids : \A x \in s[j].kids : x < k
  BY SequenceLen DEF WalkStackOK
<1>2. d \in 1..d
  BY <1>1
<1>3. /\ f = [node |-> f.node, kids |-> f.kids, pos |-> f.pos]
      /\ f.node \in 1..N /\ f.kids \subseteq KidsIn(c, f.node)
      /\ PosOK(c, AboveIn(c, f.node) \cup {f.node}, HiddenIn(c, f.node, nodes), f.pos, nodes)
  <2>1. IsWalkFrame(c, f, nodes)
    BY <1>1, <1>2
  <2> QED BY <2>1 DEF IsWalkFrame
<1>4. \A i \in 1..d : s[i].node \in 1..N /\ s[i].kids \subseteq KidsIn(c, s[i].node)
  BY <1>1 DEF IsWalkFrame
<1>5. N \in Nat /\ \A m \in 1..N : \A k \in KidsIn(c, m) : k \in 1..N /\ m < k
  BY OneHolder DEF IsTree
<1>6. n \in f.kids /\ \A k \in f.kids : n <= k
  <2>1. f.kids \subseteq Nat /\ f.kids # {}
    BY <1>3, <1>5
  <2> HIDE DEF f
  <2> QED BY <2>1, LeastKid
<1>7. /\ Len(t) = d /\ IsSequence(t)
      /\ \A i \in 1..d : i # d => t[i] = s[i]
      /\ t[d] = [node |-> f.node, kids |-> f.kids \ {n}, pos |-> f.pos]
  <2>1. s[Len(s)] = [node |-> f.node, kids |-> f.kids, pos |-> f.pos]
    BY <1>3
  <2> HIDE DEF f
  <2> QED BY <1>1, <2>1, TakenIs
<1>8. n \in KidsIn(c, f.node) /\ n \in 1..N /\ f.node < n
  BY <1>3, <1>5, <1>6
<1> HIDE DEF t, n, f, d
<1>9. t[d].node = f.node /\ t[d].kids = f.kids \ {n} /\ t[d].pos = f.pos
  BY <1>7
<1>10. Thinner(s, t)
  <2> SUFFICES ASSUME NEW i \in 1..d
               PROVE  /\ t[i] = [node |-> s[i].node, kids |-> t[i].kids, pos |-> s[i].pos]
                      /\ t[i].kids \subseteq s[i].kids
    BY <1>1, <1>7 DEF Thinner, d
  <2>1. CASE i = d
    BY <1>7, <1>9, <2>1 DEF f
  <2>2. CASE i # d
    BY <1>1, <1>7, <2>2 DEF IsWalkFrame
  <2> QED BY <2>1, <2>2
<1>11. WalkStackOK(c, t, nodes) /\ ResultOK(c, t, nodes, result)
  BY <1>10, ThinnerOK
<1>12. IsNext(c, t, n)
  <2>1. \A k \in t[d].kids : n < k /\ \A x \in KidsIn(c, n) : x < k
    <3> SUFFICES ASSUME NEW k \in t[d].kids PROVE n < k /\ \A x \in KidsIn(c, n) : x < k
      OBVIOUS
    <3>1. k \in f.kids /\ k # n /\ k \in KidsIn(c, f.node) /\ k \in 1..N
      BY <1>3, <1>5, <1>9
    <3>2. n < k
      BY <1>5, <1>6, <1>8, <3>1
    <3>3. n \in n..k - 1
      BY <1>5, <1>8, <3>1, <3>2
    <3> QED BY <1>3, <1>8, <3>1, <3>2, <3>3 DEF IsTree
  <2>2. ASSUME NEW i \in 1..d, i # d
        PROVE  s[i].node < n /\ \A k \in s[i].kids : n < k /\ \A x \in KidsIn(c, n) : x < k
    <3>1. i < d /\ i + 1 \in 1..d
      BY <1>1, <2>2
    <3>2. s[i].node < f.node /\ \A k \in s[i].kids : n < k
      BY <1>1, <1>2, <1>6, <3>1 DEF f
    <3>3. s[i].node \in 1..N /\ s[i].node < n
      BY <1>3, <1>4, <1>5, <1>8, <3>2
    <3>4. s[i + 1].node \in KidsIn(c, s[i].node) /\ s[i + 1].node \in 1..N
      BY <1>1, <1>4, <3>1
    <3>5. s[i + 1].node <= f.node
      <4>1. i + 1 = d \/ i + 1 < d
        BY <1>1, <3>1
      <4>2. CASE i + 1 = d
        BY <1>5, <3>4, <4>2 DEF f
      <4>3. CASE i + 1 < d
        BY <1>1, <1>2, <1>3, <1>5, <3>1, <3>4, <4>3 DEF f
      <4> QED BY <4>1, <4>2, <4>3
    <3>6. ASSUME NEW k \in s[i].kids PROVE n < k /\ \A x \in KidsIn(c, n) : x < k
      <4>1. n < k /\ k \in KidsIn(c, s[i].node) /\ k \in 1..N
        BY <1>4, <1>5, <3>2, <3>6
      <4>2. n \in s[i + 1].node..k - 1
        BY <1>3, <1>5, <1>8, <3>4, <3>5, <4>1
      <4>3. \A p, q \in KidsIn(c, s[i].node) : \A m \in p..q - 1 : \A x \in KidsIn(c, m) : x < q
        BY <3>3 DEF IsTree, N
      <4> QED BY <3>4, <4>1, <4>2, <4>3
    <3> QED BY <3>3, <3>6
  <2>3. \A i \in 1..Len(t) : t[i].node < n /\ \A k \in t[i].kids : n < k /\ \A x \in KidsIn(c, n) : x < k
    BY <1>7, <1>8, <1>9, <2>1, <2>2
  <2>4. n \in KidsIn(c, t[Len(t)].node)
    BY <1>7, <1>8, <1>9
  <2> QED BY <1>8, <2>3, <2>4 DEF IsNext, N
<1>13. n # 1
  BY <1>3, <1>5, <1>8
<1>14. \A j \in 1..Len(result) : result[j] < n
  BY <1>2, <1>6 DEF ResultOK, d, f
<1>15. PosOK(c, AboveIn(c, n), HiddenIn(c, n, nodes), f.pos, nodes)
  <2>1. AboveIn(c, n) = AboveIn(c, f.node) \cup {f.node}
    BY <1>3, <1>8, AboveIs DEF N
  <2>2. HiddenIn(c, f.node, nodes) => HiddenIn(c, n, nodes)
    BY <1>3, <1>8, HiddenBelow DEF N
  <2> QED BY <1>3, <2>1, <2>2 DEF PosOK
<1>16. ASSUME NEW x \in 1..Len(c.object), SelectedIn(c, x, nodes), ~HiddenIn(c, x, nodes)
       PROVE  x \in Range(result) \/ x = n \/ n \in AboveIn(c, x) \/ ToWalk(c, t, x)
  <2>1. x \in Range(result) \/ ToWalk(c, s, x)
    BY <1>16 DEF NothingMissed
  <2>2. CASE ToWalk(c, s, x)
    <3>a. PICK i \in 1..d : \E k \in s[i].kids : k = x \/ k \in AboveIn(c, x)
      BY <2>2 DEF ToWalk, d
    <3>1. PICK k \in s[i].kids : k = x \/ k \in AboveIn(c, x)
      BY <3>a
    <3>2. CASE i = d
      <4>1. k \in f.kids
        BY <3>2, <3>1 DEF f
      <4>2. k = n \/ k \in t[d].kids
        BY <1>9, <4>1
      <4> QED BY <1>2, <1>7, <3>1, <4>2 DEF ToWalk
    <3>3. CASE i # d
      BY <1>7, <3>1, <3>3 DEF ToWalk
    <3> QED BY <3>2, <3>3
  <2> QED BY <2>1, <2>2
<1> QED BY <1>11, <1>12, <1>13, <1>14, <1>15, <1>16 DEF t, n, f, d

LEMMA Left ==
    ASSUME NEW c, NEW nodes, NEW s, WalkStackOK(c, s, nodes), s # <<>>, s[Len(s)].kids = {},
           NEW result, ResultOK(c, s, nodes, result), NothingMissed(c, s, nodes, result)
    PROVE  /\ WalkStackOK(c, Front(s), nodes) /\ ResultOK(c, Front(s), nodes, result)
           /\ NothingMissed(c, Front(s), nodes, result)
           /\ Len(Front(s)) = Len(s) - 1
PROOF
<1> DEFINE d == Len(s)  t == Front(s)
<1>1. PICK Q : s \in Seq(Q)
  BY DEF WalkStackOK, IsSequence
<1>2. d \in Nat /\ d >= 1
  BY <1>1
<1>3. t \in Seq(Q) /\ Len(t) = d - 1 /\ \A i \in 1..d - 1 : t[i] = s[i]
  <2>1. t = SubSeq(s, 1, d - 1) /\ 1 \in Int /\ d - 1 \in Int /\ \A i \in 1..d - 1 : s[i] \in Q
    BY <1>1, <1>2 DEF Front
  <2>2. t \in Seq(Q) /\ Len(t) = (IF 1 <= d - 1 THEN ((d - 1) - 1) + 1 ELSE 0)
        /\ \A i \in 1..((d - 1) - 1) + 1 : t[i] = s[(1 + i) - 1]
    BY <1>1, <1>2, <2>1, SubSeqProperties
  <2> HIDE DEF t, d
  <2>3. Len(t) = d - 1 /\ ((d - 1) - 1) + 1 = d - 1
    BY <1>2, <2>2
  <2>4. \A i \in 1..d - 1 : (1 + i) - 1 = i
    BY <1>2
  <2> QED BY <2>2, <2>3, <2>4
<1>4. IsSequence(t)
  BY <1>3 DEF IsSequence
<1> HIDE DEF t
<1>5. Thinner(s, t)
  <2>1. \A i \in 1..Len(s) : s[i] = [node |-> s[i].node, kids |-> s[i].kids, pos |-> s[i].pos]
    BY DEF WalkStackOK, IsWalkFrame
  <2>2. \A i \in 1..d - 1 : i \in 1..d
    BY <1>2
  <2>3. d - 1 <= d
    BY <1>2
  <2> QED BY <1>3, <1>4, <2>1, <2>2, <2>3 DEF Thinner
<1>6. WalkStackOK(c, t, nodes) /\ ResultOK(c, t, nodes, result)
  BY <1>5, ThinnerOK
<1>7. ASSUME NEW x, ToWalk(c, s, x) PROVE ToWalk(c, t, x)
  <2>a. PICK i \in 1..d : \E k \in s[i].kids : k = x \/ k \in AboveIn(c, x)
    BY <1>7 DEF ToWalk
  <2>1. PICK k \in s[i].kids : k = x \/ k \in AboveIn(c, x)
    BY <2>a
  <2>2. i # d
    BY <2>1
  <2> HIDE DEF d
  <2>3. i \in 1..d - 1
    BY <1>2, <2>1, <2>2
  <2> QED BY <1>3, <2>1, <2>3 DEF ToWalk
<1>8. NothingMissed(c, t, nodes, result)
  BY <1>7 DEF NothingMissed
<1> QED BY <1>3, <1>6, <1>8 DEF t

-----------------------------------------------------------------------------
(* The values that are to be distinct: of each the first. *)
WithNewIn(c, seen, n) ==
    IF \E i \in DOMAIN seen : ValueIn(c, seen[i]) = ValueIn(c, n) THEN seen ELSE Append(seen, n)

SeenOf(c, result, n, f) ==
    f = [k \in 0..n |-> IF k = 0 THEN <<>> ELSE WithNewIn(c, f[k - 1], result[k])]

LEMMA SeenExists ==
    ASSUME NEW c, NEW result, NEW n \in Nat
    PROVE  \E f : SeenOf(c, result, n, f)
PROOF
<1> DEFINE T == {m \in 0..n : \E f : SeenOf(c, result, m, f)}
<1>1. 0 \in T
  <2> DEFINE g == [k \in 0..0 |-> <<>>]
  <2>1. SeenOf(c, result, 0, g)
    BY DEF SeenOf
  <2> QED BY <2>1
<1>2. ASSUME NEW m \in 1..n, m - 1 \in T PROVE m \in T
  <2>1. PICK f : SeenOf(c, result, m - 1, f)
    BY <1>2
  <2> DEFINE g == [k \in 0..m |-> IF k < m THEN f[k] ELSE WithNewIn(c, f[m - 1], result[m])]
  <2>2. ASSUME NEW k \in 0..m
        PROVE  g[k] = IF k = 0 THEN <<>> ELSE WithNewIn(c, g[k - 1], result[k])
    <3>1. k < m => f[k] = IF k = 0 THEN <<>> ELSE WithNewIn(c, f[k - 1], result[k])
      BY <2>1 DEF SeenOf
    <3>2. k # 0 => g[k - 1] = f[k - 1]
      OBVIOUS
    <3> QED BY <3>1, <3>2
  <2>3. SeenOf(c, result, m, g)
    BY <2>2 DEF SeenOf
  <2> QED BY <2>3
<1>3. \A m \in 0..n : m \in T
  <2> HIDE DEF T
  <2> QED BY <1>1, <1>2, StretchInduction
<1> QED BY <1>3

(* a has of the first k results every value once, where it first is. *)
Firsts(c, result, k, a) ==
    /\ a \in Seq(Int)
    /\ \A j \in 1..Len(a) : \E i \in 1..k : a[j] = result[i]
    /\ \A i, j \in 1..Len(a) : i < j => a[i] < a[j] /\ ValueIn(c, a[i]) # ValueIn(c, a[j])
    /\ \A i \in 1..k : \E j \in 1..Len(a) : a[j] <= result[i] /\ ValueIn(c, a[j]) = ValueIn(c, result[i])

LEMMA FirstsNext ==
    ASSUME NEW c, NEW result \in Seq(Int), NEW k \in 1..Len(result),
           \A i, j \in 1..Len(result) : i < j => result[i] < result[j],
           NEW a, Firsts(c, result, k - 1, a)
    PROVE  Firsts(c, result, k, WithNewIn(c, a, result[k]))
PROOF
<1> DEFINE n == result[k]  L == Len(a)
<1>1. /\ a \in Seq(Int)
      /\ \A j \in 1..L : \E i \in 1..k - 1 : a[j] = result[i]
      /\ \A i, j \in 1..L : i < j => a[i] < a[j] /\ ValueIn(c, a[i]) # ValueIn(c, a[j])
      /\ \A i \in 1..k - 1 : \E j \in 1..L : a[j] <= result[i] /\ ValueIn(c, a[j]) = ValueIn(c, result[i])
  BY DEF Firsts
<1>2. /\ L \in Nat /\ DOMAIN a = 1..L /\ \A j \in 1..L : a[j] \in Int
      /\ n \in Int /\ \A i \in 1..k : i \in 1..k - 1 \/ i = k
      /\ \A i \in 1..k - 1 : i \in 1..k /\ result[i] < n
      /\ k \in 1..k
  <2>1. L \in Nat /\ DOMAIN a = 1..L /\ \A j \in 1..L : a[j] \in Int
    BY <1>1
  <2>2. n \in Int /\ \A i \in 1..k : i \in 1..k - 1 \/ i = k
    OBVIOUS
  <2>3. k \in 1..k /\ \A i \in 1..k - 1 : i \in 1..k /\ i \in 1..Len(result) /\ i < k
    OBVIOUS
  <2> QED BY <2>1, <2>2, <2>3
<1>3. \A j \in 1..L : a[j] < n
  BY <1>1, <1>2
<1> HIDE DEF n
<1>4. CASE \E j \in 1..L : ValueIn(c, a[j]) = ValueIn(c, n)
  <2>1. WithNewIn(c, a, n) = a
    BY <1>2, <1>4 DEF WithNewIn
  <2>2. \E j \in 1..L : a[j] <= n /\ ValueIn(c, a[j]) = ValueIn(c, n)
    BY <1>2, <1>3, <1>4
  <2>3. \A i \in 1..k : \E j \in 1..L : a[j] <= result[i] /\ ValueIn(c, a[j]) = ValueIn(c, result[i])
    <3> SUFFICES ASSUME NEW i \in 1..k
                 PROVE  \E j \in 1..L : a[j] <= result[i] /\ ValueIn(c, a[j]) = ValueIn(c, result[i])
      OBVIOUS
    <3>1. CASE i = k
      BY <2>2, <3>1 DEF n
    <3>2. CASE i \in 1..k - 1
      BY <1>1, <3>2
    <3> QED BY <1>2, <3>1, <3>2
  <2>4. \A j \in 1..L : \E i \in 1..k : a[j] = result[i]
    BY <1>1, <1>2
  <2>5. Firsts(c, result, k, a)
    BY <1>1, <2>3, <2>4 DEF Firsts
  <2> QED BY <2>1, <2>5 DEF n
<1>5. CASE ~\E j \in 1..L : ValueIn(c, a[j]) = ValueIn(c, n)
  <2> DEFINE b == Append(a, n)
  <2>1. WithNewIn(c, a, n) = b
    BY <1>2, <1>5 DEF WithNewIn
  <2>2. b \in Seq(Int) /\ Len(b) = L + 1 /\ b[L + 1] = n /\ \A j \in 1..L : b[j] = a[j]
    BY <1>1, <1>2
  <2> HIDE DEF b, L
  <2>3. /\ \A j \in 1..L + 1 : j \in 1..L \/ j = L + 1
        /\ L + 1 \in 1..L + 1 /\ \A j \in 1..L : j \in 1..L + 1
    BY <1>2
  <2>4. \A j \in 1..L + 1 : \E i \in 1..k : b[j] = result[i]
    <3> SUFFICES ASSUME NEW j \in 1..L + 1 PROVE \E i \in 1..k : b[j] = result[i]
      OBVIOUS
    <3>1. CASE j = L + 1
      BY <1>2, <2>2, <3>1 DEF n
    <3>2. CASE j \in 1..L
      BY <1>1, <1>2, <2>2, <3>2
    <3> QED BY <2>3, <3>1, <3>2
  <2>5. ASSUME NEW i \in 1..L + 1, NEW j \in 1..L + 1, i < j
        PROVE  b[i] < b[j] /\ ValueIn(c, b[i]) # ValueIn(c, b[j])
    <3>1. i \in 1..L
      BY <1>2, <2>5
    <3>2. CASE j = L + 1
      BY <1>3, <1>5, <2>2, <3>1, <3>2
    <3>3. CASE j \in 1..L
      BY <1>1, <2>2, <2>5, <3>1, <3>3
    <3> QED BY <2>3, <3>2, <3>3
  <2>6. ASSUME NEW i \in 1..k
        PROVE  \E j \in 1..L + 1 : b[j] <= result[i] /\ ValueIn(c, b[j]) = ValueIn(c, result[i])
    <3>1. CASE i = k
      <4>1. n <= n
        BY <1>2
      <4> QED BY <2>2, <2>3, <3>1, <4>1 DEF n
    <3>2. CASE i \in 1..k - 1
      BY <1>1, <2>2, <2>3, <3>2
    <3> QED BY <1>2, <3>1, <3>2
  <2>7. Firsts(c, result, k, b)
    BY <2>2, <2>4, <2>5, <2>6 DEF Firsts
  <2> QED BY <2>1, <2>7 DEF n
<1> QED BY <1>4, <1>5

LEMMA DistinctIs ==
    ASSUME NEW c, NEW result \in Seq(Int),
           \A i, j \in 1..Len(result) : i < j => result[i] < result[j]
    PROVE  Firsts(c, result, Len(result), DistinctIn(c, result))
PROOF
<1> DEFINE n == Len(result)
           f == CHOOSE f : SeenOf(c, result, n, f)
           T == {k \in 0..n : Firsts(c, result, k, f[k])}
<1>1. n \in Nat
  OBVIOUS
<1>2. SeenOf(c, result, n, f)
  BY <1>1, SeenExists
<1>3. DistinctIn(c, result) = f[n]
  BY DEF DistinctIn, SeenOf, WithNewIn
<1> HIDE DEF f
<1>4. \A k \in 0..n : f[k] = IF k = 0 THEN <<>> ELSE WithNewIn(c, f[k - 1], result[k])
  BY <1>2 DEF SeenOf
<1>5. 0 \in T
  <2>1. f[0] = <<>> /\ 0 \in 0..n
    BY <1>1, <1>4
  <2>2. Firsts(c, result, 0, <<>>)
    BY DEF Firsts
  <2> QED BY <2>1, <2>2
<1>6. ASSUME NEW k \in 1..n, k - 1 \in T PROVE k \in T
  <2>1. f[k] = WithNewIn(c, f[k - 1], result[k]) /\ k \in 0..n
    BY <1>1, <1>4
  <2>2. Firsts(c, result, k, f[k])
    BY <1>6, <2>1, FirstsNext
  <2> QED BY <2>1, <2>2
<1>7. \A k \in 0..n : k \in T
  <2> HIDE DEF T, n
  <2> QED BY <1>1, <1>5, <1>6, StretchInduction
<1>8. n \in 0..n
  BY <1>1
<1> QED BY <1>3, <1>7, <1>8

(* What Pick answers. *)
AnswerOK(c, nodes, a) ==
    LET all  == {n \in 1..Len(c.object) : SelectedIn(c, n, nodes)}
        once == {ValueIn(c, n) : n \in all}
    IN  /\ \A k \in DOMAIN a : a[k] \in all /\ (k > 1 => a[k - 1] < a[k])
        /\ \A n \in all : \/ HiddenIn(c, n, nodes) \/ n \in Range(a)
                          \/ c.distinct /\ \E m \in Range(a) : m < n /\ ValueIn(c, m) = ValueIn(c, n)
        /\ c.distinct => Len(a) <= Cardinality(once)

OnceIn(c, S) == {ValueIn(c, n) : n \in S}

(* A sequence without two equal values is no longer than there are values. *)
LEMMA NoLonger ==
    ASSUME NEW c, NEW all, IsFiniteSet(all), NEW a, Len(a) \in Nat, DOMAIN a = 1..Len(a),
           \A j \in 1..Len(a) : a[j] \in all,
           \A i, j \in 1..Len(a) : i < j => ValueIn(c, a[i]) # ValueIn(c, a[j])
    PROVE  Len(a) <= Cardinality(OnceIn(c, all))
PROOF
<1> DEFINE L == Len(a)
           once == {ValueIn(c, n) : n \in all}
           f == [n \in all |-> ValueIn(c, n)]
           g == [j \in 1..L |-> ValueIn(c, a[j])]
<1>1. f \in Surjection(all, once)
  BY DEF Surjection
<1>2. IsFiniteSet(once)
  <2> HIDE DEF f, once
  <2> QED BY <1>1, FS_Surjection
<1>3. g \in [1..L -> once]
  OBVIOUS
<1>4. ASSUME NEW i \in 1..L, NEW j \in 1..L, g[i] = g[j] PROVE i = j
  <2> HIDE DEF L
  <2>1. ValueIn(c, a[i]) = ValueIn(c, a[j]) /\ i \in Int /\ j \in Int
    BY <1>4
  <2>2. ~(i < j) /\ ~(j < i)
    BY <2>1 DEF L
  <2> QED BY <2>1, <2>2
<1>5. g \in Injection(1..L, once)
  BY <1>3, <1>4 DEF Injection, IsInjective
<1>6. Cardinality(1..L) = L
  <2> HIDE DEF L
  <2>1. L \in Nat
    BY DEF L
  <2>2. 1 \in Int /\ L \in Int /\ (1 > L => L = 0) /\ (L - 1) + 1 = L
    BY <2>1
  <2> QED BY <2>2, FS_Interval
<1> HIDE DEF g, once, L
<1>7. Cardinality(1..L) <= Cardinality(once)
  BY <1>2, <1>5, FS_Injection
<1> QED BY <1>6, <1>7 DEF L, once, OnceIn

(* What was collected is, as it is or with every value once, the answer. *)
LEMMA CollectedIsAnswer ==
    ASSUME NEW c, IsTree(c), NEW nodes, NEW result, ResultOK(c, <<>>, nodes, result),
           NothingMissed(c, <<>>, nodes, result)
    PROVE  AnswerOK(c, nodes, IF c.distinct THEN DistinctIn(c, result) ELSE result)
PROOF
<1> DEFINE N == 1..Len(c.object)
           all == {n \in N : SelectedIn(c, n, nodes)}
<1>1. /\ result \in Seq(N)
      /\ \A j \in 1..Len(result) : SelectedIn(c, result[j], nodes)
      /\ \A i, j \in 1..Len(result) : i < j => result[i] < result[j]
  BY DEF ResultOK
<1>2. N \subseteq Int /\ IsFiniteSet(N)
  <2>1. 1 \in Int /\ Len(c.object) \in Int
    BY DEF IsTree
  <2> QED BY <2>1, FS_Interval
<1> HIDE DEF N
<1>3. result \in Seq(Int) /\ DOMAIN result = 1..Len(result) /\ Len(result) \in Nat
      /\ \A j \in 1..Len(result) : result[j] \in N
  <2>1. /\ DOMAIN result = 1..Len(result) /\ Len(result) \in Nat
        /\ \A j \in 1..Len(result) : result[j] \in N
    BY <1>1
  <2>2. \A j \in 1..Len(result) : result[j] \in Int
    BY <1>2, <2>1
  <2>3. result \in Seq(Int)
    BY <1>1, <2>1, <2>2
  <2> QED BY <2>1, <2>3
<1>4. \A j \in 1..Len(result) : result[j] \in all
  BY <1>1, <1>3
<1>5. \A n \in all : HiddenIn(c, n, nodes) \/ \E i \in 1..Len(result) : n = result[i]
  <2>1. \A x : ~ToWalk(c, <<>>, x)
    BY DEF ToWalk
  <2>2. \A n \in N : SelectedIn(c, n, nodes) /\ ~HiddenIn(c, n, nodes) => n \in Range(result)
    BY <2>1 DEF NothingMissed, N
  <2> QED BY <1>3, <2>2 DEF Range
<1>6. CASE c.distinct
  <2> DEFINE a == DistinctIn(c, result)
  <2>1. Firsts(c, result, Len(result), a)
    BY <1>1, <1>3, DistinctIs
  <2> HIDE DEF a, all
  <2>2. /\ a \in Seq(Int)
        /\ \A j \in 1..Len(a) : \E i \in 1..Len(result) : a[j] = result[i]
        /\ \A i, j \in 1..Len(a) : i < j => a[i] < a[j] /\ ValueIn(c, a[i]) # ValueIn(c, a[j])
        /\ \A i \in 1..Len(result) :
              \E j \in 1..Len(a) : a[j] <= result[i] /\ ValueIn(c, a[j]) = ValueIn(c, result[i])
    BY <2>1 DEF Firsts
  <2>3. Len(a) \in Nat /\ DOMAIN a = 1..Len(a) /\ \A j \in 1..Len(a) : a[j] \in Int
    BY <2>2
  <2>4. \A j \in 1..Len(a) : a[j] \in all
    BY <1>4, <2>2
  <2>5. \A k \in 1..Len(a) : k > 1 => a[k - 1] < a[k]
    <3> SUFFICES ASSUME NEW k \in 1..Len(a), k > 1 PROVE a[k - 1] < a[k]
      OBVIOUS
    <3>1. k - 1 \in 1..Len(a) /\ k - 1 < k
      BY <2>3
    <3> QED BY <2>2, <3>1
  <2>6. \A n \in all : \/ HiddenIn(c, n, nodes) \/ n \in Range(a)
                       \/ \E m \in Range(a) : m < n /\ ValueIn(c, m) = ValueIn(c, n)
    <3> SUFFICES ASSUME NEW n \in all, ~HiddenIn(c, n, nodes), n \notin Range(a)
                 PROVE  \E m \in Range(a) : m < n /\ ValueIn(c, m) = ValueIn(c, n)
      OBVIOUS
    <3>1. PICK i \in 1..Len(result) : n = result[i]
      BY <1>5
    <3>2. PICK j \in 1..Len(a) : a[j] <= n /\ ValueIn(c, a[j]) = ValueIn(c, n)
      BY <2>2, <3>1
    <3>3. a[j] \in Range(a)
      BY <2>3 DEF Range
    <3>4. a[j] # n /\ a[j] \in Int /\ n \in Int
      BY <1>3, <2>3, <3>1, <3>3
    <3>5. a[j] < n
      BY <3>2, <3>4
    <3> QED BY <3>2, <3>3, <3>5
  <2>7. Len(a) <= Cardinality(OnceIn(c, all))
    <3>1. IsFiniteSet(all)
      BY <1>2, FS_Subset DEF all
    <3> QED BY <2>2, <2>3, <2>4, <3>1, NoLonger
  <2>8. AnswerOK(c, nodes, a)
    BY <1>6, <2>3, <2>4, <2>5, <2>6, <2>7 DEF AnswerOK, OnceIn, all, N
  <2> QED BY <1>6, <2>8 DEF a
<1>7. CASE ~c.distinct
  <2>1. \A k \in 1..Len(result) : k > 1 => result[k - 1] < result[k]
    <3> SUFFICES ASSUME NEW k \in 1..Len(result), k > 1 PROVE result[k - 1] < result[k]
      OBVIOUS
    <3>1. k - 1 \in 1..Len(result) /\ k - 1 < k
      BY <1>3
    <3> QED BY <1>1, <3>1
  <2>2. \A n \in all : HiddenIn(c, n, nodes) \/ n \in Range(result)
    BY <1>3, <1>5 DEF Range
  <2>3. AnswerOK(c, nodes, result)
    BY <1>3, <1>4, <1>7, <2>1, <2>2 DEF AnswerOK, N
  <2> QED BY <1>7, <2>3
<1> QED BY <1>6, <1>7

-----------------------------------------------------------------------------
(* The pickers of a call, each where its walk has collected what it should. *)
Walked(c, s, nodes, result) ==
    /\ IsSequence(nodes) /\ nodes # <<>>
    /\ WalkStackOK(c, s, nodes) /\ ResultOK(c, s, nodes, result) /\ NothingMissed(c, s, nodes, result)

PlaceOK(c, p) ==
    /\ p.at \in {"parse", "walk"} => p.result = <<>>
    /\ p.at = "walk" => IsSequence(p.nodes) /\ p.nodes # <<>>
    /\ p.at = "walking" => p.stack # <<>> /\ Walked(c, p.stack, p.nodes, p.result)
    /\ p.at = "walked" => Walked(c, <<>>, p.nodes, p.result)

AnswerInv ==
    /\ PickersOK
    /\ \A r \in DOMAIN Rules : PlaceOK(called, pickers[r])
    /\ ended = "returned" =>
          IF Len(Rules) # 1 THEN answer = <<>> ELSE AnswerOK(called, pickers[1].nodes, answer)

LEMMA RootStart ==
    ASSUME NEW c, IsTree(c), NEW nodes, IsSequence(nodes), nodes # <<>>
    PROVE  /\ WalkStackOK(c, <<>>, nodes) /\ IsNext(c, <<>>, 1)
           /\ ResultOK(c, <<>>, nodes, <<>>)
           /\ PosOK(c, AboveIn(c, 1), HiddenIn(c, 1, nodes), 1, nodes)
           /\ \A x \in 1..Len(c.object) : SelectedIn(c, x, nodes) /\ ~HiddenIn(c, x, nodes)
                 => x \in Range(<<>>) \/ x = 1 \/ 1 \in AboveIn(c, x) \/ ToWalk(c, <<>>, x)
PROOF
<1>1. IsSequence(<<>>) /\ <<>> \in Seq(1..Len(c.object)) /\ Len(<<>>) = 0
  <2>1. <<>> \in Seq(1..Len(c.object)) /\ Len(<<>>) = 0
    OBVIOUS
  <2> QED BY <2>1 DEF IsSequence
<1>2. WalkStackOK(c, <<>>, nodes)
  BY <1>1 DEF WalkStackOK
<1>3. ResultOK(c, <<>>, nodes, <<>>)
  BY <1>1 DEF ResultOK
<1>4. IsNext(c, <<>>, 1)
  BY <1>1 DEF IsNext, IsTree
<1>5. AboveIn(c, 1) = {}
  BY AboveIs
<1>6. Len(nodes) \in Nat /\ Len(nodes) >= 1
  BY SequenceLen
<1>7. ASSUME NEW q \in 1..Len(nodes), PlacedOn(c, {}, q, nodes) PROVE q <= 1
  <2>1. PICK place : place \in [1..(q - 1) -> {}]
    BY <1>7 DEF PlacedOn
  <2>2. q > 1 => 1 \in 1..(q - 1)
    BY <1>6
  <2> QED BY <1>6, <2>1, <2>2
<1>8. PosOK(c, AboveIn(c, 1), HiddenIn(c, 1, nodes), 1, nodes)
  <2>1. 1 \in 1..Len(nodes)
    BY <1>6
  <2>2. PlacedOn(c, {}, 1, nodes)
    BY PlacedNone
  <2> QED BY <1>5, <1>7, <2>1, <2>2 DEF PosOK
<1> QED BY <1>2, <1>3, <1>4, <1>8, BelowRoot

(* A step of a picker. *)
LEMMA PickerAnswers ==
    ASSUME AnswerInv, NEW r \in DOMAIN Rules, NEW p, IsPicker(p), PlaceOK(called, p),
           pickers' = [pickers EXCEPT ![r] = p], ended = "running", UNCHANGED <<called, ended>>
    PROVE  AnswerInv'
PROOF
<1>1. Rules' = Rules /\ called' = called /\ ended' = "running"
  BY DEF Rules
<1>2. /\ pickers = [q \in DOMAIN Rules |-> pickers[q]] /\ called \in Calls
      /\ \A q \in DOMAIN Rules : IsPicker(pickers[q]) /\ PlaceOK(called, pickers[q])
  BY DEF AnswerInv, PickersOK
<1>3. \A q \in DOMAIN Rules : pickers'[q] = IF q = r THEN p ELSE pickers[q]
  BY <1>2
<1>4. pickers' = [q \in DOMAIN Rules |-> pickers'[q]]
  BY <1>2
<1>5. \A q \in DOMAIN Rules : IsPicker(pickers'[q]) /\ PlaceOK(called, pickers'[q])
  BY <1>2, <1>3
<1> QED BY <1>1, <1>2, <1>4, <1>5 DEF AnswerInv, PickersOK

LEMMA PanickedAnswers ==
    ASSUME AnswerInv, NEW r \in DOMAIN Rules, Panics(r), ended = "running", UNCHANGED <<called, ended>>
    PROVE  AnswerInv'
PROOF
<1> DEFINE p == [pickers[r] EXCEPT !.at = "panicked"]  o == pickers[r]
<1>1. IsPicker(o) /\ p = [o EXCEPT !.at = "panicked"]
  BY DEF AnswerInv, PickersOK
<1>2. pickers' = [pickers EXCEPT ![r] = p]
  BY DEF Panics
<1> HIDE DEF p, o
<1>3. p = [at |-> "panicked", nodes |-> o.nodes, stack |-> o.stack, result |-> o.result]
  BY <1>1 DEF IsPicker
<1>4. IsPicker(p) /\ p.at = "panicked"
  BY <1>3 DEF IsPicker
<1>5. PlaceOK(called, p)
  BY <1>4 DEF PlaceOK
<1> QED BY <1>2, <1>4, <1>5, PickerAnswers

(* A walk that enters n is in order. *)
MayEnter(c, nodes, result, n, pos, frames) ==
    /\ IsTree(c) /\ IsSequence(nodes) /\ nodes # <<>>
    /\ WalkStackOK(c, frames, nodes) /\ IsNext(c, frames, n)
    /\ PosOK(c, AboveIn(c, n), HiddenIn(c, n, nodes), pos, nodes)
    /\ ResultOK(c, frames, nodes, result) /\ \A j \in 1..Len(result) : result[j] < n
    /\ \A x \in 1..Len(c.object) : SelectedIn(c, x, nodes) /\ ~HiddenIn(c, x, nodes)
          => x \in Range(result) \/ x = n \/ n \in AboveIn(c, x) \/ ToWalk(c, frames, x)

LEMMA RootEnters ==
    ASSUME AnswerInv, NEW r \in DOMAIN Rules, WalkRoot(r)
    PROVE  \E n, pos, frames : /\ Walk(r, n, KeyIn(called, n), pos, frames)
                               /\ MayEnter(called, pickers[r].nodes, pickers[r].result, n, pos, frames)
PROOF
<1> DEFINE nodes == pickers[r].nodes
<1>1. Walk(r, 1, <<>>, 1, <<>>) /\ pickers[r].at = "walk"
  BY DEF WalkRoot, At
<1>2. KeyIn(called, 1) = <<>>
  BY DEF KeyIn
<1>3. IsTree(called)
  BY CallIsTree DEF AnswerInv, PickersOK
<1>4. pickers[r].result = <<>> /\ IsSequence(nodes) /\ nodes # <<>>
  BY <1>1 DEF AnswerInv, PlaceOK
<1> HIDE DEF nodes
<1>5. /\ WalkStackOK(called, <<>>, nodes) /\ IsNext(called, <<>>, 1)
      /\ ResultOK(called, <<>>, nodes, <<>>)
      /\ PosOK(called, AboveIn(called, 1), HiddenIn(called, 1, nodes), 1, nodes)
      /\ \A x \in 1..Len(called.object) : SelectedIn(called, x, nodes) /\ ~HiddenIn(called, x, nodes)
            => x \in Range(<<>>) \/ x = 1 \/ 1 \in AboveIn(called, x) \/ ToWalk(called, <<>>, x)
  BY <1>3, <1>4, RootStart
<1>6. \A j \in 1..Len(<<>>) : <<>>[j] < 1
  OBVIOUS
<1>7. MayEnter(called, nodes, pickers[r].result, 1, 1, <<>>)
  BY <1>3, <1>4, <1>5, <1>6 DEF MayEnter
<1> QED BY <1>1, <1>2, <1>7 DEF nodes

LEMMA KidEnters ==
    ASSUME AnswerInv, NEW r \in DOMAIN Rules, WalkKid(r)
    PROVE  \E n, pos, frames : /\ Walk(r, n, KeyIn(called, n), pos, frames)
                               /\ MayEnter(called, pickers[r].nodes, pickers[r].result, n, pos, frames)
PROOF
<1> DEFINE s == pickers[r].stack  n == Min(s[Len(s)].kids)  nodes == pickers[r].nodes  result == pickers[r].result
<1>1. /\ pickers[r].at = "walking" /\ s[Len(s)].kids # {}
      /\ Walk(r, n, called.object[n].key, s[Len(s)].pos, Taken(s))
  BY DEF WalkKid, At, TopWalk, Node, Taken
<1>2. IsTree(called)
  BY CallIsTree DEF AnswerInv, PickersOK
<1>3. s # <<>> /\ Walked(called, s, nodes, result)
  BY <1>1 DEF AnswerInv, PlaceOK
<1>4. /\ WalkStackOK(called, Taken(s), nodes) /\ IsNext(called, Taken(s), n) /\ n # 1
      /\ ResultOK(called, Taken(s), nodes, result) /\ \A j \in 1..Len(result) : result[j] < n
      /\ PosOK(called, AboveIn(called, n), HiddenIn(called, n, nodes), s[Len(s)].pos, nodes)
      /\ \A x \in 1..Len(called.object) : SelectedIn(called, x, nodes) /\ ~HiddenIn(called, x, nodes)
            => x \in Range(result) \/ x = n \/ n \in AboveIn(called, x) \/ ToWalk(called, Taken(s), x)
  <2> HIDE DEF s, nodes, result
  <2> QED BY <1>1, <1>2, <1>3, KidTaken DEF Walked
<1>5. KeyIn(called, n) = called.object[n].key
  BY <1>4 DEF KeyIn
<1>6. IsSequence(nodes) /\ nodes # <<>>
  BY <1>3 DEF Walked
<1>7. Walk(r, n, KeyIn(called, n), s[Len(s)].pos, Taken(s))
  BY <1>1, <1>5
<1> HIDE DEF n, s, nodes, result
<1>8. MayEnter(called, nodes, result, n, s[Len(s)].pos, Taken(s))
  BY <1>2, <1>4, <1>6 DEF MayEnter
<1> QED BY <1>7, <1>8 DEF nodes, result

LEMMA WalkEnters ==
    ASSUME AnswerInv, NEW r \in DOMAIN Rules, WalkRoot(r) \/ WalkKid(r)
    PROVE  /\ ended = "running" /\ UNCHANGED <<called, ended>>
           /\ \E n, pos, frames : /\ Walk(r, n, KeyIn(called, n), pos, frames)
                                  /\ MayEnter(called, pickers[r].nodes, pickers[r].result, n, pos, frames)
PROOF
<1>1. ended = "running" /\ UNCHANGED <<called, ended>>
  BY DEF WalkRoot, WalkKid, At
<1> QED BY <1>1, RootEnters, KidEnters

(* walk panics at a value its selector leads to, or has the picker go on. *)
LEMMA WalkIs ==
    ASSUME NEW r, NEW n, NEW pos, NEW frames, IsPicker(pickers[r]), Walk(r, n, KeyIn(called, n), pos, frames),
           MayEnter(called, pickers[r].nodes, pickers[r].result, n, pos, frames)
    PROVE  \/ Panics(r) /\ n \in 1..Len(called.object) /\ called.object[n].kind \in called.breaks
              /\ LedToIn(called, n, pickers[r].nodes)
           \/ \E S \in OnePerKeyIn(called, n) :
                 pickers' = [pickers EXCEPT ![r] =
                    [pickers[r] EXCEPT !.stack = Append(frames, FrameFor(called, n, S, pos, pickers[r].nodes)),
                                       !.result = ResultFor(called, n, S, pos, pickers[r].nodes, pickers[r].result),
                                       !.at = "walking"]]
PROOF
<1> DEFINE o == pickers[r]  nodes == o.nodes  key == KeyIn(called, n)
<1>1. PICK S \in OnePerKey(n) :
         LET matched == Fits(n, key, S, nodes[pos])
             last    == pos = Len(nodes)
             frame   == [node |-> n, kids |-> S, pos |-> Descend(pos, matched, last)]
         IN  \/ matched /\ last /\ Breaks(n) /\ Panics(r)
             \/ pickers' = [pickers EXCEPT
                    ![r].stack = Append(frames, frame),
                    ![r].result = IF matched /\ last /\ Node(n).kind \in called.want
                                  THEN Append(@, n) ELSE @,
                    ![r].at = "walking"]
  BY DEF Walk
<1>2. S \in OnePerKeyIn(called, n)
  BY WalkedCalled
<1> DEFINE matched == Fits(n, key, S, nodes[pos])
           t == Append(frames, FrameFor(called, n, S, pos, nodes))
           more == ResultFor(called, n, S, pos, nodes, o.result)
           p == [o EXCEPT !.stack = t, !.result = more, !.at = "walking"]
<1>3. matched <=> Meets(called, n, S, pos, nodes)
  BY FitsCalled DEF Meets
<1>4. CASE matched /\ pos = Len(nodes) /\ Breaks(n) /\ Panics(r)
  <2>1. n \in 1..Len(called.object)
    BY DEF MayEnter, IsNext
  <2>2. LedToIn(called, n, nodes)
    <3> HIDE DEF matched, nodes
    <3>1. IsTree(called) /\ IsSequence(nodes) /\ nodes # <<>>
          /\ PosOK(called, AboveIn(called, n), HiddenIn(called, n, nodes), pos, nodes)
      BY DEF MayEnter, nodes
    <3> QED BY <1>2, <1>3, <1>4, <2>1, <3>1, SelectedMeets
  <2> QED BY <1>4, <2>1, <2>2 DEF Breaks, Node
<1>5. ASSUME pickers' = [pickers EXCEPT
                    ![r].stack = Append(frames, [node |-> n, kids |-> S, pos |-> Descend(pos, matched, pos = Len(nodes))]),
                    ![r].result = IF matched /\ pos = Len(nodes) /\ Node(n).kind \in called.want
                                  THEN Append(@, n) ELSE @,
                    ![r].at = "walking"]
      PROVE  pickers' = [pickers EXCEPT ![r] = p]
  <2> DEFINE found == matched /\ pos = Len(nodes) /\ Node(n).kind \in called.want
             above == Append(frames, [node |-> n, kids |-> S, pos |-> Descend(pos, matched, pos = Len(nodes))])
             q == [o EXCEPT !.stack = above, !.result = IF found THEN Append(@, n) ELSE @, !.at = "walking"]
  <2>1. pickers' = [pickers EXCEPT ![r] = q]
    BY <1>5
  <2>3. above = t
    BY <1>3 DEF FrameFor, Descend
  <2>4. (IF found THEN Append(o.result, n) ELSE o.result) = more
    BY <1>3 DEF ResultFor, Node
  <2>5. q = [o EXCEPT !.stack = above, !.result = IF found THEN Append(o.result, n) ELSE o.result, !.at = "walking"]
    <3> HIDE DEF above, found
    <3> QED BY DEF IsPicker
  <2>6. q = p
    <3> HIDE DEF above, found, more, t, q, o
    <3> QED BY <2>3, <2>4, <2>5
  <2> QED BY <2>1, <2>6
<1>6. CASE pickers' = [pickers EXCEPT ![r] = p]
  BY <1>2, <1>6
<1> QED BY <1>1, <1>4, <1>5, <1>6

LEMMA WalkAnswers ==
    ASSUME AnswerInv, NEW r \in DOMAIN Rules, WalkRoot(r) \/ WalkKid(r)
    PROVE  AnswerInv'
PROOF
<1> DEFINE o == pickers[r]  nodes == o.nodes
<1>1. IsPicker(o) /\ ended = "running" /\ UNCHANGED <<called, ended>>
  BY WalkEnters DEF AnswerInv, PickersOK
<1>2. PICK n, pos, frames : /\ Walk(r, n, KeyIn(called, n), pos, frames)
                            /\ MayEnter(called, nodes, o.result, n, pos, frames)
  BY WalkEnters
<1>3. CASE Panics(r)
  BY <1>1, <1>3, PanickedAnswers
<1>4. ASSUME NEW S \in OnePerKeyIn(called, n),
             pickers' = [pickers EXCEPT ![r] =
                [o EXCEPT !.stack = Append(frames, FrameFor(called, n, S, pos, nodes)),
                          !.result = ResultFor(called, n, S, pos, nodes, o.result),
                          !.at = "walking"]]
      PROVE  AnswerInv'
  <2> DEFINE t == Append(frames, FrameFor(called, n, S, pos, nodes))
             more == ResultFor(called, n, S, pos, nodes, o.result)
             p == [o EXCEPT !.stack = t, !.result = more, !.at = "walking"]
  <2>1. pickers' = [pickers EXCEPT ![r] = p]
    BY <1>4
  <2>2. Walked(called, t, nodes, more)
    BY <1>2, Entered DEF Walked, MayEnter
  <2>3. t # <<>>
    BY <1>2, LongerIsSequence DEF WalkStackOK, MayEnter
  <2>4. IsPicker(p) /\ PlaceOK(called, p)
    <3>1. IsPicker(o) /\ p = [o EXCEPT !.stack = t, !.result = more, !.at = "walking"]
      BY <1>1
    <3>2. Walked(called, t, o.nodes, more) /\ t # <<>>
      BY <2>2, <2>3
    <3> HIDE DEF o, p, t, more
    <3>3. p = [at |-> "walking", nodes |-> o.nodes, stack |-> t, result |-> more]
      BY <3>1 DEF IsPicker
    <3>4. IsPicker(p) /\ p.at = "walking" /\ p.nodes = o.nodes /\ p.stack = t /\ p.result = more
      BY <3>3 DEF IsPicker
    <3> QED BY <3>2, <3>4 DEF PlaceOK
  <2> HIDE DEF p
  <2> QED BY <1>1, <2>1, <2>4, PickerAnswers
<1> QED BY <1>1, <1>2, <1>3, <1>4, WalkIs

LEMMA ReturnAnswers ==
    ASSUME AnswerInv, NEW r \in DOMAIN Rules, WalkReturn(r)
    PROVE  AnswerInv'
PROOF
<1> DEFINE o == pickers[r]  s == o.stack
           at == IF Len(s) = 1 THEN "walked" ELSE "walking"
           p == [o EXCEPT !.stack = Front(s), !.at = at]
<1>1. ended = "running" /\ UNCHANGED <<called, ended>> /\ o.at = "walking" /\ s[Len(s)].kids = {}
  BY DEF WalkReturn, At, TopWalk
<1>2. IsPicker(o) /\ s # <<>> /\ Walked(called, s, o.nodes, o.result)
  BY <1>1 DEF AnswerInv, PickersOK, PlaceOK
<1>3. pickers' = [pickers EXCEPT ![r] = p]
  <2> DEFINE q == [o EXCEPT !.stack = Front(@), !.at = IF Len(s) = 1 THEN "walked" ELSE @]
  <2>1. pickers' = [pickers EXCEPT ![r] = q]
    BY DEF WalkReturn
  <2>2. q = [o EXCEPT !.stack = Front(s), !.at = IF Len(s) = 1 THEN "walked" ELSE o.at]
    BY <1>2 DEF IsPicker
  <2>3. (IF Len(s) = 1 THEN "walked" ELSE o.at) = at
    BY <1>1
  <2>4. q = p
    <3> HIDE DEF q, o, s, at
    <3> QED BY <2>2, <2>3
  <2> QED BY <2>1, <2>4
<1> HIDE DEF o, s
<1>4. /\ Walked(called, Front(s), o.nodes, o.result)
      /\ Len(Front(s)) = Len(s) - 1 /\ Len(s) \in Nat /\ Len(s) >= 1
  <2>1. /\ WalkStackOK(called, Front(s), o.nodes) /\ ResultOK(called, Front(s), o.nodes, o.result)
        /\ NothingMissed(called, Front(s), o.nodes, o.result)
        /\ Len(Front(s)) = Len(s) - 1
    BY <1>1, <1>2, Left DEF Walked
  <2>2. Len(s) \in Nat /\ Len(s) >= 1
    BY <1>2, SequenceLen DEF Walked, WalkStackOK
  <2> QED BY <1>2, <2>1, <2>2 DEF Walked
<1>5. IsPicker(p) /\ p.at = at /\ p.stack = Front(s) /\ p.nodes = o.nodes /\ p.result = o.result
  <2>1. IsPicker(o) /\ p = [o EXCEPT !.stack = Front(s), !.at = at]
    BY <1>2
  <2> HIDE DEF p, at
  <2>2. p = [at |-> at, nodes |-> o.nodes, stack |-> Front(s), result |-> o.result]
    BY <2>1 DEF IsPicker
  <2> QED BY <2>2 DEF IsPicker
<1> HIDE DEF p
<1>6. PlaceOK(called, p)
  <2>1. CASE Len(s) = 1
    <3>1. at = "walked"
      BY <2>1
    <3>2. Len(Front(s)) = 0
      BY <1>4, <2>1
    <3>3. PICK Q : Front(s) \in Seq(Q)
      BY <1>4 DEF Walked, WalkStackOK, IsSequence
    <3> DEFINE t == Front(s)
    <3>4. t \in Seq(Q) /\ Len(t) = 0 /\ Walked(called, t, o.nodes, o.result)
      BY <1>4, <3>2, <3>3
    <3> HIDE DEF t
    <3>5. t = <<>>
      BY <3>4
    <3>6. Walked(called, <<>>, o.nodes, o.result)
      BY <3>4, <3>5
    <3> HIDE DEF at
    <3> QED BY <1>5, <3>1, <3>6 DEF PlaceOK
  <2>2. CASE Len(s) # 1
    <3>1. at = "walking"
      BY <2>2
    <3>2. Front(s) # <<>>
      <4>1. Len(Front(s)) # 0
        BY <1>4, <2>2
      <4>2. Len(<<>>) = 0
        OBVIOUS
      <4> DEFINE t == Front(s)
      <4>3. Len(t) # 0
        BY <4>1
      <4> HIDE DEF t
      <4>4. t # <<>>
        BY <4>2, <4>3
      <4> QED BY <4>4 DEF t
    <3> HIDE DEF at
    <3> QED BY <1>4, <1>5, <3>1, <3>2 DEF PlaceOK
  <2> QED BY <2>1, <2>2
<1> QED BY <1>1, <1>3, <1>5, <1>6, PickerAnswers

LEMMA ParseAnswers ==
    ASSUME AnswerInv, NEW r \in DOMAIN Rules, Parse(r)
    PROVE  AnswerInv'
PROOF
<1> DEFINE a == parse(Rules[r].text)  o == pickers[r]
           p == [o EXCEPT !.at = "walk", !.nodes = a.nodes]
<1>1. ended = "running" /\ UNCHANGED <<called, ended>> /\ o.at = "parse"
  BY DEF Parse, At
<1>2. \/ Panics(r)
      \/ a.nodes # <<>> /\ pickers' = [pickers EXCEPT ![r] = p]
  <2>1. \/ Panics(r)
        \/ a.nodes # <<>> /\ pickers' = [pickers EXCEPT ![r].at = "walk", ![r].nodes = a.nodes]
    BY DEF Parse
  <2> QED BY <2>1
<1>3. IsSequence(a.nodes)
  <2>1. Rules[r].text \in Seq(Char)
    BY PickAssumption DEF AnswerInv, PickersOK, Rules
  <2> QED BY <2>1, ParsedNodes
<1>4. IsPicker(o) /\ o.result = <<>>
  BY <1>1 DEF AnswerInv, PickersOK, PlaceOK
<1>5. CASE Panics(r)
  BY <1>1, <1>5, PanickedAnswers
<1>6. CASE a.nodes # <<>> /\ pickers' = [pickers EXCEPT ![r] = p]
  <2>1. IsPicker(o) /\ p = [o EXCEPT !.at = "walk", !.nodes = a.nodes]
    BY <1>4
  <2> HIDE DEF a, o, p
  <2>2. p = [at |-> "walk", nodes |-> a.nodes, stack |-> o.stack, result |-> o.result]
    BY <2>1 DEF IsPicker
  <2>3. IsPicker(p) /\ p.at = "walk" /\ p.nodes = a.nodes /\ p.result = <<>>
    BY <1>4, <2>2 DEF IsPicker
  <2>4. PlaceOK(called, p)
    BY <1>3, <1>6, <2>3 DEF PlaceOK
  <2> QED BY <1>1, <1>6, <2>3, <2>4, PickerAnswers
<1> QED BY <1>2, <1>5, <1>6

(* Pick ends with an answer that is right. *)
LEMMA EndAnswers ==
    ASSUME AnswerInv, UNCHANGED <<called, pickers>>,
           ended' = "returned" =>
              IF Len(Rules) # 1 THEN answer' = <<>> ELSE AnswerOK(called, pickers[1].nodes, answer')
    PROVE  AnswerInv'
PROOF
<1>1. Rules' = Rules
  BY DEF Rules
<1> QED BY <1>1 DEF AnswerInv, PickersOK

LEMMA FinishIs ==
    ASSUME NEW result, Finish(result), ended' = "returned"
    PROVE  answer' = IF called.distinct THEN DistinctIn(called, result) ELSE result
BY DistinctCalled DEF Finish

LEMMA NoneIsNone ==
    ASSUME Finish(<<>>)
    PROVE  ended' = "returned" => answer' = <<>>
PROOF
<1> SUFFICES ASSUME ended' = "returned" PROVE answer' = <<>>
  OBVIOUS
<1> DEFINE a == DistinctIn(called, <<>>)
<1>1. <<>> \in Seq(Int) /\ Len(<<>>) = 0
  OBVIOUS
<1>2. Firsts(called, <<>>, 0, a)
  <2>1. \A i, j \in 1..Len(<<>>) : i < j => <<>>[i] < <<>>[j]
    BY <1>1
  <2>2. Firsts(called, <<>>, Len(<<>>), a)
    BY <1>1, <2>1, DistinctIs
  <2> QED BY <1>1, <2>2
<1> HIDE DEF a
<1>3. a = <<>>
  <2>1. a \in Seq(Int) /\ \A j \in 1..Len(a) : \E i \in 1..0 : a[j] = <<>>[i]
    BY <1>2 DEF Firsts
  <2>2. Len(a) = 0
    <3>1. Len(a) \in Nat /\ ~\E j \in 1..Len(a) : TRUE
      BY <2>1
    <3> HIDE DEF a
    <3>2. Len(a) >= 1 => 1 \in 1..Len(a)
      BY <3>1
    <3> QED BY <3>1, <3>2
  <2> QED BY <2>1, <2>2
<1> QED BY <1>3, FinishIs DEF a

(* AnswerInv is inductive: what a picker has so far, and what its stack still
   leads to, make up what its selector selects. *)
LEMMA AnswersInductive == PickSpec => []AnswerInv
PROOF
<1>1. PickInit => AnswerInv
  <2> SUFFICES ASSUME PickInit PROVE AnswerInv
    OBVIOUS
  <2>1. pickers = [r \in DOMAIN Rules |-> NewPicker] /\ called \in Calls /\ ended = "running"
    BY DEF PickInit, Rules
  <2>2. \A r \in DOMAIN Rules : pickers[r] = NewPicker
    BY <2>1
  <2>3. pickers = [r \in DOMAIN Rules |-> pickers[r]]
    BY <2>1
  <2>4. IsPicker(NewPicker) /\ NewPicker.at = "parse" /\ NewPicker.result = <<>>
    BY DEF IsPicker, NewPicker
  <2>5. PlaceOK(called, NewPicker)
    BY <2>4 DEF PlaceOK
  <2> QED BY <2>1, <2>2, <2>3, <2>4, <2>5 DEF AnswerInv, PickersOK
<1>2. AnswerInv /\ [PickNext]_pickVars => AnswerInv'
  <2> SUFFICES ASSUME AnswerInv, [PickNext]_pickVars PROVE AnswerInv'
    OBVIOUS
  <2>1. ASSUME NEW r \in DOMAIN Rules, Parse(r) \/ WalkRoot(r) \/ WalkKid(r) \/ WalkReturn(r) PROVE AnswerInv'
    BY <2>1, ParseAnswers, WalkAnswers, ReturnAnswers
  <2>2. ASSUME NEW r \in DOMAIN Rules, Store(r) PROVE AnswerInv'
    BY <2>2, PanickedAnswers DEF Store, At
  <2>3. ASSUME PickReturn PROVE AnswerInv'
    <3>1. UNCHANGED <<called, pickers>>
      BY <2>3 DEF PickReturn
    <3>2. CASE Rules = <<>> /\ Finish(<<>>)
      <4>1. ended' = "returned" => answer' = <<>>
        BY <3>2, NoneIsNone
      <4>2. Len(Rules) # 1
        BY <3>2
      <4> QED BY <3>1, <4>1, <4>2, EndAnswers
    <3>3. CASE Len(Rules) = 1 /\ pickers[1].at = "walked" /\ Finish(pickers[1].result)
      <4>1. 1 \in DOMAIN Rules /\ called \in Calls
        BY <3>3, PickAssumption DEF AnswerInv, PickersOK, Rules
      <4>2. Walked(called, <<>>, pickers[1].nodes, pickers[1].result)
        BY <3>3, <4>1 DEF AnswerInv, PlaceOK
      <4>3. AnswerOK(called, pickers[1].nodes,
                     IF called.distinct THEN DistinctIn(called, pickers[1].result) ELSE pickers[1].result)
        BY <4>1, <4>2, CallIsTree, CollectedIsAnswer DEF Walked
      <4>4. ended' = "returned" => AnswerOK(called, pickers[1].nodes, answer')
        BY <3>3, <4>3, FinishIs
      <4> QED BY <3>1, <3>3, <4>4, EndAnswers
    <3>4. CASE ended' = "panicked"
      BY <3>1, <3>4, EndAnswers
    <3> QED BY <2>3, <3>2, <3>3, <3>4 DEF PickReturn
  <2>4. ASSUME Wait PROVE AnswerInv'
    <3>1. UNCHANGED <<called, pickers>> /\ Len(Rules) # 1 /\ Finish(<<>>)
      <4>1. UNCHANGED <<called, pickers>> /\ Len(Rules) > 1 /\ Finish(<<>>)
        BY <2>4 DEF Wait
      <4>2. Len(Rules) # 1
        BY <4>1
      <4> QED BY <4>1, <4>2
    <3> QED BY <3>1, NoneIsNone, EndAnswers
  <2>5. ASSUME UNCHANGED pickVars PROVE AnswerInv'
    <3>1. called' = called /\ pickers' = pickers /\ ended' = ended /\ answer' = answer
      BY <2>5 DEF pickVars
    <3> QED BY <3>1 DEF AnswerInv, PickersOK, Rules
  <2> QED BY <2>1, <2>2, <2>3, <2>4, <2>5 DEF PickNext
<1> QED BY <1>1, <1>2, PTL DEF PickSpec

(* Pick answers with what its only selector selects, every value once and in
   the order of the walk, without anything else, and misses at most values
   that others under the same name hide. *)
THEOREM AnswersCorrect == PickSpec => []PickAnswers
PROOF
<1>1. AnswerInv => PickAnswers
  <2> SUFFICES ASSUME AnswerInv, ended = "returned", Len(Rules) = 1 PROVE
               LET all  == {n \in DOMAIN called.object : Selected(n, pickers[1].nodes)}
                   once == {Value(n) : n \in all}
               IN  /\ \A k \in DOMAIN answer : answer[k] \in all /\ (k > 1 => answer[k - 1] < answer[k])
                   /\ \A n \in all : \/ Hidden(n, pickers[1].nodes) \/ n \in Range(answer)
                                     \/ called.distinct /\ \E m \in Range(answer) : m < n /\ Value(m) = Value(n)
                   /\ called.distinct => Len(answer) <= Cardinality(once)
    BY DEF AnswerInv, PickAnswers
  <2> DEFINE nodes == pickers[1].nodes
  <2>1. AnswerOK(called, nodes, answer)
    BY DEF AnswerInv
  <2>2. DOMAIN called.object = 1..Len(called.object)
    BY CallIsTree DEF AnswerInv, PickersOK, IsTree
  <2>3. \A n : /\ Selected(n, nodes) <=> SelectedIn(called, n, nodes)
               /\ Hidden(n, nodes) <=> HiddenIn(called, n, nodes)
               /\ Value(n) = ValueIn(called, n)
    BY SelectedCalled, WalkedCalled
  <2> HIDE DEF nodes
  <2>4. {n \in DOMAIN called.object : Selected(n, nodes)}
          = {n \in 1..Len(called.object) : SelectedIn(called, n, nodes)}
    BY <2>2, <2>3
  <2>5. {Value(n) : n \in {n \in DOMAIN called.object : Selected(n, nodes)}}
          = {ValueIn(called, n) : n \in {n \in 1..Len(called.object) : SelectedIn(called, n, nodes)}}
    BY <2>3, <2>4
  <2> QED BY <2>1, <2>3, <2>4, <2>5 DEF AnswerOK, nodes
<1> QED BY <1>1, AnswersInductive, PTL

-----------------------------------------------------------------------------
(* Why a picker panics: for its selector, or for a value it leads to. *)
ReasonIn(c, text, nodes) ==
    Unfit(text) \/ \E n \in 1..Len(c.object) : c.object[n].kind \in c.breaks /\ LedToIn(c, n, nodes)

Excused(c, r, nodes) == Len(c.rules) > 1 \/ ReasonIn(c, c.rules[r].text, nodes)

PanickedOK ==
    \A r \in DOMAIN Rules : pickers[r].at = "panicked" => Excused(called, r, pickers[r].nodes)

PanicInv ==
    /\ PickersOK /\ PanickedOK
    /\ ended = "panicked" =>
          /\ Len(Rules) = 1
          /\ \/ ReasonIn(called, Rules[1].text, pickers[1].nodes)
             \/ /\ called.distinct
                /\ \E k \in DOMAIN pickers[1].result : Node(pickers[1].result[k]).kind \in Containers

(* A step of a picker that panics only for a reason keeps the invariant. *)
LEMMA PickerKeeps ==
    ASSUME PanicInv, NEW r \in DOMAIN Rules, NEW p, IsPicker(p), pickers' = [pickers EXCEPT ![r] = p],
           p.at = "panicked" => Excused(called, r, p.nodes),
           ended = "running", UNCHANGED <<called, ended>>
    PROVE  PanicInv'
PROOF
<1>1. Rules' = Rules /\ called' = called /\ ended' = "running"
  BY DEF Rules
<1>2. pickers = [q \in DOMAIN Rules |-> pickers[q]] /\ \A q \in DOMAIN Rules : IsPicker(pickers[q])
  BY DEF PanicInv, PickersOK
<1>3. \A q \in DOMAIN Rules : pickers'[q] = IF q = r THEN p ELSE pickers[q]
  BY <1>2
<1>4. pickers' = [q \in DOMAIN Rules |-> pickers'[q]]
  BY <1>2
<1>5. \A q \in DOMAIN Rules : IsPicker(pickers'[q])
  BY <1>2, <1>3
<1>6. \A q \in DOMAIN Rules : pickers'[q].at = "panicked" => Excused(called, q, pickers'[q].nodes)
  BY <1>3 DEF PanicInv, PanickedOK
<1>7. called \in Calls
  BY DEF PanicInv, PickersOK
<1> QED BY <1>1, <1>4, <1>5, <1>6, <1>7 DEF PanicInv, PickersOK, PanickedOK

LEMMA PanickedPicker ==
    ASSUME PanicInv, NEW r \in DOMAIN Rules, Panics(r), Excused(called, r, pickers[r].nodes),
           ended = "running", UNCHANGED <<called, ended>>
    PROVE  PanicInv'
PROOF
<1> DEFINE p == [pickers[r] EXCEPT !.at = "panicked"]
<1>1. IsPicker(pickers[r]) /\ pickers = [q \in DOMAIN Rules |-> pickers[q]]
  BY DEF PanicInv, PickersOK
<1>2. IsPicker(p) /\ p.nodes = pickers[r].nodes
  BY <1>1 DEF IsPicker
<1>3. pickers' = [pickers EXCEPT ![r] = p]
  BY DEF Panics
<1> HIDE DEF p
<1> QED BY <1>2, <1>3, PickerKeeps

(* Where walk leaves a picker. *)
LEMMA WalkKeepsPanic ==
    ASSUME PanicInv, AnswerInv, NEW r \in DOMAIN Rules, WalkRoot(r) \/ WalkKid(r)
    PROVE  PanicInv'
PROOF
<1> DEFINE o == pickers[r]  nodes == o.nodes
<1>1. IsPicker(o) /\ ended = "running" /\ UNCHANGED <<called, ended>>
  BY WalkEnters DEF PanicInv, PickersOK
<1>2. PICK n, pos, frames : /\ Walk(r, n, KeyIn(called, n), pos, frames)
                            /\ MayEnter(called, nodes, o.result, n, pos, frames)
  BY WalkEnters
<1>3. ASSUME Panics(r), n \in 1..Len(called.object), called.object[n].kind \in called.breaks,
             LedToIn(called, n, nodes)
      PROVE  PanicInv'
  <2>1. Excused(called, r, nodes)
    BY <1>3 DEF Excused, ReasonIn
  <2> QED BY <1>1, <1>3, <2>1, PanickedPicker
<1>4. ASSUME NEW S \in OnePerKeyIn(called, n),
             pickers' = [pickers EXCEPT ![r] =
                [o EXCEPT !.stack = Append(frames, FrameFor(called, n, S, pos, nodes)),
                          !.result = ResultFor(called, n, S, pos, nodes, o.result),
                          !.at = "walking"]]
      PROVE  PanicInv'
  <2> DEFINE t == Append(frames, FrameFor(called, n, S, pos, nodes))
             more == ResultFor(called, n, S, pos, nodes, o.result)
             p == [o EXCEPT !.stack = t, !.result = more, !.at = "walking"]
  <2>1. pickers' = [pickers EXCEPT ![r] = p]
    BY <1>4
  <2>2. IsPicker(p) /\ p.at = "walking"
    <3>1. IsPicker(o) /\ p = [o EXCEPT !.stack = t, !.result = more, !.at = "walking"]
      BY <1>1
    <3> HIDE DEF o, p, t, more
    <3>2. p = [at |-> "walking", nodes |-> o.nodes, stack |-> t, result |-> more]
      BY <3>1 DEF IsPicker
    <3> QED BY <3>2 DEF IsPicker
  <2> HIDE DEF p
  <2> QED BY <1>1, <2>1, <2>2, PickerKeeps
<1> QED BY <1>1, <1>2, <1>3, <1>4, WalkIs

(* Pick ends. *)
LEMMA FinishKeepsPanic ==
    ASSUME PanicInv, UNCHANGED <<called, pickers>>,
           ended' = "panicked" =>
              /\ Len(Rules) = 1
              /\ \/ ReasonIn(called, Rules[1].text, pickers[1].nodes)
                 \/ /\ called.distinct
                    /\ \E k \in DOMAIN pickers[1].result : Node(pickers[1].result[k]).kind \in Containers
    PROVE  PanicInv'
PROOF
<1>1. Rules' = Rules
  BY DEF Rules
<1>2. \A n : Node(n)' = Node(n)
  BY DEF Node
<1> QED BY <1>1, <1>2 DEF PanicInv, PickersOK, PanickedOK, Node

LEMMA EmptyFinish ==
    ASSUME Finish(<<>>)
    PROVE  ended' = "returned"
BY DEF Finish

LEMMA TextIsText ==
    ASSUME PanicInv, NEW r \in DOMAIN Rules
    PROVE  Rules[r].text \in Seq(Char)
BY PickAssumption DEF PanicInv, PickersOK, Rules

(* PanicInv keeps, for every picker, why it panicked; where its walk is comes
   from AnswerInv. *)
LEMMA PanicInductive == PickSpec => []PanicInv
PROOF
<1>1. PickInit => PanicInv
  <2> SUFFICES ASSUME PickInit PROVE PanicInv
    OBVIOUS
  <2>1. pickers = [r \in DOMAIN Rules |-> NewPicker] /\ called \in Calls /\ ended = "running"
    BY DEF PickInit, Rules
  <2>2. \A r \in DOMAIN Rules : pickers[r] = NewPicker
    BY <2>1
  <2>3. pickers = [r \in DOMAIN Rules |-> pickers[r]]
    BY <2>1
  <2>4. IsPicker(NewPicker) /\ NewPicker.at = "parse"
    BY DEF IsPicker, NewPicker
  <2> QED BY <2>1, <2>2, <2>3, <2>4 DEF PanicInv, PickersOK, PanickedOK
<1>2. PanicInv /\ AnswerInv /\ [PickNext]_pickVars => PanicInv'
  <2> SUFFICES ASSUME PanicInv, AnswerInv, [PickNext]_pickVars PROVE PanicInv'
    OBVIOUS
  <2>1. ASSUME NEW r \in DOMAIN Rules, Parse(r) PROVE PanicInv'
    <3>1. ended = "running" /\ UNCHANGED <<called, ended>>
      BY <2>1 DEF Parse, At
    <3> DEFINE a == parse(Rules[r].text)
    <3>2. \/ (a.panic \/ a.nodes = <<>>) /\ Panics(r)
          \/ pickers' = [pickers EXCEPT ![r].at = "walk", ![r].nodes = a.nodes]
      BY <2>1 DEF Parse
    <3>3. a.panic \/ a.nodes = <<>> => Unfit(Rules[r].text)
      BY TextIsText, ParsePanics
    <3> HIDE DEF a
    <3>4. CASE Panics(r) /\ Unfit(Rules[r].text)
      <4>1. Excused(called, r, pickers[r].nodes)
        BY <3>4 DEF Excused, ReasonIn, Rules
      <4> QED BY <3>1, <3>4, <4>1, PanickedPicker
    <3>5. CASE pickers' = [pickers EXCEPT ![r].at = "walk", ![r].nodes = a.nodes]
      <4> DEFINE p == [pickers[r] EXCEPT !.at = "walk", !.nodes = a.nodes]
      <4>1. pickers' = [pickers EXCEPT ![r] = p]
        BY <3>5
      <4>2. IsPicker(pickers[r])
        BY DEF PanicInv, PickersOK
      <4>3. IsPicker(p) /\ p.at = "walk"
        <5> DEFINE o == pickers[r]
        <5>1. IsPicker(o) /\ p = [o EXCEPT !.at = "walk", !.nodes = a.nodes]
          BY <4>2
        <5> HIDE DEF o, p
        <5>2. p = [at |-> "walk", nodes |-> a.nodes, stack |-> o.stack, result |-> o.result]
          BY <5>1 DEF IsPicker
        <5> QED BY <5>2 DEF IsPicker
      <4> HIDE DEF p
      <4> QED BY <3>1, <4>1, <4>3, PickerKeeps
    <3> QED BY <3>2, <3>3, <3>4, <3>5
  <2>2. ASSUME NEW r \in DOMAIN Rules, WalkRoot(r) \/ WalkKid(r) PROVE PanicInv'
    BY <2>2, WalkKeepsPanic
  <2>4. ASSUME NEW r \in DOMAIN Rules, WalkReturn(r) PROVE PanicInv'
    <3>1. ended = "running" /\ UNCHANGED <<called, ended>> /\ pickers[r].at = "walking"
      BY <2>4 DEF WalkReturn, At
    <3>2. PICK frames, at : /\ pickers' = [pickers EXCEPT ![r].stack = frames, ![r].at = at]
                           /\ at \in {"walked", "walking"}
      <4> DEFINE at == IF Len(pickers[r].stack) = 1 THEN "walked" ELSE pickers[r].at
      <4>1. pickers' = [pickers EXCEPT ![r].stack = Front(pickers[r].stack), ![r].at = at]
        BY <2>4 DEF WalkReturn, PanicInv, PickersOK
      <4>2. at \in {"walked", "walking"}
        BY <3>1
      <4> HIDE DEF at
      <4> QED BY <4>1, <4>2
    <3> DEFINE p == [pickers[r] EXCEPT !.stack = frames, !.at = at]
    <3>3. pickers' = [pickers EXCEPT ![r] = p]
      BY <3>2
    <3>4. IsPicker(pickers[r])
      BY DEF PanicInv, PickersOK
    <3>5. IsPicker(p) /\ p.at = at
      <4> DEFINE o == pickers[r]
      <4>1. IsPicker(o) /\ p = [o EXCEPT !.stack = frames, !.at = at]
        BY <3>4
      <4> HIDE DEF o, p
      <4>2. p = [at |-> at, nodes |-> o.nodes, stack |-> frames, result |-> o.result]
        BY <4>1 DEF IsPicker
      <4> QED BY <4>2 DEF IsPicker
    <3> HIDE DEF p
    <3> QED BY <3>1, <3>2, <3>3, <3>5, PickerKeeps
  <2>5. ASSUME NEW r \in DOMAIN Rules, Store(r) PROVE PanicInv'
    BY <2>5, PanickedPicker DEF Store, At, Excused, Rules
  <2>6. ASSUME PickReturn PROVE PanicInv'
    <3>1. UNCHANGED <<called, pickers>>
      BY <2>6 DEF PickReturn
    <3>2. CASE Rules = <<>> /\ Finish(<<>>)
      <4>1. ended' = "returned"
        BY <3>2, EmptyFinish
      <4> QED BY <3>1, <4>1, FinishKeepsPanic
    <3>3. CASE Len(Rules) = 1 /\ pickers[1].at = "walked" /\ Finish(pickers[1].result)
      <4>1. ended' = "panicked" =>
               /\ called.distinct
               /\ \E k \in DOMAIN pickers[1].result : Node(pickers[1].result[k]).kind \in Containers
        BY <3>3 DEF Finish
      <4> QED BY <3>1, <3>3, <4>1, FinishKeepsPanic
    <3>4. CASE Len(Rules) = 1 /\ pickers[1].at = "panicked"
      <4>1. 1 \in DOMAIN Rules
        BY <3>4, PickAssumption DEF PanicInv, PickersOK, Rules
      <4>2. ReasonIn(called, Rules[1].text, pickers[1].nodes)
        <5>1. Excused(called, 1, pickers[1].nodes)
          BY <3>4, <4>1 DEF PanicInv, PanickedOK
        <5> QED BY <3>4, <5>1 DEF Excused, Rules
      <4> QED BY <3>1, <3>4, <4>2, FinishKeepsPanic
    <3> QED BY <2>6, <3>2, <3>3, <3>4 DEF PickReturn
  <2>7. ASSUME Wait PROVE PanicInv'
    <3>1. UNCHANGED <<called, pickers>> /\ ended' = "returned"
      BY <2>7, EmptyFinish DEF Wait
    <3> QED BY <3>1, FinishKeepsPanic
  <2>8. ASSUME UNCHANGED pickVars PROVE PanicInv'
    <3>1. called' = called /\ pickers' = pickers /\ ended' = ended
      BY <2>8 DEF pickVars
    <3> QED BY <3>1 DEF PanicInv, PickersOK, PanickedOK, Rules, Node
  <2> QED BY <2>1, <2>2, <2>4, <2>5, <2>6, <2>7, <2>8 DEF PickNext
<1> QED BY <1>1, <1>2, AnswersInductive, PTL DEF PickSpec

(* Pick panics only for the one selector it has, and only for a selector that
   gives no node, one with a sign before a bracket or two quotes side by side,
   one that leads to a value at which Cast panics, or because of containers that
   were to be distinct. *)
THEOREM PanicsCorrect == PickSpec => []PanicsExplained
PROOF
<1>1. PanicInv /\ AnswerInv => PanicsExplained
  <2> SUFFICES ASSUME PanicInv, ended = "panicked" PROVE PanicsExplained
    BY DEF PanicsExplained
  <2> DEFINE nodes == pickers[1].nodes
  <2>1. DOMAIN called.object = 1..Len(called.object)
    BY CallIsTree DEF PanicInv, PickersOK, IsTree
  <2>2. \A n : LedTo(n, nodes) <=> LedToIn(called, n, nodes)
    BY SelectedCalled
  <2>3. CASE Unfit(Rules[1].text)
    BY <2>3 DEF PanicInv, PanicsExplained, Unfit, Paired
  <2> HIDE DEF nodes
  <2>4. ASSUME NEW n \in 1..Len(called.object), called.object[n].kind \in called.breaks, LedToIn(called, n, nodes)
        PROVE  PanicsExplained
    <3>1. n \in DOMAIN called.object /\ Breaks(n) /\ LedTo(n, nodes)
      BY <2>1, <2>2, <2>4 DEF Breaks, Node
    <3> QED BY <3>1 DEF PanicInv, PanicsExplained, nodes
  <2>5. CASE called.distinct /\ \E k \in DOMAIN pickers[1].result : Node(pickers[1].result[k]).kind \in Containers
    BY <2>5 DEF PanicInv, PanicsExplained
  <2> QED BY <2>3, <2>4, <2>5 DEF PanicInv, ReasonIn, nodes
<1> QED BY <1>1, PanicInductive, AnswersInductive, PTL

-----------------------------------------------------------------------------
(* The parser reads what a caller writes.  A character that is not the last one
   of an expression, and what the loop of parse or of parseExpr has after a
   stretch of characters, from any state on. *)
ExprIn(e, c) == ExprStep(<<c, c>>, e, 1)

ReadStep(of, p, c) == IF of = "parse" THEN ParseStep(p, c) ELSE ExprIn(p, c)

ReadingFrom(of, p, s, n, f) == f = [k \in 0..n |-> IF k = 0 THEN p ELSE ReadStep(of, f[k - 1], s[k])]

After(of, p, s) == (CHOOSE f : ReadingFrom(of, p, s, Len(s), f))[Len(s)]

LEMMA ReadingExists ==
    ASSUME NEW of, NEW p, NEW s, NEW n \in Nat
    PROVE  \E f : ReadingFrom(of, p, s, n, f)
PROOF
<1> DEFINE T == {m \in 0..n : \E f : ReadingFrom(of, p, s, m, f)}
<1>1. 0 \in T
  <2> DEFINE g == [k \in 0..0 |-> p]
  <2>1. ReadingFrom(of, p, s, 0, g)
    BY DEF ReadingFrom
  <2> QED BY <2>1
<1>2. ASSUME NEW m \in 1..n, m - 1 \in T PROVE m \in T
  <2>1. PICK f : ReadingFrom(of, p, s, m - 1, f)
    BY <1>2
  <2> DEFINE g == [k \in 0..m |-> IF k < m THEN f[k] ELSE ReadStep(of, f[m - 1], s[m])]
  <2>2. ASSUME NEW k \in 0..m
        PROVE  g[k] = IF k = 0 THEN p ELSE ReadStep(of, g[k - 1], s[k])
    <3>1. k < m => f[k] = IF k = 0 THEN p ELSE ReadStep(of, f[k - 1], s[k])
      BY <2>1 DEF ReadingFrom
    <3>2. k # 0 => g[k - 1] = f[k - 1]
      OBVIOUS
    <3> QED BY <3>1, <3>2
  <2>3. ReadingFrom(of, p, s, m, g)
    BY <2>2 DEF ReadingFrom
  <2> QED BY <2>3
<1>3. \A m \in 0..n : m \in T
  <2> HIDE DEF T
  <2> QED BY <1>1, <1>2, StretchInduction
<1> QED BY <1>3

LEMMA AfterNone ==
    ASSUME NEW of, NEW p
    PROVE  After(of, p, <<>>) = p
PROOF
<1> DEFINE e == CHOOSE h : ReadingFrom(of, p, <<>>, 0, h)
<1>1. After(of, p, <<>>) = e[0]
  <2>1. Len(<<>>) = 0
    OBVIOUS
  <2> QED BY <2>1 DEF After
<1>2. ReadingFrom(of, p, <<>>, 0, e)
  BY ReadingExists
<1> HIDE DEF e
<1>3. e[0] = p
  BY <1>2 DEF ReadingFrom
<1> QED BY <1>1, <1>3

LEMMA AfterOne ==
    ASSUME NEW of, NEW p, NEW S, NEW s \in Seq(S), NEW c \in S
    PROVE  After(of, p, Append(s, c)) = ReadStep(of, After(of, p, s), c)
PROOF
<1> DEFINE n == Len(s)
           t == Append(s, c)
           f == CHOOSE h : ReadingFrom(of, p, s, n, h)
           g == CHOOSE h : ReadingFrom(of, p, t, Len(t), h)
<1>1. n \in Nat /\ Len(t) = n + 1 /\ t[n + 1] = c /\ \A k \in 1..n : t[k] = s[k]
  BY AppendProperties
<1>2. After(of, p, s) = f[n] /\ After(of, p, t) = g[Len(t)]
  BY DEF After
<1>3. ReadingFrom(of, p, s, n, f) /\ ReadingFrom(of, p, t, Len(t), g)
  <2>1. n \in Nat /\ Len(t) \in Nat
    BY <1>1
  <2> HIDE DEF n, t
  <2>2. \E h : ReadingFrom(of, p, s, n, h)
    BY <2>1, ReadingExists
  <2>3. \E h : ReadingFrom(of, p, t, Len(t), h)
    BY <2>1, ReadingExists
  <2> QED BY <2>2, <2>3
<1> HIDE DEF n, t, f, g
<1>4. /\ f[0] = p /\ g[0] = p
      /\ \A k \in 1..n : f[k] = ReadStep(of, f[k - 1], s[k])
      /\ \A k \in 1..n + 1 : g[k] = ReadStep(of, g[k - 1], t[k])
  <2>1. \A k \in 0..n : f[k] = IF k = 0 THEN p ELSE ReadStep(of, f[k - 1], s[k])
    BY <1>3 DEF ReadingFrom
  <2>2. \A k \in 0..n + 1 : g[k] = IF k = 0 THEN p ELSE ReadStep(of, g[k - 1], t[k])
    BY <1>1, <1>3 DEF ReadingFrom
  <2> QED BY <1>1, <2>1, <2>2
<1> DEFINE T == {k \in 0..n : f[k] = g[k]}
<1>5. 0 \in T
  BY <1>1, <1>4
<1>6. ASSUME NEW k \in 1..n, k - 1 \in T PROVE k \in T
  <2>1. k \in 0..n /\ k \in 1..n + 1 /\ t[k] = s[k] /\ f[k - 1] = g[k - 1]
    BY <1>1, <1>6
  <2>2. f[k] = ReadStep(of, f[k - 1], s[k]) /\ g[k] = ReadStep(of, g[k - 1], t[k])
    BY <1>4, <2>1
  <2> QED BY <2>1, <2>2
<1>7. \A k \in 0..n : k \in T
  <2> HIDE DEF T
  <2> QED BY <1>1, <1>5, <1>6, StretchInduction
<1>8. f[n] = g[n] /\ n + 1 \in 1..n + 1 /\ (n + 1) - 1 = n
  BY <1>1, <1>7
<1>9. g[n + 1] = ReadStep(of, g[n], c)
  BY <1>1, <1>4, <1>8
<1> QED BY <1>1, <1>2, <1>8, <1>9 DEF t

(* Two stretches of text, one after the other. *)
LEMMA AppendToConcat ==
    ASSUME NEW S, NEW s \in Seq(S), NEW t \in Seq(S), NEW c \in S
    PROVE  s \o t \in Seq(S) /\ s \o Append(t, c) = Append(s \o t, c) /\ s \o <<>> = s
PROOF
<1>1. s \o t \in Seq(S) /\ Len(s) \in Nat /\ Len(t) \in Nat
  OBVIOUS
<1>2. s \o Append(t, c) = Append(s \o t, c)
  OBVIOUS
<1>3. s \o <<>> = s
  BY ConcatEmptySeq
<1> QED BY <1>1, <1>2, <1>3

LEMMA AfterConcat ==
    ASSUME NEW of, NEW p, NEW S, NEW s \in Seq(S), NEW t \in Seq(S)
    PROVE  After(of, p, s \o t) = After(of, After(of, p, s), t)
PROOF
<1> DEFINE T == {u \in Seq(S) : After(of, p, s \o u) = After(of, After(of, p, s), u)}
<1>1. <<>> \in T
  <2>1. s \o <<>> = s /\ <<>> \in Seq(S)
    BY ConcatEmptySeq
  <2> QED BY <2>1, AfterNone
<1>2. ASSUME NEW u \in Seq(S), NEW c \in S, u \in T PROVE Append(u, c) \in T
  <2> DEFINE w == s \o u
  <2>1. w \in Seq(S) /\ s \o Append(u, c) = Append(w, c) /\ Append(u, c) \in Seq(S)
    BY AppendToConcat, AppendProperties
  <2>2. After(of, p, w) = After(of, After(of, p, s), u)
    BY <1>2
  <2> HIDE DEF w
  <2>3. After(of, p, Append(w, c)) = ReadStep(of, After(of, p, w), c)
    BY <2>1, AfterOne
  <2>4. After(of, After(of, p, s), Append(u, c)) = ReadStep(of, After(of, After(of, p, s), u), c)
    BY AfterOne
  <2> QED BY <2>1, <2>2, <2>3, <2>4
<1>3. \A u \in Seq(S) : u \in T
  <2> HIDE DEF T
  <2> QED BY <1>1, <1>2, SequenceInduction
<1> QED BY <1>3

-----------------------------------------------------------------------------
(* The characters of a selector, and those that mean themselves. *)
Special == Space \cup Quotes \cup Signs \cup {"[", "]", "=", ","}

Symbol == Char \cup Special

PlainChar == Char \ Special

LEMMA Alphabet ==
    /\ Quotes \cup Signs \cup {"=", ",", "[", "]"} \subseteq Special
    /\ Special \subseteq Symbol /\ PlainChar \subseteq Symbol /\ PlainChar \cap Special = {}
    /\ "none" \notin Quotes /\ Quotes \cap Signs = {} /\ "=" # "," /\ "[" # "]"
    /\ {"=", ",", "[", "]"} \cap (Quotes \cup Signs) = {} /\ "]" \notin {"=", ","}
PROOF
<1>1. /\ "none" \notin Quotes /\ Quotes \cap Signs = {} /\ "=" # "," /\ "[" # "]"
      /\ {"=", ",", "[", "]"} \cap (Quotes \cup Signs) = {} /\ "]" \notin {"=", ","}
  BY DEF Quotes, Signs
<1>2. /\ Quotes \cup Signs \cup {"=", ",", "[", "]"} \subseteq Special
      /\ Special \subseteq Symbol /\ PlainChar \subseteq Symbol /\ PlainChar \cap Special = {}
  BY DEF Special, Symbol, PlainChar
<1> QED BY <1>1, <1>2

(* An expression half read. *)
Expr(k, v, q, P) == [key |-> k, value |-> v, quote |-> q, props |-> P, panic |-> FALSE]

LEMMA QuoteIn ==
    ASSUME NEW k, NEW v, NEW P, NEW c \in Quotes
    PROVE  ExprIn(Expr(k, v, "none", P), c) = Expr(k, v, c, P)
PROOF
<1> DEFINE str == <<c, c>>  e == Expr(k, v, "none", P)  x == ExprIn(e, c)
<1>1. str[1] = c /\ Len(str) # 1
  OBVIOUS
<1>2. e.quote = "none" /\ e.key = k /\ e.value = v /\ e.props = P /\ ~e.panic
  BY DEF Expr
<1>3. x = ExprChar(str, e, 1)
  BY <1>2 DEF ExprIn, ExprStep
<1> HIDE DEF str, x
<1>4. c \notin Signs \cup {"=", ","}
  BY Alphabet
<1>5. x = [e EXCEPT !.quote = c]
  <2> HIDE DEF e
  <2> QED BY <1>1, <1>2, <1>3, <1>4 DEF ExprChar, x, Quotes, Signs
<1> QED BY <1>5 DEF Expr, x

LEMMA SignIn ==
    ASSUME NEW k, NEW v, NEW P, NEW c \in Signs \cup {"="}
    PROVE  ExprIn(Expr(k, v, "none", P), c) = Expr(k, Append(v, c), "none", P)
PROOF
<1> DEFINE str == <<c, c>>  e == Expr(k, v, "none", P)  x == ExprIn(e, c)
<1>1. str[1] = c /\ Len(str) # 1
  OBVIOUS
<1>2. e.quote = "none" /\ e.key = k /\ e.value = v /\ e.props = P /\ ~e.panic
  BY DEF Expr
<1>3. x = ExprChar(str, e, 1)
  BY <1>2 DEF ExprIn, ExprStep
<1> HIDE DEF str, x
<1>5. CASE c \in Signs
  <2>1. c \notin Quotes /\ c # "," /\ c \notin PlainChar
    BY <1>5, Alphabet
  <2> DEFINE end == 1 = Len(str)
  <2>2. x = [e EXCEPT !.value = Append(@, c), !.panic = @ \/ end]
    BY <1>1, <1>2, <1>3, <1>5, <2>1 DEF ExprChar, Quotes, Signs
  <2>3. x = [key |-> k, value |-> Append(v, c), quote |-> "none", props |-> P, panic |-> FALSE]
    <3>1. end = FALSE /\ e.panic = FALSE
      BY <1>1 DEF Expr
    <3> HIDE DEF end
    <3> QED BY <2>2, <3>1 DEF Expr
  <2> QED BY <2>3 DEF Expr, x
<1>6. CASE c = "="
  <2>1. c \notin Quotes \cup Signs /\ c # "," /\ c \notin PlainChar
    BY <1>6, Alphabet
  <2>2. x = [e EXCEPT !.value = Append(v, c)]
    BY <1>1, <1>2, <1>3, <1>6, <2>1 DEF ExprChar
  <2> QED BY <2>2 DEF Expr, x
<1> QED BY <1>5, <1>6 DEF x

LEMMA CommaIn ==
    ASSUME NEW k, NEW v, NEW P
    PROVE  ExprIn(Expr(k, v, "none", P), ",") = EndPair(Expr(k, v, "none", P))
PROOF
<1> DEFINE c == ","
           str == <<c, c>>  e == Expr(k, v, "none", P)
<1>1. str[1] = c /\ Len(str) # 1
  OBVIOUS
<1>2. e.quote = "none" /\ ~e.panic
  BY DEF Expr
<1>3. ExprIn(e, c) = ExprChar(str, e, 1)
  BY <1>2 DEF ExprIn, ExprStep
<1> HIDE DEF str, e
<1>4. c \notin Quotes \cup Signs /\ c # "="
  BY Alphabet
<1>5. ExprIn(e, c) = EndPair(e)
  BY <1>1, <1>2, <1>3, <1>4 DEF ExprChar
<1> QED BY <1>5 DEF e

LEMMA PlainIn ==
    ASSUME NEW k, NEW v, NEW P, NEW c \in PlainChar
    PROVE  ExprIn(Expr(k, v, "none", P), c) = IF v = <<>> THEN Expr(Append(k, c), v, "none", P)
                                              ELSE Expr(k, Append(v, c), "none", P)
PROOF
<1> DEFINE str == <<c, c>>  e == Expr(k, v, "none", P)  x == ExprIn(e, c)
<1>1. str[1] = c /\ Len(str) # 1
  OBVIOUS
<1>2. e.quote = "none" /\ e.key = k /\ e.value = v /\ e.props = P /\ ~e.panic
  BY DEF Expr
<1>3. x = ExprChar(str, e, 1)
  BY <1>2 DEF ExprIn, ExprStep
<1> HIDE DEF str, x
<1>4. c \notin Quotes \cup Signs \cup {"=", ","}
  BY Alphabet
<1>5. x = IF v = <<>> THEN [e EXCEPT !.key = Append(k, c)] ELSE [e EXCEPT !.value = Append(v, c)]
  BY <1>1, <1>2, <1>3, <1>4 DEF ExprChar
<1> QED BY <1>5 DEF Expr, x

LEMMA QuotedIs ==
    ASSUME NEW k, NEW v, NEW P, NEW q \in Quotes, NEW c \in Symbol, NEW x, x = ExprIn(Expr(k, v, q, P), c)
    PROVE  /\ c # q => x = Expr(k, Append(v, c), q, P)
           /\ c = q /\ v # <<>> => x = Expr(<<>>, <<>>, "none", WithProp(P, k, Prop(v)))
PROOF
<1> DEFINE str == <<c, c>>  e == Expr(k, v, q, P)
<1>1. str[1] = c /\ Len(str) # 1
  OBVIOUS
<1>2. e.quote = q /\ e.key = k /\ e.value = v /\ e.props = P /\ ~e.panic /\ q # "none"
  BY Alphabet DEF Expr
<1>3. x = ExprChar(str, e, 1)
  BY <1>2 DEF ExprIn, ExprStep
<1> HIDE DEF str
<1>4. CASE c # q
  <2>1. x = [e EXCEPT !.value = Append(v, c)]
    <3> HIDE DEF e
    <3> QED BY <1>1, <1>2, <1>3, <1>4 DEF ExprChar
  <2> QED BY <1>4, <2>1 DEF Expr
<1>5. CASE c = q /\ v # <<>>
  <2> DEFINE s == setProp(e, k, v)
  <2>1. x = [s EXCEPT !.quote = "none", !.key = <<>>, !.value = <<>>]
    <3> HIDE DEF e
    <3> QED BY <1>1, <1>2, <1>3, <1>5 DEF ExprChar
  <2>2. s = [e EXCEPT !.props = WithProp(P, k, Prop(v))]
    BY <1>2, <1>5 DEF setProp
  <2> HIDE DEF s
  <2>3. s = Expr(k, v, q, WithProp(P, k, Prop(v)))
    BY <2>2 DEF Expr
  <2> QED BY <1>5, <2>1, <2>3 DEF Expr
<1> QED BY <1>4, <1>5

LEMMA PairEnds ==
    ASSUME NEW k, NEW v, NEW P
    PROVE  EndPair(Expr(k, v, "none", P)) =
              Expr(<<>>, <<>>, "none", IF k # <<>> /\ v # <<>> THEN WithProp(P, k, Prop(v)) ELSE P)
PROOF
<1> DEFINE e == Expr(k, v, "none", P)
<1>1. e.key = k /\ e.value = v /\ e.props = P
  BY DEF Expr
<1>2. CASE k # <<>> /\ v # <<>>
  <2> DEFINE s == setProp(e, k, v)
  <2>1. EndPair(e) = [s EXCEPT !.key = <<>>, !.value = <<>>]
    BY <1>1, <1>2 DEF EndPair
  <2>2. s = [e EXCEPT !.props = WithProp(P, k, Prop(v))]
    BY <1>1, <1>2 DEF setProp
  <2> HIDE DEF s
  <2>3. s = Expr(k, v, "none", WithProp(P, k, Prop(v)))
    BY <2>2 DEF Expr
  <2> QED BY <1>2, <2>1, <2>3 DEF Expr
<1>3. CASE ~(k # <<>> /\ v # <<>>)
  <2>1. EndPair(e) = [e EXCEPT !.key = <<>>, !.value = <<>>]
    BY <1>1, <1>3 DEF EndPair
  <2> QED BY <1>3, <2>1 DEF Expr
<1> QED BY <1>2, <1>3

LEMMA ExprNext ==
    ASSUME NEW e, NEW S, NEW s \in Seq(S), NEW c \in S
    PROVE  After("expr", e, Append(s, c)) = ExprIn(After("expr", e, s), c)
BY AfterOne DEF ReadStep

LEMMA AfterCharacter ==
    ASSUME NEW of, NEW p, NEW c
    PROVE  After(of, p, <<c>>) = ReadStep(of, p, c)
PROOF
<1> DEFINE S == {c}  none == <<>>
<1>1. c \in S /\ none \in Seq(S)
  OBVIOUS
<1>2. Append(none, c) = <<c>>
  OBVIOUS
<1>3. After(of, p, none) = p
  BY AfterNone
<1> HIDE DEF S, none
<1>4. After(of, p, Append(none, c)) = ReadStep(of, After(of, p, none), c)
  BY <1>1, AfterOne
<1> QED BY <1>2, <1>3, <1>4

LEMMA NotNone ==
    ASSUME NEW S, NEW s \in Seq(S), NEW c \in S
    PROVE  Append(s, c) # <<>> /\ Append(s, c) \in Seq(S)
PROOF
<1>1. Len(Append(s, c)) = Len(s) + 1 /\ Len(s) \in Nat /\ Append(s, c) \in Seq(S)
  BY AppendProperties
<1>2. Len(Append(s, c)) # 0
  BY <1>1
<1>3. Len(<<>>) = 0
  OBVIOUS
<1> QED BY <1>1, <1>2, <1>3

(* The name of a property. *)
LEMMA KeyRun ==
    ASSUME NEW P, NEW s \in Seq(PlainChar)
    PROVE  After("expr", Expr(<<>>, <<>>, "none", P), s) = Expr(s, <<>>, "none", P)
PROOF
<1> DEFINE e == Expr(<<>>, <<>>, "none", P)
           T == {t \in Seq(PlainChar) : After("expr", e, t) = Expr(t, <<>>, "none", P)}
<1>1. <<>> \in T
  <2>1. After("expr", e, <<>>) = e
    BY AfterNone
  <2>2. <<>> \in Seq(PlainChar)
    OBVIOUS
  <2> QED BY <2>1, <2>2
<1> HIDE DEF e
<1>2. ASSUME NEW t \in Seq(PlainChar), NEW c \in PlainChar, t \in T PROVE Append(t, c) \in T
  <2>1. After("expr", e, Append(t, c)) = ExprIn(Expr(t, <<>>, "none", P), c)
    BY <1>2, ExprNext
  <2>3. ExprIn(Expr(t, <<>>, "none", P), c) = Expr(Append(t, c), <<>>, "none", P)
    BY PlainIn
  <2>4. Append(t, c) \in Seq(PlainChar)
    BY NotNone
  <2> QED BY <2>1, <2>3, <2>4
<1>3. \A t \in Seq(PlainChar) : t \in T
  <2> HIDE DEF T
  <2> QED BY <1>1, <1>2, SequenceInduction
<1> QED BY <1>3 DEF e

(* The sign after it. *)
LEMMA SignRun ==
    ASSUME NEW P, NEW k, NEW s \in Seq(Signs \cup {"="})
    PROVE  After("expr", Expr(k, <<>>, "none", P), s) = Expr(k, s, "none", P)
PROOF
<1> DEFINE S == Signs \cup {"="}
           e == Expr(k, <<>>, "none", P)
           T == {t \in Seq(S) : After("expr", e, t) = Expr(k, t, "none", P)}
<1>1. <<>> \in T
  <2>1. After("expr", e, <<>>) = e
    BY AfterNone
  <2>2. <<>> \in Seq(S)
    OBVIOUS
  <2> QED BY <2>1, <2>2
<1> HIDE DEF e
<1>2. ASSUME NEW t \in Seq(S), NEW c \in S, t \in T PROVE Append(t, c) \in T
  <2>1. After("expr", e, Append(t, c)) = ExprIn(Expr(k, t, "none", P), c)
    BY <1>2, ExprNext
  <2>3. ExprIn(Expr(k, t, "none", P), c) = Expr(k, Append(t, c), "none", P)
    BY SignIn
  <2>4. Append(t, c) \in Seq(S)
    BY NotNone
  <2> QED BY <2>1, <2>3, <2>4
<1>3. \A t \in Seq(S) : t \in T
  <2> HIDE DEF T, S
  <2> QED BY <1>1, <1>2, SequenceInduction
<1> QED BY <1>3 DEF e

(* A value without quotes. *)
LEMMA ValueRun ==
    ASSUME NEW P, NEW k, NEW v \in Seq(Symbol), v # <<>>, NEW s \in Seq(PlainChar)
    PROVE  After("expr", Expr(k, v, "none", P), s) = Expr(k, v \o s, "none", P)
PROOF
<1> DEFINE e == Expr(k, v, "none", P)
           T == {t \in Seq(PlainChar) : After("expr", e, t) = Expr(k, v \o t, "none", P)}
<1>1. <<>> \in T
  <2>1. After("expr", e, <<>>) = e /\ v \o <<>> = v
    BY AfterNone, ConcatEmptySeq
  <2>2. <<>> \in Seq(PlainChar)
    OBVIOUS
  <2> QED BY <2>1, <2>2
<1> HIDE DEF e
<1>2. ASSUME NEW t \in Seq(PlainChar), NEW c \in PlainChar, t \in T PROVE Append(t, c) \in T
  <2> DEFINE w == v \o t
  <2>1. After("expr", e, Append(t, c)) = ExprIn(Expr(k, w, "none", P), c)
    BY <1>2, ExprNext
  <2>2. c \in Symbol /\ t \in Seq(Symbol)
    <3>1. PlainChar \subseteq Symbol
      BY Alphabet
    <3> QED BY <3>1
  <2>3. v \o Append(t, c) = Append(w, c)
    BY <2>2, AppendToConcat
  <2>4. w # <<>>
    <3>1. Len(w) = Len(v) + Len(t) /\ Len(v) \in Nat /\ Len(t) \in Nat
      BY <2>2
    <3>2. Len(v) # 0
      OBVIOUS
    <3> HIDE DEF w
    <3>3. Len(w) # 0
      BY <3>1, <3>2
    <3> QED BY <3>3
  <2> HIDE DEF w
  <2>5. ExprIn(Expr(k, w, "none", P), c) = Expr(k, Append(w, c), "none", P)
    BY <2>4, PlainIn
  <2>6. Append(t, c) \in Seq(PlainChar)
    BY NotNone
  <2> QED BY <2>1, <2>3, <2>5, <2>6
<1>3. \A t \in Seq(PlainChar) : t \in T
  <2> HIDE DEF T
  <2> QED BY <1>1, <1>2, SequenceInduction
<1> QED BY <1>3 DEF e

(* A value between quotes. *)
LEMMA QuotedRun ==
    ASSUME NEW P, NEW k, NEW v \in Seq(Symbol), NEW q \in Quotes, NEW s \in Seq(Symbol \ {q})
    PROVE  After("expr", Expr(k, v, q, P), s) = Expr(k, v \o s, q, P)
PROOF
<1> DEFINE S == Symbol \ {q}
           e == Expr(k, v, q, P)
           T == {t \in Seq(S) : After("expr", e, t) = Expr(k, v \o t, q, P)}
<1>1. <<>> \in T
  <2>1. After("expr", e, <<>>) = e /\ v \o <<>> = v
    BY AfterNone, ConcatEmptySeq
  <2>2. <<>> \in Seq(S)
    OBVIOUS
  <2> QED BY <2>1, <2>2
<1> HIDE DEF e
<1>2. ASSUME NEW t \in Seq(S), NEW c \in S, t \in T PROVE Append(t, c) \in T
  <2> DEFINE w == v \o t
  <2>1. After("expr", e, Append(t, c)) = ExprIn(Expr(k, w, q, P), c)
    BY <1>2, ExprNext
  <2>2. c \in Symbol /\ c # q /\ t \in Seq(Symbol)
    OBVIOUS
  <2>3. v \o Append(t, c) = Append(w, c)
    BY <2>2, AppendToConcat
  <2> HIDE DEF w
  <2>4. ExprIn(Expr(k, w, q, P), c) = Expr(k, Append(w, c), q, P)
    BY <2>2, QuotedIs
  <2>5. Append(t, c) \in Seq(S)
    BY NotNone
  <2> QED BY <2>1, <2>3, <2>4, <2>5
<1>3. \A t \in Seq(S) : t \in T
  <2> HIDE DEF T, S
  <2> QED BY <1>1, <1>2, SequenceInduction
<1> QED BY <1>3 DEF e

-----------------------------------------------------------------------------
(* What a text starts with, and what is left after it. *)
LEMMA StartsIs ==
    ASSUME NEW S, NEW w \in Seq(S), NEW a, NEW b
    PROVE  /\ Starts(w, <<a>>) <=> Len(w) >= 1 /\ w[1] = a
           /\ Starts(w, <<a, b>>) <=> Len(w) >= 2 /\ w[1] = a /\ w[2] = b
PROOF
<1>1. Len(w) \in Nat /\ Len(<<a>>) = 1 /\ Len(<<a, b>>) = 2
  OBVIOUS
<1>2. ASSUME Len(w) >= 1 PROVE SubSeq(w, 1, 1) = <<a>> <=> w[1] = a
  <2> DEFINE x == SubSeq(w, 1, 1)
  <2>1. Len(x) = 1 /\ x[1] = w[1] /\ x \in Seq(S)
    BY <1>1, <1>2, SubSeqProperties
  <2>2. w[1] \in S
    BY <1>1, <1>2
  <2> HIDE DEF x
  <2>3. ASSUME w[1] = a PROVE x = <<a>>
    <3>1. <<a>> \in Seq(S) /\ \A k \in 1..1 : k = 1
      BY <2>2, <2>3
    <3>2. \A k \in 1..Len(x) : x[k] = <<a>>[k]
      BY <2>1, <2>3, <3>1
    <3> QED BY <1>1, <2>1, <3>1, <3>2, SeqEqual
  <2>4. x = <<a>> => w[1] = a
    BY <2>1
  <2> QED BY <2>3, <2>4 DEF x
<1>3. ASSUME Len(w) >= 2 PROVE SubSeq(w, 1, 2) = <<a, b>> <=> w[1] = a /\ w[2] = b
  <2> DEFINE x == SubSeq(w, 1, 2)
  <2>1. Len(x) = 2 /\ x[1] = w[1] /\ x[2] = w[2] /\ x \in Seq(S)
    BY <1>1, <1>3, SubSeqProperties
  <2>2. w[1] \in S /\ w[2] \in S
    BY <1>1, <1>3
  <2> HIDE DEF x
  <2>3. ASSUME w[1] = a, w[2] = b PROVE x = <<a, b>>
    <3>1. <<a, b>> \in Seq(S) /\ \A k \in 1..2 : k \in {1, 2}
      BY <2>2, <2>3
    <3>2. \A k \in 1..Len(x) : x[k] = <<a, b>>[k]
      BY <2>1, <2>3, <3>1
    <3> QED BY <1>1, <2>1, <3>1, <3>2, SeqEqual
  <2>4. x = <<a, b>> => w[1] = a /\ w[2] = b
    BY <2>1
  <2> QED BY <2>3, <2>4 DEF x
<1> QED BY <1>1, <1>2, <1>3 DEF Starts

LEMMA CutIs ==
    ASSUME NEW S, NEW s \in Seq(S), NEW t \in Seq(S), NEW n, n = Len(s)
    PROVE  Cut(s \o t, n) = t
PROOF
<1> DEFINE w == s \o t
           x == SubSeq(w, n + 1, Len(w))
<1>1. w \in Seq(S) /\ Len(w) = n + Len(t) /\ n \in Nat /\ Len(t) \in Nat
  OBVIOUS
<1>2. \A k \in 1..Len(t) : w[n + k] = t[k]
  BY ConcatProperties
<1> HIDE DEF w
<1>3. /\ x \in Seq(S) /\ Len(x) = Len(t)
      /\ \A k \in 1..Len(t) : x[k] = w[n + k]
  <2>1. n + 1 \in 1..Len(w) + 1 /\ Len(w) \in 0..Len(w)
    BY <1>1
  <2>2. \A k \in 1..Len(t) : (n + 1) + k - 1 = n + k
    BY <1>1
  <2> QED BY <1>1, <2>1, <2>2
<1> HIDE DEF x
<1>4. x = t
  BY <1>1, <1>2, <1>3, SeqEqual
<1> QED BY <1>4 DEF Cut, w, x

LEMMA SignIs ==
    ASSUME NEW op \in Ops
    PROVE  /\ Sign(op) \in Seq(Signs \cup {"="}) /\ Len(Sign(op)) \in {1, 2}
           /\ op \in {"==", "!=", "*="} => Sign(op)[Len(Sign(op))] = "="
PROOF
<1>1. {"*", "!", ">", "<", "="} \subseteq Signs \cup {"="}
  BY DEF Signs
<1>2. CASE op = "=="
  BY <1>1, <1>2 DEF Sign
<1>3. CASE op = "*="
  BY <1>1, <1>3 DEF Sign
<1>4. CASE op = "!="
  BY <1>1, <1>4 DEF Sign
<1>5. CASE op = ">="
  BY <1>1, <1>5 DEF Sign
<1>6. CASE op = ">"
  BY <1>1, <1>6 DEF Sign
<1>7. CASE op = "<="
  BY <1>1, <1>7 DEF Sign
<1>8. CASE op = "<"
  BY <1>1, <1>8 DEF Sign
<1> QED BY <1>2, <1>3, <1>4, <1>5, <1>6, <1>7, <1>8 DEF Ops

IsTest(op) == op \in {"==", "!=", "*="}

LEMMA PropIs ==
    ASSUME NEW op \in Ops, NEW value \in Seq(Symbol), IsTest(op) \/ IsNumeral(value)
    PROVE  Prop(Sign(op) \o value) = [op |-> op, value |-> value]
PROOF
<1> DEFINE w == Sign(op) \o value
<1>1. Sign(op) \in Seq(Symbol) /\ Len(Sign(op)) \in {1, 2}
  <2>1. Signs \cup {"="} \subseteq Symbol
    BY Alphabet
  <2>2. Sign(op) \in Seq(Signs \cup {"="}) /\ Len(Sign(op)) \in {1, 2}
    BY SignIs
  <2> QED BY <2>1, <2>2
<1>2. /\ w \in Seq(Symbol) /\ Len(value) \in Nat /\ Len(w) = Len(Sign(op)) + Len(value)
      /\ \A k \in 1..Len(Sign(op)) : w[k] = Sign(op)[k]
      /\ \A k \in 1..Len(value) : w[Len(Sign(op)) + k] = value[k]
  BY <1>1, ConcatProperties
<1>3. Cut(w, Len(Sign(op))) = value
  BY <1>1, CutIs
<1> DEFINE one == Len(w) >= 1  two == Len(w) >= 2
<1>4. /\ \A a : Starts(w, <<a>>) <=> one /\ w[1] = a
      /\ \A a : Starts(w, <<a, "=">>) <=> two /\ w[1] = a /\ w[2] = "="
  BY <1>2, StartsIs
<1> SUFFICES Prop(w) = [op |-> op, value |-> value]
  OBVIOUS
<1> HIDE DEF w, one, two
<1>5. CASE op \in {"*=", "!=", ">=", "<="}
  <2> DEFINE first == w[1]
  <2>1. Len(Sign(op)) = 2 /\ Sign(op)[2] = "="
        /\ Sign(op)[1] = CASE op = "*=" -> "*" [] op = "!=" -> "!" [] op = ">=" -> ">" [] op = "<=" -> "<"
    BY <1>5 DEF Sign
  <2>2. two /\ one /\ w[2] = "=" /\ first = Sign(op)[1]
    <3>1. Len(Sign(op)) = 2 /\ Sign(op)[2] = "="
      BY <2>1
    <3>2. two /\ one /\ w[2] = Sign(op)[2] /\ w[1] = Sign(op)[1]
      BY <1>2, <3>1 DEF one, two
    <3> QED BY <3>1, <3>2 DEF first
  <2>9. Cut(w, 2) = value
    BY <1>3, <2>1
  <2> HIDE DEF first
  <2>3. /\ Starts(w, <<"*", "=">>) <=> first = "*"
        /\ Starts(w, <<"!", "=">>) <=> first = "!"
        /\ Starts(w, <<">", "=">>) <=> first = ">"
        /\ Starts(w, <<"<", "=">>) <=> first = "<"
        /\ Starts(w, <<">">>) <=> first = ">"
        /\ Starts(w, <<"<">>) <=> first = "<"
    BY <1>4, <2>2, Zenon DEF first
  <2>4. op \in {">=", "<="} => IsNumeral(value)
    BY DEF IsTest
  <2>5. CASE op = "*="
    <3>1. first = "*"
      BY <2>1, <2>2, <2>5
    <3> QED BY <2>9, <2>3, <2>5, <3>1 DEF Prop
  <2>6. CASE op = "!="
    <3>1. first = "!"
      BY <2>1, <2>2, <2>6
    <3> QED BY <2>9, <2>3, <2>6, <3>1 DEF Prop
  <2>7. CASE op = ">="
    <3>1. first = ">"
      BY <2>1, <2>2, <2>7
    <3> QED BY <2>9, <2>3, <2>4, <2>7, <3>1 DEF Prop
  <2>8. CASE op = "<="
    <3>1. first = "<"
      BY <2>1, <2>2, <2>8
    <3> QED BY <2>9, <2>3, <2>4, <2>8, <3>1 DEF Prop
  <2> QED BY <1>5, <2>5, <2>6, <2>7, <2>8
<1>6. CASE op = "=="
  <2>1. Len(Sign(op)) = 1 /\ Sign(op)[1] = "="
    BY <1>6 DEF Sign
  <2>2. one /\ w[1] = "=" /\ Cut(w, 1) = value
    BY <1>2, <1>3, <2>1 DEF one
  <2>3. \A a : Starts(w, <<a>>) \/ Starts(w, <<a, "=">>) => a = "="
    BY <1>4, <2>2
  <2> QED BY <1>6, <2>2, <2>3 DEF Prop
<1>7. CASE op \in {">", "<"}
  <2>1. IsNumeral(value) /\ Len(Sign(op)) = 1 /\ Sign(op)[1] = op
    BY <1>7 DEF IsTest, Sign
  <2>2. Len(value) >= 1 /\ value[1] = "1"
    BY <1>2, <2>1 DEF IsNumeral
  <2>3. one /\ w[1] = op /\ Cut(w, 1) = value /\ w[2] = "1"
    BY <1>2, <1>3, <2>1, <2>2 DEF one
  <2>4. /\ ~Starts(w, <<"*", "=">>) /\ ~Starts(w, <<"!", "=">>)
        /\ ~Starts(w, <<">", "=">>) /\ ~Starts(w, <<"<", "=">>)
        /\ Starts(w, <<">">>) <=> op = ">"
        /\ Starts(w, <<"<">>) <=> op = "<"
    <3>1. w[2] # "="
      BY <2>3
    <3> QED BY <1>4, <2>3, <3>1, Zenon
  <2>5. CASE op = ">"
    BY <2>1, <2>3, <2>4, <2>5 DEF Prop
  <2>6. CASE op = "<"
    BY <2>1, <2>3, <2>4, <2>6 DEF Prop
  <2> QED BY <1>7, <2>5, <2>6
<1> QED BY <1>5, <1>6, <1>7 DEF Ops

(* A text that does not end in a sign. *)
EndsWell(s) == s # <<>> /\ s[Len(s)] \notin Signs

LEMMA LastOfConcat ==
    ASSUME NEW S, NEW s \in Seq(S), NEW t \in Seq(S), EndsWell(t)
    PROVE  s \o t \in Seq(S) /\ EndsWell(s \o t)
PROOF
<1> DEFINE w == s \o t
<1>1. w \in Seq(S) /\ Len(w) = Len(s) + Len(t) /\ Len(s) \in Nat /\ Len(t) \in Nat
  OBVIOUS
<1>2. \A k \in 1..Len(t) : w[Len(s) + k] = t[k]
  BY ConcatProperties
<1>3. Len(t) # 0
  BY DEF EndsWell
<1> HIDE DEF w
<1>4. Len(t) \in 1..Len(t) /\ Len(w) # 0
  BY <1>1, <1>3
<1>5. w[Len(w)] = t[Len(t)]
  BY <1>1, <1>2, <1>4
<1>6. w # <<>>
  BY <1>4
<1>7. EndsWell(w)
  BY <1>5, <1>6 DEF EndsWell
<1> QED BY <1>1, <1>7 DEF w

LEMMA MoreIsNotNone ==
    ASSUME NEW S, NEW s \in Seq(S), s # <<>>, NEW t \in Seq(S)
    PROVE  s \o t \in Seq(S) /\ s \o t # <<>>
PROOF
<1>1. s \o t \in Seq(S) /\ Len(s \o t) = Len(s) + Len(t) /\ Len(s) \in Nat /\ Len(t) \in Nat
  OBVIOUS
<1>2. Len(s) # 0
  OBVIOUS
<1>3. Len(s \o t) # 0
  BY <1>1, <1>2
<1> QED BY <1>1, <1>3

FreshExpr(P) == Expr(<<>>, <<>>, "none", P)

(* An expression of which nothing but a comma or the end is missing. *)
ReadsTo(x, P) ==
    \E k, v, Q : x = Expr(k, v, "none", Q) /\ EndPair(x) = FreshExpr(P)

(* A value that may stand between these quotes, or without any. *)
IsPlainValue(value, quote) ==
    \/ quote = <<>> /\ value \in Seq(PlainChar)
    \/ \E q \in Quotes : quote = <<q>> /\ value \in Seq(Symbol \ {q, "]"})

IsPair(key, prop, quote) ==
    /\ key \in Seq(PlainChar) /\ key # <<>>
    /\ prop = [op |-> prop.op, value |-> prop.value] /\ prop.op \in Ops
    /\ IsTest(prop.op) \/ IsNumeral(prop.value)
    /\ IsPlainValue(prop.value, quote)

LEMMA PairRead ==
    ASSUME NEW P, NEW key, NEW prop, NEW quote, IsPair(key, prop, quote), NEW w, w = WritePair(key, prop, quote)
    PROVE  /\ w \in Seq(Symbol \ {"]"}) /\ EndsWell(w)
           /\ ReadsTo(After("expr", FreshExpr(P), w), WithProp(P, key, prop))
PROOF
<1> DEFINE S == Symbol \ {"]"}
           sign == Sign(prop.op)
           value == prop.value
           s == key \o sign
           v == sign \o value
           N == WithProp(P, key, prop)
           e == FreshExpr(P)
<1>1. PlainChar \subseteq S /\ Signs \cup {"="} \subseteq S /\ Quotes \subseteq S /\ S \subseteq Symbol
      /\ Quotes \cap Signs = {} /\ PlainChar \cap Signs = {} /\ "=" \notin Signs
  BY Alphabet
<1>2. prop.op \in Ops /\ key \in Seq(PlainChar) /\ key # <<>> /\ (IsTest(prop.op) \/ IsNumeral(value))
      /\ IsPlainValue(value, quote) /\ prop = [op |-> prop.op, value |-> value]
  BY DEF IsPair
<1>3. /\ sign \in Seq(Signs \cup {"="}) /\ Len(sign) \in {1, 2}
      /\ IsTest(prop.op) => sign[Len(sign)] = "="
  BY <1>2, SignIs DEF IsTest
<1>4. sign \in Seq(S) /\ key \in Seq(S) /\ sign \in Seq(Symbol) /\ sign # <<>>
  <2> HIDE DEF S, sign
  <2>1. key \in Seq(S)
    BY <1>1, <1>2
  <2>2. sign \in Seq(S)
    BY <1>1, <1>3
  <2>3. sign \in Seq(Symbol)
    BY <1>1, <2>2
  <2>4. Len(sign) # 0
    BY <1>3
  <2>5. sign # <<>>
    BY <2>4
  <2> QED BY <2>1, <2>2, <2>3, <2>5
<1>5. value \in Seq(S) /\ value \in Seq(Symbol)
  <2>1. CASE value \in Seq(PlainChar)
    <3> HIDE DEF S, value
    <3> QED BY <1>1, <2>1
  <2>2. ASSUME NEW q \in Quotes, value \in Seq(Symbol \ {q, "]"}) PROVE value \in Seq(S) /\ value \in Seq(Symbol)
    BY <2>2
  <2> QED BY <1>2, <2>1, <2>2 DEF IsPlainValue
<1>6. w = s \o quote \o value \o quote
  BY DEF WritePair
<1>7. Prop(v) = prop
  BY <1>2, <1>5, PropIs
<1>8. v \in Seq(Symbol) /\ v # <<>>
  <2> HIDE DEF sign, value
  <2> QED BY <1>4, <1>5, MoreIsNotNone
<1>9. s \in Seq(S)
  BY <1>4
<1>10. After("expr", e, s) = Expr(key, sign, "none", P)
  <2>1. After("expr", e, s) = After("expr", After("expr", e, key), sign)
    <3> HIDE DEF e, S, sign
    <3> QED BY <1>4, AfterConcat
  <2>2. After("expr", e, key) = Expr(key, <<>>, "none", P)
    BY <1>2, KeyRun DEF FreshExpr
  <2>3. After("expr", Expr(key, <<>>, "none", P), sign) = Expr(key, sign, "none", P)
    BY <1>3, SignRun
  <2> QED BY <2>1, <2>2, <2>3
<1> HIDE DEF S, sign, value, s, v, N, e
<1>11. CASE quote = <<>> /\ value \in Seq(PlainChar)
  <2>1. w = s \o value
    <3>1. s \o <<>> = s /\ (s \o value) \o <<>> = s \o value
      <4>1. s \o value \in Seq(S)
        BY <1>5, <1>9
      <4> QED BY <1>9, <4>1, ConcatEmptySeq
    <3> QED BY <1>6, <1>11, <3>1
  <2>2. After("expr", e, w) = Expr(key, v, "none", P)
    <3>1. After("expr", e, w) = After("expr", After("expr", e, s), value)
      BY <1>5, <1>9, <2>1, AfterConcat
    <3>2. After("expr", Expr(key, sign, "none", P), value) = Expr(key, v, "none", P)
      BY <1>4, <1>11, ValueRun DEF v
    <3> QED BY <1>10, <3>1, <3>2
  <2>3. EndPair(Expr(key, v, "none", P)) = FreshExpr(N)
    BY <1>2, <1>7, <1>8, PairEnds DEF FreshExpr, N
  <2>4. ReadsTo(After("expr", e, w), N)
    BY <2>2, <2>3 DEF ReadsTo
  <2>5. w \in Seq(S) /\ EndsWell(w)
    <3>1. CASE value = <<>>
      <4>1. sign[Len(sign)] = "="
        <5>1. ~IsNumeral(value)
          BY <3>1 DEF IsNumeral
        <5> QED BY <1>2, <1>3, <5>1 DEF value
      <4>2. EndsWell(sign)
        BY <1>1, <1>4, <4>1 DEF EndsWell
      <4>3. w = key \o sign
        BY <2>1, <3>1, <1>9, ConcatEmptySeq DEF s
      <4> QED BY <1>4, <4>2, <4>3, LastOfConcat
    <3>2. CASE value # <<>>
      <4>1. EndsWell(value)
        <5>1. Len(value) # 0 /\ Len(value) \in Nat
          BY <1>11, <3>2
        <5>2. value[Len(value)] \in PlainChar
          BY <1>11, <5>1
        <5> QED BY <1>1, <3>2, <5>2 DEF EndsWell
      <4> QED BY <1>5, <1>9, <2>1, <4>1, LastOfConcat
    <3> QED BY <3>1, <3>2
  <2> QED BY <2>4, <2>5 DEF S, N, e
<1>12. ASSUME NEW q \in Quotes, quote = <<q>>, value \in Seq(Symbol \ {q, "]"})
       PROVE  w \in Seq(S) /\ EndsWell(w) /\ ReadsTo(After("expr", e, w), N)
  <2> DEFINE a == s \o quote  b == a \o value
  <2>1. quote \in Seq(S) /\ EndsWell(quote) /\ w = b \o quote
    <3>1. q \in S /\ q \notin Signs
      BY <1>1
    <3>2. quote \in Seq(S) /\ quote # <<>> /\ Len(quote) = 1 /\ quote[1] = q
      BY <1>12, <3>1
    <3> QED BY <1>6, <3>1, <3>2 DEF EndsWell
  <2>2. a \in Seq(S) /\ b \in Seq(S)
    BY <1>5, <1>9, <2>1
  <2> HIDE DEF a, b
  <2>3. w \in Seq(S) /\ EndsWell(w)
    BY <2>1, <2>2, LastOfConcat
  <2>4. After("expr", e, a) = Expr(key, sign, q, P)
    <3>1. After("expr", e, a) = After("expr", Expr(key, sign, "none", P), quote)
      BY <1>9, <1>10, <2>1, AfterConcat DEF a
    <3>2. After("expr", Expr(key, sign, "none", P), quote) = ExprIn(Expr(key, sign, "none", P), q)
      BY <1>12, AfterCharacter DEF ReadStep
    <3> QED BY <3>1, <3>2, QuoteIn
  <2>5. After("expr", e, b) = Expr(key, v, q, P)
    <3>1. After("expr", e, b) = After("expr", Expr(key, sign, q, P), value)
      BY <1>5, <2>2, <2>4, AfterConcat DEF b
    <3>2. value \in Seq(Symbol \ {q})
      BY <1>12
    <3>3. After("expr", Expr(key, sign, q, P), value) = Expr(key, v, q, P)
      BY <1>4, <3>2, QuotedRun DEF v
    <3> QED BY <3>1, <3>3
  <2>6. After("expr", e, w) = FreshExpr(N)
    <3>1. After("expr", e, w) = After("expr", Expr(key, v, q, P), quote)
      BY <2>1, <2>2, <2>5, AfterConcat
    <3>2. After("expr", Expr(key, v, q, P), quote) = ExprIn(Expr(key, v, q, P), q)
      BY <1>12, AfterCharacter DEF ReadStep
    <3>3. q \in Symbol
      BY <1>1
    <3>4. ExprIn(Expr(key, v, q, P), q) = Expr(<<>>, <<>>, "none", WithProp(P, key, Prop(v)))
      BY <1>8, <3>3, QuotedIs
    <3> QED BY <1>7, <3>1, <3>2, <3>4 DEF FreshExpr, N
  <2>7. EndPair(FreshExpr(N)) = FreshExpr(N)
    BY PairEnds DEF FreshExpr
  <2>8. ReadsTo(After("expr", e, w), N)
    BY <2>6, <2>7 DEF ReadsTo, FreshExpr
  <2> QED BY <2>3, <2>8
<1> QED BY <1>2, <1>11, <1>12 DEF IsPlainValue, S, N, e

(* parseExpr reads a text that does not end in a sign as the loop without
   looking ahead does. *)
LEMMA ExprCharsIs ==
    ASSUME NEW S, NEW str \in Seq(S), EndsWell(str)
    PROVE  ExprChars(str) = After("expr", NewExpr, str)
PROOF
<1> DEFINE n == Len(str)
           f == CHOOSE h : ExpressingOf(str, n, h)
           g == CHOOSE h : ReadingFrom("expr", NewExpr, str, n, h)
<1>1. n \in Nat
  OBVIOUS
<1>2. ExprChars(str) = f[n] /\ After("expr", NewExpr, str) = g[n]
  BY DEF ExprChars, After, ExpressingOf
<1>3. ExpressingOf(str, n, f) /\ ReadingFrom("expr", NewExpr, str, n, g)
  <2> HIDE DEF n
  <2>1. (\E h : ExpressingOf(str, n, h)) /\ \E h : ReadingFrom("expr", NewExpr, str, n, h)
    BY <1>1, ExpressingExists, ReadingExists
  <2> QED BY <2>1
<1> HIDE DEF f, g
<1>4. /\ f[0] = NewExpr /\ g[0] = NewExpr
      /\ \A k \in 1..n : f[k] = ExprStep(str, f[k - 1], k) /\ g[k] = ExprIn(g[k - 1], str[k])
  <2>1. \A k \in 0..n : f[k] = IF k = 0 THEN NewExpr ELSE ExprStep(str, f[k - 1], k)
    BY <1>3 DEF ExpressingOf
  <2>2. \A k \in 0..n : g[k] = IF k = 0 THEN NewExpr ELSE ExprIn(g[k - 1], str[k])
    BY <1>3 DEF ReadingFrom, ReadStep
  <2> HIDE DEF n
  <2> QED BY <1>1, <2>1, <2>2
<1>5. ASSUME NEW k \in 1..n, NEW e PROVE ExprStep(str, e, k) = ExprIn(e, str[k])
  <2> DEFINE c == str[k]  two == <<c, c>>  last == k = Len(str)  never == 1 = Len(two)
  <2>1. two[1] = c /\ ~never
    OBVIOUS
  <2>2. c \in Signs => ~last
    BY DEF EndsWell
  <2>3. CASE e.panic
    BY <2>3 DEF ExprStep, ExprIn
  <2>4. CASE ~e.panic
    <3>1. ExprStep(str, e, k) = ExprChar(str, e, k) /\ ExprIn(e, c) = ExprChar(two, e, 1)
      BY <2>4 DEF ExprStep, ExprIn
    <3>2. CASE c \in Signs
      <4>1. last = FALSE /\ never = FALSE
        BY <2>1, <2>2, <3>2
      <4> HIDE DEF two, last, never
      <4>2. ExprChar(str, e, k) = ExprChar(two, e, 1)
        BY <2>1, <4>1 DEF ExprChar, c, last, never
      <4> QED BY <3>1, <4>2 DEF c
    <3>3. CASE c \notin Signs
      <4> HIDE DEF two
      <4>1. ExprChar(str, e, k) = ExprChar(two, e, 1)
        BY <2>1, <3>3 DEF ExprChar
      <4> QED BY <3>1, <4>1
    <3> QED BY <3>2, <3>3
  <2> QED BY <2>3, <2>4
<1> DEFINE T == {k \in 0..n : f[k] = g[k]}
<1>6. 0 \in T
  BY <1>1, <1>4
<1>7. ASSUME NEW k \in 1..n, k - 1 \in T PROVE k \in T
  <2>1. k \in 0..n /\ f[k - 1] = g[k - 1] /\ f[k] = ExprStep(str, f[k - 1], k) /\ g[k] = ExprIn(g[k - 1], str[k])
    BY <1>4, <1>7
  <2> QED BY <1>5, <2>1
<1>8. \A k \in 0..n : k \in T
  <2> HIDE DEF T, n
  <2> QED BY <1>1, <1>6, <1>7, StretchInduction
<1>9. f[n] = g[n]
  BY <1>1, <1>8
<1> QED BY <1>2, <1>9

(* Parts of a text, one after the other. *)
JoiningOf(parts, separator, n, f) ==
    f = [k \in 0..n |-> IF k = 0 THEN <<>>
                        ELSE IF k = 1 THEN parts[1] ELSE f[k - 1] \o separator \o parts[k]]

LEMMA JoinedIs ==
    ASSUME NEW parts, Len(parts) \in Nat, NEW separator
    PROVE  \E f : /\ Joined(parts, separator) = f[Len(parts)]
                  /\ \A k \in 1..Len(parts) :
                       f[k] = IF k = 1 THEN parts[1] ELSE f[k - 1] \o separator \o parts[k]
PROOF
<1> DEFINE n == Len(parts)
           T == {m \in 0..n : \E f : JoiningOf(parts, separator, m, f)}
           f == CHOOSE h : JoiningOf(parts, separator, n, h)
<1>1. 0 \in T
  <2> DEFINE g == [k \in 0..0 |-> <<>>]
  <2>1. JoiningOf(parts, separator, 0, g)
    BY DEF JoiningOf
  <2> QED BY <2>1
<1>2. ASSUME NEW m \in 1..n, m - 1 \in T PROVE m \in T
  <2>1. PICK h : JoiningOf(parts, separator, m - 1, h)
    BY <1>2
  <2> DEFINE Further(k, p) == IF k = 0 THEN <<>> ELSE IF k = 1 THEN parts[1] ELSE p \o separator \o parts[k]
             g == [k \in 0..m |-> IF k < m THEN h[k] ELSE Further(m, h[m - 1])]
  <2>2. ASSUME NEW k \in 0..m PROVE g[k] = Further(k, g[k - 1])
    <3>1. k < m => h[k] = Further(k, h[k - 1])
      BY <2>1 DEF JoiningOf
    <3>2. k # 0 => g[k - 1] = h[k - 1]
      OBVIOUS
    <3>3. k = 0 => Further(k, g[k - 1]) = Further(k, h[k - 1])
      OBVIOUS
    <3> QED BY <3>1, <3>2, <3>3
  <2>3. JoiningOf(parts, separator, m, g)
    BY <2>2 DEF JoiningOf
  <2> QED BY <2>3
<1>3. n \in T
  <2>1. \A m \in 0..n : m \in T
    <3> HIDE DEF T, n
    <3>1. n \in Nat
      BY DEF n
    <3> QED BY <1>1, <1>2, <3>1, StretchInduction
  <2> HIDE DEF T
  <2> QED BY <2>1
<1>4. JoiningOf(parts, separator, n, f)
  BY <1>3
<1>5. Joined(parts, separator) = f[n]
  BY DEF Joined, JoiningOf
<1> HIDE DEF f
<1>6. \A k \in 0..n : f[k] = IF k = 0 THEN <<>>
                             ELSE IF k = 1 THEN parts[1] ELSE f[k - 1] \o separator \o parts[k]
  BY <1>4 DEF JoiningOf
<1> QED BY <1>5, <1>6

(* The properties with the first k names. *)
WithFirst(props, keys, k) == [p \in {keys[j] : j \in 1..k} |-> props[p]]

WithCommas(pairs) == Joined(pairs, <<",">>)

ArePairs(n, keys, props, quote, pairs) ==
    /\ n \in Nat /\ n # 0 /\ Len(pairs) = n
    /\ \A k \in 1..n : /\ IsPair(keys[k], props[keys[k]], quote)
                       /\ pairs[k] = WritePair(keys[k], props[keys[k]], quote)

LEMMA PairsRead ==
    ASSUME NEW n, NEW keys, NEW props, NEW quote, NEW pairs, ArePairs(n, keys, props, quote, pairs),
           NEW text, text = WithCommas(pairs)
    PROVE  /\ text \in Seq(Symbol \ {"]"}) /\ text # <<>>
           /\ parseExpr(text) = FreshExpr(WithFirst(props, keys, n))
PROOF
<1> DEFINE S == Symbol \ {"]"}
           comma == ","
           P(k) == WithFirst(props, keys, k)
           Read(t, k) == t \in Seq(S) /\ EndsWell(t) /\ ReadsTo(After("expr", NewExpr, t), P(k))
<1>0. /\ n \in Nat /\ n # 0 /\ Len(pairs) = n
      /\ \A k \in 1..n : /\ IsPair(keys[k], props[keys[k]], quote)
                         /\ pairs[k] = WritePair(keys[k], props[keys[k]], quote)
  BY DEF ArePairs
<1>1. PICK f : /\ text = f[n]
               /\ \A k \in 1..n : f[k] = IF k = 1 THEN pairs[1] ELSE f[k - 1] \o <<comma>> \o pairs[k]
  <2> HIDE DEF comma
  <2>1. \E f : /\ Joined(pairs, <<comma>>) = f[Len(pairs)]
               /\ \A k \in 1..Len(pairs) : f[k] = IF k = 1 THEN pairs[1] ELSE f[k - 1] \o <<comma>> \o pairs[k]
    BY <1>0, JoinedIs
  <2>2. text = Joined(pairs, <<comma>>)
    BY DEF comma, WithCommas
  <2> QED BY <1>0, <2>1, <2>2
<1>3. ASSUME NEW k \in 1..n PROVE WithProp(P(k - 1), keys[k], props[keys[k]]) = P(k)
  <2>1. \A j \in 1..k : j = k \/ j \in 1..k - 1
    OBVIOUS
  <2>2. {keys[j] : j \in 1..k} = {keys[j] : j \in 1..k - 1} \cup {keys[k]}
    <3>1. \A j \in 1..k - 1 : j \in 1..k
      OBVIOUS
    <3>2. k \in 1..k
      OBVIOUS
    <3> QED BY <2>1, <3>1, <3>2
  <2> QED BY <2>2 DEF WithProp, WithFirst
<1>4. ASSUME NEW k \in 1..n, NEW Q
      PROVE  /\ pairs[k] \in Seq(S) /\ EndsWell(pairs[k])
             /\ ReadsTo(After("expr", FreshExpr(Q), pairs[k]), WithProp(Q, keys[k], props[keys[k]]))
  <2>1. IsPair(keys[k], props[keys[k]], quote) /\ pairs[k] = WritePair(keys[k], props[keys[k]], quote)
    BY <1>0
  <2> QED BY <2>1, PairRead
<1>5. NewExpr = FreshExpr(P(0))
  <2>1. P(0) = <<>>
    <3> DEFINE D == {keys[j] : j \in 1..0}
    <3>1. D = {}
      <4>1. ~\E j \in 1..0 : TRUE
        OBVIOUS
      <4> QED BY <4>1
    <3>2. P(0) = [p \in D |-> props[p]]
      BY DEF WithFirst
    <3> HIDE DEF D
    <3> QED BY <3>1, <3>2
  <2> QED BY <2>1 DEF NewExpr, FreshExpr, Expr
<1>6. Read(f[1], 1)
  <2>1. f[1] = pairs[1] /\ 1 \in 1..n
    <3>1. 1 \in 1..n
      BY <1>0
    <3> HIDE DEF comma, S, P
    <3> QED BY <1>1, <3>1
  <2> HIDE DEF P
  <2>2. WithProp(P(0), keys[1], props[keys[1]]) = P(1)
    BY <1>3, <2>1
  <2> QED BY <1>4, <1>5, <2>1, <2>2
<1>7. comma \in S /\ <<comma>> \in Seq(S)
  <2>1. comma \in S
    BY Alphabet
  <2> HIDE DEF comma, S
  <2> QED BY <2>1
<1>8. ASSUME NEW k \in 1..n, k # 1, Read(f[k - 1], k - 1) PROVE Read(f[k], k)
  <2> DEFINE t == f[k - 1]  u == Append(t, comma)  x == After("expr", NewExpr, t)
  <2>1. t \in Seq(S) /\ ReadsTo(x, P(k - 1))
    BY <1>8
  <2>2. f[k] = u \o pairs[k] /\ u \in Seq(S)
    <3>1. f[k] = t \o <<comma>> \o pairs[k]
      BY <1>1, <1>8
    <3> HIDE DEF comma, S, t
    <3>2. t \o <<comma>> = u /\ u \in Seq(S)
      BY <1>7, <2>1
    <3> QED BY <3>1, <3>2
  <2>3. /\ pairs[k] \in Seq(S) /\ EndsWell(pairs[k])
        /\ ReadsTo(After("expr", FreshExpr(P(k - 1)), pairs[k]), P(k))
    <3> HIDE DEF P, S
    <3> QED BY <1>3, <1>4
  <2>4. After("expr", NewExpr, u) = ExprIn(x, comma)
    <3> HIDE DEF S, comma
    <3> QED BY <1>7, <2>1, ExprNext
  <2>5. ExprIn(x, comma) = FreshExpr(P(k - 1))
    <3> HIDE DEF P, x
    <3>1. PICK a, v, Q : x = Expr(a, v, "none", Q) /\ EndPair(x) = FreshExpr(P(k - 1))
      BY <2>1 DEF ReadsTo
    <3> QED BY <3>1, CommaIn
  <2> HIDE DEF t, u, x, P, S
  <2>6. After("expr", NewExpr, f[k]) = After("expr", FreshExpr(P(k - 1)), pairs[k])
    <3>1. After("expr", NewExpr, u \o pairs[k]) = After("expr", After("expr", NewExpr, u), pairs[k])
      BY <2>2, <2>3, AfterConcat
    <3> QED BY <2>2, <2>4, <2>5, <3>1
  <2>7. f[k] \in Seq(S) /\ EndsWell(f[k])
    BY <2>2, <2>3, LastOfConcat
  <2> QED BY <2>3, <2>6, <2>7
<1> DEFINE T == {k \in 0..n : k = 0 \/ Read(f[k], k)}
<1> HIDE DEF Read
<1>9. 0 \in T
  BY <1>0
<1>10. ASSUME NEW k \in 1..n, k - 1 \in T PROVE k \in T
  <2> HIDE DEF Read
  <2>1. CASE k = 1
    BY <1>6, <2>1
  <2>2. CASE k # 1
    <3>1. Read(f[k - 1], k - 1)
      BY <1>10, <2>2
    <3> QED BY <1>8, <2>2, <3>1
  <2> QED BY <2>1, <2>2
<1>11. Read(f[n], n)
  <2>1. \A k \in 0..n : k \in T
    <3> HIDE DEF T
    <3> QED BY <1>0, <1>9, <1>10, StretchInduction
  <2>2. n \in 0..n /\ n # 0
    BY <1>0
  <2> QED BY <2>1, <2>2
<1>12. text \in Seq(S) /\ EndsWell(text) /\ ReadsTo(After("expr", NewExpr, text), P(n))
  <2> HIDE DEF P, S
  <2> QED BY <1>1, <1>11 DEF Read
<1>13. ExprChars(text) = After("expr", NewExpr, text)
  BY <1>12, ExprCharsIs
<1>14. PICK k, v, Q : ExprChars(text) = Expr(k, v, "none", Q) /\ EndPair(ExprChars(text)) = FreshExpr(P(n))
  BY <1>12, <1>13 DEF ReadsTo
<1>15. ~Expr(k, v, "none", Q).panic
  BY DEF Expr
<1>16. parseExpr(text) = FreshExpr(P(n))
  BY <1>14, <1>15 DEF parseExpr
<1> QED BY <1>12, <1>16 DEF EndsWell

-----------------------------------------------------------------------------
(* The parser between two nodes, in a word and in the brackets of the last node. *)
Between(N) == [nodes |-> N, current |-> FALSE, buf |-> <<>>, inside |-> FALSE, panic |-> FALSE]

InWord(N, buf) == [nodes |-> N, current |-> TRUE, buf |-> buf, inside |-> FALSE, panic |-> FALSE]

Inside(N, buf) == [nodes |-> N, current |-> TRUE, buf |-> buf, inside |-> TRUE, panic |-> FALSE]

NewNode(key, props) == [key |-> key, props |-> props]

LEMMA NewParseIs == NewParse = Between(<<>>)
BY DEF NewParse, Between

LEMMA OneChanged ==
    ASSUME NEW S, NEW s \in Seq(S), NEW m \in 1..Len(s), NEW e \in S, NEW x, x = [s EXCEPT ![m] = e]
    PROVE  x \in Seq(S) /\ Len(x) = Len(s) /\ x[m] = e /\ \A k \in 1..Len(s) : k # m => x[k] = s[k]
BY ExceptSeq

(* What a node of a selector still lacks is put into the last one. *)
LEMMA LastChanged ==
    ASSUME NEW S, NEW M \in Seq(S), NEW d \in S
    PROVE  /\ Len(Append(M, d)) = Len(M) + 1 /\ Len(M) \in Nat
           /\ Append(M, d)[Len(M) + 1] = d
           /\ \A e : [Append(M, d) EXCEPT ![Len(M) + 1] = e] = Append(M, e)
PROOF
<1> DEFINE n == Len(M)
<1>1. Len(Append(M, d)) = n + 1 /\ n \in Nat /\ Append(M, d)[n + 1] = d
  BY AppendProperties
<1>2. ASSUME NEW e PROVE [Append(M, d) EXCEPT ![n + 1] = e] = Append(M, e)
  <2> DEFINE x == [Append(M, d) EXCEPT ![n + 1] = e]  T == S \cup {e}
  <2>1. M \in Seq(T) /\ e \in T /\ d \in T
    OBVIOUS
  <2>2. /\ Append(M, e) \in Seq(T) /\ Len(Append(M, e)) = n + 1 /\ Append(M, e)[n + 1] = e
        /\ \A k \in 1..n : Append(M, e)[k] = M[k]
    <3> HIDE DEF T
    <3> QED BY <2>1, AppendProperties
  <2>3. /\ Append(M, d) \in Seq(T) /\ \A k \in 1..n : Append(M, d)[k] = M[k]
    <3> HIDE DEF T
    <3> QED BY <2>1, AppendProperties
  <2>4. x \in Seq(T) /\ Len(x) = n + 1 /\ x[n + 1] = e /\ \A k \in 1..n : x[k] = Append(M, d)[k]
    <3> DEFINE y == Append(M, d)  m == n + 1
    <3>1. y \in Seq(T) /\ Len(y) = m /\ n \in Nat /\ x = [y EXCEPT ![m] = e] /\ m \in 1..Len(y)
      BY <1>1, <2>3
    <3>2. \A k \in 1..n : k # m /\ k \in 1..Len(y)
      BY <1>1
    <3> HIDE DEF T, x, y, n, m
    <3>3. x \in Seq(T) /\ Len(x) = Len(y) /\ x[m] = e /\ \A k \in 1..n : x[k] = y[k]
      BY <2>1, <3>1, <3>2, OneChanged
    <3> QED BY <3>1, <3>3 DEF y, m
  <2>5. \A k \in 1..n + 1 : k \in 1..n \/ k = n + 1
    BY <1>1
  <2> HIDE DEF x, T
  <2>6. \A k \in 1..Len(x) : x[k] = Append(M, e)[k]
    BY <2>2, <2>3, <2>4, <2>5
  <2>7. x = Append(M, e)
    BY <2>2, <2>4, <2>6, SeqEqual
  <2> QED BY <2>7 DEF x
<1> QED BY <1>1, <1>2

(* One character of a selector. *)
LEMMA WordNext ==
    ASSUME NEW N, NEW buf, NEW c, IsWord(c)
    PROVE  ReadStep("parse", InWord(N, buf), c) = InWord(N, Append(buf, c))
PROOF
<1> DEFINE p == InWord(N, buf)  x == ReadStep("parse", p, c)
<1>1. ~p.panic /\ ~p.inside /\ p.current
  BY DEF InWord, Inside, Between
<1>2. c \notin Space /\ c # "[" /\ c # "]"
  BY DEF IsWord
<1>3. x = [p EXCEPT !.buf = Append(@, c)]
  <2> HIDE DEF p
  <2>1. x = ParseChar(p, c)
    BY <1>1 DEF ReadStep, ParseStep
  <2>2. WithNode(p) = p
    BY <1>1 DEF WithNode
  <2> HIDE DEF x
  <2> QED BY <1>1, <1>2, <2>1, <2>2 DEF ParseChar, IsWord
<1> HIDE DEF x
<1>4. x = InWord(N, Append(buf, c))
  BY <1>3 DEF InWord, Inside, Between
<1> QED BY <1>4 DEF x

LEMMA WordFirst ==
    ASSUME NEW N, NEW c, IsWord(c)
    PROVE  ReadStep("parse", Between(N), c)
              = InWord(Append(N, NewNode(<<>>, <<>>)), Append(<<>>, c))
PROOF
<1> DEFINE p == Between(N)  x == ReadStep("parse", p, c)  M == Append(N, NewNode(<<>>, <<>>))
<1>1. ~p.panic /\ ~p.inside /\ ~p.current /\ p.nodes = N
  BY DEF InWord, Inside, Between
<1>2. c \notin Space /\ c # "[" /\ c # "]"
  BY DEF IsWord
<1>3. x = [[p EXCEPT !.current = TRUE, !.nodes = M] EXCEPT !.buf = Append(@, c)]
  <2> HIDE DEF p
  <2>1. x = ParseChar(p, c)
    BY <1>1 DEF ReadStep, ParseStep
  <2>2. WithNode(p) = [p EXCEPT !.current = TRUE, !.nodes = M]
    BY <1>1 DEF WithNode, NewNode
  <2> HIDE DEF x, M
  <2>3. x = [WithNode(p) EXCEPT !.buf = Append(@, c)]
    BY <1>1, <1>2, <2>1 DEF ParseChar, IsWord
  <2> QED BY <2>2, <2>3
<1> HIDE DEF x, M
<1>4. x = InWord(M, Append(<<>>, c))
  BY <1>3 DEF InWord, Inside, Between
<1> QED BY <1>4 DEF x, M

LEMMA InsideIn ==
    ASSUME NEW N, NEW buf, NEW c, c # "]"
    PROVE  ReadStep("parse", Inside(N, buf), c) = Inside(N, Append(buf, c))
PROOF
<1> DEFINE p == Inside(N, buf)
<1>1. ~p.panic /\ p.inside
  BY DEF InWord, Inside, Between
<1> HIDE DEF p
<1>2. ReadStep("parse", p, c) = ParseChar(p, c)
  BY <1>1 DEF ReadStep, ParseStep
<1>3. ReadStep("parse", p, c) = [p EXCEPT !.buf = Append(@, c)]
  BY <1>1, <1>2 DEF ParseChar
<1> QED BY <1>3 DEF p, InWord, Inside, Between

Close == "]"

LEMMA CloseIn ==
    ASSUME NEW S, NEW M \in Seq(S), NEW key, NewNode(key, <<>>) \in S,
           NEW buf, NEW props, parseExpr(buf) = FreshExpr(props)
    PROVE  ReadStep("parse", Inside(Append(M, NewNode(key, <<>>)), buf), Close) = Between(Append(M, NewNode(key, props)))
PROOF
<1> DEFINE d == NewNode(key, <<>>)  N == Append(M, d)  p == Inside(N, buf)
           e == parseExpr(p.buf)  n == Len(p.nodes)
<1>1. ~p.panic /\ p.inside /\ p.nodes = N /\ p.buf = buf
  BY DEF InWord, Inside, Between
<1>2. n = Len(M) + 1 /\ N[n] = d /\ \A x : [N EXCEPT ![n] = x] = Append(M, x)
  <2>1. d \in S /\ n = Len(N)
    BY <1>1
  <2> HIDE DEF d, n
  <2> QED BY <2>1, LastChanged
<1>3. e.props = props /\ e.panic = FALSE
  <2>1. e = FreshExpr(props)
    BY <1>1
  <2> HIDE DEF e
  <2> QED BY <2>1 DEF FreshExpr, Expr
<1> HIDE DEF e, n, N
<1>4. ReadStep("parse", p, Close) = ParseChar(p, Close)
  <2> HIDE DEF p
  <2> QED BY <1>1 DEF ReadStep, ParseStep
<1>5. ReadStep("parse", p, Close) =
         [p EXCEPT !.nodes[n].props = props, !.panic = FALSE, !.buf = <<>>, !.inside = FALSE, !.current = FALSE]
  <2> HIDE DEF p
  <2> QED BY <1>1, <1>3, <1>4 DEF ParseChar, e, n, Close
<1>6. ReadStep("parse", p, Close) = Between([N EXCEPT ![n] = [N[n] EXCEPT !.props = props]])
  BY <1>5 DEF Between, InWord, Inside
<1>7. [N[n] EXCEPT !.props = props] = NewNode(key, props)
  BY <1>2 DEF NewNode
<1> QED BY <1>2, <1>6, <1>7 DEF N

(* A blank ends a node, or is between two. *)
LEMMA BlankIn ==
    ASSUME NEW S, NEW M \in Seq(S), NEW buf, buf # <<>>, NewNode(<<>>, <<>>) \in S, NEW c \in Space
    PROVE  ReadStep("parse", InWord(Append(M, NewNode(<<>>, <<>>)), buf), c)
              = Between(Append(M, NewNode(buf, <<>>)))
PROOF
<1> DEFINE d == NewNode(<<>>, <<>>)  N == Append(M, d)  p == InWord(N, buf)  n == Len(p.nodes)
<1>1. ~p.panic /\ ~p.inside /\ p.nodes = N /\ p.buf = buf /\ p.current
  BY DEF InWord
<1>2. n = Len(M) + 1 /\ N[n] = d /\ \A x : [N EXCEPT ![n] = x] = Append(M, x)
  <2>1. d \in S /\ n = Len(N)
    BY <1>1
  <2> HIDE DEF d, n
  <2> QED BY <2>1, LastChanged
<1>0. ~IsWord(c) /\ c # "["
  BY DEF IsWord, Space
<1> HIDE DEF n, N
<1>3. ReadStep("parse", p, c) = [Keyed(p) EXCEPT !.current = FALSE]
  <2> HIDE DEF p
  <2>1. ReadStep("parse", p, c) = ParseChar(p, c)
    BY <1>1 DEF ReadStep, ParseStep
  <2> QED BY <1>0, <1>1, <2>1 DEF ParseChar
<1>4. Keyed(p) = [p EXCEPT !.nodes[n].key = buf, !.buf = <<>>]
  BY <1>1 DEF Keyed, n
<1>5. ReadStep("parse", p, c) = Between([N EXCEPT ![n] = [N[n] EXCEPT !.key = buf]])
  BY <1>3, <1>4 DEF Between, InWord, Inside
<1>6. [N[n] EXCEPT !.key = buf] = NewNode(buf, <<>>)
  BY <1>2 DEF NewNode
<1> QED BY <1>2, <1>5, <1>6 DEF N

LEMMA BetweenIn ==
    ASSUME NEW M, NEW c \in Space
    PROVE  ReadStep("parse", Between(M), c) = Between(M)
PROOF
<1> DEFINE q == Between(M)
<1>1. ~q.panic /\ ~q.inside /\ ~q.current
  BY DEF Between, InWord, Inside
<1>2. ~IsWord(c) /\ c # "["
  BY DEF IsWord, Space
<1> HIDE DEF q
<1>3. ReadStep("parse", q, c) = ParseChar(q, c)
  BY <1>1 DEF ReadStep, ParseStep
<1>4. ReadStep("parse", q, c) = q
  BY <1>1, <1>2, <1>3 DEF ParseChar
<1> QED BY <1>4 DEF q

(* A bracket opens the properties of a node, of a new one if there is no key. *)
LEMMA OpenIn ==
    ASSUME NEW S, NEW M \in Seq(S), NEW buf, NewNode(<<>>, <<>>) \in S
    PROVE  /\ buf # <<>> => ReadStep("parse", InWord(Append(M, NewNode(<<>>, <<>>)), buf), "[")
                              = Inside(Append(M, NewNode(buf, <<>>)), <<>>)
           /\ ReadStep("parse", Between(M), "[")
                = Inside(Append(M, NewNode(<<>>, <<>>)), <<>>)
PROOF
<1> DEFINE c == "["  d == NewNode(<<>>, <<>>)  N == Append(M, d)  p == InWord(N, buf)
           q == Between(M)  n == Len(p.nodes)
<1>1. /\ ~p.panic /\ ~p.inside /\ p.nodes = N /\ p.buf = buf /\ p.current
      /\ ~q.panic /\ ~q.inside /\ ~q.current /\ q.buf = <<>>
  BY DEF Between, InWord, Inside
<1>2. n = Len(M) + 1 /\ N[n] = d /\ \A x : [N EXCEPT ![n] = x] = Append(M, x)
  <2>1. d \in S /\ n = Len(N)
    BY <1>1
  <2> HIDE DEF d, n
  <2> QED BY <2>1, LastChanged
<1>0. ~IsWord(c) /\ c # "]" /\ c \notin Space
  BY DEF IsWord, Space
<1>3. ASSUME NEW x, ~x.panic, ~x.inside PROVE ReadStep("parse", x, c) = [Keyed(WithNode(x)) EXCEPT !.inside = TRUE]
  <2>1. ReadStep("parse", x, c) = ParseChar(x, c)
    BY <1>3 DEF ReadStep, ParseStep
  <2> QED BY <1>0, <1>3, <2>1 DEF ParseChar
<1> HIDE DEF n, N
<1>4. ASSUME buf # <<>>
      PROVE  ReadStep("parse", p, c) = Inside(Append(M, NewNode(buf, <<>>)), <<>>)
  <2>1. WithNode(p) = p
    BY <1>1 DEF WithNode
  <2>2. Keyed(p) = [p EXCEPT !.nodes[n].key = buf, !.buf = <<>>]
    BY <1>1, <1>4 DEF Keyed, n
  <2>3. ReadStep("parse", p, c) = Inside([N EXCEPT ![n] = [N[n] EXCEPT !.key = buf]], <<>>)
    <3>1. ReadStep("parse", p, c) = [Keyed(p) EXCEPT !.inside = TRUE]
      <4> HIDE DEF p
      <4> QED BY <1>1, <1>3, <2>1
    <3> QED BY <2>2, <3>1 DEF InWord, Inside, Between
  <2>4. [N[n] EXCEPT !.key = buf] = NewNode(buf, <<>>)
    BY <1>2 DEF NewNode
  <2> QED BY <1>2, <2>3, <2>4
<1>5. ReadStep("parse", q, c) = Inside(N, <<>>)
  <2>1. WithNode(q) = InWord(N, <<>>)
    BY <1>1 DEF WithNode, Between, InWord, Inside, NewNode, N
  <2>2. Keyed(InWord(N, <<>>)) = InWord(N, <<>>)
    BY DEF Keyed, InWord, Inside, Between
  <2>3. ReadStep("parse", q, c) = [Keyed(WithNode(q)) EXCEPT !.inside = TRUE]
    <3> HIDE DEF q
    <3> QED BY <1>1, <1>3
  <2> HIDE DEF q
  <2>4. ReadStep("parse", q, c) = [InWord(N, <<>>) EXCEPT !.inside = TRUE]
    BY <2>1, <2>2, <2>3
  <2> QED BY <2>4 DEF InWord, Inside, Between
<1> QED BY <1>4, <1>5 DEF N

(* The key of a node, and what stands between its brackets. *)
LEMMA WordRun ==
    ASSUME NEW M, NEW s \in Seq(PlainChar), s # <<>>
    PROVE  After("parse", Between(M), s) = InWord(Append(M, NewNode(<<>>, <<>>)), s)
PROOF
<1> DEFINE N == Append(M, NewNode(<<>>, <<>>))
           T == {t \in Seq(PlainChar) : t = <<>> \/ After("parse", Between(M), t) = InWord(N, t)}
<1>1. <<>> \in T
  OBVIOUS
<1>2. ASSUME NEW t \in Seq(PlainChar), NEW c \in PlainChar, t \in T PROVE Append(t, c) \in T
  <2>1. IsWord(c)
    BY DEF PlainChar, Special, IsWord
  <2>2. After("parse", Between(M), Append(t, c)) = ReadStep("parse", After("parse", Between(M), t), c)
    BY AfterOne
  <2>3. ReadStep("parse", After("parse", Between(M), t), c) = InWord(N, Append(t, c))
    <3>1. CASE t = <<>>
      <4>1. After("parse", Between(M), t) = Between(M)
        BY <3>1, AfterNone DEF Between
      <4> QED BY <2>1, <3>1, <4>1, WordFirst
    <3>2. CASE t # <<>>
      <4>1. After("parse", Between(M), t) = InWord(N, t)
        BY <1>2, <3>2
      <4> HIDE DEF N
      <4>2. ReadStep("parse", InWord(N, t), c) = InWord(N, Append(t, c))
        BY <2>1, WordNext
      <4> QED BY <4>1, <4>2
    <3> QED BY <3>1, <3>2
  <2>4. Append(t, c) \in Seq(PlainChar)
    BY NotNone
  <2> HIDE DEF N
  <2> QED BY <2>2, <2>3, <2>4
<1>3. \A t \in Seq(PlainChar) : t \in T
  <2> HIDE DEF T
  <2> QED BY <1>1, <1>2, SequenceInduction
<1> QED BY <1>3

LEMMA InsideRun ==
    ASSUME NEW N, NEW s \in Seq(Symbol \ {"]"})
    PROVE  After("parse", Inside(N, <<>>), s) = Inside(N, s)
PROOF
<1> DEFINE S == Symbol \ {"]"}
           p == Inside(N, <<>>)
           T == {t \in Seq(S) : After("parse", p, t) = Inside(N, t)}
<1>1. <<>> \in T
  <2>1. After("parse", p, <<>>) = p
    BY AfterNone
  <2>2. <<>> \in Seq(S)
    OBVIOUS
  <2> QED BY <2>1, <2>2
<1> HIDE DEF p
<1>2. ASSUME NEW t \in Seq(S), NEW c \in S, t \in T PROVE Append(t, c) \in T
  <2>1. c # "]"
    OBVIOUS
  <2>5. After("parse", p, t) = Inside(N, t)
    BY <1>2
  <2> HIDE DEF S
  <2>6. After("parse", p, Append(t, c)) = ReadStep("parse", After("parse", p, t), c)
    BY AfterOne
  <2>2. After("parse", p, Append(t, c)) = ReadStep("parse", Inside(N, t), c)
    BY <2>5, <2>6
  <2>3. ReadStep("parse", Inside(N, t), c) = Inside(N, Append(t, c))
    BY <2>1, InsideIn
  <2>4. Append(t, c) \in Seq(S)
    BY NotNone
  <2> QED BY <2>2, <2>3, <2>4
<1>3. \A t \in Seq(S) : t \in T
  <2> HIDE DEF T, S
  <2> QED BY <1>1, <1>2, SequenceInduction
<1> QED BY <1>3 DEF p

(* The names of properties, in some order. *)
LEMMA SetToSeqIs ==
    ASSUME NEW D, IsFiniteSet(D), NEW keys, keys = SetToSeq(D)
    PROVE  \E n \in Nat : /\ DOMAIN keys = 1..n /\ keys \in Seq(D) /\ Len(keys) = n
                          /\ {keys[j] : j \in 1..n} = D
PROOF
<1> DEFINE n == Cardinality(D)
<1>1. n \in Nat /\ \E f : f \in Bijection(1..n, D)
  BY FS_CardinalityType DEF ExistsBijection
<1>2. keys \in [1..n -> D] /\ IsInjective(keys)
  BY <1>1 DEF SetToSeq, Bijection, Injection
<1>3. keys \in Injection(1..n, D)
  BY <1>2 DEF Injection
<1>4. Cardinality(1..n) = n
  BY <1>1, FS_Interval
<1>5. keys \in Surjection(1..n, D)
  BY <1>3, <1>4, FS_Injection
<1>6. {keys[j] : j \in 1..n} = D
  BY <1>2, <1>5 DEF Surjection
<1> HIDE DEF n
<1>7. DOMAIN keys = 1..n /\ keys \in Seq(D) /\ Len(keys) = n
  BY <1>1, <1>2
<1> QED BY <1>1, <1>6, <1>7

IsNode(node, quote) ==
    /\ node = NewNode(node.key, node.props) /\ node.key \in Seq(PlainChar)
    /\ node.key # <<>> \/ node.props # <<>>
    /\ IsFiniteSet(DOMAIN node.props) /\ node.props = [p \in DOMAIN node.props |-> node.props[p]]
    /\ \A p \in DOMAIN node.props : IsPair(p, node.props[p], quote)

(* The properties of a node, between their brackets. *)
LEMMA PropsRead ==
    ASSUME NEW node, NEW quote, IsNode(node, quote), DOMAIN node.props # {}
    PROVE  \E text : /\ text \in Seq(Symbol \ {"]"})
                     /\ parseExpr(text) = FreshExpr(node.props)
                     /\ WriteNode(node, quote) = node.key \o <<"[">> \o text \o <<"]">>
PROOF
<1> DEFINE props == node.props  D == DOMAIN props  keys == SetToSeq(D)
           pairs == [k \in DOMAIN keys |-> WritePair(keys[k], props[keys[k]], quote)]
           text == WithCommas(pairs)
<1>1. PICK n \in Nat : /\ DOMAIN keys = 1..n /\ keys \in Seq(D) /\ Len(keys) = n
                       /\ {keys[j] : j \in 1..n} = D
  <2>1. IsFiniteSet(D)
    BY DEF IsNode
  <2> HIDE DEF D
  <2> QED BY <2>1, SetToSeqIs
<1>2. n # 0 /\ keys # <<>>
  <2>1. n # 0
    <3>1. n = 0 => ~\E j \in 1..n : TRUE
      OBVIOUS
    <3> HIDE DEF keys
    <3> QED BY <1>1, <3>1
  <2> HIDE DEF keys
  <2> QED BY <1>1, <2>1
<1>3. \A k \in 1..n : keys[k] \in D
  BY <1>1
<1>4. /\ Len(pairs) = n
      /\ \A k \in 1..n : pairs[k] = WritePair(keys[k], props[keys[k]], quote)
  <2> HIDE DEF keys
  <2> QED BY <1>1
<1>5. \A k \in 1..n : IsPair(keys[k], props[keys[k]], quote)
  <2> HIDE DEF keys
  <2> QED BY <1>3 DEF IsNode
<1> HIDE DEF pairs, keys, props
<1>6. text \in Seq(Symbol \ {"]"}) /\ parseExpr(text) = FreshExpr(WithFirst(props, keys, n))
  <2>1. ArePairs(n, keys, props, quote, pairs)
    BY <1>2, <1>4, <1>5 DEF ArePairs
  <2>2. text = WithCommas(pairs)
    OBVIOUS
  <2> HIDE DEF text
  <2> QED BY <2>1, <2>2, PairsRead
<1>7. WithFirst(props, keys, n) = props
  <2>1. props = [p \in D |-> props[p]]
    BY DEF IsNode, props
  <2>2. WithFirst(props, keys, n) = [p \in {keys[j] : j \in 1..n} |-> props[p]]
    BY DEF WithFirst
  <2> QED BY <1>1, <2>1, <2>2
<1>8. WriteNode(node, quote) = node.key \o <<"[">> \o text \o <<"]">>
  BY <1>2 DEF WriteNode, WithCommas, pairs, keys, props
<1> QED BY <1>6, <1>7, <1>8 DEF props

LEMMA NoProps ==
    ASSUME NEW node, NEW quote, IsNode(node, quote), DOMAIN node.props = {}
    PROVE  /\ WriteNode(node, quote) = node.key /\ node.key # <<>>
           /\ node = NewNode(node.key, <<>>)
PROOF
<1> DEFINE props == node.props  D == DOMAIN props  keys == SetToSeq(D)
<1>1. props = <<>>
  <2>1. props = [p \in D |-> props[p]] /\ D = {}
    BY DEF IsNode
  <2> HIDE DEF props
  <2> QED BY <2>1
<1>2. keys = <<>>
  <2>1. IsFiniteSet(D)
    BY DEF IsNode
  <2> HIDE DEF D
  <2>2. PICK n \in Nat : DOMAIN keys = 1..n /\ keys \in Seq(D) /\ Len(keys) = n /\ {keys[j] : j \in 1..n} = D
    BY <2>1, SetToSeqIs
  <2> HIDE DEF keys
  <2>3. n = 0
    <3>1. ~\E x : x \in {keys[j] : j \in 1..n}
      BY <2>2 DEF D
    <3>2. ~\E j \in 1..n : TRUE
      BY <3>1
    <3>3. n # 0 => 1 \in 1..n
      OBVIOUS
    <3> QED BY <3>2, <3>3
  <2> QED BY <2>2, <2>3
<1>3. WriteNode(node, quote) = node.key
  BY <1>2 DEF WriteNode
<1> QED BY <1>1, <1>3 DEF IsNode

(* A node, and the blank after it. *)
LEMMA NodeRead ==
    ASSUME NEW S, NEW M \in Seq(S), NEW node, NEW quote, IsNode(node, quote), NEW c \in Space,
           NEW w, w = WriteNode(node, quote)
    PROVE  w \in Seq(Symbol) /\ After("parse", Between(M), Append(w, c)) = Between(Append(M, node))
PROOF
<1> DEFINE key == node.key  props == node.props  D == DOMAIN props
           empty == NewNode(<<>>, <<>>)  named == NewNode(key, <<>>)
           T == S \cup {empty, named, node}
<1>1. M \in Seq(T) /\ empty \in T /\ named \in T /\ node \in T
  OBVIOUS
<1>2. /\ key \in Seq(PlainChar) /\ key \in Seq(Symbol) /\ node = NewNode(key, props) /\ c \in Symbol
      /\ "[" \in Symbol /\ "]" \in Symbol /\ Symbol \ {"]"} \subseteq Symbol
  <2>1. key \in Seq(PlainChar) /\ node = NewNode(key, props)
    BY DEF IsNode
  <2>2. PlainChar \subseteq Symbol /\ "[" \in Symbol /\ "]" \in Symbol
    BY Alphabet
  <2>3. c \in Symbol
    BY DEF Symbol, Special
  <2> HIDE DEF key
  <2>4. key \in Seq(Symbol)
    BY <2>1, <2>2
  <2> QED BY <2>1, <2>2, <2>3, <2>4
<1> HIDE DEF T
<1>3. CASE D = {}
  <2>1. w = key /\ key # <<>> /\ node = named
    BY <1>3, NoProps
  <2> HIDE DEF key
  <2>2. After("parse", Between(M), w) = InWord(Append(M, empty), key)
    BY <1>2, <2>1, WordRun
  <2>3. After("parse", Between(M), Append(w, c)) = ReadStep("parse", After("parse", Between(M), w), c)
    BY <1>2, <2>1, AfterOne
  <2>4. ReadStep("parse", InWord(Append(M, empty), key), c) = Between(Append(M, named))
    BY <1>1, <2>1, BlankIn
  <2> QED BY <1>2, <2>1, <2>2, <2>3, <2>4
<1>4. CASE D # {}
  <2> DEFINE open == <<"[">>  close == <<"]">>
  <2>1. PICK text : /\ text \in Seq(Symbol \ {"]"}) /\ parseExpr(text) = FreshExpr(props)
                    /\ w = key \o open \o text \o close
    BY <1>4, PropsRead
  <2> DEFINE a == key \o open  b == a \o text  N == Append(M, named)
  <2>2. text \in Seq(Symbol) /\ open \in Seq(Symbol) /\ close \in Seq(Symbol)
    BY <1>2, <2>1
  <2> HIDE DEF key, props, open, close
  <2>3. a \in Seq(Symbol) /\ b \in Seq(Symbol) /\ w = b \o close /\ w \in Seq(Symbol)
    <3>1. w = b \o close
      BY <2>1
    <3>2. key \in Seq(Symbol)
      BY <1>2
    <3> HIDE DEF b
    <3>3. a \in Seq(Symbol)
      BY <2>2, <3>2
    <3>4. b \in Seq(Symbol)
      BY <2>2, <3>3 DEF b
    <3>5. w \in Seq(Symbol)
      BY <2>2, <3>1, <3>4
    <3> QED BY <3>1, <3>3, <3>4, <3>5
  <2>4. After("parse", Between(M), a) = Inside(N, <<>>)
    <3>1. After("parse", Between(M), a) = After("parse", After("parse", Between(M), key), open)
      BY <1>2, <2>2, AfterConcat
    <3>2. \A p : After("parse", p, open) = ReadStep("parse", p, "[")
      BY AfterCharacter DEF open
    <3>3. CASE key = <<>>
      <4>1. After("parse", Between(M), key) = Between(M)
        BY <3>3, AfterNone
      <4>2. ReadStep("parse", Between(M), "[") = Inside(Append(M, empty), <<>>)
        BY <1>1, OpenIn
      <4> QED BY <3>1, <3>2, <3>3, <4>1, <4>2
    <3>4. CASE key # <<>>
      <4>1. After("parse", Between(M), key) = InWord(Append(M, empty), key)
        BY <1>2, <3>4, WordRun
      <4>2. ReadStep("parse", InWord(Append(M, empty), key), "[") = Inside(N, <<>>)
        BY <1>1, <3>4, OpenIn
      <4> QED BY <3>1, <3>2, <4>1, <4>2
    <3> QED BY <3>3, <3>4
  <2>5. After("parse", Between(M), b) = Inside(N, text)
    <3>1. After("parse", Between(M), b) = After("parse", Inside(N, <<>>), text)
      <4> HIDE DEF a, N
      <4>1. After("parse", Between(M), b) = After("parse", After("parse", Between(M), a), text)
        BY <2>2, <2>3, AfterConcat
      <4> QED BY <2>4, <4>1
    <3> HIDE DEF N
    <3> QED BY <2>1, <3>1, InsideRun
  <2>6. After("parse", Between(M), w) = Between(Append(M, node))
    <3>1. After("parse", Between(M), w) = After("parse", Inside(N, text), close)
      <4> HIDE DEF b, N
      <4>1. After("parse", Between(M), w) = After("parse", After("parse", Between(M), b), close)
        BY <2>2, <2>3, AfterConcat
      <4> QED BY <2>5, <4>1
    <3>2. \A p : After("parse", p, close) = ReadStep("parse", p, Close)
      BY AfterCharacter DEF close, Close
    <3>3. ReadStep("parse", Inside(N, text), Close) = Between(Append(M, NewNode(key, props)))
      <4>1. parseExpr(text) = FreshExpr(props) /\ M \in Seq(T) /\ NewNode(key, <<>>) \in T
        BY <1>1, <2>1
      <4> QED BY <4>1, CloseIn
    <3> HIDE DEF N
    <3> QED BY <1>2, <3>1, <3>2, <3>3
  <2>7. After("parse", Between(M), Append(w, c)) = ReadStep("parse", After("parse", Between(M), w), c)
    BY <1>2, <2>3, AfterOne
  <2>8. ReadStep("parse", Between(Append(M, node)), c) = Between(Append(M, node))
    <3>1. Append(M, node) \in Seq(T)
      BY <1>1
    <3> DEFINE O == Append(M, node)
    <3> HIDE DEF O
    <3> QED BY <1>1, <3>1, BetweenIn DEF O
  <2> QED BY <2>3, <2>6, <2>7, <2>8
<1> QED BY <1>3, <1>4

(* All nodes, and the blank that parse puts after them. *)
LEMMA NodesRead ==
    ASSUME NEW S, NEW nodes \in Seq(S), nodes # <<>>, NEW quote,
           \A k \in 1..Len(nodes) : IsNode(nodes[k], quote), NEW c \in Space,
           NEW text, text = Write(nodes, quote)
    PROVE  text \in Seq(Symbol) /\ After("parse", NewParse, Append(text, c)) = Between(nodes)
PROOF
<1> DEFINE n == Len(nodes)
           parts == [k \in DOMAIN nodes |-> WriteNode(nodes[k], quote)]
           First(k) == SubSeq(nodes, 1, k)
           Read(t, k) == t \in Seq(Symbol) /\ After("parse", NewParse, Append(t, c)) = Between(First(k))
<1>1. n \in Nat /\ n # 0 /\ DOMAIN nodes = 1..n
  OBVIOUS
<1>2. Len(parts) = n /\ \A k \in 1..n : parts[k] = WriteNode(nodes[k], quote)
  BY <1>1
<1>3. c = " "
  BY DEF Space
<1>4. PICK f : /\ text = f[n]
               /\ \A k \in 1..n : f[k] = IF k = 1 THEN parts[1] ELSE f[k - 1] \o <<c>> \o parts[k]
  <2>1. text = Joined(parts, <<c>>)
    BY <1>3 DEF Write
  <2> HIDE DEF parts
  <2>2. \E f : /\ Joined(parts, <<c>>) = f[Len(parts)]
               /\ \A k \in 1..Len(parts) : f[k] = IF k = 1 THEN parts[1] ELSE f[k - 1] \o <<c>> \o parts[k]
    BY <1>1, <1>2, JoinedIs
  <2> QED BY <1>2, <2>1, <2>2
<1> HIDE DEF parts
<1>5. ASSUME NEW k \in 1..n PROVE First(k - 1) \in Seq(S) /\ Append(First(k - 1), nodes[k]) = First(k)
  BY <1>1
<1>6. First(0) = <<>> /\ First(n) = nodes
  BY <1>1
<1> HIDE DEF First, n
<1>7. ASSUME NEW k \in 1..n
      PROVE  /\ parts[k] \in Seq(Symbol)
             /\ After("parse", Between(First(k - 1)), Append(parts[k], c)) = Between(First(k))
  <2> DEFINE M == First(k - 1)  node == nodes[k]  w == parts[k]
  <2>1. IsNode(node, quote) /\ w = WriteNode(node, quote)
    BY <1>2 DEF n
  <2>2. M \in Seq(S) /\ Append(M, node) = First(k)
    BY <1>5
  <2> HIDE DEF M, node, w
  <2>3. w \in Seq(Symbol) /\ After("parse", Between(M), Append(w, c)) = Between(Append(M, node))
    BY <2>1, <2>2, NodeRead
  <2> QED BY <2>2, <2>3 DEF M, w
<1>8. Read(f[1], 1)
  <2>1. 1 \in 1..n /\ 1 - 1 = 0
    BY <1>1
  <2>2. f[1] = parts[1]
    BY <1>4, <2>1
  <2>3. NewParse = Between(First(0))
    BY <1>6, NewParseIs
  <2> QED BY <1>7, <2>1, <2>2, <2>3
<1>9. ASSUME NEW k \in 1..n, k # 1, Read(f[k - 1], k - 1) PROVE Read(f[k], k)
  <2> DEFINE t == f[k - 1]  u == parts[k]
  <2>1. c \in Symbol
    BY DEF Symbol, Special
  <2>2. u \in Seq(Symbol) /\ t \in Seq(Symbol) /\ f[k] = t \o <<c>> \o u
    BY <1>4, <1>7, <1>9
  <2> HIDE DEF t, u
  <2> DEFINE a == Append(t, c)  p == After("parse", NewParse, a)
  <2>3. f[k] = a \o u /\ a \in Seq(Symbol)
    <3>1. t \o <<c>> = a /\ a \in Seq(Symbol)
      BY <2>1, <2>2
    <3> HIDE DEF a
    <3> QED BY <2>2, <3>1
  <2> HIDE DEF a
  <2>4. f[k] \in Seq(Symbol)
    BY <2>2, <2>3
  <2>5. After("parse", NewParse, Append(f[k], c)) = After("parse", p, Append(u, c))
    <3>1. After("parse", NewParse, a \o u) = After("parse", p, u)
      BY <2>2, <2>3, AfterConcat
    <3> HIDE DEF p
    <3>2. After("parse", NewParse, Append(f[k], c)) = ReadStep("parse", After("parse", NewParse, f[k]), c)
      BY <2>1, <2>4, AfterOne
    <3>3. After("parse", p, Append(u, c)) = ReadStep("parse", After("parse", p, u), c)
      BY <2>1, <2>2, AfterOne
    <3> QED BY <2>3, <3>1, <3>2, <3>3
  <2>6. p = Between(First(k - 1))
    BY <1>9 DEF t, a
  <2> HIDE DEF p
  <2> QED BY <1>7, <2>4, <2>5, <2>6 DEF u
<1> DEFINE T == {k \in 0..n : k = 0 \/ Read(f[k], k)}
<1> HIDE DEF Read
<1>10. 0 \in T
  BY <1>1
<1>11. ASSUME NEW k \in 1..n, k - 1 \in T PROVE k \in T
  <2>1. CASE k = 1
    BY <1>8, <2>1
  <2>2. CASE k # 1
    <3>1. Read(f[k - 1], k - 1)
      BY <1>11, <2>2
    <3> QED BY <1>9, <2>2, <3>1
  <2> QED BY <2>1, <2>2
<1>12. Read(f[n], n)
  <2>1. \A k \in 0..n : k \in T
    <3> HIDE DEF T
    <3> QED BY <1>1, <1>10, <1>11, StretchInduction
  <2>2. n \in 0..n /\ n # 0
    BY <1>1
  <2> QED BY <2>1, <2>2
<1> QED BY <1>4, <1>6, <1>12 DEF Read

-----------------------------------------------------------------------------
(* What a caller writes has no character of the language where none belongs. *)
LEMMA PlainText ==
    ASSUME NEW S, NEW s \in Seq(Char), Range(s) \cap S = {}
    PROVE  s \in Seq(Char \ S)
PROOF
<1>1. \A k \in 1..Len(s) : s[k] \in Char \ S
  BY DEF Range
<1> QED BY <1>1

LEMMA PlainIs ==
    ASSUME NEW rule
    PROVE  Plain(rule) <=>
              \A k \in DOMAIN rule.nodes :
                 /\ Range(rule.nodes[k].key) \cap Special = {}
                 /\ rule.nodes[k].key # <<>> \/ rule.nodes[k].props # <<>>
                 /\ \A p \in DOMAIN rule.nodes[k].props :
                      LET prop == rule.nodes[k].props[p]
                      IN  /\ p # <<>> /\ Range(p) \cap Special = {}
                          /\ prop.op \in {"==", "!=", "*="} \/ IsNumeral(prop.value)
                          /\ IF rule.quote = <<>> THEN Range(prop.value) \cap Special = {}
                             ELSE Range(prop.value) \cap {rule.quote[1], "]"} = {}
BY Zenon DEF Plain, Special

LEMMA PlainNodes ==
    ASSUME NEW rule, IsWritten(rule), Plain(rule), NEW k \in DOMAIN rule.nodes
    PROVE  IsNode(rule.nodes[k], rule.quote)
PROOF
<1> DEFINE node == rule.nodes[k]  props == node.props  quote == rule.quote
<1>1. /\ node = NewNode(node.key, props) /\ node.key \in Seq(Char)
      /\ IsFiniteSet(DOMAIN props) /\ DOMAIN props \subseteq Seq(Char)
      /\ props \in [DOMAIN props -> [op : Ops, value : Seq(Char)]]
      /\ quote = <<>> \/ \E q \in Quotes : quote = <<q>>
  BY DEF IsWritten, NewNode
<1>2. /\ Range(node.key) \cap Special = {}
      /\ node.key # <<>> \/ props # <<>>
      /\ \A p \in DOMAIN props :
            /\ p # <<>> /\ Range(p) \cap Special = {}
            /\ props[p].op \in {"==", "!=", "*="} \/ IsNumeral(props[p].value)
            /\ IF quote = <<>> THEN Range(props[p].value) \cap Special = {}
               ELSE Range(props[p].value) \cap {quote[1], "]"} = {}
  BY PlainIs
<1> HIDE DEF node, props, quote
<1>3. node.key \in Seq(PlainChar)
  BY <1>1, <1>2, PlainText DEF PlainChar
<1>4. ASSUME NEW p \in DOMAIN props PROVE IsPair(p, props[p], quote)
  <2> DEFINE prop == props[p]
  <2>1. prop \in [op : Ops, value : Seq(Char)] /\ p \in Seq(Char)
    BY <1>1
  <2>2. /\ p # <<>> /\ Range(p) \cap Special = {}
        /\ IsTest(prop.op) \/ IsNumeral(prop.value)
        /\ IF quote = <<>> THEN Range(prop.value) \cap Special = {}
           ELSE Range(prop.value) \cap {quote[1], "]"} = {}
    BY <1>2 DEF IsTest
  <2> HIDE DEF prop
  <2>3. p \in Seq(PlainChar)
    BY <2>1, <2>2, PlainText DEF PlainChar
  <2>4. prop = [op |-> prop.op, value |-> prop.value] /\ prop.op \in Ops /\ prop.value \in Seq(Char)
    BY <2>1
  <2>5. IsPlainValue(prop.value, quote)
    <3>1. CASE quote = <<>>
      <4>1. prop.value \in Seq(PlainChar)
        BY <2>2, <2>4, <3>1, PlainText DEF PlainChar
      <4> QED BY <3>1, <4>1 DEF IsPlainValue
    <3>2. ASSUME NEW q \in Quotes, quote = <<q>> PROVE IsPlainValue(prop.value, quote)
      <4> DEFINE bad == {q, "]"}
      <4>1. quote # <<>> /\ quote[1] = q
        BY <3>2
      <4>2. Range(prop.value) \cap bad = {}
        BY <2>2, <4>1
      <4> HIDE DEF bad
      <4>3. prop.value \in Seq(Char \ bad)
        BY <2>4, <4>2, PlainText
      <4>4. Char \ bad \subseteq Symbol \ bad
        BY DEF Symbol
      <4>5. prop.value \in Seq(Symbol \ bad)
        BY <4>3, <4>4
      <4> QED BY <3>2, <4>5 DEF IsPlainValue, bad
    <3> QED BY <1>1, <3>1, <3>2
  <2> QED BY <2>2, <2>3, <2>4, <2>5 DEF IsPair, prop
<1>5. props = [p \in DOMAIN props |-> props[p]]
  BY <1>1
<1>6. IsNode(node, quote)
  BY <1>1, <1>2, <1>3, <1>4, <1>5 DEF IsNode, props
<1> QED BY <1>6 DEF node, quote

(* parse: the run of its steps over the text and a blank. *)
ParseRun(text) == CHOOSE f : ParsingOf(Ended(text), Len(Ended(text)), f)

LEMMA ParseIs ==
    ASSUME NEW text
    PROVE  /\ parse(text).panic = ParseRun(text)[Len(Ended(text))].panic
           /\ parse(text).nodes = ParseRun(text)[Len(Ended(text))].nodes
BY Zenon DEF parse, ParseRun, ParsingOf, Ended

(* The run is the one After describes. *)
LEMMA ParseAfter ==
    ASSUME NEW text, Len(Ended(text)) \in Nat
    PROVE  ParseRun(text)[Len(Ended(text))] = After("parse", NewParse, Ended(text))
PROOF
<1> DEFINE chars == Ended(text)  n == Len(chars)  f == ParseRun(text)
           g == CHOOSE h : ReadingFrom("parse", NewParse, chars, n, h)
<1>1. n \in Nat
  OBVIOUS
<1>2. f = CHOOSE h : ParsingOf(chars, n, h)
  BY DEF ParseRun
<1>3. After("parse", NewParse, chars) = g[n]
  BY DEF After
<1> HIDE DEF chars, n, f, g
<1>4. ParsingOf(chars, n, f)
  <2>1. \E h : ParsingOf(chars, n, h)
    BY <1>1, ParsingExists
  <2> QED BY <1>2, <2>1
<1>5. ReadingFrom("parse", NewParse, chars, n, g)
  <2>1. \E h : ReadingFrom("parse", NewParse, chars, n, h)
    BY <1>1, ReadingExists
  <2> QED BY <2>1 DEF g
<1>6. \A k \in 0..n : f[k] = IF k = 0 THEN NewParse ELSE ParseStep(f[k - 1], chars[k])
  BY <1>4 DEF ParsingOf
<1>7. \A k \in 0..n : g[k] = IF k = 0 THEN NewParse ELSE ParseStep(g[k - 1], chars[k])
  BY <1>5 DEF ReadingFrom, ReadStep
<1> DEFINE T == {k \in 0..n : f[k] = g[k]}
<1>8. 0 \in T
  BY <1>1, <1>6, <1>7
<1>9. ASSUME NEW k \in 1..n, k - 1 \in T PROVE k \in T
  <2>1. k \in 0..n /\ k # 0 /\ f[k - 1] = g[k - 1]
    BY <1>1, <1>9
  <2> QED BY <1>6, <1>7, <2>1
<1>10. \A k \in 0..n : k \in T
  <2> HIDE DEF T
  <2> QED BY <1>1, <1>8, <1>9, StretchInduction
<1>11. n \in 0..n
  BY <1>1
<1>12. f[n] = g[n]
  BY <1>10, <1>11
<1> QED BY <1>3, <1>12 DEF chars, n, f

LEMMA EndedLength ==
    ASSUME NEW text \in Seq(Symbol)
    PROVE  Len(Ended(text)) \in Nat
PROOF
<1> DEFINE blank == " "
<1>1. blank \in Symbol
  BY Zenon DEF Symbol, Special, Space
<1>2. Ended(text) = Append(text, blank)
  BY Zenon DEF Ended
<1> HIDE DEF blank
<1>3. Append(text, blank) \in Seq(Symbol)
  BY <1>1
<1>4. Ended(text) \in Seq(Symbol)
  BY <1>2, <1>3
<1> QED BY <1>4

LEMMA ParseReads ==
    ASSUME NEW text \in Seq(Symbol), NEW nodes, After("parse", NewParse, Ended(text)) = Between(nodes)
    PROVE  parse(text).nodes = nodes /\ ~parse(text).panic
PROOF
<1>1. ParseRun(text)[Len(Ended(text))] = Between(nodes)
  BY EndedLength, ParseAfter
<1>2. Between(nodes).nodes = nodes /\ ~Between(nodes).panic
  BY DEF Between
<1> QED BY <1>1, <1>2, ParseIs

LEMMA WrittenParsed ==
    ASSUME NEW rule, IsWritten(rule), Plain(rule), rule.nodes # <<>>
    PROVE  parse(rule.text).nodes = rule.nodes /\ ~parse(rule.text).panic
PROOF
<1> DEFINE nodes == rule.nodes  quote == rule.quote  text == rule.text
<1>1. nodes \in Seq(Range(nodes)) /\ text = Write(nodes, quote)
  BY DEF IsWritten
<1>2. \A k \in 1..Len(nodes) : IsNode(nodes[k], quote)
  <2>1. DOMAIN nodes = 1..Len(nodes)
    BY <1>1
  <2> QED BY <2>1, PlainNodes
<1> DEFINE blank == " "
<1>3. blank \in Space
  BY DEF Space
<1>4. Ended(text) = Append(text, blank)
  BY DEF Ended
<1> HIDE DEF nodes, quote, text, blank
<1>5. text \in Seq(Symbol) /\ After("parse", NewParse, Append(text, blank)) = Between(nodes)
  BY <1>1, <1>2, <1>3, NodesRead DEF nodes
<1>6. parse(text).nodes = nodes /\ ~parse(text).panic
  BY <1>4, <1>5, ParseReads
<1> QED BY <1>6 DEF nodes, text

-----------------------------------------------------------------------------
(* Every picker that has parsed has the nodes its selector was written from. *)
HasNodes(r, p) == Rules[r].nodes # <<>> /\ Plain(Rules[r]) => p.nodes = Rules[r].nodes

LEMMA RuleWritten ==
    ASSUME PanicInv, NEW r \in DOMAIN Rules, Rules[r].nodes # <<>>
    PROVE  IsWritten(Rules[r])
BY PickAssumption DEF PanicInv, PickersOK, Rules

LEMMA HasNodesNow ==
    ASSUME ParsesAsWritten, NEW r \in DOMAIN Rules, pickers[r].at # "parse"
    PROVE  HasNodes(r, pickers[r])
BY DEF ParsesAsWritten, HasNodes

(* A step of one picker that leaves it with its nodes. *)
LEMMA PickerParses ==
    ASSUME PanicInv, ParsesAsWritten, NEW r \in DOMAIN Rules, NEW p, HasNodes(r, p),
           pickers' = [pickers EXCEPT ![r] = p], UNCHANGED called
    PROVE  ParsesAsWritten'
PROOF
<1>1. Rules' = Rules
  BY DEF Rules
<1>2. pickers = [q \in DOMAIN Rules |-> pickers[q]]
  BY DEF PanicInv, PickersOK
<1>3. \A q \in DOMAIN Rules : pickers'[q] = IF q = r THEN p ELSE pickers[q]
  BY <1>2
<1>4. ASSUME NEW q \in DOMAIN Rules, Rules[q].nodes # <<>>, Plain(Rules[q]), pickers'[q].at # "parse"
      PROVE  pickers'[q].nodes = Rules[q].nodes
  <2>1. CASE q = r
    BY <1>3, <1>4, <2>1 DEF HasNodes
  <2>2. CASE q # r
    BY <1>3, <1>4, <2>2 DEF ParsesAsWritten
  <2> QED BY <2>1, <2>2
<1> QED BY <1>1, <1>4 DEF ParsesAsWritten

(* walk only adds to what a picker has. *)
LEMMA WalkKeepsNodes ==
    ASSUME NEW r, IsPicker(pickers[r]), NEW n, NEW key, NEW pos, NEW frames, Walk(r, n, key, pos, frames)
    PROVE  \E p : pickers' = [pickers EXCEPT ![r] = p] /\ p.nodes = pickers[r].nodes
PROOF
<1> DEFINE o == pickers[r]
<1>1. \/ Panics(r)
      \/ \E kids \in OnePerKey(n) :
            LET nodes   == pickers[r].nodes
                matched == Fits(n, key, kids, nodes[pos])
                last    == pos = Len(nodes)
                frame   == [node |-> n, kids |-> kids, pos |-> Descend(pos, matched, last)]
            IN  pickers' = [pickers EXCEPT
                   ![r].stack = Append(frames, frame),
                   ![r].result = IF matched /\ last /\ Node(n).kind \in called.want
                                 THEN Append(@, n) ELSE @,
                   ![r].at = "walking"]
  BY DEF Walk
<1>2. CASE Panics(r)
  <2> DEFINE p == [o EXCEPT !.at = "panicked"]
  <2>1. pickers' = [pickers EXCEPT ![r] = p] /\ p.nodes = o.nodes
    BY <1>2 DEF Panics, IsPicker
  <2> HIDE DEF p
  <2> QED BY <2>1
<1>3. ASSUME NEW kids \in OnePerKey(n),
             LET nodes   == pickers[r].nodes
                 matched == Fits(n, key, kids, nodes[pos])
                 last    == pos = Len(nodes)
                 frame   == [node |-> n, kids |-> kids, pos |-> Descend(pos, matched, last)]
             IN  pickers' = [pickers EXCEPT
                    ![r].stack = Append(frames, frame),
                    ![r].result = IF matched /\ last /\ Node(n).kind \in called.want
                                  THEN Append(@, n) ELSE @,
                    ![r].at = "walking"]
      PROVE  \E p : pickers' = [pickers EXCEPT ![r] = p] /\ p.nodes = o.nodes
  <2> DEFINE matched == Fits(n, key, kids, o.nodes[pos])
             above == Append(frames, [node |-> n, kids |-> kids, pos |-> Descend(pos, matched, pos = Len(o.nodes))])
             found == matched /\ pos = Len(o.nodes) /\ Node(n).kind \in called.want
             p == [o EXCEPT !.stack = above, !.result = IF found THEN Append(@, n) ELSE @, !.at = "walking"]
  <2>1. pickers' = [pickers EXCEPT ![r] = p]
    BY <1>3
  <2>2. p.nodes = o.nodes
    <3> HIDE DEF above, found
    <3> QED BY DEF IsPicker
  <2> HIDE DEF p
  <2> QED BY <2>1, <2>2
<1> QED BY <1>1, <1>2, <1>3

LEMMA WalkParses ==
    ASSUME PanicInv, ParsesAsWritten, NEW r \in DOMAIN Rules, pickers[r].at # "parse", UNCHANGED called,
           NEW n, NEW key, NEW pos, NEW frames, Walk(r, n, key, pos, frames)
    PROVE  ParsesAsWritten'
PROOF
<1>1. IsPicker(pickers[r])
  BY DEF PanicInv, PickersOK
<1>2. PICK p : pickers' = [pickers EXCEPT ![r] = p] /\ p.nodes = pickers[r].nodes
  BY <1>1, WalkKeepsNodes
<1>3. HasNodes(r, p)
  BY <1>2, HasNodesNow DEF HasNodes
<1> QED BY <1>2, <1>3, PickerParses

LEMMA ParseParses ==
    ASSUME PanicInv, ParsesAsWritten, NEW r \in DOMAIN Rules, Parse(r)
    PROVE  ParsesAsWritten'
PROOF
<1> DEFINE a == parse(Rules[r].text)
<1>1. \/ (a.panic \/ a.nodes = <<>>) /\ Panics(r)
      \/ pickers' = [pickers EXCEPT ![r].at = "walk", ![r].nodes = a.nodes]
  BY DEF Parse
<1>2. UNCHANGED called
  BY DEF Parse
<1>3. Rules[r].nodes # <<>> /\ Plain(Rules[r]) => a.nodes = Rules[r].nodes /\ ~a.panic
  BY RuleWritten, WrittenParsed
<1>4. IsPicker(pickers[r])
  BY DEF PanicInv, PickersOK
<1> HIDE DEF a
<1>5. CASE (a.panic \/ a.nodes = <<>>) /\ Panics(r)
  <2> DEFINE p == [pickers[r] EXCEPT !.at = "panicked"]
  <2>1. pickers' = [pickers EXCEPT ![r] = p]
    BY <1>5 DEF Panics
  <2>2. HasNodes(r, p)
    BY <1>3, <1>5 DEF HasNodes
  <2> HIDE DEF p
  <2> QED BY <1>2, <2>1, <2>2, PickerParses
<1>6. CASE pickers' = [pickers EXCEPT ![r].at = "walk", ![r].nodes = a.nodes]
  <2> DEFINE p == [pickers[r] EXCEPT !.at = "walk", !.nodes = a.nodes]
  <2>1. pickers' = [pickers EXCEPT ![r] = p]
    BY <1>6
  <2>2. p.nodes = a.nodes
    BY <1>4 DEF IsPicker
  <2> HIDE DEF p
  <2>3. HasNodes(r, p)
    BY <1>3, <2>2 DEF HasNodes
  <2> QED BY <1>2, <2>1, <2>3, PickerParses
<1> QED BY <1>1, <1>5, <1>6

(* A selector written from nodes in which no text holds a character of the
   language is parsed into these nodes, whatever its texts, its number of
   properties and of nodes (parse, parseExpr, setProp). *)
THEOREM ParsesCorrect == PickSpec => []ParsesAsWritten
PROOF
<1>1. PickInit => ParsesAsWritten
  <2> SUFFICES ASSUME PickInit, NEW r \in DOMAIN Rules PROVE pickers[r].at = "parse"
    BY DEF ParsesAsWritten
  <2> QED BY DEF PickInit, Rules, NewPicker
<1>2. PanicInv /\ ParsesAsWritten /\ [PickNext]_pickVars => ParsesAsWritten'
  <2> SUFFICES ASSUME PanicInv, ParsesAsWritten, [PickNext]_pickVars PROVE ParsesAsWritten'
    OBVIOUS
  <2>1. ASSUME NEW r \in DOMAIN Rules, Parse(r) PROVE ParsesAsWritten'
    BY <2>1, ParseParses
  <2>2. ASSUME NEW r \in DOMAIN Rules, WalkRoot(r) PROVE ParsesAsWritten'
    BY <2>2, WalkParses DEF WalkRoot, At
  <2>3. ASSUME NEW r \in DOMAIN Rules, WalkKid(r) PROVE ParsesAsWritten'
    <3>1. pickers[r].at # "parse" /\ UNCHANGED called
      BY <2>3 DEF WalkKid, At
    <3>2. PICK n, key, pos, frames : Walk(r, n, key, pos, frames)
      BY <2>3 DEF WalkKid
    <3> QED BY <3>1, <3>2, WalkParses
  <2>4. ASSUME NEW r \in DOMAIN Rules, WalkReturn(r) PROVE ParsesAsWritten'
    <3>1. pickers[r].at # "parse" /\ UNCHANGED called
      BY <2>4 DEF WalkReturn, At
    <3>2. PICK frames, at : pickers' = [pickers EXCEPT ![r].stack = frames, ![r].at = at]
      BY <2>4 DEF WalkReturn
    <3> DEFINE p == [pickers[r] EXCEPT !.stack = frames, !.at = at]
    <3>3. pickers' = [pickers EXCEPT ![r] = p]
      BY <3>2
    <3>4. p.nodes = pickers[r].nodes
      BY DEF PanicInv, PickersOK, IsPicker
    <3> HIDE DEF p
    <3>5. HasNodes(r, p)
      BY <3>1, <3>4, HasNodesNow DEF HasNodes
    <3> QED BY <3>1, <3>3, <3>5, PickerParses
  <2>5. ASSUME NEW r \in DOMAIN Rules, Store(r) PROVE ParsesAsWritten'
    <3>1. pickers[r].at # "parse" /\ UNCHANGED called
      BY <2>5 DEF Store, At
    <3> DEFINE p == [pickers[r] EXCEPT !.at = "panicked"]
    <3>2. pickers' = [pickers EXCEPT ![r] = p]
      BY <2>5 DEF Store, Panics
    <3>3. p.nodes = pickers[r].nodes
      BY DEF PanicInv, PickersOK, IsPicker
    <3> HIDE DEF p
    <3>4. HasNodes(r, p)
      BY <3>1, <3>3, HasNodesNow DEF HasNodes
    <3> QED BY <3>1, <3>2, <3>4, PickerParses
  <2>6. ASSUME UNCHANGED <<called, pickers>> PROVE ParsesAsWritten'
    BY <2>6 DEF ParsesAsWritten, Rules
  <2> QED BY <2>1, <2>2, <2>3, <2>4, <2>5, <2>6 DEF PickNext, PickReturn, Wait, pickVars
<1> QED BY <1>1, <1>2, PanicInductive, PTL DEF PickSpec
=============================================================================
