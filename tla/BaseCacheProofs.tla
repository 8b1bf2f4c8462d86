-------------------------- MODULE BaseCacheProofs --------------------------
(***************************************************************************)
(* What holds of BaseCache for every number of goroutines, keys, elements  *)
(* and limits.  What the operations of the list preserve; that every list  *)
(* is a good one, whatever the clients call; for clients that do not call  *)
(* Clear, the invariant Safe, which says of the list what is said before   *)
(* of a good one, and adds what the goroutines must know while they hold   *)
(* the lock, and what they may rely on once they have let it go; the room  *)
(* an eviction leaves; and that BaseCache implements LruCache.             *)
(***************************************************************************)
EXTENDS BaseCache, DataLemmas, TLAPS, FiniteSetTheorems, SequenceTheorems

-----------------------------------------------------------------------------
(* What the operations of the list preserve.  That a ring of nodes is one ring,
   and not several, is a fact about reachability; it is stated here without
   recursion by a rank that falls from each element to the next and skips no
   element. *)

(* The pointers of the nodes in S and of the sentinel stay among them and
   agree with each other. *)
Tied(l, S) ==
    \A n \in S \cup {Root} :
        /\ l.next[n] \in S \cup {Root} /\ l.prev[l.next[n]] = n
        /\ l.prev[n] \in S \cup {Root} /\ l.next[l.prev[n]] = n

(* r numbers the elements of S from the last one up to the first one. *)
Ranks(l, S, r) ==
    /\ \A a, b \in S : r[a] = r[b] => a = b
    /\ \A b \in S : l.next[Root] \in S /\ r[b] <= r[l.next[Root]]
    /\ \A b \in S : l.prev[Root] \in S /\ r[l.prev[Root]] <= r[b]
    /\ \A a \in S : l.next[a] \in S =>
         /\ r[l.next[a]] < r[a]
         /\ \A b \in S : r[a] <= r[b] \/ r[b] <= r[l.next[a]]

OneRing(l, S) == Tied(l, S) /\ \E r \in [Elem -> Int] : Ranks(l, S, r)

(* The list as every operation but Init keeps it. *)
GoodList(l) ==
    l \in ListType /\ OneRing(l, l.on) /\ l.len = Cardinality(l.on)

-----------------------------------------------------------------------------
LEMMA UnlinkedFields ==
    ASSUME NEW l \in ListType, NEW e \in Elem,
           l.next[e] \in Node, l.prev[e] \in Node
    PROVE  /\ Unlinked(l, e) \in ListType
           /\ Unlinked(l, e).on = l.on
           /\ Unlinked(l, e).len = l.len
           /\ Unlinked(l, e).next = [l.next EXCEPT ![l.prev[e]] = l.next[e]]
           /\ Unlinked(l, e).prev = [l.prev EXCEPT ![l.next[e]] = l.prev[e]]
BY DEF Unlinked, ListType, Node

LEMMA LinkedFields ==
    ASSUME NEW l \in ListType, NEW e \in Elem, l.next[Root] \in Node
    PROVE  /\ Linked(l, e) \in ListType
           /\ Linked(l, e).on = l.on
           /\ Linked(l, e).len = l.len
           /\ Linked(l, e).next = [l.next EXCEPT ![e] = l.next[Root], ![Root] = e]
           /\ Linked(l, e).prev = [l.prev EXCEPT ![e] = Root, ![l.next[Root]] = e]
BY DEF Linked, ListType, Node

(* Taking an element out of the ring leaves the ring of the others. *)
LEMMA UnlinkRing ==
    ASSUME NEW l \in ListType, NEW S \in SUBSET Elem, OneRing(l, S), NEW e \in S
    PROVE  OneRing(Unlinked(l, e), S \ {e})
PROOF
<1> DEFINE m == Unlinked(l, e)
           T == S \ {e}
           p == l.prev[e]
           n == l.next[e]
<1>1. PICK r \in [Elem -> Int] : Ranks(l, S, r)
  BY DEF OneRing
<1>2. Tied(l, S)
  BY DEF OneRing
<1>3. p \in S \cup {Root} /\ n \in S \cup {Root} /\ Root \notin S
  BY <1>2, GoListAssumption DEF Tied
<1>4. m.next = [l.next EXCEPT ![p] = n] /\ m.prev = [l.prev EXCEPT ![n] = p]
  BY <1>3, UnlinkedFields DEF Node
<1>5. l.next \in [Node -> Node \cup {Nil}] /\ l.prev \in [Node -> Node \cup {Nil}]
  BY DEF ListType
<1>6. (p = e) <=> (n = e)
  BY <1>2, <1>3 DEF Tied
<1>7. p # e
  BY <1>1, <1>2, <1>3, <1>6 DEF Ranks, Tied
<1>8. Tied(m, T)
  <2> SUFFICES ASSUME NEW x \in T \cup {Root}
               PROVE  /\ m.next[x] \in T \cup {Root} /\ m.prev[m.next[x]] = x
                      /\ m.prev[x] \in T \cup {Root} /\ m.next[m.prev[x]] = x
    BY DEF Tied
  <2>1. m.next[x] = IF x = p THEN n ELSE l.next[x]
    BY <1>3, <1>4, <1>5 DEF Node
  <2>2. m.prev[x] = IF x = n THEN p ELSE l.prev[x]
    BY <1>3, <1>4, <1>5 DEF Node
  <2>3. m.next[x] \in T \cup {Root} /\ m.prev[x] \in T \cup {Root}
    BY <1>2, <1>3, <1>6, <1>7, <2>1, <2>2 DEF Tied
  <2>4. m.prev[m.next[x]] = x
    BY <1>2, <1>3, <1>4, <1>5, <1>6, <1>7, <2>1, <2>3 DEF Tied, Node
  <2>5. m.next[m.prev[x]] = x
    BY <1>2, <1>3, <1>4, <1>5, <1>6, <1>7, <2>2, <2>3 DEF Tied, Node
  <2> QED BY <2>3, <2>4, <2>5
<1>9. Ranks(m, T, r)
  <2>1. \A a, b \in T : r[a] = r[b] => a = b
    BY <1>1 DEF Ranks
  <2>2. \A x \in S : r[x] \in Int
    OBVIOUS
  <2>3. ASSUME NEW b \in T PROVE m.next[Root] \in T /\ r[b] <= r[m.next[Root]]
    <3>1. CASE p = Root
      <4>1. m.next[Root] = n /\ l.next[Root] = e
        BY <1>2, <1>3, <1>4, <1>5, <3>1 DEF Tied, Node
      <4>2. n # Root
        <5> SUFFICES ASSUME n = Root PROVE FALSE OBVIOUS
        <5>1. l.prev[Root] = e
          BY <1>2 DEF Tied
        <5>2. r[b] <= r[e] /\ r[e] <= r[b]
          BY <1>1, <4>1, <5>1 DEF Ranks
        <5> QED BY <1>1, <2>2, <5>2 DEF Ranks
      <4>3. n \in T
        BY <1>3, <1>6, <1>7, <4>2
      <4>4. r[e] <= r[b] \/ r[b] <= r[n]
        BY <1>1, <4>3 DEF Ranks
      <4>5. r[b] <= r[e] /\ r[b] # r[e]
        BY <1>1, <4>1 DEF Ranks
      <4> QED BY <2>2, <4>1, <4>3, <4>4, <4>5
    <3>2. CASE p # Root
      <4>1. m.next[Root] = l.next[Root] /\ l.next[Root] # e
        BY <1>2, <1>3, <1>4, <1>5, <3>2 DEF Tied, Node
      <4> QED BY <1>1, <4>1 DEF Ranks
    <3> QED BY <3>1, <3>2
  <2>4. ASSUME NEW b \in T PROVE m.prev[Root] \in T /\ r[m.prev[Root]] <= r[b]
    <3>1. CASE n = Root
      <4>1. m.prev[Root] = p /\ l.prev[Root] = e
        BY <1>2, <1>3, <1>4, <1>5, <3>1 DEF Tied, Node
      <4>2. p # Root
        <5> SUFFICES ASSUME p = Root PROVE FALSE OBVIOUS
        <5>1. l.next[Root] = e
          BY <1>2 DEF Tied
        <5>2. r[b] <= r[e] /\ r[e] <= r[b]
          BY <1>1, <4>1, <5>1 DEF Ranks
        <5> QED BY <1>1, <2>2, <5>2 DEF Ranks
      <4>3. p \in T /\ l.next[p] = e
        BY <1>2, <1>3, <1>7, <4>2 DEF Tied
      <4>4. r[p] <= r[b] \/ r[b] <= r[e]
        BY <1>1, <4>3 DEF Ranks
      <4>5. r[e] <= r[b] /\ r[b] # r[e]
        BY <1>1, <4>1 DEF Ranks
      <4> QED BY <2>2, <4>1, <4>3, <4>4, <4>5
    <3>2. CASE n # Root
      <4>1. m.prev[Root] = l.prev[Root] /\ l.prev[Root] # e
        BY <1>2, <1>3, <1>4, <1>5, <3>2 DEF Tied, Node
      <4> QED BY <1>1, <4>1 DEF Ranks
    <3> QED BY <3>1, <3>2
  <2>5. ASSUME NEW a \in T, m.next[a] \in T
        PROVE  /\ r[m.next[a]] < r[a]
               /\ \A b \in T : r[a] <= r[b] \/ r[b] <= r[m.next[a]]
    <3>1. CASE a = p
      <4>1. m.next[a] = n /\ l.next[a] = e /\ n \in S
        BY <1>2, <1>3, <1>4, <1>5, <2>5, <3>1 DEF Tied, Node
      <4>2. r[e] < r[a] /\ r[n] < r[e]
        BY <1>1, <4>1 DEF Ranks
      <4>3. ASSUME NEW b \in T PROVE r[a] <= r[b] \/ r[b] <= r[n]
        <5>1. (r[a] <= r[b] \/ r[b] <= r[e]) /\ (r[e] <= r[b] \/ r[b] <= r[n])
          BY <1>1, <4>1 DEF Ranks
        <5>2. r[b] # r[e]
          BY <1>1 DEF Ranks
        <5> QED BY <2>2, <4>1, <5>1, <5>2
      <4> QED BY <2>2, <4>1, <4>2, <4>3
    <3>2. CASE a # p
      <4>1. m.next[a] = l.next[a]
        BY <1>3, <1>4, <1>5, <3>2 DEF Node
      <4> QED BY <1>1, <2>5, <4>1 DEF Ranks
    <3> QED BY <3>1, <3>2
  <2> QED BY <2>1, <2>3, <2>4, <2>5 DEF Ranks
<1> QED BY <1>8, <1>9 DEF OneRing

(* Putting a new element behind the sentinel gives a ring with one more. *)
LEMMA LinkRing ==
    ASSUME NEW l \in ListType, NEW S \in SUBSET Elem, OneRing(l, S),
           NEW e \in Elem, e \notin S
    PROVE  OneRing(Linked(l, e), S \cup {e})
PROOF
<1> DEFINE m == Linked(l, e)
           T == S \cup {e}
           f == l.next[Root]
<1>1. PICK r \in [Elem -> Int] : Ranks(l, S, r)
  BY DEF OneRing
<1>2. Tied(l, S)
  BY DEF OneRing
<1>3. f \in S \cup {Root} /\ Root \notin S /\ e # Root /\ f # e
  BY <1>2, GoListAssumption DEF Tied
<1>4. /\ m.next = [l.next EXCEPT ![e] = f, ![Root] = e]
      /\ m.prev = [l.prev EXCEPT ![e] = Root, ![f] = e]
  BY <1>3, LinkedFields DEF Node
<1>5. l.next \in [Node -> Node \cup {Nil}] /\ l.prev \in [Node -> Node \cup {Nil}]
  BY DEF ListType
<1>6. ASSUME NEW x \in S \cup {Root}
      PROVE  /\ m.next[x] = IF x = Root THEN e ELSE l.next[x]
             /\ m.prev[x] = IF x = f THEN e ELSE l.prev[x]
  BY <1>3, <1>4, <1>5 DEF Node
<1>7. m.next[e] = f /\ m.prev[e] = Root
  BY <1>3, <1>4, <1>5 DEF Node
<1>8. Tied(m, T)
  <2>1. ASSUME NEW x \in S \cup {Root}
        PROVE  /\ m.next[x] \in T \cup {Root} /\ m.prev[m.next[x]] = x
               /\ m.prev[x] \in T \cup {Root} /\ m.next[m.prev[x]] = x
    <3>1. m.next[x] \in T \cup {Root} /\ m.prev[x] \in T \cup {Root}
      BY <1>2, <1>6 DEF Tied
    <3>2. m.prev[m.next[x]] = x
      BY <1>2, <1>3, <1>6, <1>7 DEF Tied
    <3>3. m.next[m.prev[x]] = x
      BY <1>2, <1>3, <1>6, <1>7 DEF Tied
    <3> QED BY <3>1, <3>2, <3>3
  <2>2. /\ m.next[e] \in T \cup {Root} /\ m.prev[m.next[e]] = e
        /\ m.prev[e] \in T \cup {Root} /\ m.next[m.prev[e]] = e
    BY <1>3, <1>6, <1>7
  <2> QED BY <2>1, <2>2 DEF Tied
<1> DEFINE top == IF f = Root THEN 0 ELSE r[f] + 1
           q == [r EXCEPT ![e] = top]
<1>9. top \in Int /\ q \in [Elem -> Int]
  BY <1>3
<1>10. q[e] = top /\ \A b \in S : q[b] = r[b] /\ r[b] \in Int
  BY <1>9
<1>11. \A b \in S : f \in S /\ r[b] <= r[f] /\ r[b] < top
  BY <1>1, <1>3, <1>9 DEF Ranks
<1>12. Ranks(m, T, q)
  <2>1. \A a, b \in T : q[a] = q[b] => a = b
    BY <1>1, <1>9, <1>10, <1>11 DEF Ranks
  <2>2. \A b \in T : m.next[Root] \in T /\ q[b] <= q[m.next[Root]]
    BY <1>6, <1>9, <1>10, <1>11
  <2>3. ASSUME NEW b \in T PROVE m.prev[Root] \in T /\ q[m.prev[Root]] <= q[b]
    <3>1. CASE f = Root
      <4>1. S = {}
        BY <1>3, <1>11, <3>1
      <4> QED BY <1>6, <1>9, <1>10, <3>1, <4>1
    <3>2. CASE f # Root
      <4>1. f \in S /\ m.prev[Root] = l.prev[Root]
        BY <1>3, <1>6, <3>2
      <4>2. l.prev[Root] \in S /\ \A c \in S : r[l.prev[Root]] <= r[c]
        BY <1>1, <4>1 DEF Ranks
      <4>3. q[l.prev[Root]] = r[l.prev[Root]] /\ r[l.prev[Root]] < top
        BY <1>10, <1>11, <4>2
      <4> QED BY <1>9, <1>10, <4>1, <4>2, <4>3
    <3> QED BY <3>1, <3>2
  <2>4. ASSUME NEW a \in T, m.next[a] \in T
        PROVE  /\ q[m.next[a]] < q[a]
               /\ \A b \in T : q[a] <= q[b] \/ q[b] <= q[m.next[a]]
    <3>1. CASE a = e
      <4>1. m.next[a] = f /\ f \in S
        BY <1>3, <1>7, <2>4, <3>1
      <4> QED BY <1>9, <1>10, <1>11, <3>1, <4>1
    <3>2. CASE a # e
      <4>1. a \in S /\ m.next[a] = l.next[a]
        BY <1>3, <1>6, <3>2
      <4>2. l.next[a] \in S
        BY <1>2, <1>3, <2>4, <4>1 DEF Tied
      <4>3. /\ r[l.next[a]] < r[a]
            /\ \A b \in S : r[a] <= r[b] \/ r[b] <= r[l.next[a]]
        BY <1>1, <4>1, <4>2 DEF Ranks
      <4> QED BY <1>9, <1>10, <1>11, <4>1, <4>2, <4>3
    <3> QED BY <3>1, <3>2
  <2> QED BY <2>1, <2>2, <2>3, <2>4 DEF Ranks
<1> QED BY <1>8, <1>9, <1>12 DEF OneRing

(* The pointers of nodes outside the ring do not matter to it. *)
LEMMA SameRing ==
    ASSUME NEW l, NEW m, NEW S \in SUBSET Elem, OneRing(l, S),
           \A n \in S \cup {Root} : m.next[n] = l.next[n] /\ m.prev[n] = l.prev[n]
    PROVE  OneRing(m, S)
PROOF
<1>1. Tied(l, S)
  BY DEF OneRing
<1>2. Tied(m, S)
  BY <1>1 DEF Tied
<1>3. PICK r \in [Elem -> Int] : Ranks(l, S, r)
  BY DEF OneRing
<1>4. Ranks(m, S, r)
  BY <1>3 DEF Ranks
<1> QED BY <1>2, <1>4 DEF OneRing

-----------------------------------------------------------------------------
LEMMA EmptyListGood == GoodList(EmptyList)
PROOF
<1>1. EmptyList \in ListType /\ EmptyList.on = {} /\ EmptyList.len = 0
  BY DEF EmptyList, ListType, Node
<1>2. EmptyList.next[Root] = Root /\ EmptyList.prev[Root] = Root
  BY DEF EmptyList, Node
<1>3. Tied(EmptyList, {})
  BY <1>2 DEF Tied
<1>4. Ranks(EmptyList, {}, [e \in Elem |-> 0])
  BY DEF Ranks
<1>5. [e \in Elem |-> 0] \in [Elem -> Int]
  OBVIOUS
<1> QED BY <1>1, <1>3, <1>4, <1>5, FS_EmptySet DEF GoodList, OneRing

(* PushFront puts a new element on the list. *)
LEMMA PushFrontGood ==
    ASSUME NEW l, GoodList(l), NEW e \in Elem, e \notin l.on
    PROVE  /\ GoodList(PushFront(l, e))
           /\ PushFront(l, e).on = l.on \cup {e}
           /\ PushFront(l, e).len = l.len + 1
PROOF
<1>1. l \in ListType /\ l.on \in SUBSET Elem /\ l.len \in Int /\ l.next[Root] \in Node
  BY DEF GoodList, ListType, OneRing, Tied, Node
<1>2. OneRing(Linked(l, e), l.on \cup {e})
  BY <1>1, LinkRing DEF GoodList
<1>3. /\ Linked(l, e) \in ListType
      /\ Linked(l, e).on = l.on /\ Linked(l, e).len = l.len
  BY <1>1, LinkedFields
<1> DEFINE k == Linked(l, e)
           m == PushFront(l, e)
<1> HIDE DEF k
<1>4. /\ m.next = k.next /\ m.prev = k.prev
      /\ m.on = l.on \cup {e} /\ m.len = l.len + 1
      /\ m \in ListType
  BY <1>1, <1>3 DEF PushFront, ListType, k
<1>5. OneRing(m, m.on)
  BY <1>1, <1>2, <1>4, SameRing DEF k
<1>6. Cardinality(l.on \cup {e}) = Cardinality(l.on) + 1
  BY <1>1, GoListAssumption, FS_Subset, FS_AddElement
<1> QED BY <1>4, <1>5, <1>6 DEF GoodList

(* Remove takes the element off the list if it is there. *)
LEMMA RemoveGood ==
    ASSUME NEW l, GoodList(l), NEW e
    PROVE  /\ GoodList(Remove(l, e))
           /\ Remove(l, e).on = l.on \ {e}
           /\ Remove(l, e).len = IF e \in l.on THEN l.len - 1 ELSE l.len
PROOF
<1>1. l \in ListType /\ l.on \in SUBSET Elem /\ l.len \in Int
  BY DEF GoodList, ListType
<1>2. CASE e \notin l.on
  BY <1>1, <1>2 DEF Remove
<1>3. CASE e \in l.on
  <2> DEFINE k == Unlinked(l, e)
             m == Remove(l, e)
  <2>1. e \in Elem /\ e # Root /\ l.next[e] \in Node /\ l.prev[e] \in Node
    BY <1>1, <1>3, GoListAssumption DEF GoodList, OneRing, Tied, Node
  <2>2. OneRing(k, l.on \ {e})
    BY <1>1, <1>3, UnlinkRing DEF GoodList
  <2>3. k \in ListType /\ k.on = l.on /\ k.len = l.len
    BY <1>1, <2>1, UnlinkedFields
  <2> HIDE DEF k
  <2>4. /\ m.next = [k.next EXCEPT ![e] = Nil] /\ m.prev = [k.prev EXCEPT ![e] = Nil]
        /\ m.on = l.on \ {e} /\ m.len = l.len - 1
        /\ m \in ListType
    BY <1>1, <1>3, <2>1, <2>3 DEF Remove, ListType, Node, k
  <2>5. \A n \in m.on \cup {Root} : m.next[n] = k.next[n] /\ m.prev[n] = k.prev[n]
    BY <1>1, <2>1, <2>3, <2>4 DEF ListType, Node
  <2>6. OneRing(m, m.on)
    BY <1>1, <2>2, <2>4, <2>5, SameRing
  <2>7. Cardinality(l.on \ {e}) = Cardinality(l.on) - 1
    BY <1>1, <1>3, GoListAssumption, FS_Subset, FS_RemoveElement
  <2> QED BY <1>3, <2>4, <2>6, <2>7 DEF GoodList
<1> QED BY <1>2, <1>3

(* MoveToFront keeps the elements, also for an element that has left. *)
LEMMA MoveToFrontGood ==
    ASSUME NEW l, GoodList(l), NEW e
    PROVE  /\ GoodList(MoveToFront(l, e))
           /\ MoveToFront(l, e).on = l.on
           /\ MoveToFront(l, e).len = l.len
PROOF
<1>1. l \in ListType /\ l.on \in SUBSET Elem
  BY DEF GoodList, ListType
<1>2. CASE ~(e \in l.on /\ l.next[Root] # e)
  BY <1>2 DEF MoveToFront
<1>3. CASE e \in l.on /\ l.next[Root] # e
  <2> DEFINE k == Unlinked(l, e)
             m == Linked(k, e)
  <2>1. e \in Elem /\ l.next[e] \in Node /\ l.prev[e] \in Node
    BY <1>1, <1>3 DEF GoodList, OneRing, Tied, Node
  <2>2. OneRing(k, l.on \ {e})
    BY <1>1, <1>3, UnlinkRing DEF GoodList
  <2>3. k \in ListType /\ k.on = l.on /\ k.len = l.len
    BY <1>1, <2>1, UnlinkedFields
  <2>4. l.on \ {e} \in SUBSET Elem /\ (l.on \ {e}) \cup {e} = l.on
    BY <1>1, <1>3
  <2>5. k.next[Root] \in Node
    BY <2>2, <2>4 DEF OneRing, Tied, Node
  <2> HIDE DEF k
  <2>6. OneRing(m, (l.on \ {e}) \cup {e})
    BY <2>1, <2>2, <2>3, <2>4, LinkRing
  <2>7. m \in ListType /\ m.on = k.on /\ m.len = k.len
    BY <2>1, <2>3, <2>5, LinkedFields
  <2>8. MoveToFront(l, e) = m
    BY <1>3 DEF MoveToFront, k
  <2> HIDE DEF m
  <2> QED BY <2>3, <2>4, <2>6, <2>7, <2>8 DEF GoodList
<1> QED BY <1>2, <1>3

(* Back never is the sentinel, and finds an element exactly if there is one. *)
LEMMA BackGood ==
    ASSUME NEW l, GoodList(l)
    PROVE  /\ l.len \in Nat
           /\ l.len > 0 => Back(l) \in l.on
           /\ Back(l) \in l.on \cup {Nil}
PROOF
<1>1. l \in ListType /\ l.on \in SUBSET Elem
  BY DEF GoodList, ListType
<1>2. IsFiniteSet(l.on) /\ l.len = Cardinality(l.on) /\ l.len \in Nat
  BY <1>1, GoListAssumption, FS_Subset, FS_CardinalityType DEF GoodList
<1>3. l.len # 0 => \E b \in l.on : TRUE
  BY <1>2, FS_EmptySet
<1>4. \A b \in l.on : l.prev[Root] \in l.on
  BY DEF GoodList, OneRing, Ranks
<1> QED BY <1>2, <1>3, <1>4 DEF Back

LEMMA PrevOfGood ==
    ASSUME NEW l, GoodList(l), NEW e
    PROVE  PrevOf(l, e) \in l.on \cup {Nil}
BY DEF GoodList, OneRing, Tied, PrevOf

-----------------------------------------------------------------------------
(* Type correctness, for clients that use every operation.  It rests on two
   facts: the pointers of the nodes on the list are never nil, even when Clear
   has torn the ring, and each place in the code has the locals it needs. *)
Pointed(l) ==
    /\ l \in ListType
    /\ \A n \in l.on \cup {Root} : l.next[n] \in Node /\ l.prev[n] \in Node

FrameOK ==
    \A p \in Proc :
        /\ pc[p] \in {"item", "drop", "touch"} =>
             loc[p].elem \in Elem /\ loc[p].key \in Key
        /\ pc[p] \in {"locked", "fn"} => loc[p].key \in Key /\ loc[p].arg \in Elem
        /\ pc[p] \in {"check", "cleanup", "walk", "relock", "evict", "push"} =>
             loc[p].arg \in Elem

TypeInv == TypeOK /\ Pointed(ll) /\ FrameOK

LEMMA PointedEmpty == Pointed(EmptyList)
BY DEF Pointed, EmptyList, ListType, Node

LEMMA PointedReset ==
    ASSUME NEW l, Pointed(l)
    PROVE  Pointed(Reset(l))
BY DEF Pointed, Reset, ListType, Node

LEMMA PointedUnlinked ==
    ASSUME NEW l, Pointed(l), NEW e \in l.on
    PROVE  Pointed(Unlinked(l, e))
PROOF
<1>1. e \in Elem /\ l.next[e] \in Node /\ l.prev[e] \in Node /\ l \in ListType
  BY DEF Pointed, ListType
<1> DEFINE k == Unlinked(l, e)
<1>2. /\ k \in ListType /\ k.on = l.on
      /\ k.next = [l.next EXCEPT ![l.prev[e]] = l.next[e]]
      /\ k.prev = [l.prev EXCEPT ![l.next[e]] = l.prev[e]]
  BY <1>1, UnlinkedFields
<1> HIDE DEF k
<1>3. k.next \in [Node -> Node \cup {Nil}] /\ k.prev \in [Node -> Node \cup {Nil}]
  BY <1>2 DEF ListType
<1>4. l.next \in [Node -> Node \cup {Nil}] /\ l.prev \in [Node -> Node \cup {Nil}]
  BY <1>1 DEF ListType
<1>5. \A n \in l.on \cup {Root} : n \in Node
  BY <1>1 DEF ListType, Node
<1>6. \A n \in l.on \cup {Root} : k.next[n] \in Node /\ k.prev[n] \in Node
  BY <1>1, <1>2, <1>3, <1>4, <1>5 DEF Pointed
<1> QED BY <1>2, <1>6 DEF Pointed, k

LEMMA PointedLinked ==
    ASSUME NEW l, Pointed(l), NEW e \in Elem
    PROVE  /\ Pointed(Linked(l, e))
           /\ Linked(l, e).next[e] \in Node /\ Linked(l, e).prev[e] \in Node
PROOF
<1>1. l.next[Root] \in Node /\ l \in ListType
  BY DEF Pointed
<1> DEFINE k == Linked(l, e)
<1>2. /\ k \in ListType /\ k.on = l.on
      /\ k.next = [l.next EXCEPT ![e] = l.next[Root], ![Root] = e]
      /\ k.prev = [l.prev EXCEPT ![e] = Root, ![l.next[Root]] = e]
  BY <1>1, LinkedFields
<1> HIDE DEF k
<1>3. l.next \in [Node -> Node \cup {Nil}] /\ l.prev \in [Node -> Node \cup {Nil}]
  BY <1>1 DEF ListType
<1>4. \A n \in l.on \cup {Root, e} : n \in Node
  BY <1>1 DEF ListType, Node
<1>5. /\ \A n \in l.on \cup {Root} : k.next[n] \in Node /\ k.prev[n] \in Node
      /\ k.next[e] \in Node /\ k.prev[e] \in Node
  BY <1>1, <1>2, <1>3, <1>4 DEF Pointed
<1> QED BY <1>2, <1>5 DEF Pointed, k

LEMMA PointedPush ==
    ASSUME NEW l, Pointed(l), NEW e \in Elem
    PROVE  Pointed(PushFront(l, e))
PROOF
<1> DEFINE k == Linked(l, e)
<1>1. Pointed(k) /\ k.next[e] \in Node /\ k.prev[e] \in Node /\ l \in ListType
  BY PointedLinked DEF Pointed
<1>2. k.on = l.on
  BY <1>1, LinkedFields DEF Pointed
<1> HIDE DEF k
<1> QED BY <1>1, <1>2 DEF Pointed, PushFront, ListType, k

LEMMA PointedRemove ==
    ASSUME NEW l, Pointed(l), NEW e
    PROVE  Pointed(Remove(l, e))
PROOF
<1>1. CASE e \notin l.on
  BY <1>1 DEF Remove
<1>2. CASE e \in l.on
  <2> DEFINE k == Unlinked(l, e)
  <2>1. Pointed(k) /\ l \in ListType /\ e \in Elem
    BY <1>2, PointedUnlinked DEF Pointed, ListType
  <2>2. k.on = l.on
    BY <1>2, <2>1, UnlinkedFields DEF Pointed
  <2> HIDE DEF k
  <2>3. Remove(l, e) = [next |-> [k.next EXCEPT ![e] = Nil],
                        prev |-> [k.prev EXCEPT ![e] = Nil],
                        on |-> l.on \ {e}, len |-> l.len - 1]
    BY <1>2 DEF Remove, k
  <2> QED BY <2>1, <2>2, <2>3, GoListAssumption DEF Pointed, ListType, Node
<1> QED BY <1>1, <1>2

LEMMA PointedMove ==
    ASSUME NEW l, Pointed(l), NEW e
    PROVE  Pointed(MoveToFront(l, e))
PROOF
<1>1. CASE ~(e \in l.on /\ l.next[Root] # e)
  BY <1>1 DEF MoveToFront
<1>2. CASE e \in l.on /\ l.next[Root] # e
  <2>1. Pointed(Unlinked(l, e)) /\ e \in Elem
    BY <1>2, PointedUnlinked DEF Pointed, ListType
  <2> QED BY <1>2, <2>1, PointedLinked DEF MoveToFront
<1> QED BY <1>1, <1>2

LEMMA PointedBack ==
    ASSUME NEW l, Pointed(l)
    PROVE  Back(l) \in Node \cup {Nil} /\ (l.len # 0 => Back(l) \in Node)
BY DEF Pointed, Back

LEMMA PointedPrevOf ==
    ASSUME NEW l, Pointed(l), NEW e
    PROVE  PrevOf(l, e) \in Elem \cup {Nil}
BY DEF Pointed, PrevOf, Node

LEMMA WordArithmetic ==
    ASSUME NEW a \in 0..(Word - 1), NEW b \in 0..(Word - 1)
    PROVE  Plus(a, b) \in 0..(Word - 1) /\ Minus(a, b) \in 0..(Word - 1)
BY BaseCacheAssumption DEF Plus, Minus

(* Dropping an element of the pool keeps the types. *)
LEMMA DropTypes ==
    ASSUME TypeOK, Pointed(ll), NEW e \in Elem, Drop(e)
    PROVE  /\ cache' \in [Key -> Elem \cup {Nil}]
           /\ Pointed(ll')
           /\ mem' \in 0..(Word - 1)
PROOF
<1>1. ent[e].key \in Key /\ ent[e].size \in 0..(Word - 1)
  BY BaseCacheAssumption DEF TypeOK, Entry
<1> QED BY <1>1, PointedRemove, WordArithmetic DEF Drop, TypeOK

LEMMA TypeInit == Init => TypeInv
PROOF
<1> SUFFICES ASSUME Init PROVE TypeInv
  OBVIOUS
<1>1. PICK x \in Entry : ent = [e \in Elem |-> x]
  BY DEF Init
<1>2. NoFrame \in Frame
  BY DEF NoFrame, Frame
<1>3. Pointed(ll)
  BY PointedEmpty DEF Init
<1>4. TypeOK
  BY <1>1, <1>2, <1>3, BaseCacheAssumption DEF Init, TypeOK, Pointed, Place
<1>5. FrameOK
  BY DEF Init, FrameOK
<1> QED BY <1>3, <1>4, <1>5 DEF TypeInv

(* The frames that differ from another one in several fields. *)
LEMMA FrameUpdates ==
    ASSUME NEW f \in Frame, NEW k \in Key, NEW x \in Node \cup {Nil},
           NEW a \in Elem \cup {Nil}
    PROVE  /\ [f EXCEPT !.key = k, !.elem = x, !.arg = a] \in Frame
           /\ [f EXCEPT !.key = k, !.arg = a] \in Frame
BY DEF Frame

LEMMA FrameTodo ==
    ASSUME NEW f \in Frame, NEW a \in Elem \cup {Nil}, NEW S \in SUBSET Elem
    PROVE  [f EXCEPT !.todo = S, !.arg = a] \in Frame
BY DEF Frame

LEMMA FrameWalk ==
    ASSUME NEW f \in Frame, NEW x \in Node \cup {Nil}, NEW m \in Nat, NEW n \in Nat
    PROVE  /\ [f EXCEPT !.elem = x, !.quota = m, !.removed = n] \in Frame
           /\ [f EXCEPT !.elem = x, !.removed = n] \in Frame
BY DEF Frame

(* The calls. *)
LEMMA TypeCall ==
    ASSUME TypeInv, NEW p \in Proc, Call(p)
    PROVE  TypeInv'
PROOF
<1> USE DEF TypeInv, CanCall, Goto
<1>1. CASE Set(p)
  <2>1. PICK k \in Key, s \in Size, ttl \in BOOLEAN, e \in Free :
          /\ ent' = [ent EXCEPT ![e] = [key |-> k, size |-> s, life |-> LifeOf(ttl)]]
          /\ loc' = [loc EXCEPT ![p].todo = {e}]
    BY <1>1 DEF Set
  <2>2. e \in Elem
    BY DEF Free
  <2>3. ent' \in [Elem -> Entry]
    BY <2>1, <2>2 DEF TypeOK, Entry, Life, LifeOf
  <2>4. loc' \in [Proc -> Frame]
    BY <2>1, <2>2 DEF TypeOK, Frame
  <2>5. TypeOK' /\ Pointed(ll)'
    BY <1>1, <2>3, <2>4 DEF Set, TypeOK, Place
  <2>6. FrameOK'
    BY <1>1, <2>1 DEF Set, FrameOK, TypeOK
  <2> QED BY <2>5, <2>6
<1>2. CASE SetMap(p)
  <2>1. PICK es \in SUBSET Free : \E key \in [es -> Key] : \E size \in [es -> Size] :
          /\ \E d, e \in es : d # e
          /\ \A d, e \in es : key[d] = key[e] => d = e
          /\ ent' = [e \in Elem |->
                       IF e \in es THEN [key |-> key[e], size |-> size[e],
                                         life |-> LifeOf(DefaultTTL)]
                                   ELSE ent[e]]
          /\ loc' = [loc EXCEPT ![p].todo = es]
    BY <1>2 DEF SetMap
  <2>2. es \subseteq Elem
    BY DEF Free
  <2>3. ent' \in [Elem -> Entry]
    <3>1. PICK key \in [es -> Key] : \E size \in [es -> Size] :
            ent' = [e \in Elem |->
                     IF e \in es THEN [key |-> key[e], size |-> size[e],
                                       life |-> LifeOf(DefaultTTL)]
                                 ELSE ent[e]]
      BY <2>1
    <3>2. PICK size \in [es -> Size] :
            ent' = [e \in Elem |->
                     IF e \in es THEN [key |-> key[e], size |-> size[e],
                                       life |-> LifeOf(DefaultTTL)]
                                 ELSE ent[e]]
      BY <3>1
    <3> QED BY <2>2, <3>2 DEF TypeOK, Entry, Life, LifeOf
  <2>4. loc' = [loc EXCEPT ![p].todo = es]
    BY <2>1
  <2>5. TypeOK' /\ Pointed(ll)'
    <3>1. loc' \in [Proc -> Frame]
      BY <2>2, <2>4 DEF TypeOK, Frame
    <3> QED BY <1>2, <2>3, <3>1 DEF SetMap, TypeOK, Place
  <2>6. FrameOK'
    BY <1>2, <2>4 DEF SetMap, FrameOK, TypeOK
  <2> QED BY <2>5, <2>6
<1>3. CASE Get(p)
  <2>1. PICK k \in Key : Lookup(p, k, Nil)
    BY <1>3 DEF Get
  <2>2. CASE cache[k] # Nil
    <3> DEFINE f == [loc[p] EXCEPT !.key = k, !.elem = cache[k], !.arg = Nil]
    <3>1. loc' = [loc EXCEPT ![p] = f] /\ pc' = [pc EXCEPT ![p] = "item"]
      BY <2>1, <2>2 DEF Lookup
    <3>2. cache[k] \in Elem
      BY <2>2 DEF TypeOK
    <3>3. f \in Frame /\ f.elem = cache[k] /\ f.key = k
      <4>1. loc[p] \in Frame /\ cache[k] \in Node \cup {Nil}
        BY <3>2 DEF TypeOK, Node
      <4>2. f \in Frame
        BY <4>1, FrameUpdates
      <4> QED BY <4>1, <4>2 DEF Frame
    <3> HIDE DEF f
    <3>4. /\ loc' \in [Proc -> Frame] /\ loc'[p] = f
          /\ \A q \in Proc \ {p} : loc'[q] = loc[q]
      BY <3>1, <3>3 DEF TypeOK
    <3> QED BY <1>3, <3>1, <3>2, <3>3, <3>4 DEF Get, TypeOK, Place, FrameOK
  <2>3. CASE cache[k] = Nil
    BY <1>3, <2>1, <2>3 DEF Get, Lookup, TypeOK, FrameOK
  <2> QED BY <2>2, <2>3
<1>4. CASE GetOrSetFunc(p)
  <2>1. PICK k \in Key, s \in Size, e \in Free :
          /\ ent' = [ent EXCEPT ![e] = [key |-> k, size |-> s,
                                        life |-> LifeOf(DefaultTTL)]]
          /\ Lookup(p, k, e)
    BY <1>4 DEF GetOrSetFunc
  <2>2. e \in Elem /\ e # Nil
    BY GoListAssumption DEF Free
  <2>3. ent' \in [Elem -> Entry]
    BY <2>1, <2>2 DEF TypeOK, Entry, Life, LifeOf
  <2>4. CASE cache[k] # Nil
    <3> DEFINE f == [loc[p] EXCEPT !.key = k, !.elem = cache[k], !.arg = e]
    <3>1. loc' = [loc EXCEPT ![p] = f] /\ pc' = [pc EXCEPT ![p] = "item"]
      BY <2>1, <2>4 DEF Lookup
    <3>2. cache[k] \in Elem
      BY <2>4 DEF TypeOK
    <3>3. f \in Frame /\ f.elem = cache[k] /\ f.key = k
      <4>1. loc[p] \in Frame /\ cache[k] \in Node \cup {Nil}
        BY <3>2 DEF TypeOK, Node
      <4>2. f \in Frame
        BY <2>2, <4>1, FrameUpdates
      <4> QED BY <4>1, <4>2 DEF Frame
    <3> HIDE DEF f
    <3>4. /\ loc' \in [Proc -> Frame] /\ loc'[p] = f
          /\ \A q \in Proc \ {p} : loc'[q] = loc[q]
      BY <3>1, <3>3 DEF TypeOK
    <3> QED BY <1>4, <2>3, <3>1, <3>2, <3>3, <3>4
            DEF GetOrSetFunc, TypeOK, Place, FrameOK
  <2>5. CASE cache[k] = Nil
    <3> DEFINE f == [loc[p] EXCEPT !.key = k, !.arg = e]
    <3>1. loc' = [loc EXCEPT ![p] = f] /\ pc' = [pc EXCEPT ![p] = "locked"]
      BY <2>1, <2>2, <2>5 DEF Lookup
    <3>2. f \in Frame /\ f.arg = e /\ f.key = k
      <4>1. loc[p] \in Frame
        BY DEF TypeOK
      <4>2. f \in Frame
        BY <2>2, <4>1, FrameUpdates
      <4> QED BY <4>1, <4>2 DEF Frame
    <3> HIDE DEF f
    <3>3. /\ loc' \in [Proc -> Frame] /\ loc'[p] = f
          /\ \A q \in Proc \ {p} : loc'[q] = loc[q]
      BY <3>1, <3>2 DEF TypeOK
    <3> QED BY <1>4, <2>2, <2>3, <3>1, <3>2, <3>3
            DEF GetOrSetFunc, TypeOK, Place, FrameOK
  <2> QED BY <2>4, <2>5
<1>5. CASE Del(p)
  <2>1. PICK ks \in SUBSET Key : loc' = [loc EXCEPT ![p].keys = ks]
    BY <1>5 DEF Del
  <2>2. loc' \in [Proc -> Frame]
    BY <2>1 DEF TypeOK, Frame
  <2>3. \A q \in Proc \ {p} : loc'[q] = loc[q]
    BY <2>1 DEF TypeOK
  <2> QED BY <1>5, <2>2, <2>3 DEF Del, TypeOK, Place, FrameOK
<1>6. CASE Clear(p)
  <2>1. Pointed(ll')
    BY <1>6, PointedReset DEF Clear
  <2> QED BY <1>6, <2>1 DEF Clear, TypeOK, Pointed, FrameOK
<1>7. CASE SetMemoryLimit(p)
  BY <1>7 DEF SetMemoryLimit, TypeOK, Place, FrameOK
<1>8. CASE Destroy(p)
  BY <1>8 DEF Destroy, TypeOK, Place, FrameOK
<1> QED
  BY <1>1, <1>2, <1>3, <1>4, <1>5, <1>6, <1>7, <1>8 DEF Call

LEMMA NoFrameType == NoFrame \in Frame
BY DEF NoFrame, Frame

(* A goroutine whose frame is discarded, and that goes where none is needed. *)
LEMMA FrameGone ==
    ASSUME TypeOK, FrameOK, NEW p \in Proc, NEW place \in {"idle", "panicked", "next"},
           NEW f \in Frame,
           Goto(p, place), loc' = [loc EXCEPT ![p] = f]
    PROVE  /\ pc' \in [Proc -> Place] /\ loc' \in [Proc -> Frame] /\ FrameOK'
BY DEF TypeOK, FrameOK, Goto, Place

LEMMA ReturnTypes ==
    ASSUME TypeOK, FrameOK, NEW p \in Proc, Return(p)
    PROVE  pc' \in [Proc -> Place] /\ loc' \in [Proc -> Frame] /\ FrameOK'
BY NoFrameType, FrameGone DEF Return

LEMMA PanicTypes ==
    ASSUME TypeInv, NEW p \in Proc, Panic(p), UNCHANGED <<ent, max>>
    PROVE  TypeInv'
PROOF
<1>1. pc' \in [Proc -> Place] /\ loc' \in [Proc -> Frame] /\ FrameOK'
  BY NoFrameType, FrameGone DEF Panic, TypeInv
<1> QED BY <1>1 DEF Panic, TypeInv, TypeOK

(* The steps that wait for the lock. *)
LEMMA TypeLocking ==
    ASSUME TypeInv, NEW p \in Proc, Locking(p)
    PROVE  TypeInv'
PROOF
<1> USE DEF TypeInv
<1>1. CASE CleanupLock(p)
  <2> DEFINE part == ll.len \div CleanupPart
             quota == IF part < 1 THEN 1 ELSE part
             f == [loc[p] EXCEPT !.elem = Back(ll), !.quota = quota, !.removed = 0]
  <2>1. quota \in Nat
    BY BaseCacheAssumption DEF TypeOK, ListType
  <2>2. loc[p] \in Frame /\ Back(ll) \in Node \cup {Nil}
    BY PointedBack DEF TypeOK
  <2>3. loc' = [loc EXCEPT ![p] = f]
    BY <1>1 DEF CleanupLock
  <2> HIDE DEF quota
  <2>4. f \in Frame
    <3>1. 0 \in Nat
      OBVIOUS
    <3> QED BY <2>1, <2>2, <3>1, FrameWalk
  <2>5. f.arg = loc[p].arg
    BY <2>2 DEF Frame
  <2> HIDE DEF f
  <2> QED BY <1>1, <2>3, <2>4, <2>5 DEF CleanupLock, TypeOK, FrameOK, Goto, Place
<1>2. CASE Relock(p)
  BY <1>2 DEF Relock, TypeOK, FrameOK, Goto, Place
<1>3. CASE GetDrop(p)
  <2>1. loc[p].elem \in Elem /\ loc[p].key \in Key
    BY <1>3 DEF GetDrop, FrameOK
  <2>2. /\ cache' \in [Key -> Elem \cup {Nil}]
        /\ Pointed(ll')
        /\ mem' \in 0..(Word - 1)
    BY <1>3, <2>1, DropTypes DEF GetDrop, TypeOK
  <2>3. /\ pc' \in [Proc -> Place] /\ loc' \in [Proc -> Frame] /\ FrameOK'
    <3>1. CASE loc[p].arg = Nil
      BY <1>3, <3>1, ReturnTypes DEF GetDrop, Miss
    <3>2. CASE loc[p].arg # Nil
      <4>1. loc' = [loc EXCEPT ![p].elem = Nil] /\ Goto(p, "locked")
        BY <1>3, <3>2 DEF GetDrop, Miss
      <4>2. loc' \in [Proc -> Frame]
        BY <4>1 DEF TypeOK, Frame
      <4>3. loc[p].arg \in Elem
        BY <3>2 DEF TypeOK, Frame
      <4>4. /\ loc'[p].arg = loc[p].arg /\ loc'[p].key = loc[p].key
            /\ \A q \in Proc \ {p} : loc'[q] = loc[q]
        BY <4>1 DEF TypeOK, Frame
      <4> QED BY <2>1, <4>1, <4>2, <4>3, <4>4 DEF TypeOK, FrameOK, Goto, Place
    <3> QED BY <3>1, <3>2
  <2> QED BY <1>3, <2>2, <2>3 DEF GetDrop, TypeOK, Pointed
<1>4. CASE GetTouch(p)
  <2>1. Pointed(ll')
    BY <1>4, PointedMove DEF GetTouch
  <2> QED BY <1>4, <2>1, ReturnTypes DEF GetTouch, TypeOK, Pointed
<1>5. CASE GetLocked(p)
  <2> DEFINE e == cache[loc[p].key]
  <2>1. loc[p].key \in Key /\ loc[p].arg \in Elem
    BY <1>5 DEF GetLocked, FrameOK
  <2>2. CASE e = Nil
    BY <1>5, <2>1, <2>2 DEF GetLocked, TypeOK, FrameOK, Goto, Place
  <2>3. CASE e # Nil /\ Expired(e)
    <3>1. Drop(e) /\ mu' = p /\ Goto(p, "fn") /\ UNCHANGED <<loc, ent, max>>
      BY <1>5, <2>3 DEF GetLocked
    <3>2. e \in Elem
      BY <2>1, <2>3 DEF TypeOK
    <3> HIDE DEF e
    <3>3. /\ cache' \in [Key -> Elem \cup {Nil}]
          /\ Pointed(ll')
          /\ mem' \in 0..(Word - 1)
      BY <3>1, <3>2, DropTypes
    <3> QED BY <2>1, <3>1, <3>3 DEF TypeOK, FrameOK, Goto, Place, Pointed
  <2>4. CASE e # Nil /\ ~Expired(e)
    <3>1. /\ ll' = MoveToFront(ll, e) /\ Return(p)
          /\ UNCHANGED <<mu, cache, mem, ent, max>>
      BY <1>5, <2>4 DEF GetLocked
    <3>2. Pointed(ll')
      BY <3>1, PointedMove
    <3> QED BY <3>1, <3>2, ReturnTypes DEF TypeOK, Pointed
  <2> QED BY <2>2, <2>3, <2>4
<1> QED
  BY <1>1, <1>2, <1>3, <1>4, <1>5 DEF Locking

(* A loop that evicts: the oldest entry goes, and the loop or the call goes on. *)
LEMMA EvictTypes ==
    ASSUME TypeInv, NEW p \in Proc, ll.len > 0, Back(ll) # Root, Drop(Back(ll)),
           UNCHANGED <<ent, max>>,
           mu' \in Proc \cup {NoOwner}, pc' \in [Proc -> Place],
           loc' \in [Proc -> Frame], FrameOK'
    PROVE  TypeInv'
PROOF
<1>1. Back(ll) \in Elem
  BY PointedBack DEF TypeInv, Node
<1>2. /\ cache' \in [Key -> Elem \cup {Nil}] /\ Pointed(ll') /\ mem' \in 0..(Word - 1)
  BY <1>1, DropTypes DEF TypeInv
<1> QED BY <1>2 DEF TypeInv, TypeOK, Pointed

(* setWithTTL. *)
LEMMA TypeStoring ==
    ASSUME TypeInv, NEW p \in Proc, Store(p) \/ Evict(p) \/ Push(p) \/ Trim(p)
    PROVE  TypeInv'
PROOF
<1> USE DEF TypeInv
<1>1. CASE Store(p)
  <2>1. PICK e \in loc[p].todo :
         LET old == cache[ent[e].key]
             kept == IF old = Nil THEN mem ELSE Minus(mem, ent[old].size)
         IN  IF max > 0 /\ ent[e].size > max
             THEN /\ loc' = [loc EXCEPT ![p].todo = @ \ {e}]
                  /\ UNCHANGED <<mu, cache, ll, mem, pc>>
             ELSE /\ loc' = [loc EXCEPT ![p] = [@ EXCEPT !.todo = loc[p].todo \ {e}, !.arg = e]]
                  /\ IF old = Nil THEN UNCHANGED <<cache, ll, mem>> ELSE Drop(old)
                  /\ IF Over(kept, ent[e].size)
                     THEN mu' = NoOwner /\ Goto(p, "check")
                     ELSE UNCHANGED mu /\ Goto(p, "evict")
    BY <1>1 DEF Store
  <2>2. loc[p] \in Frame /\ loc[p].todo \ {e} \in SUBSET Elem /\ e \in Elem
    BY <2>1 DEF TypeOK, Frame
  <2>3. CASE max > 0 /\ ent[e].size > max
    <3>1. /\ loc' = [loc EXCEPT ![p].todo = @ \ {e}]
          /\ UNCHANGED <<mu, cache, ll, mem, pc, ent, max>>
      BY <1>1, <2>1, <2>3 DEF Store
    <3>2. loc' \in [Proc -> Frame]
      BY <2>2, <3>1 DEF TypeOK, Frame
    <3>3. \A q \in Proc : /\ loc'[q].arg = loc[q].arg /\ loc'[q].key = loc[q].key
                          /\ loc'[q].elem = loc[q].elem
      BY <3>1 DEF TypeOK, Frame
    <3> QED BY <3>1, <3>2, <3>3 DEF TypeOK, FrameOK
  <2>4. CASE ~(max > 0 /\ ent[e].size > max)
    <3> DEFINE f == [loc[p] EXCEPT !.todo = loc[p].todo \ {e}, !.arg = e]
               old == cache[ent[e].key]
    <3>1. /\ loc' = [loc EXCEPT ![p] = f]
          /\ IF old = Nil THEN UNCHANGED <<cache, ll, mem>> ELSE Drop(old)
          /\ \/ mu' = NoOwner /\ Goto(p, "check")
             \/ UNCHANGED mu /\ Goto(p, "evict")
          /\ UNCHANGED <<ent, max>>
      BY <1>1, <2>1, <2>4 DEF Store
    <3>2. f \in Frame
      BY <2>2, FrameTodo
    <3>3. f.arg = e
      BY <2>2 DEF Frame
    <3>4. ent[e].key \in Key
      BY <2>2 DEF TypeOK, Entry
    <3>5. old \in Elem \cup {Nil}
      BY <3>4 DEF TypeOK
    <3> HIDE DEF f, old
    <3>6. /\ cache' \in [Key -> Elem \cup {Nil}] /\ Pointed(ll') /\ mem' \in 0..(Word - 1)
      BY <3>1, <3>5, DropTypes DEF TypeOK, Pointed
    <3>7. /\ loc' \in [Proc -> Frame] /\ loc'[p].arg \in Elem
          /\ \A q \in Proc \ {p} : loc'[q] = loc[q]
      BY <2>2, <3>1, <3>2, <3>3 DEF TypeOK
    <3> QED BY <3>1, <3>6, <3>7 DEF TypeOK, FrameOK, Goto, Place, Pointed
  <2> QED BY <2>3, <2>4
<1>2. CASE Evict(p)
  <2>1. loc[p].arg \in Elem
    BY <1>2 DEF Evict, FrameOK
  <2>2. CASE Back(ll) # Root /\ Over(mem, ent[loc[p].arg].size) /\ ll.len > 0
    <3>1. Drop(Back(ll)) /\ Goto(p, "push") /\ UNCHANGED <<mu, loc, ent, max>>
      BY <1>2, <2>2 DEF Evict
    <3>2. pc' \in [Proc -> Place] /\ FrameOK'
      BY <2>1, <3>1 DEF TypeOK, FrameOK, Goto, Place
    <3> QED BY <2>2, <3>1, <3>2, EvictTypes DEF TypeOK
  <2>3. CASE Back(ll) = Root /\ Over(mem, ent[loc[p].arg].size) /\ ll.len > 0
    BY <1>2, <2>3, PanicTypes DEF Evict
  <2>4. CASE ~(Over(mem, ent[loc[p].arg].size) /\ ll.len > 0)
    BY <1>2, <2>1, <2>4 DEF Evict, TypeOK, FrameOK, Goto, Place, Pointed
  <2> QED BY <2>2, <2>3, <2>4
<1>3. CASE Push(p)
  <2> DEFINE e == loc[p].arg
  <2>1. e \in Elem
    BY <1>3 DEF Push, FrameOK
  <2>2. /\ ll' = PushFront(ll, e)
        /\ cache' = [cache EXCEPT ![ent[e].key] = e]
        /\ mem' = Plus(mem, ent[e].size)
        /\ loc' = [loc EXCEPT ![p].arg = Nil]
        /\ Goto(p, "trim") /\ UNCHANGED <<mu, ent, max>>
    BY <1>3 DEF Push
  <2> HIDE DEF e
  <2>3. ent[e].key \in Key /\ ent[e].size \in 0..(Word - 1)
    BY <2>1, BaseCacheAssumption DEF TypeOK, Entry
  <2>4. Pointed(ll') /\ mem' \in 0..(Word - 1)
    BY <2>1, <2>2, <2>3, PointedPush, WordArithmetic DEF TypeOK
  <2>5. cache' \in [Key -> Elem \cup {Nil}]
    BY <2>1, <2>2, <2>3 DEF TypeOK
  <2>6. loc' \in [Proc -> Frame] /\ \A q \in Proc \ {p} : loc'[q] = loc[q]
    BY <2>2 DEF TypeOK, Frame
  <2> QED BY <2>2, <2>4, <2>5, <2>6 DEF TypeOK, FrameOK, Goto, Place, Pointed
<1>4. CASE Trim(p)
  <2>1. CASE MaxSize > 0 /\ ll.len > MaxSize
    <3>1. ll.len > 0
      BY <2>1, BaseCacheAssumption DEF TypeOK, ListType
    <3>2. CASE Back(ll) = Root
      BY <1>4, <2>1, <3>2, PanicTypes DEF Trim
    <3>3. CASE Back(ll) # Root
      <4>1. Drop(Back(ll)) /\ UNCHANGED <<mu, pc, loc, ent, max>>
        BY <1>4, <2>1, <3>3 DEF Trim
      <4>2. FrameOK'
        BY <4>1 DEF FrameOK
      <4> QED BY <3>1, <3>3, <4>1, <4>2, EvictTypes DEF TypeOK
    <3> QED BY <3>2, <3>3
  <2>2. CASE ~(MaxSize > 0 /\ ll.len > MaxSize)
    BY <1>4, <2>2 DEF Trim, TypeOK, FrameOK, Goto, Place, Pointed
  <2> QED BY <2>1, <2>2
<1> QED
  BY <1>1, <1>2, <1>3, <1>4

(* maybeCleanup. *)
LEMMA TypeCleanup ==
    ASSUME TypeInv, NEW p \in Proc, CleanupCheck(p) \/ CleanupWalk(p)
    PROVE  TypeInv'
PROOF
<1> USE DEF TypeInv
<1>1. CASE CleanupCheck(p)
  <2>1. /\ Goto(p, "relock") \/ Goto(p, "cleanup")
        /\ loc[p].arg \in Elem
    BY <1>1 DEF CleanupCheck, FrameOK
  <2> QED BY <1>1, <2>1 DEF CleanupCheck, TypeOK, FrameOK, Goto, Place, Pointed
<1>2. CASE CleanupWalk(p)
  <2> DEFINE e == loc[p].elem
  <2>1. loc[p] \in Frame /\ e \in Node \cup {Nil} /\ loc[p].arg \in Elem /\ pc[p] = "walk"
    BY <1>2 DEF CleanupWalk, FrameOK, TypeOK, Frame
  <2>2. CASE CleanupDone(p)
    <3> DEFINE f == [loc[p] EXCEPT !.elem = Nil, !.quota = 0, !.removed = 0]
    <3>1. loc' = [loc EXCEPT ![p] = f]
      BY <2>2 DEF CleanupDone
    <3>2. f \in Frame
      <4>1. 0 \in Nat /\ Nil \in Node \cup {Nil}
        OBVIOUS
      <4> QED BY <2>1, <4>1, FrameWalk
    <3>3. f.arg = loc[p].arg
      BY <2>1 DEF Frame
    <3> HIDE DEF f
    <3> QED BY <1>2, <2>1, <2>2, <3>1, <3>2, <3>3
            DEF CleanupWalk, CleanupDone, TypeOK, FrameOK, Goto, Place, Pointed
  <2>3. CASE Panic(p)
    BY <1>2, <2>3, PanicTypes DEF CleanupWalk
  <2>4. CASE /\ e \in Elem /\ Drop(e) /\ UNCHANGED <<mu, pc>>
             /\ loc' = [loc EXCEPT ![p] = [@ EXCEPT !.elem = PrevOf(ll, e),
                                                   !.removed = loc[p].removed + 1]]
    <3> DEFINE f == [loc[p] EXCEPT !.elem = PrevOf(ll, e), !.removed = loc[p].removed + 1]
    <3>1. loc' = [loc EXCEPT ![p] = f]
      BY <2>4
    <3>2. f \in Frame
      <4>1. PrevOf(ll, e) \in Node \cup {Nil}
        BY PointedPrevOf DEF Node
      <4>2. loc[p].removed + 1 \in Nat
        BY <2>1 DEF Frame
      <4> QED BY <2>1, <4>1, <4>2, FrameWalk
    <3>3. f.arg = loc[p].arg
      BY <2>1 DEF Frame
    <3> HIDE DEF f
    <3>4. /\ cache' \in [Key -> Elem \cup {Nil}] /\ Pointed(ll') /\ mem' \in 0..(Word - 1)
      BY <2>4, DropTypes
    <3> QED BY <1>2, <2>1, <2>4, <3>1, <3>2, <3>3, <3>4
            DEF CleanupWalk, TypeOK, FrameOK, Goto, Place, Pointed
  <2>5. CASE /\ loc' = [loc EXCEPT ![p].elem = PrevOf(ll, e)]
             /\ UNCHANGED <<mu, cache, ll, mem, pc>>
    <3>1. PrevOf(ll, e) \in Node \cup {Nil}
      BY PointedPrevOf DEF Node
    <3>2. loc' \in [Proc -> Frame]
      BY <2>5, <3>1 DEF TypeOK, Frame
    <3>3. loc'[p].arg = loc[p].arg /\ \A q \in Proc \ {p} : loc'[q] = loc[q]
      BY <2>5 DEF TypeOK, Frame
    <3> QED BY <1>2, <2>1, <2>5, <3>2, <3>3
            DEF CleanupWalk, TypeOK, FrameOK, Pointed
  <2>6. e \notin {Root, Nil} => e \in Elem
    BY <2>1 DEF Node
  <2> QED BY <1>2, <2>2, <2>3, <2>4, <2>5, <2>6 DEF CleanupWalk
<1> QED
  BY <1>1, <1>2

(* The other steps of a goroutine that runs. *)
LEMMA TypeRunning ==
    ASSUME TypeInv, NEW p \in Proc, Running(p)
    PROVE  TypeInv'
PROOF
<1> USE DEF TypeInv
<1>1. CASE Store(p) \/ Evict(p) \/ Push(p) \/ Trim(p)
  BY <1>1, TypeStoring
<1>2. CASE CleanupCheck(p) \/ CleanupWalk(p)
  BY <1>2, TypeCleanup
<1>3. CASE Unlock(p)
  BY <1>3, ReturnTypes DEF Unlock, TypeOK, Pointed
<1>4. CASE GetItem(p)
  <2>1. /\ Goto(p, "drop") \/ Goto(p, "touch")
        /\ loc[p].elem \in Elem /\ loc[p].key \in Key
    BY <1>4 DEF GetItem, FrameOK
  <2> QED BY <1>4, <2>1 DEF GetItem, TypeOK, FrameOK, Goto, Place, Pointed
<1>5. CASE FnReturn(p)
  <2>1. loc[p].arg \in Elem
    BY <1>5 DEF FnReturn, FrameOK
  <2> DEFINE f == [NoFrame EXCEPT !.todo = {loc[p].arg}]
  <2>2. f \in Frame
    BY <2>1 DEF NoFrame, Frame
  <2>3. loc' = [loc EXCEPT ![p] = f] /\ Goto(p, "next")
    BY <1>5 DEF FnReturn
  <2> HIDE DEF f
  <2> QED BY <1>5, <2>2, <2>3, FrameGone DEF FnReturn, TypeOK, Pointed
<1>6. CASE DelKey(p)
  <2>1. PICK k \in loc[p].keys :
         /\ loc' = [loc EXCEPT ![p].keys = @ \ {k}]
         /\ IF cache[k] = Nil THEN UNCHANGED <<cache, ll>>
            ELSE cache' = [cache EXCEPT ![k] = Nil] /\ ll' = Remove(ll, cache[k])
    BY <1>6 DEF DelKey
  <2>2. Pointed(ll')
    BY <2>1, PointedRemove
  <2>3. cache' \in [Key -> Elem \cup {Nil}]
    BY <2>1 DEF TypeOK
  <2>4. loc' \in [Proc -> Frame] /\ \A q \in Proc \ {p} : loc'[q] = loc[q]
    BY <2>1 DEF TypeOK, Frame
  <2> QED BY <1>6, <2>2, <2>3, <2>4 DEF DelKey, TypeOK, FrameOK, Pointed
<1>7. CASE Shrink(p)
  <2>1. CASE max > 0 /\ mem > max /\ ll.len > 0
    <3>1. CASE Back(ll) = Root
      BY <1>7, <2>1, <3>1, PanicTypes DEF Shrink
    <3>2. CASE Back(ll) # Root
      <4>1. Drop(Back(ll)) /\ UNCHANGED <<mu, pc, loc, ent, max>>
        BY <1>7, <2>1, <3>2 DEF Shrink
      <4>2. FrameOK'
        BY <4>1 DEF FrameOK
      <4> QED BY <2>1, <3>2, <4>1, <4>2, EvictTypes DEF TypeOK
    <3> QED BY <3>1, <3>2
  <2>2. CASE ~(max > 0 /\ mem > max /\ ll.len > 0)
    BY <1>7, <2>2, ReturnTypes DEF Shrink, TypeOK, Pointed
  <2> QED BY <2>1, <2>2
<1> QED
  BY <1>1, <1>2, <1>3, <1>4, <1>5, <1>6, <1>7 DEF Running

LEMMA TypeNext == TypeInv /\ [Next]_vars => TypeInv'
PROOF
<1> SUFFICES ASSUME TypeInv, [Next]_vars PROVE TypeInv'
  OBVIOUS
<1>1. CASE \E p \in Proc : Call(p) \/ Locking(p) \/ Running(p)
  BY <1>1, TypeCall, TypeLocking, TypeRunning
<1>2. CASE \E e \in Elem : Expire(e)
  <2>1. PICK e \in Elem : Expire(e)
    BY <1>2
  <2>2. ent' \in [Elem -> Entry]
    BY <2>1 DEF Expire, TypeInv, TypeOK, Entry, Life
  <2> QED BY <2>1, <2>2 DEF Expire, TypeInv, TypeOK, FrameOK, Pointed
<1>3. CASE UNCHANGED vars
  BY <1>3 DEF vars, TypeInv, TypeOK, FrameOK, Pointed
<1> QED
  BY <1>1, <1>2, <1>3 DEF Next

(* Every variable keeps its type, and no pointer of a list element becomes
   nil, whatever operations the goroutines call. *)
THEOREM TypeCorrect == Spec => []TypeOK
PROOF
<1>1. TypeInv => TypeOK
  BY DEF TypeInv
<1> QED
  BY TypeInit, TypeNext, <1>1, PTL DEF Spec

-----------------------------------------------------------------------------
(* The places of the code between Lock and Unlock. *)
Guarded == {"next", "walk", "evict", "push", "trim", "fn", "del", "shrink", "destroy"}

Mutex == \A p \in Proc : pc[p] \in Guarded => mu = p

(* The values a goroutine has in hand and has not put on the list yet. *)
Pending(p) == loc[p].todo \cup ({loc[p].arg} \ {Nil})

PendingFresh ==
    /\ \A p \in Proc : Pending(p) \cap ll.on = {} /\ loc[p].arg \notin loc[p].todo
    /\ \A p, q \in Proc : p # q => Pending(p) \cap Pending(q) = {}

WalkOK == \A p \in Proc : pc[p] = "walk" => loc[p].elem # Root

(* No memory limit, now or later: setWithTTL never gives the lock away. *)
Unlimited == "limit" \notin Ops /\ max = 0

Window == {"check", "cleanup", "walk", "relock"}

KeyIsFree ==
    Unlimited => \A p \in Proc :
        /\ pc[p] \notin Window
        /\ pc[p] \in {"evict", "push"} => cache[ent[loc[p].arg].key] = Nil

Safe ==
    /\ TypeInv /\ GoodList(ll) /\ MapInRing /\ PendingFresh /\ Mutex
    /\ WalkOK /\ NoPanic /\ SizeBound /\ ComputedOnce
    /\ KeyIsFree /\ OneEntryPerKey

-----------------------------------------------------------------------------
(* What a step of a goroutine p does, as far as Safe is concerned. *)
Discarded(e) ==
    cache' = [cache EXCEPT ![ent[e].key] = Nil] /\ ll' = Remove(ll, e)

Effect(p) ==
    \/ UNCHANGED <<cache, ll>>
    \/ UNCHANGED cache /\ \E e \in Elem : ll' = MoveToFront(ll, e)
    \/ \E e \in Elem : (e \in ll.on \/ pc[p] = "walk") /\ Discarded(e)
    \/ /\ pc[p] = "push" /\ pc'[p] = "trim"
       /\ ll' = PushFront(ll, loc[p].arg)
       /\ cache' = [cache EXCEPT ![ent[loc[p].arg].key] = loc[p].arg]
       /\ loc'[p].arg = Nil /\ loc'[p].todo = loc[p].todo

(* The lock, and the other goroutines. *)
StepLock(p) ==
    /\ \A q \in Proc \ {p} : pc'[q] = pc[q] /\ loc'[q] = loc[q]
    /\ mu' = mu \/ mu \in {p, NoOwner}
    /\ pc'[p] \in Guarded => mu' = p
    /\ pc'[p] # "panicked"

(* The values in hand. *)
StepLocal(p) ==
    /\ loc'[p].todo \subseteq loc[p].todo \cup {loc[p].arg} \cup Free
    /\ loc'[p].arg \in loc[p].todo \cup {loc[p].arg, Nil} \cup Free
    /\ loc'[p].arg \notin loc'[p].todo
    /\ Nil \notin loc'[p].todo
    /\ pc'[p] = "walk" => loc'[p].elem # Root

(* The shared state. *)
StepShared(p) ==
    /\ \A e \in Elem \ Free : ent'[e].key = ent[e].key
    /\ Effect(p)
    /\ pc'[p] = "fn" => cache'[loc'[p].key] = Nil
    /\ pc[p] = "trim" => pc'[p] = "trim" \/ MaxSize = 0 \/ ll.len <= MaxSize
    /\ "limit" \notin Ops => max' = max
    /\ Unlimited => /\ pc'[p] \notin Window
                    /\ pc'[p] \in {"evict", "push"} =>
                         cache'[ent'[loc'[p].arg].key] = Nil

Step(p) == StepLock(p) /\ StepLocal(p) /\ StepShared(p)

-----------------------------------------------------------------------------
(* Nothing on the list is free: a neighbour points at it. *)
LEMMA FreeIsOff ==
    ASSUME TypeOK, GoodList(ll)
    PROVE  Free \cap ll.on = {}
PROOF
<1> SUFFICES ASSUME NEW e \in Free, e \in ll.on PROVE FALSE
  OBVIOUS
<1>1. ll.prev[e] \in ll.on \cup {Root} /\ ll.next[ll.prev[e]] = e
  BY DEF GoodList, OneRing, Tied
<1>2. ll.prev[e] \in Node
  BY <1>1 DEF GoodList, ListType, Node
<1> QED BY <1>1, <1>2 DEF Free

(* What a step may do to the list and the map keeps them good. *)
LEMMA EffectKeeps ==
    ASSUME Safe, NEW p \in Proc, Step(p), TypeInv'
    PROVE  /\ GoodList(ll') /\ MapInRing'
           /\ \/ ll'.on \subseteq ll.on /\ ll'.len <= ll.len
              \/ /\ pc[p] = "push" /\ pc'[p] = "trim" /\ ll'.on = ll.on \cup {loc[p].arg}
                 /\ loc'[p].arg = Nil /\ loc'[p].todo = loc[p].todo
PROOF
<1> USE DEF Safe
<1>1. ll \in ListType /\ ll.on \subseteq Elem /\ ll.len \in Int
  BY DEF GoodList, ListType
<1>2. \A e \in ll.on : e \notin Free /\ ent'[e].key = ent[e].key
  BY <1>1, FreeIsOff DEF TypeInv, Step, StepShared
<1>3. \A k \in Key : cache[k] # Nil =>
        cache[k] \in ll.on /\ ent[cache[k]].key = k /\ ent'[cache[k]].key = k
  BY <1>2 DEF MapInRing
<1>4. \A e \in Elem : ent[e].key \in Key
  BY DEF TypeInv, TypeOK, Entry
<1>5. cache \in [Key -> Elem \cup {Nil}]
  BY DEF TypeInv, TypeOK
<1>6. CASE UNCHANGED <<cache, ll>>
  BY <1>1, <1>3, <1>6 DEF MapInRing
<1>7. CASE UNCHANGED cache /\ \E e \in Elem : ll' = MoveToFront(ll, e)
  <2>1. GoodList(ll') /\ ll'.on = ll.on /\ ll'.len = ll.len
    BY <1>7, MoveToFrontGood
  <2> QED BY <1>1, <1>3, <1>7, <2>1 DEF MapInRing
<1>8. CASE \E e \in Elem : (e \in ll.on \/ pc[p] = "walk") /\ Discarded(e)
  <2>1. PICK e \in Elem : Discarded(e)
    BY <1>8
  <2>2. /\ GoodList(ll') /\ ll'.on = ll.on \ {e}
        /\ ll'.len = IF e \in ll.on THEN ll.len - 1 ELSE ll.len
    BY <2>1, RemoveGood DEF Discarded
  <2>3. \A k \in Key : cache'[k] # Nil => cache'[k] = cache[k] /\ k # ent[e].key
    BY <1>4, <1>5, <2>1 DEF Discarded
  <2>4. MapInRing'
    BY <1>3, <2>2, <2>3 DEF MapInRing
  <2> QED BY <1>1, <2>2, <2>4
<1>9. CASE /\ pc[p] = "push" /\ pc'[p] = "trim"
           /\ ll' = PushFront(ll, loc[p].arg)
           /\ cache' = [cache EXCEPT ![ent[loc[p].arg].key] = loc[p].arg]
           /\ loc'[p].arg = Nil /\ loc'[p].todo = loc[p].todo
  <2> DEFINE e == loc[p].arg
  <2>1. e \in Elem
    BY <1>9 DEF TypeInv, FrameOK
  <2>2. e \notin ll.on /\ e \notin Free
    BY <2>1, GoListAssumption DEF PendingFresh, Pending, Free
  <2>3. ent'[e].key = ent[e].key
    BY <2>1, <2>2 DEF Step, StepShared
  <2>4. ll' = PushFront(ll, e) /\ cache' = [cache EXCEPT ![ent[e].key] = e]
    BY <1>9
  <2> HIDE DEF e
  <2>5. GoodList(ll') /\ ll'.on = ll.on \cup {e}
    BY <2>1, <2>2, <2>4, PushFrontGood
  <2>6. MapInRing'
    BY <1>3, <1>4, <1>5, <2>1, <2>3, <2>4, <2>5 DEF MapInRing
  <2> QED BY <1>9, <2>5, <2>6 DEF e
<1> QED
  BY <1>6, <1>7, <1>8, <1>9 DEF Step, StepShared, Effect

(* What may have happened to a key that the map did not hold. *)
LEMMA KeyStaysFree ==
    ASSUME Safe, NEW p \in Proc, Step(p), NEW k \in Key, cache[k] = Nil, pc[p] # "push"
    PROVE  cache'[k] = Nil
PROOF
<1>1. cache \in [Key -> Elem \cup {Nil}] /\ \A e \in Elem : ent[e].key \in Key
  BY DEF Safe, TypeInv, TypeOK, Entry
<1> QED BY <1>1 DEF Step, StepShared, Effect, Discarded

LEMMA FreshStep ==
    ASSUME Safe, NEW p \in Proc, Step(p), TypeInv'
    PROVE  PendingFresh'
PROOF
<1> USE DEF Safe
<1>1. \A q \in Proc \ {p} : Pending(q)' = Pending(q)
  BY DEF Step, StepLock, Pending
<1>2. Pending(p)' \subseteq Pending(p) \cup Free
  BY DEF Step, StepLocal, Pending
<1>3. Free \cap ll.on = {} /\ \A q \in Proc : Pending(q) \cap Free = {}
  BY FreeIsOff DEF TypeInv, Free, Pending
<1>4. \A q \in Proc : loc'[q].arg \notin loc'[q].todo
  BY DEF Step, StepLock, StepLocal, PendingFresh
<1>5. \A q, r \in Proc : q # r => Pending(q)' \cap Pending(r)' = {}
  BY <1>1, <1>2, <1>3 DEF PendingFresh
<1>6. \A q \in Proc : Pending(q)' \cap ll'.on = {}
  <2>1. CASE ll'.on \subseteq ll.on
    BY <1>1, <1>2, <1>3, <2>1 DEF PendingFresh
  <2>2. CASE /\ pc[p] = "push" /\ ll'.on = ll.on \cup {loc[p].arg}
             /\ loc'[p].arg = Nil /\ loc'[p].todo = loc[p].todo
    <3>1. loc[p].arg \in Elem
      BY <2>2 DEF TypeInv, FrameOK
    <3>2. loc[p].arg \in Pending(p) /\ loc[p].arg \notin loc[p].todo
      BY <3>1, GoListAssumption DEF Pending, PendingFresh
    <3>3. Pending(p)' = loc[p].todo
      BY <2>2 DEF Pending
    <3> QED BY <1>1, <2>2, <3>2, <3>3 DEF PendingFresh, Pending
  <2> QED BY <2>1, <2>2, EffectKeeps
<1> QED BY <1>4, <1>5, <1>6 DEF PendingFresh, Pending

LEMMA SafeStep ==
    ASSUME Safe, NEW p \in Proc, Step(p), TypeInv'
    PROVE  Safe'
PROOF
<1> USE DEF Safe
<1>1. GoodList(ll') /\ MapInRing' /\ PendingFresh'
  BY EffectKeeps, FreshStep
<1>2. Mutex'
  <2> SUFFICES ASSUME NEW q \in Proc, pc'[q] \in Guarded PROVE mu' = q
    BY DEF Mutex
  <2>1. CASE q = p
    BY <2>1 DEF Step, StepLock
  <2>2. CASE q # p
    <3>1. pc[q] \in Guarded /\ mu = q
      BY <2>2 DEF Step, StepLock, Mutex
    <3> QED BY <2>2, <3>1, BaseCacheAssumption DEF Step, StepLock
  <2> QED BY <2>1, <2>2
<1>3. WalkOK' /\ NoPanic'
  BY DEF Step, StepLock, StepLocal, WalkOK, NoPanic
<1>4. SizeBound'
  <2> SUFFICES ASSUME MaxSize > 0, \A q \in Proc : pc'[q] # "trim" PROVE ll'.len <= MaxSize
    BY DEF SizeBound
  <2>1. ll.len \in Int /\ ll'.len \in Int /\ MaxSize \in Nat
    BY <1>1, BaseCacheAssumption DEF GoodList, ListType
  <2>2. ll'.len <= ll.len
    BY EffectKeeps
  <2>3. CASE pc[p] = "trim"
    BY <2>1, <2>2, <2>3 DEF Step, StepShared
  <2>4. CASE pc[p] # "trim"
    <3>1. \A q \in Proc : pc[q] # "trim"
      BY <2>4 DEF Step, StepLock
    <3> QED BY <2>1, <2>2, <3>1 DEF SizeBound
  <2> QED BY <2>3, <2>4
(* Whoever else is between Lock and Unlock, p does not push. *)
<1>5. ASSUME NEW q \in Proc, q # p, pc[q] \in Guarded
      PROVE  pc[p] # "push"
  BY <1>5 DEF Mutex, Guarded
<1>6. ComputedOnce'
  <2> SUFFICES ASSUME NEW q \in Proc, pc'[q] = "fn" PROVE cache'[loc'[q].key] = Nil
    BY DEF ComputedOnce
  <2>1. CASE q = p
    BY <2>1 DEF Step, StepShared
  <2>2. CASE q # p
    <3>1. pc[q] = "fn" /\ loc'[q] = loc[q]
      BY <2>2 DEF Step, StepLock
    <3>2. pc[p] # "push"
      BY <1>5, <2>2, <3>1 DEF Guarded
    <3>3. cache[loc[q].key] = Nil /\ loc[q].key \in Key
      BY <3>1 DEF ComputedOnce, TypeInv, FrameOK
    <3> QED BY <3>1, <3>2, <3>3, KeyStaysFree
  <2> QED BY <2>1, <2>2
<1>7. Unlimited' => Unlimited
  BY DEF Unlimited, Step, StepShared
<1>8. KeyIsFree'
  <2> SUFFICES ASSUME Unlimited, NEW q \in Proc
               PROVE  /\ pc'[q] \notin Window
                      /\ pc'[q] \in {"evict", "push"} =>
                           cache'[ent'[loc'[q].arg].key] = Nil
    BY <1>7 DEF KeyIsFree
  <2>1. CASE q = p
    BY <2>1 DEF Step, StepShared
  <2>2. CASE q # p
    <3>1. pc'[q] = pc[q] /\ loc'[q] = loc[q] /\ pc[q] \notin Window
      BY <2>2 DEF Step, StepLock, KeyIsFree
    <3>2. ASSUME pc[q] \in {"evict", "push"} PROVE cache'[ent'[loc[q].arg].key] = Nil
      <4> DEFINE a == loc[q].arg
      <4>1. a \in Elem /\ a \notin Free /\ cache[ent[a].key] = Nil
        BY <3>2 DEF TypeInv, FrameOK, KeyIsFree, Free
      <4>2. ent[a].key \in Key
        BY <4>1 DEF TypeInv, TypeOK, Entry
      <4>3. ent'[a].key = ent[a].key
        BY <4>1 DEF Step, StepShared
      <4>4. pc[p] # "push"
        BY <1>5, <2>2, <3>2 DEF Guarded
      <4> HIDE DEF a
      <4> QED BY <4>1, <4>2, <4>3, <4>4, KeyStaysFree DEF a
    <3> QED BY <3>1, <3>2
  <2> QED BY <2>1, <2>2
<1>9. OneEntryPerKey'
  <2> SUFFICES ASSUME Unlimited, NEW e \in ll'.on PROVE cache'[ent'[e].key] = e
    BY <1>7 DEF OneEntryPerKey, Unlimited
  <2>1. \A d \in ll.on : d \in Elem /\ ent'[d].key = ent[d].key /\ cache[ent[d].key] = d
    BY FreeIsOff DEF TypeInv, TypeOK, GoodList, ListType, Step, StepShared,
                     OneEntryPerKey, Unlimited
  <2>2. cache \in [Key -> Elem \cup {Nil}] /\ \A d \in Elem : ent[d].key \in Key
    BY DEF TypeInv, TypeOK, Entry
  <2>3. CASE UNCHANGED <<cache, ll>>
    BY <2>1, <2>3
  <2>4. CASE UNCHANGED cache /\ \E d \in Elem : ll' = MoveToFront(ll, d)
    BY <2>1, <2>4, MoveToFrontGood
  <2>5. CASE \E d \in Elem : (d \in ll.on \/ pc[p] = "walk") /\ Discarded(d)
    <3>1. PICK d \in Elem : d \in ll.on /\ Discarded(d)
      BY <2>5 DEF KeyIsFree, Window
    <3>2. e \in ll.on /\ e # d
      BY <3>1, RemoveGood DEF Discarded
    <3> QED BY <2>1, <2>2, <3>1, <3>2 DEF Discarded
  <2>6. CASE /\ pc[p] = "push" /\ pc'[p] = "trim"
             /\ ll' = PushFront(ll, loc[p].arg)
             /\ cache' = [cache EXCEPT ![ent[loc[p].arg].key] = loc[p].arg]
             /\ loc'[p].arg = Nil /\ loc'[p].todo = loc[p].todo
    <3> DEFINE a == loc[p].arg
    <3>1. a \in Elem
      BY <2>6 DEF TypeInv, FrameOK
    <3>2. a \notin ll.on /\ a \notin Free
      BY <3>1, GoListAssumption DEF PendingFresh, Pending, Free
    <3>3. ent'[a].key = ent[a].key /\ cache[ent[a].key] = Nil
      BY <2>6, <3>1, <3>2 DEF Step, StepShared, KeyIsFree
    <3>4. ll' = PushFront(ll, a) /\ cache' = [cache EXCEPT ![ent[a].key] = a]
      BY <2>6
    <3> HIDE DEF a
    <3>5. e \in ll.on \cup {a}
      BY <3>1, <3>2, <3>4, PushFrontGood
    <3>6. CASE e = a
      BY <2>2, <3>1, <3>3, <3>4, <3>6
    <3>7. CASE e \in ll.on
      BY <2>1, <2>2, <3>1, <3>3, <3>4, <3>7, GoListAssumption
    <3> QED BY <3>5, <3>6, <3>7
  <2> QED
    BY <2>3, <2>4, <2>5, <2>6 DEF Step, StepShared, Effect
<1> QED
  BY <1>1, <1>2, <1>3, <1>4, <1>6, <1>8, <1>9

-----------------------------------------------------------------------------
(* Every action but Clear is such a step. *)
LEMMA CallStep ==
    ASSUME Safe, "clear" \notin Ops, NEW p \in Proc, Call(p)
    PROVE  Step(p)
PROOF
<1> USE DEF Safe, CanCall, Goto
<1>1. pc \in [Proc -> Place] /\ loc \in [Proc -> Frame] /\ loc[p].arg \notin loc[p].todo
  BY DEF TypeInv, TypeOK, PendingFresh
<1>2. Nil \notin loc[p].todo /\ \A e \in Free : e \in Elem /\ e # Nil /\ e # loc[p].arg
  BY <1>1, GoListAssumption DEF Frame, Free
<1>3. CASE Set(p)
  <2>1. PICK k \in Key, s \in Size, ttl \in BOOLEAN, e \in Free :
          /\ ent' = [ent EXCEPT ![e] = [key |-> k, size |-> s, life |-> LifeOf(ttl)]]
          /\ loc' = [loc EXCEPT ![p].todo = {e}]
    BY <1>3 DEF Set
  <2>2. StepLock(p)
    BY <1>1, <1>3, <2>1 DEF Set, StepLock
  <2>3. StepLocal(p)
    BY <1>1, <1>2, <1>3, <2>1 DEF Set, StepLocal, Frame
  <2>4. \A d \in Elem \ Free : ent'[d].key = ent[d].key
    BY <2>1 DEF TypeInv, TypeOK
  <2>5. StepShared(p)
    BY <1>1, <1>3, <2>4 DEF Set, StepShared, Effect, Window
  <2> QED BY <2>2, <2>3, <2>5 DEF Step
<1>4. CASE SetMap(p)
  <2>1. PICK es \in SUBSET Free : \E key \in [es -> Key] : \E size \in [es -> Size] :
          /\ \E d, e \in es : d # e
          /\ \A d, e \in es : key[d] = key[e] => d = e
          /\ ent' = [e \in Elem |->
                       IF e \in es THEN [key |-> key[e], size |-> size[e],
                                         life |-> LifeOf(DefaultTTL)]
                                   ELSE ent[e]]
          /\ loc' = [loc EXCEPT ![p].todo = es]
    BY <1>4 DEF SetMap
  <2>2. loc' = [loc EXCEPT ![p].todo = es]
    BY <2>1
  <2>3. StepLock(p)
    BY <1>1, <1>4, <2>2 DEF SetMap, StepLock
  <2>4. StepLocal(p)
    BY <1>1, <1>2, <1>4, <2>2 DEF SetMap, StepLocal, Frame
  <2>5. \A d \in Elem \ Free : ent'[d].key = ent[d].key
    BY <2>1
  <2>6. StepShared(p)
    BY <1>1, <1>4, <2>5 DEF SetMap, StepShared, Effect, Window
  <2> QED BY <2>3, <2>4, <2>6 DEF Step
(* A read-locked lookup. *)
<1>5. ASSUME NEW k \in Key, NEW a \in Free \cup {Nil}, Lookup(p, k, a),
             UNCHANGED <<mu, cache, ll, max>>, pc[p] = "idle",
             \A d \in Elem \ Free : ent'[d].key = ent[d].key
      PROVE  Step(p)
  <2>1. CASE cache[k] # Nil
    <3> DEFINE f == [loc[p] EXCEPT !.key = k, !.elem = cache[k], !.arg = a]
    <3>1. loc' = [loc EXCEPT ![p] = f] /\ pc' = [pc EXCEPT ![p] = "item"]
      BY <1>5, <2>1 DEF Lookup
    <3>2. f.arg = a /\ f.todo = loc[p].todo
      BY <1>1 DEF Frame
    <3> HIDE DEF f
    <3>3. a \notin loc[p].todo
      BY <1>2 DEF Free
    <3> QED BY <1>1, <1>2, <1>5, <3>1, <3>2, <3>3
            DEF Step, StepLock, StepLocal, StepShared, Effect, Guarded, Window
  <2>2. CASE cache[k] = Nil /\ a # Nil
    <3> DEFINE f == [loc[p] EXCEPT !.key = k, !.arg = a]
    <3>1. loc' = [loc EXCEPT ![p] = f] /\ pc' = [pc EXCEPT ![p] = "locked"]
      BY <1>5, <2>2 DEF Lookup
    <3>2. f.arg = a /\ f.todo = loc[p].todo
      BY <1>1 DEF Frame
    <3> HIDE DEF f
    <3>3. a \notin loc[p].todo
      BY <1>2 DEF Free
    <3> QED BY <1>1, <1>2, <1>5, <3>1, <3>2, <3>3
            DEF Step, StepLock, StepLocal, StepShared, Effect, Guarded, Window
  <2>3. CASE cache[k] = Nil /\ a = Nil
    BY <1>1, <1>2, <1>5, <2>3
    DEF Lookup, Step, StepLock, StepLocal, StepShared, Effect, Guarded, Window
  <2> QED BY <2>1, <2>2, <2>3
<1>6. CASE Get(p)
  <2>1. PICK k \in Key : Lookup(p, k, Nil)
    BY <1>6 DEF Get
  <2> QED BY <1>5, <1>6, <2>1 DEF Get
<1>7. CASE GetOrSetFunc(p)
  <2>1. PICK k \in Key, s \in Size, e \in Free :
          /\ ent' = [ent EXCEPT ![e] = [key |-> k, size |-> s,
                                        life |-> LifeOf(DefaultTTL)]]
          /\ Lookup(p, k, e)
    BY <1>7 DEF GetOrSetFunc
  <2>2. \A d \in Elem \ Free : ent'[d].key = ent[d].key
    BY <2>1 DEF TypeInv, TypeOK
  <2> QED BY <1>5, <1>7, <2>1, <2>2 DEF GetOrSetFunc
<1>8. CASE Del(p)
  <2>1. PICK ks \in SUBSET Key : loc' = [loc EXCEPT ![p].keys = ks]
    BY <1>8 DEF Del
  <2>2. loc'[p].arg = loc[p].arg /\ loc'[p].todo = loc[p].todo
    BY <1>1, <2>1 DEF Frame
  <2> QED BY <1>1, <1>2, <1>8, <2>1, <2>2
          DEF Del, Step, StepLock, StepLocal, StepShared, Effect, Window
<1>9. CASE Clear(p)
  BY <1>9 DEF Clear
<1>10. CASE SetMemoryLimit(p)
  BY <1>1, <1>2, <1>10
  DEF SetMemoryLimit, Step, StepLock, StepLocal, StepShared, Effect, Unlimited, Window
<1>11. CASE Destroy(p)
  BY <1>1, <1>2, <1>11
  DEF Destroy, Step, StepLock, StepLocal, StepShared, Effect, Window
<1> QED
  BY <1>3, <1>4, <1>6, <1>7, <1>8, <1>9, <1>10, <1>11 DEF Call

LEMMA LockingStep ==
    ASSUME Safe, NEW p \in Proc, Locking(p)
    PROVE  Step(p)
PROOF
<1> USE DEF Safe, Goto
<1>1. pc \in [Proc -> Place] /\ loc \in [Proc -> Frame] /\ loc[p].arg \notin loc[p].todo
  BY DEF TypeInv, TypeOK, PendingFresh
<1>2. Nil \notin loc[p].todo
  BY <1>1, GoListAssumption DEF Frame
<1>3. NoFrame.arg = Nil /\ NoFrame.todo = {}
  BY DEF NoFrame
<1>4. CASE CleanupLock(p)
  <2> DEFINE f == [loc[p] EXCEPT !.elem = Back(ll),
                                 !.quota = IF ll.len \div CleanupPart < 1 THEN 1
                                           ELSE ll.len \div CleanupPart,
                                 !.removed = 0]
  <2>1. loc' = [loc EXCEPT ![p] = f]
    BY <1>4 DEF CleanupLock
  <2>2. f.arg = loc[p].arg /\ f.todo = loc[p].todo /\ f.elem = Back(ll)
    BY <1>1 DEF Frame
  <2> HIDE DEF f
  <2>3. f.elem # Root
    BY <2>2, BackGood, GoListAssumption DEF GoodList, ListType
  <2>4. ~Unlimited
    BY <1>4 DEF CleanupLock, KeyIsFree, Window
  <2> QED BY <1>1, <1>2, <1>4, <2>1, <2>2, <2>3, <2>4
          DEF CleanupLock, Step, StepLock, StepLocal, StepShared, Effect
<1>5. CASE Relock(p)
  <2>1. ~Unlimited
    BY <1>5 DEF Relock, KeyIsFree, Window
  <2> QED BY <1>1, <1>2, <1>5, <2>1
          DEF Relock, Step, StepLock, StepLocal, StepShared, Effect
<1>6. CASE GetDrop(p)
  <2>1. loc[p].elem \in Elem /\ loc[p].key \in Key
    BY <1>6 DEF GetDrop, TypeInv, FrameOK
  <2>2. Effect(p)
    <3>1. CASE cache[loc[p].key] = loc[p].elem
      <4>1. loc[p].elem \in ll.on
        BY <2>1, <3>1, GoListAssumption DEF MapInRing
      <4> QED BY <1>6, <2>1, <3>1, <4>1 DEF GetDrop, Drop, Effect, Discarded
    <3>2. CASE cache[loc[p].key] # loc[p].elem
      BY <1>6, <3>2 DEF GetDrop, Effect
    <3> QED BY <3>1, <3>2
  <2>3. CASE loc[p].arg = Nil
    <3>1. Return(p)
      BY <1>6, <2>3 DEF GetDrop, Miss
    <3> QED BY <1>1, <1>2, <1>3, <1>6, <2>2, <3>1
            DEF GetDrop, Return, Step, StepLock, StepLocal, StepShared, Guarded, Window
  <2>4. CASE loc[p].arg # Nil
    <3>1. loc' = [loc EXCEPT ![p].elem = Nil] /\ Goto(p, "locked")
      BY <1>6, <2>4 DEF GetDrop, Miss
    <3>2. loc'[p].arg = loc[p].arg /\ loc'[p].todo = loc[p].todo
      BY <1>1, <3>1 DEF Frame
    <3> QED BY <1>1, <1>2, <1>6, <2>2, <3>1, <3>2
            DEF GetDrop, Step, StepLock, StepLocal, StepShared, Guarded, Window
  <2> QED BY <2>3, <2>4
<1>7. CASE GetTouch(p)
  <2>1. Effect(p)
    BY <1>7 DEF GetTouch, Effect, TypeInv, FrameOK
  <2> QED BY <1>1, <1>3, <1>7, <2>1, GoListAssumption
          DEF GetTouch, Return, Step, StepLock, StepLocal, StepShared, Guarded, Window
<1>8. CASE GetLocked(p)
  <2> DEFINE e == cache[loc[p].key]
  <2>1. loc[p].key \in Key
    BY <1>8 DEF GetLocked, TypeInv, FrameOK
  <2>2. CASE e = Nil
    BY <1>1, <1>2, <1>8, <2>2
    DEF GetLocked, Step, StepLock, StepLocal, StepShared, Effect, Guarded, Window
  <2>3. CASE e # Nil /\ Expired(e)
    <3>1. Drop(e) /\ mu' = p /\ Goto(p, "fn") /\ UNCHANGED <<loc, ent, max>>
      BY <1>8, <2>3 DEF GetLocked
    <3>2. e \in ll.on /\ e \in Elem /\ ent[e].key = loc[p].key
      BY <2>1, <2>3 DEF MapInRing, TypeInv, TypeOK
    <3> HIDE DEF e
    <3>3. Effect(p)
      BY <3>1, <3>2 DEF Drop, Effect, Discarded
    <3>4. cache'[loc'[p].key] = Nil
      BY <2>1, <3>1, <3>2 DEF Drop, TypeInv, TypeOK
    <3> QED BY <1>1, <1>2, <1>8, <3>1, <3>3, <3>4
            DEF GetLocked, Step, StepLock, StepLocal, StepShared, Guarded, Window
  <2>4. CASE e # Nil /\ ~Expired(e)
    <3>1. /\ ll' = MoveToFront(ll, e) /\ Return(p)
          /\ UNCHANGED <<mu, cache, mem, ent, max>>
      BY <1>8, <2>4 DEF GetLocked
    <3>2. e \in Elem
      BY <2>1, <2>4 DEF TypeInv, TypeOK
    <3> HIDE DEF e
    <3>3. Effect(p)
      BY <3>1, <3>2 DEF Effect
    <3> QED BY <1>1, <1>3, <1>8, <3>1, <3>3, GoListAssumption
            DEF GetLocked, Return, Step, StepLock, StepLocal, StepShared, Guarded, Window
  <2> QED BY <2>2, <2>3, <2>4
<1> QED
  BY <1>4, <1>5, <1>6, <1>7, <1>8 DEF Locking

(* The back of a list that is not empty is an element of it. *)
LEMMA OldestIsOn ==
    ASSUME Safe, ll.len > 0
    PROVE  Back(ll) \in ll.on /\ Back(ll) \in Elem /\ Back(ll) # Root
BY BackGood, GoListAssumption DEF Safe, GoodList, ListType

LEMMA StoringStep ==
    ASSUME Safe, NEW p \in Proc, Store(p) \/ Evict(p) \/ Push(p) \/ Trim(p)
    PROVE  Step(p)
PROOF
<1> USE DEF Safe, Goto
<1>1. pc \in [Proc -> Place] /\ loc \in [Proc -> Frame] /\ loc[p].arg \notin loc[p].todo
  BY DEF TypeInv, TypeOK, PendingFresh
<1>2. Nil \notin loc[p].todo
  BY <1>1, GoListAssumption DEF Frame
<1>3. CASE Store(p)
  <2>1. PICK e \in loc[p].todo :
         LET old == cache[ent[e].key]
             kept == IF old = Nil THEN mem ELSE Minus(mem, ent[old].size)
         IN  IF max > 0 /\ ent[e].size > max
             THEN /\ loc' = [loc EXCEPT ![p].todo = @ \ {e}]
                  /\ UNCHANGED <<mu, cache, ll, mem, pc>>
             ELSE /\ loc' = [loc EXCEPT ![p] = [@ EXCEPT !.todo = loc[p].todo \ {e}, !.arg = e]]
                  /\ IF old = Nil THEN UNCHANGED <<cache, ll, mem>> ELSE Drop(old)
                  /\ IF Over(kept, ent[e].size)
                     THEN mu' = NoOwner /\ Goto(p, "check")
                     ELSE UNCHANGED mu /\ Goto(p, "evict")
    BY <1>3 DEF Store
  <2>2. e \in Elem /\ e # Nil /\ e \notin Free /\ pc[p] = "next" /\ mu = p
    BY <1>1, <1>2, <1>3 DEF Frame, Free, Store, Mutex, Guarded
  <2>3. CASE max > 0 /\ ent[e].size > max
    <3>1. /\ loc' = [loc EXCEPT ![p].todo = @ \ {e}]
          /\ UNCHANGED <<mu, cache, ll, mem, pc, ent, max>>
      BY <1>3, <2>1, <2>3 DEF Store
    <3>2. loc'[p].todo = loc[p].todo \ {e} /\ loc'[p].arg = loc[p].arg
      BY <1>1, <3>1 DEF Frame
    <3> QED BY <1>1, <1>2, <2>2, <3>1, <3>2
            DEF Step, StepLock, StepLocal, StepShared, Effect, Window
  <2>4. CASE ~(max > 0 /\ ent[e].size > max)
    <3> DEFINE f == [loc[p] EXCEPT !.todo = loc[p].todo \ {e}, !.arg = e]
               old == cache[ent[e].key]
               over == Over(IF old = Nil THEN mem ELSE Minus(mem, ent[old].size),
                            ent[e].size)
    <3>1. /\ loc' = [loc EXCEPT ![p] = f]
          /\ IF old = Nil THEN UNCHANGED <<cache, ll, mem>> ELSE Drop(old)
          /\ IF over THEN mu' = NoOwner /\ Goto(p, "check")
                     ELSE UNCHANGED mu /\ Goto(p, "evict")
          /\ UNCHANGED <<ent, max>>
      BY <1>3, <2>1, <2>4 DEF Store
    <3>2. f.arg = e /\ f.todo = loc[p].todo \ {e}
      BY <1>1 DEF Frame
    <3>3. ent[e].key \in Key /\ cache \in [Key -> Elem \cup {Nil}]
      BY <2>2 DEF TypeInv, TypeOK, Entry
    <3>4. old # Nil => old \in Elem /\ old \in ll.on /\ ent[old].key = ent[e].key
      BY <3>3 DEF MapInRing
    <3>5. Unlimited => ~over
      BY BaseCacheAssumption DEF Unlimited, Over
    <3> HIDE DEF f, old, over
    <3>6. Effect(p)
      BY <3>1, <3>4 DEF Effect, Drop, Discarded
    <3>7. cache'[ent[e].key] = Nil
      BY <3>1, <3>3, <3>4 DEF Drop, old
    <3>8. StepLock(p) /\ StepLocal(p)
      BY <1>1, <1>2, <2>2, <3>1, <3>2 DEF StepLock, StepLocal, Guarded
    <3> QED BY <1>1, <2>2, <3>1, <3>2, <3>5, <3>6, <3>7, <3>8 DEF Step, StepShared, Window
  <2> QED BY <2>3, <2>4
<1>4. CASE Evict(p)
  <2>1. mu = p /\ pc[p] = "evict" /\ loc[p].arg \in Elem
    BY <1>4 DEF Evict, Mutex, Guarded, TypeInv, FrameOK
  <2>2. CASE Over(mem, ent[loc[p].arg].size) /\ ll.len > 0
    <3>1. /\ Drop(Back(ll)) /\ Goto(p, "push") /\ UNCHANGED <<mu, loc, ent, max>>
          /\ Back(ll) \in ll.on /\ Back(ll) \in Elem
      BY <1>4, <2>2, OldestIsOn DEF Evict
    <3>2. Effect(p)
      BY <3>1 DEF Effect, Drop, Discarded
    <3>3. ~Unlimited
      BY <2>2, BaseCacheAssumption DEF Unlimited, Over
    <3> QED BY <1>1, <1>2, <2>1, <3>1, <3>2, <3>3
            DEF Step, StepLock, StepLocal, StepShared
  <2>3. CASE ~(Over(mem, ent[loc[p].arg].size) /\ ll.len > 0)
    BY <1>1, <1>2, <1>4, <2>1, <2>3
    DEF Evict, Step, StepLock, StepLocal, StepShared, Effect, Window, KeyIsFree
  <2> QED BY <2>2, <2>3
<1>5. CASE Push(p)
  <2> DEFINE e == loc[p].arg
  <2>1. /\ ll' = PushFront(ll, e)
        /\ cache' = [cache EXCEPT ![ent[e].key] = e]
        /\ loc' = [loc EXCEPT ![p].arg = Nil]
        /\ Goto(p, "trim") /\ UNCHANGED <<mu, ent, max>> /\ pc[p] = "push" /\ mu = p
    BY <1>5 DEF Push, Mutex, Guarded
  <2>2. loc'[p].arg = Nil /\ loc'[p].todo = loc[p].todo
    BY <1>1, <2>1 DEF Frame
  <2>3. Effect(p)
    BY <1>1, <2>1, <2>2 DEF Effect
  <2> QED BY <1>1, <1>2, <2>1, <2>2, <2>3
          DEF Step, StepLock, StepLocal, StepShared, Window
<1>6. CASE Trim(p)
  <2>1. mu = p /\ pc[p] = "trim"
    BY <1>6 DEF Trim, Mutex, Guarded
  <2>2. MaxSize \in Nat /\ ll.len \in Int
    BY BaseCacheAssumption DEF GoodList, ListType
  <2>3. CASE MaxSize > 0 /\ ll.len > MaxSize
    <3>1. /\ Drop(Back(ll)) /\ UNCHANGED <<mu, pc, loc, ent, max>>
          /\ Back(ll) \in ll.on /\ Back(ll) \in Elem
      BY <1>6, <2>2, <2>3, OldestIsOn DEF Trim
    <3>2. Effect(p)
      BY <3>1 DEF Effect, Drop, Discarded
    <3> QED BY <1>1, <1>2, <2>1, <3>1, <3>2
            DEF Step, StepLock, StepLocal, StepShared, Window
  <2>4. CASE ~(MaxSize > 0 /\ ll.len > MaxSize)
    BY <1>1, <1>2, <1>6, <2>1, <2>2, <2>4
    DEF Trim, Step, StepLock, StepLocal, StepShared, Effect, Window
  <2> QED BY <2>3, <2>4
<1> QED
  BY <1>3, <1>4, <1>5, <1>6

LEMMA CleanupStep ==
    ASSUME Safe, NEW p \in Proc, CleanupCheck(p) \/ CleanupWalk(p)
    PROVE  Step(p)
PROOF
<1> USE DEF Safe, Goto
<1>1. pc \in [Proc -> Place] /\ loc \in [Proc -> Frame] /\ loc[p].arg \notin loc[p].todo
  BY DEF TypeInv, TypeOK, PendingFresh
<1>2. Nil \notin loc[p].todo
  BY <1>1, GoListAssumption DEF Frame
<1>3. ~Unlimited
  BY DEF CleanupCheck, CleanupWalk, KeyIsFree, Window
<1>4. CASE CleanupCheck(p)
  <2>1. Goto(p, "relock") \/ Goto(p, "cleanup")
    BY <1>4 DEF CleanupCheck
  <2> QED BY <1>1, <1>2, <1>3, <1>4, <2>1
          DEF CleanupCheck, Step, StepLock, StepLocal, StepShared, Effect, Guarded
<1>5. CASE CleanupWalk(p)
  <2> DEFINE e == loc[p].elem
  <2>1. e \in Elem \cup {Nil} /\ pc[p] = "walk" /\ mu = p
    BY <1>1, <1>5 DEF CleanupWalk, WalkOK, Frame, Node, Mutex, Guarded
  <2>2. CASE CleanupDone(p)
    <3> DEFINE f == [loc[p] EXCEPT !.elem = Nil, !.quota = 0, !.removed = 0]
    <3>1. loc' = [loc EXCEPT ![p] = f]
      BY <2>2 DEF CleanupDone
    <3>2. f.arg = loc[p].arg /\ f.todo = loc[p].todo
      BY <1>1 DEF Frame
    <3> HIDE DEF f
    <3> QED BY <1>1, <1>2, <1>3, <1>5, <2>1, <2>2, <3>1, <3>2
            DEF CleanupWalk, CleanupDone, Step, StepLock, StepLocal, StepShared,
                Effect, Guarded
  <2>3. CASE /\ e \in Elem /\ Drop(e) /\ UNCHANGED <<mu, pc>>
             /\ loc' = [loc EXCEPT ![p] = [@ EXCEPT !.elem = PrevOf(ll, e),
                                                   !.removed = loc[p].removed + 1]]
    <3> DEFINE f == [loc[p] EXCEPT !.elem = PrevOf(ll, e), !.removed = loc[p].removed + 1]
    <3>1. loc' = [loc EXCEPT ![p] = f]
      BY <2>3
    <3>2. f.arg = loc[p].arg /\ f.todo = loc[p].todo /\ f.elem = PrevOf(ll, e)
      BY <1>1 DEF Frame
    <3> HIDE DEF f
    <3>3. f.elem # Root
      BY <3>2, PointedPrevOf, GoListAssumption DEF TypeInv
    <3>4. Effect(p)
      BY <2>1, <2>3 DEF Effect, Drop, Discarded
    <3> QED BY <1>1, <1>2, <1>3, <1>5, <2>1, <2>3, <3>1, <3>2, <3>3, <3>4
            DEF CleanupWalk, Step, StepLock, StepLocal, StepShared
  <2>4. CASE /\ loc' = [loc EXCEPT ![p].elem = PrevOf(ll, e)]
             /\ UNCHANGED <<mu, cache, ll, mem, pc>>
    <3>1. /\ loc'[p].arg = loc[p].arg /\ loc'[p].todo = loc[p].todo
          /\ loc'[p].elem = PrevOf(ll, e)
      BY <1>1, <2>4 DEF Frame
    <3>2. loc'[p].elem # Root
      BY <3>1, PointedPrevOf, GoListAssumption DEF TypeInv
    <3> QED BY <1>1, <1>2, <1>3, <1>5, <2>1, <2>4, <3>1, <3>2
            DEF CleanupWalk, Step, StepLock, StepLocal, StepShared, Effect
  <2>5. e # Root
    BY <2>1, GoListAssumption
  <2> QED BY <1>5, <2>1, <2>2, <2>3, <2>4, <2>5 DEF CleanupWalk
<1> QED
  BY <1>4, <1>5

LEMMA RunningStep ==
    ASSUME Safe, NEW p \in Proc, Running(p)
    PROVE  Step(p)
PROOF
<1> USE DEF Safe, Goto
<1>1. pc \in [Proc -> Place] /\ loc \in [Proc -> Frame] /\ loc[p].arg \notin loc[p].todo
  BY DEF TypeInv, TypeOK, PendingFresh
<1>2. Nil \notin loc[p].todo
  BY <1>1, GoListAssumption DEF Frame
<1>3. NoFrame.arg = Nil /\ NoFrame.todo = {}
  BY DEF NoFrame
<1>4. CASE Store(p) \/ Evict(p) \/ Push(p) \/ Trim(p)
  BY <1>4, StoringStep
<1>5. CASE CleanupCheck(p) \/ CleanupWalk(p)
  BY <1>5, CleanupStep
<1>6. CASE Unlock(p)
  <2>1. mu = p
    BY <1>6 DEF Unlock, Mutex, Guarded
  <2> QED BY <1>1, <1>3, <1>6, <2>1
          DEF Unlock, Return, Step, StepLock, StepLocal, StepShared, Effect, Guarded, Window
<1>7. CASE GetItem(p)
  <2>1. Goto(p, "drop") \/ Goto(p, "touch")
    BY <1>7 DEF GetItem
  <2> QED BY <1>1, <1>2, <1>7, <2>1
          DEF GetItem, Step, StepLock, StepLocal, StepShared, Effect, Guarded, Window
<1>8. CASE FnReturn(p)
  <2> DEFINE f == [NoFrame EXCEPT !.todo = {loc[p].arg}]
  <2>1. loc' = [loc EXCEPT ![p] = f] /\ Goto(p, "next") /\ mu = p
    BY <1>8 DEF FnReturn, Mutex, Guarded
  <2>2. f.arg = Nil /\ f.todo = {loc[p].arg}
    BY DEF NoFrame
  <2>3. loc[p].arg # Nil
    BY <1>8, GoListAssumption DEF FnReturn, TypeInv, FrameOK
  <2> HIDE DEF f
  <2>4. loc'[p] = f /\ pc'[p] = "next" /\ pc[p] = "fn"
    BY <1>1, <1>8, <2>1 DEF FnReturn
  <2>5. StepLocal(p)
    BY <2>2, <2>3, <2>4 DEF StepLocal
  <2>6. StepLock(p) /\ StepShared(p)
    BY <1>1, <1>8, <2>1, <2>4
    DEF FnReturn, StepLock, StepShared, Effect, Window
  <2> QED BY <2>5, <2>6 DEF Step
<1>9. CASE DelKey(p)
  <2>1. PICK k \in loc[p].keys :
         /\ loc' = [loc EXCEPT ![p].keys = @ \ {k}]
         /\ IF cache[k] = Nil THEN UNCHANGED <<cache, ll>>
            ELSE cache' = [cache EXCEPT ![k] = Nil] /\ ll' = Remove(ll, cache[k])
    BY <1>9 DEF DelKey
  <2>2. loc'[p].arg = loc[p].arg /\ loc'[p].todo = loc[p].todo
    BY <1>1, <2>1 DEF Frame
  <2>3. k \in Key /\ mu = p /\ pc[p] = "del"
    BY <1>1, <1>9 DEF Frame, DelKey, Mutex, Guarded
  <2>4. Effect(p)
    <3>1. CASE cache[k] = Nil
      BY <2>1, <3>1 DEF Effect
    <3>2. CASE cache[k] # Nil
      <4>1. cache[k] \in Elem /\ cache[k] \in ll.on /\ ent[cache[k]].key = k
        BY <2>3, <3>2 DEF MapInRing, TypeInv, TypeOK
      <4>2. cache' = [cache EXCEPT ![k] = Nil] /\ ll' = Remove(ll, cache[k])
        BY <2>1, <3>2
      <4> QED BY <4>1, <4>2 DEF Effect, Discarded
    <3> QED BY <3>1, <3>2
  <2> QED BY <1>1, <1>2, <1>9, <2>1, <2>2, <2>3, <2>4
          DEF DelKey, Step, StepLock, StepLocal, StepShared, Window
<1>10. CASE Shrink(p)
  <2>1. mu = p /\ pc[p] = "shrink"
    BY <1>10 DEF Shrink, Mutex, Guarded
  <2>2. CASE max > 0 /\ mem > max /\ ll.len > 0
    <3>1. /\ Drop(Back(ll)) /\ UNCHANGED <<mu, pc, loc, ent, max>>
          /\ Back(ll) \in ll.on /\ Back(ll) \in Elem
      BY <1>10, <2>2, OldestIsOn DEF Shrink
    <3>2. Effect(p)
      BY <3>1 DEF Effect, Drop, Discarded
    <3> QED BY <1>1, <1>2, <2>1, <3>1, <3>2
            DEF Step, StepLock, StepLocal, StepShared, Window
  <2>3. CASE ~(max > 0 /\ mem > max /\ ll.len > 0)
    BY <1>1, <1>3, <1>10, <2>1, <2>3
    DEF Shrink, Return, Step, StepLock, StepLocal, StepShared, Effect, Guarded, Window
  <2> QED BY <2>2, <2>3
<1> QED
  BY <1>4, <1>5, <1>6, <1>7, <1>8, <1>9, <1>10 DEF Running

-----------------------------------------------------------------------------
LEMMA SafeInit == Init => Safe
PROOF
<1> SUFFICES ASSUME Init PROVE Safe
  OBVIOUS
<1>1. TypeInv
  BY TypeInit
<1>2. GoodList(ll)
  BY EmptyListGood DEF Init
<1>3. ll.on = {} /\ ll.len = 0
  BY DEF Init, EmptyList
<1>4. NoFrame.arg = Nil /\ NoFrame.todo = {}
  BY DEF NoFrame
<1>5. PendingFresh
  BY <1>3, <1>4 DEF Init, PendingFresh, Pending
<1>6. MapInRing /\ Mutex /\ WalkOK /\ NoPanic /\ ComputedOnce
  BY DEF Init, MapInRing, Mutex, Guarded, WalkOK, NoPanic, ComputedOnce
<1>7. SizeBound /\ KeyIsFree /\ OneEntryPerKey
  BY <1>3, BaseCacheAssumption DEF Init, SizeBound, KeyIsFree, Window, OneEntryPerKey
<1> QED
  BY <1>1, <1>2, <1>5, <1>6, <1>7 DEF Safe

LEMMA SafeNext ==
    ASSUME "clear" \notin Ops
    PROVE  Safe /\ [Next]_vars => Safe'
PROOF
<1> SUFFICES ASSUME Safe, [Next]_vars PROVE Safe'
  OBVIOUS
<1>1. TypeInv'
  BY TypeNext DEF Safe
<1>2. CASE \E p \in Proc : Call(p) \/ Locking(p) \/ Running(p)
  BY <1>1, <1>2, CallStep, LockingStep, RunningStep, SafeStep
<1>3. CASE \E e \in Elem : Expire(e)
  <2>1. PICK e \in Elem : Expire(e)
    BY <1>3
  <2>2. \A d \in Elem : ent'[d].key = ent[d].key
    BY <2>1 DEF Expire, Safe, TypeInv, TypeOK, Entry
  <2>3. UNCHANGED <<mu, cache, ll, max, pc, loc>>
    BY <2>1 DEF Expire
  <2>4. \A p \in Proc : pc[p] \in {"evict", "push"} => loc[p].arg \in Elem
    BY DEF Safe, TypeInv, FrameOK
  <2>5. \A k \in Key : cache[k] # Nil => cache[k] \in Elem
    BY DEF Safe, TypeInv, TypeOK
  <2>6. ll.on \subseteq Elem
    BY DEF Safe, GoodList, ListType
  <2>7. MapInRing' /\ KeyIsFree' /\ OneEntryPerKey'
    BY <2>2, <2>3, <2>4, <2>5, <2>6
    DEF Safe, MapInRing, KeyIsFree, Unlimited, OneEntryPerKey
  <2> QED BY <1>1, <2>3, <2>7
          DEF Safe, PendingFresh, Pending, Mutex, WalkOK, NoPanic, SizeBound, ComputedOnce
<1>4. CASE UNCHANGED vars
  BY <1>1, <1>4
  DEF vars, Safe, MapInRing, PendingFresh, Pending, Mutex, WalkOK, NoPanic, SizeBound,
      ComputedOnce, KeyIsFree, Unlimited, OneEntryPerKey
<1> QED
  BY <1>2, <1>3, <1>4 DEF Next

(* Without Clear the invariant always holds. *)
THEOREM AlwaysSafe ==
    ASSUME "clear" \notin Ops
    PROVE  Spec => []Safe
BY SafeInit, SafeNext, PTL DEF Spec

(* The ring is never torn, although get moves to the front an element that it
   looked up before it took the lock (lines 228-256). *)
THEOREM RingCorrect ==
    ASSUME "clear" \notin Ops
    PROVE  Spec => []RingLinked
PROOF
<1>1. Safe => RingLinked
  BY DEF Safe, GoodList, OneRing, Tied, RingLinked
<1> QED BY <1>1, AlwaysSafe, PTL

(* A key leads to an element of the list that carries it, also when setWithTTL
   gave the lock away half way (lines 156-160). *)
THEOREM MapCorrect ==
    ASSUME "clear" \notin Ops
    PROVE  Spec => []MapInRing
PROOF
<1>1. Safe => MapInRing
  BY DEF Safe
<1> QED BY <1>1, AlwaysSafe, PTL

(* The eviction loops (lines 163-200, 321-346, 380-389) never dereference the
   sentinel's nil value. *)
THEOREM PanicFree ==
    ASSUME "clear" \notin Ops
    PROVE  Spec => []NoPanic
PROOF
<1>1. Safe => NoPanic
  BY DEF Safe
<1> QED BY <1>1, AlwaysSafe, PTL

(* The list is within maxSize whenever no goroutine is in the loop that trims
   it (lines 191-200). *)
THEOREM SizeCorrect ==
    ASSUME "clear" \notin Ops
    PROVE  Spec => []SizeBound
PROOF
<1>1. Safe => SizeBound
  BY DEF Safe
<1> QED BY <1>1, AlwaysSafe, PTL

(* GetOrSetFunc calls fn only for a key the cache does not hold (lines 401-414). *)
THEOREM ComputeCorrect ==
    ASSUME "clear" \notin Ops
    PROVE  Spec => []ComputedOnce
PROOF
<1>1. Safe => ComputedOnce
  BY DEF Safe
<1> QED BY <1>1, AlwaysSafe, PTL

(* Without a memory limit every element of the list is the one its key leads
   to, for any interleaving of the goroutines. *)
THEOREM EntriesCorrect ==
    ASSUME "clear" \notin Ops
    PROVE  Spec => []OneEntryPerKey
PROOF
<1>1. Safe => OneEntryPerKey
  BY DEF Safe
<1> QED BY <1>1, AlwaysSafe, PTL

-----------------------------------------------------------------------------
(* The memory in use.  What the goroutines have in hand counts as well: it is
   what currentMemory may still grow by. *)
InHand == UNION {Pending(p) : p \in Proc}

(* With this much room above MemBound currentMemory never wraps around. *)
Room(room) ==
    /\ room \in Nat /\ MemBound + room < Word
    /\ \A f \in [Elem -> Size] : SumFunctionOnSet(f, Elem) <= room

Fits(room) == mem + SumFunctionOnSet(Weight, InHand) <= MemBound + room

WalkOn == \A p \in Proc : pc[p] = "walk" => loc[p].elem \in ll.on \cup {Nil}

DelAsked == "del" \notin Ops => \A p \in Proc : pc[p] # "del"

MemInv(room) == Safe /\ MemCovers /\ Fits(room) /\ WalkOn /\ DelAsked

(* What a step of p does to the list, currentMemory and the values in hand. *)
Stays(p) ==
    mem' = mem /\ ll'.on = ll.on /\ ent' = ent /\ Pending(p)' \subseteq Pending(p)

Called ==
    mem' = mem /\ mem <= MemBound /\ ll' = ll /\ \A e \in Elem \ Free : ent'[e] = ent[e]

Dropped(p) ==
    \E e \in ll.on :
        /\ mem' = Minus(mem, ent[e].size) /\ ll'.on = ll.on \ {e}
        /\ ent' = ent /\ Pending(p)' \subseteq Pending(p)

Pushed(p) ==
    \E e \in Pending(p) :
        /\ mem' = Plus(mem, ent[e].size) /\ ll'.on = ll.on \cup {e}
        /\ ent' = ent /\ Pending(p)' \subseteq Pending(p) \ {e}

Deleted(p) ==
    /\ "del" \in Ops /\ mem' = mem /\ ll'.on \subseteq ll.on
    /\ ent' = ent /\ Pending(p)' \subseteq Pending(p)

MemStep(p) ==
    /\ Stays(p) \/ Called \/ Dropped(p) \/ Pushed(p) \/ Deleted(p)
    /\ pc'[p] = "walk" => loc'[p].elem \in ll'.on \cup {Nil}
    /\ pc'[p] = "del" => pc[p] = "del" \/ "del" \in Ops
    /\ mu \notin {p, NoOwner} => ll'.on = ll.on

-----------------------------------------------------------------------------
LEMMA WordExact ==
    ASSUME NEW a \in 0..(Word - 1), NEW b \in 0..(Word - 1)
    PROVE  (a + b < Word => Plus(a, b) = a + b) /\ (b <= a => Minus(a, b) = a - b)
PROOF
<1>1. Word \in Nat \ {0}
  BY BaseCacheAssumption
<1>2. \A x \in 0..(Word - 1) : x % Word = x /\ (x + Word) % Word = x
  BY <1>1
<1>3. a + b < Word => Plus(a, b) = a + b
  BY <1>1, <1>2 DEF Plus
<1>4. ASSUME b <= a PROVE Minus(a, b) = a - b
  <2>1. a - b \in 0..(Word - 1) /\ (a - b) + Word = a + Word - b
    BY <1>1, <1>4
  <2> QED BY <1>2, <2>1 DEF Minus
<1> QED BY <1>3, <1>4

(* Sums of the weights w of elements. *)
LEMMA Weights ==
    ASSUME NEW w \in [Elem -> Size], NEW room, Room(room)
    PROVE  /\ \A S \in SUBSET Elem : SumFunctionOnSet(w, S) \in 0..room
           /\ \A S \in SUBSET Elem : \A T \in SUBSET S :
                SumFunctionOnSet(w, T) <= SumFunctionOnSet(w, S)
           /\ \A S \in SUBSET Elem : \A e \in S :
                SumFunctionOnSet(w, S) = w[e] + SumFunctionOnSet(w, S \ {e})
PROOF
<1>1. \A e \in Elem : w[e] \in Nat
  <2>1. Size \subseteq Nat
    BY BaseCacheAssumption
  <2> QED BY <2>1
<1>2. \A S \in SUBSET Elem : IsFiniteSet(S)
  BY GoListAssumption, FS_Subset
<1>3. \A S \in SUBSET Elem : SumFunctionOnSet(w, S) \in Nat
  BY <1>1, <1>2, SumType
<1>4. \A S \in SUBSET Elem : \A T \in SUBSET S :
        SumFunctionOnSet(w, T) <= SumFunctionOnSet(w, S)
  BY <1>1, <1>2, SumGrows
<1>5. ASSUME NEW S \in SUBSET Elem, NEW e \in S
      PROVE  SumFunctionOnSet(w, S) = w[e] + SumFunctionOnSet(w, S \ {e})
  <2>1. \A x \in S : w[x] \in Nat
    BY <1>1
  <2> QED BY <1>2, <2>1, SumRemove
<1>6. SumFunctionOnSet(w, Elem) <= room /\ room \in Nat
  BY DEF Room
<1> QED BY <1>3, <1>4, <1>5, <1>6

LEMMA WeightType ==
    ASSUME ent \in [Elem -> Entry]
    PROVE  Weight \in [Elem -> Size] /\ \A e \in Elem : Weight[e] = ent[e].size
BY DEF Weight, Entry

LEMMA MemStepKeeps ==
    ASSUME NEW room, Room(room), MemInv(room), NEW p \in Proc, StepLock(p), MemStep(p), Safe'
    PROVE  MemInv(room)'
PROOF
<1> USE DEF MemInv
<1>1. TypeOK /\ TypeOK' /\ ll.on \subseteq Elem /\ ll'.on \subseteq Elem
  BY DEF Safe, TypeInv, TypeOK, ListType
<1>2. /\ mem \in 0..(Word - 1) /\ mem' \in 0..(Word - 1)
      /\ MemBound \in Nat /\ room \in Nat /\ Word \in Nat
  BY <1>1, BaseCacheAssumption DEF TypeOK, Room
<1>3. \A e \in Elem : ent[e].size \in 0..(Word - 1)
  BY <1>1, BaseCacheAssumption DEF TypeOK, Entry
<1> DEFINE W(S) == SumFunctionOnSet(Weight, S)
<1>4. /\ \A S \in SUBSET Elem : W(S) \in Nat /\ W(S) <= room
      /\ \A S \in SUBSET Elem : \A T \in SUBSET S : W(T) <= W(S)
      /\ \A S \in SUBSET Elem : \A e \in S : W(S) = ent[e].size + W(S \ {e})
  <2>1. Weight \in [Elem -> Size] /\ \A e \in Elem : Weight[e] = ent[e].size
    BY <1>1, WeightType DEF TypeOK
  <2> HIDE DEF Weight
  <2> QED BY <1>2, <2>1, Weights
<1>5. Stored = W(ll.on) /\ (ent' = ent => Stored' = W(ll'.on))
  BY DEF Stored, Weight
<1>6. InHand \in SUBSET Elem /\ InHand' \in SUBSET Elem
  BY <1>1 DEF TypeOK, Frame, Pending, InHand
<1>7. ent' = ent => (Fits(room)' <=> mem' + W(InHand') <= MemBound + room)
  BY DEF Fits, Weight
<1>8. mem + W(InHand) <= MemBound + room
  BY DEF Fits
<1> HIDE DEF W
<1>9. Pending(p)' \subseteq Pending(p) => InHand' \subseteq InHand
  BY DEF StepLock, InHand, Pending
<1>10. IF "del" \in Ops THEN mem >= W(ll.on) ELSE mem = W(ll.on)
  BY <1>5 DEF MemCovers
<1>11. MemCovers' /\ Fits(room)'
  <2>1. CASE Stays(p)
    <3>1. W(InHand') <= W(InHand)
      BY <1>4, <1>6, <1>9, <2>1 DEF Stays
    <3> QED BY <1>2, <1>4, <1>5, <1>6, <1>7, <1>8, <1>10, <2>1, <3>1 DEF Stays, MemCovers
  <2>2. CASE Called
    <3>1. Stored' = Stored
      <4>1. \A e \in ll.on : Weight[e] \in Nat /\ Weight'[e] = Weight[e]
        BY <1>1, <1>3, <2>2, FreeIsOff DEF Called, Weight, Safe
      <4>2. IsFiniteSet(ll.on)
        BY <1>1, GoListAssumption, FS_Subset
      <4>3. SumFunctionOnSet(Weight, ll.on) = SumFunctionOnSet(Weight', ll.on)
        BY <4>1, <4>2, SumSame
      <4> QED BY <2>2, <4>3 DEF Called, Stored
    <3>2. SumFunctionOnSet(Weight', InHand') \in 0..room
      <4>1. Weight' \in [Elem -> Size]
        BY <1>1 DEF Weight, TypeOK, Entry
      <4> QED BY <1>6, <4>1, Weights
    <3> QED BY <1>2, <2>2, <3>1, <3>2 DEF Called, MemCovers, Fits
  <2>3. CASE Dropped(p)
    <3>1. PICK e \in ll.on : /\ mem' = Minus(mem, ent[e].size) /\ ll'.on = ll.on \ {e}
                             /\ ent' = ent /\ Pending(p)' \subseteq Pending(p)
      BY <2>3 DEF Dropped
    <3>2. W(ll.on) = ent[e].size + W(ll'.on) /\ W(ll.on) \in Nat /\ W(ll'.on) \in Nat
      BY <1>1, <1>4, <3>1
    <3>3. ent[e].size \in 0..(Word - 1) /\ ent[e].size <= mem
      BY <1>1, <1>2, <1>3, <1>10, <3>2
    <3>4. mem' = mem - ent[e].size
      BY <1>2, <3>1, <3>3, WordExact
    <3>5. W(InHand') <= W(InHand) /\ W(InHand') \in Nat /\ W(InHand) \in Nat
      BY <1>4, <1>6, <1>9, <3>1
    <3>6. MemCovers'
      BY <1>2, <1>5, <1>10, <3>1, <3>2, <3>3, <3>4 DEF MemCovers
    <3> QED BY <1>2, <1>7, <1>8, <3>1, <3>3, <3>4, <3>5, <3>6
  <2>4. CASE Pushed(p)
    <3>1. PICK e \in Pending(p) : /\ mem' = Plus(mem, ent[e].size) /\ ll'.on = ll.on \cup {e}
                                  /\ ent' = ent /\ Pending(p)' \subseteq Pending(p) \ {e}
      BY <2>4 DEF Pushed
    <3>2. e \in InHand /\ e \notin ll.on /\ e \in Elem
      BY <1>6 DEF Safe, PendingFresh, InHand
    <3>3. InHand' \subseteq InHand \ {e}
      BY <3>1 DEF StepLock, InHand, Pending, Safe, PendingFresh
    <3>4. W(InHand) = ent[e].size + W(InHand \ {e}) /\ W(InHand') <= W(InHand \ {e})
      BY <1>4, <1>6, <3>2, <3>3
    <3>5. W(InHand) \in Nat /\ W(InHand') \in Nat /\ W(InHand \ {e}) \in Nat
      BY <1>4, <1>6
    <3>6. ent[e].size \in 0..(Word - 1)
      BY <1>3, <3>2
    <3>7. mem + ent[e].size <= MemBound + room /\ MemBound + room < Word
      BY <1>2, <1>8, <3>4, <3>5, <3>6 DEF Room
    <3>8. mem' = mem + ent[e].size
      BY <1>2, <3>1, <3>6, <3>7, WordExact
    <3>9. W(ll'.on) = ent[e].size + W(ll.on) /\ W(ll.on) \in Nat
      <4>1. ll'.on \ {e} = ll.on /\ e \in ll'.on
        BY <3>1, <3>2
      <4> QED BY <1>1, <1>4, <4>1
    <3>10. MemCovers'
      BY <1>2, <1>5, <1>10, <3>1, <3>6, <3>8, <3>9 DEF MemCovers
    <3> QED BY <1>2, <1>7, <1>8, <3>1, <3>4, <3>5, <3>6, <3>8, <3>10
  <2>5. CASE Deleted(p)
    <3>1. W(InHand') <= W(InHand) /\ W(InHand') \in Nat /\ W(InHand) \in Nat
      BY <1>4, <1>6, <1>9, <2>5 DEF Deleted
    <3>2. W(ll'.on) <= W(ll.on) /\ W(ll'.on) \in Nat /\ W(ll.on) \in Nat
      BY <1>1, <1>4, <2>5 DEF Deleted
    <3> QED BY <1>2, <1>5, <1>7, <1>8, <1>10, <2>5, <3>1, <3>2 DEF Deleted, MemCovers
  <2> QED BY <2>1, <2>2, <2>3, <2>4, <2>5 DEF MemStep
<1>12. WalkOn'
  <2> SUFFICES ASSUME NEW q \in Proc, pc'[q] = "walk"
               PROVE  loc'[q].elem \in ll'.on \cup {Nil}
    BY DEF WalkOn
  <2>1. CASE q = p
    BY <2>1 DEF MemStep
  <2>2. CASE q # p
    <3>1. pc[q] = "walk" /\ loc'[q] = loc[q] /\ mu = q
      BY <2>2 DEF StepLock, Safe, Mutex, Guarded
    <3>2. ll'.on = ll.on
      BY <2>2, <3>1, BaseCacheAssumption DEF MemStep
    <3> QED BY <3>1, <3>2 DEF WalkOn
  <2> QED BY <2>1, <2>2
<1>13. DelAsked'
  BY DEF DelAsked, MemStep, StepLock
<1> QED BY <1>11, <1>12, <1>13

(* The actions.  Those of the list: RemoveGood, PushFrontGood, MoveToFrontGood
   say what becomes of its elements. *)
LEMMA DropStep ==
    ASSUME Safe, NEW p \in Proc, NEW e \in ll.on, Drop(e), ent' = ent,
           Pending(p)' \subseteq Pending(p)
    PROVE  Dropped(p)
PROOF
<1>1. e \in Elem /\ GoodList(ll)
  BY DEF Safe, TypeInv, TypeOK, ListType
<1>2. ll'.on = ll.on \ {e}
  BY <1>1, RemoveGood DEF Drop
<1> QED BY <1>2 DEF Drop, Dropped

LEMMA TouchStep ==
    ASSUME Safe, NEW p \in Proc, NEW e \in Elem, ll' = MoveToFront(ll, e),
           mem' = mem, ent' = ent, Pending(p)' \subseteq Pending(p)
    PROVE  Stays(p)
BY MoveToFrontGood DEF Safe, Stays

(* A call only takes elements nothing points at. *)
LEMMA CallMem ==
    ASSUME Safe, "clear" \notin Ops, NEW p \in Proc, Call(p)
    PROVE  MemStep(p)
PROOF
<1> USE DEF Safe, CanCall, Goto
<1>1. pc \in [Proc -> Place] /\ loc \in [Proc -> Frame] /\ mu = NoOwner
  BY DEF TypeInv, TypeOK, Call, Set, SetMap, Get, GetOrSetFunc, Del, Clear,
         SetMemoryLimit, Destroy
<1>2. ll' = ll
  BY DEF Call, Set, SetMap, Get, GetOrSetFunc, Del, Clear, SetMemoryLimit, Destroy
<1>3. pc'[p] # "walk" /\ (pc'[p] = "del" => "del" \in Ops)
  BY <1>1 DEF Call, Set, SetMap, Get, GetOrSetFunc, Lookup, Del, Clear, SetMemoryLimit, Destroy
<1>4. CASE Set(p) \/ SetMap(p) \/ GetOrSetFunc(p)
  <2>1. mem' = mem /\ mem <= MemBound
    BY <1>4 DEF Set, SetMap, GetOrSetFunc
  <2>2. \A d \in Elem \ Free : ent'[d] = ent[d]
    BY <1>4 DEF Set, SetMap, GetOrSetFunc, TypeInv, TypeOK
  <2> QED BY <1>2, <1>3, <2>1, <2>2, <1>1 DEF Called, MemStep
<1>5. CASE Get(p)
  <2>1. PICK k \in Key : Lookup(p, k, Nil)
    BY <1>5 DEF Get
  <2>2. loc'[p].todo = loc[p].todo /\ (loc'[p].arg = Nil \/ loc'[p].arg = loc[p].arg)
    <3>1. loc[p] \in Frame
      BY <1>1
    <3>2. CASE cache[k] # Nil
      <4>1. loc' = [loc EXCEPT ![p] = [loc[p] EXCEPT !.key = k, !.elem = cache[k], !.arg = Nil]]
        BY <2>1, <3>2 DEF Lookup
      <4>2. loc'[p] = [loc[p] EXCEPT !.key = k, !.elem = cache[k], !.arg = Nil]
        BY <1>1, <4>1
      <4> QED BY <3>1, <4>2 DEF Frame
    <3>3. CASE cache[k] = Nil
      BY <2>1, <3>3 DEF Lookup
    <3> QED BY <3>2, <3>3
  <2>3. Stays(p)
    BY <1>2, <1>5, <2>2 DEF Get, Stays, Pending
  <2> QED BY <1>1, <1>2, <1>3, <2>3 DEF MemStep
<1>6. CASE Del(p) \/ SetMemoryLimit(p) \/ Destroy(p)
  <2>1. mem' = mem /\ ent' = ent
    BY <1>6 DEF Del, SetMemoryLimit, Destroy
  <2>2. loc'[p].todo = loc[p].todo /\ loc'[p].arg = loc[p].arg
    BY <1>1, <1>6 DEF Del, SetMemoryLimit, Destroy, Frame
  <2>3. Stays(p)
    BY <1>2, <2>1, <2>2 DEF Stays, Pending
  <2> QED BY <1>1, <1>2, <1>3, <2>3 DEF MemStep
<1> QED BY <1>4, <1>5, <1>6 DEF Call, Clear

(* A step between Lock and Unlock that neither walks nor deletes afterwards. *)
LEMMA HeldStep ==
    ASSUME NEW p \in Proc,
           Stays(p) \/ Dropped(p) \/ Pushed(p),
           pc'[p] # "walk" /\ (pc'[p] = "del" => pc[p] = "del"),
           mu \in {p, NoOwner} \/ ll' = ll
    PROVE  MemStep(p)
BY DEF MemStep

LEMMA LockingMem ==
    ASSUME Safe, NEW p \in Proc, Locking(p)
    PROVE  MemStep(p)
PROOF
<1> USE DEF Safe, Goto
<1>1. pc \in [Proc -> Place] /\ loc \in [Proc -> Frame] /\ mu = NoOwner
  BY DEF TypeInv, TypeOK, Locking, CleanupLock, Relock, GetDrop, GetTouch, GetLocked
<1>2. NoFrame.arg = Nil /\ NoFrame.todo = {}
  BY DEF NoFrame
<1>3. CASE CleanupLock(p)
  <2> DEFINE f == [loc[p] EXCEPT !.elem = Back(ll),
                                 !.quota = IF ll.len \div CleanupPart < 1 THEN 1
                                           ELSE ll.len \div CleanupPart,
                                 !.removed = 0]
  <2>1. loc' = [loc EXCEPT ![p] = f] /\ UNCHANGED <<ll, ent, mem>> /\ pc'[p] = "walk"
    BY <1>1, <1>3 DEF CleanupLock
  <2>2. f.arg = loc[p].arg /\ f.todo = loc[p].todo /\ f.elem = Back(ll)
    BY <1>1 DEF Frame
  <2> HIDE DEF f
  <2>3. Back(ll) \in ll.on \cup {Nil}
    BY BackGood
  <2>4. Stays(p)
    BY <1>1, <2>1, <2>2 DEF Stays, Pending
  <2> QED BY <1>1, <2>1, <2>2, <2>3, <2>4 DEF MemStep
<1>4. CASE Relock(p)
  <2>1. Stays(p)
    BY <1>4 DEF Relock, Stays, Pending
  <2> QED BY <1>1, <1>4, <2>1, HeldStep DEF Relock
<1>5. CASE GetDrop(p)
  <2>1. loc[p].elem \in Elem /\ loc[p].key \in Key
    BY <1>5 DEF GetDrop, TypeInv, FrameOK
  <2>2. Pending(p)' \subseteq Pending(p) /\ pc'[p] \in {"idle", "locked"}
    BY <1>1, <1>2, <1>5 DEF GetDrop, Miss, Return, Pending, Frame
  <2>3. CASE cache[loc[p].key] = loc[p].elem
    <3>1. loc[p].elem \in ll.on
      BY <2>1, <2>3, GoListAssumption DEF MapInRing
    <3>2. Dropped(p)
      BY <1>5, <2>2, <2>3, <3>1, DropStep DEF GetDrop
    <3> QED BY <1>1, <2>2, <3>2, HeldStep
  <2>4. CASE cache[loc[p].key] # loc[p].elem
    <3>1. Stays(p)
      BY <1>5, <2>2, <2>4 DEF GetDrop, Stays
    <3> QED BY <1>1, <2>2, <3>1, HeldStep
  <2> QED BY <2>3, <2>4
<1>6. CASE GetTouch(p)
  <2>1. Pending(p)' \subseteq Pending(p) /\ pc'[p] = "idle"
    BY <1>1, <1>2, <1>6 DEF GetTouch, Return, Pending
  <2>2. Stays(p)
    BY <1>6, <2>1, TouchStep DEF GetTouch, TypeInv, FrameOK
  <2> QED BY <1>1, <2>1, <2>2, HeldStep
<1>7. CASE GetLocked(p)
  <2> DEFINE e == cache[loc[p].key]
  <2>1. loc[p].key \in Key
    BY <1>7 DEF GetLocked, TypeInv, FrameOK
  <2>2. Pending(p)' \subseteq Pending(p) /\ pc'[p] \in {"idle", "fn"}
    BY <1>1, <1>2, <1>7 DEF GetLocked, Return, Pending
  <2>3. e # Nil => e \in ll.on /\ e \in Elem
    BY <2>1 DEF MapInRing, TypeInv, TypeOK
  <2>4. \/ UNCHANGED <<ll, mem>>
        \/ e # Nil /\ Drop(e)
        \/ e # Nil /\ ll' = MoveToFront(ll, e) /\ UNCHANGED mem
    BY <1>7 DEF GetLocked
  <2>5. ent' = ent
    BY <1>7 DEF GetLocked
  <2> HIDE DEF e
  <2>6. Stays(p) \/ Dropped(p)
    BY <2>2, <2>3, <2>4, <2>5, DropStep, TouchStep DEF Stays
  <2> QED BY <1>1, <2>2, <2>6, HeldStep
<1> QED
  BY <1>3, <1>4, <1>5, <1>6, <1>7 DEF Locking

LEMMA WalkMem ==
    ASSUME Safe, WalkOn, NEW p \in Proc, CleanupWalk(p)
    PROVE  MemStep(p)
PROOF
<1> USE DEF Safe, Goto
<1>1. pc \in [Proc -> Place] /\ loc \in [Proc -> Frame]
  BY DEF TypeInv, TypeOK
<1> DEFINE e == loc[p].elem
<1>2. /\ pc[p] = "walk" /\ mu = p /\ ent' = ent
      /\ e \in ll.on \cup {Nil} /\ (e # Nil => e \in Elem)
  BY <1>1 DEF CleanupWalk, Mutex, Guarded, WalkOn, TypeInv, TypeOK, ListType
<1>3. \/ CleanupDone(p)
      \/ /\ e # Nil /\ Drop(e) /\ pc' = pc
         /\ loc' = [loc EXCEPT ![p] = [@ EXCEPT !.elem = PrevOf(ll, e),
                                               !.removed = loc[p].removed + 1]]
      \/ e # Nil /\ loc' = [loc EXCEPT ![p].elem = PrevOf(ll, e)] /\ UNCHANGED <<ll, mem, pc>>
  BY <1>2, GoListAssumption DEF CleanupWalk
<1>4. CASE CleanupDone(p)
  <2>1. Stays(p) /\ pc'[p] = "relock"
    BY <1>1, <1>2, <1>4 DEF CleanupDone, Stays, Pending, Frame
  <2> QED BY <1>2, <2>1, HeldStep
<1>5. PrevOf(ll, e) \in ll.on \cup {Nil} /\ (e # Nil => PrevOf(ll, e) # e)
  <2>1. PrevOf(ll, e) \in ll.on \cup {Nil}
    BY PrevOfGood
  <2>2. ASSUME e \in ll.on, ll.prev[e] = e PROVE FALSE
    <3>1. PICK r \in [Elem -> Int] : Ranks(ll, ll.on, r)
      BY DEF GoodList, OneRing
    <3>2. ll.next[e] = e /\ e \in Elem
      BY <1>2, <2>2 DEF GoodList, OneRing, Tied, ListType
    <3> QED BY <2>2, <3>1, <3>2 DEF Ranks
  <2> QED BY <1>2, <2>1, <2>2 DEF PrevOf
<1>6. CASE /\ e # Nil /\ Drop(e) /\ pc' = pc
           /\ loc' = [loc EXCEPT ![p] = [@ EXCEPT !.elem = PrevOf(ll, e),
                                                 !.removed = loc[p].removed + 1]]
  <2>1. Pending(p)' \subseteq Pending(p) /\ loc'[p].elem = PrevOf(ll, e)
    BY <1>1, <1>6 DEF Pending, Frame
  <2>2. Dropped(p) /\ ll'.on = ll.on \ {e}
    BY <1>2, <1>6, <2>1, DropStep, RemoveGood DEF Drop
  <2> QED BY <1>2, <1>5, <1>6, <2>1, <2>2 DEF MemStep
<1>7. CASE e # Nil /\ loc' = [loc EXCEPT ![p].elem = PrevOf(ll, e)] /\ UNCHANGED <<ll, mem, pc>>
  <2>1. Pending(p)' \subseteq Pending(p) /\ loc'[p].elem = PrevOf(ll, e)
    BY <1>1, <1>7 DEF Pending, Frame
  <2>2. Stays(p)
    BY <1>2, <1>7, <2>1 DEF Stays
  <2> QED BY <1>2, <1>5, <1>7, <2>1, <2>2 DEF MemStep
<1> QED
  BY <1>3, <1>4, <1>6, <1>7

LEMMA RunningMem ==
    ASSUME Safe, WalkOn, DelAsked, NEW p \in Proc, Running(p)
    PROVE  MemStep(p)
PROOF
<1> USE DEF Safe, Goto
<1>1. pc \in [Proc -> Place] /\ loc \in [Proc -> Frame]
  BY DEF TypeInv, TypeOK
<1>2. NoFrame.arg = Nil /\ NoFrame.todo = {}
  BY DEF NoFrame
<1>3. CASE Store(p)
  <2>1. PICK e \in loc[p].todo :
         LET old == cache[ent[e].key]
             kept == IF old = Nil THEN mem ELSE Minus(mem, ent[old].size)
         IN  IF max > 0 /\ ent[e].size > max
             THEN /\ loc' = [loc EXCEPT ![p].todo = @ \ {e}]
                  /\ UNCHANGED <<mu, cache, ll, mem, pc>>
             ELSE /\ loc' = [loc EXCEPT ![p] = [@ EXCEPT !.todo = loc[p].todo \ {e}, !.arg = e]]
                  /\ IF old = Nil THEN UNCHANGED <<cache, ll, mem>> ELSE Drop(old)
                  /\ IF Over(kept, ent[e].size)
                     THEN mu' = NoOwner /\ Goto(p, "check")
                     ELSE UNCHANGED mu /\ Goto(p, "evict")
    BY <1>3 DEF Store
  <2>2. e \in Elem /\ pc[p] = "next" /\ mu = p /\ ent' = ent
    BY <1>1, <1>3 DEF Frame, Store, Mutex, Guarded
  <2>3. Pending(p)' \subseteq Pending(p) /\ pc'[p] \in {"next", "check", "evict"}
    <3>1. CASE max > 0 /\ ent[e].size > max
      BY <1>1, <2>1, <2>2, <3>1 DEF Pending, Frame
    <3>2. CASE ~(max > 0 /\ ent[e].size > max)
      <4> DEFINE f == [loc[p] EXCEPT !.todo = loc[p].todo \ {e}, !.arg = e]
      <4>1. loc' = [loc EXCEPT ![p] = f]
        BY <2>1, <3>2
      <4>2. f.todo \subseteq loc[p].todo /\ f.arg \in loc[p].todo
        BY <1>1 DEF Frame
      <4> HIDE DEF f
      <4>3. Pending(p)' \subseteq Pending(p)
        BY <1>1, <4>1, <4>2 DEF Pending
      <4>4. pc'[p] \in {"check", "evict"}
        BY <1>1, <2>1, <3>2
      <4> QED BY <4>3, <4>4
    <3> QED BY <3>1, <3>2
  <2> DEFINE old == cache[ent[e].key]
  <2>4. UNCHANGED <<ll, mem>> \/ (old # Nil /\ Drop(old))
    BY <2>1
  <2>5. old # Nil => old \in ll.on
    BY <2>2 DEF MapInRing, TypeInv, TypeOK, Entry
  <2> HIDE DEF old
  <2>6. Stays(p) \/ Dropped(p)
    BY <2>2, <2>3, <2>4, <2>5, DropStep DEF Stays
  <2> QED BY <2>2, <2>3, <2>6, HeldStep
<1>4. CASE Evict(p) \/ Trim(p)
  <2>1. mu = p /\ ent' = ent /\ loc' = loc /\ pc'[p] \in {"push", "trim", "next"}
    BY <1>1, <1>4, OldestIsOn, BaseCacheAssumption
    DEF Evict, Trim, Mutex, Guarded, GoodList, ListType
  <2>2. UNCHANGED <<ll, mem>> \/ (ll.len > 0 /\ Drop(Back(ll)))
    BY <1>4, OldestIsOn, BaseCacheAssumption DEF Evict, Trim, GoodList, ListType
  <2>3. Pending(p)' = Pending(p)
    BY <2>1 DEF Pending
  <2>4. Stays(p) \/ Dropped(p)
    BY <2>1, <2>2, <2>3, OldestIsOn, DropStep DEF Stays
  <2> QED BY <2>1, <2>4, HeldStep
<1>5. CASE Push(p)
  <2> DEFINE e == loc[p].arg
  <2>1. /\ ll' = PushFront(ll, e) /\ mem' = Plus(mem, ent[e].size) /\ ent' = ent
        /\ loc' = [loc EXCEPT ![p].arg = Nil] /\ pc'[p] = "trim" /\ mu = p
        /\ e \in Elem
    BY <1>1, <1>5 DEF Push, Mutex, Guarded, TypeInv, FrameOK
  <2>2. e # Nil /\ e \notin ll.on /\ e \notin loc[p].todo
    BY <2>1, GoListAssumption DEF PendingFresh, Pending
  <2>3. e \in Pending(p) /\ Pending(p)' \subseteq Pending(p) \ {e}
    BY <1>1, <2>1, <2>2 DEF Pending, Frame
  <2> HIDE DEF e
  <2>4. ll'.on = ll.on \cup {e}
    BY <2>1, <2>2, PushFrontGood
  <2>5. Pushed(p)
    BY <2>1, <2>3, <2>4 DEF Pushed
  <2> QED BY <2>1, <2>5, HeldStep
<1>6. CASE CleanupWalk(p)
  BY <1>6, WalkMem
<1>7. CASE CleanupCheck(p) \/ Unlock(p) \/ GetItem(p) \/ FnReturn(p)
  <2>1. UNCHANGED <<ll, mem, ent>> /\ pc'[p] \notin {"walk", "del"}
    BY <1>1, <1>7 DEF CleanupCheck, Unlock, Return, GetItem, FnReturn
  <2>2. Pending(p)' \subseteq Pending(p)
    <3>1. CASE CleanupCheck(p) \/ GetItem(p)
      BY <3>1 DEF CleanupCheck, GetItem, Pending
    <3>2. CASE Unlock(p)
      BY <1>1, <1>2, <3>2 DEF Unlock, Return, Pending
    <3>3. CASE FnReturn(p)
      <4>1. loc[p].arg # Nil /\ loc' = [loc EXCEPT ![p] = [NoFrame EXCEPT !.todo = {loc[p].arg}]]
        BY <3>3, GoListAssumption DEF FnReturn, TypeInv, FrameOK
      <4> QED BY <1>1, <4>1 DEF NoFrame, Pending
    <3> QED BY <1>7, <3>1, <3>2, <3>3
  <2>3. Stays(p)
    BY <2>1, <2>2 DEF Stays
  <2> QED BY <2>1, <2>3, HeldStep
<1>8. CASE DelKey(p)
  <2>1. PICK k \in loc[p].keys :
         /\ loc' = [loc EXCEPT ![p].keys = @ \ {k}]
         /\ IF cache[k] = Nil THEN UNCHANGED <<cache, ll>>
            ELSE cache' = [cache EXCEPT ![k] = Nil] /\ ll' = Remove(ll, cache[k])
    BY <1>8 DEF DelKey
  <2>2. UNCHANGED <<mem, ent, pc>> /\ mu = p /\ pc[p] = "del" /\ "del" \in Ops /\ k \in Key
    BY <1>1, <1>8 DEF DelKey, Mutex, Guarded, DelAsked, Frame
  <2>3. Pending(p)' \subseteq Pending(p)
    BY <1>1, <2>1 DEF Pending, Frame
  <2>4. ll'.on \subseteq ll.on
    <3>1. cache[k] # Nil => cache[k] \in Elem
      BY <2>2 DEF TypeInv, TypeOK
    <3> QED BY <2>1, <3>1, RemoveGood
  <2>5. Deleted(p)
    BY <2>2, <2>3, <2>4 DEF Deleted
  <2> QED BY <2>2, <2>5 DEF MemStep
<1>9. CASE Shrink(p)
  <2>1. mu = p /\ ent' = ent /\ pc'[p] \in {"shrink", "idle"}
    BY <1>1, <1>9, OldestIsOn DEF Shrink, Return, Mutex, Guarded
  <2>2. UNCHANGED <<ll, mem>> \/ (ll.len > 0 /\ Drop(Back(ll)))
    BY <1>9, OldestIsOn DEF Shrink
  <2>3. Pending(p)' \subseteq Pending(p)
    BY <1>1, <1>2, <1>9, OldestIsOn DEF Shrink, Return, Pending
  <2>4. Stays(p) \/ Dropped(p)
    BY <2>1, <2>2, <2>3, OldestIsOn, DropStep DEF Stays
  <2> QED BY <2>1, <2>4, HeldStep
<1> QED
  BY <1>3, <1>4, <1>5, <1>6, <1>7, <1>8, <1>9 DEF Running

LEMMA MemInit ==
    ASSUME NEW room, Room(room)
    PROVE  Init => MemInv(room)
PROOF
<1> SUFFICES ASSUME Init PROVE MemInv(room)
  OBVIOUS
<1>1. Safe
  BY SafeInit
<1>2. ll.on = {} /\ mem = 0 /\ \A p \in Proc : pc[p] = "idle" /\ loc[p] = NoFrame
  BY DEF Init, EmptyList
<1>3. InHand = {}
  BY <1>2 DEF InHand, Pending, NoFrame
<1>4. SumFunctionOnSet(Weight, {}) = 0
  BY FS_EmptySet, SumStep
<1>5. MemBound \in Nat /\ room \in Nat
  BY BaseCacheAssumption DEF Room
<1> QED BY <1>1, <1>2, <1>3, <1>4, <1>5
        DEF MemInv, MemCovers, Stored, Fits, WalkOn, DelAsked

LEMMA MemNext ==
    ASSUME NEW room, Room(room), "clear" \notin Ops
    PROVE  MemInv(room) /\ [Next]_vars => MemInv(room)'
PROOF
<1> SUFFICES ASSUME MemInv(room), [Next]_vars PROVE MemInv(room)'
  OBVIOUS
<1> USE DEF MemInv
<1>1. Safe'
  BY SafeNext
<1>2. ASSUME NEW p \in Proc, Call(p) \/ Locking(p) \/ Running(p)
      PROVE  MemInv(room)'
  <2>1. StepLock(p)
    BY <1>2, CallStep, LockingStep, RunningStep DEF Step
  <2>2. MemStep(p)
    BY <1>2, CallMem, LockingMem, RunningMem
  <2> QED BY <1>1, <2>1, <2>2, MemStepKeeps
<1>3. CASE (\E e \in Elem : Expire(e)) \/ UNCHANGED vars
  <2>1. Weight' = Weight /\ UNCHANGED <<ll, mem, pc, loc>>
    BY <1>3 DEF Expire, vars, Weight, Safe, TypeInv, TypeOK, Entry
  <2> QED BY <1>1, <2>1
          DEF MemCovers, Stored, Fits, InHand, Pending, WalkOn, DelAsked
<1> QED
  BY <1>2, <1>3 DEF Next

(* Enough room for every element of the pool. *)
LEMMA RoomIs ==
    ASSUME NEW Largest \in Nat, \A s \in Size : s <= Largest,
           MemBound + Largest * Cardinality(Elem) < Word
    PROVE  Room(Largest * Cardinality(Elem))
PROOF
<1> DEFINE room == Largest * Cardinality(Elem)
<1>1. Cardinality(Elem) \in Nat /\ IsFiniteSet(Elem)
  BY GoListAssumption, FS_CardinalityType
<1>2. room \in Nat
  BY <1>1
<1>3. ASSUME NEW f \in [Elem -> Size] PROVE SumFunctionOnSet(f, Elem) <= room
  <2>1. \A e \in Elem : f[e] \in Nat /\ f[e] <= Largest
    <3>1. Size \subseteq Nat
      BY BaseCacheAssumption
    <3> QED BY <3>1
  <2> QED BY <1>1, <2>1, SumBound
<1> QED BY <1>2, <1>3 DEF Room

(* currentMemory never falls below what is stored, and equals it as long as no
   entry leaves by Del (lines 143, 178, 186, 198, 338, 387): whichever goroutine
   drops an entry gives back what was counted for it once.  The word must have
   room for MemBound and every element of the pool on top. *)
THEOREM MemCorrect ==
    ASSUME "clear" \notin Ops, NEW Largest \in Nat, \A s \in Size : s <= Largest,
           MemBound + Largest * Cardinality(Elem) < Word
    PROVE  Spec => []MemCovers
PROOF
<1> DEFINE room == Largest * Cardinality(Elem)
<1>1. Room(room)
  BY RoomIs
<1> HIDE DEF room
<1>2. Init => MemInv(room)
  BY <1>1, MemInit
<1>3. MemInv(room) /\ [Next]_vars => MemInv(room)'
  BY <1>1, MemNext
<1>4. MemInv(room) => MemCovers
  BY DEF MemInv
<1> QED BY <1>2, <1>3, <1>4, PTL DEF Spec

-----------------------------------------------------------------------------
(* BaseCache implements LruCache.  The ring of pointers is read as the sequence
   of its elements; each change of the pointers is a change of that sequence,
   and each step of a goroutine is one of LruCache's. *)

(* The i-th node of a ring: its elements are between two ends at Root. *)
At(s, i) == IF i \in 1..Len(s) THEN s[i] ELSE Root

Walks(next, s) == \A i \in 0..Len(s) : next[At(s, i)] = At(s, i + 1)

Arranged(s) == s \in Seq(Elem) /\ \A i, j \in 1..Len(s) : s[i] = s[j] => i = j

(* s is the order of the list's elements. *)
IsOrder(l, s) ==
    Arranged(s) /\ Len(s) = l.len /\ Range(s) = l.on /\ Walks(l.next, s)

LEMMA AtIs ==
    ASSUME NEW s, Arranged(s)
    PROVE  /\ Len(s) \in Nat /\ DOMAIN s = 1..Len(s)
           /\ At(s, 0) = Root /\ At(s, Len(s) + 1) = Root
           /\ \A i \in 1..Len(s) : At(s, i) = s[i] /\ s[i] \in Elem /\ s[i] # Root
           /\ \A i, j \in 0..Len(s) : At(s, i) = At(s, j) => i = j
PROOF
<1>1. Len(s) \in Nat /\ DOMAIN s = 1..Len(s) /\ \A i \in 1..Len(s) : s[i] \in Elem
  BY DEF Arranged
<1>2. At(s, 0) = Root /\ At(s, Len(s) + 1) = Root
  BY <1>1 DEF At
<1>3. \A i \in 1..Len(s) : At(s, i) = s[i] /\ s[i] \in Elem /\ s[i] # Root
  BY <1>1, GoListAssumption DEF At
<1>4. ASSUME NEW i \in 0..Len(s), NEW j \in 0..Len(s), At(s, i) = At(s, j) PROVE i = j
  <2>1. i = 0 \/ i \in 1..Len(s)
    BY <1>1
  <2>2. j = 0 \/ j \in 1..Len(s)
    BY <1>1
  <2> QED BY <1>2, <1>3, <1>4, <2>1, <2>2 DEF Arranged
<1> QED BY <1>1, <1>2, <1>3, <1>4

(* An element in front of the others. *)
LEMMA InFront ==
    ASSUME NEW s, Arranged(s), NEW e \in Elem, e \notin Range(s)
    PROVE  LET t == <<e>> \o s
           IN  /\ Arranged(t) /\ Len(t) = Len(s) + 1 /\ Range(t) = Range(s) \cup {e}
               /\ At(t, 0) = Root /\ At(t, 1) = e
               /\ \A i \in 1..Len(s) + 1 : At(t, i + 1) = At(s, i)
PROOF
<1> DEFINE t == <<e>> \o s
           len == Len(s)
<1>1. len \in Nat /\ DOMAIN s = 1..len /\ s \in Seq(Elem)
  BY DEF Arranged
<1>2. t \in Seq(Elem) /\ Len(t) = len + 1 /\ DOMAIN t = 1..len + 1 /\ t[1] = e
  BY <1>1
<1>3. \A i \in 1..len : t[i + 1] = s[i]
  BY <1>1
<1> HIDE DEF t, len
<1>4. \A i \in 1..len + 1 : i = 1 \/ \E j \in 1..len : i = j + 1
  <2> TAKE i \in 1..len + 1
  <2>1. CASE i # 1
    <3>1. i - 1 \in 1..len /\ i = (i - 1) + 1
      BY <1>1, <2>1
    <3> QED BY <3>1
  <2> QED BY <2>1
<1>5. \A i \in 1..len : s[i] # e
  BY <1>1 DEF Range
<1>6. Arranged(t)
  <2>1. ASSUME NEW i \in 1..len + 1, NEW j \in 1..len + 1, t[i] = t[j] PROVE i = j
    <3>1. i = 1 \/ \E k \in 1..len : i = k + 1
      BY <1>4
    <3>2. j = 1 \/ \E k \in 1..len : j = k + 1
      BY <1>4
    <3> QED BY <1>2, <1>3, <1>5, <2>1, <3>1, <3>2 DEF Arranged, len
  <2> QED BY <1>2, <2>1 DEF Arranged
<1>7. Range(t) = Range(s) \cup {e}
  <2>1. 1 \in 1..len + 1 /\ \A i \in 1..len : i + 1 \in 1..len + 1
    BY <1>1
  <2>2. Range(t) = {t[i] : i \in 1..len + 1} /\ Range(s) = {s[i] : i \in 1..len}
    BY <1>1, <1>2 DEF Range
  <2>3. \A i \in 1..len + 1 : t[i] \in Range(s) \cup {e}
    BY <1>2, <1>3, <1>4, <2>2
  <2>4. e \in Range(t) /\ \A i \in 1..len : s[i] \in Range(t)
    BY <1>2, <1>3, <2>1, <2>2
  <2> QED BY <2>2, <2>3, <2>4
<1>8. At(t, 0) = Root /\ At(t, 1) = e
  BY <1>1, <1>2 DEF At
<1>9. ASSUME NEW i \in 1..len + 1 PROVE At(t, i + 1) = At(s, i)
  <2>1. CASE i \in 1..len
    <3>1. i + 1 \in 1..len + 1
      BY <1>1, <2>1
    <3> QED BY <1>2, <1>3, <2>1, <3>1 DEF At, len
  <2>2. CASE i \notin 1..len
    <3>1. i + 1 \notin 1..len + 1
      BY <1>1, <2>2
    <3> QED BY <1>2, <2>2, <3>1 DEF At, len
  <2> QED BY <2>1, <2>2
<1> QED BY <1>2, <1>6, <1>7, <1>8, <1>9 DEF t, len

(* The j-th element taken out. *)
LEMMA TakenOut ==
    ASSUME NEW s, Arranged(s), NEW j \in 1..Len(s)
    PROVE  LET t == Lru!RemoveAt(s, j)
           IN  /\ Arranged(t) /\ Len(t) = Len(s) - 1 /\ Range(t) = Range(s) \ {s[j]}
               /\ \A i \in 0..j - 1 : At(t, i) = At(s, i)
               /\ \A i \in j..Len(s) : At(t, i) = At(s, i + 1)
PROOF
<1> DEFINE t == Lru!RemoveAt(s, j)
           len == Len(s)
<1>1. len \in Nat /\ j \in Nat /\ 1 <= j /\ j <= len /\ s \in Seq(Elem) /\ DOMAIN s = 1..len
  BY DEF Arranged
<1>2. /\ t \in Seq(Elem) /\ Len(t) = len - 1
      /\ \A i \in 1..len - 1 : t[i] = IF i < j THEN s[i] ELSE s[i + 1]
  <2> DEFINE a == SubSeq(s, 1, j - 1)
             b == SubSeq(s, j + 1, len)
  <2>1. a \in Seq(Elem) /\ Len(a) = j - 1 /\ \A i \in 1..j - 1 : a[i] = s[i]
    BY <1>1
  <2>2. b \in Seq(Elem) /\ Len(b) = len - j /\ \A i \in 1..len - j : b[i] = s[j + i]
    <3>1. j + 1 \in Int /\ len \in Int /\ \A i \in j + 1..len : s[i] \in Elem
      BY <1>1
    <3>2. /\ b \in Seq(Elem) /\ Len(b) = IF j + 1 <= len THEN len - (j + 1) + 1 ELSE 0
          /\ \A i \in 1..len - (j + 1) + 1 : b[i] = s[(j + 1) + i - 1]
      BY <3>1, SubSeqProperties
    <3> HIDE DEF b, len
    <3>3. \A i \in 1..len - j : i \in 1..len - (j + 1) + 1 /\ (j + 1) + i - 1 = j + i
      BY <1>1
    <3> QED BY <1>1, <3>2, <3>3
  <2>3. t = a \o b
    BY DEF Lru!RemoveAt
  <2> HIDE DEF a, b, t
  <2>4. t \in Seq(Elem) /\ Len(t) = (j - 1) + (len - j)
    <3>1. a \o b \in Seq(Elem) /\ Len(a \o b) = Len(a) + Len(b)
      BY <2>1, <2>2, ConcatProperties
    <3> QED BY <2>1, <2>2, <2>3, <3>1
  <2>5. ASSUME NEW i \in 1..len - 1 PROVE t[i] = IF i < j THEN s[i] ELSE s[i + 1]
    <3>1. CASE i < j
      <4>1. i \in 1..j - 1
        BY <1>1, <3>1
      <4> QED BY <2>1, <2>2, <2>3, <3>1, <4>1
    <3>2. CASE ~(i < j)
      <4>1. i - (j - 1) \in 1..len - j /\ j + (i - (j - 1)) = i + 1
        BY <1>1, <3>2
      <4>2. t[i] = b[i - (j - 1)]
        BY <1>1, <2>1, <2>2, <2>3, <3>2
      <4> QED BY <2>2, <3>2, <4>1, <4>2
    <3> QED BY <3>1, <3>2
  <2>6. (j - 1) + (len - j) = len - 1
    BY <1>1
  <2> QED BY <2>4, <2>5, <2>6
<1> HIDE DEF t, len
<1>3. DOMAIN t = 1..len - 1
  BY <1>2
<1>4. \A i \in 1..len - 1 : (i < j /\ i \in 1..len /\ t[i] = s[i] /\ i # j)
                            \/ (~(i < j) /\ i + 1 \in 1..len /\ t[i] = s[i + 1] /\ i + 1 # j)
  BY <1>1, <1>2
<1>5. Arranged(t)
  <2>1. ASSUME NEW i \in 1..len - 1, NEW k \in 1..len - 1, t[i] = t[k] PROVE i = k
    <3>1. \A x, y \in 1..len : s[x] = s[y] => x = y
      BY DEF Arranged, len
    <3> QED BY <1>1, <1>4, <2>1, <3>1
  <2> QED BY <1>2, <2>1 DEF Arranged
<1>6. Range(t) = Range(s) \ {s[j]}
  <2>1. \A x, y \in 1..len : s[x] = s[y] => x = y
    BY DEF Arranged, len
  <2>2. Range(t) = {t[i] : i \in 1..len - 1} /\ Range(s) = {s[i] : i \in 1..len}
    BY <1>1, <1>3 DEF Range
  <2>3. \A i \in 1..len - 1 : t[i] \in Range(s) /\ t[i] # s[j]
    BY <1>1, <1>4, <2>1, <2>2
  <2>4. ASSUME NEW i \in 1..len, i # j PROVE s[i] \in Range(t)
    <3>1. CASE i < j
      <4>1. i \in 1..len - 1 /\ t[i] = s[i]
        BY <1>1, <1>2, <3>1
      <4> QED BY <2>2, <4>1
    <3>2. CASE ~(i < j)
      <4>1. i - 1 \in 1..len - 1 /\ ~(i - 1 < j) /\ (i - 1) + 1 = i
        BY <1>1, <2>4, <3>2
      <4>2. t[i - 1] = s[i]
        BY <1>2, <4>1
      <4> QED BY <2>2, <4>1, <4>2
    <3> QED BY <3>1, <3>2
  <2> QED BY <2>2, <2>3, <2>4
<1>7. ASSUME NEW i \in 0..j - 1 PROVE At(t, i) = At(s, i)
  <2>1. (i \in 1..len - 1 <=> i \in 1..len) /\ (i \in 1..len - 1 => t[i] = s[i])
    BY <1>1, <1>2
  <2> QED BY <1>2, <2>1 DEF At, len
<1>8. ASSUME NEW i \in j..len PROVE At(t, i) = At(s, i + 1)
  <2>1. (i \in 1..len - 1 <=> i + 1 \in 1..len) /\ (i \in 1..len - 1 => t[i] = s[i + 1])
    BY <1>1, <1>2
  <2> QED BY <1>2, <2>1 DEF At, len
<1> QED BY <1>2, <1>5, <1>6, <1>7, <1>8 DEF t, len

(* Linking and unlinking, as changes of the order. *)
LEMMA LinkWalks ==
    ASSUME NEW l \in ListType, NEW s, Arranged(s), Walks(l.next, s), l.next[Root] \in Node,
           NEW e \in Elem, e \notin Range(s)
    PROVE  Walks(Linked(l, e).next, <<e>> \o s)
PROOF
<1> DEFINE t == <<e>> \o s
           m == Linked(l, e).next
           len == Len(s)
<1>1. /\ Len(t) = len + 1 /\ At(t, 0) = Root /\ At(t, 1) = e
      /\ \A i \in 1..len + 1 : At(t, i + 1) = At(s, i)
  BY InFront
<1>2. /\ len \in Nat /\ At(s, 0) = Root
      /\ \A i \in 1..len : At(s, i) \in Elem /\ At(s, i) # Root /\ At(s, i) # e
  BY AtIs DEF Range
<1>3. m = [l.next EXCEPT ![e] = l.next[Root], ![Root] = e]
  BY LinkedFields
<1>4. e # Root /\ l.next \in [Node -> Node \cup {Nil}] /\ e \in Node /\ Root \in Node
  BY GoListAssumption DEF ListType, Node
<1>5. \A i \in 0..len : l.next[At(s, i)] = At(s, i + 1)
  BY DEF Walks
<1> HIDE DEF t, m, len
<1>6. m[Root] = e /\ m[e] = At(s, 1)
  <2>1. 0 \in 0..len /\ 0 + 1 = 1
    BY <1>2
  <2> QED BY <1>2, <1>3, <1>4, <1>5, <2>1
<1>7. \A i \in 1..len : m[At(s, i)] = At(s, i + 1)
  <2>1. \A i \in 1..len : i \in 0..len /\ At(s, i) \in Node
    BY <1>2 DEF Node
  <2> QED BY <1>2, <1>3, <1>4, <1>5, <2>1
<1>8. ASSUME NEW i \in 0..len + 1 PROVE m[At(t, i)] = At(t, i + 1)
  <2>1. CASE i = 0
    BY <1>1, <1>6, <2>1
  <2>2. CASE i = 1
    <3>1. 1 \in 1..len + 1
      BY <1>2
    <3> QED BY <1>1, <1>6, <2>2, <3>1
  <2>3. CASE i # 0 /\ i # 1
    <3>1. PICK k \in 1..len : i = k + 1
      <4>1. i - 1 \in 1..len /\ i = (i - 1) + 1
        BY <1>2, <2>3
      <4> QED BY <4>1
    <3>2. k \in 1..len + 1 /\ k + 1 \in 1..len + 1
      BY <1>2, <3>1
    <3> QED BY <1>1, <1>7, <3>1, <3>2
  <2> QED BY <2>1, <2>2, <2>3
<1> QED BY <1>1, <1>8 DEF Walks, t, m

LEMMA UnlinkWalks ==
    ASSUME NEW l \in ListType, NEW s, Arranged(s), Walks(l.next, s), NEW j \in 1..Len(s),
           l.prev[s[j]] = At(s, j - 1), l.next[s[j]] \in Node
    PROVE  Walks(Unlinked(l, s[j]).next, Lru!RemoveAt(s, j))
PROOF
<1> DEFINE t == Lru!RemoveAt(s, j)
           m == Unlinked(l, s[j]).next
           len == Len(s)
<1>1. /\ Len(t) = len - 1
      /\ \A i \in 0..j - 1 : At(t, i) = At(s, i)
      /\ \A i \in j..len : At(t, i) = At(s, i + 1)
  BY TakenOut
<1>2. /\ len \in Nat /\ At(s, 0) = Root /\ At(s, j) = s[j] /\ s[j] \in Elem
      /\ \A i \in 1..len : At(s, i) \in Elem
      /\ \A i, k \in 0..len : At(s, i) = At(s, k) => i = k
  BY AtIs
<1>3. \A i \in 0..len : At(s, i) \in Node
  <2>1. \A i \in 0..len : i = 0 \/ i \in 1..len
    BY <1>2
  <2> QED BY <1>2, <2>1 DEF Node
<1>4. j \in 0..len /\ j - 1 \in 0..len /\ j \in Int /\ 1 <= j /\ j <= len
  BY <1>2
<1>5. m = [l.next EXCEPT ![At(s, j - 1)] = l.next[s[j]]]
  <2>1. l.prev[s[j]] \in Node
    BY <1>3, <1>4
  <2>2. m = [l.next EXCEPT ![l.prev[s[j]]] = l.next[s[j]]]
    BY <1>2, <2>1, UnlinkedFields
  <2> QED BY <2>2
<1>6. l.next \in [Node -> Node \cup {Nil}] /\ \A i \in 0..len : l.next[At(s, i)] = At(s, i + 1)
  BY DEF ListType, Walks
<1> HIDE DEF t, m, len
<1>7. m[At(s, j - 1)] = At(s, j + 1)
  BY <1>2, <1>3, <1>4, <1>5, <1>6
<1>8. \A i \in 0..len : i # j - 1 => m[At(s, i)] = At(s, i + 1)
  BY <1>2, <1>3, <1>4, <1>5, <1>6
<1>9. ASSUME NEW i \in 0..len - 1 PROVE m[At(t, i)] = At(t, i + 1)
  <2>1. CASE i < j - 1
    <3>1. i \in 0..j - 1 /\ i + 1 \in 0..j - 1 /\ i \in 0..len /\ i # j - 1
      BY <1>2, <1>4, <2>1
    <3> QED BY <1>1, <1>8, <3>1
  <2>2. CASE i = j - 1
    <3>1. i \in 0..j - 1 /\ i + 1 = j /\ j \in j..len
      BY <1>2, <1>4, <2>2
    <3> QED BY <1>1, <1>7, <2>2, <3>1
  <2>3. CASE ~(i <= j - 1)
    <3>1. i \in j..len /\ i + 1 \in j..len /\ i + 1 \in 0..len /\ i + 1 # j - 1
      BY <1>2, <1>4, <2>3
    <3> QED BY <1>1, <1>8, <3>1
  <2>4. i < j - 1 \/ i = j - 1 \/ ~(i <= j - 1)
    BY <1>2, <1>4
  <2> QED BY <2>1, <2>2, <2>3, <2>4
<1> QED BY <1>1, <1>9 DEF Walks, t, m

-----------------------------------------------------------------------------
(* The operations of the list, as changes of its order. *)
LEMMA OrderFacts ==
    ASSUME NEW l, GoodList(l), NEW s, IsOrder(l, s)
    PROVE  /\ Arranged(s) /\ Walks(l.next, s) /\ Range(s) = l.on /\ l \in ListType
           /\ \A e \in l.on : \E j \in 1..Len(s) : e = s[j]
           /\ \A j \in 1..Len(s) : s[j] \in l.on /\ l.prev[s[j]] = At(s, j - 1)
           /\ l.prev[Root] = At(s, Len(s))
PROOF
<1>1. /\ Len(s) \in Nat /\ DOMAIN s = 1..Len(s) /\ At(s, 0) = Root /\ At(s, Len(s) + 1) = Root
      /\ \A j \in 1..Len(s) : At(s, j) = s[j]
  BY AtIs DEF IsOrder
<1>2. \A e \in l.on : \E j \in 1..Len(s) : e = s[j]
  BY <1>1 DEF IsOrder, Range
<1>3. \A j \in 1..Len(s) : s[j] \in l.on
  BY <1>1 DEF IsOrder, Range
<1>4. \A x \in l.on \cup {Root} : l.prev[l.next[x]] = x
  BY DEF GoodList, OneRing, Tied
<1>5. \A i \in 0..Len(s) : l.next[At(s, i)] = At(s, i + 1) /\ At(s, i) \in l.on \cup {Root}
  <2>1. \A i \in 0..Len(s) : i = 0 \/ i \in 1..Len(s)
    BY <1>1
  <2> QED BY <1>1, <1>3, <2>1 DEF IsOrder, Walks
<1>6. ASSUME NEW j \in 1..Len(s) PROVE l.prev[s[j]] = At(s, j - 1)
  <2>1. j - 1 \in 0..Len(s) /\ (j - 1) + 1 = j
    BY <1>1
  <2> QED BY <1>1, <1>4, <1>5, <2>1
<1>7. l.prev[Root] = At(s, Len(s))
  <2>1. Len(s) \in 0..Len(s)
    BY <1>1
  <2> QED BY <1>1, <1>4, <1>5, <2>1
<1> QED BY <1>2, <1>3, <1>6, <1>7 DEF IsOrder, GoodList

LEMMA PushOrder ==
    ASSUME NEW l, GoodList(l), NEW s, IsOrder(l, s), NEW e \in Elem, e \notin l.on
    PROVE  IsOrder(PushFront(l, e), <<e>> \o s)
PROOF
<1> DEFINE t == <<e>> \o s
           m == PushFront(l, e)
<1>1. Arranged(s) /\ Walks(l.next, s) /\ Range(s) = l.on /\ l \in ListType /\ Len(s) = l.len
  BY OrderFacts DEF IsOrder
<1>2. l.next[Root] \in Node
  BY <1>1 DEF GoodList, OneRing, Tied, ListType, Node
<1>3. Walks(Linked(l, e).next, t)
  BY <1>1, <1>2, LinkWalks
<1>4. Arranged(t) /\ Len(t) = Len(s) + 1 /\ Range(t) = Range(s) \cup {e}
  BY <1>1, InFront
<1>5. m.on = l.on \cup {e} /\ m.len = l.len + 1 /\ m.next = Linked(l, e).next
  BY DEF PushFront
<1> QED BY <1>1, <1>3, <1>4, <1>5 DEF IsOrder

LEMMA RemoveOrder ==
    ASSUME NEW l, GoodList(l), NEW s, IsOrder(l, s), NEW j \in 1..Len(s)
    PROVE  IsOrder(Remove(l, s[j]), Lru!RemoveAt(s, j))
PROOF
<1> DEFINE e == s[j]
           t == Lru!RemoveAt(s, j)
           k == Unlinked(l, e)
           m == Remove(l, e)
<1>1. /\ Arranged(s) /\ Walks(l.next, s) /\ Range(s) = l.on /\ l \in ListType /\ Len(s) = l.len
      /\ e \in l.on /\ l.prev[e] = At(s, j - 1)
  BY OrderFacts DEF IsOrder
<1>2. l.next[e] \in Node /\ e \in Elem /\ l.prev[e] \in Node
  BY <1>1 DEF GoodList, OneRing, Tied, ListType, Node
<1>3. Walks(k.next, t)
  BY <1>1, <1>2, UnlinkWalks
<1>4. Arranged(t) /\ Len(t) = Len(s) - 1 /\ Range(t) = Range(s) \ {e}
  BY <1>1, TakenOut
<1>5. k \in ListType
  BY <1>1, <1>2, UnlinkedFields
<1> HIDE DEF e
<1>6. m.on = l.on \ {e} /\ m.len = l.len - 1 /\ m.next = [k.next EXCEPT ![e] = Nil]
  <2>1. e \in l.on
    BY <1>1
  <2>2. m = [next |-> [k.next EXCEPT ![e] = Nil], prev |-> [k.prev EXCEPT ![e] = Nil],
             on |-> l.on \ {e}, len |-> l.len - 1]
    BY <2>1 DEF Remove
  <2> HIDE DEF m
  <2> QED BY <2>2
<1> HIDE DEF t, k
<1>7. Walks(m.next, t)
  <2>1. \A i \in 0..Len(t) : At(t, i) # e /\ At(t, i) \in Node
    <3>1. Len(t) \in Nat /\ At(t, 0) = Root /\ \A i \in 1..Len(t) : At(t, i) = t[i] /\ t[i] \in Elem
      BY <1>4, AtIs
    <3>2. \A i \in 1..Len(t) : t[i] \in Range(t)
      BY <1>4, AtIs DEF Range
    <3>3. \A i \in 0..Len(t) : i = 0 \/ i \in 1..Len(t)
      BY <3>1
    <3> QED BY <1>2, <1>4, <3>1, <3>2, <3>3, GoListAssumption DEF Node
  <2>2. k.next \in [Node -> Node \cup {Nil}]
    BY <1>5 DEF ListType
  <2>3. \A x \in Node : x # e => m.next[x] = k.next[x]
    BY <1>6, <2>2
  <2> HIDE DEF m
  <2> QED BY <1>3, <2>1, <2>3 DEF Walks
<1> QED BY <1>1, <1>4, <1>6, <1>7 DEF IsOrder, e, t, k

LEMMA MoveOrder ==
    ASSUME NEW l, GoodList(l), NEW s, IsOrder(l, s), NEW j \in 1..Len(s),
           l.next[Root] # s[j]
    PROVE  IsOrder(MoveToFront(l, s[j]), <<s[j]>> \o Lru!RemoveAt(s, j))
PROOF
<1> DEFINE e == s[j]
           r == Lru!RemoveAt(s, j)
           t == <<e>> \o r
           k == Unlinked(l, e)
           m == MoveToFront(l, e)
<1>1. /\ Arranged(s) /\ Walks(l.next, s) /\ Range(s) = l.on /\ l \in ListType /\ Len(s) = l.len
      /\ e \in l.on /\ l.prev[e] = At(s, j - 1)
  BY OrderFacts DEF IsOrder
<1>2. l.next[e] \in Node /\ e \in Elem /\ l.prev[e] \in Node
  BY <1>1 DEF GoodList, OneRing, Tied, ListType, Node
<1>3. Walks(k.next, r)
  BY <1>1, <1>2, UnlinkWalks
<1>4. Arranged(r) /\ Len(r) = Len(s) - 1 /\ Range(r) = Range(s) \ {e} /\ Len(s) \in Nat
  BY <1>1, TakenOut, AtIs
<1>5. k \in ListType /\ k.on = l.on /\ k.len = l.len
  BY <1>1, <1>2, UnlinkedFields
<1>6. m = Linked(k, e)
  BY <1>1 DEF MoveToFront
<1> HIDE DEF e, r, k
<1>7. k.next[Root] \in Node
  <2>1. 0 \in 0..Len(r) /\ At(r, 0) = Root /\ At(r, 0 + 1) \in Node
    <3>1. Len(r) \in Nat /\ At(r, 0) = Root /\ \A i \in 1..Len(r) : At(r, i) \in Elem
      BY <1>4, AtIs
    <3>2. 1 \notin 1..Len(r) => At(r, 1) = Root
      BY DEF At
    <3> QED BY <3>1, <3>2 DEF Node
  <2> QED BY <1>3, <2>1 DEF Walks
<1>8. Walks(Linked(k, e).next, t) /\ Arranged(t) /\ Len(t) = Len(r) + 1 /\ Range(t) = Range(r) \cup {e}
  BY <1>2, <1>3, <1>4, <1>5, <1>7, LinkWalks, InFront
<1>9. Linked(k, e).on = k.on /\ Linked(k, e).len = k.len
  BY DEF Linked
<1> HIDE DEF t, m
<1>10. IsOrder(m, t)
  BY <1>1, <1>4, <1>5, <1>6, <1>8, <1>9 DEF IsOrder
<1> QED BY <1>10 DEF m, t, e, r

(* The back of the list is the end of its order. *)
LEMMA BackOrder ==
    ASSUME NEW l, GoodList(l), NEW s, IsOrder(l, s), l.len > 0
    PROVE  /\ Len(s) \in 1..Len(s) /\ Back(l) = s[Len(s)]
           /\ Lru!RemoveAt(s, Len(s)) = Lru!Front(s) /\ s # <<>>
PROOF
<1>1. /\ Arranged(s) /\ l.prev[Root] = At(s, Len(s)) /\ Len(s) = l.len /\ l.len \in Nat
      /\ s \in Seq(Elem)
  BY OrderFacts, AtIs DEF IsOrder, Arranged
<1>2. Len(s) \in 1..Len(s)
  BY <1>1
<1>3. Back(l) = s[Len(s)]
  BY <1>1, <1>2, AtIs DEF Back
<1>4. Lru!RemoveAt(s, Len(s)) = Lru!Front(s)
  <2> DEFINE len == Len(s)
  <2>1. SubSeq(s, len + 1, len) = <<>>
    BY <1>1, SubSeqEmpty
  <2>2. SubSeq(s, 1, len - 1) \in Seq(Elem)
    <3>1. 1 \in Int /\ len - 1 \in Int /\ \A i \in 1..len - 1 : s[i] \in Elem
      BY <1>1
    <3> QED BY <3>1, SubSeqProperties
  <2>3. SubSeq(s, 1, len - 1) \o <<>> = SubSeq(s, 1, len - 1)
    BY <2>2, ConcatEmptySeq
  <2> QED BY <2>1, <2>3 DEF Lru!RemoveAt, Lru!Front
<1>5. s # <<>>
  BY <1>1
<1> QED BY <1>2, <1>3, <1>4, <1>5

LEMMA PrevOrder ==
    ASSUME NEW l, GoodList(l), NEW s, IsOrder(l, s), l.len > 0
    PROVE  /\ l.len = 1 => PrevOf(l, s[Len(s)]) = Nil
           /\ l.len > 1 => Len(s) - 1 \in 1..Len(s) /\ PrevOf(l, s[Len(s)]) = s[Len(s) - 1]
PROOF
<1>1. Arranged(s) /\ Len(s) = l.len /\ l.len \in Nat /\ Len(s) \in 1..Len(s)
  BY AtIs, BackOrder DEF IsOrder
<1>2. l.prev[s[Len(s)]] = At(s, Len(s) - 1) /\ s[Len(s)] \in l.on
  BY <1>1, OrderFacts
<1>3. l.len = 1 => At(s, Len(s) - 1) = Root
  BY <1>1 DEF At
<1>4. l.len > 1 => Len(s) - 1 \in 1..Len(s) /\ At(s, Len(s) - 1) = s[Len(s) - 1] /\ s[Len(s) - 1] # Root
  <2>1. l.len > 1 => Len(s) - 1 \in 1..Len(s)
    BY <1>1
  <2> QED BY <1>1, <2>1, AtIs
<1> QED BY <1>2, <1>3, <1>4 DEF PrevOf

LEMMA EmptyOrder == IsOrder(EmptyList, <<>>)
PROOF
<1>1. EmptyList.len = 0 /\ EmptyList.on = {} /\ EmptyList.next[Root] = Root
  BY DEF EmptyList, Node
<1> DEFINE s == <<>>
<1>2. s \in Seq(Elem) /\ Len(s) = 0 /\ Range(s) = {} /\ 1..0 = {}
  BY DEF Range
<1> HIDE DEF s
<1>3. At(s, 0) = Root /\ At(s, 0 + 1) = Root
  BY <1>2 DEF At
<1>4. \A i \in 0..Len(s) : i = 0
  BY <1>2
<1>5. IsOrder(EmptyList, s)
  BY <1>1, <1>2, <1>3, <1>4 DEF IsOrder, Arranged, Walks
<1> QED BY <1>5 DEF s

(* RingSeq, for any list, is that order. *)
SeqOf(l) ==
    LET at[i \in 0..l.len] == IF i = 0 THEN Root ELSE l.next[at[i - 1]]
    IN  [i \in 1..l.len |-> at[i]]

RingOf(l, f) == f = [i \in 0..l.len |-> IF i = 0 THEN Root ELSE l.next[f[i - 1]]]

LEMMA OrderIs ==
    ASSUME NEW l, NEW s, IsOrder(l, s)
    PROVE  SeqOf(l) = s
PROOF
<1>1. Arranged(s) /\ Walks(l.next, s) /\ Len(s) = l.len
  BY DEF IsOrder
<1> DEFINE len == l.len
<1>2. /\ len \in Nat /\ At(s, 0) = Root /\ DOMAIN s = 1..len
      /\ \A i \in 1..len : At(s, i) = s[i] /\ s \in Seq(Elem)
  BY <1>1, AtIs DEF Arranged
<1>3. \A i \in 1..len : i \in 0..len /\ i # 0 /\ i - 1 \in 0..len /\ (i - 1) + 1 = i
  BY <1>2
<1> DEFINE f == [i \in 0..len |-> At(s, i)]
<1>4. \A i \in 1..len : f[i] = l.next[f[i - 1]]
  BY <1>1, <1>3 DEF Walks
<1>5. RingOf(l, f)
  <2>1. \A i \in 0..len : i = 0 \/ i \in 1..len
    BY <1>2
  <2>2. \A i \in 0..len : At(s, i) = IF i = 0 THEN Root ELSE l.next[f[i - 1]]
    BY <1>2, <1>4, <2>1
  <2> QED BY <2>2 DEF RingOf
<1>6. f[0] = Root /\ \A i \in 1..len : f[i] = s[i]
  BY <1>2, <1>3
<1> HIDE DEF f
<1> DEFINE g == CHOOSE g : RingOf(l, g)
<1>7. SeqOf(l) = [i \in 1..len |-> g[i]]
  BY DEF SeqOf, RingOf
<1>8. RingOf(l, g)
  BY <1>5
<1> HIDE DEF g, len
<1>9. g[0] = Root /\ \A i \in 1..len : g[i] = l.next[g[i - 1]]
  <2>1. 0 \in 0..len /\ \A i \in 0..len : g[i] = IF i = 0 THEN Root ELSE l.next[g[i - 1]]
    BY <1>2, <1>8 DEF RingOf, len
  <2> QED BY <1>3, <2>1
<1>10. \A i \in 0..len : f[i] = g[i]
  <2>1. f[0] = g[0] /\ \A i \in 1..len : f[i - 1] = g[i - 1] => f[i] = g[i]
    BY <1>4, <1>6, <1>9
  <2>2. len \in Nat
    BY <1>2
  <2> QED BY <2>1, <2>2, SameSteps
<1>11. \A i \in 1..len : g[i] = s[i]
  BY <1>3, <1>6, <1>10
<1>12. s = [i \in 1..len |-> s[i]]
  <2>1. s \in Seq(Elem) /\ Len(s) = len
    BY <1>1 DEF Arranged, len
  <2> QED BY <2>1
<1> QED BY <1>7, <1>11, <1>12

(* The refinement mapping's order and entries, before and after a step. *)
LEMMA RingIs ==
    ASSUME NEW s, IsOrder(ll, s)
    PROVE  RingSeq = s /\ Ring = ll.on /\ Range(s) = ll.on
PROOF
<1>1. RingSeq = s
  BY OrderIs DEF RingSeq, SeqOf
<1>2. s \in Seq(Elem) /\ Len(s) = ll.len /\ Range(s) = ll.on
  BY DEF IsOrder, Arranged
<1> QED BY <1>1, <1>2 DEF Ring, Range

LEMMA RingIsNext ==
    ASSUME NEW s, IsOrder(ll', s)
    PROVE  RingSeq' = s /\ Ring' = ll'.on /\ Range(s) = ll'.on
PROOF
<1>1. RingSeq' = SeqOf(ll')
  BY DEF RingSeq, SeqOf
<1>2. SeqOf(ll') = s
  BY OrderIs
<1>3. s \in Seq(Elem) /\ Len(s) = ll'.len /\ Range(s) = ll'.on
  BY DEF IsOrder, Arranged
<1>4. Ring' = {RingSeq'[i] : i \in 1..ll'.len}
  BY DEF Ring
<1> QED BY <1>1, <1>2, <1>3, <1>4 DEF Range

-----------------------------------------------------------------------------
(* The invariant.  Between the look at a key's previous entry and the push of
   the new one setWithTTL may give the lock away; for another goroutine not to
   use that moment, either there is none or there is no memory limit. *)
Alone == \E p \in Proc : Proc = {p}

Quiet == Alone \/ Unlimited

HasOrder == \E s : IsOrder(ll, s)

OneEach == \A e \in ll.on : cache[ent[e].key] = e

(* Where setWithTTL has dropped the previous entry of the key it stores. *)
Storing == {"check", "cleanup", "walk", "relock", "evict", "push"}

PlaceOK(p) ==
    /\ pc[p] \in Storing => cache[ent[loc[p].arg].key] = Nil
    /\ pc[p] \in {"cleanup", "walk"} => max > 0
    /\ pc[p] = "walk" => loc[p].elem \in {Nil, Back(ll)} \/ mem <= max
    /\ pc[p] = "drop" => Expired(loc[p].elem)

OrderInv(room) ==
    MemInv(room) /\ Quiet /\ HasOrder /\ OneEach /\ \A p \in Proc : PlaceOK(p)

-----------------------------------------------------------------------------
(* Why an element may leave. *)
Reason(e) ==
    Expired(e) \/ ent[e].key \in Wanted \/ (Pressed /\ e = Back(ll))

(* What a step of p does to the list and the map. *)
Change(p) ==
    \/ UNCHANGED <<cache, ll>>
    \/ UNCHANGED cache /\ \E e \in Elem : ll' = MoveToFront(ll, e)
    \/ \E e \in ll.on : Discarded(e) /\ Reason(e)
    \/ /\ pc[p] = "push"
       /\ ll' = PushFront(ll, loc[p].arg)
       /\ cache' = [cache EXCEPT ![ent[loc[p].arg].key] = loc[p].arg]

(* The entries that something points at stay, and only grow older. *)
EntriesStay ==
    \A e \in Elem \ Free : ent'[e].key = ent[e].key /\ (Expired(e) => Expired(e)')

(* The steps of LruCache, from the order s to the order t. *)
Inserted(s, t) ==
    \E e \in Elem :
        /\ e \notin ll.on /\ t = <<e>> \o s /\ ll'.on = ll.on \cup {e}
        /\ ent'[e].key \in Wanted /\ \A d \in ll.on : ent[d].key # ent'[e].key

Touched(s, t) == \E i \in 1..Len(s) : t = <<s[i]>> \o Lru!RemoveAt(s, i)

Withdrawn(s, t) ==
    \E i \in 1..Len(s) :
        (Expired(s[i]) \/ ent[s[i]].key \in Wanted) /\ t = Lru!RemoveAt(s, i)

Evicted(s, t) == Pressed /\ s # <<>> /\ t = Lru!Front(s)

Moves(s, t) ==
    t = s \/ Inserted(s, t) \/ Touched(s, t) \/ Withdrawn(s, t) \/ Evicted(s, t)

Reorders(s) == \E t : IsOrder(ll', t) /\ Moves(s, t)

LEMMA DiscardedIs ==
    ASSUME Safe, NEW s, IsOrder(ll, s), NEW e \in ll.on, Discarded(e), Reason(e)
    PROVE  Reorders(s)
PROOF
<1>1. GoodList(ll) /\ e \in Elem
  BY DEF Safe, TypeInv, TypeOK, ListType
<1>2. PICK j \in 1..Len(s) : e = s[j]
  BY <1>1, OrderFacts
<1>3. IsOrder(ll', Lru!RemoveAt(s, j))
  <2>1. IsOrder(Remove(ll, s[j]), Lru!RemoveAt(s, j))
    BY <1>1, RemoveOrder
  <2> QED BY <1>2, <2>1 DEF Discarded
<1>4. CASE Expired(e) \/ ent[e].key \in Wanted
  <2>1. Withdrawn(s, Lru!RemoveAt(s, j))
    BY <1>2, <1>4 DEF Withdrawn
  <2> QED BY <1>3, <2>1 DEF Reorders, Moves
<1>5. CASE Pressed /\ e = Back(ll)
  <2>1. ll.len > 0
    <3>1. Len(s) = ll.len /\ Len(s) \in Nat
      BY AtIs DEF IsOrder
    <3> QED BY <1>2, <3>1
  <2>2. Len(s) \in 1..Len(s) /\ e = s[Len(s)] /\ Lru!RemoveAt(s, Len(s)) = Lru!Front(s) /\ s # <<>>
    BY <1>1, <1>5, <2>1, BackOrder
  <2>3. j = Len(s)
    BY <1>2, <2>2 DEF IsOrder, Arranged
  <2>4. Evicted(s, Lru!RemoveAt(s, j))
    BY <1>5, <2>2, <2>3 DEF Evicted
  <2> QED BY <1>3, <2>4 DEF Reorders, Moves
<1> QED BY <1>4, <1>5 DEF Reason

LEMMA PushedIs ==
    ASSUME Safe, OneEach, NEW p \in Proc, PlaceOK(p), EntriesStay, NEW s, IsOrder(ll, s),
           pc[p] = "push", ll' = PushFront(ll, loc[p].arg)
    PROVE  Reorders(s)
PROOF
<1> DEFINE e == loc[p].arg
           t == <<e>> \o s
<1>1. GoodList(ll) /\ e \in Elem /\ e # Nil
  BY GoListAssumption DEF Safe, TypeInv, FrameOK
<1>2. e \notin ll.on /\ e \notin Free
  BY <1>1 DEF Safe, PendingFresh, Pending, Free
<1>3. ent'[e].key = ent[e].key /\ cache[ent[e].key] = Nil
  BY <1>1, <1>2 DEF EntriesStay, PlaceOK, Storing
<1>4. ent[e].key \in Wanted
  <2>1. ent[e].key \in {ent[d].key : d \in loc[p].todo \cup ({loc[p].arg} \ {Nil})}
    BY <1>1
  <2> QED BY <2>1 DEF Wanted
<1>5. \A d \in ll.on : ent[d].key # ent[e].key
  <2>1. \A d \in ll.on : d # Nil
    BY GoListAssumption DEF Safe, TypeInv, TypeOK, ListType
  <2> QED BY <1>3, <2>1 DEF OneEach
<1>6. ll' = PushFront(ll, e)
  OBVIOUS
<1> HIDE DEF e
<1>7. IsOrder(ll', t) /\ ll'.on = ll.on \cup {e}
  BY <1>1, <1>2, <1>6, PushOrder, PushFrontGood
<1>8. Inserted(s, t)
  BY <1>1, <1>2, <1>3, <1>4, <1>5, <1>7 DEF Inserted
<1> QED BY <1>7, <1>8 DEF Reorders, Moves

LEMMA MovedIs ==
    ASSUME Safe, NEW s, IsOrder(ll, s), NEW e \in Elem, ll' = MoveToFront(ll, e)
    PROVE  Reorders(s)
PROOF
<1>1. GoodList(ll)
  BY DEF Safe
<1>2. CASE e \in ll.on /\ ll.next[Root] # e
  <2>1. PICK j \in 1..Len(s) : e = s[j]
    BY <1>1, <1>2, OrderFacts
  <2>2. IsOrder(MoveToFront(ll, s[j]), <<s[j]>> \o Lru!RemoveAt(s, j))
    BY <1>1, <1>2, <2>1, MoveOrder
  <2>3. Touched(s, <<s[j]>> \o Lru!RemoveAt(s, j))
    BY DEF Touched
  <2>4. IsOrder(ll', <<s[j]>> \o Lru!RemoveAt(s, j))
    BY <2>1, <2>2
  <2> QED BY <2>3, <2>4 DEF Reorders, Moves
<1>3. CASE ~(e \in ll.on /\ ll.next[Root] # e)
  <2>1. ll' = ll
    BY <1>3 DEF MoveToFront
  <2> QED BY <2>1 DEF Reorders, Moves
<1> QED BY <1>2, <1>3

LEMMA ChangeIs ==
    ASSUME Safe, OneEach, NEW p \in Proc, PlaceOK(p), EntriesStay, Change(p),
           NEW s, IsOrder(ll, s)
    PROVE  Reorders(s)
PROOF
<1>1. CASE ll' = ll
  BY <1>1 DEF Reorders, Moves
<1> QED BY <1>1, DiscardedIs, PushedIs, MovedIs DEF Change

(* One entry per key, as in EntriesCorrect. *)
LEMMA OneEachStep ==
    ASSUME Safe, OneEach, NEW p \in Proc, PlaceOK(p), EntriesStay, Change(p)
    PROVE  OneEach'
PROOF
<1> USE DEF Safe
<1> SUFFICES ASSUME NEW e \in ll'.on PROVE cache'[ent'[e].key] = e
  BY DEF OneEach
<1>1. \A d \in ll.on : d \in Elem /\ ent'[d].key = ent[d].key /\ cache[ent[d].key] = d
  BY FreeIsOff DEF TypeInv, TypeOK, ListType, EntriesStay, OneEach
<1>2. cache \in [Key -> Elem \cup {Nil}] /\ \A d \in Elem : ent[d].key \in Key
  BY DEF TypeInv, TypeOK, Entry
<1>3. CASE UNCHANGED <<cache, ll>>
  BY <1>1, <1>3
<1>4. CASE UNCHANGED cache /\ \E d \in Elem : ll' = MoveToFront(ll, d)
  BY <1>1, <1>4, MoveToFrontGood
<1>5. CASE \E d \in ll.on : Discarded(d) /\ Reason(d)
  <2>1. PICK d \in ll.on : Discarded(d)
    BY <1>5
  <2>2. e \in ll.on /\ e # d
    BY <1>1, <2>1, RemoveGood DEF Discarded
  <2> QED BY <1>1, <1>2, <2>1, <2>2 DEF Discarded
<1>6. CASE /\ pc[p] = "push"
           /\ ll' = PushFront(ll, loc[p].arg)
           /\ cache' = [cache EXCEPT ![ent[loc[p].arg].key] = loc[p].arg]
  <2> DEFINE a == loc[p].arg
  <2>1. a \in Elem
    BY <1>6 DEF TypeInv, FrameOK
  <2>2. a \notin ll.on /\ a \notin Free
    BY <2>1, GoListAssumption DEF PendingFresh, Pending, Free
  <2>3. ent'[a].key = ent[a].key /\ cache[ent[a].key] = Nil
    BY <1>6, <2>1, <2>2 DEF EntriesStay, PlaceOK, Storing
  <2>4. ll' = PushFront(ll, a) /\ cache' = [cache EXCEPT ![ent[a].key] = a]
    BY <1>6
  <2> HIDE DEF a
  <2>5. e \in ll.on \cup {a}
    BY <2>1, <2>2, <2>4, PushFrontGood
  <2>6. CASE e = a
    BY <1>2, <2>1, <2>3, <2>4, <2>6
  <2>7. CASE e \in ll.on
    BY <1>1, <1>2, <2>1, <2>3, <2>4, <2>7, GoListAssumption
  <2> QED BY <2>5, <2>6, <2>7
<1> QED
  BY <1>3, <1>4, <1>5, <1>6 DEF Change

(* Such a step is one of LruCache's. *)
LEMMA ReordersIsNext ==
    ASSUME Safe, Safe', EntriesStay, HasOrder, \A s : IsOrder(ll, s) => Reorders(s)
    PROVE  Lru!Next /\ HasOrder'
PROOF
<1>1. PICK s : IsOrder(ll, s)
  BY DEF HasOrder
<1>2. PICK t : IsOrder(ll', t) /\ Moves(s, t)
  BY <1>1 DEF Reorders
<1>3. HasOrder'
  BY <1>2 DEF HasOrder
<1>4. RingSeq = s /\ Ring = ll.on /\ Range(s) = ll.on /\ DOMAIN s = 1..Len(s)
  BY <1>1, RingIs, AtIs DEF IsOrder
<1>5. RingSeq' = t /\ Ring' = ll'.on /\ Range(t) = ll'.on
  BY <1>2, RingIsNext
<1> DEFINE key == [e \in Ring |-> ent[e].key]
           stale == {e \in Ring : Expired(e)}
<1>6. /\ \A e \in ll.on : key[e] = ent[e].key /\ (e \in stale <=> Expired(e))
      /\ \A e \in ll'.on : key'[e] = ent'[e].key /\ (e \in stale' <=> Expired(e)')
  BY <1>4, <1>5 DEF Expired
<1>7. \A e \in ll.on : e \in Elem /\ e \notin Free
  BY FreeIsOff DEF Safe, TypeInv, TypeOK, ListType
<1>8. Lru!Keep
  <2>1. \A e \in Range(s) \cap Range(t) : key'[e] = key[e]
    BY <1>4, <1>5, <1>6, <1>7 DEF EntriesStay
  <2>2. stale \cap Range(t) \subseteq stale'
    BY <1>4, <1>5, <1>6, <1>7 DEF EntriesStay
  <2>3. Lru!Range(RingSeq) = Range(s) /\ Lru!Range(RingSeq') = Range(t)
    BY <1>4, <1>5 DEF Lru!Range, Range
  <2> HIDE DEF key, stale
  <2> QED BY <2>1, <2>2, <2>3 DEF Lru!Keep, Lru!Held, key, stale
<1> HIDE DEF key, stale
<1>9. \/ t = s
      \/ \E e \in Elem : Lru!Insert(e)
      \/ \E i \in 1..Len(s) : Lru!Touch(i) \/ Lru!Discard(i)
      \/ Lru!EvictOldest
  <2>1. ASSUME Inserted(s, t) PROVE \E e \in Elem : Lru!Insert(e)
    <3>1. PICK e \in Elem :
            /\ e \notin ll.on /\ t = <<e>> \o s /\ ll'.on = ll.on \cup {e}
            /\ ent'[e].key \in Wanted /\ \A d \in ll.on : ent[d].key # ent'[e].key
      BY <2>1 DEF Inserted
    <3>2. key'[e] \in Wanted /\ \A d \in ll.on : key[d] # key'[e]
      BY <1>6, <3>1
    <3>3. Lru!Range(RingSeq) = ll.on
      BY <1>4 DEF Lru!Range, Range
    <3>4. Lru!Insert(e)
      BY <1>4, <1>5, <3>1, <3>2, <3>3 DEF Lru!Insert, Lru!Held, key
    <3> QED BY <3>4
  <2>2. ASSUME Touched(s, t) PROVE \E i \in 1..Len(s) : Lru!Touch(i)
    BY <1>4, <1>5, <2>2 DEF Touched, Lru!Touch
  <2>3. ASSUME Withdrawn(s, t) PROVE \E i \in 1..Len(s) : Lru!Discard(i)
    <3>1. PICK i \in 1..Len(s) :
            (Expired(s[i]) \/ ent[s[i]].key \in Wanted) /\ t = Lru!RemoveAt(s, i)
      BY <2>3 DEF Withdrawn
    <3>2. s[i] \in ll.on
      BY <1>4 DEF Range
    <3>3. s[i] \in stale \/ key[s[i]] \in Wanted
      BY <1>6, <3>1, <3>2
    <3>4. Lru!Discard(i)
      BY <1>4, <1>5, <3>1, <3>3 DEF Lru!Discard, key, stale
    <3> QED BY <3>4
  <2>4. ASSUME Evicted(s, t) PROVE Lru!EvictOldest
    BY <1>4, <1>5, <2>4 DEF Evicted, Lru!EvictOldest
  <2> QED BY <1>2, <2>1, <2>2, <2>3, <2>4 DEF Moves
<1>10. Lru!Next
  BY <1>4, <1>5, <1>8, <1>9 DEF Lru!Next
<1> QED BY <1>3, <1>10

-----------------------------------------------------------------------------
(* A step that keeps what p knows keeps the invariant. *)
LEMMA OrderKeeps ==
    ASSUME NEW room, OrderInv(room), MemInv(room)', NEW p \in Proc, Step(p), MemStep(p),
           Change(p), PlaceOK(p)'
    PROVE  OrderInv(room)' /\ Lru!Next
PROOF
<1> USE DEF OrderInv, MemInv
<1>1. EntriesStay
  BY DEF MemStep, Stays, Called, Dropped, Pushed, Deleted, EntriesStay, Expired
<1>2. Quiet'
  BY DEF Quiet, Alone, Unlimited, Step, StepShared
<1>3. OneEach'
  BY <1>1, OneEachStep
<1>4. Lru!Next /\ HasOrder'
  <2>1. \A s : IsOrder(ll, s) => Reorders(s)
    BY <1>1, ChangeIs
  <2> QED BY <1>1, <2>1, ReordersIsNext
<1>5. ASSUME NEW q \in Proc PROVE PlaceOK(q)'
  <2>1. CASE q = p
    BY <2>1
  <2>2. CASE q # p
    <3>1. pc'[q] = pc[q] /\ loc'[q] = loc[q]
      BY <2>2 DEF Step, StepLock
    <3>2. pc'[q] = "drop" => Expired(loc[q].elem)'
      <4>1. pc[q] = "drop" => loc[q].elem \in Elem /\ loc[q].elem \notin Free
        BY DEF Safe, TypeInv, FrameOK, Free
      <4>2. pc[q] = "drop" => Expired(loc[q].elem)
        BY DEF PlaceOK
      <4> QED BY <1>1, <3>1, <4>1, <4>2 DEF EntriesStay, Expired
    <3>3. Unlimited'
      BY <1>2, <2>2 DEF Quiet, Alone
    <3>4. pc'[q] \notin Window /\ (pc'[q] \in {"evict", "push"} =>
                                   cache'[ent'[loc'[q].arg].key] = Nil)
      BY <3>3 DEF Safe, KeyIsFree
    <3> QED BY <3>1, <3>2, <3>4 DEF PlaceOK, Storing, Window, Expired
  <2> QED BY <2>1, <2>2
<1> QED BY <1>2, <1>3, <1>4, <1>5

(* Places that need nothing. *)
Plain == Place \ (Storing \cup {"drop"})

LEMMA PlainOK ==
    ASSUME NEW p \in Proc, pc'[p] \in Plain
    PROVE  PlaceOK(p)'
BY DEF Plain, PlaceOK, Storing

(* The key of the value under way stays free. *)
LEMMA KeyStillFree ==
    ASSUME Safe, NEW p \in Proc, Step(p), PlaceOK(p), pc[p] \in Storing \ {"push"},
           loc'[p].arg = loc[p].arg
    PROVE  cache'[ent'[loc'[p].arg].key] = Nil
PROOF
<1> DEFINE a == loc[p].arg
<1>1. a \in Elem /\ a \notin Free
  BY DEF Safe, TypeInv, FrameOK, Storing, Free
<1>2. ent'[a].key = ent[a].key /\ ent[a].key \in Key /\ cache[ent[a].key] = Nil
  BY <1>1 DEF Step, StepShared, PlaceOK, Safe, TypeInv, TypeOK, Entry
<1>3. loc'[p].arg = a
  OBVIOUS
<1> HIDE DEF a
<1>4. cache'[ent[a].key] = Nil
  BY <1>2, KeyStaysFree
<1> QED BY <1>2, <1>3, <1>4

(* The calls change neither the list nor the map. *)
LEMMA CallOrder ==
    ASSUME Safe, "clear" \notin Ops, NEW p \in Proc, Call(p)
    PROVE  Change(p) /\ PlaceOK(p)'
PROOF
<1>1. pc \in [Proc -> Place]
  BY DEF Safe, TypeInv, TypeOK
<1>2. UNCHANGED <<cache, ll>>
  BY DEF Call, Set, SetMap, Get, GetOrSetFunc, Del, Clear, CanCall, SetMemoryLimit, Destroy
<1>3. pc'[p] \in Plain
  BY <1>1 DEF Call, Set, SetMap, Get, GetOrSetFunc, Lookup, Del, Clear, CanCall,
             SetMemoryLimit, Destroy, Goto, Plain, Place, Storing
<1> QED BY <1>2, <1>3, PlainOK DEF Change

(* An element that leaves takes its key along. *)
LEMMA DropChange ==
    ASSUME NEW p \in Proc, NEW e \in ll.on, Drop(e), Reason(e)
    PROVE  Change(p)
BY DEF Drop, Discarded, Change

LEMMA LockingOrder ==
    ASSUME Safe, NEW p \in Proc, PlaceOK(p), Locking(p)
    PROVE  Change(p) /\ PlaceOK(p)'
PROOF
<1> USE DEF Safe
<1>1. pc \in [Proc -> Place] /\ loc \in [Proc -> Frame]
  BY DEF TypeInv, TypeOK
<1>2. Step(p)
  BY LockingStep
<1>3. CASE CleanupLock(p)
  <2> DEFINE f == [loc[p] EXCEPT !.elem = Back(ll),
                                 !.quota = IF ll.len \div CleanupPart < 1 THEN 1
                                           ELSE ll.len \div CleanupPart,
                                 !.removed = 0]
  <2>1. /\ loc' = [loc EXCEPT ![p] = f] /\ UNCHANGED <<cache, ll, max>>
        /\ pc[p] = "cleanup" /\ pc'[p] = "walk"
    BY <1>1, <1>3 DEF CleanupLock, Goto
  <2>2. f.arg = loc[p].arg /\ f.elem = Back(ll)
    BY <1>1 DEF Frame
  <2> HIDE DEF f
  <2>3. loc'[p].arg = loc[p].arg /\ loc'[p].elem = Back(ll')
    BY <1>1, <2>1, <2>2
  <2>4. cache'[ent'[loc'[p].arg].key] = Nil
    BY <1>2, <2>1, <2>3, KeyStillFree DEF Storing
  <2>5. max' > 0
    BY <2>1 DEF PlaceOK
  <2> QED BY <2>1, <2>3, <2>4, <2>5 DEF Change, PlaceOK
<1>4. CASE Relock(p)
  <2>1. UNCHANGED <<cache, ll, loc>> /\ pc[p] = "relock" /\ pc'[p] = "evict"
    BY <1>1, <1>4 DEF Relock, Goto
  <2>2. cache'[ent'[loc'[p].arg].key] = Nil
    BY <1>2, <2>1, KeyStillFree DEF Storing
  <2> QED BY <2>1, <2>2 DEF Change, PlaceOK
<1>5. CASE GetDrop(p)
  <2>1. loc[p].elem \in Elem /\ loc[p].key \in Key /\ Expired(loc[p].elem)
    BY <1>5 DEF GetDrop, TypeInv, FrameOK, PlaceOK
  <2>2. pc'[p] \in Plain
    BY <1>1, <1>5 DEF GetDrop, Miss, Return, Goto, Plain, Place, Storing
  <2>3. CASE cache[loc[p].key] = loc[p].elem
    <3>1. loc[p].elem \in ll.on
      BY <2>1, <2>3, GoListAssumption DEF MapInRing
    <3>2. Drop(loc[p].elem) /\ Reason(loc[p].elem)
      BY <1>5, <2>1, <2>3 DEF GetDrop, Reason
    <3> QED BY <2>2, <3>1, <3>2, DropChange, PlainOK
  <2>4. CASE cache[loc[p].key] # loc[p].elem
    BY <1>5, <2>2, <2>4, PlainOK DEF GetDrop, Change
  <2> QED BY <2>3, <2>4
<1>6. CASE GetTouch(p)
  <2>1. pc'[p] \in Plain
    BY <1>1, <1>6 DEF GetTouch, Return, Goto, Plain, Place, Storing
  <2>2. loc[p].elem \in Elem
    BY <1>6 DEF GetTouch, TypeInv, FrameOK
  <2> QED BY <1>6, <2>1, <2>2, PlainOK DEF GetTouch, Change
<1>7. CASE GetLocked(p)
  <2> DEFINE e == cache[loc[p].key]
  <2>1. loc[p].key \in Key
    BY <1>7 DEF GetLocked, TypeInv, FrameOK
  <2>2. pc'[p] \in Plain
    BY <1>1, <1>7 DEF GetLocked, Return, Goto, Plain, Place, Storing
  <2>3. e # Nil => e \in ll.on /\ e \in Elem
    BY <2>1 DEF MapInRing, TypeInv, TypeOK
  <2>4. \/ UNCHANGED <<cache, ll>>
        \/ e # Nil /\ Drop(e) /\ Expired(e)
        \/ e # Nil /\ ll' = MoveToFront(ll, e) /\ UNCHANGED cache
    BY <1>7 DEF GetLocked
  <2> HIDE DEF e
  <2>5. Change(p)
    <3>1. CASE e # Nil /\ Drop(e) /\ Expired(e)
      BY <2>3, <3>1, DropChange DEF Reason
    <3> QED BY <2>3, <2>4, <3>1 DEF Change
  <2> QED BY <2>2, <2>5, PlainOK
<1> QED
  BY <1>3, <1>4, <1>5, <1>6, <1>7 DEF Locking

(* What is dropped was counted: currentMemory does not grow. *)
LEMMA DropShrinks ==
    ASSUME NEW room, Room(room), MemInv(room), NEW e \in ll.on
    PROVE  Minus(mem, ent[e].size) \in Nat /\ Minus(mem, ent[e].size) <= mem
PROOF
<1>1. ent \in [Elem -> Entry] /\ ll.on \in SUBSET Elem /\ mem \in 0..(Word - 1)
  BY DEF MemInv, Safe, TypeInv, TypeOK, ListType
<1>2. Weight \in [Elem -> Size] /\ \A d \in Elem : Weight[d] = ent[d].size
  BY <1>1, WeightType
<1>3. ent[e].size \in 0..(Word - 1) /\ Word \in Nat
  BY <1>1, BaseCacheAssumption DEF Entry
<1>4. mem >= Stored
  <2>1. Stored \in Int
    BY <1>1, <1>2, Weights DEF Stored
  <2> QED BY <1>1, <1>3, <2>1 DEF MemInv, MemCovers
<1>5. /\ Stored = ent[e].size + SumFunctionOnSet(Weight, ll.on \ {e})
      /\ SumFunctionOnSet(Weight, ll.on \ {e}) \in 0..room /\ room \in Nat
  <2>1. ll.on \ {e} \in SUBSET Elem /\ e \in Elem
    BY <1>1
  <2> QED BY <1>1, <1>2, <2>1, Weights DEF Stored, Room
<1>6. ent[e].size <= mem
  BY <1>1, <1>3, <1>4, <1>5
<1>7. Minus(mem, ent[e].size) = mem - ent[e].size
  BY <1>1, <1>3, <1>6, WordExact
<1> QED BY <1>1, <1>3, <1>6, <1>7

(* The element before the back becomes the back. *)
LEMMA NextBack ==
    ASSUME Safe, HasOrder, ll.len > 0, ll' = Remove(ll, Back(ll))
    PROVE  PrevOf(ll, Back(ll)) \in {Nil, Back(ll')}
PROOF
<1>1. GoodList(ll) /\ ll.len \in Nat
  BY AtIs DEF Safe, HasOrder, IsOrder
<1>2. PICK s : IsOrder(ll, s)
  BY DEF HasOrder
<1> DEFINE len == Len(s)
           t == Lru!RemoveAt(s, len)
<1>3. len \in 1..len /\ Back(ll) = s[len] /\ len = ll.len /\ Arranged(s)
  BY <1>1, <1>2, BackOrder DEF IsOrder
<1>4. CASE ll.len = 1
  BY <1>1, <1>2, <1>3, <1>4, PrevOrder
<1>5. CASE ll.len > 1
  <2>1. len - 1 \in 1..len /\ PrevOf(ll, s[len]) = s[len - 1]
    BY <1>1, <1>2, <1>5, PrevOrder
  <2>2. IsOrder(Remove(ll, s[len]), t)
    BY <1>1, <1>2, <1>3, RemoveOrder
  <2>3. Len(t) = len - 1 /\ \A i \in 0..len - 1 : At(t, i) = At(s, i)
    BY <1>3, TakenOut
  <2>4. Remove(ll, s[len]).prev[Root] = At(t, Len(t))
    <3>1. s[len] \in Elem
      BY <1>3, AtIs
    <3>2. GoodList(Remove(ll, s[len]))
      BY <1>1, <3>1, RemoveGood
    <3> QED BY <2>2, <3>2, OrderFacts
  <2>5. Remove(ll, s[len]).len = ll.len - 1
    BY <1>3, <2>2, <2>3 DEF IsOrder
  <2> HIDE DEF t
  <2>6. At(t, Len(t)) = s[len - 1]
    <3>1. len - 1 \in 0..len - 1
      BY <1>3
    <3> QED BY <2>1, <2>3, <3>1 DEF At
  <2>7. Back(ll') = s[len - 1]
    BY <1>1, <1>3, <1>5, <2>4, <2>5, <2>6 DEF Back
  <2> QED BY <1>3, <2>1, <2>7
<1>6. ll.len = 1 \/ ll.len > 1
  BY <1>1
<1> QED BY <1>4, <1>5, <1>6

(* The walk of maybeCleanup: as long as the usage is above the limit it drops
   the back of the list, and it drops other elements only when they expired. *)
LEMMA WalkOrder ==
    ASSUME NEW room, Room(room), MemInv(room), HasOrder, NEW p \in Proc, PlaceOK(p),
           CleanupWalk(p)
    PROVE  Change(p) /\ PlaceOK(p)'
PROOF
<1> USE DEF MemInv, Safe
<1>1. pc \in [Proc -> Place] /\ loc \in [Proc -> Frame] /\ mem \in Nat /\ max \in Nat
  BY BaseCacheAssumption DEF TypeInv, TypeOK
<1> DEFINE e == loc[p].elem
<1>2. /\ pc[p] = "walk" /\ max' = max /\ max > 0
      /\ e \in ll.on \cup {Nil} /\ (e # Nil => e \in Elem)
      /\ e \in {Nil, Back(ll)} \/ mem <= max
  BY <1>1 DEF CleanupWalk, WalkOn, TypeInv, TypeOK, ListType, PlaceOK
<1>3. \/ CleanupDone(p)
      \/ /\ e # Nil /\ Drop(e) /\ pc' = pc /\ (Expired(e) \/ mem > max)
         /\ loc' = [loc EXCEPT ![p] = [@ EXCEPT !.elem = PrevOf(ll, e),
                                               !.removed = loc[p].removed + 1]]
      \/ /\ e # Nil /\ ~(mem > max)
         /\ loc' = [loc EXCEPT ![p].elem = PrevOf(ll, e)]
         /\ UNCHANGED <<cache, ll, mem, pc>>
  BY <1>2, GoListAssumption DEF CleanupWalk
<1>4. Step(p)
  BY CleanupStep
<1>5. CASE CleanupDone(p)
  <2> DEFINE f == [loc[p] EXCEPT !.elem = Nil, !.quota = 0, !.removed = 0]
  <2>1. /\ loc' = [loc EXCEPT ![p] = f] /\ pc'[p] = "relock" /\ UNCHANGED <<cache, ll>>
    BY <1>1, <1>5 DEF CleanupDone, Goto
  <2>2. f.arg = loc[p].arg
    BY <1>1 DEF Frame
  <2> HIDE DEF f
  <2>3. loc'[p].arg = loc[p].arg
    BY <1>1, <2>1, <2>2
  <2>4. cache'[ent'[loc'[p].arg].key] = Nil
    BY <1>2, <1>4, <2>3, KeyStillFree DEF Storing
  <2> QED BY <2>1, <2>4 DEF Change, PlaceOK
<1>6. CASE /\ e # Nil /\ Drop(e) /\ pc' = pc /\ (Expired(e) \/ mem > max)
           /\ loc' = [loc EXCEPT ![p] = [@ EXCEPT !.elem = PrevOf(ll, e),
                                                 !.removed = loc[p].removed + 1]]
  <2>1. loc'[p].arg = loc[p].arg /\ loc'[p].elem = PrevOf(ll, e)
    BY <1>1, <1>6 DEF Frame
  <2>2. cache'[ent'[loc'[p].arg].key] = Nil
    BY <1>2, <1>4, <2>1, KeyStillFree DEF Storing
  <2>3. e \in ll.on /\ Drop(e)
    BY <1>2, <1>6
  <2>4. mem' \in Nat /\ mem' <= mem
    BY <2>3, DropShrinks DEF Drop
  <2>5. mem > max => e = Back(ll)
    BY <1>1, <1>2, <1>6
  <2>6. Reason(e)
    BY <1>2, <1>6, <2>5 DEF Reason, Pressed
  <2>7. PrevOf(ll, e) \in {Nil, Back(ll')} \/ mem' <= max'
    <3>1. CASE mem > max
      <4>1. ll.len > 0 /\ ll' = Remove(ll, Back(ll))
        <5>1. ll.len \in Nat /\ ll.len # 0
          <6>1. PICK s : IsOrder(ll, s)
            BY DEF HasOrder
          <6>2. Len(s) \in Nat /\ Len(s) = ll.len
            BY <6>1, AtIs DEF IsOrder
          <6> QED BY <1>6, <2>5, <3>1, <6>2 DEF Back
        <5> QED BY <2>3, <2>5, <3>1, <5>1 DEF Drop
      <4> QED BY <2>5, <3>1, <4>1, NextBack
    <3>2. CASE ~(mem > max)
      BY <1>1, <1>2, <2>4, <3>2
    <3> QED BY <3>1, <3>2
  <2>8. Change(p)
    BY <2>3, <2>6, DropChange
  <2> QED BY <1>2, <1>6, <2>1, <2>2, <2>7, <2>8 DEF PlaceOK
<1>7. CASE /\ e # Nil /\ ~(mem > max)
           /\ loc' = [loc EXCEPT ![p].elem = PrevOf(ll, e)]
           /\ UNCHANGED <<cache, ll, mem, pc>>
  <2>1. loc'[p].arg = loc[p].arg
    BY <1>1, <1>7 DEF Frame
  <2>2. cache'[ent'[loc'[p].arg].key] = Nil
    BY <1>2, <1>4, <2>1, KeyStillFree DEF Storing
  <2>3. mem' <= max'
    BY <1>1, <1>2, <1>7
  <2> QED BY <1>2, <1>7, <2>2, <2>3 DEF Change, PlaceOK
<1> QED BY <1>3, <1>5, <1>6, <1>7

(* setWithTTL drops the key's previous entry because the key is wanted. *)
LEMMA StoreOrder ==
    ASSUME Safe, NEW p \in Proc, PlaceOK(p), Store(p)
    PROVE  Change(p) /\ PlaceOK(p)'
PROOF
<1> USE DEF Safe
<1>1. pc \in [Proc -> Place] /\ loc \in [Proc -> Frame]
  BY DEF TypeInv, TypeOK
<1>2. PICK e \in loc[p].todo :
       LET old == cache[ent[e].key]
           kept == IF old = Nil THEN mem ELSE Minus(mem, ent[old].size)
       IN  IF max > 0 /\ ent[e].size > max
           THEN /\ loc' = [loc EXCEPT ![p].todo = @ \ {e}]
                /\ UNCHANGED <<mu, cache, ll, mem, pc>>
           ELSE /\ loc' = [loc EXCEPT ![p] = [@ EXCEPT !.todo = loc[p].todo \ {e}, !.arg = e]]
                /\ IF old = Nil THEN UNCHANGED <<cache, ll, mem>> ELSE Drop(old)
                /\ IF Over(kept, ent[e].size)
                   THEN mu' = NoOwner /\ Goto(p, "check")
                   ELSE UNCHANGED mu /\ Goto(p, "evict")
  BY DEF Store
<1>3. e \in Elem /\ pc[p] = "next" /\ ent' = ent
  BY <1>1 DEF Frame, Store
<1>4. CASE max > 0 /\ ent[e].size > max
  <2>1. UNCHANGED <<cache, ll, pc>>
    BY <1>2, <1>4
  <2>2. pc'[p] \in Plain
    BY <1>3, <2>1 DEF Plain, Place, Storing
  <2> QED BY <2>1, <2>2, PlainOK DEF Change
<1>5. CASE ~(max > 0 /\ ent[e].size > max)
  <2> DEFINE f == [loc[p] EXCEPT !.todo = loc[p].todo \ {e}, !.arg = e]
             old == cache[ent[e].key]
             over == Over(IF old = Nil THEN mem ELSE Minus(mem, ent[old].size),
                          ent[e].size)
  <2>1. /\ loc' = [loc EXCEPT ![p] = f]
        /\ IF old = Nil THEN UNCHANGED <<cache, ll, mem>> ELSE Drop(old)
        /\ IF over THEN mu' = NoOwner /\ Goto(p, "check")
                   ELSE UNCHANGED mu /\ Goto(p, "evict")
    BY <1>2, <1>5
  <2>2. f.arg = e
    BY <1>1 DEF Frame
  <2>3. ent[e].key \in Key /\ cache \in [Key -> Elem \cup {Nil}]
    BY <1>3 DEF TypeInv, TypeOK, Entry
  <2>4. old # Nil => old \in ll.on /\ ent[old].key = ent[e].key
    BY <2>3 DEF MapInRing
  <2>5. ent[e].key \in Wanted
    <3>1. ent[e].key \in {ent[d].key : d \in loc[p].todo \cup ({loc[p].arg} \ {Nil})}
      OBVIOUS
    <3> QED BY <3>1 DEF Wanted
  <2> HIDE DEF f, old, over
  <2>6. Change(p)
    <3>1. CASE old = Nil
      BY <2>1, <3>1 DEF Change
    <3>2. CASE old # Nil
      BY <2>1, <2>4, <2>5, <3>2, DropChange DEF Reason
    <3> QED BY <3>1, <3>2
  <2>7. cache'[ent[e].key] = Nil
    BY <2>1, <2>3, <2>4 DEF Drop, old
  <2>8. loc'[p].arg = e /\ pc'[p] \in {"check", "evict"}
    BY <1>1, <2>1, <2>2 DEF Goto
  <2>9. PlaceOK(p)'
    BY <1>3, <2>7, <2>8 DEF PlaceOK
  <2> QED BY <2>6, <2>9
<1> QED BY <1>4, <1>5

(* The oldest element goes because a limit presses. *)
LEMMA EvictOrder ==
    ASSUME Safe, NEW p \in Proc, PlaceOK(p), Evict(p) \/ Trim(p) \/ Shrink(p)
    PROVE  Change(p) /\ PlaceOK(p)'
PROOF
<1> USE DEF Safe
<1>1. pc \in [Proc -> Place]
  BY DEF TypeInv, TypeOK
<1>2. ASSUME Drop(Back(ll)), ll.len > 0, Pressed PROVE Change(p)
  BY <1>2, OldestIsOn, DropChange DEF Reason
<1>3. CASE Evict(p)
  <2>1. pc[p] = "evict" /\ pc'[p] = "push" /\ loc' = loc
    BY <1>1, <1>3, OldestIsOn DEF Evict, Goto
  <2>2. cache'[ent'[loc'[p].arg].key] = Nil
    BY <2>1, StoringStep, KeyStillFree, <1>3 DEF Storing
  <2>3. PlaceOK(p)'
    BY <2>1, <2>2 DEF PlaceOK
  <2>4. CASE Over(mem, ent[loc[p].arg].size) /\ ll.len > 0
    <3>1. Drop(Back(ll)) /\ Pressed
      BY <1>3, <2>1, <2>4, OldestIsOn DEF Evict, Pressed
    <3> QED BY <1>2, <2>3, <2>4, <3>1
  <2>5. CASE ~(Over(mem, ent[loc[p].arg].size) /\ ll.len > 0)
    BY <1>3, <2>3, <2>5 DEF Evict, Change
  <2> QED BY <2>4, <2>5
<1>4. CASE Trim(p)
  <2>1. pc'[p] \in Plain
    BY <1>1, <1>4, OldestIsOn, BaseCacheAssumption
    DEF Trim, Goto, Plain, Place, Storing, GoodList, ListType
  <2>2. CASE MaxSize > 0 /\ ll.len > MaxSize
    <3>1. ll.len > 0
      BY <2>2, BaseCacheAssumption DEF GoodList, ListType
    <3>2. Drop(Back(ll)) /\ Pressed
      BY <1>4, <2>2, <3>1, OldestIsOn DEF Trim, Pressed
    <3> QED BY <1>2, <2>1, <3>1, <3>2, PlainOK
  <2>3. CASE ~(MaxSize > 0 /\ ll.len > MaxSize)
    BY <1>4, <2>1, <2>3, PlainOK DEF Trim, Change
  <2> QED BY <2>2, <2>3
<1>5. CASE Shrink(p)
  <2>1. pc'[p] \in Plain
    BY <1>1, <1>5, OldestIsOn DEF Shrink, Return, Goto, Plain, Place, Storing
  <2>2. CASE max > 0 /\ mem > max /\ ll.len > 0
    <3>1. Drop(Back(ll)) /\ Pressed
      BY <1>5, <2>2, OldestIsOn DEF Shrink, Pressed
    <3> QED BY <1>2, <2>1, <2>2, <3>1, PlainOK
  <2>3. CASE ~(max > 0 /\ mem > max /\ ll.len > 0)
    BY <1>5, <2>1, <2>3, PlainOK DEF Shrink, Change
  <2> QED BY <2>2, <2>3
<1> QED BY <1>3, <1>4, <1>5

LEMMA RunningOrder ==
    ASSUME NEW room, Room(room), MemInv(room), HasOrder, NEW p \in Proc, PlaceOK(p),
           Running(p)
    PROVE  Change(p) /\ PlaceOK(p)'
PROOF
<1> USE DEF MemInv, Safe
<1>1. pc \in [Proc -> Place] /\ loc \in [Proc -> Frame]
  BY DEF TypeInv, TypeOK
<1>2. CASE Store(p)
  BY <1>2, StoreOrder
<1>3. CASE Evict(p) \/ Trim(p) \/ Shrink(p)
  BY <1>3, EvictOrder
<1>4. CASE CleanupWalk(p)
  BY <1>4, WalkOrder
<1>5. CASE CleanupCheck(p)
  <2>1. /\ pc[p] = "check" /\ UNCHANGED <<cache, ll, loc, max>>
        /\ pc'[p] = "relock" \/ (pc'[p] = "cleanup" /\ max # 0)
    BY <1>1, <1>5 DEF CleanupCheck, Goto
  <2>2. cache'[ent'[loc'[p].arg].key] = Nil
    BY <1>5, <2>1, CleanupStep, KeyStillFree DEF Storing
  <2>3. max \in Nat
    BY BaseCacheAssumption DEF TypeInv, TypeOK
  <2> QED BY <2>1, <2>2, <2>3 DEF Change, PlaceOK
<1>6. CASE Push(p)
  <2>1. pc'[p] \in Plain
    BY <1>1, <1>6 DEF Push, Goto, Plain, Place, Storing
  <2> QED BY <1>6, <2>1, PlainOK DEF Push, Change
<1>7. CASE Unlock(p) \/ FnReturn(p)
  <2>1. pc'[p] \in Plain
    BY <1>1, <1>7 DEF Unlock, Return, FnReturn, Goto, Plain, Place, Storing
  <2> QED BY <1>7, <2>1, PlainOK DEF Unlock, FnReturn, Change
<1>8. CASE GetItem(p)
  <2>1. UNCHANGED <<cache, ll, ent, loc>>
    BY <1>8 DEF GetItem
  <2>2. (pc'[p] = "drop" /\ Expired(loc[p].elem)) \/ pc'[p] \in Plain
    BY <1>1, <1>8 DEF GetItem, Goto, Plain, Place, Storing
  <2>3. PlaceOK(p)'
    BY <2>1, <2>2, PlainOK DEF PlaceOK, Expired, Storing
  <2> QED BY <2>1, <2>3 DEF Change
<1>9. CASE DelKey(p)
  <2>1. PICK k \in loc[p].keys :
         /\ loc' = [loc EXCEPT ![p].keys = @ \ {k}]
         /\ IF cache[k] = Nil THEN UNCHANGED <<cache, ll>>
            ELSE cache' = [cache EXCEPT ![k] = Nil] /\ ll' = Remove(ll, cache[k])
    BY <1>9 DEF DelKey
  <2>2. pc'[p] \in Plain /\ k \in Key
    BY <1>1, <1>9 DEF DelKey, Plain, Place, Storing, Frame
  <2>3. CASE cache[k] = Nil
    BY <2>1, <2>2, <2>3, PlainOK DEF Change
  <2>4. CASE cache[k] # Nil
    <3>1. cache[k] \in ll.on /\ ent[cache[k]].key = k
      BY <2>2, <2>4 DEF MapInRing
    <3>2. Discarded(cache[k])
      BY <2>1, <2>4, <3>1 DEF Discarded
    <3>3. k \in Wanted
      BY DEF Wanted
    <3> QED BY <2>2, <3>1, <3>2, <3>3, PlainOK DEF Change, Reason
  <2> QED BY <2>3, <2>4
<1> QED
  BY <1>2, <1>3, <1>4, <1>5, <1>6, <1>7, <1>8, <1>9 DEF Running

-----------------------------------------------------------------------------
LEMMA LruInit ==
    ASSUME Init
    PROVE  Lru!Init /\ HasOrder
PROOF
<1>1. IsOrder(ll, <<>>)
  BY EmptyOrder DEF Init
<1>2. RingSeq = <<>> /\ Ring = {}
  <2>1. ll.on = {}
    BY DEF Init, EmptyList
  <2> QED BY <1>1, <2>1, RingIs
<1>3. Wanted = {}
  <2>1. \A p \in Proc : loc[p].todo = {} /\ loc[p].keys = {} /\ {loc[p].arg} \ {Nil} = {}
    BY DEF Init, NoFrame
  <2> QED BY <2>1 DEF Wanted
<1>4. Pressed \in BOOLEAN
  BY DEF Pressed
<1>5. [e \in Ring |-> ent[e].key] = <<>>
  <2>1. \A f : f = [e \in {} |-> ent[e].key] => f = <<>>
    <3> SUFFICES ASSUME NEW f, f = [e \in {} |-> ent[e].key] PROVE f = <<>>
      OBVIOUS
    <3>1. f \in [1..0 -> {}]
      BY 1..0 = {}
    <3>2. f \in Seq({}) /\ Len(f) = 0
      BY <3>1, IsASeq
    <3> QED BY <3>2, EmptySeq
  <2> QED BY <1>2, <2>1
<1>6. {e \in Ring : Expired(e)} = {}
  BY <1>2
<1>7. Lru!Init
  BY <1>2, <1>3, <1>4, <1>5, <1>6 DEF Lru!Init
<1> QED BY <1>1, <1>7 DEF HasOrder

LEMMA OrderInit ==
    ASSUME NEW room, Room(room), Init,
           Alone \/ ("limit" \notin Ops /\ InitLimit = {0})
    PROVE  OrderInv(room)
PROOF
<1>1. MemInv(room) /\ HasOrder
  BY MemInit, LruInit
<1>2. Quiet
  BY DEF Quiet, Init, Unlimited
<1>3. ll.on = {} /\ \A p \in Proc : pc[p] = "idle"
  BY DEF Init, EmptyList
<1> QED BY <1>1, <1>2, <1>3 DEF OrderInv, OneEach, PlaceOK, Storing

LEMMA OrderNext ==
    ASSUME NEW room, Room(room), "clear" \notin Ops, OrderInv(room), [Next]_vars
    PROVE  OrderInv(room)' /\ [Lru!Next]_(Lru!vars)
PROOF
<1> USE DEF OrderInv
<1>1. MemInv(room)'
  BY MemNext
<1>2. ASSUME NEW p \in Proc, Call(p) \/ Locking(p) \/ Running(p)
      PROVE  OrderInv(room)' /\ Lru!Next
  <2>1. Step(p) /\ MemStep(p)
    BY <1>2, CallStep, LockingStep, RunningStep, CallMem, LockingMem, RunningMem DEF MemInv
  <2>2. Change(p) /\ PlaceOK(p)'
    BY <1>2, CallOrder, LockingOrder, RunningOrder DEF MemInv
  <2> QED BY <1>1, <2>1, <2>2, OrderKeeps
<1>3. CASE \E e \in Elem : Expire(e)
  <2>1. PICK e \in Elem : Expire(e)
    BY <1>3
  <2>2. UNCHANGED <<mu, cache, ll, max, mem, pc, loc>>
    BY <2>1 DEF Expire
  <2>3. \A d \in Elem : ent'[d].key = ent[d].key /\ (Expired(d) => Expired(d)')
    BY <2>1 DEF Expire, Expired, MemInv, Safe, TypeInv, TypeOK, Entry
  <2>4. ll.on \subseteq Elem /\ \A p \in Proc :
          /\ pc[p] \in Storing => loc[p].arg \in Elem
          /\ pc[p] = "drop" => loc[p].elem \in Elem
    BY DEF MemInv, Safe, TypeInv, TypeOK, ListType, FrameOK, Storing
  <2>5. OneEach' /\ HasOrder' /\ Quiet'
    BY <2>2, <2>3, <2>4 DEF OneEach, HasOrder, Quiet, Alone, Unlimited
  <2>6. \A p \in Proc : PlaceOK(p)'
    BY <2>2, <2>3, <2>4 DEF PlaceOK, Expired
  <2>7. Lru!Next
    <3>1. \A s : IsOrder(ll, s) => Reorders(s)
      BY <2>2 DEF Reorders, Moves
    <3>2. EntriesStay
      BY <2>3 DEF EntriesStay
    <3> QED BY <1>1, <3>1, <3>2, ReordersIsNext DEF MemInv
  <2> QED BY <1>1, <2>5, <2>6, <2>7
<1>4. CASE UNCHANGED vars
  <2>1. UNCHANGED <<mu, cache, ll, ent, max, mem, pc, loc>>
    BY <1>4 DEF vars
  <2>2. OrderInv(room)'
    BY <1>1, <2>1 DEF OneEach, HasOrder, Quiet, Alone, Unlimited, PlaceOK, Expired
  <2>3. UNCHANGED <<RingSeq, Ring, Wanted, Pressed>>
    BY <2>1 DEF RingSeq, Ring, Wanted, Pressed, Over
  <2>4. UNCHANGED Lru!vars
    BY <2>1, <2>3 DEF Lru!vars, Expired
  <2> QED BY <2>2, <2>4
<1> QED BY <1>2, <1>3, <1>4 DEF Next

(* BaseCache is an LRU cache: as long as nobody clears it, an entry leaves only
   because its key is wanted or it expired, or as the oldest while a limit
   presses.  This is proved for one goroutine with any limits, and for any
   number of them without a memory limit: with both, setWithTTL lets go of mu
   between the look at the previous entry and the push (lines 156-160), and two
   entries of one key may end up on the list. *)
THEOREM LruCorrect ==
    ASSUME "clear" \notin Ops,
           (\E p \in Proc : Proc = {p}) \/ ("limit" \notin Ops /\ InitLimit = {0}),
           NEW Largest \in Nat, \A s \in Size : s <= Largest,
           MemBound + Largest * Cardinality(Elem) < Word
    PROVE  Spec => LruSpec
PROOF
<1> DEFINE room == Largest * Cardinality(Elem)
<1>1. Room(room)
  BY RoomIs
<1> HIDE DEF room
<1>2. Init => OrderInv(room) /\ Lru!Init
  BY <1>1, OrderInit, LruInit DEF Alone
<1>3. OrderInv(room) /\ [Next]_vars => OrderInv(room)' /\ [Lru!Next]_(Lru!vars)
  BY <1>1, OrderNext
<1> QED BY <1>2, <1>3, PTL DEF Spec, LruSpec, Lru!Spec
=============================================================================
