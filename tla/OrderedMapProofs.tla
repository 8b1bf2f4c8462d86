-------------------------- MODULE OrderedMapProofs --------------------------
(***************************************************************************)
(* What holds of the ordered map for any number of goroutines, keys and    *)
(* values: slice and Go map hold the same keys, walks see one moment, the  *)
(* reverse index is disturbed by Del and the sorts only, and the map is an *)
(* ordered dictionary.                                                     *)
(***************************************************************************)
EXTENDS OrderedMap, SequenceTheorems, FiniteSetTheorems, WellFoundedInduction, TLAPS

-----------------------------------------------------------------------------
(* Sequences.  The least number of a set is one of its numbers. *)
LEMMA MinOfSet ==
    ASSUME NEW S \in SUBSET Nat, S # {}
    PROVE  Min(S) \in S /\ \A y \in S : Min(S) <= y
<1>1. \E x \in S : \A y \in S : ~ (<<y, x>> \in OpToRel(<, Nat))
  BY NatLessThanWellFounded, WFMin
<1>2. ASSUME NEW x \in Nat, NEW y \in Nat, y < x
      PROVE  <<y, x>> \in OpToRel(<, Nat)
  BY <1>2, SMT DEF OpToRel
<1>3. PICK x \in S : \A y \in S : ~ (<<y, x>> \in OpToRel(<, Nat))
  BY <1>1
<1>4. \A y \in S : ~(y < x)
  BY <1>2, <1>3
<1>5. \A y \in S : x <= y
  BY <1>4
<1> QED BY <1>5 DEF Min

(* The first place of a value, or 0: what SelectInSeq finds. *)
First(s, v) ==
    LET I == {i \in 1..Len(s) : s[i] = v} IN IF I # {} THEN Min(I) ELSE 0

LEMMA FirstPlace ==
    ASSUME NEW T, NEW s \in Seq(T), NEW v
    PROVE  /\ First(s, v) \in 0..Len(s)
           /\ First(s, v) = 0 <=> \A j \in 1..Len(s) : s[j] # v
           /\ First(s, v) # 0 => s[First(s, v)] = v
<1> DEFINE I == {i \in 1..Len(s) : s[i] = v}
<1>1. First(s, v) = IF I # {} THEN Min(I) ELSE 0
  BY DEF First
<1>2. I \in SUBSET Nat /\ I \subseteq 1..Len(s)
  OBVIOUS
<1>3. I # {} => Min(I) \in I
  BY <1>2, MinOfSet
<1> QED BY <1>1, <1>2, <1>3

LEMMA RemoveAtSeq ==
    ASSUME NEW T, NEW s \in Seq(T), NEW i \in 1..Len(s)
    PROVE  /\ RemoveAt(s, i) \in Seq(T)
           /\ Len(RemoveAt(s, i)) = Len(s) - 1
           /\ \A j \in 1..Len(s) - 1 : RemoveAt(s, i)[j] = IF j < i THEN s[j] ELSE s[j + 1]
<1> DEFINE a == SubSeq(s, 1, i - 1)
           b == SubSeq(s, i + 1, Len(s))
<1>1. /\ a \in Seq(T) /\ Len(a) = i - 1
      /\ \A j \in 1..i - 1 : a[j] = s[j]
  BY SubSeqProperties
<1>2. /\ b \in Seq(T) /\ Len(b) = Len(s) - i
      /\ \A j \in 1..Len(s) - i : b[j] = s[i + j]
  BY SubSeqProperties
<1>3. /\ a \o b \in Seq(T) /\ Len(a \o b) = Len(a) + Len(b)
      /\ \A j \in 1..Len(a) + Len(b) : (a \o b)[j] = IF j <= Len(a) THEN a[j] ELSE b[j - Len(a)]
  <2> HIDE DEF a, b
  <2> QED BY <1>1, <1>2, ConcatProperties
<1>4. RemoveAt(s, i) = a \o b
  BY DEF RemoveAt
<1> HIDE DEF a, b
<1>5. Len(s) \in Nat /\ Len(a) + Len(b) = Len(s) - 1
  BY <1>1, <1>2
<1>6. ASSUME NEW j \in 1..Len(s) - 1
      PROVE  (a \o b)[j] = IF j < i THEN s[j] ELSE s[j + 1]
  <2>1. CASE j < i
    <3>1. j \in 1..i - 1
      BY <2>1, <1>5
    <3> QED BY <1>1, <1>3, <1>5, <2>1, <3>1
  <2>2. CASE j >= i
    <3> DEFINE k == j + 1 - i
    <3>1. k \in 1..Len(s) - i /\ j - Len(a) = k /\ ~(j <= Len(a)) /\ ~(j < i) /\ i + k = j + 1
      BY <1>1, <1>5, <2>2
    <3> HIDE DEF k
    <3>2. b[j - Len(a)] = s[j + 1]
      BY <1>2, <3>1
    <3>3. (a \o b)[j] = b[j - Len(a)]
      BY <1>3, <1>5, <3>1
    <3> QED BY <3>1, <3>2, <3>3
  <2> QED BY <1>5, <2>1, <2>2
<1> QED BY <1>3, <1>4, <1>5, <1>6

(* Without one of its elements a sequence of distinct ones is still distinct,
   and holds the others. *)
LEMMA RemoveAtInjective ==
    ASSUME NEW T, NEW s \in Seq(T), NEW i \in 1..Len(s), IsInjective(s)
    PROVE  IsInjective(RemoveAt(s, i)) /\ Range(RemoveAt(s, i)) = Range(s) \ {s[i]}
<1> DEFINE r == RemoveAt(s, i)
<1>1. /\ r \in Seq(T) /\ Len(r) = Len(s) - 1
      /\ \A j \in 1..Len(s) - 1 : r[j] = IF j < i THEN s[j] ELSE s[j + 1]
  BY RemoveAtSeq
<1> HIDE DEF r
<1>2. DOMAIN r = 1..Len(s) - 1 /\ DOMAIN s = 1..Len(s)
  BY <1>1
<1>3. IsInjective(r)
  <2> DEFINE old(j) == IF j < i THEN j ELSE j + 1
  <2>1. \A j \in 1..Len(s) - 1 : old(j) \in 1..Len(s) /\ r[j] = s[old(j)]
    BY <1>1
  <2>2. \A j, k \in 1..Len(s) - 1 : old(j) = old(k) => j = k
    OBVIOUS
  <2> HIDE DEF old
  <2>3. \A j, k \in 1..Len(s) - 1 : r[j] = r[k] => j = k
    BY <1>2, <2>1, <2>2 DEF IsInjective
  <2> QED BY <1>2, <2>3 DEF IsInjective
<1>4. ASSUME NEW x \in Range(r) PROVE x \in Range(s) \ {s[i]}
  BY <1>1, <1>2, <1>4 DEF Range, IsInjective
<1>5. ASSUME NEW x \in Range(s) \ {s[i]} PROVE x \in Range(r)
  <2>1. PICK j \in 1..Len(s) : s[j] = x
    BY <1>2, <1>5 DEF Range
  <2>2. CASE j < i
    BY <1>1, <1>2, <2>1, <2>2 DEF Range
  <2>3. CASE j > i
    <3>1. j - 1 \in 1..Len(s) - 1 /\ r[j - 1] = s[j]
      BY <1>1, <2>1, <2>3
    <3> QED BY <1>2, <2>1, <3>1 DEF Range
  <2> QED BY <1>5, <2>1, <2>2, <2>3
<1> QED BY <1>3, <1>4, <1>5 DEF r

(* The first occurrence is the only one. *)
LEMMA RemoveFirstIs ==
    ASSUME NEW T, NEW s \in Seq(T), NEW v
    PROVE  \/ v \notin Range(s) /\ ~Contains(s, v) /\ RemoveFirst(s, v) = s
           \/ /\ Contains(s, v)
              /\ \E i \in 1..Len(s) : s[i] = v /\ RemoveFirst(s, v) = RemoveAt(s, i)
<1>1. RemoveFirst(s, v) = IF \E j \in 1..Len(s) : s[j] = v THEN RemoveAt(s, First(s, v)) ELSE s
  BY DEF RemoveFirst, SelectInSeq, First
<1>2. CASE \E j \in 1..Len(s) : s[j] = v
  BY <1>1, <1>2, FirstPlace DEF Contains
<1>3. CASE ~\E j \in 1..Len(s) : s[j] = v
  BY <1>1, <1>3 DEF Contains, Range
<1> QED BY <1>2, <1>3

(* A new element at the end keeps the elements distinct. *)
LEMMA AppendNew ==
    ASSUME NEW T, NEW s \in Seq(T), NEW x \in T, IsInjective(s), x \notin Range(s)
    PROVE  IsInjective(Append(s, x)) /\ Range(Append(s, x)) = Range(s) \cup {x}
<1> DEFINE r == Append(s, x)
<1>1. /\ r \in Seq(T) /\ Len(r) = Len(s) + 1
      /\ \A i \in 1..Len(s) : r[i] = s[i]
      /\ r[Len(s) + 1] = x
  BY AppendProperties
<1> HIDE DEF r
<1>2. DOMAIN r = 1..Len(s) + 1 /\ DOMAIN s = 1..Len(s)
  BY <1>1
<1>3. \A i \in 1..Len(s) : s[i] # x
  BY <1>2 DEF Range
<1>4. IsInjective(r)
  BY <1>1, <1>2, <1>3 DEF IsInjective
<1>5. Range(r) = Range(s) \cup {x}
  BY <1>1, <1>2 DEF Range
<1> QED BY <1>4, <1>5 DEF r

(* A prefix holds the elements of the whole. *)
LEMMA PrefixMeans ==
    ASSUME NEW T, NEW s \in Seq(T), NEW t \in Seq(T)
    PROVE  IsPrefix(s, t) <=> Len(s) <= Len(t) /\ \A i \in 1..Len(s) : s[i] = t[i]
<1>1. SubSeq(s, 1, Len(s)) = s
  BY SubSeqFull
<1>2. ASSUME Len(s) <= Len(t)
      PROVE  /\ SubSeq(t, 1, Len(s)) \in Seq(T) /\ Len(SubSeq(t, 1, Len(s))) = Len(s)
             /\ \A i \in 1..Len(s) : SubSeq(t, 1, Len(s))[i] = t[i]
  BY <1>2, SubSeqProperties
<1>3. ASSUME Len(s) <= Len(t), \A i \in 1..Len(s) : s[i] = t[i]
      PROVE  s = SubSeq(t, 1, Len(s))
  BY <1>2, <1>3, SeqEqual
<1> QED BY <1>1, <1>2, <1>3 DEF IsPrefix

LEMMA EmptyPrefix == ASSUME NEW T, NEW t \in Seq(T) PROVE IsPrefix(<<>>, t)
<1>1. ASSUME NEW e \in Seq(T), Len(e) = 0 PROVE IsPrefix(e, t)
  <2>1. \A i \in 1..Len(e) : e[i] = t[i]
    BY <1>1
  <2>2. Len(e) <= Len(t)
    BY <1>1
  <2> QED BY <2>1, <2>2, PrefixMeans
<1>2. <<>> \in Seq(T) /\ Len(<<>>) = 0
  BY EmptySeq
<1> QED BY <1>1, <1>2

(* An order of distinct elements is one of distinct elements, and of the same. *)
LEMMA Permuted ==
    ASSUME NEW T, NEW s \in Seq(T), NEW f \in Bijection(DOMAIN s, DOMAIN s), IsInjective(s)
    PROVE  LET r == [i \in DOMAIN s |-> s[f[i]]]
           IN  r \in Seq(T) /\ Len(r) = Len(s) /\ IsInjective(r) /\ Range(r) = Range(s)
<1> DEFINE r == [i \in DOMAIN s |-> s[f[i]]]
<1>1. DOMAIN s = 1..Len(s) /\ Len(s) \in Nat
  OBVIOUS
<1>2. f \in [1..Len(s) -> 1..Len(s)] /\ IsInjective(f) /\ \A j \in 1..Len(s) : \E i \in 1..Len(s) : f[i] = j
  BY <1>1 DEF Bijection, Injection, Surjection
<1>3. r \in Seq(T) /\ Len(r) = Len(s) /\ DOMAIN r = 1..Len(s) /\ \A i \in 1..Len(s) : r[i] = s[f[i]]
  BY <1>1, <1>2
<1> HIDE DEF r
<1>4. IsInjective(r)
  BY <1>1, <1>2, <1>3 DEF IsInjective
<1>5. ASSUME NEW x \in Range(r) PROVE x \in Range(s)
  BY <1>1, <1>2, <1>3, <1>5 DEF Range
<1>6. ASSUME NEW x \in Range(s) PROVE x \in Range(r)
  <2>1. PICK j \in 1..Len(s) : x = s[j]
    BY <1>1, <1>6 DEF Range
  <2>2. PICK i \in 1..Len(s) : f[i] = j
    BY <1>2
  <2>3. r[i] = x
    BY <1>3, <2>1, <2>2
  <2> QED BY <1>3, <2>3 DEF Range
<1> QED BY <1>3, <1>4, <1>5, <1>6 DEF r

-----------------------------------------------------------------------------
(* Which call a goroutine is in, by its place. *)
Calls ==
    \A p \in Proc :
        /\ pc[p] \in {"idle", "panicked"} => loc[p] = NoCall
        /\ pc[p] \in {"rlock", "read"} => loc[p].op \in ReadOps
        /\ pc[p] = "rlock2" => loc[p].op = "fork"
        /\ pc[p] \in {"lock", "wait", "in"} => loc[p].op \in WriteOps
        /\ pc[p] = "item" => loc[p].op = "unmarshal"
        /\ loc[p].op = "set" => loc[p].key \in Key /\ loc[p].val \in Val
        /\ loc[p].op = "del" => loc[p].key \in Key
        /\ loc[p].seen # <<>> => pc[p] = "read" \/ (pc[p] = "in" /\ loc[p].op = "marshal")

(* Who holds the lock, and how often. *)
Locks ==
    \A p \in Proc :
        /\ rw.writer = p <=> pc[p] \in {"wait", "in", "item", "pos"}
        /\ rw.readers[p] = IF pc[p] = "read" THEN IF loc[p].op = "fork" THEN 2 ELSE 1
                           ELSE IF pc[p] = "rlock2" THEN 1 ELSE 0
        /\ pc[p] \in {"in", "item", "pos"} => \A q \in Proc : rw.readers[q] = 0

Inv == TypeOK /\ Calls /\ Locks /\ KeysMatch /\ WalkInOrder

Step(p) == CallReader(p) \/ CallWriter(p) \/ RLock(p) \/ Lock(p) \/ Running(p)

(* The entries are pairs of keys and values. *)
LEMMA PairsType ==
    ASSUME TypeOK, KeysMatch
    PROVE  Pairs \in Seq(Key \X Val) /\ Len(Pairs) = Len(keys) /\ DOMAIN keys = 1..Len(keys)
           /\ \A i \in 1..Len(keys) : Pairs[i] = <<keys[i], mp[keys[i]]>> /\ keys[i] \in Key /\ mp[keys[i]] \in Val
<1>1. keys \in Seq(Key) /\ DOMAIN keys = 1..Len(keys) /\ Len(keys) \in Nat
  BY DEF TypeOK
<1>2. ASSUME NEW i \in 1..Len(keys)
      PROVE  keys[i] \in Key /\ mp[keys[i]] \in Val
  BY <1>1, <1>2 DEF TypeOK, KeysMatch, Range
<1>3. Pairs = [i \in 1..Len(keys) |-> <<keys[i], mp[keys[i]]>>]
  BY <1>1 DEF Pairs
<1> QED BY <1>1, <1>2, <1>3

(* So are those of the next state. *)
LEMMA PairsNext == (TypeOK /\ KeysMatch)' => (Pairs \in Seq(Key \X Val) /\ Len(Pairs) = Len(keys)
                       /\ \A i \in 1..Len(keys) : Pairs[i] = <<keys[i], mp[keys[i]]>>)'
<1>1. TypeOK /\ KeysMatch => Pairs \in Seq(Key \X Val) /\ Len(Pairs) = Len(keys)
        /\ \A i \in 1..Len(keys) : Pairs[i] = <<keys[i], mp[keys[i]]>>
  BY PairsType
<1> QED BY <1>1, PTL

-----------------------------------------------------------------------------
(* A step keeps track of the calls. *)
LEMMA CallsStep ==
    ASSUME TypeOK, Calls, NEW p \in Proc, Step(p)
    PROVE  Calls'
<1> USE DEF Calls, TypeOK, Call, NoCall, Goto, Return, Panic, Reading, Writing, WaitForSelf, ReadOps, WriteOps
<1>1. CASE CallReader(p)
  BY <1>1 DEF CallReader, Begin, Args, Offered
<1>2. CASE CallWriter(p)
  BY <1>2 DEF CallWriter, Begin, Args, Offered
<1>3. CASE RLock(p)
  BY <1>3 DEF RLock
<1>4. CASE Lock(p)
  BY <1>4 DEF Lock
<1>5. CASE Acquire(p)
  BY <1>5 DEF Acquire
<1>6. CASE Look(p)
  BY <1>6 DEF Look
<1>7. CASE RGet(p)
  BY <1>7 DEF RGet
<1>8. CASE Walk(p)
  BY <1>8 DEF Walk
<1>9. CASE WalkEnd(p)
  BY <1>9 DEF WalkEnd
<1>10. CASE Set(p)
  BY <1>10 DEF Set
<1>11. CASE RSet(p)
  BY <1>11 DEF RSet
<1>12. CASE RDel(p)
  BY <1>12 DEF RDel
<1>13. CASE Del(p)
  BY <1>13 DEF Del
<1>14. CASE Clear(p)
  BY <1>14 DEF Clear
<1>15. CASE SortByKey(p)
  BY <1>15 DEF SortByKey
<1>16. CASE SortByValue(p)
  BY <1>16 DEF SortByValue
<1>17. CASE Unmarshal(p)
  BY <1>17 DEF Unmarshal
<1>18. CASE Item(p)
  BY <1>18 DEF Item
<1>19. CASE ItemsEnd(p)
  BY <1>19 DEF ItemsEnd
<1> QED BY <1>1, <1>2, <1>3, <1>4, <1>5, <1>6, <1>7, <1>8, <1>9, <1>10, <1>11, <1>12, <1>13, <1>14, <1>15, <1>16, <1>17, <1>18, <1>19 DEF Step, Running

(* A writer returns and gives up the lock. *)
LEMMA WriterLeaves ==
    ASSUME TypeOK, Locks, NEW p \in Proc, pc[p] \in {"in", "item"}, Unlock(p), Return(p) \/ Panic(p)
    PROVE  Locks'
BY RWMutexAssumption DEF Locks, TypeOK, RWType, Unlock, Unlocked, Return, Panic, Goto

(* A reader does. *)
LEMMA ReaderLeaves ==
    ASSUME TypeOK, Calls, Locks, NEW p \in Proc, pc[p] = "read", RUnlock(p), Return(p) \/ Panic(p)
    PROVE  Locks'
BY RWMutexAssumption
   DEF Calls, Locks, TypeOK, RWType, RUnlock, RUnlocked, Return, Panic, Goto

(* A writer asks for the lock it has. *)
LEMMA WriterStays ==
    ASSUME TypeOK, Locks, NEW p \in Proc, pc[p] \in {"in", "item"}, WaitForSelf(p)
    PROVE  Locks'
BY DEF Locks, TypeOK, RWType, WaitForSelf, Goto

(* A step keeps the lock's counts. *)
LEMMA LocksStep ==
    ASSUME TypeOK, Calls, Locks, NEW p \in Proc, Step(p)
    PROVE  Locks'
<1>1. CASE CallReader(p)
  BY <1>1, RWMutexAssumption DEF CallReader, Begin, Calls, Locks, TypeOK, RWType, Call, NoCall, Goto, ReadOps, WriteOps
<1>2. CASE CallWriter(p)
  BY <1>2, RWMutexAssumption DEF CallWriter, Begin, Calls, Locks, TypeOK, RWType, Call, NoCall, Goto, ReadOps, WriteOps
<1>3. CASE RLock(p)
  BY <1>3, RWMutexAssumption DEF RLock, RBlocked, RLocked, Calls, Locks, TypeOK, RWType, Call, NoCall, Goto, ReadOps, WriteOps
<1>4. CASE Lock(p)
  BY <1>4, RWMutexAssumption DEF Lock, WBlocked, Announced, Calls, Locks, TypeOK, RWType, Call, NoCall, Goto, ReadOps, WriteOps
<1>5. CASE Acquire(p)
  BY <1>5, RWMutexAssumption DEF Acquire, Drained, Calls, Locks, TypeOK, RWType, Call, NoCall, Goto, ReadOps, WriteOps
<1>6. CASE RGet(p) \/ Look(p) \/ (WalkEnd(p) /\ loc[p].op # "marshal")
  <2>1. pc[p] = "read" /\ RUnlock(p) /\ (Return(p) \/ Panic(p))
    BY <1>6 DEF RGet, Look, WalkEnd, Reading, Writing
  <2> QED BY <2>1, ReaderLeaves
<1>7. CASE Walk(p)
  BY <1>7 DEF Locks, TypeOK, Call, RWType, Walk
<1>8. CASE (WalkEnd(p) /\ loc[p].op = "marshal") \/ Del(p) \/ Clear(p) \/ SortByKey(p) \/ SortByValue(p)
             \/ ItemsEnd(p) \/ RDel(p)
  <2>1. pc[p] \in {"in", "item"} /\ Unlock(p) /\ (Return(p) \/ Panic(p))
    BY <1>8 DEF WalkEnd, Del, Clear, SortByKey, SortByValue, ItemsEnd, RDel, Reading, Writing, Calls, ReadOps
  <2> QED BY <2>1, WriterLeaves
<1>9. CASE Set(p) \/ RSet(p)
  <2>1. pc[p] = "in" /\ (WaitForSelf(p) \/ (Unlock(p) /\ Return(p)))
    BY <1>9 DEF Set, RSet, Writing
  <2> QED BY <2>1, WriterLeaves, WriterStays
<1>10. CASE Unmarshal(p)
  BY <1>10 DEF Locks, TypeOK, Call, RWType, Unmarshal, Writing, Goto
<1>11. CASE Item(p)
  <2>1. CASE WaitForSelf(p)
    BY <1>11, <2>1, WriterStays DEF Item
  <2>2. CASE ~WaitForSelf(p)
    BY <1>11, <2>2 DEF Locks, TypeOK, Call, RWType, Item
  <2> QED BY <2>1, <2>2
<1> QED BY <1>1, <1>2, <1>3, <1>4, <1>5, <1>6, <1>7, <1>8, <1>9, <1>10, <1>11 DEF Step, Running

-----------------------------------------------------------------------------
Same == UNCHANGED <<keys, mp>>
Removed(i) == i \in 1..Len(keys) /\ keys' = RemoveAt(keys, i) /\ mp' = [mp EXCEPT ![keys[i]] = Nil]
Wiped == keys' = <<>> /\ mp' = [k \in Key |-> Nil]
Reordered ==
    /\ \E f \in Bijection(DOMAIN keys, DOMAIN keys) : keys' = [i \in DOMAIN keys |-> keys[f[i]]]
    /\ UNCHANGED mp
Changed ==
    \/ \E k \in Key, v \in Val : Put(k, v)
    \/ \E i \in 1..Len(keys) : Removed(i)
    \/ Wiped
    \/ Reordered

(* What IndexOf finds. *)
LEMMA IndexIs ==
    ASSUME TypeOK, NEW v
    PROVE  /\ IndexOf(v) \in 0..Len(vals) /\ Len(vals) \in Nat
           /\ IndexOf(v) # 0 => vals[IndexOf(v)] = v
<1>1. IndexOf(v) = First(vals, v)
  BY DEF IndexOf, SelectInSeq, First
<1> QED BY <1>1, FirstPlace DEF TypeOK

(* A step leaves keys and Go map alone, or is one of a writer that changes them in
   one of five ways. *)
LEMMA DataStep ==
    ASSUME TypeOK, Calls, NEW p \in Proc, Step(p)
    PROVE  Same \/ (Changed /\ pc[p] \in {"in", "item"} /\ loc'[p].seen = <<>> /\ loc[p].op # "marshal")
<1>1. CASE \/ CallReader(p) \/ CallWriter(p) \/ RLock(p) \/ Lock(p) \/ Acquire(p) \/ Look(p) \/ RGet(p)
           \/ Walk(p) \/ WalkEnd(p) \/ RSet(p) \/ ItemsEnd(p)
  BY <1>1 DEF CallReader, CallWriter, Begin, RLock, Lock, Acquire, Look, RGet, Walk, WalkEnd, RSet, WaitForSelf,
              ItemsEnd, Same
<1>2. CASE Set(p)
  <2>1. CASE WaitForSelf(p)
    BY <2>1 DEF WaitForSelf, Same
  <2>2. CASE Put(loc[p].key, loc[p].val) /\ Return(p)
    <3>1. loc[p].key \in Key /\ loc[p].val \in Val /\ pc[p] = "in" /\ loc[p].op = "set"
      BY <1>2 DEF Set, Writing, Calls
    <3> QED BY <2>2, <3>1 DEF Changed, Return, NoCall, TypeOK
  <2> QED BY <1>2, <2>1, <2>2 DEF Set
<1>3. CASE RDel(p)
  <2>1. pc[p] = "in" /\ loc[p].op = "rdel" /\ IndexOf(loc[p].val) \in Nat
    BY <1>3, IndexIs DEF RDel, Writing
  <2> DEFINE i == IndexOf(loc[p].val)
  <2>2. CASE i \in 1..Len(keys) /\ Return(p) /\ Removed(i)
    BY <2>1, <2>2 DEF Changed, Return, NoCall, TypeOK
  <2>3. Same \/ (i \in 1..Len(keys) /\ Return(p) /\ Removed(i))
    BY <1>3 DEF RDel, Same, Removed
  <2> QED BY <2>2, <2>3
<1>4. CASE Del(p)
  <2>1. pc[p] = "in" /\ loc[p].op = "del" /\ loc[p].key \in Key /\ keys \in Seq(Key) /\ loc'[p].seen = <<>>
    BY <1>4 DEF Del, Writing, Calls, TypeOK, Return, NoCall
  <2>2. CASE ~Contains(keys, loc[p].key) /\ RemoveFirst(keys, loc[p].key) = keys
    BY <1>4, <2>2 DEF Del, Same
  <2>3. ASSUME Contains(keys, loc[p].key),
               NEW i \in 1..Len(keys), keys[i] = loc[p].key, RemoveFirst(keys, loc[p].key) = RemoveAt(keys, i)
        PROVE  Removed(i)
    BY <1>4, <2>3 DEF Del, Removed
  <2> QED BY <2>1, <2>2, <2>3, RemoveFirstIs DEF Changed
<1>5. CASE Clear(p) \/ Unmarshal(p)
  <2>1. pc[p] = "in" /\ loc[p].op \in {"clear", "unmarshal"} /\ Wiped
    BY <1>5 DEF Clear, Unmarshal, Writing, Emptied, Wiped
  <2>2. loc[p].seen = <<>>
    BY <2>1 DEF Calls
  <2>3. CASE Return(p)
    BY <2>1, <2>3 DEF Return, NoCall, TypeOK, Changed
  <2>4. CASE Unmarshal(p)
    BY <2>1, <2>2, <2>4 DEF Unmarshal, TypeOK, Changed
  <2> QED BY <1>5, <2>3, <2>4 DEF Clear
<1>6. CASE SortByKey(p) \/ SortByValue(p)
  <2>1. pc[p] = "in" /\ loc[p].op \in {"sortByKey", "sortByValue"} /\ loc'[p].seen = <<>>
    BY <1>6 DEF SortByKey, SortByValue, Writing, Return, NoCall, TypeOK
  <2>2. Reordered
    BY <1>6 DEF SortByKey, SortByValue, Sorted, Reordered
  <2> QED BY <2>1, <2>2 DEF Changed
<1>7. CASE Item(p)
  <2>1. CASE WaitForSelf(p)
    BY <2>1 DEF WaitForSelf, Same
  <2>2. CASE ~WaitForSelf(p)
    <3>1. pc[p] = "item" /\ loc[p].op = "unmarshal" /\ loc[p].seen = <<>>
      BY <1>7 DEF Item, Calls
    <3>2. \E k \in Key, v \in Val : Put(k, v)
      BY <1>7, <2>2 DEF Item
    <3>3. loc'[p].seen = <<>>
      BY <1>7, <2>2, <3>1 DEF Item, TypeOK, Call
    <3> QED BY <3>1, <3>2, <3>3 DEF Changed
  <2> QED BY <2>1, <2>2
<1> QED BY <1>1, <1>2, <1>3, <1>4, <1>5, <1>6, <1>7 DEF Step, Running

(* Keys and Go map go on matching. *)
LEMMA KeysStep ==
    ASSUME TypeOK, KeysMatch, Same \/ Changed
    PROVE  KeysMatch' /\ keys' \in Seq(Key) /\ mp' \in [Key -> Val \cup {Nil}]
<1>1. keys \in Seq(Key) /\ mp \in [Key -> Val \cup {Nil}] /\ Nil \notin Val
      /\ IsInjective(keys) /\ Range(keys) = {k \in Key : mp[k] # Nil}
  BY OrderedMapAssumption DEF TypeOK, KeysMatch
<1>2. CASE Same
  BY <1>1, <1>2 DEF Same, KeysMatch
<1>3. ASSUME NEW k \in Key, NEW v \in Val, Put(k, v)
      PROVE  KeysMatch' /\ keys' \in Seq(Key) /\ mp' \in [Key -> Val \cup {Nil}]
  <2>1. mp' = [mp EXCEPT ![k] = v] /\ mp'[k] = v /\ v # Nil
    BY <1>1, <1>3 DEF Put
  <2>2. CASE mp[k] = Nil
    <3>1. keys' = Append(keys, k) /\ k \notin Range(keys)
      BY <1>1, <1>3, <2>2 DEF Put
    <3>2. IsInjective(keys') /\ Range(keys') = Range(keys) \cup {k}
      BY <1>1, <3>1, AppendNew
    <3>3. {x \in Key : mp'[x] # Nil} = {x \in Key : mp[x] # Nil} \cup {k}
      BY <1>1, <2>1
    <3> QED BY <1>1, <2>1, <3>1, <3>2, <3>3 DEF KeysMatch
  <2>3. CASE mp[k] # Nil
    <3>1. keys' = keys /\ {x \in Key : mp'[x] # Nil} = {x \in Key : mp[x] # Nil}
      BY <1>1, <1>3, <2>1, <2>3 DEF Put
    <3> QED BY <1>1, <2>1, <3>1 DEF KeysMatch
  <2> QED BY <2>2, <2>3
<1>4. ASSUME NEW i \in 1..Len(keys), Removed(i)
      PROVE  KeysMatch' /\ keys' \in Seq(Key) /\ mp' \in [Key -> Val \cup {Nil}]
  <2>1. keys' = RemoveAt(keys, i) /\ keys[i] \in Key /\ mp' = [mp EXCEPT ![keys[i]] = Nil]
    BY <1>1, <1>4 DEF Removed
  <2>2. keys' \in Seq(Key) /\ IsInjective(keys') /\ Range(keys') = Range(keys) \ {keys[i]}
    BY <1>1, <2>1, RemoveAtSeq, RemoveAtInjective
  <2>3. {x \in Key : mp'[x] # Nil} = {x \in Key : mp[x] # Nil} \ {keys[i]}
    BY <1>1, <2>1
  <2> QED BY <1>1, <2>1, <2>2, <2>3 DEF KeysMatch
<1>5. CASE Wiped
  BY <1>1, <1>5 DEF Wiped, KeysMatch, IsInjective, Range
<1>6. CASE Reordered
  BY <1>1, <1>6, Permuted DEF Reordered, KeysMatch
<1> QED BY <1>2, <1>3, <1>4, <1>5, <1>6 DEF Changed

-----------------------------------------------------------------------------
(* A step keeps the types of what is not data. *)
LEMMA ControlStep ==
    ASSUME TypeOK, Calls, Locks, KeysMatch, NEW p \in Proc, Step(p)
    PROVE  rmap' \in BOOLEAN /\ rw' \in RWType /\ pc' \in [Proc -> Place] /\ loc' \in [Proc -> Call]
<1>1. NoCall \in Call /\ loc[p] \in Call /\ rmap \in BOOLEAN
  BY OrderedMapAssumption DEF NoCall, Call, TypeOK
<1>2. CASE CallReader(p) \/ CallWriter(p)
  <2>1. PICK op \in ReadOps \cup WriteOps : Begin(p, op)
    BY <1>2 DEF CallReader, CallWriter
  <2>2. PICK arg \in Args(op) : loc' = [loc EXCEPT ![p] = [NoCall EXCEPT !.op = op, !.key = arg[1], !.val = arg[2]]]
    BY <2>1 DEF Begin
  <2>3. arg[1] \in Key \cup {Nil} /\ arg[2] \in Val \cup {Nil} /\ op \in Ops
    BY <2>1, <2>2 DEF Args, Begin, Offered, ReadOps, WriteOps
  <2>4. [NoCall EXCEPT !.op = op, !.key = arg[1], !.val = arg[2]] \in Call
    BY <1>1, <2>3 DEF Call
  <2>5. pc' \in [Proc -> Place]
    BY <1>2 DEF CallReader, CallWriter, Goto, Place, TypeOK
  <2>6. loc' \in [Proc -> Call]
    BY <2>2, <2>4 DEF TypeOK
  <2>7. rw' = rw /\ rmap' = rmap
    BY <2>1 DEF Begin
  <2>8. rmap' \in BOOLEAN
    BY <1>1, <2>7, Zenon
  <2>9. rw' \in RWType
    BY <2>7 DEF TypeOK
  <2> QED BY <2>5, <2>6, <2>8, <2>9
<1>3. CASE RLock(p) \/ Lock(p) \/ Acquire(p)
  <2>1. rw' \in {RLocked(rw, p), Announced(rw, p), rw}
    BY <1>3 DEF RLock, Lock, Acquire
  <2>2. RLocked(rw, p) \in RWType /\ Announced(rw, p) \in RWType
    <3>1. rw \in RWType /\ rw.readers[p] + 1 \in Nat
      BY DEF TypeOK, RWType
    <3>2. [rw EXCEPT !.readers[p] = @ + 1] \in RWType
      BY <3>1 DEF RWType
    <3>3. [rw EXCEPT !.writer = p] \in RWType
      BY <3>1 DEF RWType
    <3> QED BY <3>2, <3>3, Zenon DEF RLocked, Announced
  <2>3. \E place \in Place : pc' = [pc EXCEPT ![p] = place]
    BY <1>3 DEF RLock, Lock, Acquire, Goto, Place
  <2>4. rmap' = rmap /\ loc' = loc
    BY <1>3 DEF RLock, Lock, Acquire
  <2>5. rmap' \in BOOLEAN
    BY <1>1, <2>4, Zenon
  <2> QED BY <2>1, <2>2, <2>3, <2>4, <2>5 DEF TypeOK
<1>4. CASE Walk(p)
  <2>1. Len(loc[p].seen) + 1 \in 1..Len(keys) /\ loc[p].seen \in Seq(Key \X Val)
    BY <1>1, <1>4 DEF Walk, Call
  <2>2. <<keys[Len(loc[p].seen) + 1], mp[keys[Len(loc[p].seen) + 1]]>> \in Key \X Val
    BY <2>1, PairsType
  <2>3. Append(loc[p].seen, <<keys[Len(loc[p].seen) + 1], mp[keys[Len(loc[p].seen) + 1]]>>) \in Seq(Key \X Val)
    BY <2>1, <2>2, AppendProperties
  <2> QED BY <1>1, <1>4, <2>3 DEF Walk, TypeOK, Call
<1>5. ASSUME Unlock(p) \/ (pc[p] = "read" /\ RUnlock(p)), Return(p) \/ Panic(p), UNCHANGED rmap
      PROVE  rmap' \in BOOLEAN /\ rw' \in RWType /\ pc' \in [Proc -> Place] /\ loc' \in [Proc -> Call]
  <2>1. rw' \in RWType
    <3>1. CASE Unlock(p)
      BY <3>1 DEF Unlock, Unlocked, RWType, TypeOK
    <3>2. CASE pc[p] = "read" /\ RUnlock(p)
      <4>1. rw.readers[p] = IF loc[p].op = "fork" THEN 2 ELSE 1
        BY <3>2 DEF Locks
      <4>2. rw.readers \in [Proc -> Nat] /\ rw \in RWType
        BY DEF TypeOK, RWType
      <4>3. CASE loc[p].op # "fork"
        <5>1. rw' = [rw EXCEPT !.readers[p] = 0]
          BY <3>2, <4>1, <4>3 DEF RUnlock, RUnlocked
        <5> QED BY <4>2, <5>1 DEF RWType
      <4>4. CASE loc[p].op = "fork"
        <5>1. rw' = RUnlocked(RUnlocked(rw, p), p)
          BY <3>2, <4>4 DEF RUnlock
        <5>2. RUnlocked(rw, p) = [rw EXCEPT !.readers[p] = 1]
          BY <4>1, <4>4 DEF RUnlocked
        <5>3. RUnlocked(rw, p) \in RWType /\ RUnlocked(rw, p).readers[p] = 1
          BY <4>2, <5>2 DEF RWType
        <5>4. ASSUME NEW w \in RWType, w.readers[p] = 1 PROVE RUnlocked(w, p) \in RWType
          BY <5>4 DEF RUnlocked, RWType
        <5> QED BY <5>1, <5>3, <5>4
      <4> QED BY <4>3, <4>4
    <3> QED BY <1>5, <3>1, <3>2
  <2> QED BY <1>1, <1>5, <2>1 DEF Return, Panic, Goto, Place, TypeOK
<1>6. ASSUME WaitForSelf(p), UNCHANGED rmap
      PROVE  rmap' \in BOOLEAN /\ rw' \in RWType /\ pc' \in [Proc -> Place] /\ loc' \in [Proc -> Call]
  BY <1>6 DEF WaitForSelf, Goto, Place, TypeOK
<1>7. CASE Look(p) \/ RGet(p) \/ WalkEnd(p)
  <2>1. Unlock(p) \/ (pc[p] = "read" /\ RUnlock(p))
    BY <1>7 DEF Look, RGet, WalkEnd, Reading, Writing
  <2> QED BY <1>5, <1>7, <2>1 DEF Look, RGet, WalkEnd
<1>8. CASE \/ Set(p) \/ RSet(p) \/ RDel(p) \/ Del(p) \/ Clear(p) \/ SortByKey(p) \/ SortByValue(p)
           \/ ItemsEnd(p)
  BY <1>5, <1>6, <1>8 DEF Set, RSet, RDel, Del, Clear, SortByKey, SortByValue, ItemsEnd
<1>9. CASE Unmarshal(p)
  BY <1>1, <1>9, OrderedMapAssumption DEF Unmarshal, Goto, Place, TypeOK, Call
<1>10. CASE Item(p)
  <2>1. CASE WaitForSelf(p)
    BY <1>6, <1>10, <2>1 DEF Item
  <2>2. CASE ~WaitForSelf(p)
    <3>1. loc' = [loc EXCEPT ![p].left = @ - 1] /\ loc[p].left > 0 /\ UNCHANGED <<rw, pc, rmap>>
      BY <1>10, <2>2 DEF Item
    <3>2. loc[p].left - 1 \in Nat
      BY <1>1, <3>1 DEF Call
    <3>3. [loc[p] EXCEPT !.left = loc[p].left - 1] \in Call
      BY <1>1, <3>2 DEF Call
    <3>4. loc' = [loc EXCEPT ![p] = [loc[p] EXCEPT !.left = loc[p].left - 1]]
      BY <3>1
    <3> QED BY <1>1, <3>1, <3>3, <3>4 DEF TypeOK
  <2> QED BY <2>1, <2>2
<1> QED BY <1>2, <1>3, <1>4, <1>7, <1>8, <1>9, <1>10 DEF Step, Running

(* And that of the reverse index. *)
LEMMA ValsStep ==
    ASSUME TypeOK, NEW p \in Proc, Step(p)
    PROVE  vals' \in Seq(Val)
<1>1. CASE RDel(p)
  <2>1. IndexOf(loc[p].val) \in 0..Len(vals) /\ Len(vals) \in Nat
    BY IndexIs
  <2>2. CASE vals' = RemoveAt(vals, IndexOf(loc[p].val)) /\ IndexOf(loc[p].val) \in 1..Len(keys)
    BY <2>1, <2>2, RemoveAtSeq DEF TypeOK
  <2> QED BY <1>1, <2>2 DEF RDel, TypeOK
<1>2. CASE Clear(p) \/ Unmarshal(p)
  <2>1. vals' = <<>>
    BY <1>2 DEF Clear, Unmarshal, Emptied
  <2> QED BY <2>1
<1>3. CASE ~(RDel(p) \/ Clear(p) \/ Unmarshal(p))
  BY <1>3 DEF Step, Running, CallReader, CallWriter, Begin, RLock, Lock, Acquire, Look, RGet, Walk, WalkEnd,
              Set, RSet, Put, WaitForSelf, Del, SortByKey, SortByValue, Item, ItemsEnd, TypeOK
<1> QED BY <1>1, <1>2, <1>3

LEMMA TypeStep ==
    ASSUME TypeOK, Calls, Locks, KeysMatch, NEW p \in Proc, Step(p)
    PROVE  TypeOK' /\ KeysMatch'
BY DataStep, KeysStep, ControlStep, ValsStep DEF TypeOK

-----------------------------------------------------------------------------
(* Only a walk adds to what a callback has seen. *)
LEMMA SeenStep ==
    ASSUME TypeOK, NEW p \in Proc, Step(p), ~Walk(p), NEW q \in Proc
    PROVE  loc'[q].seen \in {loc[q].seen, <<>>}
<1>1. CASE CallReader(p) \/ CallWriter(p)
  BY <1>1 DEF CallReader, CallWriter, Begin, NoCall, TypeOK
<1>2. CASE Return(p) \/ Panic(p)
  BY <1>2 DEF Return, Panic, NoCall, TypeOK
<1>3. CASE UNCHANGED loc
  BY <1>3
<1>4. CASE \E n : loc' = [loc EXCEPT ![p].left = n]
  BY <1>4 DEF TypeOK, Call
<1>5. CASE Item(p) \/ Unmarshal(p)
  BY <1>3, <1>4, <1>5 DEF Item, Unmarshal, WaitForSelf
<1>6. CASE Set(p) \/ RSet(p)
  BY <1>2, <1>3, <1>6 DEF Set, RSet, WaitForSelf
<1> QED BY <1>1, <1>2, <1>3, <1>5, <1>6
        DEF Step, Running, RLock, Lock, Acquire, Look, RGet, WalkEnd, RDel, Del, Clear, SortByKey, SortByValue, ItemsEnd

(* Nobody walks while a writer changes the map. *)
LEMMA NobodyWalks ==
    ASSUME TypeOK, Calls, Locks, NEW p \in Proc, pc[p] \in {"in", "item"}, NEW q \in Proc, q # p
    PROVE  loc[q].seen = <<>>
<1>1. rw.writer = p /\ rw.readers[q] = 0
  BY DEF Locks
<1>2. pc[q] # "in" /\ pc[q] # "read"
  BY <1>1 DEF Locks
<1> QED BY <1>2 DEF Calls

LEMMA WalkStep ==
    ASSUME Inv, NEW p \in Proc, Step(p)
    PROVE  WalkInOrder'
<1>1. TypeOK /\ Calls /\ Locks /\ KeysMatch /\ WalkInOrder /\ TypeOK' /\ KeysMatch'
  BY TypeStep DEF Inv
<1>2. /\ Pairs \in Seq(Key \X Val) /\ Len(Pairs) = Len(keys) /\ Pairs' \in Seq(Key \X Val)
      /\ \A i \in 1..Len(keys) : Pairs[i] = <<keys[i], mp[keys[i]]>>
  BY <1>1, PairsType, PairsNext
<1>3. \A q \in Proc : loc[q].seen \in Seq(Key \X Val) /\ loc'[q].seen \in Seq(Key \X Val)
  BY <1>1 DEF TypeOK, Call
<1>4. ASSUME NEW t \in Seq(Key \X Val) PROVE IsPrefix(<<>>, t)
  BY EmptyPrefix
<1>5. SUFFICES ASSUME NEW q \in Proc PROVE IsPrefix(loc'[q].seen, Pairs')
  BY DEF WalkInOrder
<1>6. CASE Walk(p)
  <2>1. Pairs' = Pairs
    BY <1>6 DEF Walk, Pairs
  <2>2. CASE q # p
    BY <1>1, <1>6, <2>1, <2>2 DEF Walk, WalkInOrder, TypeOK
  <2>3. CASE q = p
    <3> DEFINE s == loc[p].seen
               e == <<keys[Len(s) + 1], mp[keys[Len(s) + 1]]>>
    <3>1. Len(s) + 1 <= Len(keys) /\ loc'[p].seen = Append(s, e)
      BY <1>1, <1>6 DEF Walk, TypeOK, Call
    <3>2. Len(s) <= Len(Pairs) /\ \A i \in 1..Len(s) : s[i] = Pairs[i]
      BY <1>1, <1>2, <1>3, PrefixMeans DEF WalkInOrder
    <3>3. Len(s) \in Nat /\ Len(s) + 1 \in 1..Len(keys)
      BY <1>3, <3>1
    <3>4. e = Pairs[Len(s) + 1] /\ e \in Key \X Val
      BY <1>2, <3>3
    <3> HIDE DEF e
    <3>5. Append(s, e) \in Seq(Key \X Val) /\ Len(Append(s, e)) = Len(s) + 1
          /\ \A i \in 1..Len(s) : Append(s, e)[i] = s[i]
          /\ Append(s, e)[Len(s) + 1] = e
      BY <1>3, <3>4, AppendProperties
    <3>6. ASSUME NEW i \in 1..Len(s) + 1 PROVE Append(s, e)[i] = Pairs[i]
      <4>1. i \in 1..Len(s) \/ i = Len(s) + 1
        BY <3>3
      <4> QED BY <3>2, <3>4, <3>5, <4>1
    <3>7. IsPrefix(Append(s, e), Pairs)
      BY <1>2, <3>1, <3>5, <3>6, PrefixMeans
    <3> QED BY <2>1, <2>3, <3>1, <3>7
  <2> QED BY <2>2, <2>3
<1>7. CASE ~Walk(p) /\ Same
  <2>1. Pairs' = Pairs
    BY <1>7 DEF Same, Pairs
  <2>2. loc'[q].seen \in {loc[q].seen, <<>>}
    BY <1>1, <1>7, SeenStep
  <2> QED BY <1>1, <1>2, <1>4, <2>1, <2>2 DEF WalkInOrder
<1>8. CASE ~Walk(p) /\ ~Same
  <2>1. pc[p] \in {"in", "item"} /\ loc'[p].seen = <<>>
    BY <1>1, <1>8, DataStep
  <2>2. q # p => loc[q].seen = <<>>
    BY <1>1, <2>1, NobodyWalks
  <2>3. loc'[q].seen = <<>>
    BY <1>1, <1>8, <2>1, <2>2, SeenStep
  <2> QED BY <1>2, <1>4, <2>3
<1> QED BY <1>6, <1>7, <1>8

-----------------------------------------------------------------------------
(* The map a client starts with: distinct keys, each with its value. *)
LEMMA InitData ==
    ASSUME Init
    PROVE  /\ keys \in Seq(Key) /\ Len(keys) \in 0..Cardinality(Key) /\ IsInjective(keys)
           /\ vals \in Seq(Val)
           /\ mp \in [Key -> Val \cup {Nil}] /\ Range(keys) = {k \in Key : mp[k] # Nil}
<1>1. PICK given \in Entries, first \in BOOLEAN :
         /\ keys = KeysOf(given)
         /\ vals = IF rmap /\ first THEN ValsOf(given) ELSE <<>>
         /\ mp = [k \in Key |-> IF k \in Range(KeysOf(given))
                                THEN given[SelectInSeq(KeysOf(given), LAMBDA x : x = k)][2]
                                ELSE Nil]
  BY DEF Init
<1>2. Cardinality(Key) \in Nat
  BY OrderedMapAssumption, FS_CardinalityType
<1>3. PICK n \in 0..Cardinality(Key) :
        given \in {[i \in 1..n |-> <<k[i], v[i]>>] : k \in Injection(1..n, Key), v \in [1..n -> Val]}
  BY <1>1 DEF Entries
<1>4. PICK k \in Injection(1..n, Key), v \in [1..n -> Val] : given = [i \in 1..n |-> <<k[i], v[i]>>]
  BY <1>3
<1>5. n \in Nat /\ k \in [1..n -> Key] /\ IsInjective(k)
  BY <1>2, <1>3, <1>4 DEF Injection
<1>6. KeysOf(given) = k /\ ValsOf(given) = v /\ \A i \in 1..n : given[i][2] = v[i]
  BY <1>4, <1>5 DEF KeysOf, ValsOf
<1>7. keys = k /\ keys \in Seq(Key) /\ Len(keys) = n /\ v \in Seq(Val)
  <2>1. keys = k
    BY <1>1, <1>6
  <2>2. k \in Seq(Key) /\ Len(k) = n
    BY <1>5
  <2>3. v \in Seq(Val)
    BY <1>4, <1>5
  <2> QED BY <2>1, <2>2, <2>3
<1>8. vals \in Seq(Val)
  BY <1>1, <1>6, <1>7
<1>9. ASSUME NEW x \in Key
      PROVE  /\ x \in Range(keys) => mp[x] \in Val
             /\ x \notin Range(keys) => mp[x] = Nil
  <2>1. mp[x] = IF x \in Range(keys) THEN given[First(keys, x)][2] ELSE Nil
    BY <1>1, <1>9 DEF SelectInSeq, First
  <2>2. x \in Range(keys) => First(keys, x) \in 1..n
    BY <1>7, <1>9, FirstPlace DEF Range
  <2> QED BY <1>4, <1>6, <2>1, <2>2
<1>10. DOMAIN mp = Key /\ mp = [x \in Key |-> mp[x]]
  BY <1>1
<1>11. Range(keys) \subseteq Key /\ Nil \notin Val
  BY <1>7, OrderedMapAssumption DEF Range
<1>12. mp \in [Key -> Val \cup {Nil}]
  BY <1>9, <1>10
<1> QED BY <1>3, <1>5, <1>7, <1>8, <1>9, <1>11, <1>12

LEMMA InitInv == Init => Inv
<1> SUFFICES ASSUME Init PROVE Inv
  OBVIOUS
<1>1. TypeOK
  <2>1. rmap \in BOOLEAN
    BY OrderedMapAssumption, Zenon DEF Init
  <2>2. rw \in RWType
    BY DEF Init, RWFree, RWType
  <2>3. pc \in [Proc -> Place] /\ loc \in [Proc -> Call]
    BY OrderedMapAssumption DEF Init, Place, NoCall, Call
  <2> QED BY InitData, <2>1, <2>2, <2>3 DEF TypeOK
<1>2. Calls
  BY DEF Init, Calls, NoCall
<1>3. Locks
  BY RWMutexAssumption DEF Init, Locks, RWFree
<1>4. KeysMatch
  BY InitData DEF KeysMatch
<1>5. WalkInOrder
  <2>1. Pairs \in Seq(Key \X Val)
    BY <1>1, <1>4, PairsType
  <2>2. \A p \in Proc : loc[p].seen = <<>>
    BY DEF Init, NoCall
  <2> QED BY <2>1, <2>2, EmptyPrefix DEF WalkInOrder
<1> QED BY <1>1, <1>2, <1>3, <1>4, <1>5 DEF Inv

LEMMA InvStep == Inv /\ [Next]_vars => Inv'
<1> SUFFICES ASSUME Inv, [Next]_vars PROVE Inv'
  OBVIOUS
<1>1. ASSUME NEW p \in Proc, Step(p) PROVE Inv'
  <2>1. TypeOK' /\ KeysMatch' /\ Calls' /\ Locks' /\ WalkInOrder'
    BY <1>1, TypeStep, CallsStep, LocksStep, WalkStep DEF Inv
  <2> QED BY <2>1 DEF Inv
<1>2. CASE UNCHANGED vars
  BY <1>2 DEF vars, Inv, TypeOK, Calls, Locks, KeysMatch, WalkInOrder, Pairs
<1> QED BY <1>1, <1>2 DEF Next, Step

LEMMA AlwaysInv == Spec => []Inv
BY InitInv, InvStep, PTL DEF Spec

-----------------------------------------------------------------------------
(* For any number of goroutines, keys and values: slices, Go map, lock and calls keep
   their types; the lock is never given back more often than it was taken. *)
THEOREM TypeCorrect == Spec => []TypeOK
<1>1. Inv => TypeOK
  BY DEF Inv
<1> QED BY <1>1, AlwaysInv, PTL

(* For any number of goroutines, keys and values, the slice of keys and the Go map hold
   the same keys, each once (set, Del, RDel, Clear, the sorts, UnmarshalJSON). *)
THEOREM KeysCorrect == Spec => []KeysMatch
<1>1. Inv => KeysMatch
  BY DEF Inv
<1> QED BY <1>1, AlwaysInv, PTL

(* For any number of goroutines, whoever walks the map (ForEach, Fork, MarshalJSON) sees
   the entries of one moment in their order. *)
THEOREM WalkCorrect == Spec => []WalkInOrder
<1>1. Inv => WalkInOrder
  BY DEF Inv
<1> QED BY <1>1, AlwaysInv, PTL

-----------------------------------------------------------------------------
(* RDel takes the same place out of the keys and of the reverse index. *)
LEMMA RDelAligned ==
    ASSUME TypeOK, KeysMatch, Aligned, NEW p \in Proc, RDel(p)
    PROVE  Aligned'
<1> DEFINE i == IndexOf(loc[p].val)
<1>1. keys \in Seq(Key) /\ vals \in Seq(Val) /\ Len(vals) = Len(keys) /\ Len(keys) \in Nat
      /\ mp \in [Key -> Val \cup {Nil}] /\ \A j \in 1..Len(keys) : vals[j] = mp[keys[j]]
  BY DEF TypeOK, Aligned
<1>2. CASE UNCHANGED <<keys, vals, mp>>
  BY <1>2 DEF Aligned
<1>3. CASE /\ i \in 1..Len(keys) /\ keys' = RemoveAt(keys, i) /\ vals' = RemoveAt(vals, i)
           /\ mp' = [mp EXCEPT ![keys[i]] = Nil]
  <2> HIDE DEF i
  <2>1. keys' \in Seq(Key) /\ Len(keys') = Len(keys) - 1
        /\ \A j \in 1..Len(keys) - 1 : keys'[j] = IF j < i THEN keys[j] ELSE keys[j + 1]
    BY <1>1, <1>3, RemoveAtSeq
  <2>2. vals' \in Seq(Val) /\ Len(vals') = Len(keys) - 1
        /\ \A j \in 1..Len(keys) - 1 : vals'[j] = IF j < i THEN vals[j] ELSE vals[j + 1]
    <3>1. i \in 1..Len(vals) /\ vals' = RemoveAt(vals, i)
      BY <1>1, <1>3
    <3> QED BY <1>1, <3>1, RemoveAtSeq
  <2>3. ASSUME NEW j \in 1..Len(keys), j # i
        PROVE  mp'[keys[j]] = mp[keys[j]]
    <3>1. keys[j] # keys[i] /\ keys[j] \in Key /\ keys[i] \in Key
      BY <1>1, <1>3, <2>3 DEF KeysMatch, IsInjective
    <3> QED BY <1>1, <1>3, <3>1
  <2>4. ASSUME NEW j \in 1..Len(keys) - 1 PROVE vals'[j] = mp'[keys'[j]]
    <3>1. CASE j < i
      <4>1. j \in 1..Len(keys) /\ j # i
        BY <1>1, <1>3, <3>1
      <4> QED BY <1>1, <2>1, <2>2, <2>3, <3>1, <4>1
    <3>2. CASE ~(j < i)
      <4>1. j + 1 \in 1..Len(keys) /\ j + 1 # i
        BY <1>1, <1>3, <3>2
      <4>2. keys'[j] = keys[j + 1] /\ vals'[j] = vals[j + 1]
        BY <2>1, <2>2, <3>2
      <4>3. vals[j + 1] = mp[keys[j + 1]] /\ mp'[keys[j + 1]] = mp[keys[j + 1]]
        BY <1>1, <2>3, <4>1
      <4> QED BY <4>2, <4>3
    <3> QED BY <3>1, <3>2
  <2>5. DOMAIN vals' = 1..Len(keys) - 1
    BY <2>2
  <2> QED BY <2>1, <2>2, <2>4, <2>5 DEF Aligned
<1> QED BY <1>2, <1>3 DEF RDel

(* With a reverse index, what leaves it misaligned is Del or a sort. *)
LEMMA AlignStep ==
    ASSUME Inv, rmap, Aligned, NEW p \in Proc, Step(p), loc[p].op \notin {"del", "sortByKey", "sortByValue"}
    PROVE  Aligned'
<1>1. CASE \/ CallReader(p) \/ CallWriter(p) \/ RLock(p) \/ Lock(p) \/ Acquire(p) \/ Look(p) \/ RGet(p)
           \/ Walk(p) \/ WalkEnd(p) \/ RSet(p) \/ ItemsEnd(p) \/ Set(p) \/ Item(p)
  <2>1. UNCHANGED <<keys, vals, mp>>
    BY <1>1 DEF CallReader, CallWriter, Begin, RLock, Lock, Acquire, Look, RGet, Walk, WalkEnd, RSet, ItemsEnd,
                Set, Item, WaitForSelf
  <2> QED BY <2>1 DEF Aligned
<1>2. CASE RDel(p)
  BY <1>2, RDelAligned DEF Inv
<1>3. CASE Clear(p) \/ Unmarshal(p)
  <2>1. keys' = <<>> /\ vals' = <<>>
    BY <1>3 DEF Clear, Unmarshal, Emptied
  <2> QED BY <2>1 DEF Aligned
<1> QED BY <1>1, <1>2, <1>3 DEF Step, Running, Del, SortByKey, SortByValue, Writing

(* For any number of goroutines, keys and values: where neither Del nor a sort is called,
   the reverse index stays in step with the keys (RSet, RDel, Clear, UnmarshalJSON). *)
THEOREM AlignCorrect ==
    ASSUME Ops \cap {"del", "sortByKey", "sortByValue"} = {}
    PROVE  Spec => StaysOneToOne
<1> DEFINE A == rmap /\ Aligned => Aligned'
<1>1. Inv /\ [Next]_vars => [A]_vars
  <2> SUFFICES ASSUME Inv, Next, rmap, Aligned PROVE Aligned'
    OBVIOUS
  <2>1. PICK p \in Proc : Step(p)
    BY DEF Next, Step
  <2>2. CASE loc[p].op \notin {"del", "sortByKey", "sortByValue"}
    BY <2>1, <2>2, AlignStep
  <2>3. CASE loc[p].op \in {"del", "sortByKey", "sortByValue"}
    <3>1. loc[p].op \in Ops \cup {"none"}
      BY DEF Inv, TypeOK, Call
    <3> QED BY <2>3, <3>1
  <2> QED BY <2>2, <2>3
<1> QED BY <1>1, AlwaysInv, PTL DEF Spec, StaysOneToOne

-----------------------------------------------------------------------------
(* A change of the map is a step of the dictionary. *)
LEMMA PutIs ==
    ASSUME TypeOK, KeysMatch, (TypeOK /\ KeysMatch)', NEW k \in Key, NEW v \in Val, Put(k, v)
    PROVE  Dict!Next
<1>1. /\ Pairs \in Seq(Key \X Val) /\ Len(Pairs) = Len(keys) /\ DOMAIN Pairs = 1..Len(keys)
      /\ \A i \in 1..Len(keys) : Pairs[i] = <<keys[i], mp[keys[i]]>> /\ keys[i] \in Key
      /\ keys \in Seq(Key) /\ DOMAIN keys = 1..Len(keys) /\ mp \in [Key -> Val \cup {Nil}] /\ Len(keys) \in Nat
  BY PairsType DEF TypeOK, Pairs
<1>2. /\ Pairs' \in Seq(Key \X Val) /\ Len(Pairs') = Len(keys')
      /\ \A i \in 1..Len(keys') : Pairs'[i] = <<keys'[i], mp'[keys'[i]]>>
  BY PairsNext
<1>3. mp' = [mp EXCEPT ![k] = v]
  BY DEF Put
<1>4. CASE mp[k] = Nil
  <2>1. keys' = Append(keys, k) /\ \A i \in 1..Len(keys) : keys[i] # k
    BY <1>1, <1>4 DEF Put, KeysMatch, Range
  <2>2. Len(keys') = Len(keys) + 1 /\ keys'[Len(keys) + 1] = k /\ \A i \in 1..Len(keys) : keys'[i] = keys[i]
    BY <1>1, <2>1, AppendProperties
  <2> DEFINE e == <<k, v>>
             a == Append(Pairs, e)
  <2>3. a \in Seq(Key \X Val) /\ Len(a) = Len(keys) + 1 /\ a[Len(keys) + 1] = e
        /\ \A i \in 1..Len(keys) : a[i] = Pairs[i]
    <3>1. e \in Key \X Val
      OBVIOUS
    <3> HIDE DEF e
    <3> QED BY <1>1, <3>1, AppendProperties
  <2> HIDE DEF a
  <2>4. ASSUME NEW i \in 1..Len(keys) + 1 PROVE Pairs'[i] = a[i]
    <3>1. CASE i = Len(keys) + 1
      BY <1>1, <1>2, <1>3, <2>2, <2>3, <3>1
    <3>2. CASE i # Len(keys) + 1
      <4>1. i \in 1..Len(keys) /\ i \in 1..Len(keys')
        BY <1>1, <2>2, <3>2
      <4>2. mp'[keys[i]] = mp[keys[i]] /\ keys'[i] = keys[i]
        BY <1>1, <1>3, <2>1, <2>2, <4>1
      <4>3. Pairs'[i] = <<keys[i], mp[keys[i]]>> /\ a[i] = Pairs[i]
        BY <1>2, <2>3, <4>1, <4>2
      <4> QED BY <1>1, <4>1, <4>3
    <3> QED BY <3>1, <3>2
  <2>5. Pairs' = a
    BY <1>2, <2>2, <2>3, <2>4, SeqEqual
  <2>6. \A i \in DOMAIN Pairs : Pairs[i][1] # k
    BY <1>1, <2>1
  <2>7. Dict!Add(k, v)
    BY <2>5, <2>6 DEF Dict!Add, Dict!KeyAt, a
  <2> QED BY <2>7 DEF Dict!Next
<1>5. CASE mp[k] # Nil
  <2>1. keys' = keys
    BY <1>5 DEF Put
  <2>2. PICK i \in 1..Len(keys) : keys[i] = k
    BY <1>1, <1>5 DEF KeysMatch, Range
  <2>3. ASSUME NEW j \in 1..Len(keys), j # i PROVE Pairs'[j] = Pairs[j]
    <3>1. keys[j] # k
      BY <1>1, <2>2, <2>3 DEF KeysMatch, IsInjective
    <3> QED BY <1>1, <1>2, <1>3, <2>1, <2>3, <3>1
  <2>4. Pairs'[i] = <<Pairs[i][1], v>>
    <3>1. Pairs[i][1] = k /\ mp'[k] = v
      BY <1>1, <1>3, <2>2
    <3>2. Pairs'[i] = <<keys[i], mp'[keys[i]]>>
      BY <1>2, <2>1
    <3> QED BY <2>2, <3>1, <3>2
  <2>5. DOMAIN Pairs' = 1..Len(keys) /\ Pairs' = [j \in DOMAIN Pairs' |-> Pairs'[j]]
    BY <1>2, <2>1
  <2>6. Dict!Overwrite(i, v)
    BY <1>1, <2>3, <2>4, <2>5 DEF Dict!Overwrite
  <2> QED BY <1>1, <2>6 DEF Dict!Next
<1> QED BY <1>4, <1>5

LEMMA RemovedIs ==
    ASSUME TypeOK, KeysMatch, (TypeOK /\ KeysMatch)', NEW i \in 1..Len(keys), Removed(i)
    PROVE  Dict!Next
<1>1. /\ Pairs \in Seq(Key \X Val) /\ Len(Pairs) = Len(keys) /\ DOMAIN Pairs = 1..Len(keys)
      /\ \A j \in 1..Len(keys) : Pairs[j] = <<keys[j], mp[keys[j]]>> /\ keys[j] \in Key
      /\ keys \in Seq(Key) /\ DOMAIN keys = 1..Len(keys) /\ mp \in [Key -> Val \cup {Nil}] /\ Len(keys) \in Nat
  BY PairsType DEF TypeOK, Pairs
<1>2. /\ Pairs' \in Seq(Key \X Val) /\ Len(Pairs') = Len(keys')
      /\ \A j \in 1..Len(keys') : Pairs'[j] = <<keys'[j], mp'[keys'[j]]>>
  BY PairsNext
<1>3. Len(keys') = Len(keys) - 1
      /\ \A j \in 1..Len(keys) - 1 : keys'[j] = IF j < i THEN keys[j] ELSE keys[j + 1]
  BY <1>1, RemoveAtSeq DEF Removed
<1> DEFINE r == RemoveAt(Pairs, i)
<1>4. r \in Seq(Key \X Val) /\ Len(r) = Len(keys) - 1
      /\ \A j \in 1..Len(keys) - 1 : r[j] = IF j < i THEN Pairs[j] ELSE Pairs[j + 1]
  <2>1. i \in 1..Len(Pairs) /\ Pairs \in Seq(Key \X Val) /\ Len(Pairs) = Len(keys)
    BY <1>1
  <2>2. /\ RemoveAt(Pairs, i) \in Seq(Key \X Val) /\ Len(RemoveAt(Pairs, i)) = Len(Pairs) - 1
        /\ \A j \in 1..Len(Pairs) - 1 : RemoveAt(Pairs, i)[j] = IF j < i THEN Pairs[j] ELSE Pairs[j + 1]
    BY <2>1, RemoveAtSeq
  <2> QED BY <2>1, <2>2
<1>5. ASSUME NEW j \in 1..Len(keys), j # i PROVE mp'[keys[j]] = mp[keys[j]]
  <2>1. keys[j] # keys[i]
    BY <1>1, <1>5 DEF KeysMatch, IsInjective
  <2> QED BY <1>1, <1>5, <2>1 DEF Removed
<1> HIDE DEF r
<1>6. ASSUME NEW j \in 1..Len(keys) - 1 PROVE Pairs'[j] = r[j]
  <2>1. Pairs'[j] = <<keys'[j], mp'[keys'[j]]>>
    BY <1>2, <1>3
  <2>2. CASE j < i
    <3>1. j \in 1..Len(keys) /\ j # i
      BY <1>1, <2>2
    <3> QED BY <1>1, <1>3, <1>4, <1>5, <2>1, <2>2, <3>1
  <2>3. CASE ~(j < i)
    <3>1. j + 1 \in 1..Len(keys) /\ j + 1 # i
      BY <1>1, <2>3
    <3>2. keys'[j] = keys[j + 1] /\ r[j] = Pairs[j + 1]
      BY <1>3, <1>4, <2>3
    <3>3. Pairs[j + 1] = <<keys[j + 1], mp[keys[j + 1]]>> /\ mp'[keys[j + 1]] = mp[keys[j + 1]]
      BY <1>1, <1>5, <3>1
    <3> QED BY <2>1, <3>2, <3>3
  <2> QED BY <2>2, <2>3
<1>7. Pairs' = r
  BY <1>2, <1>3, <1>4, <1>6, SeqEqual
<1>8. Dict!Delete(i)
  BY <1>7 DEF Dict!Delete, Dict!RemoveAt, RemoveAt, r
<1> QED BY <1>1, <1>8 DEF Dict!Next

LEMMA ReorderedIs ==
    ASSUME TypeOK, Reordered
    PROVE  Dict!Next
<1>1. PICK f \in Bijection(DOMAIN keys, DOMAIN keys) : keys' = [i \in DOMAIN keys |-> keys[f[i]]]
  BY DEF Reordered
<1>2. DOMAIN Pairs = DOMAIN keys /\ mp' = mp /\ DOMAIN keys' = DOMAIN keys
  BY <1>1 DEF Pairs, Reordered
<1>3. \A i \in DOMAIN keys : f[i] \in DOMAIN keys
  BY DEF Bijection, Injection
<1>4. Pairs' = [i \in DOMAIN keys |-> <<keys'[i], mp[keys'[i]]>>]
  BY <1>2 DEF Pairs
<1>5. Pairs' = [i \in DOMAIN keys |-> Pairs[f[i]]]
  BY <1>1, <1>2, <1>3, <1>4 DEF Pairs
<1>6. f \in Dict!Bijection(DOMAIN keys, DOMAIN keys)
  BY DEF Bijection, Injection, Surjection, IsInjective,
         Dict!Bijection, Dict!Injection, Dict!Surjection, Dict!IsInjective
<1>7. Dict!Reorder
  BY <1>1, <1>2, <1>5, <1>6 DEF Dict!Reorder
<1> QED BY <1>7 DEF Dict!Next

LEMMA StepRefines ==
    ASSUME Inv, NEW p \in Proc, Step(p)
    PROVE  [Dict!Next]_Pairs
<1>1. TypeOK /\ Calls /\ Locks /\ KeysMatch /\ (TypeOK /\ KeysMatch)'
  BY TypeStep DEF Inv
<1>2. CASE Same
  BY <1>2 DEF Same, Pairs
<1>3. CASE Wiped
  <2>1. Pairs' = <<>>
    BY <1>3 DEF Wiped, Pairs
  <2> QED BY <2>1 DEF Dict!Next, Dict!Wipe
<1>4. CASE Changed
  BY <1>1, <1>3, <1>4, PutIs, RemovedIs, ReorderedIs DEF Changed
<1> QED BY <1>1, <1>2, <1>4, DataStep

(* For any number of goroutines, keys and values, Map is an ordered dictionary: every step
   is one of the dictionary's or changes nothing of it (all of stl_map.go). *)
THEOREM DictCorrect == Spec => DictSpec
<1>1. Init => Dict!Init
  <2> SUFFICES ASSUME Init PROVE Dict!Init
    OBVIOUS
  <2>1. TypeOK /\ KeysMatch
    BY InitInv DEF Inv
  <2>2. Pairs \in Seq(Key \X Val) /\ DOMAIN Pairs = DOMAIN keys
    BY <2>1, PairsType DEF Pairs
  <2>3. \A i, j \in DOMAIN Pairs : Pairs[i][1] = Pairs[j][1] => i = j
    BY <2>1, <2>2 DEF Pairs, KeysMatch, IsInjective
  <2> QED BY <2>2, <2>3 DEF Dict!Init, Dict!KeyAt
<1>2. Inv /\ [Next]_vars => [Dict!Next]_Pairs
  <2> SUFFICES ASSUME Inv, [Next]_vars PROVE [Dict!Next]_Pairs
    OBVIOUS
  <2>1. CASE Next
    BY <2>1, StepRefines DEF Next, Step
  <2>2. CASE UNCHANGED vars
    BY <2>2 DEF vars, Pairs
  <2> QED BY <2>1, <2>2
<1> QED BY <1>1, <1>2, AlwaysInv, PTL DEF Spec, DictSpec, Dict!Spec
=============================================================================
