----------------------------- MODULE FlexProofs -----------------------------
(***************************************************************************)
(* What holds of Flex for every array and every limit: the call is joined, *)
(* the limit is kept, panics go where the options send them, and what is   *)
(* returned are the wanted answers in the order of the array.              *)
(***************************************************************************)
EXTENDS Flex, DataLemmas

(* The tasks that hold a place of the group, and those that are not counted
   out yet. *)
Placed == {k \in 1..n : at[k] \in {"fn", "store", "zero", "leave", "unwind"}}
Counted == Placed \cup {k \in 1..n : at[k] \in {"out", "unwound"}}

Types ==
    /\ opts \in Option /\ n \in 0..MaxLen /\ i \in 1..n + 1
    /\ did \in [1..n -> Seq(Val) \cup {Uncalled, Panicked}]
    /\ pc \in {"loop", "returned", "panicked"} /\ alive \in BOOLEAN
    /\ at \in [1..n -> Place]
    /\ group \in [places : Int, tasks : Int]

(* The group's counts are what they count. *)
Counts ==
    /\ group.places = Limit - Cardinality(Placed) /\ group.places >= 0
    /\ group.tasks = Cardinality(Counted)

(* What is known of the element k. *)
Element(k) ==
    /\ at[k] # "none" <=> opts.async /\ k < i
    /\ at[k] \notin {"none", "fn"} => did[k] # Uncalled
    /\ ~opts.async /\ k < i => did[k] # Uncalled
    /\ at[k] \in {"unwind", "unwound", "dying"} => opts.isPanic /\ did[k] = Panicked

Inv ==
    /\ Types /\ Counts /\ \A k \in 1..n : Element(k)
    /\ pc = "returned" => i > n /\ group.tasks = 0
    /\ PanicAsAsked

-----------------------------------------------------------------------------
(* The set of placed tasks is finite, and so is that of the counted ones. *)
LEMMA Finite ==
    ASSUME Types
    PROVE  IsFiniteSet(Placed) /\ IsFiniteSet(Counted) /\ Cardinality(Placed) \in Nat
             /\ Cardinality(Counted) \in Nat
<1>1. IsFiniteSet(1..n)
  BY FS_Interval, FlexAssumption DEF Types
<1>2. Placed \in SUBSET (1..n) /\ Counted \in SUBSET (1..n)
  BY DEF Placed, Counted
<1>3. IsFiniteSet(Placed) /\ IsFiniteSet(Counted)
  BY <1>1, <1>2, FS_Subset
<1> QED BY <1>3, FS_CardinalityType

(* An answer is neither of the two marks. *)
LEMMA AnswerIsNoMark ==
    ASSUME opts \in Option, NEW r \in Answers
    PROVE  r \in Seq(Val) /\ r # Uncalled /\ r # Panicked
<1>1. \A v \in Val : <<v>> \in Seq(Val)
  OBVIOUS
<1>2. r \in FlatAnswers \/ \E v \in Val : r = <<v>>
  BY DEF Answers
<1>3. r \in Seq(Val)
  BY <1>1, <1>2, FlexAssumption
<1> QED BY <1>3, FlexAssumption

LEMMA InvInit == Init => Inv
<1> SUFFICES ASSUME Init PROVE Inv
  OBVIOUS
<1>1. Types
  BY FlexAssumption, ErrGroupAssumption DEF Init, Types, NewGroup, Place
<1>2. Placed = {} /\ Counted = {}
  BY DEF Init, Placed, Counted
<1>3. Counts
  BY <1>2, FS_EmptySet, ErrGroupAssumption DEF Counts, Init, NewGroup
<1>4. \A k \in 1..n : Element(k)
  BY <1>1 DEF Init, Element, Types
<1> QED BY <1>1, <1>3, <1>4 DEF Inv, Init, PanicAsAsked

(* A step of the goroutine of k takes it from one place to another and leaves
   the caller alone. *)
LEMMA TaskCounts ==
    ASSUME Inv, NEW k \in 1..n, NEW place \in Place, at' = [at EXCEPT ![k] = place],
           UNCHANGED n
    PROVE  /\ Placed' = IF place \in {"fn", "store", "zero", "leave", "unwind"}
                        THEN Placed \cup {k} ELSE Placed \ {k}
           /\ Counted' = IF place \in {"fn", "store", "zero", "leave", "unwind",
                                       "out", "unwound"}
                         THEN Counted \cup {k} ELSE Counted \ {k}
BY DEF Inv, Types, Placed, Counted

(* The steps of a goroutine. *)
LEMMA TaskStep ==
    ASSUME Inv, alive, NEW k \in 1..n, Task(k)
    PROVE  Inv'
<1> USE DEF Inv
<1>0. /\ UNCHANGED <<opts, n, i, pc>>
      /\ at[k] # "none" /\ opts.async /\ k < i
      /\ IsFiniteSet(Placed) /\ IsFiniteSet(Counted)
      /\ Cardinality(Placed) \in Nat /\ Cardinality(Counted) \in Nat
      /\ Limit \in Nat
  BY Finite, ErrGroupAssumption
     DEF Task, FnReturn, FnPanic, Store, Leave, CountOut, Crash, Goto, Element
<1>1. CASE FnReturn(k)
  <2>1. PICK r \in Answers : did' = [did EXCEPT ![k] = r]
    BY <1>1 DEF FnReturn
  <2>2. r \in Seq(Val) /\ r # Uncalled
    BY AnswerIsNoMark DEF Types
  <2>3. at' = [at EXCEPT ![k] = "store"] /\ at[k] = "fn" /\ UNCHANGED <<group, alive>>
    BY <1>1 DEF FnReturn, Goto
  <2>4. Types'
    BY <1>0, <2>1, <2>2, <2>3 DEF Types, Place
  <2>5. Placed' = Placed /\ Counted' = Counted
    <3>1. Placed' = Placed \cup {k} /\ Counted' = Counted \cup {k}
      BY <1>0, <2>3, TaskCounts DEF Place
    <3> QED BY <2>3, <3>1 DEF Placed, Counted
  <2>6. Counts'
    BY <2>3, <2>5 DEF Counts
  <2>7. \A j \in 1..n : Element(j)'
    BY <1>0, <2>1, <2>2, <2>3 DEF Types, Element
  <2> QED BY <1>0, <2>3, <2>4, <2>6, <2>7 DEF PanicAsAsked, Types
<1>2. CASE FnPanic(k)
  <2> DEFINE place == IF opts.isPanic THEN "unwind" ELSE "zero"
  <2>1. /\ did' = [did EXCEPT ![k] = Panicked]
        /\ at' = [at EXCEPT ![k] = place] /\ at[k] = "fn" /\ UNCHANGED <<group, alive>>
    BY <1>2 DEF FnPanic, Goto
  <2>2. place \in {"unwind", "zero"} /\ place \in Place /\ (place = "unwind" => opts.isPanic)
    BY DEF Place
  <2> HIDE DEF place
  <2>4. Types'
    BY <1>0, <2>1, <2>2 DEF Types
  <2>3. k \in Placed /\ k \in Counted
    BY <2>1 DEF Placed, Counted
  <2>5. Placed' = Placed /\ Counted' = Counted
    <3>1. Placed' = Placed \cup {k} /\ Counted' = Counted \cup {k}
      BY <1>0, <2>1, <2>2, TaskCounts
    <3> QED BY <2>3, <3>1
  <2>6. Counts'
    BY <2>1, <2>5 DEF Counts
  <2>7. \A j \in 1..n : Element(j)'
    BY <1>0, <2>1, <2>2, FlexAssumption DEF Types, Element
  <2> QED BY <1>0, <2>1, <2>4, <2>6, <2>7 DEF PanicAsAsked, Types
<1>3. CASE Store(k)
  <2>3. /\ at' = [at EXCEPT ![k] = "leave"] /\ at[k] \in {"store", "zero"}
        /\ UNCHANGED <<group, alive, did>>
    BY <1>3 DEF Store, Goto
  <2>4. Types'
    BY <1>0, <2>3 DEF Types, Place
  <2>5. Placed' = Placed /\ Counted' = Counted
    BY <1>0, <2>3, TaskCounts DEF Placed, Counted, Place
  <2>6. Counts'
    BY <2>3, <2>5 DEF Counts
  <2>7. \A j \in 1..n : Element(j)'
    BY <1>0, <2>3 DEF Types, Element
  <2> QED BY <1>0, <2>3, <2>4, <2>6, <2>7 DEF PanicAsAsked, Types
<1>4. CASE Leave(k)
  <2> DEFINE place == IF at[k] = "leave" THEN "out" ELSE "unwound"
  <2>1. /\ group' = [group EXCEPT !.places = @ + 1]
        /\ at' = [at EXCEPT ![k] = place] /\ at[k] \in {"leave", "unwind"}
        /\ UNCHANGED <<alive, did>>
    BY <1>4 DEF Leave, Goto, PlaceGiven
  <2>2. /\ place \in {"out", "unwound"} /\ place \in Place
        /\ place = "unwound" => at[k] = "unwind"
    BY <2>1 DEF Place
  <2> HIDE DEF place
  <2>4. Types'
    BY <1>0, <2>1, <2>2 DEF Types
  <2>3. k \in Placed /\ k \in Counted
    BY <2>1 DEF Placed, Counted
  <2>5. Placed' = Placed \ {k} /\ k \in Placed /\ Counted' = Counted
    <3>1. Placed' = Placed \ {k} /\ Counted' = Counted \cup {k}
      BY <1>0, <2>1, <2>2, TaskCounts
    <3> QED BY <2>3, <3>1
  <2>6. Cardinality(Placed') = Cardinality(Placed) - 1
    BY <1>0, <2>5, FS_RemoveElement
  <2>7. Counts'
    BY <1>0, <2>1, <2>5, <2>6 DEF Counts, Types
  <2>8. \A j \in 1..n : Element(j)'
    BY <1>0, <2>1, <2>2 DEF Types, Element
  <2> QED BY <1>0, <2>1, <2>4, <2>7, <2>8 DEF PanicAsAsked, Types
<1>5. CASE CountOut(k)
  <2> DEFINE place == IF at[k] = "out" THEN "over" ELSE "dying"
  <2>1. /\ group' = [group EXCEPT !.tasks = @ - 1]
        /\ at' = [at EXCEPT ![k] = place] /\ at[k] \in {"out", "unwound"}
        /\ UNCHANGED <<alive, did>>
    BY <1>5 DEF CountOut, Goto, CountedOut
  <2>2. /\ place \in {"over", "dying"} /\ place \in Place
        /\ place = "dying" => at[k] = "unwound"
    BY <2>1 DEF Place
  <2> HIDE DEF place
  <2>4. Types'
    BY <1>0, <2>1, <2>2 DEF Types
  <2>5. Placed' = Placed /\ Counted' = Counted \ {k} /\ k \in Counted
    BY <1>0, <2>1, <2>2, TaskCounts DEF Placed, Counted
  <2>6. Cardinality(Counted') = Cardinality(Counted) - 1 /\ Cardinality(Counted) # 0
    BY <1>0, <2>5, FS_RemoveElement, FS_EmptySet
  <2>7. Counts' /\ group.tasks # 0
    BY <1>0, <2>1, <2>5, <2>6 DEF Counts, Types
  <2>8. \A j \in 1..n : Element(j)'
    BY <1>0, <2>1, <2>2 DEF Types, Element
  <2> QED BY <1>0, <2>1, <2>4, <2>7, <2>8 DEF PanicAsAsked, Types
<1>6. CASE Crash(k)
  <2>1. at[k] = "dying" /\ alive' = FALSE /\ UNCHANGED <<at, group, did>>
    BY <1>6 DEF Crash
  <2>2. Types' /\ Counts' /\ \A j \in 1..n : Element(j)'
    BY <1>0, <2>1 DEF Types, Counts, Element, Placed, Counted
  <2>3. opts.isPanic /\ did[k] = Panicked
    BY <2>1 DEF Element
  <2> QED BY <1>0, <2>1, <2>2, <2>3 DEF PanicAsAsked, Types
<1> QED BY <1>1, <1>2, <1>3, <1>4, <1>5, <1>6 DEF Task

(* The steps of the caller. *)
LEMMA CallerStep ==
    ASSUME Inv, Caller
    PROVE  Inv'
<1> USE DEF Inv
<1>0. /\ n \in Int /\ i \in Int /\ 1 <= i /\ i <= n + 1 /\ pc = "loop"
      /\ opts \in Option /\ UNCHANGED <<opts, n, alive>>
  BY FlexAssumption DEF Types, Caller, CallFn, Go, Return
<1>1. CASE CallFn
  <2>1. /\ ~opts.async /\ i <= n /\ UNCHANGED <<at, group>>
        /\ i \in 1..n
    BY <1>0, <1>1 DEF CallFn
  <2>2. Placed' = Placed /\ Counted' = Counted /\ Counts'
    BY <1>0, <2>1 DEF Counts, Placed, Counted
  <2>3. CASE i' = i + 1 /\ UNCHANGED pc /\ \E r \in Answers : did' = [did EXCEPT ![i] = r]
    <3>1. PICK r \in Answers : did' = [did EXCEPT ![i] = r]
      BY <2>3
    <3>2. r \in Seq(Val) /\ r # Uncalled
      BY <1>0, AnswerIsNoMark
    <3>3. Types'
      BY <1>0, <2>1, <2>3, <3>1, <3>2 DEF Types
    <3>4. \A k \in 1..n : Element(k)'
      BY <1>0, <2>1, <2>3, <3>1, <3>2 DEF Types, Element
    <3> QED BY <1>0, <2>1, <2>2, <2>3, <3>3, <3>4 DEF PanicAsAsked
  <2>4. CASE did' = [did EXCEPT ![i] = Panicked] /\ pc' = "panicked" /\ UNCHANGED i
    <3>1. Types'
      BY <1>0, <2>1, <2>4 DEF Types
    <3>2. \A k \in 1..n : Element(k)'
      BY <1>0, <2>1, <2>4 DEF Types, Element
    <3> QED BY <1>0, <2>1, <2>2, <2>4, <3>1, <3>2 DEF PanicAsAsked, Types
  <2> QED BY <1>1, <2>3, <2>4 DEF CallFn
<1>2. CASE Go
  <2>1. /\ opts.async /\ i \in 1..n /\ group.places > 0
        /\ group' = [places |-> group.places - 1, tasks |-> group.tasks + 1]
        /\ at' = [at EXCEPT ![i] = "fn"] /\ i' = i + 1 /\ UNCHANGED <<pc, did>>
    BY <1>0, <1>2 DEF Go, HasPlace, Started
  <2>2. at[i] = "none"
    BY <1>0, <2>1 DEF Element
  <2>3. Types'
    BY <1>0, <2>1 DEF Types, Place
  <2>4. i \notin Placed /\ i \notin Counted
    BY <2>2 DEF Placed, Counted
  <2>5. Placed' = Placed \cup {i} /\ Counted' = Counted \cup {i}
    BY <1>0, <2>1, TaskCounts DEF Place
  <2>6. /\ Cardinality(Placed') = Cardinality(Placed) + 1
        /\ Cardinality(Counted') = Cardinality(Counted) + 1
        /\ Cardinality(Placed) \in Nat /\ Cardinality(Counted) \in Nat
    BY <2>4, <2>5, Finite, FS_AddElement
  <2>7. Counts'
    BY <2>1, <2>6, ErrGroupAssumption DEF Counts, Types
  <2>8. \A k \in 1..n : Element(k)'
    BY <1>0, <2>1, <2>2 DEF Types, Element
  <2> QED BY <1>0, <2>1, <2>3, <2>7, <2>8 DEF PanicAsAsked
<1>3. CASE Return
  <2>1. /\ i > n /\ group.tasks = 0 /\ pc' = "returned"
        /\ UNCHANGED <<i, at, group, did>>
    BY <1>3 DEF Return, AllOut
  <2>2. Types' /\ Counts' /\ \A k \in 1..n : Element(k)'
    BY <1>0, <2>1 DEF Types, Counts, Element, Placed, Counted
  <2> QED BY <1>0, <2>1, <2>2 DEF PanicAsAsked
<1> QED BY <1>1, <1>2, <1>3 DEF Caller

LEMMA InvNext == Inv /\ [Next]_vars => Inv'
<1> SUFFICES ASSUME Inv, [Next]_vars PROVE Inv'
  OBVIOUS
<1>1. CASE Next
  BY <1>1, CallerStep, TaskStep DEF Next
<1>2. CASE UNCHANGED vars
  BY <1>2 DEF vars, Inv, Types, Counts, Element, Placed, Counted, PanicAsAsked
<1> QED BY <1>1, <1>2

(* The invariant behind the results below: the group's two counts count the
   goroutines by their places, and each goroutine's place fits what fn did. *)
THEOREM AlwaysInv == Spec => []Inv
BY InvInit, InvNext, PTL DEF Spec

(* When Flex has returned, fn has ended for every element and no goroutine will
   write a slot: wg.Wait (line 46) covers each task that was started. *)
THEOREM JoinCorrect == Spec => []Joined
<1>1. ASSUME Inv, pc = "returned", NEW k \in 1..n
      PROVE  did[k] # Uncalled /\ at[k] \in {"none", "over", "dying"}
  <2>1. Counted = {} /\ k < i
    BY <1>1, Finite, FS_EmptySet DEF Inv, Counts, Types
  <2>2. at[k] \in {"none", "over", "dying"}
    BY <1>1, <2>1 DEF Inv, Types, Place, Counted, Placed
  <2> QED BY <1>1, <2>1, <2>2 DEF Inv, Element, Types, Option
<1>2. Inv => Joined
  BY <1>1 DEF Joined
<1> QED BY <1>2, AlwaysInv, PTL

(* Never more than GOMAXPROCS elements are being mapped (line 24). *)
THEOREM LimitCorrect == Spec => []LimitKept
<1>1. ASSUME Inv PROVE LimitKept
  <2>1. {k \in 1..n : at[k] = "fn"} \in SUBSET Placed
    BY DEF Placed
  <2>2. /\ Cardinality({k \in 1..n : at[k] = "fn"}) <= Cardinality(Placed)
        /\ IsFiniteSet({k \in 1..n : at[k] = "fn"})
    BY <1>1, <2>1, Finite, FS_Subset DEF Inv
  <2>3. Cardinality({k \in 1..n : at[k] = "fn"}) \in Nat
    BY <2>2, FS_CardinalityType
  <2> QED BY <1>1, <2>2, <2>3, Finite, ErrGroupAssumption DEF Inv, Counts, Types, LimitKept
<1> QED BY <1>1, AlwaysInv, PTL

(* A panic of fn reaches the caller, or ends the process, only as the options
   say (lines 28-33 and 50). *)
THEOREM PanicCorrect == Spec => []PanicAsAsked
<1>1. Inv => PanicAsAsked
  BY DEF Inv
<1> QED BY <1>1, AlwaysInv, PTL

-----------------------------------------------------------------------------
(* The loops of Filter and Distinct, by what the last value adds. *)
Empty == <<>>

(* What a value adds in Filter, and the function behind Filtered(s). *)
FilterNext(had, v) == IF Kept(v) THEN Append(had, v) ELSE had

FilterOf(s, f) == f = [k \in 0..Len(s) |-> IF k = 0 THEN Empty ELSE FilterNext(f[k - 1], s[k])]

FilterRun(s, f) ==
    /\ f \in [0..Len(s) -> Seq(Val)] /\ f[0] = Empty
    /\ \A k \in 1..Len(s) : f[k] = FilterNext(f[k - 1], s[k])

LEMMA FilterNextType ==
    ASSUME NEW had \in Seq(Val), NEW v \in Val
    PROVE  FilterNext(had, v) \in Seq(Val)
BY DEF FilterNext

LEMMA FilteredIs ==
    ASSUME NEW s \in Seq(Val)
    PROVE  \E f : FilterRun(s, f) /\ Filtered(s) = f[Len(s)]
PROOF
<1> DEFINE len == Len(s)
<1>1. /\ len \in Nat /\ len \in 0..len /\ 0 \in 0..len
      /\ \A k \in 1..len : k \in 0..len /\ k # 0 /\ k - 1 \in 0..len /\ s[k] \in Val
      /\ \A k \in 0..len : k = 0 \/ k \in 1..len
  OBVIOUS
<1> HIDE DEF len
<1>2. \E f : FilterRun(s, f)
  <2> DEFINE step == [k \in 1..len |-> [had \in Seq(Val) |-> FilterNext(had, s[k])]]
  <2>1. \A k \in 1..len : \A had \in Seq(Val) :
          step[k][had] = FilterNext(had, s[k]) /\ step[k][had] \in Seq(Val)
    BY <1>1, FilterNextType
  <2> HIDE DEF step
  <2>2. Steps(len, Seq(Val), Empty, step)
    BY <1>1, <2>1 DEF Steps, Empty
  <2>3. PICK f : Carries(f, len, Seq(Val), Empty, step)
    BY <2>2, RecursionExists
  <2>4. FilterRun(s, f)
    BY <1>1, <2>1, <2>3 DEF Carries, FilterRun, len
  <2> QED BY <2>4
<1>3. PICK f : FilterRun(s, f)
  BY <1>2
<1>4. FilterOf(s, f)
  <2>1. \A k \in 0..len : f[k] = IF k = 0 THEN Empty ELSE FilterNext(f[k - 1], s[k])
    BY <1>1, <1>3 DEF FilterRun, len
  <2> QED BY <1>3, <2>1 DEF FilterOf, FilterRun, len
<1> DEFINE g == CHOOSE g : FilterOf(s, g)
<1>5. Filtered(s) = g[len]
  BY DEF Filtered, Gather, FilterOf, FilterNext, Empty, len
<1>6. FilterOf(s, g)
  BY <1>4
<1> HIDE DEF g
<1>7. g[0] = Empty /\ \A k \in 1..len : g[k] = FilterNext(g[k - 1], s[k])
  <2>1. \A k \in 0..len : g[k] = IF k = 0 THEN Empty ELSE FilterNext(g[k - 1], s[k])
    BY <1>6 DEF FilterOf, len
  <2> QED BY <1>1, <2>1
<1>8. f[0] = g[0] /\ \A k \in 1..len : f[k - 1] = g[k - 1] => f[k] = g[k]
  BY <1>3, <1>7 DEF FilterRun, len
<1>9. f[len] = g[len]
  <2>1. len \in Nat
    BY <1>1
  <2>2. \A k \in 0..len : f[k] = g[k]
    BY <1>8, <2>1, SameSteps
  <2> QED BY <1>1, <2>2
<1> QED BY <1>3, <1>5, <1>9 DEF len

LEMMA FilteredSteps ==
    /\ Filtered(<<>>) = <<>>
    /\ \A s \in Seq(Val) : \A v \in Val :
         Filtered(s) \in Seq(Val) /\ Filtered(Append(s, v)) = FilterNext(Filtered(s), v)
PROOF
<1>1. ASSUME NEW s \in Seq(Val), Len(s) = 0 PROVE Filtered(s) = Empty
  <2>1. PICK f : FilterRun(s, f) /\ Filtered(s) = f[Len(s)]
    BY FilteredIs
  <2> QED BY <1>1, <2>1 DEF FilterRun
<1>2. Filtered(<<>>) = <<>>
  <2>1. Empty \in Seq(Val) /\ Len(Empty) = 0
    BY DEF Empty
  <2>2. Filtered(Empty) = Empty
    BY <1>1, <2>1
  <2> QED BY <2>2 DEF Empty
<1>3. ASSUME NEW s \in Seq(Val), NEW v \in Val
      PROVE  Filtered(s) \in Seq(Val) /\ Filtered(Append(s, v)) = FilterNext(Filtered(s), v)
  <2> DEFINE t == Append(s, v)
             len == Len(s)
  <2>1. /\ t \in Seq(Val) /\ Len(t) = len + 1 /\ len \in Nat /\ t[len + 1] = v
        /\ \A k \in 1..len : t[k] = s[k]
    OBVIOUS
  <2> HIDE DEF t
  <2>2. PICK f : FilterRun(s, f) /\ Filtered(s) = f[len]
    BY FilteredIs
  <2>3. PICK g : FilterRun(t, g) /\ Filtered(t) = g[Len(t)]
    BY <2>1, FilteredIs
  <2> HIDE DEF len
  <2>4. /\ \A k \in 1..len : k \in 1..len + 1
        /\ len \in 0..len /\ len + 1 \in 1..len + 1 /\ (len + 1) - 1 = len
    BY <2>1
  <2>5. f[0] = g[0] /\ \A k \in 1..len : f[k - 1] = g[k - 1] => f[k] = g[k]
    <3>1. \A k \in 1..len : f[k] = FilterNext(f[k - 1], s[k])
      BY <2>2 DEF FilterRun, len
    <3>2. \A k \in 1..len + 1 : g[k] = FilterNext(g[k - 1], t[k])
      BY <2>1, <2>3 DEF FilterRun
    <3> QED BY <2>1, <2>2, <2>3, <2>4, <3>1, <3>2 DEF FilterRun
  <2>6. g[len] = f[len]
    <3>1. len \in Nat
      BY <2>1
    <3>2. \A k \in 0..len : f[k] = g[k]
      BY <2>5, <3>1, SameSteps
    <3> QED BY <2>4, <3>2
  <2>7. g[len + 1] = FilterNext(g[len], v)
    BY <2>1, <2>3, <2>4 DEF FilterRun
  <2>8. f[len] \in Seq(Val)
    BY <2>2, <2>4 DEF FilterRun, len
  <2> QED BY <2>1, <2>2, <2>3, <2>6, <2>7, <2>8 DEF t
<1> QED BY <1>2, <1>3

(* The same of Distinct. *)
DistinctNext(had, v) == IF v \notin Range(had) THEN Append(had, v) ELSE had

DistinctOf(s, f) == f = [k \in 0..Len(s) |-> IF k = 0 THEN Empty ELSE DistinctNext(f[k - 1], s[k])]

DistinctRun(s, f) ==
    /\ f \in [0..Len(s) -> Seq(Val)] /\ f[0] = Empty
    /\ \A k \in 1..Len(s) : f[k] = DistinctNext(f[k - 1], s[k])

LEMMA DistinctNextType ==
    ASSUME NEW had \in Seq(Val), NEW v \in Val
    PROVE  DistinctNext(had, v) \in Seq(Val)
BY DEF DistinctNext

LEMMA DistinctIs ==
    ASSUME NEW s \in Seq(Val)
    PROVE  \E f : DistinctRun(s, f) /\ Distinct(s) = f[Len(s)]
PROOF
<1> DEFINE len == Len(s)
<1>1. /\ len \in Nat /\ len \in 0..len /\ 0 \in 0..len
      /\ \A k \in 1..len : k \in 0..len /\ k # 0 /\ k - 1 \in 0..len /\ s[k] \in Val
      /\ \A k \in 0..len : k = 0 \/ k \in 1..len
  OBVIOUS
<1> HIDE DEF len
<1>2. \E f : DistinctRun(s, f)
  <2> DEFINE step == [k \in 1..len |-> [had \in Seq(Val) |-> DistinctNext(had, s[k])]]
  <2>1. \A k \in 1..len : \A had \in Seq(Val) :
          step[k][had] = DistinctNext(had, s[k]) /\ step[k][had] \in Seq(Val)
    BY <1>1, DistinctNextType
  <2> HIDE DEF step
  <2>2. Steps(len, Seq(Val), Empty, step)
    BY <1>1, <2>1 DEF Steps, Empty
  <2>3. PICK f : Carries(f, len, Seq(Val), Empty, step)
    BY <2>2, RecursionExists
  <2>4. DistinctRun(s, f)
    BY <1>1, <2>1, <2>3 DEF Carries, DistinctRun, len
  <2> QED BY <2>4
<1>3. PICK f : DistinctRun(s, f)
  BY <1>2
<1>4. DistinctOf(s, f)
  <2>1. \A k \in 0..len : f[k] = IF k = 0 THEN Empty ELSE DistinctNext(f[k - 1], s[k])
    BY <1>1, <1>3 DEF DistinctRun, len
  <2> QED BY <1>3, <2>1 DEF DistinctOf, DistinctRun, len
<1> DEFINE g == CHOOSE g : DistinctOf(s, g)
<1>5. Distinct(s) = g[len]
  BY DEF Distinct, Gather, DistinctOf, DistinctNext, Empty, len
<1>6. DistinctOf(s, g)
  BY <1>4
<1> HIDE DEF g
<1>7. g[0] = Empty /\ \A k \in 1..len : g[k] = DistinctNext(g[k - 1], s[k])
  <2>1. \A k \in 0..len : g[k] = IF k = 0 THEN Empty ELSE DistinctNext(g[k - 1], s[k])
    BY <1>6 DEF DistinctOf, len
  <2> QED BY <1>1, <2>1
<1>8. f[0] = g[0] /\ \A k \in 1..len : f[k - 1] = g[k - 1] => f[k] = g[k]
  BY <1>3, <1>7 DEF DistinctRun, len
<1>9. f[len] = g[len]
  <2>1. len \in Nat
    BY <1>1
  <2>2. \A k \in 0..len : f[k] = g[k]
    BY <1>8, <2>1, SameSteps
  <2> QED BY <1>1, <2>2
<1> QED BY <1>3, <1>5, <1>9 DEF len

LEMMA DistinctSteps ==
    /\ Distinct(<<>>) = <<>>
    /\ \A s \in Seq(Val) : \A v \in Val :
         Distinct(s) \in Seq(Val) /\ Distinct(Append(s, v)) = DistinctNext(Distinct(s), v)
PROOF
<1>1. ASSUME NEW s \in Seq(Val), Len(s) = 0 PROVE Distinct(s) = Empty
  <2>1. PICK f : DistinctRun(s, f) /\ Distinct(s) = f[Len(s)]
    BY DistinctIs
  <2> QED BY <1>1, <2>1 DEF DistinctRun
<1>2. Distinct(<<>>) = <<>>
  <2>1. Empty \in Seq(Val) /\ Len(Empty) = 0
    BY DEF Empty
  <2>2. Distinct(Empty) = Empty
    BY <1>1, <2>1
  <2> QED BY <2>2 DEF Empty
<1>3. ASSUME NEW s \in Seq(Val), NEW v \in Val
      PROVE  Distinct(s) \in Seq(Val) /\ Distinct(Append(s, v)) = DistinctNext(Distinct(s), v)
  <2> DEFINE t == Append(s, v)
             len == Len(s)
  <2>1. /\ t \in Seq(Val) /\ Len(t) = len + 1 /\ len \in Nat /\ t[len + 1] = v
        /\ \A k \in 1..len : t[k] = s[k]
    OBVIOUS
  <2> HIDE DEF t
  <2>2. PICK f : DistinctRun(s, f) /\ Distinct(s) = f[len]
    BY DistinctIs
  <2>3. PICK g : DistinctRun(t, g) /\ Distinct(t) = g[Len(t)]
    BY <2>1, DistinctIs
  <2> HIDE DEF len
  <2>4. /\ \A k \in 1..len : k \in 1..len + 1
        /\ len \in 0..len /\ len + 1 \in 1..len + 1 /\ (len + 1) - 1 = len
    BY <2>1
  <2>5. f[0] = g[0] /\ \A k \in 1..len : f[k - 1] = g[k - 1] => f[k] = g[k]
    <3>1. \A k \in 1..len : f[k] = DistinctNext(f[k - 1], s[k])
      BY <2>2 DEF DistinctRun, len
    <3>2. \A k \in 1..len + 1 : g[k] = DistinctNext(g[k - 1], t[k])
      BY <2>1, <2>3 DEF DistinctRun
    <3> QED BY <2>1, <2>2, <2>3, <2>4, <3>1, <3>2 DEF DistinctRun
  <2>6. g[len] = f[len]
    <3>1. len \in Nat
      BY <2>1
    <3>2. \A k \in 0..len : f[k] = g[k]
      BY <2>5, <3>1, SameSteps
    <3> QED BY <2>4, <3>2
  <2>7. g[len + 1] = DistinctNext(g[len], v)
    BY <2>1, <2>3, <2>4 DEF DistinctRun
  <2>8. f[len] \in Seq(Val)
    BY <2>2, <2>4 DEF DistinctRun, len
  <2> QED BY <2>1, <2>2, <2>3, <2>6, <2>7, <2>8 DEF t
<1> QED BY <1>2, <1>3

-----------------------------------------------------------------------------
(* The values of a sequence that has become one longer. *)
LEMMA RangeAppend ==
    ASSUME NEW s \in Seq(Val), NEW v \in Val
    PROVE  Range(Append(s, v)) = Range(s) \cup {v}
PROOF
<1>1. /\ Len(Append(s, v)) = Len(s) + 1 /\ Len(s) \in Nat
      /\ \A k \in 1..Len(s) : k \in 1..Len(s) + 1 /\ Append(s, v)[k] = s[k]
      /\ Len(s) + 1 \in 1..Len(s) + 1 /\ Append(s, v)[Len(s) + 1] = v
      /\ \A k \in 1..Len(s) + 1 : k = Len(s) + 1 \/ k \in 1..Len(s)
      /\ DOMAIN Append(s, v) = 1..Len(s) + 1 /\ DOMAIN s = 1..Len(s)
  OBVIOUS
<1> QED BY <1>1 DEF Range

(* Nothing is in an empty sequence. *)
LEMMA RangeEmpty == Range(Empty) = {}
BY DEF Range, Empty

LEMMA EmptyIs == Empty \in Seq(Val) /\ Len(Empty) = 0
BY DEF Empty

(* Distinct leaves the values as they are, Filter those that are kept. *)
LEMMA RangeDistinct ==
    ASSUME NEW s \in Seq(Val)
    PROVE  Range(Distinct(s)) = Range(s)
PROOF
<1> DEFINE T == {t \in Seq(Val) : Range(Distinct(t)) = Range(t)}
<1>1. <<>> \in T
  BY EmptyIs, DistinctSteps DEF Empty
<1>2. ASSUME NEW t \in Seq(Val), NEW v \in Val, t \in T
      PROVE  Append(t, v) \in T
  <2>1. /\ Distinct(t) \in Seq(Val) /\ Range(Distinct(t)) = Range(t)
        /\ Distinct(Append(t, v)) = DistinctNext(Distinct(t), v)
    BY <1>2, DistinctSteps
  <2>2. Range(Append(t, v)) = Range(t) \cup {v}
    BY RangeAppend
  <2>3. Range(Append(Distinct(t), v)) = Range(t) \cup {v}
    BY <2>1, RangeAppend
  <2>4. Append(t, v) \in Seq(Val)
    OBVIOUS
  <2> QED BY <2>1, <2>2, <2>3, <2>4 DEF DistinctNext
<1>3. \A t \in Seq(Val) : t \in T
  <2> HIDE DEF T
  <2> QED BY <1>1, <1>2, SequenceInduction
<1> QED BY <1>3

LEMMA RangeFiltered ==
    ASSUME NEW s \in Seq(Val)
    PROVE  Range(Filtered(s)) = {v \in Range(s) : Kept(v)}
PROOF
<1> DEFINE T == {t \in Seq(Val) : Range(Filtered(t)) = {v \in Range(t) : Kept(v)}}
<1>1. <<>> \in T
  <2>1. Range(<<>>) = {} /\ Filtered(<<>>) = <<>>
    BY RangeEmpty, FilteredSteps DEF Empty
  <2> QED BY <2>1
<1>2. ASSUME NEW t \in Seq(Val), NEW v \in Val, t \in T
      PROVE  Append(t, v) \in T
  <2>1. /\ Filtered(t) \in Seq(Val) /\ Range(Filtered(t)) = {w \in Range(t) : Kept(w)}
        /\ Filtered(Append(t, v)) = FilterNext(Filtered(t), v)
    BY <1>2, FilteredSteps
  <2>2. Range(Append(t, v)) = Range(t) \cup {v}
    BY RangeAppend
  <2>3. Range(Append(Filtered(t), v)) = Range(Filtered(t)) \cup {v}
    BY <2>1, RangeAppend
  <2>4. Append(t, v) \in Seq(Val)
    OBVIOUS
  <2> QED BY <2>1, <2>2, <2>3, <2>4 DEF FilterNext
<1>3. \A t \in Seq(Val) : t \in T
  <2> HIDE DEF T
  <2> QED BY <1>1, <1>2, SequenceInduction
<1> QED BY <1>3

(* What the last value adds to the whole of applyFlexOption. *)
Takes(s, v) == Wanted(v) /\ (opts.distinct => v \notin Range(s))

LEMMA AppliedSteps ==
    ASSUME opts \in Option
    PROVE  /\ Applied(Empty) = Empty
           /\ \A s \in Seq(Val) : \A v \in Val :
                /\ Applied(s) \in Seq(Val)
                /\ Applied(Append(s, v)) =
                     IF Takes(s, v) THEN Append(Applied(s), v) ELSE Applied(s)
PROOF
<1>1. Applied(Empty) = Empty
  BY FilteredSteps, DistinctSteps DEF Applied, Empty
<1>2. ASSUME NEW s \in Seq(Val), NEW v \in Val
      PROVE  /\ Applied(s) \in Seq(Val)
             /\ Applied(Append(s, v)) =
                  IF Takes(s, v) THEN Append(Applied(s), v) ELSE Applied(s)
  <2>1. /\ Filtered(s) \in Seq(Val)
        /\ Filtered(Append(s, v)) = IF Kept(v) THEN Append(Filtered(s), v) ELSE Filtered(s)
    BY FilteredSteps DEF FilterNext
  <2>2. /\ Distinct(Filtered(s)) \in Seq(Val)
        /\ Distinct(Append(Filtered(s), v)) =
             IF v \notin Range(Distinct(Filtered(s)))
             THEN Append(Distinct(Filtered(s)), v) ELSE Distinct(Filtered(s))
    BY <2>1, DistinctSteps DEF DistinctNext
  <2>3. Range(Distinct(Filtered(s))) = {w \in Range(s) : Kept(w)}
    BY <2>1, RangeDistinct, RangeFiltered
  <2>4. Kept(v) <=> Wanted(v)
    BY DEF Kept, Wanted
  <2>5. CASE opts.distinct
    BY <2>1, <2>2, <2>3, <2>4, <2>5 DEF Applied, Takes
  <2>6. CASE ~opts.distinct
    BY <2>1, <2>4, <2>6 DEF Applied, Takes
  <2> QED BY <2>5, <2>6
<1> QED BY <1>1, <1>2

LEMMA WantedAtSteps ==
    ASSUME NEW s \in Seq(Val), NEW v \in Val
    PROVE  /\ WantedAt(s) \in SUBSET (1..Len(s))
           /\ WantedAt(Append(s, v)) =
                IF Takes(s, v) THEN WantedAt(s) \cup {Len(s) + 1} ELSE WantedAt(s)
PROOF
<1> DEFINE t == Append(s, v)
           len == Len(s)
<1>1. /\ Len(t) = len + 1 /\ len \in Nat
      /\ DOMAIN t = 1..len + 1 /\ DOMAIN s = 1..len
      /\ \A k \in 1..len : t[k] = s[k]
      /\ t[len + 1] = v
  OBVIOUS
<1> HIDE DEF t, len
<1>2. /\ \A k \in 1..len : 1..k - 1 \in SUBSET (1..len)
      /\ 1..len + 1 = (1..len) \cup {len + 1} /\ len + 1 \notin 1..len
      /\ 1..(len + 1) - 1 = 1..len
  BY <1>1
<1>3. \A k \in 1..len : k \in WantedAt(t) <=> k \in WantedAt(s)
  BY <1>1, <1>2 DEF WantedAt
<1>4. len + 1 \in WantedAt(t) <=> Takes(s, v)
  BY <1>1, <1>2 DEF WantedAt, Takes, Range
<1>5. WantedAt(t) \in SUBSET (1..len + 1) /\ WantedAt(s) \in SUBSET (1..len)
  BY <1>1 DEF WantedAt
<1>6. WantedAt(t) = IF Takes(s, v) THEN WantedAt(s) \cup {len + 1} ELSE WantedAt(s)
  <2>1. \A k \in 1..len + 1 : k \in 1..len \/ k = len + 1
    BY <1>2
  <2>2. CASE Takes(s, v)
    <3>1. \A k : k \in WantedAt(t) <=> k \in WantedAt(s) \cup {len + 1}
      BY <1>3, <1>4, <1>5, <2>1, <2>2
    <3> QED BY <2>2, <3>1
  <2>3. CASE ~Takes(s, v)
    <3>1. \A k : k \in WantedAt(t) <=> k \in WantedAt(s)
      BY <1>3, <1>4, <1>5, <2>1, <2>3
    <3> QED BY <2>3, <3>1
  <2> QED BY <2>2, <2>3
<1> QED BY <1>5, <1>6 DEF t, len

(* r holds the values of s at the places in W, in the order of the places. *)
Rank(W, k) == Cardinality({j \in W : j <= k})

Picks(r, s, W) ==
    /\ r \in Seq(Val) /\ IsFiniteSet(W) /\ W \in SUBSET (1..Len(s)) /\ Len(r) = Cardinality(W)
    /\ \A k \in W : Rank(W, k) \in 1..Len(r)
    /\ \A m \in 1..Len(r) : \E k \in W :
         Rank(W, k) = m /\ r[m] = s[k] /\ \A j \in W : Rank(W, j) = m => j = k

(* One more place, behind the others. *)
LEMMA PicksMore ==
    ASSUME NEW s \in Seq(Val), NEW v \in Val, NEW r \in Seq(Val), NEW W, Picks(r, s, W)
    PROVE  /\ Picks(r, Append(s, v), W)
           /\ Picks(Append(r, v), Append(s, v), W \cup {Len(s) + 1})
PROOF
<1> DEFINE t == Append(s, v)
           len == Len(s)
           q == Append(r, v)
           c == Len(r)
           X == W \cup {len + 1}
<1>1. /\ Len(t) = len + 1 /\ len \in Nat /\ t[len + 1] = v
      /\ \A k \in 1..len : t[k] = s[k]
      /\ q \in Seq(Val) /\ Len(q) = c + 1 /\ c \in Nat /\ q[c + 1] = v
      /\ \A k \in 1..c : q[k] = r[k] /\ k \in 1..c + 1 /\ k # c + 1
      /\ c + 1 \in 1..c + 1
  OBVIOUS
<1>2. IsFiniteSet(W) /\ W \in SUBSET (1..len) /\ c = Cardinality(W)
  BY DEF Picks
<1>3. /\ \A k \in W : Rank(W, k) \in 1..c
      /\ \A m \in 1..c : \E k \in W :
           Rank(W, k) = m /\ r[m] = s[k] /\ \A j \in W : Rank(W, j) = m => j = k
  BY DEF Picks
<1> HIDE DEF t, len, q, c
<1>4. Picks(r, t, W)
  <2>1. W \in SUBSET (1..len + 1)
    BY <1>1, <1>2
  <2> QED BY <1>1, <1>2, <1>3, <2>1 DEF Picks, c
<1>5. len + 1 \notin W /\ \A k \in W : k <= len /\ k \in Nat
  BY <1>1, <1>2
<1>6. IsFiniteSet(X) /\ Cardinality(X) = c + 1
  BY <1>2, <1>5, FS_AddElement
<1>7. \A k \in W : Rank(X, k) = Rank(W, k)
  <2> TAKE k \in W
  <2>1. {j \in X : j <= k} = {j \in W : j <= k}
    BY <1>1, <1>5
  <2> QED BY <2>1 DEF Rank
<1>8. Rank(X, len + 1) = c + 1
  <2>1. {j \in X : j <= len + 1} = X
    BY <1>1, <1>5
  <2> QED BY <1>6, <2>1 DEF Rank
<1>9. X \in SUBSET (1..len + 1)
  BY <1>1, <1>2
<1>10. \A k \in X : Rank(X, k) \in 1..c + 1
  BY <1>1, <1>3, <1>7, <1>8
<1>11. ASSUME NEW m \in 1..c + 1
       PROVE  \E k \in X : Rank(X, k) = m /\ q[m] = t[k] /\ \A j \in X : Rank(X, j) = m => j = k
  <2>1. CASE m = c + 1
    <3>1. \A j \in W : Rank(X, j) # c + 1
      BY <1>1, <1>3, <1>7
    <3> QED BY <1>1, <1>8, <2>1, <3>1
  <2>2. CASE m # c + 1
    <3>1. m \in 1..c
      BY <1>1, <2>2
    <3>2. PICK k \in W : Rank(W, k) = m /\ r[m] = s[k] /\ \A j \in W : Rank(W, j) = m => j = k
      BY <1>3, <3>1
    <3>3. q[m] = t[k]
      BY <1>1, <1>2, <3>1, <3>2
    <3>4. \A j \in X : Rank(X, j) = m => j = k
      BY <1>7, <1>8, <2>2, <3>2
    <3> QED BY <1>7, <3>2, <3>3, <3>4
  <2> QED BY <2>1, <2>2
<1>12. Picks(q, t, X)
  <2> HIDE DEF X
  <2> QED BY <1>1, <1>6, <1>9, <1>10, <1>11 DEF Picks
<1> QED BY <1>4, <1>12 DEF t, len, q

(* The options leave the wanted values, each in its place. *)
LEMMA AppliedPicks ==
    ASSUME opts \in Option, NEW s \in Seq(Val)
    PROVE  Picks(Applied(s), s, WantedAt(s))
PROOF
<1> DEFINE T == {t \in Seq(Val) : Picks(Applied(t), t, WantedAt(t))}
<1>1. <<>> \in T
  <2>1. Picks(Empty, Empty, {})
    BY EmptyIs, FS_EmptySet DEF Picks
  <2>2. WantedAt(Empty) = {}
    BY DEF WantedAt, Empty
  <2> QED BY <2>1, <2>2, EmptyIs, AppliedSteps DEF Empty
<1>2. ASSUME NEW t \in Seq(Val), NEW v \in Val, t \in T
      PROVE  Append(t, v) \in T
  <2>1. Picks(Applied(t), t, WantedAt(t)) /\ Applied(t) \in Seq(Val) /\ Append(t, v) \in Seq(Val)
    BY <1>2, AppliedSteps
  <2>2. /\ Picks(Applied(t), Append(t, v), WantedAt(t))
        /\ Picks(Append(Applied(t), v), Append(t, v), WantedAt(t) \cup {Len(t) + 1})
    BY <2>1, PicksMore
  <2> QED BY <2>1, <2>2, AppliedSteps, WantedAtSteps
<1>3. \A t \in Seq(Val) : t \in T
  <2> HIDE DEF T
  <2> QED BY <1>1, <1>2, SequenceInduction
<1> QED BY <1>3

LEMMA AppliedIsWanted ==
    ASSUME opts \in Option, NEW s \in Seq(Val)
    PROVE  Applied(s) = [m \in 1..Cardinality(WantedAt(s)) |->
                           s[CHOOSE k \in WantedAt(s) :
                               Cardinality({j \in WantedAt(s) : j <= k}) = m]]
PROOF
<1> DEFINE W == WantedAt(s)
           r == Applied(s)
<1>1. Picks(r, s, W)
  BY AppliedPicks
<1> HIDE DEF W, r
<1>2. r \in Seq(Val) /\ Len(r) = Cardinality(W)
  BY <1>1 DEF Picks
<1>3. ASSUME NEW m \in 1..Len(r)
      PROVE  r[m] = s[CHOOSE k \in W : Rank(W, k) = m]
  <2>1. PICK k \in W : Rank(W, k) = m /\ r[m] = s[k] /\ \A j \in W : Rank(W, j) = m => j = k
    BY <1>1 DEF Picks
  <2>2. (CHOOSE j \in W : Rank(W, j) = m) = k
    BY <2>1
  <2> QED BY <2>1, <2>2
<1>4. r = [m \in 1..Len(r) |-> r[m]]
  BY <1>2
<1>5. r = [m \in 1..Cardinality(W) |-> s[CHOOSE k \in W : Rank(W, k) = m]]
  BY <1>2, <1>3, <1>4
<1> QED BY <1>5 DEF W, r, Rank

-----------------------------------------------------------------------------
(* The function behind FlattenSeq(seqs): the concatenation so far. *)
FlattenOf(seqs, f) ==
    f = [k \in 1..Len(seqs) |-> IF k = 1 THEN seqs[k] ELSE f[k - 1] \o seqs[k]]

(* Sequences of values, put together, are a sequence of values. *)
LEMMA FlattenType ==
    ASSUME NEW seqs \in Seq(Seq(Val))
    PROVE  FlattenSeq(seqs) \in Seq(Val)
PROOF
<1> DEFINE len == Len(seqs)
<1>1. len \in Nat /\ \A k \in 1..len : seqs[k] \in Seq(Val)
  OBVIOUS
<1>2. CASE len = 0
  <2>1. seqs = Empty
    BY <1>2 DEF Empty
  <2> QED BY <1>2, <2>1, EmptyIs DEF FlattenSeq
<1>3. CASE len # 0
  <2> HIDE DEF len
  <2>1. /\ len - 1 \in Nat /\ 1 \in 1..len /\ len \in 1..len /\ len - 1 \in 0..len - 1
        /\ \A k \in 1..len - 1 : k + 1 \in 1..len /\ k + 1 # 1 /\ (k + 1) - 1 = k /\ k \in 1..len
        /\ \A k \in 1..len : k = 1 \/ k - 1 \in 1..len - 1
        /\ \A k \in 1..len : k - 1 \in 0..len - 1 /\ (k - 1) + 1 = k
    BY <1>1, <1>3
  <2> DEFINE step == [k \in 1..len - 1 |-> [had \in Seq(Val) |-> had \o seqs[k + 1]]]
  <2>2. \A k \in 1..len - 1 : \A had \in Seq(Val) :
          step[k][had] = had \o seqs[k + 1] /\ step[k][had] \in Seq(Val)
    BY <1>1, <2>1
  <2> HIDE DEF step
  <2>3. Steps(len - 1, Seq(Val), seqs[1], step)
    BY <1>1, <2>1, <2>2 DEF Steps
  <2>4. PICK h : Carries(h, len - 1, Seq(Val), seqs[1], step)
    BY <2>3, RecursionExists
  <2> DEFINE f == [k \in 1..len |-> h[k - 1]]
  <2>5. FlattenOf(seqs, f)
    <3>1. \A k \in 1..len : f[k] = IF k = 1 THEN seqs[k] ELSE f[k - 1] \o seqs[k]
      <4> TAKE k \in 1..len
      <4>1. CASE k = 1
        BY <2>4, <4>1 DEF Carries
      <4>2. CASE k # 1
        <5>1. PICK j \in 1..len - 1 : k = j + 1
          BY <2>1, <4>2
        <5>2. j - 1 \in 0..len - 1 /\ j \in 1..len /\ k - 1 = j
          BY <2>1, <5>1
        <5>3. h[j] = step[j][h[j - 1]] /\ h[j - 1] \in Seq(Val)
          BY <2>4, <5>2 DEF Carries
        <5>4. h[j] = h[j - 1] \o seqs[k]
          BY <2>2, <5>1, <5>3
        <5> QED BY <4>2, <5>2, <5>4
      <4> QED BY <4>1, <4>2
    <3> QED BY <3>1 DEF FlattenOf, len
  <2> HIDE DEF f
  <2> DEFINE g == CHOOSE g : FlattenOf(seqs, g)
  <2>6. FlattenOf(seqs, g)
    BY <2>5
  <2>7. FlattenSeq(seqs) = g[len]
    BY <1>3 DEF FlattenSeq, FlattenOf, len
  <2> HIDE DEF g
  <2>8. \A k \in 1..len : g[k] = IF k = 1 THEN seqs[k] ELSE g[k - 1] \o seqs[k]
    BY <2>6 DEF FlattenOf, len
  <2> DEFINE T == {k \in 0..len - 1 : g[k + 1] \in Seq(Val)}
  <2>9. 0 \in T
    BY <1>1, <2>1, <2>8
  <2>10. ASSUME NEW k \in 1..len - 1, k - 1 \in T PROVE k \in T
    <3>1. k + 1 \in 1..len /\ k + 1 # 1 /\ (k + 1) - 1 = k /\ (k - 1) + 1 = k /\ k \in 0..len - 1
      BY <2>1
    <3>2. g[k] \in Seq(Val)
      BY <2>10, <3>1
    <3>3. g[k + 1] = g[k] \o seqs[k + 1] /\ seqs[k + 1] \in Seq(Val)
      BY <1>1, <2>8, <3>1
    <3>4. g[k + 1] \in Seq(Val)
      BY <3>2, <3>3
    <3> QED BY <3>1, <3>4
  <2>11. \A k \in 0..len - 1 : k \in T
    <3> HIDE DEF T
    <3>1. len - 1 \in Nat
      BY <2>1
    <3> QED BY <2>9, <2>10, <3>1, StretchInduction
  <2>12. len - 1 \in T
    BY <2>1, <2>11
  <2>13. (len - 1) + 1 = len
    BY <1>1
  <2> QED BY <2>7, <2>12, <2>13
<1> QED BY <1>2, <1>3

(* What a slot holds in the end. *)
Slot(k) == IF did[k] = Panicked THEN ZeroSlot ELSE did[k]

Written(k) == at[k] \in {"leave", "out", "over"} \/ (~opts.async /\ k < i)

Slots ==
    /\ result \in [1..n -> Seq(Val)]
    /\ \A k \in 1..n :
         /\ result[k] = IF Written(k) THEN Slot(k) ELSE ZeroSlot
         /\ at[k] = "store" \/ (~opts.async /\ k < i) => did[k] \in Seq(Val)
         /\ at[k] = "zero" => did[k] = Panicked
    /\ pc = "returned" => out = Applied(FlattenSeq(result))

LEMMA ZeroSlotType == ZeroSlot \in Seq(Val)
PROOF
<1>1. <<Zero>> \in Seq(Val) /\ Empty \in Seq(Val)
  BY FlexAssumption, EmptyIs
<1> QED BY <1>1 DEF ZeroSlot, Empty

LEMMA SlotsInit == Init => Slots
BY ZeroSlotType DEF Init, Slots, Written, Slot

(* When every task is counted out, those that are left can only end the
   process. *)
LEMMA OnlyCrashes ==
    ASSUME Inv, group.tasks = 0, NEW k \in 1..n
    PROVE  at[k] \in {"none", "over", "dying"}
PROOF
<1>1. Counted = {}
  BY Finite, FS_EmptySet DEF Inv, Counts, Types
<1> QED BY <1>1 DEF Inv, Types, Place, Counted, Placed

LEMMA SlotsCaller ==
    ASSUME Inv, Slots, Caller
    PROVE  Slots'
PROOF
<1>0. /\ n \in Int /\ i \in Int /\ 1 <= i /\ i <= n + 1 /\ pc = "loop"
      /\ opts \in Option /\ UNCHANGED <<opts, n, alive>>
  BY FlexAssumption DEF Inv, Types, Caller, CallFn, Go, Return
<1>1. CASE CallFn
  <2>1. /\ ~opts.async /\ i \in 1..n /\ UNCHANGED <<at, group, out>>
        /\ \A k \in 1..n : at[k] = "none"
    BY <1>0, <1>1 DEF CallFn, Inv, Element
  <2>2. CASE \E r \in Answers : /\ result' = [result EXCEPT ![i] = r]
                                /\ did' = [did EXCEPT ![i] = r]
                                /\ i' = i + 1 /\ UNCHANGED pc
    <3>1. PICK r \in Answers : /\ result' = [result EXCEPT ![i] = r]
                               /\ did' = [did EXCEPT ![i] = r]
                               /\ i' = i + 1 /\ UNCHANGED pc
      BY <2>2
    <3>2. r \in Seq(Val) /\ r # Panicked
      BY <1>0, AnswerIsNoMark
    <3>3. result' \in [1..n -> Seq(Val)]
      BY <3>1, <3>2 DEF Slots
    <3>4. result'[i] = r /\ did'[i] = r /\ \A k \in 1..n : k # i => result'[k] = result[k] /\ did'[k] = did[k]
      BY <2>1, <3>1 DEF Slots, Inv, Types
    <3>5. \A k \in 1..n : k < i' <=> k < i \/ k = i
      BY <1>0, <3>1
    <3>6. ASSUME NEW k \in 1..n
          PROVE  /\ result'[k] = IF Written(k)' THEN Slot(k)' ELSE ZeroSlot'
                 /\ at'[k] = "store" \/ (~opts'.async /\ k < i') => did'[k] \in Seq(Val)
                 /\ at'[k] = "zero" => did'[k] = Panicked
      BY <1>0, <2>1, <3>2, <3>4, <3>5 DEF Slots, Written, Slot, ZeroSlot
    <3> QED BY <1>0, <3>1, <3>3, <3>6 DEF Slots
  <2>3. CASE did' = [did EXCEPT ![i] = Panicked] /\ pc' = "panicked" /\ UNCHANGED <<result, i>>
    <3>1. \A k \in 1..n : k # i => did'[k] = did[k]
      BY <2>3 DEF Inv, Types
    <3>2. \A k \in 1..n : k < i => k # i
      BY <1>0
    <3>3. ASSUME NEW k \in 1..n
          PROVE  /\ result'[k] = IF Written(k)' THEN Slot(k)' ELSE ZeroSlot'
                 /\ at'[k] = "store" \/ (~opts'.async /\ k < i') => did'[k] \in Seq(Val)
                 /\ at'[k] = "zero" => did'[k] = Panicked
      BY <1>0, <2>1, <2>3, <3>1, <3>2 DEF Slots, Written, Slot, ZeroSlot
    <3> QED BY <1>0, <2>3, <3>3 DEF Slots
  <2> QED BY <1>1, <2>2, <2>3 DEF CallFn
<1>2. CASE Go
  <2>1. /\ opts.async /\ at' = [at EXCEPT ![i] = "fn"] /\ i \in 1..n /\ UNCHANGED <<pc, did, result, out>>
    BY <1>0, <1>2 DEF Go
  <2>2. at[i] = "none"
    BY <1>0, <2>1 DEF Inv, Element
  <2>3. ASSUME NEW k \in 1..n
        PROVE  /\ result'[k] = IF Written(k)' THEN Slot(k)' ELSE ZeroSlot'
               /\ at'[k] = "store" \/ (~opts'.async /\ k < i') => did'[k] \in Seq(Val)
               /\ at'[k] = "zero" => did'[k] = Panicked
    BY <1>0, <2>1, <2>2 DEF Slots, Written, Slot, ZeroSlot, Inv, Types
  <2> QED BY <1>0, <2>1, <2>3 DEF Slots
<1>3. CASE Return
  <2>1. /\ out' = Applied(FlattenSeq(result)) /\ UNCHANGED <<i, at, did, result>>
    BY <1>3 DEF Return
  <2>0. UNCHANGED <<opts, result>>
    BY <1>0, <2>1
  <2>2. Applied(FlattenSeq(result))' = Applied(FlattenSeq(result))
    BY <2>0 DEF Applied, Filtered, Distinct, Gather, Kept
  <2>3. ASSUME NEW k \in 1..n
        PROVE  /\ result'[k] = IF Written(k)' THEN Slot(k)' ELSE ZeroSlot'
               /\ at'[k] = "store" \/ (~opts'.async /\ k < i') => did'[k] \in Seq(Val)
               /\ at'[k] = "zero" => did'[k] = Panicked
    BY <1>0, <2>1 DEF Slots, Written, Slot, ZeroSlot
  <2> QED BY <1>0, <2>1, <2>2, <2>3 DEF Slots
<1> QED BY <1>1, <1>2, <1>3 DEF Caller

LEMMA SlotsTask ==
    ASSUME Inv, Slots, NEW k \in 1..n, Task(k)
    PROVE  Slots'
PROOF
<1>0. /\ UNCHANGED <<opts, n, i, pc, out>> /\ opts.async /\ at[k] # "none"
      /\ n \in Int /\ opts \in Option
  BY FlexAssumption DEF Task, FnReturn, FnPanic, Store, Leave, CountOut, Crash, Goto, Inv, Types, Element
<1>1. ZeroSlot' = ZeroSlot
  BY <1>0 DEF ZeroSlot
<1> DEFINE Good(j) ==
      /\ result[j] = IF Written(j) THEN Slot(j) ELSE ZeroSlot
      /\ at[j] = "store" => did[j] \in Seq(Val)
      /\ at[j] = "zero" => did[j] = Panicked
<1>2. result \in [1..n -> Seq(Val)] /\ \A j \in 1..n : Good(j)
  BY DEF Slots
<1>3. /\ result' \in [1..n -> Seq(Val)]
      /\ \A j \in 1..n : j # k => result'[j] = result[j] /\ at'[j] = at[j] /\ did'[j] = did[j]
  <2>1. \A s \in {result, [result EXCEPT ![k] = did[k]], [result EXCEPT ![k] = ZeroSlot]} :
          \A j \in 1..n : j # k => s[j] = result[j]
    BY <1>2
  <2>2. at \in [1..n -> Place] /\ \A x : \A j \in 1..n : j # k => [at EXCEPT ![k] = x][j] = at[j]
    BY DEF Inv, Types
  <2>3. \A x : \A j \in 1..n : j # k => [did EXCEPT ![k] = x][j] = did[j]
    BY DEF Inv, Types
  <2>4. CASE Store(k)
    BY <1>2, <2>1, <2>2, <2>4, ZeroSlotType DEF Store, Goto
  <2>5. CASE ~Store(k)
    <3>1. /\ result' = result
          /\ at' = at \/ \E x : at' = [at EXCEPT ![k] = x]
          /\ did' = did \/ \E x : did' = [did EXCEPT ![k] = x]
      BY <2>5 DEF Task, FnReturn, FnPanic, Leave, CountOut, Crash, Goto
    <3> QED BY <1>2, <2>2, <2>3, <3>1
  <2> QED BY <2>4, <2>5
<1>4. \A j \in 1..n : j # k => Good(j)'
  BY <1>0, <1>1, <1>2, <1>3 DEF Written, Slot
<1>5. Good(k)'
  <2>0. at \in [1..n -> Place] /\ \A x : [at EXCEPT ![k] = x][k] = x /\ [did EXCEPT ![k] = x][k] = x
             /\ [result EXCEPT ![k] = x][k] = x
    BY <1>2 DEF Inv, Types
  <2>1. CASE FnReturn(k)
    <3>1. PICK r \in Answers : did' = [did EXCEPT ![k] = r]
      BY <2>1 DEF FnReturn
    <3>2. r \in Seq(Val)
      BY <1>0, AnswerIsNoMark
    <3> QED BY <1>0, <1>1, <1>2, <2>0, <2>1, <3>1, <3>2 DEF FnReturn, Goto, Written
  <2>2. CASE FnPanic(k)
    BY <1>0, <1>1, <1>2, <2>0, <2>2 DEF FnPanic, Goto, Written
  <2>3. CASE Store(k)
    <3>1. did[k] \in Seq(Val) => did[k] # Panicked
      BY FlexAssumption
    <3> QED BY <1>0, <1>1, <1>2, <2>0, <2>3, <3>1 DEF Store, Goto, Written, Slot
  <2>4. CASE Leave(k)
    BY <1>0, <1>1, <1>2, <2>0, <2>4 DEF Leave, Goto, Written, Slot
  <2>5. CASE CountOut(k)
    BY <1>0, <1>1, <1>2, <2>0, <2>5 DEF CountOut, Goto, Written, Slot
  <2>6. CASE Crash(k)
    BY <1>0, <1>1, <1>2, <2>6 DEF Crash, Written, Slot
  <2> QED BY <2>1, <2>2, <2>3, <2>4, <2>5, <2>6 DEF Task
<1>6. pc' = "returned" => out' = Applied(FlattenSeq(result))'
  <2> SUFFICES ASSUME pc = "returned" PROVE out' = Applied(FlattenSeq(result))'
    BY <1>0
  <2>1. at[k] \in {"none", "over", "dying"}
    BY OnlyCrashes DEF Inv
  <2>2. Crash(k)
    BY <2>1 DEF Task, FnReturn, FnPanic, Store, Leave, CountOut
  <2>3. UNCHANGED <<opts, result, out>>
    BY <2>2 DEF Crash
  <2>4. Applied(FlattenSeq(result))' = Applied(FlattenSeq(result))
    BY <2>3 DEF Applied, Filtered, Distinct, Gather, Kept
  <2> QED BY <2>3, <2>4 DEF Slots
<1> QED BY <1>0, <1>3, <1>4, <1>5, <1>6 DEF Slots

LEMMA SlotsNext == Inv /\ Slots /\ [Next]_vars => Slots'
PROOF
<1> SUFFICES ASSUME Inv, Slots, [Next]_vars PROVE Slots'
  OBVIOUS
<1>1. CASE Next
  BY <1>1, SlotsCaller, SlotsTask DEF Next
<1>2. CASE UNCHANGED vars
  <2>1. Applied(FlattenSeq(result))' = Applied(FlattenSeq(result))
    BY <1>2 DEF vars, Applied, Filtered, Distinct, Gather, Kept
  <2> QED BY <1>2, <2>1 DEF vars, Slots, Written, Slot, ZeroSlot
<1> QED BY <1>1, <1>2

(* What Flex returns: the answers in the order of the array, of which the
   options keep the wanted ones, whatever the order of the goroutines. *)
THEOREM ReturnCorrect == Spec => []ReturnsWanted
PROOF
<1>1. ASSUME Inv, Slots, pc = "returned"
      PROVE  result = [k \in 1..n |-> Slot(k)]
  <2>1. ASSUME NEW k \in 1..n PROVE result[k] = Slot(k)
    <3>1. at[k] \in {"none", "over", "dying"} /\ k < i
      BY <1>1, OnlyCrashes DEF Inv, Types
    <3>2. CASE at[k] = "dying"
      BY <1>1, <3>2 DEF Inv, Element, Slots, Written, Slot
    <3>3. CASE at[k] # "dying"
      BY <1>1, <3>1, <3>3 DEF Inv, Element, Slots, Written
    <3> QED BY <3>2, <3>3
  <2> QED BY <1>1, <2>1 DEF Slots
<1>2. ASSUME Inv, Slots PROVE ReturnsWanted
  <2> SUFFICES ASSUME pc = "returned" PROVE ReturnsWanted
    BY DEF ReturnsWanted
  <2>1. result = [k \in 1..n |-> Slot(k)] /\ result \in Seq(Seq(Val))
    <3>1. n \in Nat
      BY <1>2, FlexAssumption DEF Inv, Types
    <3> QED BY <1>1, <1>2, <3>1 DEF Slots
  <2>2. Answered = FlattenSeq(result)
    BY <2>1 DEF Answered, Slot
  <2>3. Answered \in Seq(Val) /\ out = Applied(Answered)
    BY <1>2, <2>1, <2>2, FlattenType DEF Slots
  <2> HIDE DEF Answered
  <2> QED BY <1>2, <2>3, AppliedIsWanted DEF ReturnsWanted, Inv, Types
<1>3. Spec => [](Inv /\ Slots)
  BY InvInit, InvNext, SlotsInit, SlotsNext, PTL DEF Spec
<1> QED BY <1>2, <1>3, PTL
=============================================================================
