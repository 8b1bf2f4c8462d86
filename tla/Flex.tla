-------------------------------- MODULE Flex --------------------------------
(***************************************************************************)
(* Flex and FlatFlex of src/y/list_map.go: one call that maps fn over an   *)
(* array, in the caller or in a goroutine per element under an errgroup    *)
(* with a limit, and then filters and deduplicates what fn answered.       *)
(*                                                                         *)
(* A slot of `result` holds a sequence of values: the one answer of a Flex *)
(* is a singleton, so that the two functions share their steps.            *)
(***************************************************************************)
EXTENDS ErrGroup, FiniteSets, SequencesExt

CONSTANTS
    MaxLen,       \* a bound of the model: the elements of the array
    Val,          \* the values of type R
    Zero,         \* its zero value
    NilVals,      \* the values NotNil removes
    EmptyVals,    \* the values NotEmpty removes: nil, or isZero says so
    FlatAnswers,  \* the slices fn may answer to FlatFlex
    Uncalled,     \* fn has not ended for an element
    Panicked      \* fn has panicked

ASSUME FlexAssumption ==
    /\ MaxLen \in Nat
    /\ Zero \in Val /\ NilVals \subseteq EmptyVals /\ EmptyVals \subseteq Val
    /\ FlatAnswers \subseteq Seq(Val)
    /\ Uncalled \notin Seq(Val) /\ Panicked \notin Seq(Val) \cup {Uncalled}

VARIABLES
    opts,     \* the options of the call
    n,        \* len(arr)
    result,   \* the slots
    i,        \* the loop's index
    pc,       \* where the caller is
    at,       \* where the goroutine of each element is
    group,    \* the errgroup
    alive,    \* whether the process is
    out,      \* what the caller is given
    did       \* history: what fn did with each element

vars == <<opts, n, result, i, pc, at, group, alive, out, did>>

Option == [async : BOOLEAN, distinct : BOOLEAN, isPanic : BOOLEAN, ignoreNil : BOOLEAN,
           ignoreEmpty : BOOLEAN, isFlatFlex : BOOLEAN]

Answers == IF opts.isFlatFlex THEN FlatAnswers ELSE {<<v>> : v \in Val}

(* What make and *new(R) put into a slot. *)
ZeroSlot == IF opts.isFlatFlex THEN <<>> ELSE <<Zero>>

Place == {"none", "fn", "store", "zero", "leave", "out", "unwind", "unwound", "dying",
          "over"}

Init ==
    /\ opts \in Option /\ n \in 0..MaxLen
    /\ result = [k \in 1..n |-> ZeroSlot]
    /\ did = [k \in 1..n |-> Uncalled]
    /\ i = 1 /\ pc = "loop"
    /\ at = [k \in 1..n |-> "none"]
    /\ group = NewGroup /\ alive = TRUE /\ out = <<>>

-----------------------------------------------------------------------------
(* The filter of applyFlexOption. *)
Kept(v) ==
    /\ opts.ignoreNil => v \notin NilVals
    /\ opts.ignoreEmpty => v \notin EmptyVals

(* A loop over s that appends what it takes, knowing what it has so far. *)
Gather(s, Takes(_, _)) ==
    LET upto[k \in 0..Len(s)] ==
            IF k = 0 THEN <<>>
            ELSE LET had == upto[k - 1]
                 IN  IF Takes(had, s[k]) THEN Append(had, s[k]) ELSE had
    IN  upto[Len(s)]

Filtered(s) == Gather(s, LAMBDA had, v : Kept(v))

(* Distinct takes the values that its map does not hold yet. *)
Distinct(s) == Gather(s, LAMBDA had, v : v \notin Range(had))

Applied(s) == IF opts.distinct THEN Distinct(Filtered(s)) ELSE Filtered(s)

(* The caller, without async: fn runs in it, and its panic is the caller's. *)
CallFn ==
    /\ pc = "loop" /\ ~opts.async /\ i <= n
    /\ \/ \E r \in Answers :
            /\ result' = [result EXCEPT ![i] = r]
            /\ did' = [did EXCEPT ![i] = r]
            /\ i' = i + 1
            /\ UNCHANGED pc
       \/ /\ did' = [did EXCEPT ![i] = Panicked]
          /\ pc' = "panicked"
          /\ UNCHANGED <<result, i>>
    /\ UNCHANGED <<opts, n, at, group, alive, out>>

(* Mutant: the limit is not set. *)
GoNoLimit ==
    /\ pc = "loop" /\ opts.async /\ i <= n
    /\ group' = [places |-> IF HasPlace(group) THEN group.places - 1 ELSE 0,
                 tasks |-> group.tasks + 1]
    /\ at' = [at EXCEPT ![i] = "fn"]
    /\ i' = i + 1
    /\ UNCHANGED <<opts, n, result, pc, alive, out, did>>

(* The caller, with async: goWithPanic, once there is room for a task. *)
Go ==
    /\ pc = "loop" /\ opts.async /\ i <= n
    /\ HasPlace(group)
    /\ group' = Started(group)
    /\ at' = [at EXCEPT ![i] = "fn"]
    /\ i' = i + 1
    /\ UNCHANGED <<opts, n, result, pc, alive, out, did>>

(* Mutant: no wg.Wait. *)
ReturnNoWait ==
    /\ pc = "loop" /\ i > n
    /\ out' = Applied(FlattenSeq(result))
    /\ pc' = "returned"
    /\ UNCHANGED <<opts, n, result, i, at, group, alive, did>>

(* wg.Wait; FlatFlex's concatenation; the options. *)
Return ==
    /\ pc = "loop" /\ i > n
    /\ AllOut(group)
    /\ out' = Applied(FlattenSeq(result))
    /\ pc' = "returned"
    /\ UNCHANGED <<opts, n, result, i, at, group, alive, did>>

-----------------------------------------------------------------------------
(* The goroutine of element k. *)
Goto(k, place) == at' = [at EXCEPT ![k] = place]

FnReturn(k) ==
    /\ at[k] = "fn"
    /\ \E r \in Answers : did' = [did EXCEPT ![k] = r]
    /\ Goto(k, "store")
    /\ UNCHANGED <<opts, n, result, i, pc, group, alive, out>>

(* Mutant: every panic is raised again. *)
FnPanicAgain(k) ==
    /\ at[k] = "fn"
    /\ did' = [did EXCEPT ![k] = Panicked]
    /\ Goto(k, "unwind")
    /\ UNCHANGED <<opts, n, result, i, pc, group, alive, out>>

(* The deferred function recovers, and raises the panic again if asked to. *)
FnPanic(k) ==
    /\ at[k] = "fn"
    /\ did' = [did EXCEPT ![k] = Panicked]
    /\ Goto(k, IF opts.isPanic THEN "unwind" ELSE "zero")
    /\ UNCHANGED <<opts, n, result, i, pc, group, alive, out>>

(* Mutant: the goroutines share the loop's variable, as they do in Go 1.20
   without line 26. *)
StoreShared(k) ==
    /\ at[k] \in {"store", "zero"}
    /\ result' = [result EXCEPT ![IF i > n THEN n ELSE i] =
                      IF at[k] = "store" THEN did[k] ELSE ZeroSlot]
    /\ Goto(k, "leave")
    /\ UNCHANGED <<opts, n, i, pc, group, alive, out, did>>

(* Under wg's lock. *)
Store(k) ==
    /\ at[k] \in {"store", "zero"}
    /\ result' = [result EXCEPT ![k] = IF at[k] = "store" THEN did[k] ELSE ZeroSlot]
    /\ Goto(k, "leave")
    /\ UNCHANGED <<opts, n, i, pc, group, alive, out, did>>

(* errgroup's deferred done, which runs for a panic too. *)
Leave(k) ==
    /\ at[k] \in {"leave", "unwind"}
    /\ group' = PlaceGiven(group)
    /\ Goto(k, IF at[k] = "leave" THEN "out" ELSE "unwound")
    /\ UNCHANGED <<opts, n, result, i, pc, alive, out, did>>

(* Mutant: only a task that returns is counted out. *)
CountOutNormal(k) ==
    /\ at[k] \in {"out", "unwound"}
    /\ group' = IF at[k] = "out" THEN CountedOut(group) ELSE group
    /\ Goto(k, "over")
    /\ UNCHANGED <<opts, n, result, i, pc, alive, out, did>>

CountOut(k) ==
    /\ at[k] \in {"out", "unwound"}
    /\ group' = CountedOut(group)
    /\ Goto(k, IF at[k] = "out" THEN "over" ELSE "dying")
    /\ UNCHANGED <<opts, n, result, i, pc, alive, out, did>>

(* Nobody recovers the panic: the process ends.  The caller may have returned
   since the task was counted out. *)
Crash(k) ==
    /\ at[k] = "dying"
    /\ alive' = FALSE
    /\ UNCHANGED <<opts, n, result, i, pc, at, group, out, did>>

Task(k) == FnReturn(k) \/ FnPanic(k) \/ Store(k) \/ Leave(k) \/ CountOut(k) \/ Crash(k)

Caller == CallFn \/ Go \/ Return

Next == alive /\ (Caller \/ \E k \in 1..n : Task(k))

Spec == Init /\ [][Next]_vars

(* The caller and the goroutines are scheduled, and fn returns or panics. *)
Fairness == WF_vars(alive /\ Caller) /\ \A k \in 1..MaxLen : WF_vars(alive /\ k <= n /\ Task(k))

FairSpec == Spec /\ Fairness

-----------------------------------------------------------------------------
(* When the caller has its answer, fn has been called once for every element
   and no goroutine will write a slot any more. *)
Joined ==
    pc = "returned" =>
        \A k \in 1..n : did[k] # Uncalled /\ at[k] \in {"none", "over", "dying"}

(* What fn answered, in the order of the elements whatever the order of the
   goroutines; a panic that was swallowed leaves the zero value. *)
Answered == FlattenSeq([k \in 1..n |-> IF did[k] = Panicked THEN ZeroSlot ELSE did[k]])

Wanted(v) == ~(opts.ignoreNil /\ v \in NilVals) /\ ~(opts.ignoreEmpty /\ v \in EmptyVals)

(* The places of s that the options keep: the first ones if distinct. *)
WantedAt(s) ==
    {k \in DOMAIN s : Wanted(s[k]) /\ (opts.distinct => \A j \in 1..k - 1 : s[j] # s[k])}

(* The caller is given the wanted answers, each in its place. *)
ReturnsWanted ==
    pc = "returned" =>
        out = [m \in 1..Cardinality(WantedAt(Answered)) |->
                 Answered[CHOOSE k \in WantedAt(Answered) :
                            Cardinality({j \in WantedAt(Answered) : j <= k}) = m]]

(* fn runs for GOMAXPROCS elements at most. *)
LimitKept == Cardinality({k \in 1..n : at[k] = "fn"}) <= Limit

(* A panic of fn reaches the caller without async (line 50, whatever the
   options say), and with async it ends the process if UsePanic is given
   (line 31), and only then. *)
PanicAsAsked ==
    /\ pc = "panicked" => ~opts.async /\ i <= n /\ did[i] = Panicked
    /\ ~alive => opts.async /\ opts.isPanic /\ \E k \in 1..n : did[k] = Panicked

(* The call ends, and with UsePanic a panic is never lost. *)
Ends ==
    /\ <>(pc # "loop" \/ ~alive)
    /\ (opts.async /\ opts.isPanic /\ \E k \in 1..n : did[k] = Panicked) ~> ~alive
=============================================================================
