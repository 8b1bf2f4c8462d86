------------------------------ MODULE ListOps ------------------------------
(***************************************************************************)
(* The list functions of src/y that keep no state: Sort (a merge sort over *)
(* insertion-sorted runs) and Filter by options.  A client is an array and *)
(* a list of options that grow by one at a time.                           *)
(***************************************************************************)
EXTENDS Integers, FiniteSets, FiniteSetsExt, SequencesExt

CONSTANTS
    MinRun,     \* the length of a run: 32 in the code, less for TLC
    Elem,       \* the elements
    NilElems,   \* those isNil accepts
    ZeroElems,  \* those isZero accepts
    MaxInput    \* a bound of the model: the size of the inputs

ASSUME ListOpsAssumption ==
    /\ MinRun \in Nat /\ MinRun >= 2
    /\ MaxInput \in Nat
    /\ Elem \subseteq Int /\ NilElems \subseteq Elem /\ ZeroElems \subseteq Elem

-----------------------------------------------------------------------------
(* Sort.  Its elements are pairs whose first part is what less looks at. *)
Less(a, b) == a[1] < b[1]

(* The inner loop: arr[i] moves down to behind the last element from left on
   that it is not less than. *)
Inserted(arr, left, i) ==
    LET p == 1 + Max({left - 1} \cup {j \in left..i - 1 : ~Less(arr[i], arr[j])})
    IN  [k \in DOMAIN arr |->
           IF k = p THEN arr[i] ELSE IF k \in p + 1..i THEN arr[k - 1] ELSE arr[k]]

insertionSort(arr, left, right) ==
    LET upto[k \in 0..right - left] ==
          IF k = 0 THEN arr ELSE Inserted(upto[k - 1], left, left + k)
    IN  upto[right - left]

(* Mutant: the right part wins a tie. *)
LeftNextIfLess(arr, i, m, j, r) == i <= m /\ (j <= r => Less(arr[i], arr[j]))

(* What goes next: the element i of the left part, which ends at m, or the
   element j of the right part, which ends at r. *)
LeftNext(arr, i, m, j, r) == i <= m /\ (j <= r => ~Less(arr[j], arr[i]))

(* How many of the first k elements written come from the left part. *)
Taken(arr, l, m, r) ==
    LET taken[k \in 0..r - l + 1] ==
          IF k = 0 THEN 0
          ELSE LET i == taken[k - 1]
               IN  IF LeftNext(arr, l + i, m, m + k - i, r) THEN i + 1 ELSE i
    IN  taken

merge(arr, l, m, r) ==
    LET taken == Taken(arr, l, m, r)
        written(k) == IF taken[k + 1] # taken[k] THEN arr[l + taken[k]] ELSE arr[m + 1 + k - taken[k]]
    IN  [p \in DOMAIN arr |-> IF p \in l..r THEN written(p - l) ELSE arr[p]]

(* Where block k of one size starts. *)
Start(k, size) == 1 + (k - 1) * size

Within(arr, k) == Min({k, Len(arr)})

(* Every block is sorted. *)
Runs(arr, size) ==
    LET after[k \in 0..Len(arr)] ==
          IF k = 0 THEN arr
          ELSE LET start == Start(k, size)
               IN  IF start > Len(arr) THEN after[k - 1]
                   ELSE insertionSort(after[k - 1], start, Within(arr, start + size - 1))
    IN  after[Len(arr)]

(* Every two neighbouring blocks are merged. *)
MergePass(arr, size) ==
    LET after[k \in 0..Len(arr)] ==
          IF k = 0 THEN arr
          ELSE LET start == Start(k, 2 * size)
                   mid == Within(arr, start + size - 1)
               IN  IF start > Len(arr) \/ mid <= start THEN after[k - 1]
                   ELSE merge(after[k - 1], start, mid, Within(arr, start + 2 * size - 1))
    IN  after[Len(arr)]

Doubled(s) ==
    IF s.size >= Len(s.arr) THEN s
    ELSE [arr |-> MergePass(s.arr, s.size), size |-> 2 * s.size]

timSort(arr) ==
    LET runLength == Within(arr, MinRun)
        pass[k \in 0..Len(arr)] ==
          IF k = 0 THEN [arr |-> Runs(arr, runLength), size |-> runLength]
          ELSE Doubled(pass[k - 1])
    IN  IF Len(arr) <= 1 THEN arr ELSE pass[Len(arr)].arr

-----------------------------------------------------------------------------
(* Filter's options, in the order in which they are given. *)
Opt == [opt : {"Is", "Not", "NotNil", "NotEmpty"}] \cup [elem : Elem]

IsElem(o) == "elem" \in DOMAIN o

(* Mutant: the values after an option go where the first ones went. *)
AddedFirst(opts, o) ==
    IF ~IsElem(o)
    THEN [opts EXCEPT !.last = IF o.opt \in {"Is", "Not"} /\ @ = "none" THEN o.opt ELSE @,
                      !.ignoreNil = @ \/ o.opt = "NotNil",
                      !.ignoreEmpty = @ \/ o.opt = "NotEmpty"]
    ELSE IF opts.last = "Not" THEN [opts EXCEPT !.exclude = @ \cup {o.elem}]
                              ELSE [opts EXCEPT !.include = @ \cup {o.elem}]

Added(opts, o) ==
    IF ~IsElem(o)
    THEN [opts EXCEPT !.last = IF o.opt \in {"Is", "Not"} THEN o.opt ELSE @,
                      !.ignoreNil = @ \/ o.opt = "NotNil",
                      !.ignoreEmpty = @ \/ o.opt = "NotEmpty"]
    ELSE IF opts.last = "Not" THEN [opts EXCEPT !.exclude = @ \cup {o.elem}]
                              ELSE [opts EXCEPT !.include = @ \cup {o.elem}]

NoOption == [last |-> "none", include |-> {}, exclude |-> {},
             ignoreNil |-> FALSE, ignoreEmpty |-> FALSE]

filterOption(opts) ==
    LET after[k \in 0..Len(opts)] == IF k = 0 THEN NoOption ELSE Added(after[k - 1], opts[k])
    IN  after[Len(opts)]

Keeps(fo) ==
    {v \in Elem :
       /\ fo.ignoreNil => v \notin NilElems
       /\ fo.ignoreEmpty => v \notin ZeroElems
       /\ v \notin fo.exclude
       /\ fo.include # {} => v \in fo.include}

(* The elements of a set, in their order. *)
Only(arr, S) == SelectSeq(arr, LAMBDA v : v \in S)

Filter(arr, opts) == Only(arr, Keeps(filterOption(opts)))

-----------------------------------------------------------------------------
VARIABLES
    list,    \* the array
    options  \* Filter's options

listVars == <<list, options>>

ListInit == list = <<>> /\ options = <<>>

(* An option costs as much of the bound as two elements. *)
Bounded == Len(list) + 2 * Len(options) <= MaxInput

Grow == \E v \in Elem : list' = Append(list, v) /\ UNCHANGED options /\ Bounded'

AddOpt == \E o \in Opt : options' = Append(options, o) /\ UNCHANGED list /\ Bounded'

ListNext == Grow \/ AddOpt

ListSpec == ListInit /\ [][ListNext]_listVars

-----------------------------------------------------------------------------
(* The elements with the places they come from. *)
Tagged == [k \in DOMAIN list |-> <<list[k], k>>]

(* Sort returns the elements it is given, each once, in order, and equal ones
   in the order they had, whatever blocks the runs and merges cut. *)
SortIsStable ==
    LET s == timSort(Tagged)
    IN  /\ Len(s) = Len(list)
        /\ Range(s) = Range(Tagged)
        /\ \A j, k \in DOMAIN s :
              j < k => s[j][1] < s[k][1] \/ (s[j][1] = s[k][1] /\ s[j][2] < s[k][2])

(* The values that follow the option `how`, or, for Is, no option at all. *)
GivenFor(how) ==
    {options[k].elem : k \in {k \in DOMAIN options :
        /\ IsElem(options[k])
        /\ LET marks == {j \in 1..k - 1 : options[j] \in [opt : {"Is", "Not"}]}
           IN  IF marks = {} THEN how = "Is" ELSE options[Max(marks)].opt = how}}

Asked(o) == \E k \in DOMAIN options : options[k] = [opt |-> o]

(* The elements the options name. *)
Named ==
    {v \in Elem :
       /\ GivenFor("Is") = {} \/ v \in GivenFor("Is") \ GivenFor("Not")
       /\ v \notin GivenFor("Not")
       /\ ~(Asked("NotNil") /\ v \in NilElems)
       /\ ~(Asked("NotEmpty") /\ v \in ZeroElems)}

(* Filter keeps, in their order, the elements its options name: a value
   belongs to the Is or Not before it, whatever comes between. *)
FilterByOptions == Filter(list, options) = Only(list, Named)
=============================================================================
