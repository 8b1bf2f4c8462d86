--------------------------- MODULE ListOpsProofs ---------------------------
(***************************************************************************)
(* What holds of Sort and Filter for every list and every run length: Sort *)
(* is a stable sort, and Filter reads its options as they are meant.       *)
(***************************************************************************)
EXTENDS ListOps, DataLemmas

(* What is said of the elements holds of those of the list and the options. *)
TypeInv == list \in Seq(Elem) /\ options \in Seq(Opt)

LEMMA MaxIs ==
    ASSUME NEW n \in Nat, NEW S \in SUBSET (0..n), S # {}
    PROVE  Max(S) \in S /\ \A x \in S : x <= Max(S)
PROOF
<1> DEFINE T == {y \in 0..n : n - y \in S}
<1>1. T \in SUBSET Nat /\ T # {}
  <2>1. PICK x : x \in S
    OBVIOUS
  <2>2. x \in 0..n /\ n - x \in 0..n /\ n - (n - x) = x
    BY <2>1
  <2>3. n - x \in T
    BY <2>1, <2>2
  <2> QED BY <2>3
<1>2. PICK y \in T : \A z \in T : y <= z
  BY <1>1, LeastNumber
<1>3. n - y \in S
  OBVIOUS
<1>4. ASSUME NEW x \in S PROVE n - y >= x
  <2>1. x \in 0..n /\ n - x \in 0..n /\ n - (n - x) = x
    OBVIOUS
  <2>2. y <= n - x
    BY <1>2, <2>1
  <2> QED BY <2>1, <2>2
<1>5. Max(S) \in S /\ \A x \in S : Max(S) >= x
  BY <1>3, <1>4 DEF Max
<1> QED BY <1>5

-----------------------------------------------------------------------------
(* Filter.  What a value given as option number k belongs to. *)
Marks(os, k) == {j \in 1..k - 1 : os[j] \in [opt : {"Is", "Not"}]}

MarkBefore(os, k) == IF Marks(os, k) = {} THEN "Is" ELSE os[Max(Marks(os, k))].opt

Given(os, how) == {os[k].elem : k \in {k \in DOMAIN os : IsElem(os[k]) /\ MarkBefore(os, k) = how}}

AskedIn(os, o) == \E k \in DOMAIN os : os[k] = [opt |-> o]

LEMMA MarksIs ==
    ASSUME NEW os \in Seq(Opt), NEW k \in 1..Len(os) + 1, Marks(os, k) # {}
    PROVE  /\ Max(Marks(os, k)) \in Marks(os, k)
           /\ \A j \in Marks(os, k) : j <= Max(Marks(os, k))
PROOF
<1>1. Len(os) \in Nat /\ Marks(os, k) \in SUBSET (0..Len(os))
  BY DEF Marks
<1> QED BY <1>1, MaxIs

LEMMA MarkIs ==
    ASSUME NEW os \in Seq(Opt), NEW k \in 1..Len(os) + 1
    PROVE  MarkBefore(os, k) \in {"Is", "Not"}
PROOF
<1>1. CASE Marks(os, k) = {}
  BY <1>1 DEF MarkBefore
<1>2. CASE Marks(os, k) # {}
  <2>1. os[Max(Marks(os, k))] \in [opt : {"Is", "Not"}]
    BY <1>2, MarksIs DEF Marks
  <2> QED BY <1>2, <2>1 DEF MarkBefore
<1> QED BY <1>1, <1>2

LEMMA MarkKept ==
    ASSUME NEW os \in Seq(Opt), NEW o \in Opt, NEW k \in 1..Len(os) + 1
    PROVE  MarkBefore(Append(os, o), k) = MarkBefore(os, k)
PROOF
<1>1. \A j \in 1..k - 1 : Append(os, o)[j] = os[j]
  OBVIOUS
<1>2. Marks(Append(os, o), k) = Marks(os, k)
  BY <1>1 DEF Marks
<1>3. CASE Marks(os, k) = {}
  BY <1>2, <1>3 DEF MarkBefore
<1>4. CASE Marks(os, k) # {}
  <2>1. Max(Marks(os, k)) \in 1..k - 1
    BY <1>4, MarksIs DEF Marks
  <2> QED BY <1>1, <1>2, <1>4, <2>1 DEF MarkBefore
<1> QED BY <1>3, <1>4

LEMMA MarkNext ==
    ASSUME NEW os \in Seq(Opt), NEW o \in Opt
    PROVE  MarkBefore(Append(os, o), Len(os) + 2) =
             IF o \in [opt : {"Is", "Not"}] THEN o.opt ELSE MarkBefore(os, Len(os) + 1)
PROOF
<1> DEFINE t == Append(os, o)  n == Len(os)
<1>1. /\ t \in Seq(Opt) /\ Len(t) = n + 1 /\ n \in Nat /\ t[n + 1] = o
      /\ \A j \in 1..n : t[j] = os[j]
      /\ n + 1 \in 1..Len(os) + 1 /\ n + 2 \in 1..(n + 1) + 1
      /\ (n + 1) - 1 = n /\ (n + 2) - 1 = n + 1
  OBVIOUS
<1> HIDE DEF t, n
<1>2. CASE o \in [opt : {"Is", "Not"}]
  <2>1. n + 1 \in Marks(t, n + 2)
    BY <1>1, <1>2 DEF Marks
  <2>2. Max(Marks(t, n + 2)) = n + 1
    <3>1. Marks(t, n + 2) \subseteq 1..n + 1
      BY <1>1 DEF Marks
    <3>2. /\ Max(Marks(t, n + 2)) \in Marks(t, n + 2)
          /\ n + 1 <= Max(Marks(t, n + 2))
      BY <1>1, <2>1, MarksIs
    <3> QED BY <1>1, <3>1, <3>2
  <2> QED BY <1>1, <1>2, <2>1, <2>2 DEF MarkBefore, t, n
<1>3. CASE o \notin [opt : {"Is", "Not"}]
  <2>1. Marks(t, n + 2) = Marks(os, n + 1)
    BY <1>1, <1>3 DEF Marks
  <2>2. CASE Marks(os, n + 1) = {}
    BY <1>3, <2>1, <2>2 DEF MarkBefore, t, n
  <2>3. CASE Marks(os, n + 1) # {}
    <3>1. Max(Marks(os, n + 1)) \in 1..n
      BY <1>1, <2>3, MarksIs DEF Marks, n
    <3> QED BY <1>1, <1>3, <2>1, <2>3, <3>1 DEF MarkBefore, t, n
  <2> QED BY <2>2, <2>3
<1> QED BY <1>2, <1>3

(* What the loop over the options has after k of them. *)
OptionsOf(os, n, f) == f = [k \in 0..n |-> IF k = 0 THEN NoOption ELSE Added(f[k - 1], os[k])]

LEMMA OptionsExist ==
    ASSUME NEW os, NEW n \in Nat
    PROVE  \E f : OptionsOf(os, n, f)
PROOF
<1> DEFINE T == {m \in 0..n : \E f : OptionsOf(os, m, f)}
<1>1. 0 \in T
  <2> DEFINE g == [k \in 0..0 |-> NoOption]
  <2>1. OptionsOf(os, 0, g)
    BY DEF OptionsOf
  <2> QED BY <2>1
<1>2. ASSUME NEW m \in 1..n, m - 1 \in T PROVE m \in T
  <2>1. PICK f : OptionsOf(os, m - 1, f)
    BY <1>2
  <2> DEFINE g == [k \in 0..m |-> IF k < m THEN f[k] ELSE Added(f[m - 1], os[m])]
  <2>2. \A k \in 0..m : g[k] = IF k = 0 THEN NoOption ELSE Added(g[k - 1], os[k])
    <3> SUFFICES ASSUME NEW k \in 0..m
                 PROVE  g[k] = IF k = 0 THEN NoOption ELSE Added(g[k - 1], os[k])
      OBVIOUS
    <3>1. k < m => f[k] = IF k = 0 THEN NoOption ELSE Added(f[k - 1], os[k])
      BY <2>1 DEF OptionsOf
    <3>2. k # 0 => g[k - 1] = f[k - 1]
      OBVIOUS
    <3> QED BY <3>1, <3>2
  <2>3. OptionsOf(os, m, g)
    BY <2>2 DEF OptionsOf
  <2> QED BY <2>3
<1>3. \A m \in 0..n : m \in T
  <2> HIDE DEF T
  <2> QED BY <1>1, <1>2, StretchInduction
<1> QED BY <1>3

LEMMA FilterOptionIs ==
    ASSUME NEW os \in Seq(Opt)
    PROVE  \E f : OptionsOf(os, Len(os), f) /\ filterOption(os) = f[Len(os)]
PROOF
<1> DEFINE f == CHOOSE f : OptionsOf(os, Len(os), f)
<1>1. OptionsOf(os, Len(os), f)
  BY OptionsExist
<1>2. filterOption(os) = f[Len(os)]
  BY DEF filterOption, OptionsOf
<1> QED BY <1>1, <1>2

LEMMA FilterOptionSteps ==
    /\ filterOption(<<>>) = NoOption
    /\ \A os \in Seq(Opt) : \A o \in Opt :
          filterOption(Append(os, o)) = Added(filterOption(os), o)
PROOF
<1>1. filterOption(<<>>) = NoOption
  <2>1. <<>> \in Seq(Opt) /\ Len(<<>>) = 0
    OBVIOUS
  <2>2. PICK f : OptionsOf(<<>>, 0, f) /\ filterOption(<<>>) = f[0]
    BY <2>1, FilterOptionIs
  <2> QED BY <2>2 DEF OptionsOf
<1>2. ASSUME NEW os \in Seq(Opt), NEW o \in Opt
      PROVE  filterOption(Append(os, o)) = Added(filterOption(os), o)
  <2> DEFINE t == Append(os, o)  n == Len(os)
  <2>1. /\ t \in Seq(Opt) /\ Len(t) = n + 1 /\ n \in Nat /\ t[n + 1] = o
        /\ \A j \in 1..n : t[j] = os[j]
    OBVIOUS
  <2> HIDE DEF t
  <2>2. PICK f : OptionsOf(os, n, f) /\ filterOption(os) = f[n]
    BY FilterOptionIs
  <2>3. PICK g : OptionsOf(t, n + 1, g) /\ filterOption(t) = g[n + 1]
    BY <2>1, FilterOptionIs
  <2> HIDE DEF n
  <2>4. f[0] = g[0] /\ \A k \in 1..n : f[k - 1] = g[k - 1] => f[k] = g[k]
    <3>1. \A k \in 0..n : f[k] = IF k = 0 THEN NoOption ELSE Added(f[k - 1], os[k])
      BY <2>2 DEF OptionsOf
    <3>2. \A k \in 0..n + 1 : g[k] = IF k = 0 THEN NoOption ELSE Added(g[k - 1], t[k])
      BY <2>3 DEF OptionsOf
    <3> QED BY <2>1, <3>1, <3>2
  <2>5. f[n] = g[n]
    <3> DEFINE T == {k \in 0..n : f[k] = g[k]}
    <3>1. n \in Nat /\ n \in 0..n
      BY <2>1
    <3>2. 0 \in T /\ \A k \in 1..n : k - 1 \in T => k \in T
      BY <2>4, <3>1
    <3>3. \A k \in 0..n : k \in T
      <4> HIDE DEF T
      <4> QED BY <3>1, <3>2, StretchInduction
    <3> QED BY <3>1, <3>3
  <2>6. g[n + 1] = Added(g[n], t[n + 1])
    <3>1. n + 1 \in 0..n + 1 /\ n + 1 # 0 /\ (n + 1) - 1 = n
      BY <2>1
    <3> QED BY <2>3, <3>1 DEF OptionsOf
  <2> QED BY <2>1, <2>2, <2>3, <2>5, <2>6 DEF t
<1> QED BY <1>1, <1>2

(* The options that are set agree with what was asked. *)
Agrees(fo, os) ==
    /\ DOMAIN fo = {"last", "include", "exclude", "ignoreNil", "ignoreEmpty"}
    /\ fo.last = "Not" <=> MarkBefore(os, Len(os) + 1) = "Not"
    /\ fo.include = Given(os, "Is") /\ fo.exclude = Given(os, "Not")
    /\ fo.ignoreNil = AskedIn(os, "NotNil") /\ fo.ignoreEmpty = AskedIn(os, "NotEmpty")

LEMMA GivenNext ==
    ASSUME NEW os \in Seq(Opt), NEW o \in Opt, NEW how
    PROVE  Given(Append(os, o), how) =
             Given(os, how) \cup (IF IsElem(o) /\ MarkBefore(os, Len(os) + 1) = how THEN {o.elem} ELSE {})
PROOF
<1> DEFINE t == Append(os, o)  n == Len(os)
<1>1. /\ n \in Nat /\ DOMAIN t = 1..n + 1 /\ DOMAIN os = 1..n /\ t[n + 1] = o
      /\ \A j \in 1..n : t[j] = os[j]
  OBVIOUS
<1>2. \A k \in 1..n + 1 : MarkBefore(t, k) = MarkBefore(os, k)
  BY MarkKept
<1> HIDE DEF t, n
<1>3. \A k \in 1..n + 1 : k = n + 1 \/ k \in 1..n
  BY <1>1
<1>4. n + 1 \in 1..n + 1 /\ \A k \in 1..n : k \in 1..n + 1
  BY <1>1
<1>5. Given(t, how) = Given(os, how) \cup (IF IsElem(o) /\ MarkBefore(os, n + 1) = how THEN {o.elem} ELSE {})
  BY <1>1, <1>2, <1>3, <1>4 DEF Given
<1> QED BY <1>5 DEF t, n

LEMMA AskedNext ==
    ASSUME NEW os \in Seq(Opt), NEW o \in Opt, NEW w
    PROVE  AskedIn(Append(os, o), w) <=> AskedIn(os, w) \/ o = [opt |-> w]
PROOF
<1> DEFINE t == Append(os, o)  n == Len(os)
<1>1. /\ n \in Nat /\ DOMAIN t = 1..n + 1 /\ DOMAIN os = 1..n /\ t[n + 1] = o
      /\ \A j \in 1..n : t[j] = os[j]
  OBVIOUS
<1> HIDE DEF t, n
<1>2. \A k \in 1..n + 1 : k = n + 1 \/ k \in 1..n
  BY <1>1
<1>3. n + 1 \in 1..n + 1 /\ \A k \in 1..n : k \in 1..n + 1
  BY <1>1
<1>4. AskedIn(t, w) <=> AskedIn(os, w) \/ o = [opt |-> w]
  BY <1>1, <1>2, <1>3 DEF AskedIn
<1> QED BY <1>4 DEF t

LEMMA OptIs ==
    ASSUME NEW o \in Opt
    PROVE  \/ /\ IsElem(o) /\ o.elem \in Elem /\ \A w : o # [opt |-> w]
              /\ o \notin [opt : {"Is", "Not"}]
           \/ /\ ~IsElem(o) /\ o.opt \in {"Is", "Not", "NotNil", "NotEmpty"}
              /\ o = [opt |-> o.opt]
              /\ o \in [opt : {"Is", "Not"}] <=> o.opt \in {"Is", "Not"}
              /\ \A w : o = [opt |-> w] <=> o.opt = w
PROOF
<1>1. CASE o \in [elem : Elem]
  <2>1. DOMAIN o = {"elem"} /\ o.elem \in Elem
    BY <1>1
  <2>2. \A w : DOMAIN [opt |-> w] = {"opt"}
    OBVIOUS
  <2>3. \A p \in [opt : {"Is", "Not"}] : DOMAIN p = {"opt"}
    OBVIOUS
  <2> QED BY <2>1, <2>2, <2>3 DEF IsElem
<1>2. CASE o \in [opt : {"Is", "Not", "NotNil", "NotEmpty"}]
  <2>1. PICK w \in {"Is", "Not", "NotNil", "NotEmpty"} : o = [opt |-> w]
    BY <1>2
  <2>2. DOMAIN o = {"opt"} /\ o.opt = w
    BY <2>1
  <2>3. \A v : o = [opt |-> v] => o.opt = v
    BY <2>1
  <2>4. o \in [opt : {"Is", "Not"}] <=> o.opt \in {"Is", "Not"}
    BY <2>1, <2>2
  <2> QED BY <2>1, <2>2, <2>3, <2>4 DEF IsElem
<1> QED BY <1>1, <1>2 DEF Opt

LEMMA AddedAgrees ==
    ASSUME NEW os \in Seq(Opt), NEW o \in Opt, NEW fo, Agrees(fo, os)
    PROVE  Agrees(Added(fo, o), Append(os, o))
PROOF
<1> DEFINE t == Append(os, o)
           mark == MarkBefore(os, Len(os) + 1)
           is == Given(os, "Is")
           not == Given(os, "Not")
           nil == AskedIn(os, "NotNil")
           empty == AskedIn(os, "NotEmpty")
<1>1. /\ Given(t, "Is") = is \cup (IF IsElem(o) /\ mark = "Is" THEN {o.elem} ELSE {})
      /\ Given(t, "Not") = not \cup (IF IsElem(o) /\ mark = "Not" THEN {o.elem} ELSE {})
      /\ AskedIn(t, "NotNil") <=> nil \/ o = [opt |-> "NotNil"]
      /\ AskedIn(t, "NotEmpty") <=> empty \/ o = [opt |-> "NotEmpty"]
  BY GivenNext, AskedNext
<1>2. Len(t) + 1 = Len(os) + 2
  OBVIOUS
<1>3. MarkBefore(t, Len(t) + 1) = IF o \in [opt : {"Is", "Not"}] THEN o.opt ELSE mark
  BY <1>2, MarkNext
<1>4. mark \in {"Is", "Not"}
  <2>1. Len(os) + 1 \in 1..Len(os) + 1
    OBVIOUS
  <2> QED BY <2>1, MarkIs
<1>5. /\ nil \in BOOLEAN /\ empty \in BOOLEAN
      /\ AskedIn(t, "NotNil") \in BOOLEAN /\ AskedIn(t, "NotEmpty") \in BOOLEAN
  BY DEF AskedIn
<1>6. /\ fo.last = "Not" <=> mark = "Not"
      /\ fo.include = is /\ fo.exclude = not /\ fo.ignoreNil = nil /\ fo.ignoreEmpty = empty
      /\ DOMAIN fo = {"last", "include", "exclude", "ignoreNil", "ignoreEmpty"}
  BY DEF Agrees
<1> HIDE DEF t, mark, is, not, nil, empty
<1>7. CASE IsElem(o)
  <2>1. \A w : o # [opt |-> w]
    BY <1>7, OptIs
  <2>2. o \notin [opt : {"Is", "Not"}]
    BY <1>7, OptIs
  <2> DEFINE new == Added(fo, o)
  <2>3. /\ DOMAIN new = DOMAIN fo /\ new.last = fo.last
        /\ new.ignoreNil = fo.ignoreNil /\ new.ignoreEmpty = fo.ignoreEmpty
        /\ new.exclude = fo.exclude \cup (IF fo.last = "Not" THEN {o.elem} ELSE {})
        /\ new.include = fo.include \cup (IF fo.last = "Not" THEN {} ELSE {o.elem})
    BY <1>6, <1>7 DEF Added
  <2> HIDE DEF new
  <2>4. new.include = Given(t, "Is") /\ new.exclude = Given(t, "Not")
    BY <1>1, <1>4, <1>6, <1>7, <2>3
  <2>5. new.last = "Not" <=> MarkBefore(t, Len(t) + 1) = "Not"
    BY <1>3, <1>6, <2>2, <2>3
  <2>6. new.ignoreNil = AskedIn(t, "NotNil") /\ new.ignoreEmpty = AskedIn(t, "NotEmpty")
    BY <1>1, <1>5, <1>6, <2>1, <2>3
  <2>7. Agrees(new, t)
    BY <1>6, <2>3, <2>4, <2>5, <2>6 DEF Agrees
  <2> QED BY <2>7 DEF new, t
<1>8. CASE ~IsElem(o)
  <2> DEFINE new == Added(fo, o)
  <2>1. /\ o.opt \in {"Is", "Not", "NotNil", "NotEmpty"}
        /\ o \in [opt : {"Is", "Not"}] <=> o.opt \in {"Is", "Not"}
        /\ o = [opt |-> "NotNil"] <=> o.opt = "NotNil"
        /\ o = [opt |-> "NotEmpty"] <=> o.opt = "NotEmpty"
    BY <1>8, OptIs
  <2>2. /\ DOMAIN new = DOMAIN fo
        /\ new.include = fo.include /\ new.exclude = fo.exclude
        /\ new.last = IF o.opt \in {"Is", "Not"} THEN o.opt ELSE fo.last
        /\ new.ignoreNil = (fo.ignoreNil \/ o.opt = "NotNil")
        /\ new.ignoreEmpty = (fo.ignoreEmpty \/ o.opt = "NotEmpty")
    BY <1>6, <1>8 DEF Added
  <2> HIDE DEF new
  <2>3. /\ Given(t, "Is") = is /\ Given(t, "Not") = not
    BY <1>1, <1>8
  <2>4. new.last = "Not" <=> MarkBefore(t, Len(t) + 1) = "Not"
    BY <1>3, <1>6, <2>1, <2>2
  <2>5. new.ignoreNil = AskedIn(t, "NotNil") /\ new.ignoreEmpty = AskedIn(t, "NotEmpty")
    BY <1>1, <1>5, <1>6, <2>1, <2>2
  <2>6. Agrees(new, t)
    BY <1>6, <2>2, <2>3, <2>4, <2>5 DEF Agrees
  <2> QED BY <2>6 DEF new, t
<1> QED BY <1>7, <1>8 DEF t

LEMMA NoneAgrees == Agrees(NoOption, <<>>)
PROOF
<1>1. DOMAIN <<>> = {} /\ Len(<<>>) = 0 /\ Marks(<<>>, 1) = {}
  BY DEF Marks
<1>2. MarkBefore(<<>>, Len(<<>>) + 1) = "Is"
  BY <1>1 DEF MarkBefore
<1>3. \A how : Given(<<>>, how) = {} /\ AskedIn(<<>>, how) = FALSE
  BY <1>1 DEF Given, AskedIn
<1>4. /\ DOMAIN NoOption = {"last", "include", "exclude", "ignoreNil", "ignoreEmpty"}
      /\ NoOption.last = "none" /\ NoOption.include = {} /\ NoOption.exclude = {}
      /\ NoOption.ignoreNil = FALSE /\ NoOption.ignoreEmpty = FALSE
  BY DEF NoOption
<1> HIDE DEF NoOption
<1> QED BY <1>2, <1>3, <1>4 DEF Agrees

(* After any options the loop agrees with what was asked. *)
LEMMA FilterOptionAgrees ==
    \A os \in Seq(Opt) : Agrees(filterOption(os), os)
PROOF
<1> DEFINE T == {os \in Seq(Opt) : Agrees(filterOption(os), os)}
<1>1. <<>> \in T
  BY NoneAgrees, FilterOptionSteps
<1>2. ASSUME NEW os \in Seq(Opt), NEW o \in Opt, os \in T PROVE Append(os, o) \in T
  <2>1. Append(os, o) \in Seq(Opt) /\ filterOption(Append(os, o)) = Added(filterOption(os), o)
    BY FilterOptionSteps
  <2>2. Agrees(Added(filterOption(os), o), Append(os, o))
    BY <1>2, AddedAgrees
  <2> QED BY <2>1, <2>2
<1> HIDE DEF T
<1>3. \A os \in Seq(Opt) : os \in T
  BY <1>1, <1>2, SequenceInduction
<1> QED BY <1>3 DEF T

LEMMA TypeInit == ListInit => TypeInv
BY DEF ListInit, TypeInv

LEMMA TypeNext == TypeInv /\ [ListNext]_listVars => TypeInv'
PROOF
<1> SUFFICES ASSUME TypeInv, [ListNext]_listVars PROVE TypeInv'
  OBVIOUS
<1>1. CASE Grow
  <2>1. PICK v \in Elem : list' = Append(list, v) /\ options' = options
    BY <1>1 DEF Grow
  <2> QED BY <2>1 DEF TypeInv
<1>2. CASE AddOpt
  <2>1. PICK o \in Opt : options' = Append(options, o) /\ list' = list
    BY <1>2 DEF AddOpt
  <2> QED BY <2>1 DEF TypeInv
<1>3. CASE UNCHANGED listVars
  BY <1>3 DEF TypeInv, listVars
<1> QED BY <1>1, <1>2, <1>3 DEF ListNext

THEOREM TypeCorrect == ListSpec => []TypeInv
PROOF
<1> QED BY TypeInit, TypeNext, PTL DEF ListSpec

(* Filter keeps what its options name, each value under the Is or Not before
   it: FilterByOptions for all lists and options (Filter). *)
THEOREM FilterCorrect == ListSpec => []FilterByOptions
PROOF
<1>1. TypeInv => FilterByOptions
  <2> SUFFICES ASSUME TypeInv PROVE FilterByOptions
    OBVIOUS
  <2> DEFINE fo == filterOption(options)
  <2>1. Agrees(fo, options)
    BY FilterOptionAgrees DEF TypeInv
  <2> HIDE DEF fo
  <2>2. \A k \in DOMAIN options : {j \in 1..k - 1 : options[j] \in [opt : {"Is", "Not"}]} = Marks(options, k)
    BY DEF Marks
  <2>3. Given(options, "Is") = GivenFor("Is") /\ Given(options, "Not") = GivenFor("Not")
    BY <2>2 DEF Given, GivenFor, MarkBefore
  <2>4. \A w : AskedIn(options, w) = Asked(w)
    BY DEF AskedIn, Asked
  <2>5. Keeps(fo) = Named
    BY <2>1, <2>3, <2>4 DEF Agrees, Keeps, Named
  <2> QED BY <2>5 DEF FilterByOptions, Filter, fo
<1> QED BY <1>1, TypeCorrect, PTL

-----------------------------------------------------------------------------
(* Sort.  It is given pairs of a value and the place of the pair. *)
Pair == Int \X Int

Before(a, b) == a[1] < b[1] \/ (a[1] = b[1] /\ a[2] < b[2])

Source(t) == t \in Seq(Pair) /\ \A k \in 1..Len(t) : t[k][2] = k

(* The stretch of s from lo to hi has the pairs that t has there, in order. *)
Part(s, lo, hi) == {s[k] : k \in lo..hi}

Ordered(s, lo, hi) == \A j, k \in lo..hi : j < k => Before(s[j], s[k])

Done(t, s, lo, hi) == Part(s, lo, hi) = Part(t, lo, hi) /\ Ordered(s, lo, hi)

(* An array as long as t. *)
Like(t, s) == s \in Seq(Pair) /\ Len(s) = Len(t)

Elsewhere(s, u, lo, hi) == \A k \in 1..Len(s) : k \notin lo..hi => u[k] = s[k]

LEMMA PairIs ==
    ASSUME NEW s \in Seq(Pair), NEW k \in 1..Len(s)
    PROVE  s[k] \in Pair /\ s[k][1] \in Int /\ s[k][2] \in Int
BY DEF Pair

(* The places of the pairs of a stretch are of that stretch. *)
LEMMA PlaceWithin ==
    ASSUME NEW t, Source(t), NEW s, Like(t, s),
           NEW lo \in Int, NEW hi \in Int, 1 <= lo, hi <= Len(t), Done(t, s, lo, hi),
           NEW k \in lo..hi
    PROVE  s[k][2] \in lo..hi
PROOF
<1>1. s[k] \in Part(t, lo, hi)
  BY DEF Done, Part
<1>2. PICK j \in lo..hi : s[k] = t[j]
  BY <1>1 DEF Part
<1>3. j \in 1..Len(t)
  BY DEF Source
<1> QED BY <1>2, <1>3 DEF Source

LEMMA DoneFrame ==
    ASSUME NEW t, NEW s, NEW u, NEW lo \in Int, NEW hi \in Int,
           Done(t, s, lo, hi), \A k \in lo..hi : u[k] = s[k]
    PROVE  Done(t, u, lo, hi)
PROOF
<1>1. Part(u, lo, hi) = Part(s, lo, hi)
  BY DEF Part
<1>2. Ordered(u, lo, hi)
  BY DEF Done, Ordered
<1> QED BY <1>1, <1>2 DEF Done

LEMMA DoneOne ==
    ASSUME NEW t, NEW s, NEW lo \in Int, NEW hi \in Int, hi <= lo, \A k \in lo..hi : s[k] = t[k]
    PROVE  Done(t, s, lo, hi)
PROOF
<1>1. Part(s, lo, hi) = Part(t, lo, hi)
  BY DEF Part
<1>2. Ordered(s, lo, hi)
  BY DEF Ordered
<1> QED BY <1>1, <1>2 DEF Done

-----------------------------------------------------------------------------
(* One pair is inserted into the stretch before it. *)
InsertPlace(s, left, i) == 1 + Max({left - 1} \cup {j \in left..i - 1 : ~Less(s[i], s[j])})

LEMMA InsertPlaceIs ==
    ASSUME NEW s \in Seq(Pair), NEW left \in Nat, NEW i \in Nat, 1 <= left, left < i, i <= Len(s),
           NEW p, p = InsertPlace(s, left, i)
    PROVE  /\ p \in left..i
           /\ p # left => ~Less(s[i], s[p - 1])
           /\ \A j \in p..i - 1 : Less(s[i], s[j])
PROOF
<1> DEFINE S == {left - 1} \cup {j \in left..i - 1 : ~Less(s[i], s[j])}
<1>1. S \in SUBSET (0..i) /\ S # {}
  OBVIOUS
<1>2. Max(S) \in S /\ \A x \in S : x <= Max(S)
  <2> HIDE DEF S
  <2> QED BY <1>1, MaxIs
<1>3. p = 1 + Max(S)
  BY DEF InsertPlace
<1> DEFINE m == Max(S)
<1>4. p = 1 + m /\ m \in left - 1..i - 1 /\ (m = left - 1 \/ ~Less(s[i], s[m]))
  BY <1>2, <1>3
<1>5. \A j \in left..i - 1 : j > m => Less(s[i], s[j])
  BY <1>2, <1>4
<1> HIDE DEF m
<1>6. p \in left..i /\ p - 1 = m /\ \A j \in p..i - 1 : j \in left..i - 1 /\ j > m
  BY <1>4
<1> QED BY <1>4, <1>5, <1>6

LEMMA InsertedIs ==
    ASSUME NEW s \in Seq(Pair), NEW left \in Nat, NEW i \in Nat, 1 <= left, left < i, i <= Len(s),
           NEW p, p = InsertPlace(s, left, i), NEW u, u = Inserted(s, left, i)
    PROVE  /\ u \in Seq(Pair) /\ Len(u) = Len(s)
           /\ u[p] = s[i]
           /\ \A k \in p + 1..i : u[k] = s[k - 1]
           /\ \A k \in 1..Len(s) : k \notin p..i => u[k] = s[k]
PROOF
<1>1. p \in left..i
  BY InsertPlaceIs
<1>2. u = [k \in 1..Len(s) |-> IF k = p THEN s[i] ELSE IF k \in p + 1..i THEN s[k - 1] ELSE s[k]]
  BY DEF Inserted, InsertPlace
<1>3. \A k \in 1..Len(s) : u[k] = IF k = p THEN s[i] ELSE IF k \in p + 1..i THEN s[k - 1] ELSE s[k]
  BY <1>2
<1>4. \A k \in 1..Len(s) : s[k] \in Pair
  OBVIOUS
<1>5. \A k \in 1..Len(s) : u[k] \in Pair
  BY <1>1, <1>3, <1>4
<1>6. u \in Seq(Pair) /\ Len(u) = Len(s)
  BY <1>2, <1>5
<1> QED BY <1>1, <1>3, <1>6

LEMMA InsertedDone ==
    ASSUME NEW t, Source(t), NEW s, Like(t, s),
           NEW left \in Nat, NEW i \in Nat, 1 <= left, left < i, i <= Len(t),
           Done(t, s, left, i - 1), s[i] = t[i],
           NEW u, u = Inserted(s, left, i)
    PROVE  Like(t, u) /\ Done(t, u, left, i) /\ Elsewhere(s, u, left, i)
PROOF
<1> DEFINE p == InsertPlace(s, left, i)
<1>1. s \in Seq(Pair) /\ Len(s) = Len(t) /\ Len(t) \in Nat /\ i <= Len(s)
  BY DEF Like, Source
<1>2. /\ p \in left..i
      /\ p # left => ~Less(s[i], s[p - 1])
      /\ \A j \in p..i - 1 : Less(s[i], s[j])
  BY <1>1, InsertPlaceIs
<1>11. p = InsertPlace(s, left, i)
  OBVIOUS
<1> HIDE DEF p
<1>3. /\ u \in Seq(Pair) /\ Len(u) = Len(s)
      /\ u[p] = s[i]
      /\ \A k \in p + 1..i : u[k] = s[k - 1]
      /\ \A k \in 1..Len(s) : k \notin p..i => u[k] = s[k]
  BY <1>1, <1>11, InsertedIs
<1>4. Like(t, u) /\ Elsewhere(s, u, left, i)
  BY <1>1, <1>2, <1>3 DEF Like, Elsewhere
<1>5. \A k \in left..p - 1 : u[k] = s[k] /\ k \in left..i - 1
  BY <1>1, <1>2, <1>3
<1>6. /\ \A k \in left..i : k \in left..p - 1 \/ k = p \/ k \in p + 1..i
      /\ \A k \in p + 1..i : k - 1 \in p..i - 1 /\ k - 1 \in left..i - 1
      /\ \A k \in left..i - 1 : k \in left..p - 1 \/ (k + 1 \in p + 1..i /\ (k + 1) - 1 = k)
      /\ left..p - 1 \subseteq left..i /\ p + 1..i \subseteq left..i /\ p \in left..i
      /\ left..i - 1 \subseteq left..i /\ i \in left..i
      /\ \A k \in left..i : k \in left..i - 1 \/ k = i
  BY <1>2
<1>7. Part(u, left, i) = Part(s, left, i - 1) \cup {s[i]}
  <2>1. ASSUME NEW x \in Part(u, left, i) PROVE x \in Part(s, left, i - 1) \cup {s[i]}
    <3>1. PICK k \in left..i : x = u[k]
      BY DEF Part
    <3> QED BY <1>3, <1>5, <1>6, <3>1 DEF Part
  <2>2. ASSUME NEW x \in Part(s, left, i - 1) \cup {s[i]} PROVE x \in Part(u, left, i)
    <3>1. CASE x = s[i]
      BY <1>3, <1>6, <3>1 DEF Part
    <3>2. CASE x \in Part(s, left, i - 1)
      <4>1. PICK k \in left..i - 1 : x = s[k]
        BY <3>2 DEF Part
      <4>2. CASE k \in left..p - 1
        BY <1>5, <1>6, <4>1, <4>2 DEF Part
      <4>3. CASE k + 1 \in p + 1..i /\ (k + 1) - 1 = k
        <5>1. u[k + 1] = x /\ k + 1 \in left..i
          BY <1>3, <1>6, <4>1, <4>3
        <5> QED BY <5>1 DEF Part
      <4> QED BY <1>6, <4>2, <4>3
    <3> QED BY <3>1, <3>2
  <2> QED BY <2>1, <2>2
<1>8. Part(t, left, i) = Part(t, left, i - 1) \cup {t[i]}
  BY <1>6 DEF Part
<1>9. Part(u, left, i) = Part(t, left, i)
  BY <1>7, <1>8 DEF Done
<1>10. Ordered(u, left, i)
  <2>1. \A k \in left..i - 1 : s[k] \in Pair /\ s[k][1] \in Int /\ s[k][2] \in Int /\ s[k][2] <= i - 1
    <3> SUFFICES ASSUME NEW k \in left..i - 1 
                 PROVE  s[k] \in Pair /\ s[k][1] \in Int /\ s[k][2] \in Int /\ s[k][2] <= i - 1
      OBVIOUS
    <3>1. k \in 1..Len(s) /\ i - 1 \in Int /\ i - 1 <= Len(t) /\ left \in Int
      BY <1>1
    <3>2. s[k][2] \in left..i - 1
      BY <3>1, PlaceWithin
    <3> QED BY <1>1, <3>1, <3>2, PairIs
  <2>2. s[i] \in Pair /\ s[i][1] \in Int /\ s[i][2] = i
    <3>1. i \in 1..Len(s)
      BY <1>1
    <3> QED BY <1>1, <3>1, PairIs DEF Source
  <2>3. \A j, k \in left..i - 1 : j < k => Before(s[j], s[k])
    BY DEF Done, Ordered
  <2>4. \A k \in left..p - 1 : Before(s[k], s[i])
    <3> SUFFICES ASSUME NEW k \in left..p - 1 PROVE Before(s[k], s[i])
      OBVIOUS
    <3>1. p # left /\ p - 1 \in left..i - 1 /\ k \in left..i - 1 /\ (k = p - 1 \/ k < p - 1)
      BY <1>2
    <3>2. s[p - 1][1] <= s[i][1]
      BY <1>2, <2>1, <2>2, <3>1 DEF Less
    <3>3. s[k][1] <= s[p - 1][1]
      BY <2>1, <2>3, <3>1 DEF Before
    <3> QED BY <2>1, <2>2, <3>1, <3>2, <3>3 DEF Before
  <2>5. \A k \in p..i - 1 : Before(s[i], s[k])
    BY <1>2 DEF Before, Less
  <2> SUFFICES ASSUME NEW j \in left..i, NEW k \in left..i, j < k PROVE Before(u[j], u[k])
    BY DEF Ordered
  <2>6. CASE j \in left..p - 1 /\ k \in left..p - 1
    BY <1>5, <2>3, <2>6
  <2>7. CASE j \in left..p - 1 /\ k = p
    BY <1>3, <1>5, <2>4, <2>7
  <2>8. CASE j \in left..p - 1 /\ k \in p + 1..i
    <3>1. k - 1 \in left..i - 1 /\ j \in left..i - 1 /\ j < k - 1
      BY <1>2, <2>8
    <3> QED BY <1>3, <1>5, <2>3, <2>8, <3>1
  <2>9. CASE j = p /\ k \in p + 1..i
    BY <1>3, <1>6, <2>5, <2>9
  <2>10. CASE j \in p + 1..i /\ k \in p + 1..i
    <3>1. k - 1 \in left..i - 1 /\ j - 1 \in left..i - 1 /\ j - 1 < k - 1
      BY <1>2, <2>10
    <3> QED BY <1>3, <2>3, <2>10, <3>1
  <2>11. \/ j \in left..p - 1 /\ (k \in left..p - 1 \/ k = p \/ k \in p + 1..i)
         \/ j = p /\ k \in p + 1..i
         \/ j \in p + 1..i /\ k \in p + 1..i
    BY <1>2
  <2> QED BY <2>6, <2>7, <2>8, <2>9, <2>10, <2>11
<1> QED BY <1>4, <1>9, <1>10 DEF Done

(* The array after k turns of the outer loop. *)
InsertionsOf(s, left, n, f) == f = [k \in 0..n |-> IF k = 0 THEN s ELSE Inserted(f[k - 1], left, left + k)]

LEMMA InsertionsExists ==
    ASSUME NEW s, NEW left, NEW n \in Nat
    PROVE  \E f : InsertionsOf(s, left, n, f)
PROOF
<1> DEFINE T == {m \in 0..n : \E f : InsertionsOf(s, left, m, f)}
<1>1. 0 \in T
  <2> DEFINE g == [k \in 0..0 |-> s]
  <2>1. InsertionsOf(s, left, 0, g)
    BY DEF InsertionsOf
  <2> QED BY <2>1
<1>2. ASSUME NEW m \in 1..n, m - 1 \in T PROVE m \in T
  <2>1. PICK f : InsertionsOf(s, left, m - 1, f)
    BY <1>2
  <2> DEFINE g == [k \in 0..m |-> IF k < m THEN f[k] ELSE Inserted(f[m - 1], left, left + m)]
  <2>2. ASSUME NEW k \in 0..m
        PROVE  g[k] = IF k = 0 THEN s ELSE Inserted(g[k - 1], left, left + k)
    <3>1. k < m => f[k] = IF k = 0 THEN s ELSE Inserted(f[k - 1], left, left + k)
      BY <2>1 DEF InsertionsOf
    <3>2. k # 0 => g[k - 1] = f[k - 1]
      OBVIOUS
    <3> QED BY <3>1, <3>2
  <2>3. InsertionsOf(s, left, m, g)
    BY <2>2 DEF InsertionsOf
  <2> QED BY <2>3
<1>3. \A m \in 0..n : m \in T
  <2> HIDE DEF T
  <2> QED BY <1>1, <1>2, StretchInduction
<1> QED BY <1>3

LEMMA InsertionSortDone ==
    ASSUME NEW t, Source(t), NEW s, Like(t, s),
           NEW lo \in Nat, NEW hi \in Nat, 1 <= lo, lo <= hi, hi <= Len(t),
           \A k \in lo..hi : s[k] = t[k],
           NEW u, u = insertionSort(s, lo, hi)
    PROVE  Like(t, u) /\ Done(t, u, lo, hi) /\ Elsewhere(s, u, lo, hi)
PROOF
<1> DEFINE n == hi - lo
           f == CHOOSE f : InsertionsOf(s, lo, n, f)
<1>1. n \in Nat /\ lo + n = hi /\ Len(s) = Len(t) /\ Len(t) \in Nat /\ hi <= Len(t)
  BY DEF Like, Source
<1>2. InsertionsOf(s, lo, n, f)
  BY <1>1, InsertionsExists
<1>3. u = f[n]
  BY DEF insertionSort, InsertionsOf
<1> HIDE DEF f, n
<1>4. f[0] = s /\ \A k \in 1..n : f[k] = Inserted(f[k - 1], lo, lo + k)
  <2>1. \A k \in 0..n : f[k] = IF k = 0 THEN s ELSE Inserted(f[k - 1], lo, lo + k)
    BY <1>2 DEF InsertionsOf
  <2> QED BY <1>1, <2>1
<1> DEFINE T == {k \in 0..n : /\ Like(t, f[k]) /\ Done(t, f[k], lo, lo + k)
                              /\ Elsewhere(s, f[k], lo, lo + k)}
<1>5. 0 \in T
  <2>1. Done(t, s, lo, lo + 0)
    BY <1>1, DoneOne
  <2>2. Elsewhere(s, s, lo, lo + 0)
    BY DEF Elsewhere
  <2> QED BY <1>1, <1>4, <2>1, <2>2
<1>6. ASSUME NEW k \in 1..n, k - 1 \in T PROVE k \in T
  <2> DEFINE i == lo + k  v == f[k - 1]  w == f[k]
  <2>1. /\ i \in Nat /\ lo < i /\ i <= Len(t) /\ lo + (k - 1) = i - 1 /\ i \in lo..hi
        /\ i \in 1..Len(s) /\ i \notin lo..i - 1
    BY <1>1
  <2>2. Like(t, v) /\ Done(t, v, lo, i - 1) /\ Elsewhere(s, v, lo, i - 1) /\ w = Inserted(v, lo, i)
    BY <1>4, <1>6, <2>1
  <2> HIDE DEF i, v, w
  <2>3. v[i] = t[i]
    BY <2>1, <2>2 DEF Elsewhere
  <2>4. Like(t, w) /\ Done(t, w, lo, i) /\ Elsewhere(v, w, lo, i)
    BY <2>1, <2>2, <2>3, InsertedDone
  <2>5. Elsewhere(s, w, lo, i)
    BY <1>1, <2>1, <2>2, <2>4 DEF Elsewhere, Like
  <2> QED BY <2>4, <2>5 DEF w, i
<1>7. \A k \in 0..n : k \in T
  <2> HIDE DEF T
  <2> QED BY <1>1, <1>5, <1>6, StretchInduction
<1>8. n \in T
  BY <1>1, <1>7
<1> QED BY <1>1, <1>3, <1>8

-----------------------------------------------------------------------------
(* Two neighbouring stretches are merged. *)
TakeNext(s, l, m, r, k, i) == IF LeftNext(s, l + i, m, m + k - i, r) THEN i + 1 ELSE i

(* How many come from the left of the first k. *)
TakingsOf(s, l, mid, r, n, f) == f = [k \in 0..n |-> IF k = 0 THEN 0 ELSE TakeNext(s, l, mid, r, k, f[k - 1])]

LEMMA TakingsExists ==
    ASSUME NEW s, NEW l, NEW mid, NEW r, NEW n \in Nat
    PROVE  \E f : TakingsOf(s, l, mid, r, n, f)
PROOF
<1> DEFINE T == {m \in 0..n : \E f : TakingsOf(s, l, mid, r, m, f)}
<1>1. 0 \in T
  <2> DEFINE g == [k \in 0..0 |-> 0]
  <2>1. TakingsOf(s, l, mid, r, 0, g)
    BY DEF TakingsOf
  <2> QED BY <2>1
<1>2. ASSUME NEW m \in 1..n, m - 1 \in T PROVE m \in T
  <2>1. PICK f : TakingsOf(s, l, mid, r, m - 1, f)
    BY <1>2
  <2> DEFINE g == [k \in 0..m |-> IF k < m THEN f[k] ELSE TakeNext(s, l, mid, r, m, f[m - 1])]
  <2>2. ASSUME NEW k \in 0..m
        PROVE  g[k] = IF k = 0 THEN 0 ELSE TakeNext(s, l, mid, r, k, g[k - 1])
    <3>1. k < m => f[k] = IF k = 0 THEN 0 ELSE TakeNext(s, l, mid, r, k, f[k - 1])
      BY <2>1 DEF TakingsOf
    <3>2. k # 0 => g[k - 1] = f[k - 1]
      OBVIOUS
    <3> QED BY <3>1, <3>2
  <2>3. TakingsOf(s, l, mid, r, m, g)
    BY <2>2 DEF TakingsOf
  <2> QED BY <2>3
<1>3. \A m \in 0..n : m \in T
  <2> HIDE DEF T
  <2> QED BY <1>1, <1>2, StretchInduction
<1> QED BY <1>3

LEMMA TakenIs ==
    ASSUME NEW s, NEW l \in Nat, NEW m \in Nat, NEW r \in Nat, l <= m, m <= r,
           NEW f, f = Taken(s, l, m, r)
    PROVE  /\ f[0] = 0 /\ \A k \in 1..r - l + 1 : f[k] = TakeNext(s, l, m, r, k, f[k - 1])
PROOF
<1> DEFINE n == r - l + 1
           g == CHOOSE g : TakingsOf(s, l, m, r, n, g)
<1>1. n \in Nat
  OBVIOUS
<1>2. TakingsOf(s, l, m, r, n, g)
  BY <1>1, TakingsExists
<1>3. f = g
  BY DEF Taken, TakingsOf, TakeNext
<1> HIDE DEF g, n
<1>4. \A k \in 0..n : f[k] = IF k = 0 THEN 0 ELSE TakeNext(s, l, m, r, k, f[k - 1])
  BY <1>2, <1>3 DEF TakingsOf
<1> QED BY <1>1, <1>4 DEF n

(* Each of the two parts is used up from its start on. *)
LEMMA TakenType ==
    ASSUME NEW s, NEW l \in Nat, NEW m \in Nat, NEW r \in Nat, l <= m, m <= r,
           NEW f, f = Taken(s, l, m, r)
    PROVE  \A k \in 0..r - l + 1 : f[k] \in 0..m - l + 1 /\ k - f[k] \in 0..r - m
PROOF
<1> DEFINE n == r - l + 1
           T == {k \in 0..n : f[k] \in 0..m - l + 1 /\ k - f[k] \in 0..r - m}
<1>1. n \in Nat /\ f[0] = 0 /\ \A k \in 1..n : f[k] = TakeNext(s, l, m, r, k, f[k - 1])
  BY TakenIs
<1>2. 0 \in T
  BY <1>1
<1>3. ASSUME NEW k \in 1..n, k - 1 \in T PROVE k \in T
  <2> DEFINE i == f[k - 1]
  <2>1. i \in 0..m - l + 1 /\ k - 1 - i \in 0..r - m
    BY <1>3
  <2>2. f[k] = IF LeftNext(s, l + i, m, m + k - i, r) THEN i + 1 ELSE i
    BY <1>1 DEF TakeNext
  <2> HIDE DEF i
  <2>3. CASE LeftNext(s, l + i, m, m + k - i, r)
    <3>1. l + i <= m
      BY <2>3 DEF LeftNext
    <3> QED BY <2>1, <2>2, <2>3, <3>1
  <2>4. CASE ~LeftNext(s, l + i, m, m + k - i, r)
    <3>1. l + i > m \/ m + k - i <= r
      BY <2>1, <2>4 DEF LeftNext
    <3> QED BY <2>1, <2>2, <2>4, <3>1
  <2> QED BY <2>3, <2>4
<1>4. \A k \in 0..n : k \in T
  <2> HIDE DEF T, n
  <2> QED BY <1>1, <1>2, <1>3, StretchInduction
<1> QED BY <1>4

(* What is written at a place, and where it comes from. *)
MergedAt(s, u, l, m, r, f, k, i, j) ==
    \/ /\ LeftNext(s, i, m, j, r) /\ i \in l..m
       /\ u[l + k] = s[i] /\ f[k + 1] = f[k] + 1
    \/ /\ ~LeftNext(s, i, m, j, r) /\ j \in m + 1..r
       /\ u[l + k] = s[j] /\ f[k + 1] = f[k]

LEMMA MergeStep ==
    ASSUME NEW s \in Seq(Pair), NEW l \in Nat, NEW m \in Nat, NEW r \in Nat,
           1 <= l, l <= m, m <= r, r <= Len(s),
           NEW f, f = Taken(s, l, m, r), NEW u, u = merge(s, l, m, r),
           NEW k \in 0..r - l
    PROVE  MergedAt(s, u, l, m, r, f, k, l + f[k], m + 1 + k - f[k])
PROOF
<1> DEFINE a == f[k]
           i == l + a
           j == m + 1 + k - a
           b == f[k + 1]
<1>1. /\ k \in 0..r - l + 1 /\ k + 1 \in 1..r - l + 1 /\ k + 1 \in 0..r - l + 1 /\ (k + 1) - 1 = k
      /\ l + k \in 1..Len(s) /\ l + k \in l..r /\ (l + k) - l = k /\ k \in Int
  OBVIOUS
<1>2. a \in 0..m - l + 1 /\ k - a \in 0..r - m /\ b \in 0..m - l + 1 /\ (k + 1) - b \in 0..r - m
  <2>1. \A p \in 0..r - l + 1 : f[p] \in 0..m - l + 1 /\ p - f[p] \in 0..r - m
    BY TakenType
  <2> QED BY <1>1, <2>1
<1>3. b = IF LeftNext(s, l + a, m, m + (k + 1) - a, r) THEN a + 1 ELSE a
  <2>1. \A p \in 1..r - l + 1 : f[p] = TakeNext(s, l, m, r, p, f[p - 1])
    BY TakenIs
  <2>2. f[k + 1] = TakeNext(s, l, m, r, k + 1, f[(k + 1) - 1])
    BY <1>1, <2>1
  <2> QED BY <1>1, <2>2 DEF TakeNext
<1>4. u[l + k] = IF b # a THEN s[i] ELSE s[j]
  <2> DEFINE written(p) == IF f[p + 1] # f[p] THEN s[l + f[p]] ELSE s[m + 1 + p - f[p]]
  <2>1. u = [p \in 1..Len(s) |-> IF p \in l..r THEN written(p - l) ELSE s[p]]
    BY DEF merge
  <2>2. u[l + k] = written(k)
    BY <1>1, <2>1
  <2> QED BY <2>2
<1> HIDE DEF a, b
<1>5. m + (k + 1) - a = j /\ i \in l..m + 1 /\ j \in m + 1..r + 1
  BY <1>1, <1>2
<1>6. b = IF LeftNext(s, i, m, j, r) THEN a + 1 ELSE a
  BY <1>3, <1>5
<1>7. CASE LeftNext(s, i, m, j, r)
  <2>1. i \in l..m
    BY <1>5, <1>7 DEF LeftNext
  <2>2. b = a + 1 /\ b # a
    BY <1>2, <1>6, <1>7
  <2> QED BY <1>4, <1>7, <2>1, <2>2 DEF MergedAt, a, b
<1>8. CASE ~LeftNext(s, i, m, j, r)
  <2>1. b = a
    BY <1>6, <1>8
  <2>2. j <= r
    BY <1>1, <1>2, <2>1
  <2> QED BY <1>4, <1>5, <1>8, <2>1, <2>2 DEF MergedAt, a, b
<1> QED BY <1>7, <1>8 DEF a

LEMMA MergeType ==
    ASSUME NEW s \in Seq(Pair), NEW l \in Nat, NEW m \in Nat, NEW r \in Nat,
           1 <= l, l <= m, m <= r, r <= Len(s), NEW u, u = merge(s, l, m, r)
    PROVE  u \in Seq(Pair) /\ Len(u) = Len(s) /\ Elsewhere(s, u, l, r)
PROOF
<1> DEFINE f == Taken(s, l, m, r)
           written(p) == IF f[p + 1] # f[p] THEN s[l + f[p]] ELSE s[m + 1 + p - f[p]]
<1>1. u = [p \in 1..Len(s) |-> IF p \in l..r THEN written(p - l) ELSE s[p]]
  BY DEF merge
<1> HIDE DEF f, written
<1>2. DOMAIN u = 1..Len(s) /\ Elsewhere(s, u, l, r)
  BY <1>1 DEF Elsewhere
<1>3. \A p \in 1..Len(s) : u[p] \in Pair
  <2> SUFFICES ASSUME NEW p \in 1..Len(s) PROVE u[p] \in Pair
    OBVIOUS
  <2>1. CASE p \notin l..r
    BY <1>2, <2>1 DEF Elsewhere
  <2>2. CASE p \in l..r
    <3> DEFINE k == p - l
    <3>1. k \in 0..r - l /\ l + k = p
      BY <2>2
    <3> HIDE DEF k
    <3>2. MergedAt(s, u, l, m, r, f, k, l + f[k], m + 1 + k - f[k])
      BY <3>1, MergeStep DEF f
    <3>3. \E q \in 1..Len(s) : u[l + k] = s[q]
      <4>1. l..m \subseteq 1..Len(s) /\ m + 1..r \subseteq 1..Len(s)
        OBVIOUS
      <4> QED BY <3>2, <4>1 DEF MergedAt
    <3> QED BY <3>1, <3>3
  <2> QED BY <2>1, <2>2
<1>4. u = [p \in 1..Len(s) |-> u[p]]
  BY <1>1, <1>2
<1> QED BY <1>2, <1>3, <1>4

(* The places next in the left and in the right part, after k elements. *)
Merging(s, u, l, m, r, a, b) ==
    /\ a[0] = l /\ b[0] = m + 1 /\ a[r - l + 1] = m + 1 /\ b[r - l + 1] = r + 1
    /\ \A k \in 0..r - l + 1 : a[k] \in l..m + 1 /\ b[k] \in m + 1..r + 1
    /\ \A k \in 0..r - l :
         \/ /\ a[k] \in l..m /\ (b[k] \in m + 1..r => ~Less(s[b[k]], s[a[k]]))
            /\ u[l + k] = s[a[k]] /\ a[k + 1] = a[k] + 1 /\ b[k + 1] = b[k]
         \/ /\ b[k] \in m + 1..r /\ (a[k] \in l..m => Less(s[b[k]], s[a[k]]))
            /\ u[l + k] = s[b[k]] /\ a[k + 1] = a[k] /\ b[k + 1] = b[k] + 1

LEMMA MergingExists ==
    ASSUME NEW s \in Seq(Pair), NEW l \in Nat, NEW m \in Nat, NEW r \in Nat,
           1 <= l, l <= m, m <= r, r <= Len(s), NEW u, u = merge(s, l, m, r)
    PROVE  \E a, b : Merging(s, u, l, m, r, a, b)
PROOF
<1> DEFINE f == Taken(s, l, m, r)
           n == r - l + 1
           a == [k \in 0..n |-> l + f[k]]
           b == [k \in 0..n |-> m + 1 + k - f[k]]
<1>1. n \in Nat /\ n - 1 = r - l
  OBVIOUS
<1>2. \A k \in 0..n : f[k] \in 0..m - l + 1 /\ k - f[k] \in 0..r - m
  BY TakenType
<1>3. f[0] = 0
  BY TakenIs
<1>4. \A k \in 0..n - 1 : MergedAt(s, u, l, m, r, f, k, a[k], b[k])
  <2>1. \A k \in 0..n - 1 : a[k] = l + f[k] /\ b[k] = m + 1 + k - f[k]
    BY <1>1
  <2>2. \A k \in 0..r - l : MergedAt(s, u, l, m, r, f, k, l + f[k], m + 1 + k - f[k])
    BY MergeStep
  <2> HIDE DEF a, b, n, f
  <2> QED BY <1>1, <2>1, <2>2
<1>5. \A k \in 0..n : a[k] = l + f[k] /\ b[k] = m + 1 + k - f[k]
  OBVIOUS
<1>6. \A k \in 0..n - 1 : k \in 0..n /\ k + 1 \in 0..n
  BY <1>1
<1> HIDE DEF f, n, a, b
<1>7. \A k \in 0..n : f[k] \in Int /\ a[k] \in l..m + 1 /\ b[k] \in m + 1..r + 1
  <2> SUFFICES ASSUME NEW k \in 0..n
               PROVE  f[k] \in Int /\ a[k] \in l..m + 1 /\ b[k] \in m + 1..r + 1
    OBVIOUS
  <2>1. f[k] \in 0..m - l + 1 /\ k - f[k] \in 0..r - m /\ k \in Int
    BY <1>1, <1>2
  <2> QED BY <1>5, <2>1
<1>8. a[0] = l /\ b[0] = m + 1 /\ a[n] = m + 1 /\ b[n] = r + 1
  <2>1. 0 \in 0..n /\ n \in 0..n /\ n = r - l + 1
    BY <1>1 DEF n
  <2>2. a[0] = l /\ b[0] = m + 1
    BY <1>3, <1>5, <2>1
  <2>3. f[n] \in 0..m - l + 1 /\ n - f[n] \in 0..r - m
    BY <1>2, <2>1
  <2>4. f[n] = m - l + 1
    BY <2>1, <2>3
  <2> QED BY <1>5, <2>1, <2>2, <2>4
<1>9. ASSUME NEW k \in 0..n - 1
      PROVE \/ /\ a[k] \in l..m /\ (b[k] \in m + 1..r => ~Less(s[b[k]], s[a[k]]))
               /\ u[l + k] = s[a[k]] /\ a[k + 1] = a[k] + 1 /\ b[k + 1] = b[k]
            \/ /\ b[k] \in m + 1..r /\ (a[k] \in l..m => Less(s[b[k]], s[a[k]]))
               /\ u[l + k] = s[b[k]] /\ a[k + 1] = a[k] /\ b[k + 1] = b[k] + 1
  <2>1. f[k] \in Int /\ f[k + 1] \in Int /\ k \in Int /\ b[k] \in m + 1..r + 1 /\ a[k] \in l..m + 1
    BY <1>1, <1>6, <1>7
  <2>2. /\ a[k] = l + f[k] /\ b[k] = m + 1 + k - f[k]
        /\ a[k + 1] = l + f[k + 1] /\ b[k + 1] = m + 1 + (k + 1) - f[k + 1]
    BY <1>5, <1>6
  <2> DEFINE x == f[k]  y == f[k + 1]  c == a[k + 1]  d == b[k + 1]
  <2>3. /\ x \in Int /\ y \in Int /\ k \in Int /\ a[k] = l + x /\ b[k] = m + 1 + k - x
        /\ c = l + y /\ d = m + 1 + (k + 1) - y
    BY <2>1, <2>2
  <2> HIDE DEF x, y, c, d
  <2>4. /\ y = x + 1 => c = a[k] + 1 /\ d = b[k]
        /\ y = x => c = a[k] /\ d = b[k] + 1
    BY <2>3
  <2>5. /\ LeftNext(s, a[k], m, b[k], r) => (b[k] \in m + 1..r => ~Less(s[b[k]], s[a[k]]))
        /\ ~LeftNext(s, a[k], m, b[k], r) => (a[k] \in l..m => Less(s[b[k]], s[a[k]]))
    BY <2>1 DEF LeftNext
  <2> QED BY <1>4, <2>4, <2>5 DEF MergedAt, x, y, c, d
<1>10. Merging(s, u, l, m, r, a, b)
  BY <1>1, <1>7, <1>8, <1>9 DEF Merging, n
<1> QED BY <1>10

LEMMA MergingMonotone ==
    ASSUME NEW s, NEW u, NEW l \in Nat, NEW m \in Nat, NEW r \in Nat, l <= m, m <= r,
           NEW a, NEW b, Merging(s, u, l, m, r, a, b)
    PROVE  \A k \in 0..r - l + 1 : \A p \in 0..k : a[p] <= a[k] /\ b[p] <= b[k]
PROOF
<1> DEFINE n == r - l + 1
           T == {k \in 0..n : \A p \in 0..k : a[p] <= a[k] /\ b[p] <= b[k]}
<1>1. n \in Nat
  OBVIOUS
<1>2. \A k \in 0..n : a[k] \in Int /\ b[k] \in Int
  BY DEF Merging
<1>3. \A k \in 1..n : a[k - 1] <= a[k] /\ b[k - 1] <= b[k]
  <2> SUFFICES ASSUME NEW k \in 1..n PROVE a[k - 1] <= a[k] /\ b[k - 1] <= b[k]
    OBVIOUS
  <2>1. k - 1 \in 0..r - l /\ (k - 1) + 1 = k /\ k - 1 \in 0..n
    OBVIOUS
  <2>2. \/ a[k] = a[k - 1] + 1 /\ b[k] = b[k - 1]
        \/ a[k] = a[k - 1] /\ b[k] = b[k - 1] + 1
    BY <2>1 DEF Merging
  <2> QED BY <1>2, <2>1, <2>2
<1> HIDE DEF n
<1>4. 0 \in T
  BY <1>1, <1>2
<1>5. ASSUME NEW k \in 1..n, k - 1 \in T PROVE k \in T
  <2>1. \A p \in 0..k : p = k \/ p \in 0..k - 1
    BY <1>1
  <2>2. \A p \in 0..k : p \in 0..n /\ k - 1 \in 0..n
    BY <1>1
  <2> QED BY <1>2, <1>3, <1>5, <2>1, <2>2
<1>6. \A k \in 0..n : k \in T
  <2> HIDE DEF T
  <2> QED BY <1>1, <1>4, <1>5, StretchInduction
<1> QED BY <1>6 DEF n

(* Every element of both parts is written, and nothing else. *)
LEMMA MergingPart ==
    ASSUME NEW s, NEW u, NEW l \in Nat, NEW m \in Nat, NEW r \in Nat, l <= m, m <= r,
           NEW a, NEW b, Merging(s, u, l, m, r, a, b)
    PROVE  Part(u, l, r) = Part(s, l, r)
PROOF
<1> DEFINE n == r - l + 1
           T == {k \in 0..n : /\ \A q \in l..a[k] - 1 : s[q] \in Part(u, l, l + k - 1)
                              /\ \A q \in m + 1..b[k] - 1 : s[q] \in Part(u, l, l + k - 1)}
<1>1. /\ n \in Nat /\ n = r - l + 1 /\ l + n - 1 = r
      /\ \A k \in 1..n : k - 1 \in 0..r - l /\ (k - 1) + 1 = k /\ k \in 0..n /\ k - 1 \in 0..n
  OBVIOUS
<1>2. \A k \in 0..n : a[k] \in l..m + 1 /\ b[k] \in m + 1..r + 1
  BY <1>1 DEF Merging
<1>3. a[0] = l /\ b[0] = m + 1 /\ a[n] = m + 1 /\ b[n] = r + 1
  BY <1>1 DEF Merging
<1>4. \A k \in 0..r - l :
         \/ a[k] \in l..m /\ u[l + k] = s[a[k]] /\ a[k + 1] = a[k] + 1 /\ b[k + 1] = b[k]
         \/ b[k] \in m + 1..r /\ u[l + k] = s[b[k]] /\ a[k + 1] = a[k] /\ b[k + 1] = b[k] + 1
  BY DEF Merging
<1> HIDE DEF n
<1>5. 0 \in T
  BY <1>1, <1>3
<1>6. ASSUME NEW k \in 1..n, k - 1 \in T PROVE k \in T
  <2> DEFINE p == l + (k - 1)
  <2>1. /\ p \in l..p /\ l + k - 1 = p /\ l + (k - 1) - 1 = p - 1 /\ p \in Int
        /\ l..p - 1 \subseteq l..p
    BY <1>1
  <2>2. \/ u[p] = s[a[k - 1]] /\ a[k] = a[k - 1] + 1 /\ b[k] = b[k - 1]
        \/ u[p] = s[b[k - 1]] /\ a[k] = a[k - 1] /\ b[k] = b[k - 1] + 1
    BY <1>1, <1>4
  <2>3. /\ \A q \in l..a[k - 1] - 1 : s[q] \in Part(u, l, p - 1)
        /\ \A q \in m + 1..b[k - 1] - 1 : s[q] \in Part(u, l, p - 1)
    BY <1>6, <2>1
  <2> DEFINE i == a[k - 1]  j == b[k - 1]
  <2>4. i \in Int /\ j \in Int
    BY <1>1, <1>2
  <2> HIDE DEF i, j, p
  <2>5. Part(u, l, p - 1) \subseteq Part(u, l, p) /\ u[p] \in Part(u, l, p)
    BY <2>1 DEF Part
  <2>6. /\ \A q \in l..a[k] - 1 : s[q] \in Part(u, l, p)
        /\ \A q \in m + 1..b[k] - 1 : s[q] \in Part(u, l, p)
    <3>1. \A q \in l..(i + 1) - 1 : q = i \/ q \in l..i - 1
      BY <2>4
    <3>2. \A q \in m + 1..(j + 1) - 1 : q = j \/ q \in m + 1..j - 1
      BY <2>4
    <3> QED BY <2>2, <2>3, <2>5, <3>1, <3>2 DEF i, j
  <2> QED BY <1>1, <2>1, <2>6
<1>7. \A k \in 0..n : k \in T
  <2> HIDE DEF T
  <2> QED BY <1>1, <1>5, <1>6, StretchInduction
<1>8. \A q \in l..r : s[q] \in Part(u, l, r)
  <2>1. n \in T
    BY <1>1, <1>7
  <2>2. /\ \A q \in l..m : s[q] \in Part(u, l, r)
        /\ \A q \in m + 1..r : s[q] \in Part(u, l, r)
    <3>1. (m + 1) - 1 = m /\ (r + 1) - 1 = r
      OBVIOUS
    <3> QED BY <1>1, <1>3, <2>1, <3>1
  <2>3. \A q \in l..r : q \in l..m \/ q \in m + 1..r
    OBVIOUS
  <2> QED BY <2>2, <2>3
<1>9. \A p \in l..r : u[p] \in Part(s, l, r)
  <2> SUFFICES ASSUME NEW p \in l..r PROVE u[p] \in Part(s, l, r)
    OBVIOUS
  <2> DEFINE k == p - l
  <2>1. k \in 0..r - l /\ l + k = p
    OBVIOUS
  <2> HIDE DEF k
  <2>2. (\E q \in l..m : u[p] = s[q]) \/ (\E q \in m + 1..r : u[p] = s[q])
    BY <1>4, <2>1
  <2>3. l..m \subseteq l..r /\ m + 1..r \subseteq l..r
    OBVIOUS
  <2> QED BY <2>2, <2>3 DEF Part
<1>10. Part(u, l, r) \subseteq Part(s, l, r)
  BY <1>9 DEF Part
<1>11. Part(s, l, r) \subseteq Part(u, l, r)
  BY <1>8 DEF Part
<1> QED BY <1>10, <1>11

(* What is written comes before all that is still to be written. *)
LEMMA MergingOrder ==
    ASSUME NEW s \in Seq(Pair), NEW l \in Nat, NEW m \in Nat, NEW r \in Nat,
           1 <= l, l <= m, m <= r, r <= Len(s),
           Ordered(s, l, m), Ordered(s, m + 1, r),
           \A i \in l..m : \A j \in m + 1..r : s[i][2] < s[j][2],
           NEW u, NEW a, NEW b, Merging(s, u, l, m, r, a, b)
    PROVE  Ordered(u, l, r)
PROOF
<1>1. \A q \in l..r : s[q] \in Pair /\ s[q][1] \in Int /\ s[q][2] \in Int
  <2>1. l..r \subseteq 1..Len(s)
    OBVIOUS
  <2> QED BY <2>1, PairIs
<1>2. /\ \A q \in l..m : q \in l..r
      /\ \A q \in m + 1..r : q \in l..r
  OBVIOUS
<1>3. ASSUME NEW k \in 0..r - l
      PROVE  /\ \A q \in l..m : a[k + 1] <= q => Before(u[l + k], s[q])
             /\ \A q \in m + 1..r : b[k + 1] <= q => Before(u[l + k], s[q])
  <2>1. k \in 0..r - l + 1
    OBVIOUS
  <2>2. a[k] \in l..m + 1 /\ b[k] \in m + 1..r + 1
    BY <2>1 DEF Merging
  <2> DEFINE i == a[k]  j == b[k]
  <2>3. CASE /\ i \in l..m /\ (j \in m + 1..r => ~Less(s[j], s[i]))
             /\ u[l + k] = s[i] /\ a[k + 1] = i + 1 /\ b[k + 1] = j
    <3> HIDE DEF i, j
    <3>1. \A q \in l..m : i + 1 <= q => Before(s[i], s[q])
      BY <2>3 DEF Ordered
    <3>2. ASSUME NEW q \in m + 1..r, j <= q PROVE Before(s[i], s[q])
      <4>1. j \in m + 1..r
        BY <2>2, <3>2 DEF j
      <4>2. s[i][1] <= s[j][1]
        BY <1>1, <1>2, <2>3, <4>1 DEF Less
      <4>3. s[j][1] <= s[q][1]
        <5>1. j = q \/ Before(s[j], s[q])
          BY <3>2, <4>1 DEF Ordered
        <5> QED BY <1>1, <1>2, <4>1, <5>1 DEF Before
      <4>4. s[i][2] < s[q][2]
        BY <2>3
      <4>5. s[i][1] \in Int /\ s[j][1] \in Int /\ s[q][1] \in Int
        BY <1>1, <1>2, <2>3, <3>2, <4>1
      <4>6. s[i][1] < s[q][1] \/ s[i][1] = s[q][1]
        BY <4>2, <4>3, <4>5
      <4> QED BY <4>4, <4>6 DEF Before
    <3> QED BY <2>3, <3>1, <3>2
  <2>4. CASE /\ j \in m + 1..r /\ (i \in l..m => Less(s[j], s[i]))
             /\ u[l + k] = s[j] /\ a[k + 1] = i /\ b[k + 1] = j + 1
    <3> HIDE DEF i, j
    <3>1. \A q \in m + 1..r : j + 1 <= q => Before(s[j], s[q])
      BY <2>4 DEF Ordered
    <3>2. ASSUME NEW q \in l..m, i <= q PROVE Before(s[j], s[q])
      <4>1. i \in l..m
        BY <2>2, <3>2 DEF i
      <4>2. s[j][1] < s[i][1]
        BY <2>4, <4>1 DEF Less
      <4>3. s[i][1] <= s[q][1]
        <5>1. i = q \/ Before(s[i], s[q])
          BY <3>2, <4>1 DEF Ordered
        <5> QED BY <1>1, <1>2, <4>1, <5>1 DEF Before
      <4>4. j \in l..r /\ i \in l..r /\ q \in l..r
        BY <1>2, <2>4, <3>2, <4>1
      <4>5. s[j][1] \in Int /\ s[i][1] \in Int /\ s[q][1] \in Int
        BY <1>1, <4>4
      <4>6. s[j][1] < s[q][1]
        BY <4>2, <4>3, <4>5
      <4> QED BY <4>6 DEF Before
    <3> QED BY <2>4, <3>1, <3>2
  <2> QED BY <2>3, <2>4 DEF Merging
<1> SUFFICES ASSUME NEW p \in l..r, NEW q \in l..r, p < q PROVE Before(u[p], u[q])
  BY DEF Ordered
<1> DEFINE k == p - l  h == q - l
<1>4. /\ k \in 0..r - l /\ h \in 0..r - l /\ l + k = p /\ l + h = q
      /\ h \in 0..r - l + 1 /\ k + 1 \in 0..h
  OBVIOUS
<1> HIDE DEF k, h
<1>5. a[k + 1] <= a[h] /\ b[k + 1] <= b[h]
  BY <1>4, MergingMonotone
<1>6. \/ a[h] \in l..m /\ u[q] = s[a[h]]
      \/ b[h] \in m + 1..r /\ u[q] = s[b[h]]
  BY <1>4 DEF Merging
<1> QED BY <1>3, <1>4, <1>5, <1>6

(* Ordered parts, those of the left with smaller places, become one. *)
LEMMA MergeDone ==
    ASSUME NEW t, Source(t), NEW s, Like(t, s),
           NEW l \in Nat, NEW m \in Nat, NEW r \in Nat, 1 <= l, l <= m, m <= r, r <= Len(t),
           Done(t, s, l, m), Done(t, s, m + 1, r),
           NEW u, u = merge(s, l, m, r)
    PROVE  Like(t, u) /\ Done(t, u, l, r) /\ Elsewhere(s, u, l, r)
PROOF
<1>1. s \in Seq(Pair) /\ Len(s) = Len(t) /\ Len(t) \in Nat /\ r <= Len(s)
  BY DEF Like, Source
<1>2. u \in Seq(Pair) /\ Len(u) = Len(s) /\ Elsewhere(s, u, l, r)
  BY <1>1, MergeType
<1>3. PICK a, b : Merging(s, u, l, m, r, a, b)
  BY <1>1, MergingExists
<1>4. Part(u, l, r) = Part(t, l, r)
  <2>1. \A q \in l..r : q \in l..m \/ q \in m + 1..r
    OBVIOUS
  <2>2. l..m \subseteq l..r /\ m + 1..r \subseteq l..r
    OBVIOUS
  <2>3. /\ Part(s, l, r) = Part(s, l, m) \cup Part(s, m + 1, r)
        /\ Part(t, l, r) = Part(t, l, m) \cup Part(t, m + 1, r)
    BY <2>1, <2>2 DEF Part
  <2> QED BY <1>3, <2>3, MergingPart DEF Done
<1>5. Ordered(u, l, r)
  <2>1. \A i \in l..m : s[i][2] \in l..m
    BY <1>1, PlaceWithin
  <2>2. \A j \in m + 1..r : s[j][2] \in m + 1..r
    BY <1>1, PlaceWithin
  <2>3. \A i \in l..m : \A j \in m + 1..r : s[i][2] < s[j][2]
    BY <2>1, <2>2
  <2> QED BY <1>1, <1>3, <2>3, MergingOrder DEF Done
<1> QED BY <1>1, <1>2, <1>4, <1>5 DEF Like, Done

-----------------------------------------------------------------------------
(* Blocks of one size. *)
LEMMA WithinIs ==
    ASSUME NEW s, NEW k \in Int, Len(s) \in Nat
    PROVE  Within(s, k) = IF k <= Len(s) THEN k ELSE Len(s)
PROOF
<1> DEFINE S == {k, Len(s)}
           x == IF k <= Len(s) THEN k ELSE Len(s)
<1>1. x \in S /\ \A y \in S : x <= y
  OBVIOUS
<1>2. \A z \in S : (\A y \in S : z <= y) => z = x
  OBVIOUS
<1>3. Min(S) = x
  BY <1>1, <1>2 DEF Min
<1> QED BY <1>3 DEF Within

LEMMA StartIs ==
    ASSUME NEW size \in Nat, 1 <= size
    PROVE  /\ Start(1, size) = 1
           /\ \A k \in Nat : 1 <= k =>
                /\ Start(k, size) \in Nat /\ k <= Start(k, size)
                /\ Start(k + 1, size) = Start(k, size) + size
                /\ Start(k, 2 * size) = Start(2 * k - 1, size)
PROOF
<1>1. Start(1, size) = 1
  BY DEF Start
<1>2. ASSUME NEW k \in Nat, 1 <= k
      PROVE  /\ Start(k, size) \in Nat /\ k <= Start(k, size)
             /\ Start(k + 1, size) = Start(k, size) + size
             /\ Start(k, 2 * size) = Start(2 * k - 1, size)
  <2>1. (k - 1) * size \in Nat /\ k - 1 <= (k - 1) * size
    BY <1>2
  <2>2. ((k + 1) - 1) * size = (k - 1) * size + size
    OBVIOUS
  <2>3. (k - 1) * (2 * size) = ((2 * k - 1) - 1) * size
    OBVIOUS
  <2> QED BY <1>2, <2>1, <2>2, <2>3 DEF Start
<1> QED BY <1>1, <1>2

LEMMA StartOrder ==
    ASSUME NEW size \in Nat, 1 <= size, NEW p \in Nat, NEW q \in Nat, 1 <= p, p < q
    PROVE  Start(p, size) + size <= Start(q, size)
PROOF
<1>1. p * size <= (q - 1) * size
  OBVIOUS
<1>2. (p - 1) * size + size = p * size /\ (p - 1) * size \in Int /\ p * size \in Int /\ (q - 1) * size \in Int
  OBVIOUS
<1> QED BY <1>1, <1>2 DEF Start

(* The pairs of block k are those t has there, in order. *)
Block(t, s, k, size) ==
    Start(k, size) <= Len(t) => Done(t, s, Start(k, size), Within(t, Start(k, size) + size - 1))

Blocks(t, s, size) == \A k \in Nat : 1 <= k => Block(t, s, k, size)

LEMMA BlockBounds ==
    ASSUME NEW t, Len(t) \in Nat, NEW size \in Nat, 1 <= size, NEW k \in Nat, 1 <= k,
           Start(k, size) <= Len(t), NEW lo, lo = Start(k, size), NEW hi, hi = Within(t, lo + size - 1)
    PROVE  /\ lo \in Nat /\ hi \in Nat /\ 1 <= lo /\ lo <= hi /\ hi <= Len(t)
           /\ hi < Start(k + 1, size) /\ (hi # Len(t) => hi + 1 = Start(k + 1, size))
PROOF
<1>1. lo \in Nat /\ 1 <= lo /\ Start(k + 1, size) = lo + size
  <2>1. Start(k, size) \in Nat /\ k <= Start(k, size) /\ Start(k + 1, size) = Start(k, size) + size
    BY StartIs
  <2> QED BY <2>1
<1>2. lo + size - 1 \in Int
  BY <1>1
<1>3. hi = IF lo + size - 1 <= Len(t) THEN lo + size - 1 ELSE Len(t)
  BY <1>2, WithinIs
<1> QED BY <1>1, <1>3

(* Blocks of other places stay as they are. *)
LEMMA BlockKept ==
    ASSUME NEW t, Source(t), NEW s, Like(t, s), NEW u, NEW size \in Nat, 1 <= size,
           NEW p \in Nat, NEW k \in Nat, 1 <= p, p < k, Block(t, s, p, size),
           NEW hi, Elsewhere(s, u, Start(k, size), hi)
    PROVE  Block(t, u, p, size)
PROOF
<1> SUFFICES ASSUME Start(p, size) <= Len(t)
             PROVE  Done(t, u, Start(p, size), Within(t, Start(p, size) + size - 1))
  BY DEF Block
<1> DEFINE lo == Start(p, size)  end == Within(t, lo + size - 1)  next == Start(k, size)
<1>1. Len(t) \in Nat /\ Len(s) = Len(t)
  BY DEF Source, Like
<1>2. lo \in Nat /\ end \in Nat /\ 1 <= lo /\ lo <= end /\ end <= Len(t) /\ end < Start(p + 1, size)
  BY <1>1, BlockBounds
<1>3. Start(p + 1, size) = lo + size /\ lo + size <= next /\ next \in Nat
  <2>1. Start(p + 1, size) = Start(p, size) + size
    BY StartIs
  <2>2. Start(p, size) + size <= Start(k, size)
    BY StartOrder
  <2>3. 1 <= k
    OBVIOUS
  <2>4. Start(k, size) \in Nat
    BY <2>3, StartIs
  <2> QED BY <2>1, <2>2, <2>4
<1>4. Done(t, s, lo, end)
  BY DEF Block
<1> HIDE DEF lo, end, next
<1>5. \A q \in lo..end : q \in 1..Len(s) /\ q \notin next..hi
  BY <1>1, <1>2, <1>3
<1>6. \A q \in lo..end : u[q] = s[q]
  BY <1>5 DEF Elsewhere, next
<1>7. Done(t, u, lo, end)
  BY <1>2, <1>4, <1>6, DoneFrame
<1> QED BY <1>7 DEF lo, end

RunStep(s, size, k, v) ==
    IF Start(k, size) > Len(s) THEN v
    ELSE insertionSort(v, Start(k, size), Within(s, Start(k, size) + size - 1))

(* The array after k blocks are sorted. *)
SortingOf(s, size, n, f) == f = [k \in 0..n |-> IF k = 0 THEN s ELSE RunStep(s, size, k, f[k - 1])]

LEMMA SortingExists ==
    ASSUME NEW s, NEW size, NEW n \in Nat
    PROVE  \E f : SortingOf(s, size, n, f)
PROOF
<1> DEFINE T == {m \in 0..n : \E f : SortingOf(s, size, m, f)}
<1>1. 0 \in T
  <2> DEFINE g == [k \in 0..0 |-> s]
  <2>1. SortingOf(s, size, 0, g)
    BY DEF SortingOf
  <2> QED BY <2>1
<1>2. ASSUME NEW m \in 1..n, m - 1 \in T PROVE m \in T
  <2>1. PICK f : SortingOf(s, size, m - 1, f)
    BY <1>2
  <2> DEFINE g == [k \in 0..m |-> IF k < m THEN f[k] ELSE RunStep(s, size, m, f[m - 1])]
  <2>2. ASSUME NEW k \in 0..m
        PROVE  g[k] = IF k = 0 THEN s ELSE RunStep(s, size, k, g[k - 1])
    <3>1. k < m => f[k] = IF k = 0 THEN s ELSE RunStep(s, size, k, f[k - 1])
      BY <2>1 DEF SortingOf
    <3>2. k # 0 => g[k - 1] = f[k - 1]
      OBVIOUS
    <3> QED BY <3>1, <3>2
  <2>3. SortingOf(s, size, m, g)
    BY <2>2 DEF SortingOf
  <2> QED BY <2>3
<1>3. \A m \in 0..n : m \in T
  <2> HIDE DEF T
  <2> QED BY <1>1, <1>2, StretchInduction
<1> QED BY <1>3

LEMMA RunsDone ==
    ASSUME NEW t, Source(t), NEW size \in Nat, 1 <= size, NEW u, u = Runs(t, size)
    PROVE  Like(t, u) /\ Blocks(t, u, size)
PROOF
<1> DEFINE n == Len(t)
           f == CHOOSE f : SortingOf(t, size, n, f)
<1>1. n \in Nat
  BY DEF Source
<1>2. SortingOf(t, size, n, f)
  BY <1>1, SortingExists
<1>3. u = f[n]
  BY DEF Runs, SortingOf, RunStep
<1> HIDE DEF f
<1>4. f[0] = t /\ \A k \in 1..n : f[k] = RunStep(t, size, k, f[k - 1])
  <2>1. \A k \in 0..n : f[k] = IF k = 0 THEN t ELSE RunStep(t, size, k, f[k - 1])
    BY <1>2 DEF SortingOf
  <2> QED BY <1>1, <2>1
<1> DEFINE Ahead(v, k) == \A q \in 1..n : Start(k + 1, size) <= q => v[q] = t[q]
           T == {k \in 0..n : /\ Like(t, f[k]) /\ Ahead(f[k], k)
                              /\ \A p \in 1..k : Block(t, f[k], p, size)}
<1>5. 0 \in T
  <2>1. Like(t, t)
    BY DEF Like, Source
  <2> QED BY <1>1, <1>4, <2>1
<1>6. ASSUME NEW k \in 1..n, k - 1 \in T PROVE k \in T
  <2> DEFINE v == f[k - 1]  w == f[k]  lo == Start(k, size)
  <2>1. (k - 1) + 1 = k /\ k \in Nat /\ 1 <= k /\ (\A p \in 1..k : p = k \/ (p \in 1..k - 1 /\ p \in Nat /\ 1 <= p /\ p < k))
    OBVIOUS
  <2>2. /\ Like(t, v) /\ \A p \in 1..k - 1 : Block(t, v, p, size)
        /\ \A q \in 1..n : lo <= q => v[q] = t[q]
    BY <1>6, <2>1
  <2>3. w = IF lo > n THEN v ELSE insertionSort(v, lo, Within(t, lo + size - 1))
    BY <1>4 DEF RunStep
  <2>4. lo \in Nat /\ Start(k + 1, size) = lo + size
    BY <2>1, StartIs
  <2> HIDE DEF v, w, T, n
  <2>5. CASE lo > n
    <3>1. w = v /\ Ahead(w, k)
      BY <1>1, <2>2, <2>3, <2>4, <2>5
    <3>2. Block(t, w, k, size)
      BY <1>1, <2>4, <2>5 DEF Block, n
    <3>3. \A p \in 1..k : Block(t, w, p, size)
      BY <2>1, <2>2, <3>1, <3>2
    <3> QED BY <1>1, <2>2, <3>1, <3>3 DEF T, w
  <2>6. CASE lo <= n
    <3> DEFINE hi == Within(t, lo + size - 1)
    <3>1. /\ hi \in Nat /\ 1 <= lo /\ lo <= hi /\ hi <= n /\ hi < lo + size
      <4>1. Start(k, size) <= Len(t) /\ Len(t) \in Nat
        BY <1>1, <2>6 DEF n
      <4>2. hi \in Nat /\ 1 <= lo /\ lo <= hi /\ hi <= Len(t) /\ hi < Start(k + 1, size)
        BY <2>1, <4>1, BlockBounds
      <4> QED BY <2>4, <4>2 DEF n
    <3>2. w = insertionSort(v, lo, hi)
      BY <1>1, <2>3, <2>4, <2>6
    <3> HIDE DEF lo, hi
    <3>3. \A q \in lo..hi : v[q] = t[q]
      BY <1>1, <2>2, <2>4, <3>1
    <3>4. Like(t, w) /\ Done(t, w, lo, hi) /\ Elsewhere(v, w, lo, hi)
      BY <1>1, <2>2, <2>4, <3>1, <3>2, <3>3, InsertionSortDone DEF n
    <3>5. Block(t, w, k, size)
      BY <3>4 DEF Block, lo, hi
    <3>6. \A p \in 1..k - 1 : Block(t, w, p, size)
      BY <2>1, <2>2, <3>4, BlockKept DEF lo
    <3>7. Ahead(w, k)
      <4> SUFFICES ASSUME NEW q \in 1..n, Start(k + 1, size) <= q PROVE w[q] = t[q]
        OBVIOUS
      <4>1. q \notin lo..hi /\ lo <= q
        BY <1>1, <2>4, <3>1
      <4>2. Len(v) = n
        BY <2>2 DEF Like, n
      <4> QED BY <2>2, <3>4, <4>1, <4>2 DEF Elsewhere
    <3>8. \A p \in 1..k : Block(t, w, p, size)
      BY <2>1, <3>5, <3>6
    <3> QED BY <1>1, <3>4, <3>7, <3>8 DEF T, w
  <2> QED BY <1>1, <2>4, <2>5, <2>6
<1>7. \A k \in 0..n : k \in T
  <2> HIDE DEF T
  <2> QED BY <1>1, <1>5, <1>6, StretchInduction
<1>8. Like(t, u) /\ \A p \in 1..n : Block(t, u, p, size)
  <2>1. n \in 0..n
    BY <1>1
  <2> QED BY <1>3, <1>7, <2>1
<1>9. Blocks(t, u, size)
  <2> SUFFICES ASSUME NEW k \in Nat, 1 <= k PROVE Block(t, u, k, size)
    BY DEF Blocks
  <2>1. CASE k <= n
    BY <1>8, <2>1
  <2>2. CASE k > n
    <3>1. k <= Start(k, size) /\ Start(k, size) \in Nat
      BY StartIs
    <3>2. ~(Start(k, size) <= Len(t))
      BY <1>1, <2>2, <3>1
    <3> QED BY <3>2 DEF Block
  <2> QED BY <1>1, <2>1, <2>2
<1> QED BY <1>8, <1>9

LEMMA BlockSame ==
    ASSUME NEW t, Source(t), NEW s, NEW u, NEW size \in Nat, 1 <= size, NEW p \in Nat, 1 <= p,
           Block(t, s, p, size), \A q \in 1..Len(t) : Start(p, size) <= q => u[q] = s[q]
    PROVE  Block(t, u, p, size)
PROOF
<1> SUFFICES ASSUME Start(p, size) <= Len(t)
             PROVE  Done(t, u, Start(p, size), Within(t, Start(p, size) + size - 1))
  BY DEF Block
<1> DEFINE lo == Start(p, size)  end == Within(t, lo + size - 1)
<1>1. Len(t) \in Nat
  BY DEF Source
<1>2. lo \in Nat /\ end \in Nat /\ 1 <= lo /\ lo <= end /\ end <= Len(t)
  BY <1>1, BlockBounds
<1>3. Done(t, s, lo, end)
  BY DEF Block
<1>4. \A q \in 1..Len(t) : lo <= q => u[q] = s[q]
  OBVIOUS
<1> HIDE DEF lo, end
<1>5. \A q \in lo..end : u[q] = s[q]
  BY <1>1, <1>2, <1>4
<1>6. Done(t, u, lo, end)
  BY <1>2, <1>3, <1>5, DoneFrame
<1> QED BY <1>6 DEF lo, end

PassStep(s, size, k, v) ==
    IF Start(k, 2 * size) > Len(s) \/ Within(s, Start(k, 2 * size) + size - 1) <= Start(k, 2 * size)
    THEN v
    ELSE merge(v, Start(k, 2 * size), Within(s, Start(k, 2 * size) + size - 1),
               Within(s, Start(k, 2 * size) + 2 * size - 1))

(* Two neighbouring blocks become one of twice the size. *)
LEMMA PassStepDone ==
    ASSUME NEW t, Source(t), NEW s, Like(t, s), NEW v, Like(t, v),
           NEW size \in Nat, 2 <= size, NEW k \in Nat, 1 <= k,
           Start(k, 2 * size) <= Len(t),
           Block(t, v, 2 * k - 1, size), Block(t, v, 2 * k, size),
           NEW w, w = PassStep(s, size, k, v)
    PROVE  /\ Like(t, w) /\ Block(t, w, k, 2 * size)
           /\ Elsewhere(v, w, Start(k, 2 * size), Within(t, Start(k, 2 * size) + 2 * size - 1))
PROOF
<1> DEFINE lo == Start(k, 2 * size)
           mid == Within(t, lo + size - 1)
           hi == Within(t, lo + 2 * size - 1)
           n == Len(t)
           next == Within(t, (lo + size) + size - 1)
<1>1. n \in Nat /\ Len(s) = n
  BY DEF Source, Like
<1>2. /\ lo \in Nat /\ 1 <= lo /\ lo <= n
      /\ Start(2 * k - 1, size) = lo /\ Start(2 * k, size) = lo + size
  <2>1. 2 * k - 1 \in Nat /\ 1 <= 2 * k - 1 /\ (2 * k - 1) + 1 = 2 * k /\ 1 <= size /\ 2 * size \in Nat /\ 1 <= 2 * size
    OBVIOUS
  <2>2. Start(k, 2 * size) = Start(2 * k - 1, size)
    BY <2>1, StartIs
  <2>3. Start((2 * k - 1) + 1, size) = Start(2 * k - 1, size) + size
    BY <2>1, StartIs
  <2>4. Start(k, 2 * size) \in Nat /\ k <= Start(k, 2 * size)
    BY <2>1, StartIs
  <2> QED BY <2>1, <2>2, <2>3, <2>4
<1>3. w = IF lo > n \/ mid <= lo THEN v ELSE merge(v, lo, mid, hi)
  BY <1>1 DEF PassStep, Within
<1>4. Done(t, v, lo, mid)
  BY <1>1, <1>2 DEF Block
<1>5. lo + size <= n => Done(t, v, lo + size, next)
  BY <1>2 DEF Block
<1> HIDE DEF lo
<1>6. /\ mid = IF lo + size - 1 <= n THEN lo + size - 1 ELSE n
      /\ hi = IF lo + 2 * size - 1 <= n THEN lo + 2 * size - 1 ELSE n
      /\ next = IF lo + 2 * size - 1 <= n THEN lo + 2 * size - 1 ELSE n
  <2>1. /\ lo + size - 1 \in Int /\ lo + 2 * size - 1 \in Int
        /\ (lo + size) + size - 1 = lo + 2 * size - 1
    BY <1>2
  <2>2. next = hi
    BY <2>1
  <2> QED BY <1>1, <2>1, <2>2, WithinIs
<1> HIDE DEF mid, hi, next, n
<1>7. mid \in Nat /\ hi \in Nat /\ lo <= mid /\ mid <= hi /\ hi <= n
  BY <1>1, <1>2, <1>6
<1>8. Like(t, w) /\ Done(t, w, lo, hi) /\ Elsewhere(v, w, lo, hi)
  <2>1. CASE mid <= lo
    <3>1. hi = mid /\ w = v
      BY <1>1, <1>2, <1>3, <1>6, <2>1
    <3> QED BY <1>4, <3>1 DEF Elsewhere
  <2>2. CASE mid > lo
    <3>1. w = merge(v, lo, mid, hi)
      BY <1>1, <1>2, <1>3, <1>7, <2>2
    <3>2. Done(t, v, mid + 1, hi)
      <4>1. CASE lo + size <= n
        <5>1. mid + 1 = lo + size /\ next = hi
          BY <1>1, <1>2, <1>6, <4>1
        <5> QED BY <1>5, <4>1, <5>1
      <4>2. CASE lo + size > n
        <5>1. mid = n /\ hi = n
          BY <1>1, <1>2, <1>6, <4>2
        <5>2. hi <= mid + 1 /\ mid + 1 \in Int /\ hi \in Int /\ \A q \in mid + 1..hi : v[q] = t[q]
          BY <1>1, <5>1
        <5> QED BY <5>2, DoneOne
      <4> QED BY <1>1, <1>2, <4>1, <4>2
    <3>3. hi <= Len(t)
      BY <1>7 DEF n
    <3> QED BY <1>2, <1>4, <1>7, <3>1, <3>2, <3>3, MergeDone
  <2> QED BY <1>2, <1>7, <2>1, <2>2
<1> QED BY <1>8 DEF Block, lo, hi

(* The array after k pairs of blocks are merged. *)
PassingOf(s, size, n, f) == f = [k \in 0..n |-> IF k = 0 THEN s ELSE PassStep(s, size, k, f[k - 1])]

LEMMA PassingExists ==
    ASSUME NEW s, NEW size, NEW n \in Nat
    PROVE  \E f : PassingOf(s, size, n, f)
PROOF
<1> DEFINE T == {m \in 0..n : \E f : PassingOf(s, size, m, f)}
<1>1. 0 \in T
  <2> DEFINE g == [k \in 0..0 |-> s]
  <2>1. PassingOf(s, size, 0, g)
    BY DEF PassingOf
  <2> QED BY <2>1
<1>2. ASSUME NEW m \in 1..n, m - 1 \in T PROVE m \in T
  <2>1. PICK f : PassingOf(s, size, m - 1, f)
    BY <1>2
  <2> DEFINE g == [k \in 0..m |-> IF k < m THEN f[k] ELSE PassStep(s, size, m, f[m - 1])]
  <2>2. ASSUME NEW k \in 0..m
        PROVE  g[k] = IF k = 0 THEN s ELSE PassStep(s, size, k, g[k - 1])
    <3>1. k < m => f[k] = IF k = 0 THEN s ELSE PassStep(s, size, k, f[k - 1])
      BY <2>1 DEF PassingOf
    <3>2. k # 0 => g[k - 1] = f[k - 1]
      OBVIOUS
    <3> QED BY <3>1, <3>2
  <2>3. PassingOf(s, size, m, g)
    BY <2>2 DEF PassingOf
  <2> QED BY <2>3
<1>3. \A m \in 0..n : m \in T
  <2> HIDE DEF T
  <2> QED BY <1>1, <1>2, StretchInduction
<1> QED BY <1>3

LEMMA PassDone ==
    ASSUME NEW t, Source(t), NEW s, Like(t, s), NEW size \in Nat, 2 <= size,
           Blocks(t, s, size), NEW u, u = MergePass(s, size)
    PROVE  Like(t, u) /\ Blocks(t, u, 2 * size)
PROOF
<1> DEFINE n == Len(t)
           d == 2 * size
           f == CHOOSE f : PassingOf(s, size, n, f)
<1>1. n \in Nat /\ Len(s) = n /\ d \in Nat /\ 1 <= d /\ 1 <= size
  BY DEF Source, Like
<1>2. PassingOf(s, size, n, f)
  BY <1>1, PassingExists
<1>3. u = f[n]
  BY <1>1 DEF MergePass, PassingOf, PassStep
<1> HIDE DEF f
<1>4. f[0] = s /\ \A k \in 1..n : f[k] = PassStep(s, size, k, f[k - 1])
  <2>1. \A k \in 0..n : f[k] = IF k = 0 THEN s ELSE PassStep(s, size, k, f[k - 1])
    BY <1>2 DEF PassingOf
  <2> QED BY <1>1, <2>1
<1> DEFINE Ahead(v, k) == \A q \in 1..n : Start(k + 1, d) <= q => v[q] = s[q]
           T == {k \in 0..n : /\ Like(t, f[k]) /\ Ahead(f[k], k)
                              /\ \A p \in 1..k : Block(t, f[k], p, d)}
<1>5. 0 \in T
  BY <1>1, <1>4
<1>6. ASSUME NEW k \in 1..n, k - 1 \in T PROVE k \in T
  <2> DEFINE v == f[k - 1]  w == f[k]  lo == Start(k, d)
  <2>1. (k - 1) + 1 = k /\ k \in Nat /\ 1 <= k /\ (\A p \in 1..k : p = k \/ (p \in 1..k - 1 /\ p \in Nat /\ 1 <= p /\ p < k))
    OBVIOUS
  <2>2. /\ Like(t, v) /\ \A p \in 1..k - 1 : Block(t, v, p, d)
        /\ \A q \in 1..n : lo <= q => v[q] = s[q]
    BY <1>6, <2>1
  <2>3. w = PassStep(s, size, k, v)
    BY <1>4
  <2>4. lo \in Nat /\ Start(k + 1, d) = lo + d
    BY <1>1, <2>1, StartIs
  <2>5. /\ Start(2 * k - 1, size) = lo /\ Start(2 * k, size) = lo + size
        /\ 2 * k - 1 \in Nat /\ 1 <= 2 * k - 1 /\ 2 * k \in Nat /\ 1 <= 2 * k
    <3>1. 2 * k - 1 \in Nat /\ 1 <= 2 * k - 1 /\ (2 * k - 1) + 1 = 2 * k /\ 2 * k \in Nat /\ 1 <= 2 * k
      BY <2>1
    <3>2. Start(k, 2 * size) = Start(2 * k - 1, size)
      BY <1>1, <2>1, StartIs
    <3>3. Start((2 * k - 1) + 1, size) = Start(2 * k - 1, size) + size
      BY <1>1, <3>1, StartIs
    <3> QED BY <3>1, <3>2, <3>3
  <2>6. CASE lo > n
    <3>1. w = v
      BY <1>1, <2>3, <2>6 DEF PassStep
    <3>2. Block(t, w, k, d)
      BY <1>1, <2>4, <2>6 DEF Block
    <3> HIDE DEF v, w, T, lo, d, n
    <3>3. \A p \in 1..k : Block(t, w, p, d)
      BY <2>1, <2>2, <3>1, <3>2
    <3>4. Ahead(w, k)
      BY <1>1, <2>2, <2>4, <2>6, <3>1
    <3> QED BY <1>1, <2>2, <3>1, <3>3, <3>4 DEF T, w
  <2>7. CASE lo <= n
    <3> DEFINE hi == Within(t, lo + d - 1)
    <3>1. hi \in Nat /\ lo <= hi /\ hi < lo + d
      <4>1. Start(k, d) <= Len(t) /\ Len(t) \in Nat
        BY <1>1, <2>7
      <4>2. hi \in Nat /\ lo <= hi /\ hi < Start(k + 1, d)
        BY <1>1, <2>1, <4>1, BlockBounds
      <4> QED BY <2>4, <4>2
    <3>2. Block(t, v, 2 * k - 1, size)
      <4>1. Block(t, s, 2 * k - 1, size)
        BY <2>5 DEF Blocks
      <4>2. \A q \in 1..Len(t) : Start(2 * k - 1, size) <= q => v[q] = s[q]
        BY <2>2, <2>5
      <4> HIDE DEF v
      <4> QED BY <1>1, <2>5, <4>1, <4>2, BlockSame
    <3>3. Block(t, v, 2 * k, size)
      <4>1. Block(t, s, 2 * k, size)
        BY <2>5 DEF Blocks
      <4> HIDE DEF v, lo
      <4>2. \A q \in 1..Len(t) : Start(2 * k, size) <= q => v[q] = s[q]
        BY <1>1, <2>2, <2>4, <2>5
      <4> QED BY <1>1, <2>5, <4>1, <4>2, BlockSame
    <3>4. Start(k, 2 * size) <= Len(t)
      BY <2>7
    <3> HIDE DEF v, w, T
    <3>5. Like(t, w) /\ Block(t, w, k, d) /\ Elsewhere(v, w, lo, hi)
      BY <2>1, <2>2, <2>3, <3>2, <3>3, <3>4, PassStepDone
    <3> HIDE DEF n, d, hi
    <3>6. \A p \in 1..k - 1 : Block(t, w, p, d)
      BY <1>1, <2>1, <2>2, <3>5, BlockKept DEF lo
    <3> HIDE DEF lo
    <3>7. Ahead(w, k)
      <4> SUFFICES ASSUME NEW q \in 1..n, Start(k + 1, d) <= q PROVE w[q] = s[q]
        OBVIOUS
      <4>1. q \notin lo..hi /\ lo <= q
        BY <1>1, <2>4, <3>1
      <4>2. Len(v) = n
        BY <2>2 DEF Like, n
      <4> QED BY <2>2, <3>5, <4>1, <4>2 DEF Elsewhere
    <3>8. \A p \in 1..k : Block(t, w, p, d)
      BY <2>1, <3>5, <3>6
    <3> QED BY <1>1, <3>5, <3>7, <3>8 DEF T, w
  <2> HIDE DEF lo, n, T
  <2> QED BY <1>1, <2>4, <2>6, <2>7
<1>7. \A k \in 0..n : k \in T
  <2> HIDE DEF T
  <2> QED BY <1>1, <1>5, <1>6, StretchInduction
<1>8. Like(t, u) /\ \A p \in 1..n : Block(t, u, p, d)
  <2>1. n \in 0..n
    BY <1>1
  <2> QED BY <1>3, <1>7, <2>1
<1>9. Blocks(t, u, d)
  <2> HIDE DEF d
  <2> SUFFICES ASSUME NEW k \in Nat, 1 <= k PROVE Block(t, u, k, d)
    BY DEF Blocks
  <2>1. CASE k <= n
    BY <1>8, <2>1
  <2>2. CASE k > n
    <3>1. k <= Start(k, d) /\ Start(k, d) \in Nat
      BY <1>1, StartIs
    <3>2. ~(Start(k, d) <= Len(t))
      BY <1>1, <2>2, <3>1
    <3> QED BY <3>2 DEF Block
  <2> QED BY <1>1, <2>1, <2>2
<1> QED BY <1>8, <1>9

(* Before any pass. *)
FirstPass(s) == [arr |-> Runs(s, Within(s, MinRun)), size |-> Within(s, MinRun)]

(* The array after k passes, and the size of its blocks. *)
DoublingOf(s, n, f) == f = [k \in 0..n |-> IF k = 0 THEN FirstPass(s) ELSE Doubled(f[k - 1])]

LEMMA DoublingExists ==
    ASSUME NEW s, NEW n \in Nat
    PROVE  \E f : DoublingOf(s, n, f)
PROOF
<1> DEFINE T == {m \in 0..n : \E f : DoublingOf(s, m, f)}
<1>1. 0 \in T
  <2> DEFINE g == [k \in 0..0 |-> FirstPass(s)]
  <2>1. DoublingOf(s, 0, g)
    BY DEF DoublingOf
  <2> QED BY <2>1
<1>2. ASSUME NEW m \in 1..n, m - 1 \in T PROVE m \in T
  <2>1. PICK f : DoublingOf(s, m - 1, f)
    BY <1>2
  <2> DEFINE g == [k \in 0..m |-> IF k < m THEN f[k] ELSE Doubled(f[m - 1])]
  <2>2. ASSUME NEW k \in 0..m
        PROVE  g[k] = IF k = 0 THEN FirstPass(s) ELSE Doubled(g[k - 1])
    <3>1. k < m => f[k] = IF k = 0 THEN FirstPass(s) ELSE Doubled(f[k - 1])
      BY <2>1 DEF DoublingOf
    <3>2. k # 0 => g[k - 1] = f[k - 1]
      OBVIOUS
    <3> QED BY <3>1, <3>2
  <2>3. DoublingOf(s, m, g)
    BY <2>2 DEF DoublingOf
  <2> QED BY <2>3
<1>3. \A m \in 0..n : m \in T
  <2> HIDE DEF T
  <2> QED BY <1>1, <1>2, StretchInduction
<1> QED BY <1>3

LEMMA DoubledDone ==
    ASSUME NEW t, Source(t), NEW a, NEW size \in Nat, 2 <= size, Like(t, a), Blocks(t, a, size),
           NEW k \in Nat, 1 <= k, size >= Len(t) \/ size >= k,
           NEW v, v = [arr |-> a, size |-> size], NEW w, w = Doubled(v)
    PROVE  \E b, more : /\ w = [arr |-> b, size |-> more] /\ more \in Nat /\ 2 <= more
                        /\ Like(t, b) /\ Blocks(t, b, more)
                        /\ more >= Len(t) \/ more >= k + 1
PROOF
<1>1. v.arr = a /\ v.size = size /\ Len(a) = Len(t) /\ Len(t) \in Nat
  BY DEF Like, Source
<1>2. CASE size >= Len(t)
  BY <1>1, <1>2 DEF Doubled
<1>3. CASE size < Len(t)
  <2>1. w = [arr |-> MergePass(a, size), size |-> 2 * size]
    BY <1>1, <1>3 DEF Doubled
  <2>2. Like(t, MergePass(a, size)) /\ Blocks(t, MergePass(a, size), 2 * size)
    BY PassDone
  <2>3. 2 * size \in Nat /\ 2 <= 2 * size /\ (2 * size >= Len(t) \/ 2 * size >= k + 1)
    BY <1>1, <1>3
  <2> QED BY <2>1, <2>2, <2>3
<1>4. size >= Len(t) \/ size < Len(t)
  BY <1>1
<1> QED BY <1>2, <1>3, <1>4

LEMMA TimSortDone ==
    ASSUME NEW t, Source(t), NEW u, u = timSort(t)
    PROVE  Like(t, u) /\ Done(t, u, 1, Len(t))
PROOF
<1> DEFINE n == Len(t)
           f == CHOOSE f : DoublingOf(t, n, f)
           run == Within(t, MinRun)
<1>1. n \in Nat
  BY DEF Source
<1>2. CASE n <= 1
  <2>1. u = t
    BY <1>2 DEF timSort
  <2> QED BY <1>1, <1>2, <2>1, DoneOne DEF Like, Source
<1>3. CASE n >= 2
  <2>1. DoublingOf(t, n, f)
    BY <1>1, DoublingExists
  <2>2. u = f[n].arr
    BY <1>1, <1>3 DEF timSort, DoublingOf, FirstPass
  <2>3. run \in Nat /\ 2 <= run
    <3>1. MinRun \in Nat /\ MinRun >= 2 /\ MinRun \in Int
      BY ListOpsAssumption
    <3>2. run = IF MinRun <= Len(t) THEN MinRun ELSE Len(t)
      BY <1>1, <3>1, WithinIs
    <3> QED BY <1>1, <1>3, <3>1, <3>2
  <2>4. Like(t, Runs(t, run)) /\ Blocks(t, Runs(t, run), run)
    <3> HIDE DEF run
    <3>1. 1 <= run
      BY <2>3
    <3> QED BY <2>3, <3>1, RunsDone
  <2> HIDE DEF f
  <2>5. f[0] = [arr |-> Runs(t, run), size |-> run] /\ \A k \in 1..n : f[k] = Doubled(f[k - 1])
    <3>1. \A k \in 0..n : f[k] = IF k = 0 THEN FirstPass(t) ELSE Doubled(f[k - 1])
      BY <2>1 DEF DoublingOf
    <3> QED BY <1>1, <3>1 DEF FirstPass
  <2> DEFINE Reached(v, k) ==
               \E a, size : /\ v = [arr |-> a, size |-> size] /\ size \in Nat /\ 2 <= size
                            /\ Like(t, a) /\ Blocks(t, a, size)
                            /\ size >= n \/ size >= k + 1
             T == {k \in 0..n : Reached(f[k], k)}
  <2>6. 0 \in T
    <3> HIDE DEF run
    <3>1. run >= 0 + 1
      BY <2>3
    <3>2. Reached(f[0], 0)
      BY <2>3, <2>4, <2>5, <3>1
    <3> QED BY <1>1, <3>2
  <2>7. ASSUME NEW k \in 1..n, k - 1 \in T PROVE k \in T
    <3>1. Reached(f[k - 1], k - 1)
      BY <2>7
    <3>2. k \in Nat /\ 1 <= k /\ (k - 1) + 1 = k /\ k \in 0..n
      OBVIOUS
    <3>3. PICK a, size : /\ f[k - 1] = [arr |-> a, size |-> size] /\ size \in Nat /\ 2 <= size
                         /\ Like(t, a) /\ Blocks(t, a, size)
                         /\ size >= n \/ size >= k
      BY <3>1, <3>2
    <3>4. f[k] = Doubled(f[k - 1])
      BY <2>5
    <3> DEFINE v == f[k - 1]  w == f[k]
    <3>5. v = [arr |-> a, size |-> size] /\ w = Doubled(v)
      BY <3>3, <3>4
    <3> HIDE DEF v, w
    <3>6. \E b, more : /\ w = [arr |-> b, size |-> more] /\ more \in Nat /\ 2 <= more
                       /\ Like(t, b) /\ Blocks(t, b, more)
                       /\ more >= n \/ more >= k + 1
      BY <3>2, <3>3, <3>5, DoubledDone
    <3> QED BY <3>2, <3>6 DEF w
  <2>8. \A k \in 0..n : k \in T
    <3> HIDE DEF T
    <3> QED BY <1>1, <2>6, <2>7, StretchInduction
  <2>9. PICK a, size : /\ f[n] = [arr |-> a, size |-> size] /\ size \in Nat /\ 2 <= size
                       /\ Like(t, a) /\ Blocks(t, a, size)
                       /\ size >= n \/ size >= n + 1
    <3> HIDE DEF n
    <3>1. n \in 0..n
      BY <1>1
    <3>2. n \in T
      BY <2>8, <3>1
    <3> QED BY <3>2
  <2>10. u = a /\ size >= n
    BY <1>1, <2>2, <2>9
  <2>11. Start(1, size) = 1 /\ Within(t, 1 + size - 1) = n
    <3>1. Start(1, size) = 1
      BY <2>9, StartIs
    <3>2. 1 + size - 1 = size /\ size \in Int
      BY <2>9
    <3>3. Within(t, size) = IF size <= Len(t) THEN size ELSE Len(t)
      BY <1>1, <3>2, WithinIs
    <3> QED BY <1>1, <2>10, <3>1, <3>2, <3>3
  <2>12. Block(t, a, 1, size)
    BY <2>9 DEF Blocks
  <2> QED BY <1>1, <1>3, <2>9, <2>10, <2>11, <2>12 DEF Block
<1> QED BY <1>1, <1>2, <1>3

(* Sort gives back the elements it is given, each once, in order, and equal
   ones in the order they had, whatever the length of a run. *)
THEOREM SortCorrect == ListSpec => []SortIsStable
PROOF
<1>1. TypeInv => SortIsStable
  <2> SUFFICES ASSUME TypeInv PROVE SortIsStable
    OBVIOUS
  <2> DEFINE t == Tagged
             u == timSort(t)
  <2>1. /\ t = [k \in 1..Len(list) |-> <<list[k], k>>] /\ Len(list) \in Nat
        /\ \A k \in 1..Len(list) : list[k] \in Int
    <3>1. list \in Seq(Elem)
      BY DEF TypeInv
    <3>2. DOMAIN list = 1..Len(list) /\ Len(list) \in Nat /\ \A k \in 1..Len(list) : list[k] \in Elem
      BY <3>1
    <3>3. Elem \subseteq Int
      BY ListOpsAssumption
    <3> QED BY <3>2, <3>3 DEF Tagged
  <2>2. t \in Seq(Pair) /\ Len(t) = Len(list) /\ \A k \in 1..Len(list) : t[k] = <<list[k], k>>
    <3> HIDE DEF t
    <3>1. \A k \in 1..Len(list) : <<list[k], k>> \in Pair
      BY <2>1 DEF Pair
    <3> QED BY <2>1, <3>1
  <2>3. Source(t)
    BY <2>2 DEF Source
  <2> HIDE DEF t
  <2>4. Like(t, u) /\ Done(t, u, 1, Len(t))
    BY <2>3, TimSortDone
  <2> HIDE DEF u
  <2>5. DOMAIN u = 1..Len(t) /\ Len(u) = Len(list) /\ DOMAIN t = 1..Len(t)
    BY <2>2, <2>4 DEF Like
  <2>6. Range(u) = Range(t)
    BY <2>4, <2>5 DEF Range, Done, Part
  <2>7. \A j, k \in DOMAIN u :
           j < k => u[j][1] < u[k][1] \/ (u[j][1] = u[k][1] /\ u[j][2] < u[k][2])
    BY <2>4, <2>5 DEF Done, Ordered, Before
  <2> QED BY <2>5, <2>6, <2>7 DEF SortIsStable, t, u
<1> QED BY <1>1, TypeCorrect, PTL
=============================================================================
