-------------------------------- MODULE Tick --------------------------------
(***************************************************************************)
(* The date functions, as one goroutine calls them: Move, one step per     *)
(* movement, and When, one step per comparison, with the cache of parsed   *)
(* texts that the goroutine's holder keeps.  The caller's variadic         *)
(* arguments are chosen as the call gets to them.                          *)
(***************************************************************************)
EXTENDS Calendar

CONSTANTS
    Moved,       \* the dates Move is called with
    Movements,   \* what it may be asked to do
    Compared,    \* the operands When is called with
    Operators,   \* what it may be asked
    MaxSteps     \* a bound of the model: the arguments of a call

Nil == [nil |-> TRUE]
NotATime == [other |-> TRUE]   \* an operand that is neither a text nor a time

IsText(x) == "how" \in DOMAIN x

Times == [day : Int, clock : Int, zone : Int]
Texts == {x \in [how : STRING, decimals : Nat, time : Times] :
            x.decimals >= IF x.how \in {"zulu", "offset"} THEN Fraction(x.time) ELSE 0}

(* What Move may be asked: a unit and how it was put together, a duration, a
   named day, or whether to move at all. *)
Units == {u \in [kind : {"unit"}, n : Int, y : Int, m : Int, d : Int] :
            u.n = u.y * Year + u.m * Month + u.d * Day}
Spans == [kind : {"span"}, span : Int]
NamedDays == [kind : {"to"},
              to : {"FirstDayOfMonth", "LastDayOfMonth", "FirstDayOfYear", "LastDayOfYear",
                    "FirstDayOfWeek", "LastDayOfWeek", "FirstDayOfCNWeek", "LastDayOfCNWeek"}]
Flags == [kind : {"flag"}, on : BOOLEAN]

ASSUME TickAssumption ==
    /\ MaxSteps \in Nat
    /\ \A x \in Moved : x \in Times \/ x \in Texts
    /\ \A m \in Movements : m \in Units \/ m \in Spans \/ m \in NamedDays \/ m \in Flags
    /\ \A x \in Compared : x \in Times \/ x \in Texts \/ x = NotATime

VARIABLES
    pc,      \* where the goroutine is: "idle", "moving", "comparing", "done", "panic"
    arg,     \* Move's date and whether a pointer to it was given; When's left operand
    cell,    \* what Move's pointer points to
    t,       \* Move's running time
    trail,   \* the arguments used so far, each with the time it found
    flag,    \* When: every comparison so far holds
    ret,     \* the answer: a value, or the argument itself, or a zero value
    parsed   \* the cache: a partial function from texts to times

vars == <<pc, arg, cell, t, trail, flag, ret, parsed>>

NoArg == [val |-> Nil, ptr |-> FALSE]
Self == [tag |-> "self", val |-> Nil]      \* the argument, untouched
ZeroAnswer == [tag |-> "zero", val |-> Nil]
Answer(v) == [tag |-> "value", val |-> v]

Init ==
    /\ pc = "idle" /\ arg = NoArg /\ cell = Nil /\ t = ZeroTime
    /\ trail = <<>> /\ flag = TRUE /\ ret = ZeroAnswer
    /\ parsed = <<>>

Return(r) == pc' = "done" /\ ret' = r

-----------------------------------------------------------------------------
(* Move.  Without a movement, or for a nil pointer, the date is returned; a
   text that is no date gives a zero value, whatever the movements. *)
MoveCall(val, ptr) ==
    /\ pc = "idle"
    /\ val = Nil => ptr
    /\ arg' = [val |-> val, ptr |-> ptr] /\ cell' = val
    /\ \/ Return(Self) /\ UNCHANGED t
       \/ /\ val # Nil /\ IsText(val) /\ ~Guessed(val)
          /\ Return(ZeroAnswer) /\ UNCHANGED t
       \/ /\ val # Nil /\ (IsText(val) => Guessed(val))
          /\ pc' = "moving" /\ t' = IF IsText(val) THEN val.time ELSE val
          /\ UNCHANGED ret
    /\ UNCHANGED <<trail, flag, parsed>>

MoveBy(m) ==
    /\ pc = "moving" /\ Len(trail) < MaxSteps
    /\ trail' = Append(trail, [m |-> m, from |-> t])
    /\ CASE m.kind = "unit" -> t' = ByUnit(t, m.n) /\ UNCHANGED <<pc, ret>>
         [] m.kind = "span" -> t' = Add(t, m.span) /\ UNCHANGED <<pc, ret>>
         [] m.kind = "to"   -> t' = ToDay(t, m.to) /\ UNCHANGED <<pc, ret>>
         [] m.kind = "flag" /\ m.on -> UNCHANGED <<t, pc, ret>>
         [] m.kind = "flag" /\ ~m.on -> Return(Self) /\ UNCHANGED t
    /\ UNCHANGED <<arg, cell, flag, parsed>>

(* A text is written in the layout it was read in; through a pointer the
   answer is written back. *)
MoveReturn ==
    /\ pc = "moving" /\ trail # <<>>
    /\ LET val == IF IsText(arg.val) THEN Format(Layout(arg.val), t) ELSE t
       IN  IF arg.ptr THEN cell' = val /\ Return(Self)
                      ELSE Return(Answer(val)) /\ UNCHANGED cell
    /\ UNCHANGED <<arg, t, trail, flag, parsed>>

-----------------------------------------------------------------------------
(* Guess for When: a text that is no date is the zero time. *)
GuessOrZero(text) == IF Guessed(text) THEN text.time ELSE ZeroTime

(* cache.GetOrSetFunc, for an operand that is a text. *)
Cached(cache, x) ==
    IF IsText(x) /\ x \notin DOMAIN cache
    THEN [y \in DOMAIN cache \cup {x} |-> IF y = x THEN GuessOrZero(x) ELSE cache[y]]
    ELSE cache

TimeOf(cache, x) == IF IsText(x) THEN cache[x] ELSE x

Equal(l, r)  == Instant(l) = Instant(r)
After(l, r)  == Instant(l) > Instant(r)
Before(l, r) == Instant(l) < Instant(r)

(* The operators with ~ look at year, month and day, each in its own zone. *)
SameDay(l, r) == Civil(l.day) = Civil(r.day)

DayAfter(l, r) ==
    LET a == Civil(l.day)
        b == Civil(r.day)
    IN  \/ a.y > b.y
        \/ a.y = b.y /\ a.m > b.m
        \/ a.y = b.y /\ a.m = b.m /\ a.d > b.d

(* Mutant: the months are compared whatever the years. *)
DayBeforeAnyYear(l, r) ==
    LET a == Civil(l.day)
        b == Civil(r.day)
    IN  \/ a.y < b.y
        \/ a.m < b.m
        \/ a.y = b.y /\ a.m = b.m /\ a.d < b.d

DayBefore(l, r) ==
    LET a == Civil(l.day)
        b == Civil(r.day)
    IN  \/ a.y < b.y
        \/ a.y = b.y /\ a.m < b.m
        \/ a.y = b.y /\ a.m = b.m /\ a.d < b.d

tickCompare(l, op, r) ==
    CASE op = ">"   -> After(l, r)
      [] op = ">="  -> After(l, r) \/ Equal(l, r)
      [] op = "<"   -> Before(l, r)
      [] op = "<="  -> Before(l, r) \/ Equal(l, r)
      [] op = "=="  -> Equal(l, r)
      [] op = "!="  -> ~Equal(l, r)
      [] op = "~="  -> SameDay(l, r)
      [] op = "~>"  -> DayAfter(l, r)
      [] op = "~<"  -> DayBefore(l, r)
      [] op = "~>=" -> DayAfter(l, r) \/ SameDay(l, r)
      [] op = "~<=" -> DayBefore(l, r) \/ SameDay(l, r)
      [] OTHER -> FALSE

(* Fewer than three arguments, or an even number. *)
WhenMiscounted ==
    /\ pc = "idle" /\ Return(Answer(FALSE))
    /\ UNCHANGED <<arg, cell, t, trail, flag, parsed>>

WhenCall(left) ==
    /\ pc = "idle" /\ pc' = "comparing"
    /\ arg' = [val |-> left, ptr |-> FALSE]
    /\ UNCHANGED <<cell, t, trail, flag, ret, parsed>>

Left == IF trail = <<>> THEN arg.val ELSE trail[Len(trail)].right

(* An operator that is no string ends the call.  Once a comparison has failed
   the others are not evaluated; an operand that is no time panics. *)
Compare(op, right) ==
    /\ pc = "comparing" /\ Len(trail) < MaxSteps
    /\ trail' = Append(trail, [op |-> op, right |-> right])
    /\ LET cache == Cached(Cached(parsed, Left), right)
       IN  \/ op = "noString" /\ Return(Answer(FALSE)) /\ UNCHANGED <<flag, parsed>>
           \/ op # "noString" /\ ~flag /\ UNCHANGED <<pc, ret, flag, parsed>>
           \/ /\ op # "noString" /\ flag
              /\ IF NotATime \in {Left, right}
                 THEN /\ pc' = "panic" /\ UNCHANGED <<ret, flag>>
                      /\ parsed' = IF Left = NotATime THEN parsed ELSE Cached(parsed, Left)
                 ELSE /\ parsed' = cache
                      /\ flag' = tickCompare(TimeOf(cache, Left), op, TimeOf(cache, right))
                      /\ UNCHANGED <<pc, ret>>
    /\ UNCHANGED <<arg, cell, t>>

WhenReturn ==
    /\ pc = "comparing" /\ trail # <<>> /\ Return(Answer(flag))
    /\ UNCHANGED <<arg, cell, t, trail, flag, parsed>>

(* An entry expires or is evicted. *)
Forget(text) ==
    /\ text \in DOMAIN parsed
    /\ parsed' = [x \in DOMAIN parsed \ {text} |-> parsed[x]]
    /\ UNCHANGED <<pc, arg, cell, t, trail, flag, ret>>

(* The caller has its answer, or has recovered from the panic. *)
Again ==
    /\ pc \in {"done", "panic"} /\ pc' = "idle"
    /\ arg' = NoArg /\ cell' = Nil /\ t' = ZeroTime
    /\ trail' = <<>> /\ flag' = TRUE /\ ret' = ZeroAnswer
    /\ UNCHANGED parsed

Next ==
    \/ \E val \in Moved \cup {Nil}, ptr \in BOOLEAN : MoveCall(val, ptr)
    \/ \E m \in Movements : MoveBy(m)
    \/ MoveReturn
    \/ WhenMiscounted
    \/ \E left \in Compared : WhenCall(left)
    \/ \E op \in Operators, right \in Compared : Compare(op, right)
    \/ WhenReturn
    \/ \E text \in DOMAIN parsed : Forget(text)
    \/ Again

Spec == Init /\ [][Next]_vars

-----------------------------------------------------------------------------
(* A movement of the trail and the time it led to. *)
Led(k) == IF k < Len(trail) THEN trail[k + 1].from ELSE t

Asked(kind) == {k \in DOMAIN trail : "m" \in DOMAIN trail[k] /\ trail[k].m.kind = kind}

IsMonthEnd(n) == Civil(n + 1).d = 1

MonthIndex(n) == 12 * Civil(n).y + Civil(n).m

OneWay(m) ==
    /\ \A a, b \in {m.y, m.m, m.d} : a * b >= 0
    /\ \A a \in {m.m, m.d} : -Base < a /\ a < Base

(* A unit of y years, m months and d days, all forward or all back and each
   within its field, goes y years and m months from the month of the date, to
   the same day, or to the end of the month if the date was one or the month
   is too short, and then d days on (adjustMonthBoundary, and the decoding in
   Move). *)
MonthsKept ==
    \A k \in Asked("unit") :
        LET m == trail[k].m
            n == trail[k].from.day
            landed == Led(k).day - m.d
        IN  OneWay(m) =>
              IF m.y = 0 /\ m.m = 0 THEN landed = n
              ELSE /\ MonthIndex(landed) = MonthIndex(n) + 12 * m.y + m.m
                   /\ IsMonthEnd(n) => IsMonthEnd(landed)
                   /\ ~IsMonthEnd(n) => \/ Civil(landed).d = Civil(n).d
                                        \/ IsMonthEnd(landed) /\ Civil(landed).d < Civil(n).d

(* The period a named day belongs to: weeks begin on Sunday, Chinese ones on
   Monday. *)
Period(to, n) ==
    CASE to \in {"FirstDayOfMonth", "LastDayOfMonth"} -> MonthIndex(n)
      [] to \in {"FirstDayOfYear", "LastDayOfYear"} -> Civil(n).y
      [] to \in {"FirstDayOfWeek", "LastDayOfWeek"} -> (n + 3) \div 7
      [] to \in {"FirstDayOfCNWeek", "LastDayOfCNWeek"} -> (n + 2) \div 7

Beyond(to) == IF to \in {"FirstDayOfMonth", "FirstDayOfYear", "FirstDayOfWeek",
                         "FirstDayOfCNWeek"} THEN -1 ELSE 1

(* The k-th movement led to the first or last day of the period it was in, at the
   same moment of the day. *)
EndsPeriod(k) ==
    LET to == trail[k].m.to
        n == Led(k).day
    IN  /\ Period(to, n) = Period(to, trail[k].from.day)
        /\ Period(to, n + Beyond(to)) # Period(to, n)
        /\ Led(k).clock = trail[k].from.clock

(* A named day is the first or last of the month, year or week the date is in
   (the moveType cases of Move but LastDayOfCNWeek, of which CNWeekEnds speaks). *)
PeriodEnds ==
    \A k \in Asked("to") : trail[k].m.to # "LastDayOfCNWeek" => EndsPeriod(k)

(* "For the Chinese week (which begins on Monday) special handling is needed"
   (lines 110-111): LastDayOfCNWeek is the last day of the week that begins on
   Monday.  The code works out the days since Monday and goes to Saturday. *)
CNWeekEnds ==
    \A k \in Asked("to") : trail[k].m.to = "LastDayOfCNWeek" => EndsPeriod(k)

MoveEnded == pc = "done" /\ arg # NoArg /\ cell # Nil

Cancelled == \E k \in Asked("flag") : ~trail[k].m.on

(* What Move writes it can read again, and would write again as it is, as long
   as the year has four digits and there is no fraction of a second: the layouts
   of guess are closed under formatting.  Of the texts with a fraction only those
   that are 28 to 30 characters long come back: "...00.100+08:00" is written
   "...00.1+08:00", which guess does not take (tickx_move.go:134, tick_guess.go:72). *)
MovableAgain ==
    MoveEnded /\ trail # <<>> /\ ~Cancelled =>
        LET val == IF ret = Self THEN cell ELSE ret.val
        IN  IsText(val) /\ FourDigits(val.time) =>
                (Guessed(val) /\ Format(Layout(val), val.time) = val
                   <=> val.decimals = 0 \/ TextLen(val) \in 28..30)

(* The relation an operator names, by instants or by days. *)
Holds(l, op, r) ==
    CASE op \in {"==", "~="}  -> (op = "==" /\ Instant(l) = Instant(r)) \/ (op = "~=" /\ l.day = r.day)
      [] op = "!="            -> Instant(l) # Instant(r)
      [] op \in {">", ">="}   -> Instant(l) > Instant(r) - (IF op = ">=" THEN 1 ELSE 0)
      [] op \in {"<", "<="}   -> Instant(l) < Instant(r) + (IF op = "<=" THEN 1 ELSE 0)
      [] op \in {"~>", "~>="} -> l.day > r.day - (IF op = "~>=" THEN 1 ELSE 0)
      [] op \in {"~<", "~<="} -> l.day < r.day + (IF op = "~<=" THEN 1 ELSE 0)
      [] OTHER -> FALSE

Operand(k) == IF k = 0 THEN arg.val ELSE trail[k].right

Meant(x) == IF IsText(x) THEN GuessOrZero(x) ELSE x

(* When answers that every neighbouring pair is in the relation between them,
   whatever the cache held and forgot in between: a text always means its own
   parse, and one that is no date the year 1.  It panics only at an operand
   that is no time and only if every pair before holds. *)
WhenIsConjunction ==
    LET pairs == {k \in DOMAIN trail : "op" \in DOMAIN trail[k]}
        holds(k) == /\ NotATime \notin {Operand(k - 1), Operand(k)}
                    /\ Holds(Meant(Operand(k - 1)), trail[k].op, Meant(Operand(k)))
    IN  pairs # {} =>
          /\ pc = "done" => ret = Answer(\A k \in pairs : holds(k))
          /\ pc = "panic" => /\ \A k \in pairs \ {Len(trail)} : holds(k)
                             /\ NotATime \in {Operand(Len(trail) - 1), Operand(Len(trail))}
=============================================================================
