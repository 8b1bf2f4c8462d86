------------------------------ MODULE Calendar ------------------------------
(***************************************************************************)
(* Dates.  The first part is external: the civil calendar of Go's package  *)
(* time, days counted from 1 March of year 0.  The second part is what     *)
(* src/y builds on it: the layouts Guess tries, and the month arithmetic   *)
(* of Move.                                                                *)
(***************************************************************************)
EXTENDS Integers, Sequences

CONSTANTS
    Base,     \* how many days a month, and months a year, hold in a YmdUnit: 10000
    Ticks,    \* the moments of a day that the model tells apart
    Minute,   \* those of a minute
    Second,   \* those of a second
    Decimals  \* how many decimals of the second each of these takes to write

ASSUME CalendarAssumption ==
    /\ Base \in Nat \ {0}
    /\ {Ticks, Minute, Second} \subseteq Nat \ {0}
    /\ Ticks % Minute = 0 /\ Minute % Second = 0
    /\ Decimals \in [0..Second - 1 -> 0..9]
    /\ \A f \in DOMAIN Decimals : Decimals[f] = 0 <=> f = 0

-----------------------------------------------------------------------------
(* time.Date for a month that may be out of range; a day that is out of range
   is added to the first one. *)
Number(y, m, d) ==
    LET k == 12 * y + m - 3
        year == k \div 12
    IN  365 * year + (year \div 4) - (year \div 100) + (year \div 400)
          + ((153 * (k % 12) + 2) \div 5) + d - 1

(* Year, Month and Day of a day; 400 years have 146097 days. *)
Civil(n) ==
    LET about == (400 * n) \div 146097
        y == CHOOSE y \in about..about + 1 : Number(y, 1, 1) <= n /\ n < Number(y + 1, 1, 1)
        m == CHOOSE m \in 1..12 : Number(y, m, 1) <= n /\ n < Number(y, m + 1, 1)
    IN  [y |-> y, m |-> m, d |-> n - Number(y, m, 1) + 1]

(* 0 is a Sunday. *)
Weekday(n) == (n + 3) % 7

(* A time is a local day, a local moment of it, and what its zone is ahead. *)
Time(day, clock, zone) == [day |-> day, clock |-> clock, zone |-> zone]

ZeroTime == Time(Number(1, 1, 1), 0, 0)

Instant(t) == t.day * Ticks + t.clock - t.zone

AddDays(t, days) == [t EXCEPT !.day = @ + days]

Add(t, span) == [t EXCEPT !.day = @ + ((t.clock + span) \div Ticks),
                          !.clock = ((@ + span) % Ticks)]

-----------------------------------------------------------------------------
(* A text is a time as it is written, with some decimals of the second: those of
   RFC 3339 end with a Z ("zulu") or an offset. *)
Text(how, decimals, t) == [how |-> how, decimals |-> decimals, time |-> t]

(* How long a text is; the point counts. *)
TextLen(text) ==
    LET point == IF text.decimals > 0 THEN 1 + text.decimals ELSE 0
    IN  CASE text.how = "year" -> 4
          [] text.how = "compactDay" -> 8
          [] text.how \in {"day", "slashDay", "usDay"} -> 10
          [] text.how = "compact" -> 14
          [] text.how \in {"minute", "slashMinute"} -> 16
          [] text.how \in {"second", "slashSecond", "tSecond"} -> 19
          [] text.how = "zulu" -> 20 + point
          [] text.how = "offset" -> 25 + point
          [] text.how = "rfc1123" -> 29
          [] OTHER -> 0

(* Mutant: the layout without an offset is forgotten. *)
FormatsWithoutZulu(len) ==
    CASE len = 4 -> <<"year">>
      [] len = 8 -> <<"compactDay">>
      [] len = 10 -> <<"day", "slashDay", "usDay">>
      [] len = 14 -> <<"compact">>
      [] len = 16 -> <<"minute", "slashMinute">>
      [] len = 19 -> <<"second", "slashSecond", "tSecond">>
      [] len \in {22, 23} -> <<"rfc850", "rfc1123">>
      [] len \in {24, 25} -> <<"rfc3339", "rfc1123z">>
      [] len \in 28..30 -> <<"nano">>
      [] OTHER -> <<>>

(* The layouts tried, by the length of the text alone. *)
Formats(len) ==
    CASE len = 4 -> <<"year">>
      [] len = 8 -> <<"compactDay">>
      [] len = 10 -> <<"day", "slashDay", "usDay">>
      [] len = 14 -> <<"compact">>
      [] len = 16 -> <<"minute", "slashMinute">>
      [] len = 19 -> <<"second", "slashSecond", "tSecond">>
      [] len = 20 -> <<"zulu">>
      [] len \in {22, 23} -> <<"rfc850", "rfc1123">>
      [] len \in {24, 25} -> <<"rfc3339", "rfc1123z">>
      [] len \in 28..30 -> <<"nano">>
      [] OTHER -> <<>>

(* time.Parse: both layouts of RFC 3339 take a Z for the offset and any number
   of decimals; a year has four digits. *)
FourDigits(t) == Civil(t.day).y \in 0..9999

Parses(layout, text) ==
    /\ FourDigits(text.time)
    /\ \/ text.how = layout
       \/ layout \in {"rfc3339", "nano"} /\ text.how \in {"zulu", "offset"}

(* How many decimals the second of a time takes to write. *)
Fraction(t) == Decimals[t.clock % Second]

(* A time without what is smaller than a unit. *)
Whole(t, unit, zone) == Time(t.day, t.clock - (t.clock % unit), zone)

(* No offset is written Z. *)
Rfc3339(decimals, t) == Text(IF t.zone = 0 THEN "zulu" ELSE "offset", decimals, t)

(* time.Format: what a layout leaves out is lost, the fraction of the second by
   all but RFC3339Nano, which writes it without trailing zeros. *)
Format(layout, t) ==
    CASE layout = "year" -> Text(layout, 0, Time(Number(Civil(t.day).y, 1, 1), 0, 0))
      [] layout \in {"day", "slashDay", "usDay", "compactDay"} -> Text(layout, 0, Whole(t, Ticks, 0))
      [] layout \in {"minute", "slashMinute"} -> Text(layout, 0, Whole(t, Minute, 0))
      [] layout = "rfc3339" -> Rfc3339(0, Whole(t, Second, t.zone))
      [] layout = "nano" -> Rfc3339(Fraction(t), t)
      [] OTHER -> Text(layout, 0, Whole(t, Second, 0))

(* The layout guess settles on, or "none". *)
Layout(text) ==
    LET tried == Formats(TextLen(text))
        fits == {k \in DOMAIN tried : Parses(tried[k], text)}
    IN  IF fits = {} THEN "none" ELSE tried[CHOOSE k \in fits : \A j \in fits : k <= j]

Guessed(text) == Layout(text) # "none"

-----------------------------------------------------------------------------
Day   == Base
Week  == 7 * Base
Month == Base * Base
Year  == Base * Base * Base

(* Go's division drops the fraction, whatever the signs. *)
Quot(a, b) == IF a >= 0 THEN a \div b ELSE -((-a) \div b)
Rem(a, b)  == a - b * Quot(a, b)

Years(unit)  == Quot(unit, Year)

(* Mutant: the years are left in. *)
MonthsWithYears(unit) == Quot(unit, Month)

Months(unit) == Quot(Rem(unit, Year), Month)
Days(unit)   == Quot(Rem(unit, Month), Day)

lastDayOfMonth(year, month) == Civil(Number(year, month + 1, 1) - 1).d

(* The end of a month goes to the end of a month, another day is clamped. *)
targetDay(c, year, month) ==
    LET last == lastDayOfMonth(year, month)
    IN  IF c.d = lastDayOfMonth(c.y, c.m) \/ c.d > last THEN last ELSE c.d

adjustMonthBoundary(t, years, months, days) ==
    LET c == Civil(t.day)
        target == 12 * (c.y + years) + c.m - 1 + months
        year == target \div 12
        month == (target % 12) + 1
    IN  [t EXCEPT !.day = Number(year, month, targetDay(c, year, month)) + days]

ByUnit(t, unit) ==
    IF Years(unit) # 0 \/ Months(unit) # 0 \/ Days(unit) # 0
    THEN adjustMonthBoundary(t, Years(unit), Months(unit), Days(unit)) ELSE t

(* Mutant: a Sunday begins the Chinese week. *)
ToDaySundayFirst(t, to) ==
    LET c == Civil(t.day)
        w == Weekday(t.day)
    IN  CASE to = "FirstDayOfMonth" -> [t EXCEPT !.day = Number(c.y, c.m, 1)]
          [] to = "LastDayOfMonth" -> [t EXCEPT !.day = Number(c.y, c.m + 1, c.d) - c.d]
          [] to = "FirstDayOfYear" -> [t EXCEPT !.day = Number(c.y, 1, 1)]
          [] to = "LastDayOfYear" -> [t EXCEPT !.day = Number(c.y, 12, 31)]
          [] to = "FirstDayOfWeek" -> AddDays(t, -w)
          [] to = "FirstDayOfCNWeek" -> AddDays(t, 1 - w)
          [] to \in {"LastDayOfWeek", "LastDayOfCNWeek"} -> AddDays(t, 6 - w)

(* The named days.  The last day of the Chinese week works out the days since
   Monday and then does not use them. *)
ToDay(t, to) ==
    LET c == Civil(t.day)
        w == Weekday(t.day)
    IN  CASE to = "FirstDayOfMonth" -> [t EXCEPT !.day = Number(c.y, c.m, 1)]
          [] to = "LastDayOfMonth" -> [t EXCEPT !.day = Number(c.y, c.m + 1, c.d) - c.d]
          [] to = "FirstDayOfYear" -> [t EXCEPT !.day = Number(c.y, 1, 1)]
          [] to = "LastDayOfYear" -> [t EXCEPT !.day = Number(c.y, 12, 31)]
          [] to = "FirstDayOfWeek" -> AddDays(t, -w)
          [] to = "FirstDayOfCNWeek" -> AddDays(t, IF w = 0 THEN -6 ELSE 1 - w)
          [] to \in {"LastDayOfWeek", "LastDayOfCNWeek"} -> AddDays(t, 6 - w)
=============================================================================
