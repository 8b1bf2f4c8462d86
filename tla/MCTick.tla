------------------------------- MODULE MCTick -------------------------------
(* Dates around the ends of months and years, and leap years, for TLC. *)
EXTENDS Tick

Days1(y, m, ds) == {Number(y, m, d) : d \in ds}

MCDays == Days1(2023, 1, {29, 30, 31}) \cup Days1(2023, 2, {27, 28}) \cup Days1(2024, 2, {28, 29})
            \cup Days1(2023, 4, {30}) \cup Days1(2023, 12, {30, 31}) \cup Days1(2024, 1, {1})

(* A second has 128 moments, so that a fraction has up to seven decimals. *)
MCDecimals ==
    [f \in 0..Second - 1 |-> IF f = 0 THEN 0
                             ELSE CHOOSE k \in 1..7 : f % (2^(7 - k)) = 0 /\ f % (2^(8 - k)) # 0]

(* Without decimals; with some, up to three or seven of them needed. *)
MCTexts ==
    LET n == Number(2024, 2, 29)
    IN  {Text(how, 0, Whole(Time(n, Minute + Second, 0), unit, 0)) :
           <<how, unit>> \in {<<"usDay", Ticks>>, <<"minute", Minute>>, <<"second", Second>>, <<"zulu", Second>>}}
          \cup {Text("year", 0, Time(Number(2024, 1, 1), 0, 0))}
          \cup {Text("offset", k, Time(n, f, Minute)) : k \in {2, 4}, f \in {0, 32, 64}}
          \cup {Text("offset", 3, Time(n, 32, 0))}
          \cup {Text("offset", 0, Time(n, Second, z)) : z \in {0, -Minute}}
          \cup {Text("zulu", 7, Time(n, f, 0)) : f \in {1, 16, 64, Second}}
          \cup {Text("zulu", 9, Time(n, 1, 0)), Text("zulu", 3, Time(n, 16, 0)), Text("zulu", 5, Time(n, 32, 0)),
                Text("rfc1123", 0, Time(n, Second, 0)), Text("empty", 0, ZeroTime)}

MCMoved == {Time(n, Minute, 0) : n \in MCDays} \cup MCTexts

Unit(y, m, d) == [kind |-> "unit", n |-> y * Year + m * Month + d * Day, y |-> y, m |-> m, d |-> d]

MCMovements ==
    {Unit(0, m, 0) : m \in {-13, -1, 1, 11}} \cup {Unit(1, 0, 0), Unit(-1, -2, -3), Unit(1, 1, 1), Unit(0, 1, -1), Unit(0, 0, 7)}
      \cup {[kind |-> "span", span |-> s] : s \in {-2 * Minute, 32}}
      \cup {[kind |-> "to", to |-> to] : to \in {"FirstDayOfMonth", "LastDayOfMonth", "FirstDayOfYear",
               "LastDayOfYear", "FirstDayOfWeek", "LastDayOfWeek", "FirstDayOfCNWeek", "LastDayOfCNWeek"}}
      \cup {[kind |-> "flag", on |-> b] : b \in BOOLEAN}

(* The same instant in two zones, two moments of a day, and no date. *)
MCCompared ==
    {Format("rfc3339", Time(Number(2024, 1, 1), 0, Minute)), Text("offset", 2, Time(Number(2023, 12, 31), Ticks - Minute, 0)),
     Text("empty", 0, ZeroTime), Time(Number(2023, 11, 30), 1, 0), NotATime}

MCOperators == {"==", "!=", ">", ">=", "<", "<=", "~=", "~>", "~>=", "~<", "~<=", "?", "noString"}
=============================================================================
