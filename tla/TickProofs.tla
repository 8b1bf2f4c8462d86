----------------------------- MODULE TickProofs -----------------------------
(***************************************************************************)
(* The date functions on every date: months are kept, named days end their *)
(* period, what is written can be read, and When is a conjunction.  The    *)
(* first part is about the calendar itself.                                *)
(***************************************************************************)
EXTENDS Tick, DataLemmas

-----------------------------------------------------------------------------
(* Months in one row: First(k) is the first day of the month with index k,
   March of year 0 being the month 0. *)
First(k) ==
    365 * (k \div 12) + ((k \div 12) \div 4) - ((k \div 12) \div 100) + ((k \div 12) \div 400)
      + ((153 * (k % 12) + 2) \div 5)

LEMMA NumberIs ==
    ASSUME NEW y \in Int, NEW m \in Int, NEW d \in Int
    PROVE  /\ Number(y, m, d) = First(12 * y + m - 3) + d - 1
           /\ Number(y, m, d) \in Int
BY DEF Number, First

LEMMA FirstType == ASSUME NEW k \in Int PROVE First(k) \in Int
BY DEF First

LEMMA Begins ==
    ASSUME NEW y \in Int, NEW m \in Int, NEW k \in Int, k = 12 * y + m - 3
    PROVE  /\ Number(y, m, 1) = First(k) /\ Number(y, m, 1) \in Int
           /\ Number(y, m + 1, 1) = First(k + 1) /\ Number(y, m + 1, 1) \in Int
PROOF
<1>1. Number(y, m, 1) = First(k)
  <2>1. Number(y, m, 1) = First(12 * y + m - 3) + 1 - 1
    BY NumberIs
  <2>2. First(k) \in Int
    BY FirstType
  <2> QED BY <2>1, <2>2
<1>2. Number(y, m + 1, 1) = First(k + 1)
  <2>1. m + 1 \in Int /\ k + 1 \in Int /\ k + 1 = 12 * y + (m + 1) - 3
    OBVIOUS
  <2>2. Number(y, m + 1, 1) = First(12 * y + (m + 1) - 3) + 1 - 1
    BY <2>1, NumberIs
  <2>3. First(k + 1) \in Int
    BY <2>1, FirstType
  <2> QED BY <2>1, <2>2, <2>3
<1>3. First(k) \in Int /\ First(k + 1) \in Int
  BY FirstType
<1> QED BY <1>1, <1>2, <1>3

(* Leap days. *)
LEMMA Leap ==
    ASSUME NEW c \in Int
    PROVE  LET l == (((c + 1) \div 4) - ((c + 1) \div 100) + ((c + 1) \div 400))
                      - ((c \div 4) - (c \div 100) + (c \div 400))
           IN  l \in {0, 1}
OBVIOUS

(* A month has 28 to 31 days. *)
LEMMA MonthLength ==
    ASSUME NEW k \in Int
    PROVE  First(k + 1) - First(k) \in 28..31
PROOF
<1> DEFINE c == k \div 12
           r == k % 12
<1>1. c \in Int /\ r \in 0..11 /\ k = 12 * c + r
  OBVIOUS
<1>2. CASE r < 11
  <2>1. (k + 1) \div 12 = c /\ (k + 1) % 12 = r + 1
    BY <1>1, <1>2
  <2>2. ((153 * (r + 1) + 2) \div 5) - ((153 * r + 2) \div 5) \in 28..31
    BY <1>1, <1>2
  <2> QED BY <1>1, <2>1, <2>2 DEF First
<1>3. CASE r = 11
  <2>1. (k + 1) \div 12 = c + 1 /\ (k + 1) % 12 = 0
    BY <1>1, <1>3
  <2>2. First(k + 1) = 365 * (c + 1) + ((c + 1) \div 4) - ((c + 1) \div 100) + ((c + 1) \div 400)
    BY <2>1 DEF First
  <2>3. First(k) = 365 * c + (c \div 4) - (c \div 100) + (c \div 400) + 337
    BY <1>3 DEF First
  <2> QED BY <1>1, <2>2, <2>3, Leap
<1> QED BY <1>1, <1>2, <1>3

(* Later months begin later, by 28 days a month at least. *)
LEMMA MonthsGrow ==
    ASSUME NEW k \in Int, NEW j \in Int, k < j
    PROVE  First(k) + 28 * (j - k) <= First(j)
PROOF
<1> DEFINE T == {n \in Nat : First(k) + 28 * n <= First(k + n)}
<1>1. 0 \in T
  BY FirstType
<1>2. ASSUME NEW n \in Nat, n \in T PROVE n + 1 \in T
  <2>1. First((k + n) + 1) - First(k + n) \in 28..31 /\ First(k) \in Int /\ First(k + n) \in Int
        /\ First((k + n) + 1) \in Int
    BY MonthLength, FirstType
  <2>2. (k + n) + 1 = k + (n + 1)
    OBVIOUS
  <2> QED BY <1>2, <2>1, <2>2
<1>3. \A n \in Nat : n \in T
  <2> HIDE DEF T
  <2> QED BY <1>1, <1>2, Induction
<1>4. j - k \in T /\ k + (j - k) = j
  BY <1>3
<1> QED BY <1>4

LEMMA Later ==
    ASSUME NEW k \in Int, NEW j \in Int, k < j
    PROVE  First(k) < First(j)
PROOF
<1>1. First(k) + 28 * (j - k) <= First(j) /\ First(k) \in Int /\ First(j) \in Int
  BY MonthsGrow, FirstType
<1> QED BY <1>1

(* Years begin where Civil looks for them. *)
LEMMA YearBegins ==
    ASSUME NEW y \in Int
    PROVE  Number(y, 1, 1) = 365 * (y - 1) + ((y - 1) \div 4) - ((y - 1) \div 100) + ((y - 1) \div 400) + 306
PROOF
<1>1. (12 * y + 1 - 3) \div 12 = y - 1 /\ (12 * y + 1 - 3) % 12 = 10
  OBVIOUS
<1> QED BY <1>1 DEF Number

LEMMA YearFound ==
    ASSUME NEW n \in Int
    PROVE  LET about == (400 * n) \div 146097
           IN  /\ about \in Int
               /\ Number(about, 1, 1) <= n /\ n < Number(about + 2, 1, 1)
PROOF
<1> DEFINE q == (400 * n) \div 146097
<1>1. q \in Int /\ 146097 * q <= 400 * n /\ 400 * n < 146097 * (q + 1)
  OBVIOUS
<1> HIDE DEF q
<1>2. ASSUME NEW x \in Int
      PROVE  LET f == 365 * x + (x \div 4) - (x \div 100) + (x \div 400)
             IN  400 * f <= 146097 * x + 400 /\ 146097 * x - 800 <= 400 * f
  OBVIOUS
<1>3. Number(q, 1, 1) <= n
  <2> DEFINE x == q - 1
             f == 365 * x + (x \div 4) - (x \div 100) + (x \div 400)
  <2>1. x \in Int /\ f \in Int
    BY <1>1
  <2>2. Number(q, 1, 1) = f + 306
    BY <1>1, YearBegins
  <2>3. 400 * f <= 146097 * x + 400
    BY <1>2, <2>1
  <2> HIDE DEF f
  <2> QED BY <1>1, <2>1, <2>2, <2>3
<1>4. n < Number(q + 2, 1, 1)
  <2> DEFINE x == q + 1
             f == 365 * x + (x \div 4) - (x \div 100) + (x \div 400)
  <2>1. x \in Int /\ f \in Int
    BY <1>1
  <2>2. Number(q + 2, 1, 1) = f + 306
    <3> DEFINE y == q + 2
    <3>1. y - 1 = x /\ y \in Int
      BY <1>1
    <3> HIDE DEF x, y
    <3>2. Number(y, 1, 1) = 365 * (y - 1) + ((y - 1) \div 4) - ((y - 1) \div 100) + ((y - 1) \div 400) + 306
      BY <3>1, YearBegins
    <3>3. Number(y, 1, 1) = f + 306
      BY <3>1, <3>2
    <3> QED BY <3>3 DEF y
  <2>3. 146097 * x - 800 <= 400 * f
    BY <1>2, <2>1
  <2> HIDE DEF f
  <2> QED BY <1>1, <2>1, <2>2, <2>3
<1> QED BY <1>1, <1>3, <1>4 DEF q

-----------------------------------------------------------------------------
(* A month begins by a day it holds and ends after. *)
Within(y, m, n) == Number(y, m, 1) <= n /\ n < Number(y, m + 1, 1)

LEMMA MonthFound ==
    ASSUME NEW y \in Int, NEW n \in Int, Number(y, 1, 1) <= n, n < Number(y + 1, 1, 1)
    PROVE  \E m \in 1..12 : Within(y, m, n)
PROOF
<1>1. \A m \in Int : Number(y, m, 1) \in Int
  BY NumberIs
<1>2. Number(y + 1, 1, 1) = Number(y, 13, 1)
  <2>1. 12 * (y + 1) + 1 - 3 = 12 * y + 13 - 3
    OBVIOUS
  <2> QED BY <2>1, NumberIs
<1> SUFFICES ASSUME \A m \in 1..12 : ~Within(y, m, n) PROVE FALSE
  OBVIOUS
<1>3. \A m \in 1..12 : Number(y, m, 1) <= n => Number(y, m + 1, 1) <= n
  BY <1>1 DEF Within
<1>4. Number(y, 7, 1) <= n
  BY <1>3, 1 + 1 = 2, 2 + 1 = 3, 3 + 1 = 4, 4 + 1 = 5, 5 + 1 = 6, 6 + 1 = 7
<1>5. Number(y, 13, 1) <= n
  BY <1>3, <1>4, 7 + 1 = 8, 8 + 1 = 9, 9 + 1 = 10, 10 + 1 = 11, 11 + 1 = 12, 12 + 1 = 13
<1> QED BY <1>1, <1>2, <1>5

(* Civil is right on every day. *)
LEMMA CivilIs ==
    ASSUME NEW n \in Int
    PROVE  /\ Civil(n).y \in Int /\ Civil(n).m \in 1..12 /\ Civil(n).d \in 1..31
           /\ Within(Civil(n).y, Civil(n).m, n)
           /\ Civil(n).d = n - Number(Civil(n).y, Civil(n).m, 1) + 1
           /\ n = Number(Civil(n).y, Civil(n).m, Civil(n).d)
PROOF
<1> DEFINE about == (400 * n) \div 146097
           IsYear(y) == Number(y, 1, 1) <= n /\ n < Number(y + 1, 1, 1)
           year == CHOOSE y \in about..about + 1 : IsYear(y)
           month == CHOOSE m \in 1..12 : Within(year, m, n)
<1>1. about \in Int /\ Number(about, 1, 1) <= n /\ n < Number(about + 2, 1, 1)
  BY YearFound
<1> HIDE DEF about
<1>2. \E y \in about..about + 1 : IsYear(y)
  <2>1. CASE n < Number(about + 1, 1, 1)
    BY <1>1, <2>1
  <2>2. CASE ~(n < Number(about + 1, 1, 1))
    <3>1. Number(about + 1, 1, 1) \in Int
      BY <1>1, NumberIs
    <3>2. (about + 1) + 1 = about + 2 /\ about + 1 \in about..about + 1
      BY <1>1
    <3>3. Number(about + 1, 1, 1) <= n
      BY <2>2, <3>1
    <3> QED BY <1>1, <3>2, <3>3
  <2> QED BY <2>1, <2>2
<1>3. year \in Int /\ IsYear(year)
  BY <1>1, <1>2
<1>4. Civil(n) = [y |-> year, m |-> month, d |-> n - Number(year, month, 1) + 1]
  BY DEF Civil, about, Within
<1> HIDE DEF year
<1>5. month \in 1..12 /\ Within(year, month, n)
  BY <1>3, MonthFound
<1> HIDE DEF month
<1>6. Civil(n).y = year /\ Civil(n).m = month /\ Civil(n).d = n - Number(year, month, 1) + 1
  BY <1>4
<1>7. Civil(n).d \in 1..31
  <2> DEFINE k == 12 * year + month - 3
  <2>1. k \in Int
    BY <1>3, <1>5
  <2>2. /\ Number(year, month, 1) = First(k) /\ Number(year, month, 1) \in Int
        /\ Number(year, month + 1, 1) = First(k + 1) /\ Number(year, month + 1, 1) \in Int
    <3>1. month \in Int
      BY <1>5
    <3> QED BY <1>3, <2>1, <3>1, Begins
  <2>3. First(k + 1) - First(k) \in 28..31
    BY <2>1, MonthLength
  <2> HIDE DEF k
  <2> QED BY <1>5, <1>6, <2>1, <2>2, <2>3 DEF Within
<1>8. n = Number(year, month, Civil(n).d)
  <2> DEFINE k == 12 * year + month - 3
             d == Civil(n).d
  <2>1. k \in Int /\ d \in Int /\ month \in Int
    BY <1>3, <1>5, <1>7
  <2>2. Number(year, month, d) = First(k) + d - 1
    BY <1>3, <2>1, NumberIs
  <2>3. Number(year, month, 1) = First(k) /\ First(k) \in Int
    <3>1. Number(year, month, 1) = First(k)
      BY <1>3, <2>1, Begins
    <3>2. First(k) \in Int
      BY <2>1, FirstType
    <3> QED BY <3>1, <3>2
  <2>4. d = n - First(k) + 1
    BY <1>6, <2>3
  <2> HIDE DEF k, d
  <2>5. Number(year, month, d) = n
    BY <2>1, <2>2, <2>3, <2>4
  <2> QED BY <2>5 DEF d
<1> QED BY <1>3, <1>5, <1>6, <1>7, <1>8

-----------------------------------------------------------------------------
(* The same by index: the month of a day, and its place in it. *)
LEMMA IndexIs ==
    ASSUME NEW n \in Int
    PROVE  LET k == MonthIndex(n) - 3
           IN  /\ k \in Int /\ First(k) <= n /\ n < First(k + 1)
               /\ Civil(n).d = n - First(k) + 1
PROOF
<1> DEFINE y == Civil(n).y
           m == Civil(n).m
           k == 12 * y + m - 3
<1>1. y \in Int /\ m \in Int /\ Within(y, m, n) /\ Civil(n).d = n - Number(y, m, 1) + 1
  BY CivilIs
<1>2. MonthIndex(n) - 3 = k
  <2>1. MonthIndex(n) = 12 * y + m
    BY DEF MonthIndex
  <2> HIDE DEF y, m
  <2> QED BY <1>1, <2>1
<1> HIDE DEF y, m
<1>3. k \in Int
  BY <1>1
<1>4. Number(y, m, 1) = First(k) /\ Number(y, m + 1, 1) = First(k + 1)
  BY <1>1, <1>3, Begins
<1> QED BY <1>1, <1>2, <1>3, <1>4 DEF Within

LEMMA IndexOf ==
    ASSUME NEW n \in Int, NEW k \in Int, First(k) <= n, n < First(k + 1)
    PROVE  MonthIndex(n) = k + 3 /\ Civil(n).d = n - First(k) + 1
PROOF
<1> DEFINE j == MonthIndex(n) - 3
<1>1. j \in Int /\ First(j) <= n /\ n < First(j + 1) /\ Civil(n).d = n - First(j) + 1 /\ j = MonthIndex(n) - 3
  BY IndexIs
<1>2. MonthIndex(n) \in Int
  <2>1. Civil(n).y \in Int /\ Civil(n).m \in Int
    BY CivilIs
  <2> QED BY <2>1 DEF MonthIndex
<1> HIDE DEF j
<1>3. j + 1 \in Int /\ k + 1 \in Int
  BY <1>1
<1>4. First(j) \in Int /\ First(j + 1) \in Int /\ First(k) \in Int /\ First(k + 1) \in Int
  BY <1>1, <1>3, FirstType
<1>5. j + 1 < k => First(j + 1) < First(k)
  BY <1>1, <1>3, <1>4, Later
<1>6. k + 1 < j => First(k + 1) < First(j)
  BY <1>1, <1>3, <1>4, Later
<1>7. j = k
  BY <1>1, <1>4, <1>5, <1>6
<1> QED BY <1>1, <1>2, <1>7

(* The year and the month from the index. *)
LEMMA YearOf ==
    ASSUME NEW n \in Int, NEW y \in Int, NEW m \in 1..12, MonthIndex(n) = 12 * y + m
    PROVE  Civil(n).y = y /\ Civil(n).m = m
PROOF
<1> DEFINE z == Civil(n).y
           l == Civil(n).m
<1>1. z \in Int /\ l \in 1..12
  BY CivilIs
<1>2. 12 * z + l = 12 * y + m
  BY DEF MonthIndex
<1> HIDE DEF z, l
<1>3. z = y /\ l = m
  BY <1>1, <1>2
<1> QED BY <1>3 DEF z, l

LEMMA MonthEnd ==
    ASSUME NEW n \in Int
    PROVE  IsMonthEnd(n) <=> n + 1 = First((MonthIndex(n) - 3) + 1)
PROOF
<1> DEFINE k == MonthIndex(n) - 3
           j == MonthIndex(n + 1) - 3
<1>1. k \in Int /\ First(k) <= n /\ n < First(k + 1)
  BY IndexIs
<1>2. j \in Int /\ First(j) <= n + 1 /\ n + 1 < First(j + 1) /\ Civil(n + 1).d = (n + 1) - First(j) + 1
  BY IndexIs
<1> HIDE DEF k, j
<1>3. k + 1 \in Int /\ (k + 1) + 1 \in Int /\ n + 1 \in Int
  BY <1>1
<1>4. First(k) \in Int /\ First(k + 1) \in Int /\ First(j) \in Int
  BY <1>1, <1>2, <1>3, FirstType
<1>5. ASSUME IsMonthEnd(n) PROVE n + 1 = First(k + 1)
  <2>1. n + 1 = First(j)
    BY <1>2, <1>4, <1>5 DEF IsMonthEnd
  <2>2. j < k => First(j) < First(k)
    BY <1>1, <1>2, <1>4, Later
  <2>3. k + 1 < j => First(k + 1) < First(j)
    BY <1>1, <1>2, <1>3, <1>4, Later
  <2>4. j = k + 1
    BY <1>1, <1>2, <1>4, <2>1, <2>2, <2>3
  <2> QED BY <2>1, <2>4
<1>6. ASSUME n + 1 = First(k + 1) PROVE IsMonthEnd(n)
  <2>1. First((k + 1) + 1) - First(k + 1) \in 28..31
    BY <1>3, MonthLength
  <2>2. n + 1 < First((k + 1) + 1)
    <3>1. First((k + 1) + 1) \in Int
      BY <1>3, FirstType
    <3> QED BY <1>4, <1>6, <2>1, <3>1
  <2>3. Civil(n + 1).d = (n + 1) - First(k + 1) + 1
    BY <1>3, <1>6, <2>2, <1>4, IndexOf
  <2> QED BY <1>3, <1>6, <2>3 DEF IsMonthEnd
<1> QED BY <1>5, <1>6 DEF k

LEMMA LastDay ==
    ASSUME NEW y \in Int, NEW m \in Int, NEW k \in Int, k = 12 * y + m - 3
    PROVE  lastDayOfMonth(y, m) = First(k + 1) - First(k)
PROOF
<1> DEFINE n == First(k + 1) - 1
<1>1. Number(y, m + 1, 1) = First(k + 1)
  BY Begins
<1>2. First(k) \in Int /\ First(k + 1) \in Int /\ First(k + 1) - First(k) \in 28..31
  BY FirstType, MonthLength
<1>3. n \in Int /\ First(k) <= n /\ n < First(k + 1)
  BY <1>2
<1>4. Civil(n).d = n - First(k) + 1
  BY <1>3, IndexOf
<1> QED BY <1>1, <1>2, <1>4 DEF lastDayOfMonth

-----------------------------------------------------------------------------
(* What PeriodEnds asks of one named day. *)
IsEnd(to, n, l) ==
    /\ Period(to, l) = Period(to, n)
    /\ Period(to, l + Beyond(to)) # Period(to, l)

LEMMA MonthBeginsEnds ==
    ASSUME NEW n \in Int
    PROVE  LET c == Civil(n)
           IN  /\ Number(c.y, c.m, 1) \in Int /\ IsEnd("FirstDayOfMonth", n, Number(c.y, c.m, 1))
               /\ Number(c.y, c.m + 1, c.d) - c.d \in Int
               /\ IsEnd("LastDayOfMonth", n, Number(c.y, c.m + 1, c.d) - c.d)
PROOF
<1> DEFINE y == Civil(n).y
           m == Civil(n).m
           d == Civil(n).d
           k == 12 * y + m - 3
<1>1. y \in Int /\ m \in Int /\ d \in Int /\ MonthIndex(n) = 12 * y + m
  BY CivilIs DEF MonthIndex
<1> HIDE DEF y, m, d
<1>2. k \in Int /\ k + 1 \in Int /\ MonthIndex(n) = k + 3
  BY <1>1
<1>3. /\ Number(y, m, 1) = First(k) /\ First(k) \in Int
      /\ Number(y, m + 1, d) = First(k + 1) + d - 1 /\ First(k + 1) \in Int
  <2>1. Number(y, m, 1) = First(k)
    BY <1>1, <1>2, Begins
  <2>2. 12 * y + (m + 1) - 3 = k + 1 /\ m + 1 \in Int
    BY <1>1
  <2>3. Number(y, m + 1, d) = First(12 * y + (m + 1) - 3) + d - 1
    BY <1>1, <2>2, NumberIs
  <2>4. First(k) \in Int /\ First(k + 1) \in Int
    BY <1>2, FirstType
  <2> QED BY <2>1, <2>2, <2>3, <2>4
<1> HIDE DEF k
<1>4. First(k + 1) - First(k) \in 28..31
  BY <1>2, MonthLength
<1> DEFINE f == First(k)
           l == First(k + 1) - 1
<1>5. f \in Int /\ l \in Int /\ f - 1 \in Int /\ l + 1 \in Int /\ f <= l /\ l < First(k + 1)
  BY <1>3, <1>4
<1>6. MonthIndex(f) = k + 3 /\ MonthIndex(l) = k + 3
  BY <1>2, <1>3, <1>4, <1>5, IndexOf
<1>7. MonthIndex(f - 1) # k + 3
  <2> SUFFICES ASSUME MonthIndex(f - 1) = k + 3 PROVE FALSE
    OBVIOUS
  <2>1. (k + 3) - 3 = k
    BY <1>2
  <2>2. First(k) <= f - 1
    BY <1>5, <2>1, IndexIs
  <2> QED BY <1>3, <2>2
<1>8. MonthIndex(l + 1) # k + 3
  <2> SUFFICES ASSUME MonthIndex(l + 1) = k + 3 PROVE FALSE
    OBVIOUS
  <2>1. (k + 3) - 3 = k
    BY <1>2
  <2>2. l + 1 < First(k + 1)
    BY <1>5, <2>1, IndexIs
  <2> QED BY <1>3, <2>2
<1>9. Number(y, m, 1) = f /\ Number(y, m + 1, d) - d = l
  BY <1>1, <1>3
<1>10. IsEnd("FirstDayOfMonth", n, f)
  <2>1. f + (-1) = f - 1
    BY <1>5
  <2> QED BY <1>2, <1>6, <1>7, <2>1 DEF IsEnd, Period, Beyond
<1>11. IsEnd("LastDayOfMonth", n, l)
  <2> HIDE DEF l
  <2> QED BY <1>2, <1>6, <1>8 DEF IsEnd, Period, Beyond
<1> QED BY <1>5, <1>9, <1>10, <1>11 DEF y, m, d

LEMMA YearBeginsEnds ==
    ASSUME NEW n \in Int
    PROVE  LET y == Civil(n).y
           IN  /\ Number(y, 1, 1) \in Int /\ IsEnd("FirstDayOfYear", n, Number(y, 1, 1))
               /\ Number(y, 12, 31) \in Int /\ IsEnd("LastDayOfYear", n, Number(y, 12, 31))
PROOF
<1> DEFINE y == Civil(n).y
           j == 12 * y + 1 - 3
           k == 12 * y + 12 - 3
<1>1. y \in Int
  BY CivilIs
<1> HIDE DEF y
<1>2. j \in Int /\ k \in Int /\ k + 1 \in Int /\ j - 1 \in Int /\ (j - 1) + 1 = j /\ (k + 1) + 1 \in Int
  BY <1>1
<1>3. Number(y, 1, 1) = First(j) /\ First(j) \in Int /\ First(j - 1) \in Int /\ First(j + 1) \in Int
  <2>1. Number(y, 1, 1) = First(j)
    BY <1>1, <1>2, Begins
  <2>2. j + 1 \in Int
    BY <1>2
  <2> QED BY <1>2, <2>1, <2>2, FirstType
<1>4. Number(y, 12, 31) = First(k) + 30 /\ First(k) \in Int /\ First(k + 1) \in Int
  <2>1. Number(y, 12, 31) = First(12 * y + 12 - 3) + 31 - 1
    BY <1>1, NumberIs
  <2>2. First(k) \in Int /\ First(k + 1) \in Int
    BY <1>2, FirstType
  <2> HIDE DEF k
  <2>3. Number(y, 12, 31) = First(k) + 31 - 1
    BY <2>1 DEF k
  <2> QED BY <2>2, <2>3
<1>5. First(k + 1) - First(k) = 31
  <2>1. k \div 12 = y /\ k % 12 = 9 /\ (k + 1) \div 12 = y /\ (k + 1) % 12 = 10
    BY <1>1
  <2>2. First(k) = 365 * y + (y \div 4) - (y \div 100) + (y \div 400) + 275
    BY <2>1 DEF First
  <2>3. First(k + 1) = 365 * y + (y \div 4) - (y \div 100) + (y \div 400) + 306
    BY <2>1 DEF First
  <2> QED BY <1>1, <2>2, <2>3
<1> DEFINE f == First(j)
           l == First(k) + 30
<1>6. f \in Int /\ f - 1 \in Int /\ l \in Int /\ l + 1 \in Int /\ l = First(k + 1) - 1
  BY <1>3, <1>4, <1>5
<1>7. First(j + 1) - First(j) \in 28..31 /\ First(j) - First(j - 1) \in 28..31
      /\ First((k + 1) + 1) - First(k + 1) \in 28..31 /\ First((k + 1) + 1) \in Int
  <2>1. First(j + 1) - First(j) \in 28..31
    BY <1>2, MonthLength
  <2>2. First((j - 1) + 1) - First(j - 1) \in 28..31
    BY <1>2, MonthLength
  <2>3. First((k + 1) + 1) - First(k + 1) \in 28..31 /\ First((k + 1) + 1) \in Int
    BY <1>2, MonthLength, FirstType
  <2> QED BY <1>2, <2>1, <2>2, <2>3
<1>8. MonthIndex(f) = j + 3
  BY <1>2, <1>3, <1>6, <1>7, IndexOf
<1>9. MonthIndex(f - 1) = (j - 1) + 3
  <2>1. First(j - 1) <= f - 1 /\ f - 1 < First((j - 1) + 1)
    BY <1>2, <1>3, <1>7
  <2> QED BY <1>2, <1>6, <2>1, IndexOf
<1>10. MonthIndex(l) = k + 3
  <2>1. First(k) <= l /\ l < First(k + 1)
    BY <1>4, <1>6
  <2> QED BY <1>2, <1>6, <2>1, IndexOf
<1>11. MonthIndex(l + 1) = (k + 1) + 3
  <2>1. First(k + 1) <= l + 1 /\ l + 1 < First((k + 1) + 1)
    BY <1>4, <1>6, <1>7
  <2> QED BY <1>2, <1>6, <2>1, IndexOf
<1>12. j + 3 = 12 * y + 1 /\ (j - 1) + 3 = 12 * (y - 1) + 12 /\ k + 3 = 12 * y + 12
       /\ (k + 1) + 3 = 12 * (y + 1) + 1 /\ y - 1 \in Int /\ y + 1 \in Int
       /\ y - 1 # y /\ y + 1 # y
  BY <1>1
<1> HIDE DEF f, l, j, k
<1>13. Civil(f).y = y /\ Civil(l).y = y
  BY <1>1, <1>6, <1>8, <1>10, <1>12, YearOf
<1>14. Civil(f - 1).y = y - 1
  <2>1. MonthIndex(f - 1) = 12 * (y - 1) + 12
    BY <1>9, <1>12
  <2> QED BY <1>6, <1>12, <2>1, YearOf
<1>15. Civil(l + 1).y = y + 1
  <2>1. MonthIndex(l + 1) = 12 * (y + 1) + 1
    BY <1>11, <1>12
  <2> QED BY <1>6, <1>12, <2>1, YearOf
<1>16. f + (-1) = f - 1
  BY <1>6
<1>17. IsEnd("FirstDayOfYear", n, f)
  <2>1. Period("FirstDayOfYear", f) = y /\ Period("FirstDayOfYear", n) = y
        /\ Period("FirstDayOfYear", f - 1) = y - 1 /\ Beyond("FirstDayOfYear") = -1
    BY <1>13, <1>14 DEF Period, Beyond, y
  <2> QED BY <1>12, <1>16, <2>1 DEF IsEnd
<1>18. IsEnd("LastDayOfYear", n, l)
  <2>1. Period("LastDayOfYear", l) = y /\ Period("LastDayOfYear", n) = y
        /\ Period("LastDayOfYear", l + 1) = y + 1 /\ Beyond("LastDayOfYear") = 1
    BY <1>13, <1>15 DEF Period, Beyond, y
  <2> QED BY <1>12, <2>1 DEF IsEnd
<1>19. Number(y, 1, 1) = f /\ Number(y, 12, 31) = l
  BY <1>3, <1>4 DEF f, l
<1> QED BY <1>6, <1>17, <1>18, <1>19 DEF y

LEMMA WeekBeginsEnds ==
    ASSUME NEW n \in Int
    PROVE  LET w == Weekday(n)
               f == n + (-w)
               c == n + (IF w = 0 THEN -6 ELSE 1 - w)
               l == n + (6 - w)
           IN  /\ f \in Int /\ IsEnd("FirstDayOfWeek", n, f)
               /\ c \in Int /\ IsEnd("FirstDayOfCNWeek", n, c)
               /\ l \in Int /\ IsEnd("LastDayOfWeek", n, l)
PROOF
<1> DEFINE w == Weekday(n)
           f == n + (-w)
           c == n + (IF w = 0 THEN -6 ELSE 1 - w)
           l == n + (6 - w)
<1>1. w \in 0..6 /\ w = (n + 3) % 7
  BY DEF Weekday
<1> HIDE DEF w
<1>2. f \in Int /\ c \in Int /\ l \in Int
  BY <1>1
<1>3. (f + 3) \div 7 = (n + 3) \div 7 /\ (f + (-1) + 3) \div 7 # (f + 3) \div 7
  BY <1>1
<1>4. (c + 2) \div 7 = (n + 2) \div 7 /\ (c + (-1) + 2) \div 7 # (c + 2) \div 7
  BY <1>1
<1>5. (l + 3) \div 7 = (n + 3) \div 7 /\ (l + 1 + 3) \div 7 # (l + 3) \div 7
  BY <1>1
<1> HIDE DEF f, c, l
<1>6. IsEnd("FirstDayOfWeek", n, f)
  BY <1>3 DEF IsEnd, Period, Beyond
<1>7. IsEnd("FirstDayOfCNWeek", n, c)
  BY <1>4 DEF IsEnd, Period, Beyond
<1>8. IsEnd("LastDayOfWeek", n, l)
  BY <1>5 DEF IsEnd, Period, Beyond
<1> QED BY <1>2, <1>6, <1>7, <1>8 DEF w, f, c, l

-----------------------------------------------------------------------------
(* Division that drops the fraction, of a number put together of fields. *)
Splits(x, b, q, r) ==
    /\ x = q * b + r
    /\ \/ q >= 0 /\ r >= 0 /\ r < b
       \/ q <= 0 /\ r <= 0 /\ -b < r

LEMMA QuotIs ==
    ASSUME NEW b \in Nat \ {0}, NEW q \in Int, NEW r \in Int, NEW x \in Int, Splits(x, b, q, r)
    PROVE  Quot(x, b) = q /\ Rem(x, b) = r
PROOF
<1> USE DEF Splits
<1>1. ASSUME NEW p \in Nat, NEW s \in Nat, s < b
      PROVE  (p * b + s) \div b = p /\ p * b + s \in Nat
  <2> DEFINE z == p * b + s
  <2>1. z \in Nat
    OBVIOUS
  <2> HIDE DEF z
  <2>2. b * (z \div b) + (z % b) = z /\ z \div b \in Int /\ z % b \in 0..b - 1
    BY <2>1
  <2> DEFINE u == z \div b
             e == z % b
  <2>3. u \in Int /\ e \in Nat /\ e < b
    BY <2>2
  <2>4. p * b + s = u * b + e
    BY <2>2 DEF z
  <2> HIDE DEF u, e
  <2>5. z \div b = p
    <3>1. p = u
      BY <1>1, <2>3, <2>4
    <3> QED BY <3>1 DEF u
  <2> QED BY <2>1, <2>5 DEF z
<1>2. CASE q >= 0 /\ r >= 0 /\ r < b
  <2>1. x \div b = q /\ x >= 0
    BY <1>1, <1>2
  <2> QED BY <2>1 DEF Quot, Rem
<1>3. CASE q <= 0 /\ r <= 0 /\ -b < r
  <2>1. -q \in Nat /\ -r \in Nat /\ -r < b /\ -x = (-q) * b + (-r)
    BY <1>3
  <2>2. (-x) \div b = -q /\ -x \in Nat
    BY <1>1, <2>1
  <2>3. Quot(x, b) = q
    <3>1. CASE x >= 0
      <4>1. x = 0
        BY <2>2, <3>1
      <4>2. q * b = 0 /\ q = 0
        BY <1>3, <4>1
      <4> QED BY <2>2, <4>1, <4>2 DEF Quot
    <3>2. CASE ~(x >= 0)
      BY <2>2, <3>2 DEF Quot
    <3> QED BY <3>1, <3>2
  <2> QED BY <2>3 DEF Rem
<1> QED BY <1>2, <1>3

(* A number below b takes less than b of what holds b. *)
LEMMA Carry ==
    ASSUME NEW b \in Nat \ {0}, NEW c \in Nat \ {0}, NEW a \in Int, NEW r \in Int,
           \/ a >= 0 /\ a < b /\ r >= 0 /\ r < c
           \/ a <= 0 /\ -b < a /\ r <= 0 /\ -c < r
    PROVE  \/ a * c + r >= 0 /\ a * c + r < b * c
           \/ a * c + r <= 0 /\ -(b * c) < a * c + r
PROOF
<1>1. ASSUME NEW x \in Nat, NEW s \in Nat, x < b, s < c
      PROVE  x * c + s >= 0 /\ x * c + s < b * c
  <2>1. x * c \in Nat /\ b * c \in Nat
    OBVIOUS
  <2>2. (b - 1 - x) * c \in Nat
    <3>1. b - 1 - x \in Nat
      BY <1>1
    <3> QED BY <3>1
  <2>3. (b - 1 - x) * c = b * c - c - x * c
    OBVIOUS
  <2> QED BY <1>1, <2>1, <2>2, <2>3
<1>2. CASE a >= 0 /\ a < b /\ r >= 0 /\ r < c
  BY <1>1, <1>2
<1>3. CASE a <= 0 /\ -b < a /\ r <= 0 /\ -c < r
  <2>1. -a \in Nat /\ -r \in Nat /\ -a < b /\ -r < c
    BY <1>3
  <2>2. (-a) * c + (-r) >= 0 /\ (-a) * c + (-r) < b * c
    BY <1>1, <2>1
  <2>3. (-a) * c + (-r) = -(a * c + r) /\ a * c + r \in Int /\ b * c \in Int
    OBVIOUS
  <2> QED BY <2>2, <2>3
<1> QED BY <1>2, <1>3

(* Move takes a unit apart into what it was put together from. *)
LEMMA UnitIs ==
    ASSUME NEW u \in Units, OneWay(u)
    PROVE  Years(u.n) = u.y /\ Months(u.n) = u.m /\ Days(u.n) = u.d
PROOF
<1> DEFINE b == Base
           y == u.y
           m == u.m
           d == u.d
<1>1. /\ b \in Nat \ {0} /\ y \in Int /\ m \in Int /\ d \in Int
      /\ u.n = y * (b * b * b) + m * (b * b) + d * b
      /\ Year = b * b * b /\ Month = b * b /\ Day = b
  BY CalendarAssumption DEF Units, Year, Month, Day
<1>2. /\ -b < m /\ m < b /\ -b < d /\ d < b
      /\ y * m >= 0 /\ y * d >= 0 /\ m * d >= 0
  BY DEF OneWay
<1> HIDE DEF b, y, m, d
<1>3. \/ y >= 0 /\ m >= 0 /\ d >= 0
      \/ y <= 0 /\ m <= 0 /\ d <= 0
  <2>1. ASSUME NEW p \in Int, NEW q \in Int, p * q >= 0, p > 0 PROVE q >= 0
    BY <2>1
  <2>2. ASSUME NEW p \in Int, NEW q \in Int, p * q >= 0, p < 0 PROVE q <= 0
    BY <2>2
  <2>3. m * y = y * m /\ d * y = y * d /\ d * m = m * d
    BY <1>1
  <2> QED BY <1>1, <1>2, <2>1, <2>2, <2>3
<1> DEFINE b2 == b * b
           b3 == b * b2
           r == m * b2 + d * b
           s == d * b
<1>4. b2 \in Nat \ {0} /\ b3 \in Nat \ {0} /\ s \in Int /\ r \in Int /\ y * b + m \in Int /\ u.n \in Int
  <2>1. b2 \in Nat \ {0}
    BY <1>1
  <2>2. b3 \in Nat \ {0}
    <3> HIDE DEF b2
    <3> QED BY <1>1, <2>1
  <2>3. s \in Int /\ r \in Int /\ y * b + m \in Int
    <3> HIDE DEF b2
    <3> QED BY <1>1, <2>1
  <2>4. u.n \in Int
    BY DEF Units
  <2> QED BY <2>1, <2>2, <2>3, <2>4
<1>5. /\ Year = b3 /\ Month = b2 /\ Day = b
      /\ u.n = y * b3 + r /\ r = m * b2 + s /\ u.n = (y * b + m) * b2 + s /\ s = d * b + 0
  BY <1>1
<1> HIDE DEF b2, b3, r
<1>6. \/ d >= 0 /\ s >= 0 /\ s < b2
      \/ d <= 0 /\ s <= 0 /\ -b2 < s
  <2>1. \/ d * b + 0 >= 0 /\ d * b + 0 < b * b
        \/ d * b + 0 <= 0 /\ -(b * b) < d * b + 0
    BY <1>1, <1>2, Carry
  <2>2. (d >= 0 => s >= 0) /\ (d <= 0 => s <= 0)
    BY <1>1
  <2>3. d * b + 0 = s /\ b * b = b2
    BY <1>5 DEF b2
  <2> HIDE DEF s
  <2> QED BY <1>1, <1>4, <2>1, <2>2, <2>3
<1> HIDE DEF s
<1>7. \/ y >= 0 /\ m >= 0 /\ d >= 0 /\ s >= 0 /\ s < b2 /\ r >= 0 /\ r < b3
      \/ y <= 0 /\ m <= 0 /\ d <= 0 /\ s <= 0 /\ -b2 < s /\ r <= 0 /\ -b3 < r
  <2>1. CASE y >= 0 /\ m >= 0 /\ d >= 0
    <3>1. s >= 0 /\ s < b2
      BY <1>1, <1>4, <1>5, <1>6, <2>1
    <3>2. ~(m * b2 + s < 0)
      BY <1>1, <1>4, <2>1, <3>1
    <3>3. \/ m * b2 + s >= 0 /\ m * b2 + s < b * b2
          \/ m * b2 + s <= 0 /\ -(b * b2) < m * b2 + s
      BY <1>1, <1>2, <1>4, <2>1, <3>1, Carry
    <3> QED BY <1>4, <1>5, <2>1, <3>1, <3>2, <3>3 DEF b3
  <2>2. CASE y <= 0 /\ m <= 0 /\ d <= 0
    <3>1. s <= 0 /\ -b2 < s
      BY <1>1, <1>4, <1>5, <1>6, <2>2
    <3>2. ~(m * b2 + s > 0)
      BY <1>1, <1>4, <2>2, <3>1
    <3>3. \/ m * b2 + s >= 0 /\ m * b2 + s < b * b2
          \/ m * b2 + s <= 0 /\ -(b * b2) < m * b2 + s
      BY <1>1, <1>2, <1>4, <2>2, <3>1, Carry
    <3> QED BY <1>4, <1>5, <2>2, <3>1, <3>2, <3>3 DEF b3
  <2> QED BY <1>3, <2>1, <2>2
<1>8. Splits(u.n, b3, y, r) /\ Splits(r, b2, m, s) /\ Splits(s, b, d, 0)
  BY <1>1, <1>4, <1>5, <1>7 DEF Splits
<1>9. Splits(u.n, b2, y * b + m, s)
  <2>1. (y >= 0 /\ m >= 0 => y * b + m >= 0) /\ (y <= 0 /\ m <= 0 => y * b + m <= 0)
    BY <1>1
  <2> QED BY <1>5, <1>7, <2>1 DEF Splits
<1>10. Quot(u.n, b3) = y /\ Rem(u.n, b3) = r /\ Quot(r, b2) = m /\ Quot(s, b) = d
  <2>1. Quot(u.n, b3) = y /\ Rem(u.n, b3) = r
    <3>1. b3 \in Nat \ {0} /\ y \in Int /\ r \in Int /\ u.n \in Int /\ Splits(u.n, b3, y, r)
      BY <1>1, <1>4, <1>8
    <3> QED BY <3>1, QuotIs
  <2>2. Quot(r, b2) = m
    <3>1. b2 \in Nat \ {0} /\ m \in Int /\ s \in Int /\ r \in Int /\ Splits(r, b2, m, s)
      BY <1>1, <1>4, <1>8
    <3> QED BY <3>1, QuotIs
  <2>3. Quot(s, b) = d
    <3>1. b \in Nat \ {0} /\ d \in Int /\ 0 \in Int /\ s \in Int /\ Splits(s, b, d, 0)
      BY <1>1, <1>4, <1>8
    <3> QED BY <3>1, QuotIs
  <2> QED BY <2>1, <2>2, <2>3
<1>11. Rem(u.n, b2) = s
  <2>1. b2 \in Nat \ {0} /\ y * b + m \in Int /\ s \in Int /\ u.n \in Int /\ Splits(u.n, b2, y * b + m, s)
    BY <1>4, <1>9
  <2> QED BY <2>1, QuotIs
<1> QED BY <1>5, <1>8, <1>9, <1>10, <1>11 DEF Years, Months, Days, y, m, d

-----------------------------------------------------------------------------
(* What MonthsKept asks of a movement by years, months and days from n that
   lands, but for the days, on l. *)
KeepsMonth(n, years, months, l) ==
    IF years = 0 /\ months = 0 THEN l = n
    ELSE /\ MonthIndex(l) = MonthIndex(n) + 12 * years + months
         /\ IsMonthEnd(n) => IsMonthEnd(l)
         /\ ~IsMonthEnd(n) => \/ Civil(l).d = Civil(n).d
                              \/ IsMonthEnd(l) /\ Civil(l).d < Civil(n).d

(* adjustMonthBoundary lands in the month it aims at, k, on the day it aims at. *)
LEMMA Lands ==
    ASSUME NEW x \in Times, NEW years \in Int, NEW months \in Int, NEW days \in Int
    PROVE  LET j == MonthIndex(x.day) - 3
               k == j + 12 * years + months
               d == Civil(x.day).d
               last == First(k + 1) - First(k)
               aim == IF d = First(j + 1) - First(j) \/ d > last THEN last ELSE d
           IN  adjustMonthBoundary(x, years, months, days) = [x EXCEPT !.day = First(k) + aim - 1 + days]
PROOF
<1> DEFINE n == x.day
           y == Civil(n).y
           m == Civil(n).m
           d == Civil(n).d
           j == MonthIndex(n) - 3
           k == j + 12 * years + months
           last == First(k + 1) - First(k)
           aim == IF d = First(j + 1) - First(j) \/ d > last THEN last ELSE d
           target == 12 * (y + years) + m - 1 + months
           ty == target \div 12
           tm == (target % 12) + 1
<1>1. n \in Int /\ y \in Int /\ m \in Int /\ d \in Int
  <2>1. n \in Int
    BY DEF Times
  <2> HIDE DEF n
  <2> QED BY <2>1, CivilIs
<1>2. MonthIndex(n) = 12 * y + m
  BY DEF MonthIndex
<1> HIDE DEF n, y, m, d
<1>3. j \in Int /\ k \in Int /\ j = 12 * y + m - 3 /\ target \in Int /\ target = k + 2
  BY <1>1, <1>2
<1> HIDE DEF target
<1>4. ty \in Int /\ tm \in Int /\ 12 * ty + tm = target + 1
  BY <1>3
<1> HIDE DEF ty, tm
<1>5. k = 12 * ty + tm - 3
  BY <1>3, <1>4
<1> HIDE DEF j, k
<1>6. lastDayOfMonth(ty, tm) = last /\ lastDayOfMonth(y, m) = First(j + 1) - First(j)
  BY <1>1, <1>3, <1>4, <1>5, LastDay
<1>7. First(k) \in Int /\ First(k + 1) \in Int /\ First(j) \in Int /\ First(j + 1) \in Int
  <2>1. k + 1 \in Int /\ j + 1 \in Int
    BY <1>3
  <2> QED BY <1>3, <2>1, FirstType
<1>8. targetDay(Civil(n), ty, tm) = aim /\ aim \in Int
  <2>1. targetDay(Civil(n), ty, tm) = aim
    BY <1>6 DEF targetDay, y, m, d
  <2>2. aim \in Int
    BY <1>1, <1>7
  <2> QED BY <2>1, <2>2
<1> HIDE DEF aim
<1>9. Number(ty, tm, aim) = First(k) + aim - 1
  <2>1. Number(ty, tm, aim) = First(12 * ty + tm - 3) + aim - 1
    BY <1>4, <1>8, NumberIs
  <2> QED BY <1>5, <2>1
<1>10. adjustMonthBoundary(x, years, months, days) = [x EXCEPT !.day = Number(ty, tm, aim) + days]
  <2>1. adjustMonthBoundary(x, years, months, days)
          = [x EXCEPT !.day = Number(ty, tm, targetDay(Civil(n), ty, tm)) + days]
    BY DEF adjustMonthBoundary, ty, tm, target, n, y, m
  <2> QED BY <1>8, <2>1
<1> QED BY <1>9, <1>10 DEF n, d, j, k, aim

LEMMA AimIsRight ==
    ASSUME NEW n \in Int, NEW years \in Int, NEW months \in Int
    PROVE  LET j == MonthIndex(n) - 3
               k == j + 12 * years + months
               d == Civil(n).d
               last == First(k + 1) - First(k)
               aim == IF d = First(j + 1) - First(j) \/ d > last THEN last ELSE d
           IN  First(k) + aim - 1 \in Int /\ KeepsMonth(n, years, months, First(k) + aim - 1)
PROOF
<1> DEFINE d == Civil(n).d
           j == MonthIndex(n) - 3
           k == j + 12 * years + months
           last == First(k + 1) - First(k)
           aim == IF d = First(j + 1) - First(j) \/ d > last THEN last ELSE d
           l == First(k) + aim - 1
<1>1. j \in Int /\ First(j) <= n /\ n < First(j + 1) /\ d = n - First(j) + 1
  BY IndexIs
<1>2. MonthIndex(n) \in Int /\ d \in Int
  <2>1. Civil(n).y \in Int /\ Civil(n).m \in Int /\ Civil(n).d \in Int
    BY CivilIs
  <2> QED BY <2>1 DEF MonthIndex
<1>3. IsMonthEnd(n) <=> n + 1 = First(j + 1)
  BY MonthEnd
<1>4. j = MonthIndex(n) - 3
  OBVIOUS
<1> HIDE DEF d, j
<1>5. k \in Int /\ j + 1 \in Int /\ k + 1 \in Int /\ k + 3 = MonthIndex(n) + 12 * years + months
  BY <1>1, <1>2, <1>4
<1> HIDE DEF k
<1>6. /\ First(j) \in Int /\ First(j + 1) \in Int /\ First(k) \in Int /\ First(k + 1) \in Int
      /\ last \in 28..31 /\ First(j + 1) - First(j) \in 28..31
  BY <1>1, <1>5, FirstType, MonthLength
<1>7. aim \in 1..last
  BY <1>1, <1>2, <1>6
<1> HIDE DEF aim
<1>8. l \in Int /\ First(k) <= l /\ l < First(k + 1) /\ l - First(k) + 1 = aim
  BY <1>6, <1>7
<1> HIDE DEF l
<1>9. MonthIndex(l) = k + 3 /\ Civil(l).d = aim
  BY <1>5, <1>8, IndexOf
<1>10. IsMonthEnd(l) <=> aim = last
  <2>1. (k + 3) - 3 = k
    BY <1>5
  <2>2. IsMonthEnd(l) <=> l + 1 = First(k + 1)
    BY <1>8, <1>9, <2>1, MonthEnd
  <2> QED BY <1>6, <1>7, <1>8, <2>2
<1>11. IsMonthEnd(n) <=> d = First(j + 1) - First(j)
  BY <1>1, <1>3, <1>6
<1>12. CASE years = 0 /\ months = 0
  <2>1. k = j
    BY <1>1, <1>12 DEF k
  <2>2. aim = d
    BY <1>1, <1>6, <2>1 DEF aim
  <2>3. l = n
    BY <1>1, <1>6, <1>8, <2>1, <2>2
  <2> QED BY <1>8, <1>12, <2>3 DEF KeepsMonth, l, k, j, d, aim
<1>13. CASE ~(years = 0 /\ months = 0)
  <2>1. IsMonthEnd(n) => IsMonthEnd(l)
    BY <1>10, <1>11 DEF aim
  <2>2. ASSUME ~IsMonthEnd(n) PROVE Civil(l).d = d \/ (IsMonthEnd(l) /\ Civil(l).d < d)
    BY <1>6, <1>9, <1>10, <1>11, <2>2 DEF aim
  <2>3. KeepsMonth(n, years, months, l)
    BY <1>5, <1>9, <1>13, <2>1, <2>2 DEF KeepsMonth, d
  <2> QED BY <1>8, <2>3 DEF l, k, j, d, aim
<1> QED BY <1>12, <1>13

(* A unit that goes one way keeps the month, and then adds its days. *)
LEMMA UnitKeepsMonth ==
    ASSUME NEW u \in Units, OneWay(u), NEW x \in Times
    PROVE  /\ ByUnit(x, u.n) \in Times
           /\ KeepsMonth(x.day, u.y, u.m, ByUnit(x, u.n).day - u.d)
PROOF
<1>1. Years(u.n) = u.y /\ Months(u.n) = u.m /\ Days(u.n) = u.d
  BY UnitIs
<1>2. u.y \in Int /\ u.m \in Int /\ u.d \in Int /\ x.day \in Int
  BY DEF Units, Times
<1>3. CASE u.y = 0 /\ u.m = 0 /\ u.d = 0
  <2>1. ByUnit(x, u.n) = x
    BY <1>1, <1>3 DEF ByUnit
  <2>2. x.day - u.d = x.day
    BY <1>2, <1>3
  <2> QED BY <1>3, <2>1, <2>2 DEF KeepsMonth
<1>4. CASE ~(u.y = 0 /\ u.m = 0 /\ u.d = 0)
  <2> DEFINE n == x.day
             j == MonthIndex(n) - 3
             k == j + 12 * u.y + u.m
             d == Civil(n).d
             last == First(k + 1) - First(k)
             aim == IF d = First(j + 1) - First(j) \/ d > last THEN last ELSE d
             l == First(k) + aim - 1
  <2>1. ByUnit(x, u.n) = adjustMonthBoundary(x, u.y, u.m, u.d)
    BY <1>1, <1>4 DEF ByUnit
  <2>2. adjustMonthBoundary(x, u.y, u.m, u.d) = [x EXCEPT !.day = l + u.d]
    BY <1>2, Lands
  <2>3. l \in Int /\ KeepsMonth(n, u.y, u.m, l)
    BY <1>2, AimIsRight
  <2> HIDE DEF l
  <2>4. /\ [x EXCEPT !.day = l + u.d] \in Times
        /\ [x EXCEPT !.day = l + u.d].day = l + u.d
    BY <1>2, <2>3 DEF Times
  <2>5. (l + u.d) - u.d = l
    BY <1>2, <2>3
  <2> QED BY <2>1, <2>2, <2>3, <2>4, <2>5
<1> QED BY <1>3, <1>4

-----------------------------------------------------------------------------
(* The movements, by what they make of a time. *)
ToNames == {"FirstDayOfMonth", "LastDayOfMonth", "FirstDayOfYear", "LastDayOfYear",
            "FirstDayOfWeek", "LastDayOfWeek", "FirstDayOfCNWeek", "LastDayOfCNWeek"}

LEMMA NamedDay ==
    ASSUME NEW x \in Times, NEW to \in ToNames
    PROVE  /\ ToDay(x, to) \in Times /\ ToDay(x, to).clock = x.clock
           /\ to # "LastDayOfCNWeek" => IsEnd(to, x.day, ToDay(x, to).day)
PROOF
<1> DEFINE n == x.day
           c == Civil(n)
           w == Weekday(n)
<1>1. n \in Int
  BY DEF Times
<1>2. ASSUME NEW day \in Int
      PROVE  /\ [x EXCEPT !.day = day] \in Times /\ [x EXCEPT !.day = day].day = day
             /\ [x EXCEPT !.day = day].clock = x.clock
  BY DEF Times
<1>3. ASSUME NEW days
      PROVE  AddDays(x, days) = [x EXCEPT !.day = n + days]
  BY DEF AddDays
<1>4. ASSUME NEW day \in Int, to # "LastDayOfCNWeek" => IsEnd(to, n, day),
             ToDay(x, to) = [x EXCEPT !.day = day]
      PROVE  /\ ToDay(x, to) \in Times /\ ToDay(x, to).clock = x.clock
             /\ to # "LastDayOfCNWeek" => IsEnd(to, n, ToDay(x, to).day)
  BY <1>2, <1>4
<1>5. CASE to = "FirstDayOfMonth"
  <2>1. ToDay(x, to) = [x EXCEPT !.day = Number(c.y, c.m, 1)]
    BY <1>5 DEF ToDay
  <2>2. Number(c.y, c.m, 1) \in Int /\ IsEnd(to, n, Number(c.y, c.m, 1))
    BY <1>1, <1>5, MonthBeginsEnds
  <2> QED BY <1>4, <2>1, <2>2
<1>6. CASE to = "LastDayOfMonth"
  <2>1. ToDay(x, to) = [x EXCEPT !.day = Number(c.y, c.m + 1, c.d) - c.d]
    BY <1>6 DEF ToDay
  <2>2. /\ Number(c.y, c.m + 1, c.d) - c.d \in Int
        /\ IsEnd(to, n, Number(c.y, c.m + 1, c.d) - c.d)
    BY <1>1, <1>6, MonthBeginsEnds
  <2> QED BY <1>4, <2>1, <2>2
<1>7. CASE to = "FirstDayOfYear"
  <2>1. ToDay(x, to) = [x EXCEPT !.day = Number(c.y, 1, 1)]
    BY <1>7 DEF ToDay
  <2>2. Number(c.y, 1, 1) \in Int /\ IsEnd(to, n, Number(c.y, 1, 1))
    BY <1>1, <1>7, YearBeginsEnds
  <2> QED BY <1>4, <2>1, <2>2
<1>8. CASE to = "LastDayOfYear"
  <2>1. ToDay(x, to) = [x EXCEPT !.day = Number(c.y, 12, 31)]
    BY <1>8 DEF ToDay
  <2>2. Number(c.y, 12, 31) \in Int /\ IsEnd(to, n, Number(c.y, 12, 31))
    BY <1>1, <1>8, YearBeginsEnds
  <2> QED BY <1>4, <2>1, <2>2
<1>9. CASE to = "FirstDayOfWeek"
  <2>1. ToDay(x, to) = [x EXCEPT !.day = n + (-w)]
    BY <1>3, <1>9 DEF ToDay
  <2>2. n + (-w) \in Int /\ IsEnd(to, n, n + (-w))
    BY <1>1, <1>9, WeekBeginsEnds
  <2> QED BY <1>4, <2>1, <2>2
<1>10. CASE to = "FirstDayOfCNWeek"
  <2> DEFINE days == IF w = 0 THEN -6 ELSE 1 - w
  <2>1. ToDay(x, to) = [x EXCEPT !.day = n + days]
    BY <1>3, <1>10 DEF ToDay
  <2>2. n + days \in Int /\ IsEnd(to, n, n + days)
    BY <1>1, <1>10, WeekBeginsEnds
  <2> QED BY <1>4, <2>1, <2>2
<1>11. CASE to \in {"LastDayOfWeek", "LastDayOfCNWeek"}
  <2>1. ToDay(x, to) = [x EXCEPT !.day = n + (6 - w)]
    BY <1>3, <1>11 DEF ToDay
  <2>2. n + (6 - w) \in Int /\ (to # "LastDayOfCNWeek" => IsEnd(to, n, n + (6 - w)))
    BY <1>1, <1>11, WeekBeginsEnds
  <2> QED BY <1>4, <2>1, <2>2
<1> QED BY <1>5, <1>6, <1>7, <1>8, <1>9, <1>10, <1>11 DEF ToNames

LEMMA UnitType ==
    ASSUME NEW x \in Times, NEW n \in Int
    PROVE  ByUnit(x, n) \in Times
PROOF
<1>1. ASSUME NEW a \in Int, NEW b \in Nat \ {0}
      PROVE  Quot(a, b) \in Int /\ Rem(a, b) \in Int
  <2>1. Quot(a, b) \in Int
    <3>1. a \div b \in Int /\ (-a) \div b \in Int
      OBVIOUS
    <3> QED BY <3>1 DEF Quot
  <2> QED BY <2>1 DEF Rem
<1>2. Year \in Nat \ {0} /\ Month \in Nat \ {0} /\ Day \in Nat \ {0}
  <2>1. Day \in Nat \ {0} /\ Month \in Nat \ {0}
    BY CalendarAssumption DEF Month, Day
  <2>2. Year = Month * Day
    BY DEF Year, Month, Day
  <2> QED BY <2>1, <2>2
<1> DEFINE years == Years(n)
           months == Months(n)
           days == Days(n)
<1>3. years \in Int /\ months \in Int /\ days \in Int
  BY <1>1, <1>2 DEF Years, Months, Days
<1> HIDE DEF years, months, days
<1>4. adjustMonthBoundary(x, years, months, days) \in Times
  <2> DEFINE m == x.day
             j == MonthIndex(m) - 3
             k == j + 12 * years + months
             d == Civil(m).d
             last == First(k + 1) - First(k)
             aim == IF d = First(j + 1) - First(j) \/ d > last THEN last ELSE d
             l == First(k) + aim - 1
  <2>1. adjustMonthBoundary(x, years, months, days) = [x EXCEPT !.day = l + days]
    BY <1>3, Lands
  <2>2. m \in Int
    BY DEF Times
  <2>3. l \in Int
    BY <1>3, <2>2, AimIsRight
  <2> HIDE DEF l
  <2>4. [x EXCEPT !.day = l + days] \in Times
    BY <1>3, <2>3 DEF Times
  <2> QED BY <2>1, <2>4
<1> QED BY <1>4 DEF ByUnit, years, months, days

Applied(m, x) ==
    CASE m.kind = "unit" -> ByUnit(x, m.n)
      [] m.kind = "span" -> Add(x, m.span)
      [] m.kind = "to"   -> ToDay(x, m.to)
      [] OTHER -> x

LEMMA AppliedType ==
    ASSUME NEW m \in Movements, NEW x \in Times
    PROVE  Applied(m, x) \in Times
PROOF
<1>1. CASE m \in Units
  <2>1. m.kind = "unit" /\ m.n \in Int
    BY <1>1 DEF Units
  <2> QED BY <2>1, UnitType DEF Applied
<1>2. CASE m \in Spans
  <2>1. m.kind = "span" /\ m.span \in Int
    BY <1>2 DEF Spans
  <2>2. x.day \in Int /\ x.clock \in Int
    BY DEF Times
  <2>3. (x.clock + m.span) \div Ticks \in Int /\ (x.clock + m.span) % Ticks \in Int
    <3> DEFINE sum == x.clock + m.span
               ticks == Ticks
    <3>1. sum \in Int /\ ticks \in Nat \ {0}
      BY <2>1, <2>2, CalendarAssumption
    <3> HIDE DEF sum, ticks
    <3>2. sum \div ticks \in Int /\ sum % ticks \in Int
      BY <3>1
    <3> QED BY <3>2 DEF sum, ticks
  <2>4. Add(x, m.span) \in Times
    <3> DEFINE days == (x.clock + m.span) \div Ticks
               clock == (x.clock + m.span) % Ticks
    <3>1. Add(x, m.span) = [x EXCEPT !.day = x.day + days, !.clock = clock]
      BY DEF Add
    <3>2. days \in Int /\ clock \in Int
      BY <2>3
    <3> HIDE DEF days, clock
    <3>3. ASSUME NEW day \in Int PROVE [x EXCEPT !.day = day, !.clock = clock] \in Times
      <4>1. [x EXCEPT !.day = day] \in Times
        BY DEF Times
      <4>2. \A y \in Times : [y EXCEPT !.clock = clock] \in Times
        BY <3>2 DEF Times
      <4> QED BY <4>1, <4>2
    <3>4. x.day + days \in Int
      BY <2>2, <3>2
    <3> QED BY <3>1, <3>3, <3>4
  <2> QED BY <2>1, <2>4 DEF Applied
<1>3. CASE m \in NamedDays
  <2>1. m.kind = "to" /\ m.to \in ToNames
    BY <1>3 DEF NamedDays, ToNames
  <2> QED BY <2>1, NamedDay DEF Applied
<1>4. CASE m \in Flags
  BY <1>4 DEF Applied, Flags
<1> QED BY <1>1, <1>2, <1>3, <1>4, TickAssumption

-----------------------------------------------------------------------------
(* The layouts that read what they write. *)
DayLayouts == {"compactDay", "day", "slashDay", "usDay"}
MinuteLayouts == {"minute", "slashMinute"}
SecondLayouts == {"compact", "second", "slashSecond", "tSecond"}
Plain == {"year"} \cup DayLayouts \cup MinuteLayouts \cup SecondLayouts
Own == Plain \cup {"zulu", "rfc3339", "nano"}

(* What guess tries for texts of each length. *)
LEMMA Tried ==
    /\ Formats(4) = <<"year">> /\ Formats(8) = <<"compactDay">> /\ Formats(14) = <<"compact">>
    /\ Formats(10) = <<"day", "slashDay", "usDay">> /\ Formats(16) = <<"minute", "slashMinute">>
    /\ Formats(19) = <<"second", "slashSecond", "tSecond">> /\ Formats(20) = <<"zulu">>
    /\ \A n \in {22, 23} : Formats(n) = <<"rfc850", "rfc1123">>
    /\ \A n \in {24, 25} : Formats(n) = <<"rfc3339", "rfc1123z">>
    /\ \A n \in 28..30 : Formats(n) = <<"nano">>
    /\ \A n \in Int : n \notin {4, 8, 10, 14, 16, 19, 20, 22, 23, 24, 25} \cup 28..30 => Formats(n) = <<>>
PROOF
<1>1. Formats(4) = <<"year">> /\ Formats(8) = <<"compactDay">> /\ Formats(14) = <<"compact">>
  BY DEF Formats
<1>2. Formats(10) = <<"day", "slashDay", "usDay">> /\ Formats(16) = <<"minute", "slashMinute">>
  BY DEF Formats
<1>3. Formats(19) = <<"second", "slashSecond", "tSecond">> /\ Formats(20) = <<"zulu">>
  BY DEF Formats
<1>4. \A n \in {22, 23} : Formats(n) = <<"rfc850", "rfc1123">>
  BY DEF Formats
<1>5. \A n \in {24, 25} : Formats(n) = <<"rfc3339", "rfc1123z">>
  BY DEF Formats
<1>6. \A n \in 28..30 : Formats(n) = <<"nano">>
  BY DEF Formats
<1>7. \A n \in Int : n \notin {4, 8, 10, 14, 16, 19, 20, 22, 23, 24, 25} \cup 28..30 => Formats(n) = <<>>
  BY DEF Formats
<1> QED BY <1>1, <1>2, <1>3, <1>4, <1>5, <1>6, <1>7

LEMMA TriedDomain ==
    ASSUME NEW n \in Int
    PROVE  DOMAIN Formats(n) \subseteq {1, 2, 3}
PROOF
<1>1. CASE n \in {4, 8, 14, 20} \cup 28..30
  BY <1>1, Tried
<1>2. CASE n \in {16, 22, 23, 24, 25}
  BY <1>2, Tried
<1>3. CASE n \in {10, 19}
  BY <1>3, Tried
<1>4. CASE n \notin {4, 8, 10, 14, 16, 19, 20, 22, 23, 24, 25} \cup 28..30
  <2>1. Formats(n) = <<>>
    BY <1>4, Tried
  <2> QED BY <2>1
<1> QED BY <1>1, <1>2, <1>3, <1>4

(* The layout guess settles on is one it tries and that fits, if there is one. *)
LEMMA LayoutTried ==
    ASSUME NEW text, TextLen(text) \in Int, NEW tried, tried = Formats(TextLen(text))
    PROVE  IF \E j \in DOMAIN tried : Parses(tried[j], text)
           THEN \E j \in DOMAIN tried : Parses(tried[j], text) /\ Layout(text) = tried[j]
           ELSE Layout(text) = "none"
PROOF
<1> DEFINE fits == {j \in DOMAIN tried : Parses(tried[j], text)}
<1>1. Layout(text) = IF fits = {} THEN "none" ELSE tried[CHOOSE j \in fits : \A i \in fits : j <= i]
  BY DEF Layout
<1>2. fits \subseteq {1, 2, 3}
  BY TriedDomain
<1>3. fits # {} => \E j \in fits : \A i \in fits : j <= i
  <2> HIDE DEF fits
  <2>1. CASE 1 \in fits
    BY <1>2, <2>1
  <2>2. CASE 1 \notin fits /\ 2 \in fits
    BY <1>2, <2>2
  <2>3. CASE 1 \notin fits /\ 2 \notin fits
    <3>1. fits = {} \/ fits = {3}
      BY <1>2, <2>3
    <3> QED BY <3>1
  <2> QED BY <2>1, <2>2, <2>3
<1>4. fits # {} => (CHOOSE j \in fits : \A i \in fits : j <= i) \in fits
  BY <1>3
<1>5. fits # {} <=> \E j \in DOMAIN tried : Parses(tried[j], text)
  OBVIOUS
<1>6. \A j \in fits : j \in DOMAIN tried /\ Parses(tried[j], text)
  OBVIOUS
<1> HIDE DEF fits
<1> QED BY <1>1, <1>4, <1>5, <1>6

LEMMA TextLenIs ==
    ASSUME NEW text, text.decimals \in Nat
    PROVE  /\ TextLen(text) \in Int
           /\ text.how = "year" => TextLen(text) = 4
           /\ text.how = "compactDay" => TextLen(text) = 8
           /\ text.how \in {"day", "slashDay", "usDay"} => TextLen(text) = 10
           /\ text.how = "compact" => TextLen(text) = 14
           /\ text.how \in MinuteLayouts => TextLen(text) = 16
           /\ text.how \in {"second", "slashSecond", "tSecond"} => TextLen(text) = 19
           /\ text.how = "zulu" =>
                TextLen(text) = 20 + (IF text.decimals > 0 THEN 1 + text.decimals ELSE 0)
           /\ text.how = "offset" =>
                TextLen(text) = 25 + (IF text.decimals > 0 THEN 1 + text.decimals ELSE 0)
           /\ text.how = "rfc1123" => TextLen(text) = 29
           /\ text.how \in {"rfc850", "rfc1123z"} => TextLen(text) = 0
PROOF
<1> DEFINE point == IF text.decimals > 0 THEN 1 + text.decimals ELSE 0
<1>1. point \in Int
  OBVIOUS
<1> HIDE DEF point
<1>2. TextLen(text) =
        CASE text.how = "year" -> 4
          [] text.how = "compactDay" -> 8
          [] text.how \in {"day", "slashDay", "usDay"} -> 10
          [] text.how = "compact" -> 14
          [] text.how \in {"minute", "slashMinute"} -> 16
          [] text.how \in {"second", "slashSecond", "tSecond"} -> 19
          [] text.how = "zulu" -> 20 + point
          [] text.how = "offset" -> 25 + point
          [] text.how = "rfc1123" -> 29
          [] OTHER -> 0
  BY DEF TextLen, point
<1> QED BY <1>1, <1>2 DEF MinuteLayouts, point

(* A plain text is read in the layout it is written in. *)
LEMMA PlainLayout ==
    ASSUME NEW text, text.decimals \in Nat, FourDigits(text.time), text.how \in Plain
    PROVE  Layout(text) = text.how
PROOF
<1> DEFINE tried == Formats(TextLen(text))
<1>1. \E j \in DOMAIN tried : tried[j] = text.how
  <2>1. CASE text.how \in {"year", "compactDay", "compact"}
    <3>1. tried = <<text.how>>
      BY <2>1, TextLenIs, Tried
    <3> QED BY <3>1
  <2>2. CASE text.how \in MinuteLayouts
    <3>1. tried = <<"minute", "slashMinute">>
      BY <2>2, TextLenIs, Tried
    <3> QED BY <2>2, <3>1 DEF MinuteLayouts
  <2>3. CASE text.how \in {"day", "slashDay", "usDay"}
    <3>1. tried = <<"day", "slashDay", "usDay">>
      BY <2>3, TextLenIs, Tried
    <3> QED BY <2>3, <3>1
  <2>4. CASE text.how \in {"second", "slashSecond", "tSecond"}
    <3>1. tried = <<"second", "slashSecond", "tSecond">>
      BY <2>4, TextLenIs, Tried
    <3> QED BY <2>4, <3>1
  <2> QED BY <2>1, <2>2, <2>3, <2>4 DEF Plain, DayLayouts, MinuteLayouts, SecondLayouts
<1>2. \A l : Parses(l, text) <=> l = text.how
  BY DEF Parses, Plain, DayLayouts, MinuteLayouts, SecondLayouts
<1>3. TextLen(text) \in Int
  BY TextLenIs
<1> HIDE DEF tried
<1> QED BY <1>1, <1>2, <1>3, LayoutTried DEF tried

(* A text of RFC 3339 is read in one of three layouts, by its length, or in none. *)
LEMMA RfcLayout ==
    ASSUME NEW text, text.decimals \in Nat, FourDigits(text.time), text.how \in {"zulu", "offset"}
    PROVE  /\ text.decimals = 0 => Layout(text) = IF text.how = "zulu" THEN "zulu" ELSE "rfc3339"
           /\ TextLen(text) \in 28..30 => Layout(text) = "nano"
           /\ text.decimals > 0 /\ TextLen(text) \notin 28..30 => Layout(text) \in {"rfc3339", "none"}
PROOF
<1> DEFINE n == TextLen(text)
           tried == Formats(n)
<1>1. n \in Int /\ n = (IF text.how = "zulu" THEN 20 ELSE 25) + (IF text.decimals > 0 THEN 1 + text.decimals ELSE 0)
  BY TextLenIs
<1>2. \A l : Parses(l, text) <=> l = text.how \/ l \in {"rfc3339", "nano"}
  BY DEF Parses
<1>3. ~Parses("rfc1123z", text) /\ ~Parses("rfc850", text) /\ ~Parses("rfc1123", text)
  BY <1>2
<1>4. CASE text.decimals = 0
  <2>1. CASE text.how = "zulu"
    <3>1. tried = <<"zulu">>
      BY <1>1, <1>4, <2>1, Tried
    <3>2. DOMAIN tried = {1} /\ tried[1] = "zulu"
      BY <3>1
    <3> HIDE DEF tried
    <3> QED BY <1>1, <1>2, <1>4, <2>1, <3>2, LayoutTried DEF tried
  <2>2. CASE text.how = "offset"
    <3>1. tried = <<"rfc3339", "rfc1123z">>
      BY <1>1, <1>4, <2>2, Tried
    <3>2. DOMAIN tried = {1, 2} /\ tried[1] = "rfc3339" /\ tried[2] = "rfc1123z"
      BY <3>1
    <3> HIDE DEF tried
    <3> QED BY <1>1, <1>2, <1>3, <1>4, <2>2, <3>2, LayoutTried DEF tried
  <2> QED BY <2>1, <2>2
<1>5. CASE n \in 28..30
  <2>1. tried = <<"nano">>
    BY <1>5, Tried
  <2>2. DOMAIN tried = {1} /\ tried[1] = "nano"
    BY <2>1
  <2>3. text.decimals # 0
    BY <1>1, <1>5
  <2>4. Layout(text) = "nano"
    <3> HIDE DEF tried
    <3> QED BY <1>1, <1>2, <2>2, LayoutTried DEF tried
  <2> QED BY <1>5, <2>3, <2>4
<1>6. CASE text.decimals > 0 /\ n \notin 28..30
  <2>1. n \notin {4, 8, 10, 14, 16, 19, 20}
    BY <1>1, <1>6
  <2>2. CASE n \in {22, 23}
    <3>1. tried = <<"rfc850", "rfc1123">>
      BY <2>2, Tried
    <3>2. DOMAIN tried = {1, 2} /\ tried[1] = "rfc850" /\ tried[2] = "rfc1123"
      BY <3>1
    <3> HIDE DEF tried
    <3> QED BY <1>1, <1>3, <1>6, <3>2, LayoutTried DEF tried
  <2>3. CASE n \in {24, 25}
    <3>1. tried = <<"rfc3339", "rfc1123z">>
      BY <2>3, Tried
    <3>2. DOMAIN tried = {1, 2} /\ tried[1] = "rfc3339" /\ tried[2] = "rfc1123z"
      BY <3>1
    <3> HIDE DEF tried
    <3> QED BY <1>1, <1>3, <1>6, <3>2, LayoutTried DEF tried
  <2>4. CASE n \notin {22, 23, 24, 25}
    <3>1. tried = <<>>
      BY <1>1, <1>6, <2>1, <2>4, Tried
    <3>2. DOMAIN tried = {}
      BY <3>1
    <3> HIDE DEF tried
    <3> QED BY <1>1, <1>6, <3>2, LayoutTried DEF tried
  <2> QED BY <2>2, <2>3, <2>4
<1> QED BY <1>4, <1>5, <1>6

(* Whatever guess reads, it reads in one of these layouts. *)
LEMMA LayoutIs ==
    ASSUME NEW text, text.decimals \in Nat, Guessed(text)
    PROVE  Layout(text) \in Own
PROOF
<1> DEFINE n == TextLen(text)
           tried == Formats(n)
<1>1. n \in Int
  BY TextLenIs
<1>2. PICK j \in DOMAIN tried : Parses(tried[j], text) /\ Layout(text) = tried[j]
  <2> HIDE DEF n
  <2> QED BY <1>1, LayoutTried DEF Guessed, n
<1>3. CASE n \in {22, 23, 24, 25}
  <2>1. tried[j] \in {"rfc850", "rfc1123", "rfc1123z", "rfc3339"}
    <3>1. CASE n \in {22, 23}
      BY <1>2, <3>1, Tried
    <3>2. CASE n \in {24, 25}
      BY <1>2, <3>2, Tried
    <3> QED BY <1>3, <3>1, <3>2
  <2>2. tried[j] # "rfc3339" => text.how = tried[j]
    BY <1>2, <2>1 DEF Parses
  <2>3. text.how \notin {"rfc850", "rfc1123", "rfc1123z"}
    BY <1>3, TextLenIs
  <2>4. tried[j] = "rfc3339"
    BY <2>1, <2>2, <2>3
  <2> QED BY <1>2, <2>4 DEF Own
<1>4. CASE n \in {4, 8, 14, 20} \cup 28..30
  <2>1. tried[j] \in {"year", "compactDay", "compact", "zulu", "nano"}
    BY <1>2, <1>4, Tried
  <2> QED BY <1>2, <2>1 DEF Own, Plain, DayLayouts, SecondLayouts
<1>5. CASE n \in {10, 16, 19}
  <2>1. tried[j] \in {"day", "slashDay", "usDay", "minute", "slashMinute", "second", "slashSecond", "tSecond"}
    <3>1. CASE n = 10
      BY <1>2, <3>1, Tried
    <3>2. CASE n = 16
      BY <1>2, <3>2, Tried
    <3>3. CASE n = 19
      BY <1>2, <3>3, Tried
    <3> QED BY <1>5, <3>1, <3>2, <3>3
  <2> QED BY <1>2, <2>1 DEF Own, Plain, DayLayouts, MinuteLayouts, SecondLayouts
<1>6. CASE n \notin {4, 8, 10, 14, 16, 19, 20, 22, 23, 24, 25} \cup 28..30
  <2>1. tried = <<>>
    BY <1>1, <1>6, Tried
  <2> QED BY <1>2, <2>1
<1> QED BY <1>3, <1>4, <1>5, <1>6

(* Any number is a quotient and a remainder. *)
LEMMA Division ==
    ASSUME NEW a \in Int, NEW b \in Int, b > 0
    PROVE  a % b \in 0..b - 1 /\ a \div b \in Int /\ a = b * (a \div b) + (a % b)
  OBVIOUS

(* What is left of a time without what is smaller than a unit has nothing smaller. *)
LEMMA WholeIs ==
    ASSUME NEW x \in Times, NEW unit \in Nat \ {0}, NEW zone \in Int
    PROVE  LET w == Whole(x, unit, zone)
           IN  /\ w \in Times /\ w.day = x.day /\ w.zone = zone
               /\ Whole(w, unit, zone) = w
PROOF
<1> DEFINE c == x.clock - (x.clock % unit)
           w == Whole(x, unit, zone)
<1>1. x.clock \in Int /\ x.day \in Int
  BY DEF Times
<1>2. c \in Int /\ c % unit = 0
  <2>1. /\ x.clock % unit \in 0..unit - 1 /\ x.clock \div unit \in Int
        /\ x.clock = unit * (x.clock \div unit) + (x.clock % unit)
    <3>1. x.clock \in Int /\ unit \in Int /\ unit > 0
      BY <1>1
    <3> QED BY ONLY <3>1, Division
  <2> DEFINE q == x.clock \div unit
             r == x.clock % unit
  <2>2. q \in Int /\ r \in Int /\ x.clock = unit * q + r
    BY <2>1
  <2> HIDE DEF q, r
  <2>3. x.clock - r = unit * q /\ x.clock - r \in Int
    BY <1>1, <2>2
  <2>4. (unit * q) % unit = 0
    BY <2>2
  <2> QED BY <2>3, <2>4 DEF r
<1>3. w = Time(x.day, c, zone)
  BY DEF Whole
<1> HIDE DEF c
<1>4. w.day = x.day /\ w.clock = c /\ w.zone = zone /\ w \in Times
  BY <1>1, <1>2, <1>3 DEF Time, Times
<1> HIDE DEF w
<1>5. Whole(w, unit, zone) = Time(w.day, w.clock - (w.clock % unit), zone)
  BY DEF Whole
<1>6. w.clock - (w.clock % unit) = c
  BY <1>2, <1>4
<1> QED BY <1>3, <1>4, <1>5, <1>6 DEF w

(* What is written in a layout is read in one that writes it alike, unless it has
   a fraction of a second and not the length of RFC3339Nano. *)
ComesBack(v) == Guessed(v) /\ Format(Layout(v), v.time) = v

LEMMA ReadsAsWritten ==
    ASSUME NEW layout \in Own, NEW x \in Times, FourDigits(Format(layout, x).time)
    PROVE  LET v == Format(layout, x)
           IN  ComesBack(v) <=> v.decimals = 0 \/ TextLen(v) \in 28..30
PROOF
<1> DEFINE v == Format(layout, x)
<1>1. x.day \in Int /\ x.clock \in Int /\ x.zone \in Int /\ x = Time(x.day, x.clock, x.zone)
  BY DEF Times, Time
<1>2. Second \in Nat \ {0} /\ Minute \in Nat \ {0} /\ Ticks \in Nat \ {0}
  BY CalendarAssumption
<1>3. ASSUME NEW l \in Own, NEW how, NEW k, NEW time, v = Text(how, k, time), Layout(v) = l, Format(l, time) = v
      PROVE  ComesBack(v)
  <2>1. v.time = time
    BY <1>3 DEF Text
  <2> HIDE DEF v
  <2>2. l # "none"
    BY DEF Own, Plain, DayLayouts, MinuteLayouts, SecondLayouts
  <2> QED BY <1>3, <2>1, <2>2 DEF Guessed, ComesBack
<1>4. ASSUME NEW how \in Plain, NEW time, v = Text(how, 0, time), Format(how, time) = v
      PROVE  ComesBack(v) /\ v.decimals = 0
  <2>1. v.how = how /\ v.time = time /\ v.decimals = 0
    BY <1>4 DEF Text
  <2> HIDE DEF v
  <2>2. Layout(v) = how
    BY <2>1, PlainLayout DEF v
  <2>3. how \in Own
    BY DEF Own
  <2> QED BY <1>3, <1>4, <2>1, <2>2, <2>3
<1>5. ASSUME NEW time \in Times, v = Rfc3339(0, time), Whole(time, Second, time.zone) = time
      PROVE  ComesBack(v) /\ v.decimals = 0
  <2>1. CASE time.zone = 0
    <3>1. v = Text("zulu", 0, time)
      BY <1>5, <2>1 DEF Rfc3339
    <3>2. v.how = "zulu" /\ v.decimals = 0
      BY <3>1 DEF Text
    <3>3. Format("zulu", time) = Text("zulu", 0, Whole(time, Second, 0))
      BY DEF Format
    <3>4. Format("zulu", time) = v
      BY <1>5, <2>1, <3>1, <3>3
    <3> HIDE DEF v
    <3>5. Layout(v) = "zulu" /\ "zulu" \in Own
      BY <3>2, RfcLayout DEF v, Own
    <3> QED BY <1>3, <3>1, <3>2, <3>4, <3>5
  <2>2. CASE time.zone # 0
    <3>1. v = Text("offset", 0, time)
      BY <1>5, <2>2 DEF Rfc3339
    <3>2. v.how = "offset" /\ v.decimals = 0
      BY <3>1 DEF Text
    <3>3. Format("rfc3339", time) = Rfc3339(0, Whole(time, Second, time.zone))
      BY DEF Format
    <3>4. Format("rfc3339", time) = v
      BY <1>5, <3>3
    <3> HIDE DEF v
    <3>5. Layout(v) = "rfc3339" /\ "rfc3339" \in Own
      BY <3>2, RfcLayout DEF v, Own
    <3> QED BY <1>3, <3>1, <3>2, <3>4, <3>5
  <2> QED BY <2>1, <2>2
<1>6. CASE layout = "year"
  <2> DEFINE f == Number(Civil(x.day).y, 1, 1)
  <2>1. f \in Int /\ Civil(f).y = Civil(x.day).y
    <3>1. f \in Int /\ IsEnd("FirstDayOfYear", x.day, f)
      BY <1>1, YearBeginsEnds
    <3> HIDE DEF f
    <3> QED BY <3>1 DEF IsEnd, Period
  <2>2. v = Text("year", 0, Time(f, 0, 0))
    BY <1>6 DEF Format
  <2>3. Time(f, 0, 0).day = f
    <3> HIDE DEF f
    <3> QED BY <2>1 DEF Time
  <2>4. Format("year", Time(f, 0, 0)) = Text("year", 0, Time(Number(Civil(Time(f, 0, 0).day).y, 1, 1), 0, 0))
    BY DEF Format
  <2>5. Number(Civil(Time(f, 0, 0).day).y, 1, 1) = f
    <3>1. Number(Civil(f).y, 1, 1) = f
      BY <2>1
    <3> QED BY <2>3, <3>1
  <2> HIDE DEF f
  <2>6. "year" \in Plain /\ Format("year", Time(f, 0, 0)) = v
    BY <2>2, <2>4, <2>5 DEF Plain
  <2> QED BY <1>4, <2>2, <2>6
<1>7. ASSUME NEW unit \in Nat \ {0}, layout \in Plain,
             \A y : Format(layout, y) = Text(layout, 0, Whole(y, unit, 0))
      PROVE  ComesBack(v) /\ v.decimals = 0
  <2> DEFINE w == Whole(x, unit, 0)
  <2>1. Whole(w, unit, 0) = w
    BY WholeIs
  <2>2. v = Text(layout, 0, w) /\ Format(layout, w) = v
    BY <1>7, <2>1
  <2> HIDE DEF w
  <2> QED BY <1>4, <1>7, <2>2
<1>8. CASE layout \in DayLayouts
  <2>1. layout \in Plain /\ \A y : Format(layout, y) = Text(layout, 0, Whole(y, Ticks, 0))
    BY <1>8 DEF Format, DayLayouts, Plain
  <2> QED BY <1>2, <1>7, <2>1
<1>9. CASE layout \in MinuteLayouts
  <2>1. layout \in Plain /\ \A y : Format(layout, y) = Text(layout, 0, Whole(y, Minute, 0))
    BY <1>9 DEF Format, MinuteLayouts, Plain
  <2> QED BY <1>2, <1>7, <2>1
<1>10. CASE layout \in SecondLayouts
  <2>1. layout \in Plain /\ \A y : Format(layout, y) = Text(layout, 0, Whole(y, Second, 0))
    BY <1>10 DEF Format, SecondLayouts, Plain
  <2> QED BY <1>2, <1>7, <2>1
<1>11. CASE layout = "zulu"
  <2> DEFINE w == Whole(x, Second, 0)
  <2>1. w \in Times /\ w.zone = 0 /\ Whole(w, Second, 0) = w
    BY <1>2, WholeIs
  <2>2. v = Text("zulu", 0, w)
    BY <1>11 DEF Format
  <2> HIDE DEF w
  <2>3. v = Rfc3339(0, w)
    BY <2>1, <2>2 DEF Rfc3339
  <2> QED BY <1>5, <2>1, <2>3
<1>12. CASE layout = "rfc3339"
  <2> DEFINE w == Whole(x, Second, x.zone)
  <2>1. w \in Times /\ w.zone = x.zone /\ Whole(w, Second, x.zone) = w
    BY <1>1, <1>2, WholeIs
  <2>2. v = Rfc3339(0, w)
    BY <1>12 DEF Format
  <2> HIDE DEF w
  <2> QED BY <1>5, <2>1, <2>2
<1>13. CASE layout = "nano"
  <2> DEFINE k == Fraction(x)
             f == x.clock % Second
             how == IF x.zone = 0 THEN "zulu" ELSE "offset"
  <2>1. f \in 0..Second - 1 /\ k \in 0..9 /\ (k = 0 <=> f = 0)
    <3>1. f \in 0..Second - 1
      BY <1>1, <1>2
    <3> HIDE DEF f
    <3>2. Decimals[f] \in 0..9 /\ (Decimals[f] = 0 <=> f = 0)
      BY <3>1, CalendarAssumption
    <3> QED BY <3>1, <3>2 DEF Fraction, f
  <2>2. v = Rfc3339(k, x)
    BY <1>13 DEF Format
  <2>3. CASE k = 0
    <3>1. Whole(x, Second, x.zone) = x
      <4>1. x.clock - f = x.clock
        <5> HIDE DEF f
        <5> QED BY <1>1, <2>1, <2>3
      <4> QED BY <1>1, <4>1 DEF Whole
    <3> QED BY <1>5, <2>2, <2>3, <3>1
  <2>4. CASE k # 0
    <3> HIDE DEF k
    <3>1. v = Text(how, k, x)
      BY <2>2 DEF Rfc3339
    <3>2. v.how = how /\ v.decimals = k /\ v.time = x
      BY <3>1 DEF Text
    <3>3. how \in {"zulu", "offset"} /\ k \in Nat /\ k > 0
      BY <2>1, <2>4
    <3>4. Format("nano", x) = v
      BY <1>13
    <3> HIDE DEF v, how
    <3>5. CASE TextLen(v) \in 28..30
      <4>1. Layout(v) = "nano" /\ "nano" \in Own
        BY <3>2, <3>3, <3>5, RfcLayout DEF v, Own
      <4> QED BY <1>3, <3>1, <3>4, <3>5, <4>1 DEF v
    <3>6. CASE TextLen(v) \notin 28..30
      <4>1. Layout(v) \in {"rfc3339", "none"}
        BY <3>2, <3>3, <3>6, RfcLayout DEF v
      <4>2. \A y : Format("rfc3339", y).decimals = 0
        BY DEF Format, Rfc3339, Text
      <4>3. Format("rfc3339", x) # v
        BY <3>2, <3>3, <4>2
      <4>4. ~ComesBack(v)
        BY <3>2, <4>1, <4>3 DEF ComesBack, Guessed
      <4> QED BY <3>2, <3>3, <3>6, <4>4 DEF v
    <3> QED BY <3>5, <3>6
  <2> QED BY <2>3, <2>4
<1> QED BY <1>6, <1>8, <1>9, <1>10, <1>11, <1>12, <1>13 DEF Own, Plain

-----------------------------------------------------------------------------
(* The operators of When. *)
LEMMA DayOrder ==
    ASSUME NEW n \in Int, NEW p \in Int
    PROVE  LET a == Civil(n)
               b == Civil(p)
           IN  /\ a = b <=> n = p
               /\ (a.y < b.y \/ (a.y = b.y /\ a.m < b.m) \/ (a.y = b.y /\ a.m = b.m /\ a.d < b.d)) <=> n < p
PROOF
<1> DEFINE ay == Civil(n).y
           am == Civil(n).m
           ad == Civil(n).d
           by == Civil(p).y
           bm == Civil(p).m
           bd == Civil(p).d
           j == MonthIndex(n) - 3
           k == MonthIndex(p) - 3
<1>1. /\ ay \in Int /\ am \in 1..12 /\ ad \in Int /\ by \in Int /\ bm \in 1..12 /\ bd \in Int
      /\ n = Number(ay, am, ad) /\ p = Number(by, bm, bd)
  BY CivilIs
<1>2. MonthIndex(n) = 12 * ay + am /\ MonthIndex(p) = 12 * by + bm
  BY DEF MonthIndex
<1>3. /\ j \in Int /\ First(j) <= n /\ n < First(j + 1) /\ ad = n - First(j) + 1
      /\ k \in Int /\ First(k) <= p /\ p < First(k + 1) /\ bd = p - First(k) + 1
  BY IndexIs
<1>4. j = (12 * ay + am) - 3 /\ k = (12 * by + bm) - 3
  <2> HIDE DEF ay, am, by, bm
  <2> QED BY <1>2 DEF j, k
<1>5. Civil(n) = Civil(p) => n = p
  BY <1>1
<1> HIDE DEF ay, am, ad, by, bm, bd, j, k
<1>6. j + 1 \in Int /\ k + 1 \in Int
  BY <1>3
<1>7. First(j) \in Int /\ First(j + 1) \in Int /\ First(k) \in Int /\ First(k + 1) \in Int
  BY <1>3, <1>6, FirstType
<1>8. j < k => n < p
  <2> SUFFICES ASSUME j < k PROVE n < p
    OBVIOUS
  <2>1. j + 1 = k \/ j + 1 < k
    BY <1>3
  <2>2. First(j + 1) <= First(k)
    BY <1>3, <1>6, <1>7, <2>1, Later
  <2> QED BY <1>3, <1>7, <2>2
<1>9. k < j => p < n
  <2> SUFFICES ASSUME k < j PROVE p < n
    OBVIOUS
  <2>1. k + 1 = j \/ k + 1 < j
    BY <1>3
  <2>2. First(k + 1) <= First(j)
    BY <1>3, <1>6, <1>7, <2>1, Later
  <2> QED BY <1>3, <1>7, <2>2
<1>10. j = k => (n < p <=> ad < bd)
  BY <1>3, <1>7
<1>11. /\ j < k <=> ay < by \/ (ay = by /\ am < bm)
       /\ j = k <=> ay = by /\ am = bm
  BY <1>1, <1>4
<1>12. (ay < by \/ (ay = by /\ am < bm) \/ (ay = by /\ am = bm /\ ad < bd)) <=> n < p
  BY <1>3, <1>8, <1>9, <1>10, <1>11
<1> QED BY <1>5, <1>12 DEF ay, am, ad, by, bm, bd

LEMMA CompareIs ==
    ASSUME NEW l \in Times, NEW r \in Times, NEW op
    PROVE  tickCompare(l, op, r) <=> Holds(l, op, r)
PROOF
<1>1. l.day \in Int /\ r.day \in Int
  BY DEF Times
<1>2. Instant(l) \in Int /\ Instant(r) \in Int
  <2>1. \A x \in Times : x.day * Ticks + x.clock - x.zone \in Int
    BY CalendarAssumption DEF Times
  <2> QED BY <2>1 DEF Instant
<1>3. /\ SameDay(l, r) <=> l.day = r.day
      /\ DayBefore(l, r) <=> l.day < r.day
  BY <1>1, DayOrder DEF SameDay, DayBefore
<1>4. DayAfter(l, r) <=> r.day < l.day
  <2> DEFINE a == Civil(r.day)
             b == Civil(l.day)
  <2>1. (a.y < b.y \/ (a.y = b.y /\ a.m < b.m) \/ (a.y = b.y /\ a.m = b.m /\ a.d < b.d)) <=> r.day < l.day
    BY <1>1, DayOrder
  <2>2. /\ a.y \in Int /\ a.m \in Int /\ a.d \in Int /\ b.y \in Int /\ b.m \in Int /\ b.d \in Int
    BY <1>1, CivilIs
  <2>3. DayAfter(l, r) <=>
          (b.y > a.y \/ (b.y = a.y /\ b.m > a.m) \/ (b.y = a.y /\ b.m = a.m /\ b.d > a.d))
    BY DEF DayAfter
  <2> HIDE DEF a, b
  <2> QED BY <2>1, <2>2, <2>3
<1>5. CASE op \in {">", ">=", "<", "<=", "==", "!="}
  BY <1>2, <1>5 DEF tickCompare, Holds, After, Before, Equal
<1>6. CASE op \in {"~=", "~>", "~<", "~>=", "~<="}
  BY <1>1, <1>3, <1>4, <1>6 DEF tickCompare, Holds
<1>7. CASE op \notin {">", ">=", "<", "<=", "==", "!=", "~=", "~>", "~<", "~>=", "~<="}
  BY <1>7 DEF tickCompare, Holds
<1> QED BY <1>5, <1>6, <1>7

-----------------------------------------------------------------------------
(* The invariant.  A call of Move leaves a trail of movements, a call of When
   one of comparisons. *)
MoveSteps == [m : Movements, from : Times]
Pairs == [op : Operators, right : Compared]

TypeOK ==
    /\ pc \in {"idle", "moving", "comparing", "done", "panic"}
    /\ t \in Times /\ flag \in BOOLEAN
    /\ trail \in Seq(MoveSteps) \/ trail \in Seq(Pairs)

(* Each movement led from the time it found to the time the next one found. *)
MovesOK(tr, now) ==
    \A k \in 1..Len(tr) :
        (IF k < Len(tr) THEN tr[k + 1].from ELSE now) = Applied(tr[k].m, tr[k].from)

Movable(x) == x \in Moved /\ (IsText(x) => Guessed(x))

Written(x, now) == IF IsText(x) THEN Format(Layout(x), now) ELSE now

Answered(x, now) ==
    /\ Movable(x.val)
    /\ IF x.ptr THEN ret = Self /\ cell = Written(x.val, now) ELSE ret = Answer(Written(x.val, now))

MoveOK ==
    /\ pc = "moving" => trail \in Seq(MoveSteps) /\ Movable(arg.val)
    /\ trail \in Seq(MoveSteps) => MovesOK(trail, t)
    /\ pc = "done" /\ trail \in Seq(MoveSteps) /\ trail # <<>> => Cancelled \/ Answered(arg, t)

(* The cache holds what its texts mean. *)
CacheOK(cache) == \A x \in DOMAIN cache : cache[x] = GuessOrZero(x)

OperandOf(x, tr, k) == IF k = 0 THEN x ELSE tr[k].right

HoldsAt(x, tr, k) ==
    /\ NotATime \notin {OperandOf(x, tr, k - 1), OperandOf(x, tr, k)}
    /\ Holds(Meant(OperandOf(x, tr, k - 1)), tr[k].op, Meant(OperandOf(x, tr, k)))

AllHold(x, tr) == \A k \in 1..Len(tr) : HoldsAt(x, tr, k)

(* A call of When: the flag says whether all comparisons so far hold. *)
WhenOK ==
    /\ pc \in {"comparing", "panic"} => trail \in Seq(Pairs)
    /\ pc = "comparing" => /\ arg.val \in Compared /\ cell = Nil
                           /\ IF AllHold(arg.val, trail) THEN flag = TRUE ELSE flag = FALSE
    /\ pc = "done" /\ trail \in Seq(Pairs) /\ trail # <<>> =>
         /\ cell = Nil
         /\ IF AllHold(arg.val, trail) THEN ret = Answer(TRUE) ELSE ret = Answer(FALSE)
    /\ pc = "panic" =>
         /\ \A k \in 1..Len(trail) - 1 : HoldsAt(arg.val, trail, k)
         /\ NotATime \in {OperandOf(arg.val, trail, Len(trail) - 1), OperandOf(arg.val, trail, Len(trail))}

IdleOK == pc = "idle" => trail = <<>> /\ cell = Nil /\ flag = TRUE

Inv == TypeOK /\ MoveOK /\ CacheOK(parsed) /\ WhenOK /\ IdleOK

-----------------------------------------------------------------------------
(* Times, texts, and operands that are neither. *)
LEMMA ZeroIsTime == ZeroTime \in Times
  <1>1. Number(1, 1, 1) \in Int
    BY NumberIs
  <1> QED BY <1>1 DEF ZeroTime, Time, Times

LEMMA Operands ==
    /\ \A x \in Times : ~IsText(x)
    /\ \A x \in Texts : IsText(x) /\ x.time \in Times
    /\ ~IsText(NotATime)
  BY DEF Times, Texts, IsText, NotATime

LEMMA MeantIs ==
    ASSUME NEW x, x \in Times \/ x \in Texts
    PROVE  /\ Meant(x) \in Times
           /\ IsText(x) => Meant(x) = GuessOrZero(x)
           /\ ~IsText(x) => Meant(x) = x
  BY ZeroIsTime, Operands DEF Meant, GuessOrZero

LEMMA CachedIs ==
    ASSUME NEW cache, CacheOK(cache), NEW x
    PROVE  /\ CacheOK(Cached(cache, x))
           /\ DOMAIN cache \subseteq DOMAIN Cached(cache, x)
           /\ IsText(x) => x \in DOMAIN Cached(cache, x)
  BY DEF CacheOK, Cached

(* A trail of comparisons is no trail of movements. *)
LEMMA Apart ==
    ASSUME NEW s \in Seq(Pairs), s # <<>>
    PROVE  s \notin Seq(MoveSteps)
PROOF
<1>1. 1 \in 1..Len(s) /\ s[1] \in Pairs
  OBVIOUS
<1>2. "op" \in DOMAIN s[1]
  BY <1>1 DEF Pairs
<1>3. \A e \in MoveSteps : "op" \notin DOMAIN e
  BY DEF MoveSteps
<1>4. s \in Seq(MoveSteps) => s[1] \in MoveSteps
  BY <1>1
<1> QED BY <1>2, <1>3, <1>4

LEMMA MovesGrow ==
    ASSUME NEW tr \in Seq(MoveSteps), NEW now \in Times, MovesOK(tr, now), NEW m \in Movements
    PROVE  /\ Append(tr, [m |-> m, from |-> now]) \in Seq(MoveSteps)
           /\ MovesOK(Append(tr, [m |-> m, from |-> now]), Applied(m, now))
PROOF
<1> DEFINE e == [m |-> m, from |-> now]
           more == Append(tr, e)
           after == Applied(m, now)
<1>1. e \in MoveSteps /\ e.m = m /\ e.from = now
  BY DEF MoveSteps
<1> HIDE DEF e, after
<1>2. /\ more \in Seq(MoveSteps) /\ Len(more) = Len(tr) + 1 /\ Len(tr) \in Nat
      /\ more[Len(tr) + 1] = e /\ \A k \in 1..Len(tr) : more[k] = tr[k]
  BY <1>1
<1> HIDE DEF more
<1>3. \A k \in 1..Len(more) :
        (IF k < Len(more) THEN more[k + 1].from ELSE after) = Applied(more[k].m, more[k].from)
  <2> TAKE k \in 1..Len(more)
  <2>1. CASE k < Len(tr)
    <3>1. k \in 1..Len(tr) /\ k + 1 \in 1..Len(tr) /\ k < Len(more)
      BY <1>2, <2>1
    <3>2. tr[k + 1].from = Applied(tr[k].m, tr[k].from)
      BY <2>1, <3>1 DEF MovesOK
    <3> QED BY <1>2, <3>1, <3>2
  <2>2. CASE k = Len(tr)
    <3>1. k \in 1..Len(tr) /\ k < Len(more)
      BY <1>2, <2>2
    <3>2. now = Applied(tr[k].m, tr[k].from)
      BY <2>2, <3>1 DEF MovesOK
    <3> QED BY <1>1, <1>2, <2>2, <3>1, <3>2
  <2>3. CASE k = Len(tr) + 1
    <3>1. ~(k < Len(more)) /\ more[k] = e
      BY <1>2, <2>3
    <3> QED BY <1>1, <3>1 DEF after
  <2> QED BY <1>2, <2>1, <2>2, <2>3
<1> QED BY <1>2, <1>3 DEF MovesOK, more, e, after

(* One more comparison. *)
LEMMA AllHoldGrow ==
    ASSUME NEW tr \in Seq(Pairs), NEW x, NEW op \in Operators, NEW right \in Compared
    PROVE  LET more == Append(tr, [op |-> op, right |-> right])
               l == OperandOf(x, tr, Len(tr))
           IN  /\ more \in Seq(Pairs) /\ more # <<>> /\ Len(more) = Len(tr) + 1
               /\ OperandOf(x, more, Len(tr)) = l /\ OperandOf(x, more, Len(tr) + 1) = right
               /\ \A k \in 1..Len(tr) : HoldsAt(x, more, k) <=> HoldsAt(x, tr, k)
               /\ AllHold(x, more) <=> /\ AllHold(x, tr)
                                       /\ NotATime \notin {l, right}
                                       /\ Holds(Meant(l), op, Meant(right))
PROOF
<1> DEFINE e == [op |-> op, right |-> right]
           more == Append(tr, e)
           l == OperandOf(x, tr, Len(tr))
<1>1. e \in Pairs /\ e.op = op /\ e.right = right
  BY DEF Pairs
<1> HIDE DEF e
<1>2. /\ more \in Seq(Pairs) /\ Len(more) = Len(tr) + 1 /\ Len(tr) \in Nat /\ more # <<>>
      /\ more[Len(tr) + 1] = e /\ \A k \in 1..Len(tr) : more[k] = tr[k]
  BY <1>1
<1> HIDE DEF more
<1>3. \A k \in 0..Len(tr) : OperandOf(x, more, k) = OperandOf(x, tr, k)
  BY <1>2 DEF OperandOf
<1>4. OperandOf(x, more, Len(tr) + 1) = right
  BY <1>1, <1>2 DEF OperandOf
<1>5. \A k \in 1..Len(tr) : HoldsAt(x, more, k) <=> HoldsAt(x, tr, k)
  <2> TAKE k \in 1..Len(tr)
  <2>1. k \in 0..Len(tr) /\ k - 1 \in 0..Len(tr)
    BY <1>2
  <2> QED BY <1>2, <1>3, <2>1 DEF HoldsAt
<1>6. HoldsAt(x, more, Len(tr) + 1) <=> NotATime \notin {l, right} /\ Holds(Meant(l), op, Meant(right))
  <2>1. (Len(tr) + 1) - 1 = Len(tr) /\ Len(tr) \in 0..Len(tr)
    BY <1>2
  <2>2. OperandOf(x, more, (Len(tr) + 1) - 1) = l
    BY <1>3, <2>1
  <2> QED BY <1>1, <1>2, <1>4, <2>2 DEF HoldsAt
<1>7. AllHold(x, more) <=> AllHold(x, tr) /\ HoldsAt(x, more, Len(tr) + 1)
  <2>1. 1..Len(more) = (1..Len(tr)) \cup {Len(tr) + 1}
    BY <1>2
  <2> QED BY <1>5, <2>1 DEF AllHold
<1>8. Len(tr) \in 0..Len(tr)
  BY <1>2
<1> QED BY <1>2, <1>3, <1>4, <1>5, <1>6, <1>7, <1>8 DEF more, e

LEMMA CompareType ==
    ASSUME NEW l \in Times, NEW r \in Times, NEW op
    PROVE  tickCompare(l, op, r) \in BOOLEAN
PROOF
<1>1. /\ After(l, r) \in BOOLEAN /\ Before(l, r) \in BOOLEAN /\ Equal(l, r) \in BOOLEAN
  <2>1. \A x \in Times : x.day * Ticks + x.clock - x.zone \in Int
    BY CalendarAssumption DEF Times
  <2>2. Instant(l) \in Int /\ Instant(r) \in Int
    BY <2>1 DEF Instant
  <2> QED BY <2>2 DEF After, Before, Equal
<1>2. /\ DayAfter(l, r) \in BOOLEAN /\ DayBefore(l, r) \in BOOLEAN /\ SameDay(l, r) \in BOOLEAN
  BY Zenon DEF DayAfter, DayBefore, SameDay
<1>3. CASE op \in {">", ">=", "<", "<=", "==", "!="}
  BY <1>1, <1>3 DEF tickCompare
<1>4. CASE op \in {"~=", "~>", "~<", "~>=", "~<="}
  BY <1>2, <1>4 DEF tickCompare
<1>5. CASE op \notin {">", ">=", "<", "<=", "==", "!=", "~=", "~>", "~<", "~>=", "~<="}
  BY <1>5 DEF tickCompare
<1> QED BY <1>3, <1>4, <1>5

-----------------------------------------------------------------------------
LEMMA InvInit == Init => Inv
PROOF
<1> SUFFICES ASSUME Init PROVE Inv
  OBVIOUS
<1> USE DEF Init
<1>1. TypeOK
  BY ZeroIsTime DEF TypeOK
<1>2. MoveOK
  BY DEF MoveOK, MovesOK
<1>3. CacheOK(parsed)
  BY DEF CacheOK
<1> QED BY <1>1, <1>2, <1>3 DEF Inv, WhenOK, IdleOK

LEMMA MoveCallKeeps ==
    ASSUME Inv, NEW val \in Moved \cup {Nil}, NEW ptr \in BOOLEAN, MoveCall(val, ptr)
    PROVE  Inv'
PROOF
<1> USE DEF Inv
<1>1. pc = "idle" /\ trail = <<>> /\ trail' = <<>> /\ cell = Nil
  BY DEF MoveCall, IdleOK
<1>2. \/ pc' = "done" /\ t' = t
      \/ pc' = "moving" /\ t' \in Times /\ Movable(arg'.val)
  <2>1. CASE val # Nil /\ (IsText(val) => Guessed(val)) /\ pc' = "moving"
                 /\ t' = IF IsText(val) THEN val.time ELSE val
    <3>1. val \in Moved /\ arg'.val = val
      BY <2>1 DEF MoveCall
    <3>2. t' \in Times
      BY <2>1, <3>1, TickAssumption, Operands
    <3> QED BY <2>1, <3>1, <3>2 DEF Movable
  <2>2. CASE pc' = "done" /\ t' = t
    BY <2>2
  <2> QED BY <2>1, <2>2 DEF MoveCall, Return
<1>3. TypeOK'
  BY <1>1, <1>2 DEF MoveCall, TypeOK
<1>4. MoveOK'
  BY <1>1, <1>2 DEF MoveOK, MovesOK
<1>5. CacheOK(parsed)'
  BY DEF MoveCall, CacheOK
<1>6. WhenOK'
  BY <1>1, <1>2 DEF WhenOK
<1>7. IdleOK'
  BY <1>1, <1>2 DEF IdleOK
<1> QED BY <1>3, <1>4, <1>5, <1>6, <1>7

(* What a movement does to the time; an off flag ends the call. *)
LEMMA MoveByIs ==
    ASSUME TypeOK, NEW m \in Movements, MoveBy(m)
    PROVE  /\ t' = Applied(m, t)
           /\ \/ UNCHANGED <<pc, ret>>
              \/ m.kind = "flag" /\ ~m.on /\ pc' = "done" /\ ret' = Self
PROOF
<1>1. CASE m \in Units
  BY <1>1 DEF Units, MoveBy, Applied
<1>2. CASE m \in Spans
  BY <1>2 DEF Spans, MoveBy, Applied
<1>3. CASE m \in NamedDays
  BY <1>3 DEF NamedDays, MoveBy, Applied
<1>4. CASE m \in Flags
  BY <1>4 DEF Flags, MoveBy, Applied, Return
<1> QED BY <1>1, <1>2, <1>3, <1>4, TickAssumption

LEMMA MoveByKeeps ==
    ASSUME Inv, NEW m \in Movements, MoveBy(m)
    PROVE  Inv'
PROOF
<1> USE DEF Inv
<1>1. pc = "moving" /\ trail \in Seq(MoveSteps) /\ Movable(arg.val) /\ t \in Times /\ MovesOK(trail, t)
  BY DEF MoveBy, MoveOK, TypeOK
<1>2. trail' = Append(trail, [m |-> m, from |-> t]) /\ UNCHANGED <<arg, cell, flag, parsed>>
  BY DEF MoveBy
<1>3. /\ t' = Applied(m, t)
      /\ \/ UNCHANGED <<pc, ret>>
         \/ m.kind = "flag" /\ ~m.on /\ pc' = "done" /\ ret' = Self
  BY MoveByIs
<1>4. t' \in Times
  BY <1>1, <1>3, AppliedType
<1>5. trail' \in Seq(MoveSteps) /\ MovesOK(trail', t')
  BY <1>1, <1>2, <1>3, MovesGrow
<1>6. trail' # <<>> /\ trail' \notin Seq(Pairs)
  <2>1. trail' # <<>>
    BY <1>1, <1>2
  <2> QED BY <1>5, <2>1, Apart
<1>7. TypeOK'
  BY <1>1, <1>2, <1>3, <1>4, <1>5 DEF TypeOK
<1>8. MoveOK'
  <2>1. ASSUME pc' = "done" PROVE Cancelled'
    <3>1. m.kind = "flag" /\ ~m.on
      BY <1>1, <1>3, <2>1
    <3> DEFINE k == Len(trail) + 1
               e == [m |-> m, from |-> t]
    <3>2. k \in DOMAIN trail' /\ trail'[k] = e
      <4>1. e \in MoveSteps
        BY <1>1 DEF MoveSteps
      <4> HIDE DEF e
      <4>2. trail' = Append(trail, e)
        BY <1>2 DEF e
      <4> QED BY <1>1, <4>1, <4>2
    <3>3. "m" \in DOMAIN e /\ e.m = m
      OBVIOUS
    <3> QED BY <3>1, <3>2, <3>3 DEF Cancelled, Asked
  <2> QED BY <1>1, <1>2, <1>3, <1>5, <2>1 DEF MoveOK
<1>9. CacheOK(parsed)'
  BY <1>2 DEF CacheOK
<1>10. WhenOK'
  BY <1>1, <1>3, <1>6 DEF WhenOK
<1>11. IdleOK'
  BY <1>1, <1>3 DEF IdleOK
<1> QED BY <1>7, <1>8, <1>9, <1>10, <1>11

LEMMA MoveReturnKeeps ==
    ASSUME Inv, MoveReturn
    PROVE  Inv'
PROOF
<1> USE DEF Inv
<1>1. /\ pc = "moving" /\ trail # <<>> /\ trail \in Seq(MoveSteps) /\ Movable(arg.val)
      /\ pc' = "done" /\ UNCHANGED <<arg, t, trail, flag, parsed>>
  BY DEF MoveReturn, MoveOK, Return
<1>2. IF arg.ptr THEN ret' = Self /\ cell' = Written(arg.val, t) ELSE ret' = Answer(Written(arg.val, t))
  BY DEF MoveReturn, Return, Written
<1>3. Answered(arg, t)'
  BY <1>1, <1>2 DEF Answered
<1>4. trail \notin Seq(Pairs)
  BY <1>1, Apart
<1>5. TypeOK'
  BY <1>1 DEF TypeOK
<1>6. MoveOK'
  BY <1>1, <1>3 DEF MoveOK
<1>7. CacheOK(parsed)'
  BY <1>1 DEF CacheOK
<1>8. WhenOK'
  BY <1>1, <1>4 DEF WhenOK
<1>9. IdleOK'
  BY <1>1 DEF IdleOK
<1> QED BY <1>5, <1>6, <1>7, <1>8, <1>9

LEMMA WhenMiscountedKeeps ==
    ASSUME Inv, WhenMiscounted
    PROVE  Inv'
PROOF
<1> USE DEF Inv
<1>1. pc' = "done" /\ trail = <<>> /\ UNCHANGED <<arg, cell, t, trail, flag, parsed>>
  BY DEF WhenMiscounted, IdleOK, Return
<1>2. TypeOK'
  BY <1>1 DEF TypeOK
<1>3. MoveOK'
  BY <1>1 DEF MoveOK
<1>4. CacheOK(parsed)'
  BY <1>1 DEF CacheOK
<1> QED BY <1>1, <1>2, <1>3, <1>4 DEF WhenOK, IdleOK

LEMMA WhenCallKeeps ==
    ASSUME Inv, NEW left \in Compared, WhenCall(left)
    PROVE  Inv'
PROOF
<1> USE DEF Inv
<1>1. /\ pc' = "comparing" /\ arg'.val = left
      /\ trail = <<>> /\ cell = Nil /\ flag = TRUE /\ UNCHANGED <<cell, t, trail, flag, ret, parsed>>
  BY DEF WhenCall, IdleOK
<1>2. TypeOK'
  BY <1>1 DEF TypeOK
<1>3. MoveOK'
  BY <1>1 DEF MoveOK
<1>4. CacheOK(parsed)'
  BY <1>1 DEF CacheOK
<1>5. WhenOK'
  BY <1>1 DEF WhenOK, AllHold
<1> QED BY <1>1, <1>2, <1>3, <1>4, <1>5 DEF IdleOK

(* Both operands of a comparison mean what the cache says, once it has been
   asked for them. *)
LEMMA TimesCompared ==
    ASSUME NEW cache, CacheOK(cache), NEW l \in Compared, NEW r \in Compared,
           NotATime \notin {l, r}
    PROVE  LET both == Cached(Cached(cache, l), r)
           IN  /\ TimeOf(both, l) = Meant(l) /\ TimeOf(both, r) = Meant(r)
               /\ Meant(l) \in Times /\ Meant(r) \in Times
PROOF
<1> DEFINE one == Cached(cache, l)
           both == Cached(one, r)
<1>1. (l \in Times \/ l \in Texts) /\ (r \in Times \/ r \in Texts)
  BY TickAssumption
<1>2. CacheOK(one) /\ (IsText(l) => l \in DOMAIN one)
  BY CachedIs
<1> HIDE DEF one
<1>3. CacheOK(both) /\ DOMAIN one \subseteq DOMAIN both /\ (IsText(r) => r \in DOMAIN both)
  BY <1>2, CachedIs
<1> HIDE DEF both
<1>4. /\ IsText(l) => both[l] = GuessOrZero(l)
      /\ IsText(r) => both[r] = GuessOrZero(r)
  BY <1>2, <1>3 DEF CacheOK
<1>5. TimeOf(both, l) = Meant(l) /\ TimeOf(both, r) = Meant(r)
  BY <1>4 DEF TimeOf, Meant
<1>6. Meant(l) \in Times /\ Meant(r) \in Times
  BY <1>1, MeantIs
<1> QED BY <1>5, <1>6 DEF both, one

LEMMA CompareKeeps ==
    ASSUME Inv, NEW op \in Operators, NEW right \in Compared, Compare(op, right)
    PROVE  Inv'
PROOF
<1> USE DEF Inv
<1> DEFINE x == arg.val
           l == OperandOf(x, trail, Len(trail))
           more == Append(trail, [op |-> op, right |-> right])
           both == Cached(Cached(parsed, l), right)
<1>1. /\ pc = "comparing" /\ trail \in Seq(Pairs) /\ x \in Compared /\ cell = Nil
      /\ IF AllHold(x, trail) THEN flag = TRUE ELSE flag = FALSE
      /\ CacheOK(parsed) /\ t \in Times
  BY DEF Compare, WhenOK, TypeOK
<1>2. trail' = more /\ UNCHANGED <<arg, cell, t>>
  BY DEF Compare
<1>3. Left = l /\ l \in Compared
  <2>1. CASE trail = <<>>
    BY <1>1, <2>1 DEF Left, OperandOf
  <2>2. CASE trail # <<>>
    <3>1. Len(trail) \in 1..Len(trail) /\ Len(trail) # 0
      BY <1>1, <2>2
    <3>2. trail[Len(trail)] \in Pairs
      BY <1>1, <3>1
    <3>3. trail[Len(trail)].right \in Compared
      BY <3>2 DEF Pairs
    <3> QED BY <2>2, <3>1, <3>3 DEF Left, OperandOf
  <2> QED BY <2>1, <2>2
<1>4. /\ more \in Seq(Pairs) /\ more # <<>> /\ Len(more) = Len(trail) + 1
      /\ OperandOf(x, more, Len(trail)) = l /\ OperandOf(x, more, Len(trail) + 1) = right
      /\ \A k \in 1..Len(trail) : HoldsAt(x, more, k) <=> HoldsAt(x, trail, k)
      /\ AllHold(x, more) <=> /\ AllHold(x, trail)
                              /\ NotATime \notin {l, right}
                              /\ Holds(Meant(l), op, Meant(right))
  BY <1>1, AllHoldGrow
<1>5. more \notin Seq(MoveSteps)
  BY <1>4, Apart
<1>6. CacheOK(Cached(parsed, l)) /\ CacheOK(both)
  BY <1>1, CachedIs
<1>7. /\ x' = x /\ trail' \in Seq(Pairs) /\ trail' # <<>> /\ trail' \notin Seq(MoveSteps)
      /\ t' \in Times /\ cell' = Nil
  BY <1>1, <1>2, <1>4, <1>5
<1> HIDE DEF x, l, more, both
<1>8. CASE op = "noString" /\ pc' = "done" /\ ret' = Answer(FALSE) /\ UNCHANGED <<flag, parsed>>
  <2>1. ~Holds(Meant(l), op, Meant(right))
    BY <1>8 DEF Holds
  <2>2. ~AllHold(x', trail')
    BY <1>2, <1>4, <1>7, <2>1
  <2>3. TypeOK' /\ MoveOK' /\ CacheOK(parsed)' /\ IdleOK'
    BY <1>7, <1>8 DEF TypeOK, MoveOK, CacheOK, IdleOK
  <2>4. WhenOK'
    BY <1>7, <1>8, <2>2 DEF WhenOK, x
  <2> QED BY <2>3, <2>4
<1>9. CASE op # "noString" /\ ~flag /\ UNCHANGED <<pc, ret, flag, parsed>>
  <2>1. ~AllHold(x', trail') /\ flag' = FALSE
    BY <1>1, <1>2, <1>4, <1>7, <1>9
  <2>2. TypeOK' /\ MoveOK' /\ CacheOK(parsed)' /\ IdleOK'
    BY <1>1, <1>7, <1>9 DEF TypeOK, MoveOK, CacheOK, IdleOK
  <2>3. WhenOK'
    BY <1>1, <1>7, <1>9, <2>1 DEF WhenOK, x
  <2> QED BY <2>2, <2>3
<1>10. CASE /\ flag /\ NotATime \in {l, right}
            /\ pc' = "panic" /\ UNCHANGED <<ret, flag>>
            /\ parsed' = IF l = NotATime THEN parsed ELSE Cached(parsed, l)
  <2>1. AllHold(x, trail)
    BY <1>1, <1>10
  <2>2. \A k \in 1..Len(trail') - 1 : HoldsAt(x', trail', k)
    <3>1. 1..Len(trail') - 1 = 1..Len(trail)
      BY <1>1, <1>2, <1>4
    <3> QED BY <1>2, <1>4, <1>7, <2>1, <3>1 DEF AllHold
  <2>3. NotATime \in {OperandOf(x', trail', Len(trail') - 1), OperandOf(x', trail', Len(trail'))}
    <3>1. Len(trail') - 1 = Len(trail) /\ Len(trail') = Len(trail) + 1
      BY <1>1, <1>2, <1>4
    <3> QED BY <1>2, <1>4, <1>7, <1>10, <3>1
  <2>4. CacheOK(parsed')
    BY <1>1, <1>6, <1>10
  <2>5. TypeOK' /\ MoveOK' /\ CacheOK(parsed)' /\ IdleOK'
    BY <1>1, <1>7, <1>10, <2>4 DEF TypeOK, MoveOK, CacheOK, IdleOK
  <2>6. WhenOK'
    BY <1>7, <1>10, <2>2, <2>3 DEF WhenOK, x
  <2> QED BY <2>5, <2>6
<1>11. CASE /\ flag /\ NotATime \notin {l, right}
            /\ parsed' = both /\ UNCHANGED <<pc, ret>>
            /\ flag' = tickCompare(TimeOf(both, l), op, TimeOf(both, right))
  <2>1. /\ TimeOf(both, l) = Meant(l) /\ TimeOf(both, right) = Meant(right)
        /\ Meant(l) \in Times /\ Meant(right) \in Times
    BY <1>1, <1>3, <1>11, TimesCompared DEF both
  <2>2. flag' = tickCompare(Meant(l), op, Meant(right))
    BY <1>11, <2>1
  <2>3. flag' \in BOOLEAN
    BY <2>1, <2>2, CompareType
  <2>4. flag' <=> Holds(Meant(l), op, Meant(right))
    BY <2>1, <2>2, CompareIs
  <2>5. AllHold(x', trail') <=> flag'
    BY <1>1, <1>2, <1>4, <1>7, <1>11, <2>4
  <2>6. TypeOK' /\ MoveOK' /\ CacheOK(parsed)' /\ IdleOK'
    BY <1>1, <1>6, <1>7, <1>11, <2>3 DEF TypeOK, MoveOK, CacheOK, IdleOK
  <2>7. WhenOK'
    BY <1>1, <1>7, <1>11, <2>3, <2>5 DEF WhenOK, x
  <2> QED BY <2>6, <2>7
<1> QED
  <2>1. \/ op = "noString" /\ Return(Answer(FALSE)) /\ UNCHANGED <<flag, parsed>>
        \/ op # "noString" /\ ~flag /\ UNCHANGED <<pc, ret, flag, parsed>>
        \/ /\ op # "noString" /\ flag
           /\ IF NotATime \in {l, right}
              THEN /\ pc' = "panic" /\ UNCHANGED <<ret, flag>>
                   /\ parsed' = IF l = NotATime THEN parsed ELSE Cached(parsed, l)
              ELSE /\ parsed' = both
                   /\ flag' = tickCompare(TimeOf(both, l), op, TimeOf(both, right))
                   /\ UNCHANGED <<pc, ret>>
    BY <1>3 DEF Compare, both
  <2> QED BY <1>8, <1>9, <1>10, <1>11, <2>1 DEF Return

LEMMA WhenReturnKeeps ==
    ASSUME Inv, WhenReturn
    PROVE  Inv'
PROOF
<1> USE DEF Inv
<1>1. /\ pc = "comparing" /\ trail \in Seq(Pairs) /\ trail # <<>> /\ cell = Nil
      /\ IF AllHold(arg.val, trail) THEN flag = TRUE ELSE flag = FALSE
      /\ pc' = "done" /\ ret' = Answer(flag) /\ UNCHANGED <<arg, cell, t, trail, flag, parsed>>
  BY DEF WhenReturn, WhenOK, Return
<1>2. trail \notin Seq(MoveSteps)
  BY <1>1, Apart
<1>3. TypeOK' /\ MoveOK' /\ CacheOK(parsed)' /\ IdleOK'
  BY <1>1, <1>2 DEF TypeOK, MoveOK, CacheOK, IdleOK
<1>4. WhenOK'
  BY <1>1 DEF WhenOK
<1> QED BY <1>3, <1>4

(* What the call is about does not depend on the cache. *)
LEMMA CallKeeps ==
    ASSUME Inv, UNCHANGED <<pc, arg, cell, t, trail, flag, ret>>
    PROVE  TypeOK' /\ MoveOK' /\ WhenOK' /\ IdleOK'
PROOF
<1>1. TypeOK'
  BY DEF Inv, TypeOK
<1>2. MoveOK'
  BY DEF Inv, MoveOK, Cancelled, Asked, Answered
<1>3. WhenOK'
  BY DEF Inv, WhenOK
<1>4. IdleOK'
  BY DEF Inv, IdleOK
<1> QED BY <1>1, <1>2, <1>3, <1>4

LEMMA ForgetKeeps ==
    ASSUME Inv, NEW text \in DOMAIN parsed, Forget(text)
    PROVE  Inv'
PROOF
<1>1. CacheOK(parsed)'
  BY DEF Inv, Forget, CacheOK
<1>2. UNCHANGED <<pc, arg, cell, t, trail, flag, ret>>
  BY DEF Forget
<1> QED BY <1>1, <1>2, CallKeeps DEF Inv

LEMMA AgainKeeps ==
    ASSUME Inv, Again
    PROVE  Inv'
PROOF
<1>1. pc' = "idle" /\ trail' = <<>> /\ cell' = Nil /\ flag' = TRUE /\ t' \in Times /\ parsed' = parsed
  BY ZeroIsTime DEF Again
<1>2. TypeOK'
  BY <1>1 DEF TypeOK
<1>3. MoveOK'
  BY <1>1 DEF MoveOK, MovesOK
<1>4. CacheOK(parsed)'
  BY <1>1 DEF Inv, CacheOK
<1> QED BY <1>1, <1>2, <1>3, <1>4 DEF Inv, WhenOK, IdleOK

LEMMA InvNext == Inv /\ [Next]_vars => Inv'
PROOF
<1> SUFFICES ASSUME Inv, [Next]_vars PROVE Inv'
  OBVIOUS
<1>1. CASE \E val \in Moved \cup {Nil}, ptr \in BOOLEAN : MoveCall(val, ptr)
  BY <1>1, MoveCallKeeps
<1>2. CASE \E m \in Movements : MoveBy(m)
  BY <1>2, MoveByKeeps
<1>3. CASE MoveReturn
  BY <1>3, MoveReturnKeeps
<1>4. CASE WhenMiscounted
  BY <1>4, WhenMiscountedKeeps
<1>5. CASE \E left \in Compared : WhenCall(left)
  BY <1>5, WhenCallKeeps
<1>6. CASE \E op \in Operators, right \in Compared : Compare(op, right)
  BY <1>6, CompareKeeps
<1>7. CASE WhenReturn
  BY <1>7, WhenReturnKeeps
<1>8. CASE \E text \in DOMAIN parsed : Forget(text)
  BY <1>8, ForgetKeeps
<1>9. CASE Again
  BY <1>9, AgainKeeps
<1>10. CASE UNCHANGED vars
  <2>1. UNCHANGED <<pc, arg, cell, t, trail, flag, ret>> /\ parsed' = parsed
    BY <1>10 DEF vars
  <2>2. CacheOK(parsed)'
    BY <2>1 DEF Inv, CacheOK
  <2> QED BY <2>1, <2>2, CallKeeps DEF Inv
<1> QED BY <1>1, <1>2, <1>3, <1>4, <1>5, <1>6, <1>7, <1>8, <1>9, <1>10 DEF Next

(* A movement leads from the time it found to the time it makes of it, a
   cached text means its own parse, and a call of When knows whether all its
   comparisons so far hold: whatever Move and When are asked, in any order,
   and whenever the cache forgets. *)
THEOREM AlwaysInv == Spec => []Inv
  BY InvInit, InvNext, PTL DEF Spec

-----------------------------------------------------------------------------
LEMMA TrailOfMoves ==
    ASSUME Inv, NEW kind, NEW k \in Asked(kind)
    PROVE  /\ trail \in Seq(MoveSteps) /\ trail # <<>> /\ k \in 1..Len(trail)
           /\ trail[k].m \in Movements /\ trail[k].from \in Times /\ trail[k].m.kind = kind
           /\ Led(k) = Applied(trail[k].m, trail[k].from)
PROOF
<1>1. k \in DOMAIN trail /\ "m" \in DOMAIN trail[k] /\ trail[k].m.kind = kind
  BY DEF Asked
<1>2. trail \in Seq(MoveSteps)
  <2>1. ASSUME trail \in Seq(Pairs) PROVE FALSE
    <3>1. trail[k] \in Pairs
      BY <1>1, <2>1
    <3> QED BY <1>1, <3>1 DEF Pairs
  <2> QED BY <2>1 DEF Inv, TypeOK
<1>3. k \in 1..Len(trail) /\ trail # <<>> /\ trail[k] \in MoveSteps
  BY <1>1, <1>2
<1>4. MovesOK(trail, t)
  BY <1>2 DEF Inv, MoveOK
<1>5. Led(k) = Applied(trail[k].m, trail[k].from)
  BY <1>3, <1>4 DEF MovesOK, Led
<1>6. trail[k].m \in Movements /\ trail[k].from \in Times
  BY <1>3 DEF MoveSteps
<1> QED BY <1>1, <1>2, <1>3, <1>5, <1>6

LEMMA InvMonths == Inv => MonthsKept
PROOF
<1> SUFFICES ASSUME Inv, NEW k \in Asked("unit"), OneWay(trail[k].m)
             PROVE  LET m == trail[k].m
                        n == trail[k].from.day
                        landed == Led(k).day - m.d
                    IN  IF m.y = 0 /\ m.m = 0 THEN landed = n
                        ELSE /\ MonthIndex(landed) = MonthIndex(n) + 12 * m.y + m.m
                             /\ IsMonthEnd(n) => IsMonthEnd(landed)
                             /\ ~IsMonthEnd(n) => \/ Civil(landed).d = Civil(n).d
                                                  \/ IsMonthEnd(landed) /\ Civil(landed).d < Civil(n).d
  BY DEF MonthsKept
<1> DEFINE m == trail[k].m
           x == trail[k].from
<1>1. m \in Movements /\ x \in Times /\ m.kind = "unit" /\ Led(k) = Applied(m, x)
  BY TrailOfMoves
<1>2. m \in Units
  BY <1>1, TickAssumption DEF Spans, NamedDays, Flags
<1>3. Led(k) = ByUnit(x, m.n)
  BY <1>1 DEF Applied
<1>4. KeepsMonth(x.day, m.y, m.m, Led(k).day - m.d)
  BY <1>1, <1>2, <1>3, UnitKeepsMonth
<1> QED BY <1>4 DEF KeepsMonth

LEMMA InvPeriod == Inv => PeriodEnds
PROOF
<1> SUFFICES ASSUME Inv, NEW k \in Asked("to"), trail[k].m.to # "LastDayOfCNWeek"
             PROVE  EndsPeriod(k)
  BY DEF PeriodEnds
<1> DEFINE m == trail[k].m
           x == trail[k].from
<1>1. m \in Movements /\ x \in Times /\ m.kind = "to" /\ Led(k) = Applied(m, x)
  BY TrailOfMoves
<1>2. m.to \in ToNames
  BY <1>1, TickAssumption DEF Units, Spans, NamedDays, Flags, ToNames
<1>3. Led(k) = ToDay(x, m.to)
  BY <1>1 DEF Applied
<1>4. Led(k).clock = x.clock /\ IsEnd(m.to, x.day, Led(k).day)
  BY <1>1, <1>2, <1>3, NamedDay
<1> QED BY <1>4 DEF IsEnd, EndsPeriod

LEMMA InvMovable == Inv => MovableAgain
PROOF
<1> SUFFICES ASSUME Inv, MoveEnded, trail # <<>>, ~Cancelled,
                    NEW val, val = IF ret = Self THEN cell ELSE ret.val,
                    IsText(val), FourDigits(val.time)
             PROVE  Guessed(val) /\ Format(Layout(val), val.time) = val
                      <=> val.decimals = 0 \/ TextLen(val) \in 28..30
  BY DEF MovableAgain
<1>1. trail \in Seq(MoveSteps) /\ Answered(arg, t) /\ t \in Times
  <2>1. trail \notin Seq(Pairs)
    BY DEF Inv, WhenOK, MoveEnded
  <2> QED BY <2>1 DEF Inv, TypeOK, MoveOK, MoveEnded
<1>2. val = Written(arg.val, t)
  <2>1. ret = Self \/ ret = Answer(Written(arg.val, t))
    BY <1>1 DEF Answered
  <2>2. \A v : Answer(v) # Self /\ Answer(v).val = v
    BY DEF Answer, Self
  <2> QED BY <1>1, <2>1, <2>2 DEF Answered
<1>3. IsText(arg.val) /\ Guessed(arg.val) /\ arg.val.decimals \in Nat
  <2>1. IsText(arg.val)
    BY <1>1, <1>2, Operands DEF Written
  <2>2. Guessed(arg.val) /\ arg.val \in Moved
    BY <1>1, <2>1 DEF Answered, Movable
  <2>3. arg.val \in Texts
    BY <2>1, <2>2, TickAssumption, Operands
  <2> QED BY <2>1, <2>2, <2>3 DEF Texts
<1>4. Layout(arg.val) \in Own
  BY <1>3, LayoutIs
<1>5. val = Format(Layout(arg.val), t)
  BY <1>2, <1>3 DEF Written
<1> QED BY <1>1, <1>4, <1>5, ReadsAsWritten DEF ComesBack

LEMMA InvWhen == Inv => WhenIsConjunction
PROOF
<1> DEFINE pairs == {k \in DOMAIN trail : "op" \in DOMAIN trail[k]}
           holds(k) == /\ NotATime \notin {Operand(k - 1), Operand(k)}
                       /\ Holds(Meant(Operand(k - 1)), trail[k].op, Meant(Operand(k)))
<1> SUFFICES ASSUME Inv, pairs # {}
             PROVE  /\ pc = "done" => ret = Answer(\A k \in pairs : holds(k))
                    /\ pc = "panic" => /\ \A k \in pairs \ {Len(trail)} : holds(k)
                                       /\ NotATime \in {Operand(Len(trail) - 1), Operand(Len(trail))}
  BY DEF WhenIsConjunction
<1>1. trail \in Seq(Pairs) /\ trail # <<>>
  <2>1. ASSUME trail \in Seq(MoveSteps) PROVE FALSE
    <3>1. \A k \in DOMAIN trail : trail[k] \in MoveSteps
      BY <2>1
    <3> QED BY <3>1 DEF MoveSteps
  <2> QED BY <2>1 DEF Inv, TypeOK
<1>2. pairs = 1..Len(trail)
  <2>1. DOMAIN trail = 1..Len(trail) /\ \A k \in DOMAIN trail : trail[k] \in Pairs
    BY <1>1
  <2> QED BY <2>1 DEF Pairs
<1>3. \A k : Operand(k) = OperandOf(arg.val, trail, k)
  BY DEF Operand, OperandOf
<1>4. \A k : holds(k) <=> HoldsAt(arg.val, trail, k)
  BY <1>3 DEF HoldsAt
<1> HIDE DEF pairs, holds
<1>5. (\A k \in pairs : holds(k)) <=> AllHold(arg.val, trail)
  BY <1>2, <1>4 DEF AllHold
<1>6. ASSUME pc = "done" PROVE ret = Answer(\A k \in pairs : holds(k))
  <2>1. IF AllHold(arg.val, trail) THEN ret = Answer(TRUE) ELSE ret = Answer(FALSE)
    BY <1>1, <1>6 DEF Inv, WhenOK
  <2>2. CASE \A k \in pairs : holds(k)
    <3>1. (\A k \in pairs : holds(k)) = TRUE
      BY <2>2
    <3>2. ret = Answer(TRUE)
      BY <1>5, <2>1, <2>2
    <3> QED BY <3>1, <3>2
  <2>3. CASE ~\A k \in pairs : holds(k)
    <3>1. (\A k \in pairs : holds(k)) = FALSE
      BY <2>3
    <3>2. ret = Answer(FALSE)
      BY <1>5, <2>1, <2>3
    <3> QED BY <3>1, <3>2
  <2> QED BY <2>2, <2>3
<1>7. ASSUME pc = "panic"
      PROVE  /\ \A k \in pairs \ {Len(trail)} : holds(k)
             /\ NotATime \in {Operand(Len(trail) - 1), Operand(Len(trail))}
  <2>1. pairs \ {Len(trail)} \subseteq 1..Len(trail) - 1
    BY <1>1, <1>2
  <2>2. \A k \in 1..Len(trail) - 1 : HoldsAt(arg.val, trail, k)
    BY <1>7 DEF Inv, WhenOK
  <2>3. NotATime \in {OperandOf(arg.val, trail, Len(trail) - 1), OperandOf(arg.val, trail, Len(trail))}
    BY <1>7 DEF Inv, WhenOK
  <2> QED BY <1>3, <1>4, <2>1, <2>2, <2>3
<1> QED BY <1>6, <1>7

-----------------------------------------------------------------------------
(* Moving by a unit of years, months and days that all go one way goes to the
   month the unit names, to the same day or to the end of the month, and then
   the days on: for every date and unit, on whichever call. *)
THEOREM MonthsCorrect == Spec => []MonthsKept
  BY AlwaysInv, InvMonths, PTL

(* A named day but the last of the Chinese week is the first or last of the month,
   year or week that any date is in, at the same moment of the day. *)
THEOREM PeriodCorrect == Spec => []PeriodEnds
  BY AlwaysInv, InvPeriod, PTL

(* What Move writes can be read again and would be written as it is, for every date
   whose year has four digits, every layout and every fraction of a second, exactly
   if no fraction is written or the text has the length of RFC3339Nano. *)
THEOREM MovableCorrect == Spec => []MovableAgain
  BY AlwaysInv, InvMovable, PTL

(* When answers the conjunction of its comparisons, by instants or by days, for
   every operand and whatever the cache forgets in between. *)
THEOREM WhenCorrect == Spec => []WhenIsConjunction
  BY AlwaysInv, InvWhen, PTL
=============================================================================
