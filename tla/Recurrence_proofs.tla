--------------------------- MODULE Recurrence_proofs ---------------------------
(***************************************************************************)
(* What the calendar of Recurrence computes, for every date, interval and  *)
(* number of missed dates.  toordinal is an order on dates and leaves out  *)
(* no number (OrdinalOrders, LaterDay), so adding days, months and years   *)
(* yields dates; advancing goes through a schedule one date after the      *)
(* other (ScheduleAdvances); and the loop over missed dates ends           *)
(* (LoopEnds), at the first that is not missed (LoopFinds).                *)
(*                                                                         *)
(* Inductions are over sets of naturals (SetOfNaturals): a set is data     *)
(* where a predicate would be an operator.                                 *)
(***************************************************************************)
EXTENDS Recurrence, FiniteSetTheorems, WellFoundedInduction, TLAPS

\* Every set of naturals has a least one.
LEMMA LeastNatural ==
  ASSUME NEW S \in SUBSET Nat, S # {}
  PROVE  \E m \in S : \A n \in S : m <= n
<1> DEFINE below == {pair \in Nat \X Nat : pair[1] < pair[2]}
<1>1. OpToRel(<, Nat) = below
  BY Zenon DEF OpToRel
<1>2. IsWellFoundedOn(below, Nat)
  BY <1>1, NatLessThanWellFounded, Zenon
<1>3. \A m, n \in S : <<n, m>> \in below <=> n < m
  OBVIOUS
<1> HIDE DEF below
<1>4. PICK m \in S : \A n \in S : <<n, m>> \notin below
  BY <1>2, WFMin, Zenon
<1>5. \A n \in S : ~(n < m)
  BY <1>3, <1>4
<1> QED BY <1>5

\* Induction, over a set of naturals.
LEMMA SetOfNaturals ==
  ASSUME NEW S, 0 \in S, \A n \in Nat : n \in S => n + 1 \in S
  PROVE  Nat \subseteq S
<1> DEFINE T == Nat \ S
<1> SUFFICES ASSUME T # {} PROVE FALSE
  OBVIOUS
<1>1. PICK m \in T : \A n \in T : m <= n
  BY LeastNatural
<1>2. m # 0 /\ m - 1 \in Nat
  BY <1>1
<1>3. m - 1 \in S
  BY <1>1, <1>2
<1> QED BY <1>1, <1>2, <1>3

-----------------------------------------------------------------------------
(***************************************************************************)
(* Dates and their ordinals.                                               *)
(***************************************************************************)

LEMMA MonthLengths ==
  ASSUME NEW y \in Nat, NEW m \in 1..12
  PROVE  MonthLength(y, m) \in 28..31
<1>1. CASE m = 2
  BY <1>1 DEF MonthLength
<1>2. CASE m \in {4, 6, 9, 11}
  BY <1>2 DEF MonthLength
<1>3. CASE m # 2 /\ m \notin {4, 6, 9, 11}
  BY <1>3 DEF MonthLength
<1> QED BY <1>1, <1>2, <1>3

LEMMA MinOfTwo ==
  ASSUME NEW a \in Nat, NEW b \in Nat
  PROVE  Min({a, b}) = IF a <= b THEN a ELSE b
BY DEF Min


LEMMA CalendarDate ==
  ASSUME NEW d \in Calendar
  PROVE  /\ d = [year |-> d.year, month |-> d.month, day |-> d.day]
         /\ d.year \in Nat \ {0} /\ d.month \in 1..12 /\ d.day \in 1..31
         /\ d.day \in 1..MonthLength(d.year, d.month)
         /\ MonthLength(d.year, d.month) \in 28..31
<1> DEFINE y == d.year
           m == d.month
           day == d.day
<1>1. d \in [year : Nat \ {0}, month : 1..12, day : 1..31] /\ day <= MonthLength(y, m)
  BY DEF Calendar
<1>2. y \in Nat \ {0} /\ m \in 1..12 /\ day \in 1..31
  BY <1>1
<1>3. MonthLength(y, m) \in 28..31
  BY <1>2, MonthLengths
<1>4. day \in 1..MonthLength(y, m)
  <2> HIDE DEF y, m, day
  <2> QED BY <1>1, <1>2, <1>3
<1> QED BY <1>1, <1>2, <1>3, <1>4

LEMMA DateIs ==
  ASSUME NEW y \in Nat \ {0}, NEW m \in 1..12, NEW day \in 1..MonthLength(y, m)
  PROVE  [year |-> y, month |-> m, day |-> day] \in Calendar
<1>1. MonthLength(y, m) \in 28..31
  BY MonthLengths
<1>2. day \in 1..31 /\ day <= MonthLength(y, m)
  BY <1>1
<1> DEFINE d == [year |-> y, month |-> m, day |-> day]
<1>3. d \in [year : Nat \ {0}, month : 1..12, day : 1..31]
  BY <1>2
<1>4. d.year = y /\ d.month = m /\ d.day = day
  OBVIOUS
<1> HIDE DEF d
<1>5. d \in Calendar
  BY <1>2, <1>3, <1>4 DEF Calendar
<1> QED BY <1>5 DEF d

\* The days before a year, and before a month of a year that is or is not leap.
DaysBefore(y) == 365 * (y - 1) + (y - 1) \div 4 - (y - 1) \div 100 + (y - 1) \div 400
MonthStart(m, leap) ==
  (367 * m - 362) \div 12 - (IF m <= 2 THEN 0 ELSE IF leap THEN 1 ELSE 2)
LengthIn(m, leap) == IF m = 2 THEN (IF leap THEN 29 ELSE 28)
                     ELSE IF m \in {4, 6, 9, 11} THEN 30 ELSE 31

YearLength(leap) == IF leap THEN 366 ELSE 365

LEMMA YearsAdd ==
  ASSUME NEW y \in Nat \ {0}
  PROVE  /\ DaysBefore(y) \in Int
         /\ DaysBefore(y + 1) = DaysBefore(y) + YearLength(Leap(y))
<1>1. (y - 1) \div 4 \in Int /\ (y - 1) \div 100 \in Int /\ (y - 1) \div 400 \in Int
  OBVIOUS
<1>2. y \div 4 = (y - 1) \div 4 + IF y % 4 = 0 THEN 1 ELSE 0
  OBVIOUS
<1>3. y \div 100 = (y - 1) \div 100 + IF y % 100 = 0 THEN 1 ELSE 0
  OBVIOUS
<1>4. y \div 400 = (y - 1) \div 400 + IF y % 400 = 0 THEN 1 ELSE 0
  OBVIOUS
<1>5. (y % 400 = 0 => y % 100 = 0) /\ (y % 100 = 0 => y % 4 = 0)
  OBVIOUS
<1>6. DaysBefore(y + 1) = 365 * y + y \div 4 - y \div 100 + y \div 400
  BY DEF DaysBefore
<1> QED BY <1>1, <1>2, <1>3, <1>4, <1>5, <1>6 DEF DaysBefore, Leap, YearLength

LEMMA YearsGrow ==
  ASSUME NEW y \in Nat \ {0}, NEW z \in Nat \ {0}, y <= z
  PROVE  DaysBefore(y) <= DaysBefore(z)
<1> DEFINE a == y - 1
           b == z - 1
<1>1. a \in Nat /\ b \in Nat /\ a <= b
  OBVIOUS
<1>2. /\ DaysBefore(y) = 365 * a + a \div 4 - a \div 100 + a \div 400
      /\ DaysBefore(z) = 365 * b + b \div 4 - b \div 100 + b \div 400
  BY DEF DaysBefore
<1> HIDE DEF a, b
<1> QED BY <1>1, <1>2

LEMMA MonthsAdd ==
  ASSUME NEW leap \in BOOLEAN, NEW m \in 1..12, NEW n \in 1..12
  PROVE  /\ MonthStart(m, leap) \in Nat /\ MonthStart(1, leap) = 0
         /\ m < n => MonthStart(m, leap) + LengthIn(m, leap) <= MonthStart(n, leap)
         /\ m < 12 => MonthStart(m, leap) + LengthIn(m, leap) = MonthStart(m + 1, leap)
         /\ m = 12 => MonthStart(m, leap) + LengthIn(m, leap) = YearLength(leap)
         /\ MonthStart(m, leap) + LengthIn(m, leap) <= YearLength(leap)
<1>1. CASE leap
  BY <1>1 DEF MonthStart, LengthIn, YearLength
<1>2. CASE ~leap
  BY <1>2 DEF MonthStart, LengthIn, YearLength
<1> QED BY <1>1, <1>2

LEMMA OrdinalIs ==
  ASSUME NEW d \in Calendar
  PROVE  /\ Ordinal(d) = DaysBefore(d.year) + MonthStart(d.month, Leap(d.year)) + d.day
         /\ MonthLength(d.year, d.month) = LengthIn(d.month, Leap(d.year))
         /\ d.day \in Nat /\ 1 <= d.day /\ d.day <= LengthIn(d.month, Leap(d.year))
<1> DEFINE y == d.year
           m == d.month
<1>1. y \in Nat \ {0} /\ m \in 1..12 /\ d.day \in 1..MonthLength(y, m)
  BY CalendarDate
<1>2. MonthLength(y, m) = LengthIn(m, Leap(y))
  <2>1. CASE m = 2
    BY <2>1 DEF MonthLength, LengthIn
  <2>2. CASE m \in {4, 6, 9, 11}
    BY <2>2 DEF MonthLength, LengthIn
  <2>3. CASE m # 2 /\ m \notin {4, 6, 9, 11}
    BY <2>3 DEF MonthLength, LengthIn
  <2> QED BY <2>1, <2>2, <2>3
<1>3. d.day \in Nat /\ 1 <= d.day /\ d.day <= LengthIn(m, Leap(y))
  BY <1>1, <1>2, CalendarDate
<1>4. Ordinal(d) = 365 * (y - 1) + (y - 1) \div 4 - (y - 1) \div 100 + (y - 1) \div 400
                     + (367 * m - 362) \div 12 + d.day
                     - (IF m <= 2 THEN 0 ELSE IF Leap(y) THEN 1 ELSE 2)
  BY DEF Ordinal
<1>5. Ordinal(d) = DaysBefore(y) + MonthStart(m, Leap(y)) + d.day
  <2> DEFINE a == (y - 1) \div 4
             b == (y - 1) \div 100
             c == (y - 1) \div 400
             e == (367 * m - 362) \div 12
             f == IF m <= 2 THEN 0 ELSE IF Leap(y) THEN 1 ELSE 2
  <2>1. a \in Int /\ b \in Int /\ c \in Int /\ e \in Int /\ f \in Int
    BY <1>1
  <2>2. DaysBefore(y) = 365 * (y - 1) + a - b + c /\ MonthStart(m, Leap(y)) = e - f
    BY DEF DaysBefore, MonthStart
  <2>3. Ordinal(d) = 365 * (y - 1) + a - b + c + e + d.day - f
    BY <1>4
  <2> HIDE DEF a, b, c, e, f
  <2> QED BY <1>1, <1>3, <2>1, <2>2, <2>3
<1> QED BY <1>2, <1>3, <1>5

\* Python compares dates year by year, month by month and day by day; toordinal
\* keeps that order.
LEMMA OrdinalOrders ==
  ASSUME NEW d \in Calendar, NEW e \in Calendar,
         12 * d.year + d.month < 12 * e.year + e.month
  PROVE  Ordinal(d) \in Int /\ Ordinal(e) \in Int /\ Ordinal(d) < Ordinal(e)
<1> DEFINE y == d.year
           z == e.year
           m == d.month
           n == e.month
           leapY == Leap(y)
           leapZ == Leap(z)
<1>1. y \in Nat \ {0} /\ z \in Nat \ {0} /\ m \in 1..12 /\ n \in 1..12
  BY CalendarDate
<1>2. leapY \in BOOLEAN /\ leapZ \in BOOLEAN
  BY DEF Leap
<1>3. /\ Ordinal(d) = DaysBefore(y) + MonthStart(m, leapY) + d.day
      /\ d.day \in Nat /\ 1 <= d.day /\ d.day <= LengthIn(m, leapY)
      /\ Ordinal(e) = DaysBefore(z) + MonthStart(n, leapZ) + e.day
      /\ e.day \in Nat /\ 1 <= e.day /\ e.day <= LengthIn(n, leapZ)
  BY OrdinalIs
<1>4. /\ DaysBefore(y) \in Int /\ DaysBefore(z) \in Int
      /\ DaysBefore(y + 1) = DaysBefore(y) + YearLength(leapY)
  BY <1>1, YearsAdd
<1>5. /\ MonthStart(m, leapY) \in Nat /\ MonthStart(n, leapY) \in Nat
      /\ MonthStart(n, leapZ) \in Nat
      /\ m < n => MonthStart(m, leapY) + LengthIn(m, leapY) <= MonthStart(n, leapY)
      /\ MonthStart(m, leapY) + LengthIn(m, leapY) <= YearLength(leapY)
      /\ LengthIn(m, leapY) \in Nat
  <2>1. LengthIn(m, leapY) \in Nat
    BY DEF LengthIn
  <2> QED BY <1>1, <1>2, <2>1, MonthsAdd
<1>6. (y < z) \/ (y = z /\ m < n)
  <2> HIDE DEF y, z, m, n
  <2>1. 12 * y + m < 12 * z + n
    BY DEF y, z, m, n
  <2> QED BY <1>1, <2>1
<1> HIDE DEF y, z, m, n, leapY, leapZ
<1>7. CASE y < z
  <2>1. DaysBefore(y + 1) <= DaysBefore(z)
    BY <1>1, <1>7, YearsGrow
  <2>2. DaysBefore(y) + MonthStart(m, leapY) + d.day <= DaysBefore(z)
    <3>1. YearLength(leapY) \in Nat
      BY DEF YearLength
    <3> QED BY <1>3, <1>4, <1>5, <2>1, <3>1
  <2> QED BY <1>3, <1>4, <1>5, <2>2
<1>8. CASE y = z /\ m < n
  <2>1. leapY = leapZ
    BY <1>8 DEF leapY, leapZ
  <2> QED BY <1>3, <1>4, <1>5, <1>8, <2>1
<1> QED BY <1>6, <1>7, <1>8


LEMMA MonthOf ==
  ASSUME NEW y \in Nat, NEW m \in 1..12
  PROVE  /\ MonthStart(m, Leap(y)) \in Nat /\ MonthStart(1, Leap(y)) = 0
         /\ MonthStart(m, Leap(y)) + LengthIn(m, Leap(y)) <= YearLength(Leap(y))
         /\ LengthIn(m, Leap(y)) \in Nat /\ YearLength(Leap(y)) \in {365, 366}
<1>1. Leap(y) \in BOOLEAN
  BY DEF Leap
<1>2. LengthIn(m, Leap(y)) \in Nat
  BY DEF LengthIn
<1>3. YearLength(Leap(y)) \in {365, 366}
  BY DEF YearLength
<1> QED BY <1>1, <1>2, <1>3, MonthsAdd

\* Two dates of one month differ by their days.
LEMMA OrdinalInMonth ==
  ASSUME NEW d \in Calendar, NEW e \in Calendar, d.year = e.year, d.month = e.month
  PROVE  Ordinal(d) - d.day = Ordinal(e) - e.day
<1> DEFINE start == DaysBefore(d.year) + MonthStart(d.month, Leap(d.year))
<1>1. start \in Int
  <2>1. DaysBefore(d.year) \in Int
    BY CalendarDate, YearsAdd
  <2>2. MonthStart(d.month, Leap(d.year)) \in Nat
    BY CalendarDate, MonthOf
  <2> QED BY <2>1, <2>2
<1>2. Ordinal(d) = start + d.day /\ d.day \in Nat
  BY OrdinalIs
<1>3. Ordinal(e) = start + e.day /\ e.day \in Nat
  BY OrdinalIs
<1> HIDE DEF start
<1> QED BY <1>1, <1>2, <1>3

LEMMA OrdinalIsPositive ==
  ASSUME NEW d \in Calendar
  PROVE  Ordinal(d) \in Nat \ {0}
<1>1. d.year \in Nat \ {0} /\ d.month \in 1..12
  BY CalendarDate
<1>2. DaysBefore(1) = 0 /\ DaysBefore(1) <= DaysBefore(d.year) /\ DaysBefore(d.year) \in Int
  <2>1. DaysBefore(1) = 0
    BY DEF DaysBefore
  <2>2. 1 <= d.year
    BY <1>1
  <2> QED BY <1>1, <2>1, <2>2, YearsAdd, YearsGrow
<1>3. MonthStart(d.month, Leap(d.year)) \in Nat
  BY CalendarDate, MonthOf
<1> QED BY <1>2, <1>3, OrdinalIs

LEMMA OrdinalIsInjective ==
  ASSUME NEW d \in Calendar, NEW e \in Calendar, Ordinal(d) = Ordinal(e)
  PROVE  d = e
<1> DEFINE i == 12 * d.year + d.month
           j == 12 * e.year + e.month
<1>1. /\ d.year \in Nat /\ e.year \in Nat /\ d.month \in 1..12 /\ e.month \in 1..12
      /\ d.day \in Nat /\ e.day \in Nat
  BY CalendarDate
<1>2. Ordinal(d) \in Nat /\ Ordinal(e) \in Nat
  BY OrdinalIsPositive
<1>3. ~(i < j) /\ ~(j < i)
  BY <1>2, OrdinalOrders
<1>4. d.year = e.year /\ d.month = e.month
  BY <1>1, <1>3
<1>5. d.day = e.day
  BY <1>1, <1>2, <1>4, OrdinalInMonth
<1> QED BY <1>4, <1>5, CalendarDate

\* The day after: of the month, of the next month or of the next year.
LEMMA NextDay ==
  ASSUME NEW d \in Calendar
  PROVE  \E e \in Calendar : Ordinal(e) = Ordinal(d) + 1
<1> DEFINE y == d.year
           m == d.month
           day == d.day
           leap == Leap(y)
<1>1. /\ y \in Nat \ {0} /\ m \in 1..12 /\ day \in 1..MonthLength(y, m)
      /\ MonthLength(y, m) \in 28..31
  BY CalendarDate
<1>2. leap \in BOOLEAN
  BY DEF Leap
<1>3. Ordinal(d) = DaysBefore(y) + MonthStart(m, leap) + day /\ MonthLength(y, m) = LengthIn(m, leap)
  BY OrdinalIs
<1>4. DaysBefore(y) \in Int /\ MonthStart(m, leap) \in Nat
  BY <1>1, <1>2, YearsAdd, MonthsAdd
<1>5. CASE day < MonthLength(y, m)
  <2> DEFINE e == [year |-> y, month |-> m, day |-> day + 1]
  <2>1. day + 1 \in 1..MonthLength(y, m)
    BY <1>1, <1>5
  <2>2. e \in Calendar
    BY <1>1, <2>1, DateIs
  <2>3. e.year = d.year /\ e.month = d.month /\ e.day = day + 1
    OBVIOUS
  <2> HIDE DEF e
  <2>4. Ordinal(d) - d.day = Ordinal(e) - e.day
    BY <2>2, <2>3, OrdinalInMonth
  <2>5. Ordinal(d) \in Nat /\ Ordinal(e) \in Nat /\ day \in Nat
    BY <1>1, <2>2, OrdinalIsPositive
  <2> QED BY <2>2, <2>3, <2>4, <2>5
<1>6. CASE day = MonthLength(y, m) /\ m < 12
  <2> DEFINE e == [year |-> y, month |-> m + 1, day |-> 1]
  <2>1. m + 1 \in 1..12 /\ 1 \in 1..MonthLength(y, m + 1)
    BY <1>1, <1>6, MonthLengths
  <2>2. e \in Calendar
    BY <1>1, <2>1, DateIs
  <2>3. e.year = y /\ e.month = m + 1 /\ e.day = 1
    OBVIOUS
  <2> HIDE DEF e
  <2>4. Ordinal(e) = DaysBefore(y) + MonthStart(m + 1, leap) + 1
    BY <2>2, <2>3, OrdinalIs
  <2>5. MonthStart(m, leap) + LengthIn(m, leap) = MonthStart(m + 1, leap)
    BY <1>1, <1>2, <1>6, MonthsAdd
  <2> HIDE DEF y, m, day, leap
  <2> QED BY <1>1, <1>3, <1>4, <1>6, <2>2, <2>4, <2>5
<1>7. CASE day = MonthLength(y, m) /\ m = 12
  <2> DEFINE e == [year |-> y + 1, month |-> 1, day |-> 1]
  <2>1. y + 1 \in Nat \ {0} /\ 1 \in 1..MonthLength(y + 1, 1) /\ 1 \in 1..12
    BY <1>1, MonthLengths
  <2>2. e \in Calendar
    BY <2>1, DateIs
  <2>3. e.year = y + 1 /\ e.month = 1 /\ e.day = 1
    OBVIOUS
  <2> HIDE DEF e
  <2>4. Ordinal(e) = DaysBefore(y + 1) + MonthStart(1, Leap(y + 1)) + 1
    BY <2>2, <2>3, OrdinalIs
  <2>5. MonthStart(1, Leap(y + 1)) = 0
    BY <2>1, MonthOf
  <2>6. MonthStart(m, leap) + LengthIn(m, leap) = YearLength(leap)
    BY <1>1, <1>2, <1>7, MonthsAdd
  <2>7. DaysBefore(y + 1) = DaysBefore(y) + YearLength(leap) /\ YearLength(leap) \in Nat
    BY <1>1, YearsAdd DEF YearLength
  <2> HIDE DEF y, m, day, leap
  <2> QED BY <1>1, <1>3, <1>4, <1>7, <2>2, <2>4, <2>5, <2>6, <2>7
<1> HIDE DEF y, m, day, leap
<1> QED BY <1>1, <1>5, <1>6, <1>7

LEMMA LaterDay ==
  ASSUME NEW d \in Calendar, NEW n \in Nat
  PROVE  \E e \in Calendar : Ordinal(e) = Ordinal(d) + n
<1> DEFINE S == {k \in Nat : \E e \in Calendar : Ordinal(e) = Ordinal(d) + k}
<1>1. 0 \in S
  BY OrdinalIsPositive
<1>2. ASSUME NEW k \in Nat, k \in S
      PROVE  k + 1 \in S
  <2>1. PICK e \in Calendar : Ordinal(e) = Ordinal(d) + k
    BY <1>2
  <2>2. PICK f \in Calendar : Ordinal(f) = Ordinal(e) + 1
    BY NextDay
  <2>3. Ordinal(f) = Ordinal(d) + (k + 1)
    BY <2>1, <2>2, OrdinalIsPositive
  <2> QED BY <2>3
<1> HIDE DEF S
<1>3. Nat \subseteq S
  BY <1>1, <1>2, SetOfNaturals
<1> QED BY <1>3 DEF S

\* No year has fewer than 365 days.
LEMMA YearsAddUp ==
  ASSUME NEW y \in Nat \ {0}, NEW z \in Nat \ {0}, y <= z
  PROVE  DaysBefore(y) + 365 * (z - y) <= DaysBefore(z)
<1> DEFINE a == y - 1
           b == z - 1
<1>1. a \in Nat /\ b \in Nat /\ a <= b /\ z - y = b - a
  OBVIOUS
<1>2. /\ DaysBefore(y) = 365 * a + a \div 4 - a \div 100 + a \div 400
      /\ DaysBefore(z) = 365 * b + b \div 4 - b \div 100 + b \div 400
  BY DEF DaysBefore
<1> HIDE DEF a, b
<1> QED BY <1>1, <1>2

LEMMA AddDaysIs ==
  ASSUME NEW d \in Calendar, NEW days \in Nat
  PROVE  AddDays(d, days) \in Calendar /\ Ordinal(AddDays(d, days)) = Ordinal(d) + days
<1> DEFINE near == [year : d.year..(d.year + 1 + days \div 365), month : 1..12, day : 1..31]
<1>1. PICK e \in Calendar : Ordinal(e) = Ordinal(d) + days
  BY LaterDay
<1>2. /\ d.year \in Nat \ {0} /\ d.month \in 1..12 /\ d.day \in 1..31
      /\ e.year \in Nat \ {0} /\ e.month \in 1..12 /\ e.day \in 1..31
      /\ e = [year |-> e.year, month |-> e.month, day |-> e.day]
  BY CalendarDate
<1> DEFINE y == d.year
           z == e.year
<1>3. y <= z
  <2>1. ~(12 * z + e.month < 12 * y + d.month)
    <3> SUFFICES ASSUME 12 * z + e.month < 12 * y + d.month PROVE FALSE
      OBVIOUS
    <3>1. Ordinal(e) < Ordinal(d)
      BY OrdinalOrders
    <3> QED BY <1>1, <3>1, OrdinalIsPositive
  <2> QED BY <1>2, <2>1
<1>4. z <= y + 1 + days \div 365
  <2> DEFINE p == MonthStart(d.month, Leap(y)) + d.day
             q == MonthStart(e.month, Leap(z)) + e.day
  <2>1. p \in Nat /\ p <= 366 /\ Ordinal(d) = DaysBefore(y) + p
    <3>1. /\ MonthStart(d.month, Leap(y)) \in Nat
          /\ MonthStart(d.month, Leap(y)) + LengthIn(d.month, Leap(y)) <= YearLength(Leap(y))
      BY <1>2, MonthOf
    <3>2. YearLength(Leap(y)) \in Nat /\ YearLength(Leap(y)) <= 366
      BY <1>2, MonthOf
    <3>3. LengthIn(d.month, Leap(y)) \in Nat
      BY <1>2, MonthOf
    <3>4. /\ Ordinal(d) = DaysBefore(y) + MonthStart(d.month, Leap(y)) + d.day
          /\ d.day \in Nat /\ d.day <= LengthIn(d.month, Leap(y))
      BY OrdinalIs
    <3>5. DaysBefore(y) \in Int
      BY <1>2, YearsAdd
    <3> QED BY <3>1, <3>2, <3>3, <3>4, <3>5
  <2>2. q \in Nat \ {0} /\ Ordinal(e) = DaysBefore(z) + q
    <3>1. MonthStart(e.month, Leap(z)) \in Nat
      BY <1>2, MonthOf
    <3>2. /\ Ordinal(e) = DaysBefore(z) + MonthStart(e.month, Leap(z)) + e.day
          /\ e.day \in Nat /\ 1 <= e.day
      BY OrdinalIs
    <3>3. DaysBefore(z) \in Int
      BY <1>2, YearsAdd
    <3> QED BY <3>1, <3>2, <3>3
  <2>3. /\ DaysBefore(y) \in Int /\ DaysBefore(z) \in Int
        /\ DaysBefore(y) + 365 * (z - y) <= DaysBefore(z)
    BY <1>2, <1>3, YearsAdd, YearsAddUp
  <2> HIDE DEF p, q, y, z
  <2>4. y \in Nat /\ z \in Nat
    BY <1>2 DEF y, z
  <2>5. Ordinal(e) = Ordinal(d) + days
    BY <1>1
  <2>6. 365 * (z - y) < days + 366
    BY <2>1, <2>2, <2>3, <2>4, <2>5
  <2> QED BY <2>4, <2>6
<1>5. days \div 365 \in Nat
  OBVIOUS
<1>6. e \in near
  <2>1. e.year \in d.year..(d.year + 1 + days \div 365)
    BY <1>2, <1>3, <1>4, <1>5
  <2> QED BY <1>2, <2>1
<1>7. \E f \in near : f \in Calendar /\ Ordinal(f) = Ordinal(d) + days
  BY <1>1, <1>6
<1>8. AddDays(d, days) = CHOOSE f \in near : f \in Calendar /\ Ordinal(f) = Ordinal(d) + days
  BY DEF AddDays
<1> HIDE DEF near
<1> QED BY <1>7, <1>8

-----------------------------------------------------------------------------
(***************************************************************************)
(* Adding months and years.                                                *)
(***************************************************************************)

LEMMA MinOfNaturals ==
  ASSUME NEW S \in SUBSET Nat, S # {}
  PROVE  Min(S) \in S /\ \A n \in S : Min(S) <= n
<1>1. PICK m \in S : \A n \in S : m <= n
  BY LeastNatural
<1> QED BY <1>1 DEF Min

LEMMA MinOfMore ==
  ASSUME NEW S \in SUBSET Nat, S # {}, NEW a \in Nat
  PROVE  Min(S \cup {a}) = Min({Min(S), a})
<1> DEFINE T == S \cup {a}
           p == Min(S)
           q == Min(T)
<1>1. p \in S /\ \A n \in S : p <= n
  BY MinOfNaturals
<1>2. q \in T /\ \A n \in T : q <= n
  <2>1. T \in SUBSET Nat /\ T # {}
    OBVIOUS
  <2> HIDE DEF T
  <2> QED BY <2>1, MinOfNaturals
<1> HIDE DEF p, q
<1>3. p \in Nat /\ q \in Nat
  BY <1>1, <1>2
<1>4. Min({p, a}) = IF p <= a THEN p ELSE a
  BY <1>3, MinOfTwo
<1>5. q = IF p <= a THEN p ELSE a
  BY <1>1, <1>2, <1>3
<1> QED BY <1>4, <1>5 DEF p, q

\* Months, counted from the year 0; the date of a month with this day or, when it
\* has none, its last.
IndexOf(d) == 12 * d.year + d.month - 1
LengthAt(i) == MonthLength(i \div 12, (i % 12) + 1)
DateIn(i, day) ==
  [year |-> i \div 12, month |-> (i % 12) + 1, day |-> Min({day, LengthAt(i)})]

LEMMA IndexIs ==
  ASSUME NEW i \in Nat, i >= 12
  PROVE  /\ i \div 12 \in Nat \ {0} /\ (i % 12) + 1 \in 1..12
         /\ 12 * (i \div 12) + ((i % 12) + 1) - 1 = i
         /\ LengthAt(i) \in 28..31
<1>1. /\ i \div 12 \in Nat \ {0} /\ (i % 12) + 1 \in 1..12
      /\ 12 * (i \div 12) + ((i % 12) + 1) - 1 = i
  OBVIOUS
<1> QED BY <1>1, MonthLengths DEF LengthAt

LEMMA DateInIs ==
  ASSUME NEW i \in Nat, i >= 12, NEW day \in 1..LengthAt(i)
  PROVE  LET e == [year |-> i \div 12, month |-> (i % 12) + 1, day |-> day]
         IN  e \in Calendar /\ IndexOf(e) = i /\ e.day = day
<1> DEFINE y == i \div 12
           m == (i % 12) + 1
           e == [year |-> y, month |-> m, day |-> day]
<1>1. y \in Nat \ {0} /\ m \in 1..12 /\ 12 * y + m - 1 = i
  BY IndexIs
<1>2. day \in 1..MonthLength(y, m)
  BY DEF LengthAt
<1> HIDE DEF y, m
<1>3. e \in Calendar
  BY <1>1, <1>2, DateIs
<1>4. e.year = y /\ e.month = m /\ e.day = day
  OBVIOUS
<1> HIDE DEF e
<1>5. IndexOf(e) = i
  BY <1>1, <1>4 DEF IndexOf
<1> QED BY <1>3, <1>4, <1>5 DEF e, y, m

LEMMA CalendarIndex ==
  ASSUME NEW d \in Calendar
  PROVE  IndexOf(d) \in Nat /\ IndexOf(d) >= 12 /\ IndexOf(d) \div 12 = d.year
         /\ (IndexOf(d) % 12) + 1 = d.month /\ d.day \in Nat \ {0}
<1> DEFINE y == d.year
           m == d.month
<1>1. y \in Nat \ {0} /\ m \in 1..12 /\ d.day \in Nat \ {0}
  BY CalendarDate
<1>2. IndexOf(d) = 12 * y + m - 1
  BY DEF IndexOf
<1> HIDE DEF y, m
<1>3. /\ IndexOf(d) \in Nat /\ IndexOf(d) >= 12 /\ IndexOf(d) \div 12 = y
      /\ (IndexOf(d) % 12) + 1 = m
  BY <1>1, <1>2
<1> QED BY <1>1, <1>3 DEF y, m

LEMMA AddMonthsIs ==
  ASSUME NEW d \in Calendar, NEW n \in Nat
  PROVE  AddMonths(d, n) = DateIn(IndexOf(d) + n, d.day)
<1> DEFINE y == d.year
           m == d.month
           i == IndexOf(d) + n
           j == m - 1 + n
<1>1. y \in Nat \ {0} /\ m \in 1..12
  BY CalendarDate
<1>2. i = 12 * y + j /\ j \in Nat
  BY <1>1 DEF IndexOf
<1>3. AddMonths(d, n) =
        [year |-> y + j \div 12, month |-> (j % 12) + 1,
         day |-> Min({d.day, MonthLength(y + j \div 12, (j % 12) + 1)})]
  BY DEF AddMonths
<1>4. DateIn(i, d.day) =
        [year |-> i \div 12, month |-> (i % 12) + 1,
         day |-> Min({d.day, MonthLength(i \div 12, (i % 12) + 1)})]
  BY DEF DateIn, LengthAt
<1> HIDE DEF i, j, y, m
<1>5. i \div 12 = y + j \div 12 /\ i % 12 = j % 12
  BY <1>1, <1>2
<1>6. AddMonths(d, n) = DateIn(i, d.day)
  BY <1>3, <1>4, <1>5, Zenon
<1> QED BY <1>6 DEF i

LEMMA AddYearsIs ==
  ASSUME NEW d \in Calendar, NEW n \in Nat
  PROVE  AddYears(d, n) = DateIn(IndexOf(d) + 12 * n, d.day)
<1> DEFINE y == d.year
           m == d.month
           day == d.day
           i == IndexOf(d) + 12 * n
           new == Min({day, MonthLength(y + n, m)})
<1>1. y \in Nat \ {0} /\ m \in 1..12 /\ d = [year |-> y, month |-> m, day |-> day]
  BY CalendarDate
<1>2. AddYears(d, n) = [year |-> y + n, month |-> m, day |-> new]
  BY DEF AddYears
<1>3. i = 12 * (y + n) + m - 1
  BY <1>1 DEF IndexOf
<1>4. DateIn(i, day) =
        [year |-> i \div 12, month |-> (i % 12) + 1,
         day |-> Min({day, MonthLength(i \div 12, (i % 12) + 1)})]
  BY DEF DateIn, LengthAt
<1> HIDE DEF i, y, m, day
<1>5. i \div 12 = y + n /\ (i % 12) + 1 = m
  BY <1>1, <1>3
<1>6. DateIn(i, day) = [year |-> y + n, month |-> m, day |-> new]
  BY <1>4, <1>5, Zenon
<1> QED BY <1>2, <1>6 DEF i, day

\* A date moved by whole months is a date, so many months later.
LEMMA DateInMonth ==
  ASSUME NEW d \in Calendar, NEW n \in Nat \ {0}
  PROVE  /\ DateIn(IndexOf(d) + n, d.day) \in Calendar
         /\ IndexOf(DateIn(IndexOf(d) + n, d.day)) = IndexOf(d) + n
         /\ Ordinal(d) < Ordinal(DateIn(IndexOf(d) + n, d.day))
<1> DEFINE i == IndexOf(d) + n
           day == Min({d.day, LengthAt(i)})
           e == DateIn(i, d.day)
<1>1. i \in Nat /\ i >= 12 /\ d.day \in Nat \ {0} /\ IndexOf(d) \in Nat /\ IndexOf(d) < i
  BY CalendarIndex
<1> HIDE DEF i
<1>2. LengthAt(i) \in 28..31
  BY <1>1, IndexIs
<1>3. day \in 1..LengthAt(i)
  <2> DEFINE length == LengthAt(i)
  <2> HIDE DEF length
  <2>1. length \in 28..31
    BY <1>2 DEF length
  <2>2. Min({d.day, length}) = IF d.day <= length THEN d.day ELSE length
    BY <1>1, <2>1, MinOfTwo
  <2>3. Min({d.day, length}) \in 1..length
    BY <1>1, <2>1, <2>2
  <2> QED BY <2>3 DEF length
<1>4. e = [year |-> i \div 12, month |-> (i % 12) + 1, day |-> day]
  BY DEF DateIn
<1> HIDE DEF day, e
<1>5. e \in Calendar /\ IndexOf(e) = i
  BY <1>1, <1>3, <1>4, DateInIs
<1>6. Ordinal(d) < Ordinal(e)
  <2>1. d.year \in Nat /\ d.month \in Nat /\ e.year \in Nat /\ e.month \in Nat
    BY <1>5, CalendarDate
  <2>2. 12 * d.year + d.month < 12 * e.year + e.month
    BY <1>1, <1>5, <2>1 DEF IndexOf
  <2> QED BY <1>5, <2>2, OrdinalOrders
<1> QED BY <1>5, <1>6 DEF e, i

-----------------------------------------------------------------------------
(***************************************************************************)
(* Schedules.                                                              *)
(***************************************************************************)

\* What a task counts in: so many months, or so many days.
Counts(task) == task.interval \in Nat \ {0} /\ task.type \in {"days", "weeks", "months", "years"}
MonthsOf(task) == task.interval * IF task.type = "years" THEN 12 ELSE 1
DaysOf(task) == task.interval * IF task.type = "weeks" THEN 7 ELSE 1

LEMMA AdvanceIs ==
  ASSUME NEW d \in Calendar, NEW task, Counts(task)
  PROVE  LET e == Advance(task.type, task.interval, d)
         IN  /\ task.type \in {"days", "weeks"} => e = AddDays(d, DaysOf(task))
             /\ task.type \in {"months", "years"} => e = DateIn(IndexOf(d) + MonthsOf(task), d.day)
             /\ MonthsOf(task) \in Nat \ {0} /\ DaysOf(task) \in Nat \ {0}
<1> DEFINE n == task.interval
           e == Advance(task.type, n, d)
<1>1. n \in Nat \ {0} /\ task.type \in {"days", "weeks", "months", "years"}
  BY DEF Counts
<1>2. MonthsOf(task) \in Nat \ {0} /\ DaysOf(task) \in Nat \ {0}
  BY <1>1 DEF MonthsOf, DaysOf
<1>3. CASE task.type = "days"
  <2>1. e = AddDays(d, n)
    BY <1>3 DEF Advance
  <2>2. DaysOf(task) = n
    BY <1>1, <1>3 DEF DaysOf
  <2> QED BY <1>2, <1>3, <2>1, <2>2
<1>4. CASE task.type = "weeks"
  <2>1. e = AddDays(d, 7 * n)
    BY <1>4 DEF Advance
  <2>2. DaysOf(task) = 7 * n
    BY <1>1, <1>4 DEF DaysOf
  <2> QED BY <1>2, <1>4, <2>1, <2>2
<1>5. CASE task.type = "months"
  <2>1. e = AddMonths(d, n)
    BY <1>5 DEF Advance
  <2>2. MonthsOf(task) = n
    BY <1>1, <1>5 DEF MonthsOf
  <2> QED BY <1>1, <1>2, <1>5, <2>1, <2>2, AddMonthsIs
<1>6. CASE task.type = "years"
  <2>1. e = AddYears(d, n)
    BY <1>6 DEF Advance
  <2>2. MonthsOf(task) = 12 * n
    BY <1>1, <1>6 DEF MonthsOf
  <2> QED BY <1>1, <1>2, <1>6, <2>1, <2>2, AddYearsIs
<1> QED BY <1>1, <1>3, <1>4, <1>5, <1>6

\* Whatever a task counts in, it moves on by a day at least.
LEMMA AdvanceIsLater ==
  ASSUME NEW d \in Calendar, NEW task, Counts(task)
  PROVE  LET e == Advance(task.type, task.interval, d)
         IN  e \in Calendar /\ Ordinal(d) < Ordinal(e)
<1> DEFINE e == Advance(task.type, task.interval, d)
<1>1. CASE task.type \in {"days", "weeks"}
  <2>1. e = AddDays(d, DaysOf(task)) /\ DaysOf(task) \in Nat \ {0}
    BY <1>1, AdvanceIs
  <2> HIDE DEF e
  <2>2. e \in Calendar /\ Ordinal(e) = Ordinal(d) + DaysOf(task)
    BY <2>1, AddDaysIs
  <2>3. Ordinal(d) \in Nat
    BY OrdinalIsPositive
  <2>4. Ordinal(d) < Ordinal(e)
    BY <2>1, <2>2, <2>3
  <2> QED BY <2>2, <2>4 DEF e
<1>2. CASE task.type \in {"months", "years"}
  <2>1. e = DateIn(IndexOf(d) + MonthsOf(task), d.day) /\ MonthsOf(task) \in Nat \ {0}
    BY <1>2, AdvanceIs
  <2> HIDE DEF e
  <2>2. e \in Calendar /\ Ordinal(d) < Ordinal(e)
    BY <2>1, DateInMonth
  <2> QED BY <2>2 DEF e
<1> QED BY <1>1, <1>2 DEF Counts

\* The days that the months of a schedule have had up to the k-th.
DaysUpTo(task, base, k) ==
  {base.day} \cup {LengthAt(IndexOf(base) + j * MonthsOf(task)) : j \in 1..k}

LEMMA ScheduledIs ==
  ASSUME NEW base \in Calendar, NEW task, Counts(task), NEW k \in Nat
  PROVE  /\ task.type \in {"days", "weeks"} =>
              Scheduled(task, base, k) = AddDays(base, k * DaysOf(task))
         /\ task.type \in {"months", "years"} =>
              LET i == IndexOf(base) + k * MonthsOf(task)
              IN  Scheduled(task, base, k) =
                    [year |-> i \div 12, month |-> (i % 12) + 1,
                     day |-> Min(DaysUpTo(task, base, k))]
<1> DEFINE months == task.interval * IF task.type = "years" THEN 12 ELSE 1
           month(j) == 12 * base.year + base.month - 1 + j * months
           length(j) == MonthLength(month(j) \div 12, (month(j) % 12) + 1)
<1>1. Scheduled(task, base, k) =
        IF task.type \in {"days", "weeks"}
          THEN AddDays(base, k * task.interval * IF task.type = "weeks" THEN 7 ELSE 1)
          ELSE [year |-> month(k) \div 12, month |-> (month(k) % 12) + 1,
                day |-> Min({base.day} \cup {length(j) : j \in 1..k})]
  BY DEF Scheduled
<1>2. ASSUME task.type \in {"days", "weeks"}
      PROVE  Scheduled(task, base, k) = AddDays(base, k * DaysOf(task))
  <2> DEFINE n == task.interval
             f == IF task.type = "weeks" THEN 7 ELSE 1
  <2>1. n \in Nat /\ f \in Nat
    BY DEF Counts
  <2>2. DaysOf(task) = n * f
    BY DEF DaysOf
  <2>3. Scheduled(task, base, k) = AddDays(base, k * n * f)
    BY <1>1, <1>2
  <2> HIDE DEF n, f
  <2>4. k * n * f = k * (n * f)
    BY <2>1
  <2> QED BY <2>2, <2>3, <2>4
<1>3. ASSUME task.type \in {"months", "years"}
      PROVE  LET i == IndexOf(base) + k * MonthsOf(task)
             IN  Scheduled(task, base, k) =
                   [year |-> i \div 12, month |-> (i % 12) + 1,
                    day |-> Min(DaysUpTo(task, base, k))]
  <2>1. \A j \in Nat : month(j) = IndexOf(base) + j * MonthsOf(task)
    BY DEF IndexOf, MonthsOf
  <2>2. \A j \in Nat : length(j) = LengthAt(IndexOf(base) + j * MonthsOf(task))
    BY <2>1 DEF LengthAt
  <2> HIDE DEF month, length
  <2>3. {base.day} \cup {length(j) : j \in 1..k} = DaysUpTo(task, base, k)
    <3>1. \A j \in 1..k : length(j) = LengthAt(IndexOf(base) + j * MonthsOf(task))
      BY <2>2
    <3> QED BY <3>1 DEF DaysUpTo
  <2>4. month(k) = IndexOf(base) + k * MonthsOf(task)
    BY <2>1
  <2>5. task.type \notin {"days", "weeks"}
    BY <1>3
  <2> QED BY <1>1, <2>3, <2>4, <2>5
<1> QED BY <1>2, <1>3

\* The least day of the months so far is a day of each; a further month may have fewer.
LEMMA DaysUpToIs ==
  ASSUME NEW base \in Calendar, NEW task, Counts(task), NEW k \in Nat \ {0}
  PROVE  LET i(j) == IndexOf(base) + j * MonthsOf(task)
             day == Min(DaysUpTo(task, base, k))
         IN  /\ i(k) \in Nat /\ i(k) >= 12 /\ i(k + 1) = i(k) + MonthsOf(task)
             /\ day \in 1..LengthAt(i(k))
             /\ Min(DaysUpTo(task, base, k + 1)) = Min({day, LengthAt(i(k + 1))})
             /\ DaysUpTo(task, base, 1) = {base.day, LengthAt(i(1))}
<1> DEFINE n == MonthsOf(task)
           i(j) == IndexOf(base) + j * n
           days == DaysUpTo(task, base, k)
<1>1. /\ IndexOf(base) \in Nat /\ IndexOf(base) >= 12
      /\ base.day \in Nat \ {0} /\ n \in Nat \ {0}
  BY CalendarIndex, AdvanceIs
<1>2. \A j \in Nat : i(j) \in Nat /\ i(j) >= 12
  <2> TAKE j \in Nat
  <2> HIDE DEF n
  <2>1. j * n \in Nat
    BY <1>1
  <2> QED BY <1>1, <2>1
<1>3. \A j \in Nat : LengthAt(i(j)) \in Nat \ {0}
  <2> TAKE j \in Nat
  <2>1. LengthAt(i(j)) \in 28..31
    <3> HIDE DEF i
    <3> QED BY <1>2, IndexIs
  <2> QED BY <2>1
<1>4. i(k + 1) = i(k) + n
  <2> HIDE DEF n
  <2>1. (k + 1) * n = k * n + n /\ k * n \in Nat
    BY <1>1
  <2> QED BY <1>1, <2>1
<1>5. \A m \in Nat : DaysUpTo(task, base, m) = {base.day} \cup {LengthAt(i(j)) : j \in 1..m}
  BY DEF DaysUpTo
<1> HIDE DEF i, days
<1>6. days \in SUBSET (Nat \ {0}) /\ LengthAt(i(k)) \in days /\ days # {}
  BY <1>1, <1>3, <1>5 DEF days
<1>7. Min(days) \in days /\ \A x \in days : Min(days) <= x
  BY <1>6, MinOfNaturals
<1>8. Min(days) \in 1..LengthAt(i(k))
  <2> DEFINE least == Min(days)
             length == LengthAt(i(k))
  <2>1. least \in Nat \ {0} /\ length \in Nat \ {0} /\ least <= length
    BY <1>3, <1>6, <1>7
  <2> HIDE DEF least, length
  <2>2. least \in 1..length
    BY <2>1
  <2> QED BY <2>2 DEF least, length
<1>9. DaysUpTo(task, base, k + 1) = days \cup {LengthAt(i(k + 1))}
  <2>1. 1..(k + 1) = (1..k) \cup {k + 1}
    OBVIOUS
  <2>2. DaysUpTo(task, base, k + 1) =
          {base.day} \cup {LengthAt(i(j)) : j \in (1..k) \cup {k + 1}}
    BY <1>5, <2>1
  <2>3. days = {base.day} \cup {LengthAt(i(j)) : j \in 1..k}
    BY <1>5 DEF days
  <2> QED BY <2>2, <2>3
<1>10. LengthAt(i(k + 1)) \in Nat
  BY <1>3
<1>11. Min(DaysUpTo(task, base, k + 1)) = Min({Min(days), LengthAt(i(k + 1))})
  BY <1>6, <1>9, <1>10, MinOfMore
<1>12. DaysUpTo(task, base, 1) = {base.day, LengthAt(i(1))}
  <2>1. 1..1 = {1}
    OBVIOUS
  <2>2. DaysUpTo(task, base, 1) = {base.day} \cup {LengthAt(i(j)) : j \in {1}}
    BY <1>5, <2>1
  <2> QED BY <2>2
<1> QED BY <1>2, <1>4, <1>8, <1>11, <1>12 DEF i, days

\* The schedule is what advancing yields, one date after the other.
LEMMA ScheduleAdvances ==
  ASSUME NEW base \in Calendar, NEW task, Counts(task)
  PROVE  /\ Advance(task.type, task.interval, base) = Scheduled(task, base, 1)
         /\ \A k \in Nat \ {0} :
              /\ Scheduled(task, base, k) \in Calendar
              /\ Advance(task.type, task.interval, Scheduled(task, base, k)) =
                   Scheduled(task, base, k + 1)
<1> DEFINE advance(d) == Advance(task.type, task.interval, d)
           at(k) == Scheduled(task, base, k)
<1>1. CASE task.type \in {"days", "weeks"}
  <2> DEFINE n == DaysOf(task)
  <2>1. /\ \A d \in Calendar : advance(d) = AddDays(d, n)
        /\ n \in Nat \ {0}
    BY <1>1, AdvanceIs
  <2>2. \A k \in Nat : at(k) = AddDays(base, k * n)
    BY <1>1, ScheduledIs
  <2> HIDE DEF n, advance, at
  <2>3. advance(base) = at(1)
    BY <2>1, <2>2
  <2>4. ASSUME NEW k \in Nat \ {0}
        PROVE  at(k) \in Calendar /\ advance(at(k)) = at(k + 1)
    <3>1. k * n \in Nat /\ (k + 1) * n = k * n + n
      BY <2>1
    <3>2. at(k) \in Calendar /\ Ordinal(at(k)) = Ordinal(base) + k * n
      BY <2>2, <3>1, AddDaysIs
    <3>3. at(k + 1) \in Calendar /\ Ordinal(at(k + 1)) = Ordinal(base) + (k * n + n)
      <4>1. k * n + n \in Nat
        BY <2>1, <3>1
      <4>2. at(k + 1) = AddDays(base, k * n + n)
        BY <2>2, <3>1
      <4> QED BY <4>1, <4>2, AddDaysIs
    <3>4. advance(at(k)) \in Calendar /\ Ordinal(advance(at(k))) = Ordinal(at(k)) + n
      BY <2>1, <3>2, AddDaysIs
    <3>5. Ordinal(advance(at(k))) = Ordinal(at(k + 1))
      <4> DEFINE p == k * n
      <4> HIDE DEF p
      <4>1. p \in Nat /\ Ordinal(at(k)) = Ordinal(base) + p
              /\ Ordinal(at(k + 1)) = Ordinal(base) + (p + n)
        BY <3>1, <3>2, <3>3 DEF p
      <4> QED BY <2>1, <3>4, <4>1, OrdinalIsPositive
    <3> QED BY <3>2, <3>3, <3>4, <3>5, OrdinalIsInjective
  <2> QED BY <2>3, <2>4 DEF advance, at
<1>2. CASE task.type \in {"months", "years"}
  <2> DEFINE n == MonthsOf(task)
             i(k) == IndexOf(base) + k * n
             day(k) == Min(DaysUpTo(task, base, k))
  <2>1. /\ \A d \in Calendar : advance(d) = DateIn(IndexOf(d) + n, d.day)
        /\ n \in Nat \ {0}
    BY <1>2, AdvanceIs
  <2>2. \A k \in Nat : at(k) = [year |-> i(k) \div 12, month |-> (i(k) % 12) + 1, day |-> day(k)]
    BY <1>2, ScheduledIs
  <2>3. \A k \in Nat \ {0} :
          /\ i(k) \in Nat /\ i(k) >= 12 /\ i(k + 1) = i(k) + n
          /\ day(k) \in 1..LengthAt(i(k)) /\ day(k + 1) = Min({day(k), LengthAt(i(k + 1))})
    BY DaysUpToIs
  <2>4. day(1) = Min({base.day, LengthAt(i(1))})
    <3>1. 1 \in Nat \ {0}
      OBVIOUS
    <3>2. DaysUpTo(task, base, 1) = {base.day, LengthAt(IndexOf(base) + 1 * MonthsOf(task))}
      BY <3>1, DaysUpToIs, Zenon
    <3> QED BY <3>2
  <2>5. i(1) = IndexOf(base) + n
    BY <2>1, CalendarIndex
  <2> HIDE DEF n, i, day, advance, at
  <2>6. advance(base) = at(1)
    BY <2>1, <2>2, <2>4, <2>5 DEF DateIn
  <2>7. ASSUME NEW k \in Nat \ {0}
        PROVE  at(k) \in Calendar /\ advance(at(k)) = at(k + 1)
    <3>1. at(k) \in Calendar /\ IndexOf(at(k)) = i(k) /\ at(k).day = day(k)
      <4> DEFINE e == [year |-> i(k) \div 12, month |-> (i(k) % 12) + 1, day |-> day(k)]
      <4>1. at(k) = e
        BY <2>2
      <4>2. i(k) \in Nat /\ i(k) >= 12 /\ day(k) \in 1..LengthAt(i(k))
        BY <2>3
      <4>3. e \in Calendar /\ IndexOf(e) = i(k) /\ e.day = day(k)
        BY <4>2, DateInIs, Zenon
      <4> QED BY <4>1, <4>3, Zenon
    <3>2. advance(at(k)) = DateIn(i(k + 1), day(k))
      BY <2>1, <2>3, <3>1
    <3>3. at(k + 1) = [year |-> i(k + 1) \div 12, month |-> (i(k + 1) % 12) + 1, day |-> day(k + 1)]
      BY <2>2
    <3> QED BY <2>3, <3>1, <3>2, <3>3 DEF DateIn
  <2> QED BY <2>6, <2>7 DEF advance, at
<1> QED BY <1>1, <1>2 DEF Counts

\* Its dates move on by a day at least.
LEMMA ScheduleGrows ==
  ASSUME NEW base \in Calendar, NEW task, Counts(task), NEW k \in Nat \ {0}
  PROVE  Ordinal(base) + k <= Ordinal(Scheduled(task, base, k))
<1> DEFINE at(n) == Scheduled(task, base, n)
           S == {n \in Nat : Ordinal(base) + (n + 1) <= Ordinal(at(n + 1))}
<1>1. \A n \in Nat \ {0} : at(n) \in Calendar /\ Ordinal(at(n)) \in Nat /\ Ordinal(base) \in Nat
  BY ScheduleAdvances, OrdinalIsPositive
<1>2. 0 \in S
  <2>1. Ordinal(base) < Ordinal(at(1))
    <3>1. Advance(task.type, task.interval, base) = at(1)
      BY ScheduleAdvances
    <3> QED BY <3>1, AdvanceIsLater
  <2> HIDE DEF at
  <2> QED BY <1>1, <2>1
<1>3. ASSUME NEW n \in Nat, n \in S
      PROVE  n + 1 \in S
  <2>1. n + 1 \in Nat \ {0} /\ n + 2 = (n + 1) + 1
    OBVIOUS
  <2>2. Advance(task.type, task.interval, at(n + 1)) = at(n + 2)
    BY <2>1, ScheduleAdvances
  <2>3. Ordinal(at(n + 1)) < Ordinal(at(n + 2))
    BY <1>1, <2>1, <2>2, AdvanceIsLater
  <2> HIDE DEF at
  <2>4. Ordinal(at(n + 1)) \in Nat /\ Ordinal(at(n + 2)) \in Nat /\ Ordinal(base) \in Nat
    BY <1>1, <2>1
  <2>5. Ordinal(base) + (n + 1) <= Ordinal(at(n + 1))
    BY <1>3
  <2>6. Ordinal(base) + (n + 2) <= Ordinal(at(n + 2))
    BY <2>3, <2>4, <2>5
  <2> QED BY <2>1, <2>6
<1> HIDE DEF S
<1>4. Nat \subseteq S
  BY <1>2, <1>3, SetOfNaturals
<1>5. k - 1 \in S /\ (k - 1) + 1 = k
  BY <1>4
<1> QED BY <1>5 DEF S

-----------------------------------------------------------------------------
(***************************************************************************)
(* The loop over missed dates.                                             *)
(***************************************************************************)

\* The loop of calculate_next_due, as a function of the date it starts from.
Later(task, on) ==
  CHOOSE f : f = [d \in Calendar |-> IF Missed(d, on)
                                       THEN f[Advance(task.type, task.interval, d)] ELSE d]

\* It ends, whatever date it starts from: by induction on how long ago that was.
LEMMA LoopEnds ==
  ASSUME NEW task, Counts(task), NEW on \in Calendar, NEW d \in Calendar
  PROVE  Later(task, on)[d] =
           IF Missed(d, on) THEN Later(task, on)[Advance(task.type, task.interval, d)] ELSE d
<1> DEFINE advance(e) == Advance(task.type, task.interval, e)
           Since(n) == {e \in Calendar : Ordinal(e) + n > Ordinal(on)}
           Body(f, e) == IF Missed(e, on) THEN f[advance(e)] ELSE e
           S == {n \in Nat : \E f : f = [e \in Since(n) |-> Body(f, e)]}
<1>1. \A e \in Calendar : /\ advance(e) \in Calendar /\ Ordinal(e) < Ordinal(advance(e))
                          /\ Ordinal(e) \in Nat \ {0} /\ Ordinal(advance(e)) \in Nat
  <2> TAKE e \in Calendar
  <2>1. advance(e) \in Calendar /\ Ordinal(e) < Ordinal(advance(e))
    BY AdvanceIsLater
  <2> HIDE DEF advance
  <2> QED BY <2>1, OrdinalIsPositive
<1>2. Ordinal(on) \in Nat
  BY OrdinalIsPositive
<1> HIDE DEF advance
<1>3. 0 \in S
  <2> DEFINE f == [e \in Since(0) |-> e]
  <2>1. \A e \in Since(0) : Body(f, e) = e
    <3> TAKE e \in Since(0)
    <3>1. ~Missed(e, on)
      BY <1>1, <1>2 DEF Missed
    <3> QED BY <3>1
  <2>2. f = [e \in Since(0) |-> Body(f, e)]
    <3> HIDE DEF Body, Since
    <3> QED BY <2>1
  <2> QED BY <2>2
<1>4. ASSUME NEW n \in Nat, n \in S
      PROVE  n + 1 \in S
  <2>1. PICK f : f = [e \in Since(n) |-> Body(f, e)]
    BY <1>4
  <2> DEFINE g == [e \in Since(n + 1) |-> Body(f, e)]
  <2>2. \A e \in Since(n) : e \in Since(n + 1) /\ g[e] = f[e]
    <3> TAKE e \in Since(n)
    <3>1. e \in Since(n + 1)
      BY <1>1, <1>2
    <3> HIDE DEF Since, Body
    <3>2. g[e] = Body(f, e)
      BY <3>1
    <3>3. f[e] = Body(f, e)
      BY <2>1
    <3> QED BY <3>1, <3>2, <3>3
  <2>3. \A e \in Since(n + 1) : Body(g, e) = Body(f, e)
    <3> TAKE e \in Since(n + 1)
    <3>1. advance(e) \in Since(n)
      BY <1>1, <1>2
    <3>2. g[advance(e)] = f[advance(e)]
      <4> HIDE DEF Since, g
      <4> QED BY <2>2, <3>1
    <3> HIDE DEF g
    <3> QED BY <3>2
  <2>4. g = [e \in Since(n + 1) |-> Body(g, e)]
    <3> DEFINE h == [e \in Since(n + 1) |-> Body(g, e)]
    <3>1. \A e \in Since(n + 1) : g[e] = h[e]
      <4> HIDE DEF Body, Since
      <4> QED BY <2>3
    <3> HIDE DEF Body, Since
    <3> QED BY <3>1
  <2> HIDE DEF g, Since, Body
  <2> QED BY <2>4
<1> HIDE DEF S
<1>5. Ordinal(on) \in S
  BY <1>2, <1>3, <1>4, SetOfNaturals
<1>6. Since(Ordinal(on)) = Calendar
  BY <1>1, <1>2
<1>7. \E f : f = [e \in Calendar |-> Body(f, e)]
  <2> HIDE DEF Since, Body
  <2> QED BY <1>5, <1>6 DEF S
<1> DEFINE f == Later(task, on)
<1>8. f = CHOOSE g : g = [e \in Calendar |-> Body(g, e)]
  BY DEF Later, advance
<1>9. f = [e \in Calendar |-> Body(f, e)]
  <2> HIDE DEF Body, f
  <2> QED BY <1>7, <1>8
<1>10. f[d] = Body(f, d)
  <2> HIDE DEF Body, f
  <2> QED BY <1>9
<1> QED BY <1>10 DEF advance

\* It stops at the first date of the schedule that was not missed.
LEMMA LoopFinds ==
  ASSUME NEW base \in Calendar, NEW task, Counts(task), NEW on \in Calendar
  PROVE  \E k \in Nat \ {0} :
           /\ Later(task, on)[Advance(task.type, task.interval, base)] = Scheduled(task, base, k)
           /\ ~Missed(Scheduled(task, base, k), on)
           /\ k = 1 \/ Missed(Scheduled(task, base, k - 1), on)
<1> DEFINE at(n) == Scheduled(task, base, n)
           later == Later(task, on)
           P == {n \in Nat \ {0} : ~Missed(at(n), on)}
<1>1. /\ Advance(task.type, task.interval, base) = at(1)
      /\ \A n \in Nat \ {0} : at(n) \in Calendar /\ Ordinal(at(n)) \in Nat
                                /\ Advance(task.type, task.interval, at(n)) = at(n + 1)
  BY ScheduleAdvances, OrdinalIsPositive
<1>2. \A n \in Nat \ {0} : later[at(n)] = IF Missed(at(n), on) THEN later[at(n + 1)] ELSE at(n)
  <2> TAKE n \in Nat \ {0}
  <2> HIDE DEF at, later
  <2>1. later[at(n)] = IF Missed(at(n), on)
                         THEN later[Advance(task.type, task.interval, at(n))] ELSE at(n)
    BY <1>1, LoopEnds DEF later
  <2> QED BY <1>1, <2>1
<1>3. P # {}
  <2> DEFINE n == Ordinal(on) + 1
  <2>1. n \in Nat \ {0} /\ Ordinal(base) \in Nat /\ Ordinal(on) \in Nat
    BY OrdinalIsPositive
  <2>2. Ordinal(base) + n <= Ordinal(at(n))
    BY <2>1, ScheduleGrows
  <2>3. Ordinal(at(n)) \in Nat
    BY <1>1, <2>1
  <2>4. Ordinal(on) < Ordinal(at(n))
    <3> DEFINE o == Ordinal(at(n))
    <3>1. o \in Nat /\ Ordinal(base) + n <= o
      BY <2>2, <2>3
    <3> HIDE DEF o
    <3>2. Ordinal(on) < o
      BY <2>1, <3>1
    <3> QED BY <3>2 DEF o
  <2>5. ~Missed(at(n), on)
    <3> DEFINE o == Ordinal(at(n))
    <3>1. o \in Nat /\ Ordinal(on) < o /\ Ordinal(on) \in Nat
      BY <2>1, <2>3, <2>4
    <3> HIDE DEF o
    <3>2. ~(o <= Ordinal(on))
      BY <3>1
    <3> QED BY <3>2 DEF o, Missed
  <2> QED BY <2>1, <2>5
<1>4. PICK k \in P : \A n \in P : k <= n
  <2>1. P \in SUBSET Nat
    OBVIOUS
  <2> HIDE DEF P
  <2> QED BY <1>3, <2>1, LeastNatural
<1> DEFINE S == {n \in Nat : n < k => later[at(1)] = later[at(n + 1)]}
<1>5. k \in Nat \ {0} /\ ~Missed(at(k), on)
  BY <1>4
<1>6. \A n \in Nat \ {0} : n < k => Missed(at(n), on)
  <2> TAKE n \in Nat \ {0}
  <2> HAVE n < k
  <2>1. n \notin P
    <3> HIDE DEF P
    <3> QED BY <1>4, <1>5
  <2> QED BY <2>1
<1> HIDE DEF at, later, P
<1>7. 0 \in S
  OBVIOUS
<1>8. ASSUME NEW n \in Nat, n \in S
      PROVE  n + 1 \in S
  <2>1. n + 1 \in Nat \ {0}
    OBVIOUS
  <2>2. n + 1 < k => later[at(n + 1)] = later[at((n + 1) + 1)]
    BY <1>2, <1>6, <2>1
  <2>3. n + 1 < k => later[at(1)] = later[at(n + 1)]
    BY <1>5, <1>8
  <2> QED BY <2>1, <2>2, <2>3
<1> HIDE DEF S
<1>9. k - 1 \in S /\ (k - 1) + 1 = k /\ k - 1 < k
  BY <1>5, <1>7, <1>8, SetOfNaturals
<1>10. later[at(1)] = later[at(k)]
  BY <1>9 DEF S
<1>11. later[at(k)] = at(k)
  BY <1>2, <1>5
<1>12. k = 1 \/ Missed(at(k - 1), on)
  BY <1>5, <1>6
<1> QED BY <1>1, <1>5, <1>10, <1>11, <1>12 DEF at, later

LEMMA MaxWithZero ==
  ASSUME NEW x \in Int
  PROVE  Max({0, x}) = IF x >= 0 THEN x ELSE 0
BY DEF Max

\* calculate_next_due: a date, the first of the schedule that is not missed.
LEMMA NextDueIs ==
  ASSUME NEW task, Counts(task), task.mode \in {"completion", "scheduled"},
         task.due \in Calendar \cup {NoDue}, NEW on \in Calendar
  PROVE  LET base == IF task.mode = "completion" \/ task.due = NoDue THEN on ELSE task.due
             due == NextDue(task, on)
         IN  /\ due \in Calendar /\ Ordinal(due) > Ordinal(on)
             /\ \E k \in 1..(Max({0, Ordinal(on) - Ordinal(base)}) + 1) :
                  /\ due = Scheduled(task, base, k)
                  /\ k = 1 \/ Ordinal(Scheduled(task, base, k - 1)) <= Ordinal(on)
<1> DEFINE base == IF task.mode = "completion" \/ task.due = NoDue THEN on ELSE task.due
           due == NextDue(task, on)
           bound == Max({0, Ordinal(on) - Ordinal(base)}) + 1
           at(k) == Scheduled(task, base, k)
           advance(d) == Advance(task.type, task.interval, d)
<1>1. base \in Calendar
  OBVIOUS
<1>2. /\ due = IF task.mode = "completion" THEN advance(on) ELSE Later(task, on)[advance(base)]
      /\ task.mode = "completion" => base = on
  BY DEF NextDue, Later
<1> HIDE DEF base, due
<1>3. /\ advance(base) = at(1) /\ Ordinal(base) < Ordinal(advance(base))
      /\ \A k \in Nat \ {0} : /\ at(k) \in Calendar /\ Ordinal(at(k)) \in Nat
                              /\ Ordinal(base) + k <= Ordinal(at(k))
  BY <1>1, ScheduleAdvances, AdvanceIsLater, ScheduleGrows, OrdinalIsPositive
<1>4. Ordinal(on) \in Nat /\ Ordinal(base) \in Nat
  BY <1>1, OrdinalIsPositive
<1>5. bound \in Nat \ {0} /\ Ordinal(on) - Ordinal(base) + 1 <= bound
  <2> DEFINE x == Ordinal(on) - Ordinal(base)
  <2>1. x \in Int
    BY <1>4
  <2> HIDE DEF x
  <2>2. Max({0, x}) = IF x >= 0 THEN x ELSE 0
    BY <2>1, MaxWithZero
  <2>3. Max({0, x}) + 1 \in Nat \ {0} /\ x + 1 <= Max({0, x}) + 1
    BY <2>1, <2>2
  <2> QED BY <2>3 DEF x
<1> HIDE DEF bound, advance
<1>6. CASE task.mode = "completion"
  <2>1. due = at(1) /\ Ordinal(on) < Ordinal(at(1))
    BY <1>2, <1>3, <1>6
  <2>2. Ordinal(due) > Ordinal(on) /\ due \in Calendar
    <3> HIDE DEF at
    <3> QED BY <1>3, <1>4, <2>1
  <2>3. 1 \in 1..bound
    BY <1>5
  <2> QED BY <2>1, <2>2, <2>3 DEF base, due, bound
<1>7. CASE task.mode # "completion"
  <2>1. PICK k \in Nat \ {0} : /\ due = at(k) /\ ~Missed(at(k), on)
                               /\ k = 1 \/ Missed(at(k - 1), on)
    BY <1>1, <1>2, <1>7, LoopFinds DEF advance
  <2> HIDE DEF at
  <2>2. Ordinal(due) > Ordinal(on) /\ due \in Calendar
    BY <1>3, <1>4, <2>1 DEF Missed
  <2>3. k = 1 \/ Ordinal(at(k - 1)) <= Ordinal(on)
    BY <2>1 DEF Missed
  <2>4. k \in 1..bound
    <3>1. CASE k = 1
      BY <1>5, <3>1
    <3>2. CASE k # 1
      <4>1. k - 1 \in Nat \ {0}
        BY <3>2
      <4>2. Ordinal(base) + (k - 1) <= Ordinal(at(k - 1)) /\ Ordinal(at(k - 1)) \in Nat
        BY <1>3, <4>1
      <4>3. k <= Ordinal(on) - Ordinal(base) + 1
        BY <1>4, <2>3, <3>2, <4>2
      <4> QED BY <1>4, <1>5, <4>3
    <3> QED BY <3>1, <3>2
  <2>5. \E n \in 1..bound : due = at(n) /\ (n = 1 \/ Ordinal(at(n - 1)) <= Ordinal(on))
    BY <2>1, <2>3, <2>4
  <2> QED BY <2>2, <2>5 DEF base, due, bound, at
<1> QED BY <1>6, <1>7

-----------------------------------------------------------------------------
(***************************************************************************)
(* Recurring tasks and reviews.                                            *)
(***************************************************************************)

LEMMA RecurrenceInitInv ==
  ASSUME RecurrenceInit
  PROVE  RecurrenceTypeOK
<1>1. PICK i \in Intervals : TRUE
  BY RecurrenceConstants
<1>2. [type |-> "days", interval |-> i, mode |-> "completion", due |-> NoDue]
        \in RecurringWith({NoDue})
  BY DEF RecurringWith
<1>3. recurring \in RecurringWith({NoDue})
  BY <1>2 DEF RecurrenceInit
<1> QED BY <1>3 DEF RecurrenceInit, RecurrenceTypeOK, RecurringWith, Reviewed

\* The columns of a recurring task, as NextDueIs asks for them.
LEMMA RecurringCounts ==
  ASSUME RecurrenceTypeOK
  PROVE  /\ Counts(recurring) /\ recurring.mode \in {"completion", "scheduled"}
         /\ recurring.due \in Calendar \cup {NoDue}
BY RecurrenceConstants DEF RecurrenceTypeOK, RecurringWith, Counts

LEMMA CompleteIs ==
  ASSUME RecurrenceTypeOK, NEW on \in SomeDates, Complete(on)
  PROVE  /\ on \in Calendar /\ recurring'.due = NextDue(recurring, on)
         /\ recurring' = [recurring EXCEPT !.due = NextDue(recurring, on)]
         /\ recurring'.due \in Calendar /\ Ordinal(recurring'.due) > Ordinal(on)
<1>1. on \in Calendar
  BY RecurrenceConstants
<1>2. /\ recurring' = [recurring EXCEPT !.due = NextDue(recurring, on)]
      /\ recurring'.due = NextDue(recurring, on)
  BY DEF Complete, RecurrenceTypeOK, RecurringWith
<1>3. NextDue(recurring, on) \in Calendar /\ Ordinal(NextDue(recurring, on)) > Ordinal(on)
  BY <1>1, RecurringCounts, NextDueIs
<1> QED BY <1>1, <1>2, <1>3

\* A review is followed by the next one, as many months later.
LEMMA ReviewIs ==
  ASSUME RecurrenceTypeOK, NEW on \in SomeDates, Review(on), reviewed.interval # 0
  PROVE  /\ reviewed'.next = Scheduled([type |-> "months", interval |-> reviewed.interval], on, 1)
         /\ reviewed'.next \in Calendar /\ Ordinal(on) < Ordinal(reviewed'.next)
<1> DEFINE task == [type |-> "months", interval |-> reviewed.interval]
<1>1. reviewed.interval \in Nat \ {0} /\ on \in Calendar
  BY RecurrenceConstants DEF RecurrenceTypeOK, Reviewed
<1>2. task.interval = reviewed.interval /\ task.type = "months"
  OBVIOUS
<1>3. reviewed'.next = AddMonths(on, reviewed.interval)
  BY DEF Review, RecurrenceTypeOK, Reviewed
<1> HIDE DEF task
<1>4. Counts(task)
  BY <1>1, <1>2 DEF Counts
<1>5. Advance(task.type, task.interval, on) = AddMonths(on, reviewed.interval)
  BY <1>2 DEF Advance
<1>6. /\ Advance(task.type, task.interval, on) = Scheduled(task, on, 1)
      /\ Advance(task.type, task.interval, on) \in Calendar
      /\ Ordinal(on) < Ordinal(Advance(task.type, task.interval, on))
  BY <1>1, <1>4, ScheduleAdvances, AdvanceIsLater
<1> QED BY <1>3, <1>5, <1>6 DEF task

LEMMA RecurrenceStep ==
  ASSUME RecurrenceTypeOK, [RecurrenceNext]_recurrenceVars
  PROVE  RecurrenceTypeOK'
<1>1. CASE UNCHANGED recurrenceVars
  BY <1>1 DEF recurrenceVars, RecurrenceTypeOK
<1>2. CASE Reschedule
  <2>1. recurring' \in RecurringWith(Calendar \cup {NoDue})
    BY <1>2, RecurrenceConstants DEF Reschedule, RecurrenceTypeOK, RecurringWith
  <2> QED BY <1>2, <2>1 DEF Reschedule, RecurrenceTypeOK
<1>3. ASSUME NEW on \in SomeDates, Complete(on)
      PROVE  RecurrenceTypeOK'
  <2>1. recurring' = [recurring EXCEPT !.due = NextDue(recurring, on)]
        /\ NextDue(recurring, on) \in Calendar
    BY <1>3, CompleteIs
  <2>2. recurring' \in RecurringWith(Calendar \cup {NoDue})
    BY <2>1 DEF RecurrenceTypeOK, RecurringWith
  <2> QED BY <1>3, <2>2 DEF Complete, RecurrenceTypeOK
<1>4. CASE SetReviewInterval
  BY <1>4 DEF SetReviewInterval, RecurrenceTypeOK, Reviewed
<1>5. ASSUME NEW on \in SomeDates, Review(on)
      PROVE  RecurrenceTypeOK'
  <2>1. reviewed'.next \in Calendar \cup {NoDue}
    <3>1. CASE reviewed.interval = 0
      BY <1>5, <3>1 DEF Review, RecurrenceTypeOK, Reviewed
    <3>2. CASE reviewed.interval # 0
      BY <1>5, <3>2, ReviewIs
    <3> QED BY <3>1, <3>2
  <2>2. /\ recurring' = recurring
        /\ reviewed' = [interval |-> reviewed.interval, next |-> reviewed'.next]
    BY <1>5 DEF Review, RecurrenceTypeOK, Reviewed
  <2>3. reviewed' \in Reviewed
    BY <2>1, <2>2 DEF RecurrenceTypeOK, Reviewed
  <2> QED BY <2>2, <2>3 DEF RecurrenceTypeOK
<1> QED BY <1>1, <1>2, <1>3, <1>4, <1>5 DEF RecurrenceNext

\* A next date is later than the completion, or the review, that it follows,
\* whatever the interval, the mode and the dates that were missed.
NextIsLater ==
  /\ \A on \in SomeDates : Complete(on) => Ordinal(recurring'.due) > Ordinal(on)
  /\ reviewed'.next \notin {reviewed.next, NoDue} =>
       \E on \in SomeDates : Review(on) /\ Ordinal(reviewed'.next) > Ordinal(on)

LEMMA DuesOnGrid ==
  ASSUME RecurrenceTypeOK, NEW on \in SomeDates, Complete(on)
  PROVE  LET base == IF recurring.mode = "completion" \/ recurring.due = NoDue
                       THEN on ELSE recurring.due
             due == recurring'.due
         IN  \E k \in 1..(Max({0, Ordinal(on) - Ordinal(base)}) + 1) :
               /\ due = Scheduled(recurring, base, k)
               /\ Ordinal(due) > Ordinal(on) \/ recurring.mode = "completion"
               /\ k = 1 \/ Ordinal(Scheduled(recurring, base, k - 1)) <= Ordinal(on)
<1>1. on \in Calendar /\ recurring'.due = NextDue(recurring, on)
  BY CompleteIs
<1> HIDE DEF Complete
<1>2. /\ Counts(recurring) /\ recurring.mode \in {"completion", "scheduled"}
      /\ recurring.due \in Calendar \cup {NoDue}
  BY RecurringCounts
<1> QED BY <1>1, <1>2, NextDueIs

LEMMA ReviewsOnGrid ==
  ASSUME RecurrenceTypeOK, RecurrenceNext, reviewed'.next # reviewed.next,
         reviewed'.next # NoDue
  PROVE  \E on \in SomeDates :
           /\ Review(on) /\ Ordinal(reviewed'.next) > Ordinal(on)
           /\ reviewed'.next =
                Scheduled([type |-> "months", interval |-> reviewed.interval], on, 1)
<1>1. ~Reschedule /\ ~SetReviewInterval /\ ~\E d \in SomeDates : Complete(d)
  BY DEF Reschedule, SetReviewInterval, Complete, RecurrenceTypeOK, Reviewed
<1>2. PICK on \in SomeDates : Review(on)
  BY <1>1 DEF RecurrenceNext
<1>3. reviewed.interval # 0
  BY <1>2 DEF Review, RecurrenceTypeOK, Reviewed
<1>4. /\ reviewed'.next = Scheduled([type |-> "months", interval |-> reviewed.interval], on, 1)
      /\ reviewed'.next \in Calendar /\ Ordinal(on) < Ordinal(reviewed'.next)
  BY <1>2, <1>3, ReviewIs
<1>5. Ordinal(reviewed'.next) > Ordinal(on)
  <2>1. on \in Calendar
    BY RecurrenceConstants
  <2> QED BY <1>4, <2>1, OrdinalIsPositive
<1> QED BY <1>2, <1>4, <1>5
=============================================================================
