---------------------------- MODULE ZipStreamProofs ----------------------------
(***************************************************************************)
(* Proofs about ZipStream: for any channel, payload, policy and clock past *)
(* year two, any page size and any number of messages posted meanwhile.    *)
(*                                                                         *)
(* The first half is about Filters: the window that a payload is resolved  *)
(* into is what the filter means by calendar and clock.  The second half   *)
(* is the walk through that window, page by page, attachment by attachment.*)
(***************************************************************************)
EXTENDS ZipStream, FiniteSetTheorems, WellFoundedInduction, TLAPS

(* The calendar: years and months are intervals of days *)

LEMMA YearBounds ==
    ASSUME NEW y \in Int
    PROVE  /\ DaysBeforeYear(y) \in Int
           /\ DaysBeforeYear(y) + 365 <= DaysBeforeYear(y + 1)
           /\ DaysBeforeYear(y + 1) <= DaysBeforeYear(y) + 366
BY DEF DaysBeforeYear

LEMMA YearRange ==
    ASSUME NEW y \in Nat
    PROVE  /\ 365 * y <= DaysBeforeYear(y + 1)
           /\ DaysBeforeYear(y + 1) <= 366 * y
BY DEF DaysBeforeYear

LEMMA YearsGrow ==
    ASSUME NEW y \in Int, NEW z \in Int, y < z
    PROVE  DaysBeforeYear(y + 1) <= DaysBeforeYear(z)
BY DEF DaysBeforeYear

LEMMA Least ==
    ASSUME NEW S, S \subseteq Nat, S # {}
    PROVE  \E x \in S : \A y \in S : x <= y
<1> DEFINE R == OpToRel(<, Nat)
<1>1. IsWellFoundedOn(R, Nat)
  BY NatLessThanWellFounded
<1>2. PICK x \in S : \A y \in S : ~ (<<y, x>> \in R)
  <2> HIDE DEF R
  <2> QED BY <1>1, WFMin
<1>3. ASSUME NEW y \in S PROVE x <= y
  <2>1. ~ (<<y, x>> \in R) /\ x \in Nat /\ y \in Nat
    BY <1>2
  <2>2. ~(y < x)
    BY <2>1 DEF OpToRel
  <2> HIDE DEF R
  <2> QED BY <2>1, <2>2
<1> HIDE DEF R
<1> QED BY <1>3

\* Every day lies in one year, and YearOf tells it.
LEMMA YearOfDay ==
    ASSUME NEW day \in Nat \ {0}
    PROVE  /\ YearOf[day] \in Nat \ {0}
           /\ DaysBeforeYear(YearOf[day]) < day
           /\ day <= DaysBeforeYear(YearOf[day] + 1)
<1> DEFINE S == {y \in Nat : day <= DaysBeforeYear(y + 1)}
           P(y) == DaysBeforeYear(y) < day /\ day <= DaysBeforeYear(y + 1)
<1>1. day \in S
  <2>1. 365 * day <= DaysBeforeYear(day + 1) /\ DaysBeforeYear(day + 1) \in Int
    BY YearRange, YearBounds
  <2> QED BY <2>1
<1>2. PICK x \in S : \A y \in S : x <= y
  <2> HIDE DEF S
  <2>1. S \subseteq Nat
    BY DEF S
  <2> QED BY <1>1, <2>1, Least
<1>3. x # 0
  BY DEF DaysBeforeYear
<1>4. DaysBeforeYear(x) < day
  <2>1. x - 1 \in Nat /\ x - 1 \notin S
    BY <1>2, <1>3
  <2>2. ~(day <= DaysBeforeYear(x - 1 + 1)) /\ x - 1 + 1 = x
    BY <2>1
  <2> QED BY <2>2, YearBounds
<1>5. x \in (day \div 366) .. (day \div 365 + 1)
  <2>1. 365 * (x - 1) <= DaysBeforeYear(x - 1 + 1) /\ x - 1 + 1 = x
    BY <1>3, YearRange
  <2>2. DaysBeforeYear(x + 1) <= 366 * x
    BY YearRange
  <2>3. DaysBeforeYear(x + 1) \in Int /\ DaysBeforeYear(x) \in Int
    BY YearBounds
  <2> QED BY <2>1, <2>2, <2>3, <1>4
<1>6. \E y \in (day \div 366) .. (day \div 365 + 1) : P(y)
  BY <1>4, <1>5
<1>7. YearOf[day] = CHOOSE y \in (day \div 366) .. (day \div 365 + 1) : P(y)
  BY DEF YearOf
<1>8. YearOf[day] \in (day \div 366) .. (day \div 365 + 1) /\ P(YearOf[day])
  <2> HIDE DEF P
  <2> QED BY <1>6, <1>7
<1>9. YearOf[day] # 0
  <2>1. ASSUME YearOf[day] = 0 PROVE FALSE
    BY <1>8, <2>1 DEF DaysBeforeYear
  <2> QED BY <2>1
<1> QED BY <1>8, <1>9

LEMMA YearIs ==
    ASSUME NEW day \in Nat \ {0}, NEW y \in Int, DaysBeforeYear(y) < day,
           day <= DaysBeforeYear(y + 1)
    PROVE  YearOf[day] = y
<1>1. YearOf[day] \in Nat /\ DaysBeforeYear(YearOf[day]) < day
      /\ day <= DaysBeforeYear(YearOf[day] + 1)
  BY YearOfDay
<1>2. PICK z \in Int : z = YearOf[day]
  BY <1>1
<1>3. ~(y < z) /\ ~(z < y)
  BY <1>1, <1>2, YearsGrow, YearBounds
<1> QED BY <1>2, <1>3

LEMMA MonthInt ==
    ASSUME NEW y \in Int, NEW m \in Int, 1 <= m, m <= 12
    PROVE  FirstOfMonth(y, m) \in Int
BY DEF DaysBeforeYear, FirstOfMonth, DaysBeforeMonth, Leap

LEMMA MonthInYear ==
    ASSUME NEW y \in Int, NEW m \in Int, 1 <= m, m <= 12
    PROVE  /\ DaysBeforeYear(y) < FirstOfMonth(y, m)
           /\ FirstOfMonth(y, m) < DaysBeforeYear(y + 1)
BY DEF DaysBeforeYear, FirstOfMonth, DaysBeforeMonth, Leap

LEMMA January ==
    ASSUME NEW y \in Int
    PROVE  FirstOfMonth(y, 1) = DaysBeforeYear(y) + 1
BY DEF DaysBeforeYear, FirstOfMonth, DaysBeforeMonth, Leap

LEMMA MonthsGrow ==
    ASSUME NEW y \in Int, NEW m \in Int, NEW n \in Int,
           1 <= m, m < n, n <= 12
    PROVE  FirstOfMonth(y, m + 1) <= FirstOfMonth(y, n)
BY DEF DaysBeforeYear, FirstOfMonth, DaysBeforeMonth, Leap

LEMMA MonthGrows ==
    ASSUME NEW y \in Int, NEW m \in Int, 1 <= m, m < 12
    PROVE  FirstOfMonth(y, m) < FirstOfMonth(y, m + 1)
BY DEF DaysBeforeYear, FirstOfMonth, DaysBeforeMonth, Leap

\* Every day lies in one month, and MonthOf tells it.
LEMMA MonthOfDay ==
    ASSUME NEW day \in Nat \ {0}
    PROVE  /\ MonthOf[day] \in 1 .. 12
           /\ FirstOfMonth(YearOf[day], MonthOf[day]) <= day
           /\ MonthOf[day] < 12 =>
                  day < FirstOfMonth(YearOf[day], MonthOf[day] + 1)
<1> DEFINE y == YearOf[day]
           P(m) == /\ FirstOfMonth(y, m) <= day
                   /\ m < 12 => day < FirstOfMonth(y, m + 1)
           S == {k \in Nat : k + 1 \in 1 .. 12 /\ FirstOfMonth(y, 12 - k) <= day}
<1>1. y \in Nat /\ DaysBeforeYear(y) < day /\ day <= DaysBeforeYear(y + 1)
  BY YearOfDay
<1> HIDE DEF y
<1>2. 11 \in S
  <2>1. FirstOfMonth(y, 1) = DaysBeforeYear(y) + 1 /\ DaysBeforeYear(y) \in Int
    BY <1>1, January, YearBounds
  <2>2. 11 \in Nat /\ 11 + 1 \in 1 .. 12 /\ 12 - 11 = 1
    OBVIOUS
  <2>3. FirstOfMonth(y, 12 - 11) <= day
    BY <1>1, <2>1, <2>2
  <2> QED BY <2>2, <2>3
<1>3. PICK k \in S : \A j \in S : k <= j
  <2> HIDE DEF S
  <2>1. S \subseteq Nat
    BY DEF S
  <2> QED BY <1>2, <2>1, Least
<1>4. 12 - k \in 1 .. 12 /\ FirstOfMonth(y, 12 - k) <= day
  BY <1>3
<1>5. 12 - k < 12 => day < FirstOfMonth(y, 12 - k + 1)
  <2> SUFFICES ASSUME 12 - k < 12 PROVE day < FirstOfMonth(y, 12 - k + 1)
    OBVIOUS
  <2>1. k \in Nat /\ k - 1 \in Nat /\ k - 1 + 1 \in 1 .. 12 /\ k - 1 \notin S
    <3>1. k \in Nat /\ k + 1 \in 1 .. 12 /\ k # 0 /\ k - 1 \in Nat /\ ~(k <= k - 1)
      BY <1>3
    <3> HIDE DEF S
    <3> QED BY <1>3, <3>1
  <2>2. ~(FirstOfMonth(y, 12 - (k - 1)) <= day) /\ 12 - (k - 1) = 12 - k + 1
    BY <2>1
  <2>3. FirstOfMonth(y, 12 - k + 1) \in Int
    <3>1. 12 - k + 1 \in 1 .. 12
      BY <2>1
    <3> QED BY <1>1, <3>1, MonthInt
  <2> QED BY <2>2, <2>3
<1>6. \E m \in 1 .. 12 : P(m)
  BY <1>4, <1>5
<1>7. MonthOf[day] = CHOOSE m \in 1 .. 12 : P(m)
  BY DEF MonthOf, y
<1>8. MonthOf[day] \in 1 .. 12 /\ P(MonthOf[day])
  <2> HIDE DEF P
  <2> QED BY <1>6, <1>7
<1> QED BY <1>8 DEF y

LEMMA MonthIs ==
    ASSUME NEW day \in Nat \ {0}, NEW y \in Int, NEW m \in 1 .. 12,
           FirstOfMonth(y, m) <= day,
           IF m < 12 THEN day < FirstOfMonth(y, m + 1)
           ELSE day <= DaysBeforeYear(y + 1)
    PROVE  YearOf[day] = y /\ MonthOf[day] = m
<1>1. YearOf[day] = y
  <2>1. m < 12 => FirstOfMonth(y, m + 1) < DaysBeforeYear(y + 1)
                  /\ FirstOfMonth(y, m + 1) \in Int
    BY MonthInt, MonthInYear
  <2>2. DaysBeforeYear(y) < FirstOfMonth(y, m)
    BY MonthInYear
  <2>3. FirstOfMonth(y, m) \in Int
    BY MonthInt
  <2>4. DaysBeforeYear(y) \in Int /\ DaysBeforeYear(y + 1) \in Int
    BY YearBounds
  <2>5. DaysBeforeYear(y) < day /\ day <= DaysBeforeYear(y + 1)
    BY <2>1, <2>2, <2>3, <2>4
  <2> QED BY <2>5, YearIs
<1>2. PICK n \in 1 .. 12 : /\ n = MonthOf[day]
                           /\ FirstOfMonth(y, n) <= day
                           /\ n < 12 => day < FirstOfMonth(y, n + 1)
  BY <1>1, MonthOfDay
<1>3. FirstOfMonth(y, n) \in Int /\ FirstOfMonth(y, m) \in Int
  BY MonthInt
<1>4. (n < 12 => FirstOfMonth(y, n + 1) \in Int)
      /\ (m < 12 => FirstOfMonth(y, m + 1) \in Int)
  BY MonthInt
<1>5. ~(m < n) /\ ~(n < m)
  BY <1>2, <1>3, <1>4, MonthsGrow
<1> QED BY <1>1, <1>2, <1>5

\* A month's days are those from its first to the day before the next's.
NextMonth(y, m) ==
    IF m < 12 THEN FirstOfMonth(y, m + 1) ELSE DaysBeforeYear(y + 1) + 1

LEMMA DaysOfMonth ==
    ASSUME NEW day \in Nat \ {0}, NEW y \in Int, NEW m \in Int, 1 <= m, m <= 12
    PROVE  /\ NextMonth(y, m) \in Int
           /\ (YearOf[day] = y /\ MonthOf[day] = m) <=>
                  (FirstOfMonth(y, m) <= day /\ day < NextMonth(y, m))
<1>1. FirstOfMonth(y, m) \in Int
  BY MonthInt
<1>2. m < 12 => FirstOfMonth(y, m + 1) \in Int
  BY MonthInt
<1>3. DaysBeforeYear(y + 1) \in Int
  BY YearBounds
<1>4. NextMonth(y, m) \in Int
  BY <1>2, <1>3 DEF NextMonth
<1>5. ASSUME YearOf[day] = y, MonthOf[day] = m
      PROVE  FirstOfMonth(y, m) <= day /\ day < NextMonth(y, m)
  <2>1. FirstOfMonth(y, m) <= day /\ (m < 12 => day < FirstOfMonth(y, m + 1))
    BY <1>5, MonthOfDay
  <2>2. day <= DaysBeforeYear(y + 1)
    BY <1>5, YearOfDay
  <2> QED BY <1>2, <1>3, <2>1, <2>2 DEF NextMonth
<1>6. ASSUME FirstOfMonth(y, m) <= day, day < NextMonth(y, m)
      PROVE  YearOf[day] = y /\ MonthOf[day] = m
  <2>1. IF m < 12 THEN day < FirstOfMonth(y, m + 1)
        ELSE day <= DaysBeforeYear(y + 1)
    BY <1>3, <1>6 DEF NextMonth
  <2>2. m \in 1 .. 12
    OBVIOUS
  <2> QED BY <1>6, <2>1, <2>2, MonthIs
<1> QED BY <1>4, <1>5, <1>6

-----------------------------------------------------------------------------
(* Named periods *)

\* The days [first, next) that a named period stands for, and the window it is
\* resolved into: to the clock's present while the period lasts, else to the
\* midnight after it.
Spans(name, first, next) ==
    /\ first \in Nat \ {0} /\ next \in Nat \ {0}
    /\ resolve_named_period(name, now) =
           Window(Midnight(first), IF next > now.day THEN now ELSE Midnight(next))
    /\ first <= now.day
    /\ \A day \in Nat \ {0} :
           day <= now.day => (InPeriod(name, day) <=> first <= day /\ day < next)
    /\ \A day \in Nat \ {0} :
           day > now.day => (InPeriod(name, day) => next > now.day)

ClockOK == now \in Times /\ now.day > DaysBeforeYear(3)

LEMMA ThirdYear ==
    ASSUME NEW day \in Nat \ {0}, NEW start \in Int, start = DaysBeforeYear(3),
           start < day
    PROVE  YearOf[day] \in Nat /\ YearOf[day] >= 3
<1>1. PICK y \in Nat : y = YearOf[day]
  BY YearOfDay
<1>2. PICK end \in Int : end = DaysBeforeYear(y + 1) /\ day <= end
  BY <1>1, YearOfDay, YearBounds
<1>3. y < 3 => end <= start
  BY <1>2, YearsGrow
<1> QED BY <1>1, <1>2, <1>3

LEMMA ClockYear ==
    ASSUME ClockOK
    PROVE  /\ YearOf[now.day] \in Nat /\ YearOf[now.day] >= 3
           /\ now.day \in Nat \ {0} /\ now.day > 730
           /\ now.sec \in 0 .. SecondsPerDay - 1
           /\ now = Instant(now.day, now.sec)
<1>1. now \in Times
  BY DEF ClockOK
<1>2. now.day \in Nat \ {0} /\ now.sec \in 0 .. SecondsPerDay - 1
      /\ now = Instant(now.day, now.sec)
  BY <1>1 DEF Times, Instant
<1>3. PICK today \in Nat \ {0} : today = now.day
  BY <1>2
<1>4. PICK start \in Int : start = DaysBeforeYear(3) /\ start = 730
  BY DEF DaysBeforeYear
<1>5. start < today
  BY <1>3, <1>4 DEF ClockOK
<1>6. YearOf[today] \in Nat /\ YearOf[today] >= 3
  BY <1>4, <1>5, ThirdYear
<1> QED BY <1>2, <1>3, <1>4, <1>5, <1>6

LEMMA SpanOfDays ==
    ASSUME ClockOK
    PROVE  /\ Spans("today", now.day, now.day + 1)
           /\ Spans("yesterday", now.day - 1, now.day)
<1>1. now.day \in Nat /\ now.day > 1
  BY ClockYear
<1>2. Spans("today", now.day, now.day + 1)
  BY <1>1 DEF Spans, resolve_named_period, Window, _start_of_day, Midnight,
              InPeriod
<1>3. Spans("yesterday", now.day - 1, now.day)
  BY <1>1 DEF Spans, resolve_named_period, Window, _start_of_day, Midnight,
              InPeriod, Minus, Days, Instant
<1> QED BY <1>2, <1>3

LEMMA DaysOfWeek ==
    ASSUME NEW day \in Nat \ {0}, NEW today \in Nat \ {0}, NEW monday \in Int,
           monday = today - Weekday(today)
    PROVE  /\ WeekOf(day) = WeekOf(today) <=> monday <= day /\ day < monday + 7
           /\ WeekOf(day) = WeekOf(today) - 1 <=>
                  monday - 7 <= day /\ day < monday
<1>1. PICK q \in Int : q = WeekOf(today) /\ monday = 7 * q + 1
  <2>1. monday = 7 * ((today - 1) \div 7) + 1
    BY DEF Weekday
  <2> QED BY <2>1 DEF WeekOf
<1>2. PICK p \in Int : p = WeekOf(day) /\ 7 * p + 1 <= day /\ day < 7 * p + 8
  BY DEF WeekOf
<1>3. (p = q <=> monday <= day /\ day < monday + 7)
      /\ (p = q - 1 <=> monday - 7 <= day /\ day < monday)
  BY <1>1, <1>2
<1> QED BY <1>1, <1>2, <1>3

LEMMA SpanOfWeeks ==
    ASSUME ClockOK
    PROVE  LET monday == now.day - Weekday(now.day)
           IN  /\ Spans("this-week", monday, monday + 7)
               /\ Spans("last-week", monday - 7, monday)
<1> DEFINE monday == now.day - Weekday(now.day)
<1>1. now.day \in Nat /\ now.day > 700
  BY ClockYear
<1>2. monday \in Nat /\ monday > 7 /\ monday <= now.day /\ now.day < monday + 7
  BY <1>1 DEF Weekday
<1>3. _start_of_week(now) = Midnight(monday)
  BY <1>1 DEF _start_of_week, _start_of_day, Minus, Days, Midnight, Instant
<1>4. Minus(Midnight(monday), Days(7)) = Midnight(monday - 7)
  BY <1>2 DEF Minus, Days, Midnight, Instant
<1>5. \A day \in Nat \ {0} :
          /\ WeekOf(day) = WeekOf(now.day) <=> monday <= day /\ day < monday + 7
          /\ WeekOf(day) = WeekOf(now.day) - 1 <=>
                 monday - 7 <= day /\ day < monday
  BY <1>1, <1>2, DaysOfWeek
<1> HIDE DEF monday
<1>6. Spans("this-week", monday, monday + 7)
  BY <1>1, <1>2, <1>3, <1>5 DEF Spans, resolve_named_period, Window, InPeriod
<1>7. Spans("last-week", monday - 7, monday)
  BY <1>1, <1>2, <1>3, <1>4, <1>5
     DEF Spans, resolve_named_period, Window, InPeriod
<1> QED BY <1>6, <1>7 DEF monday

LEMMA SpanOfMonths ==
    ASSUME ClockOK
    PROVE  \E first, next, previous \in Nat \ {0} :
               /\ Spans("this-month", first, next)
               /\ Spans("last-month", previous, first)
<1>1. PICK today \in Nat \ {0} : today = now.day
  BY ClockYear
<1>2. PICK y \in Nat : y = YearOf[today] /\ y >= 3
  BY <1>1, ClockYear
<1>3. PICK m \in Nat : m = MonthOf[today] /\ 1 <= m /\ m <= 12
  BY <1>1, MonthOfDay
<1>ints. y \in Int /\ m \in Int /\ 1 <= m /\ m <= 12
  BY <1>2, <1>3
<1>4. PICK first \in Int : first = FirstOfMonth(y, m)
  BY <1>3, MonthInt
<1>5. PICK next \in Int : next = NextMonth(y, m)
  BY <1>1, <1>3, DaysOfMonth
<1>6. first <= today /\ today < next
  <2>1. (YearOf[today] = y /\ MonthOf[today] = m) <=>
            (FirstOfMonth(y, m) <= today /\ today < NextMonth(y, m))
    BY <1>ints, DaysOfMonth
  <2> QED BY <1>2, <1>3, <1>4, <1>5, <2>1
<1> DEFINE y0 == IF m = 1 THEN y - 1 ELSE y
           m0 == IF m = 1 THEN 12 ELSE m - 1
<1>7. PICK py \in Nat, pm \in Nat :
          /\ py = y0 /\ pm = m0 /\ 1 <= pm /\ pm <= 12 /\ py >= 2
          /\ 12 * py + pm = 12 * y + m - 1
  BY <1>2, <1>3
<1>8. NextMonth(py, pm) = first
  <2>1. CASE m = 1
    <3>1. first = DaysBeforeYear(y) + 1
      BY <1>4, <2>1, January
    <3>2. NextMonth(py, pm) = DaysBeforeYear(py + 1) + 1 /\ py + 1 = y
      BY <1>2, <1>7, <2>1 DEF NextMonth
    <3> QED BY <3>1, <3>2
  <2>2. CASE m # 1
    <3>1. pm < 12 /\ pm + 1 = m /\ py = y
      BY <1>3, <1>7, <2>2
    <3> QED BY <1>4, <3>1 DEF NextMonth
  <2> QED BY <2>1, <2>2
<1>9. PICK previous \in Int : previous = FirstOfMonth(py, pm)
  BY <1>7, MonthInt
<1>10. previous >= 1 /\ first >= 1 /\ previous < first
  <2>1. PICK a \in Int : a = DaysBeforeYear(py) /\ a >= 0
    BY <1>7 DEF DaysBeforeYear
  <2>2. a < previous
    BY <1>7, <1>9, <2>1, MonthInYear
  <2>3. previous < first
    <3>1. CASE pm < 12
      <4>1. FirstOfMonth(py, pm) < FirstOfMonth(py, pm + 1)
        BY <1>7, <3>1, MonthGrows
      <4>2. FirstOfMonth(py, pm + 1) = first
        BY <1>8, <3>1 DEF NextMonth
      <4> QED BY <1>9, <4>1, <4>2
    <3>2. CASE pm = 12
      <4>1. first = DaysBeforeYear(py + 1) + 1
        BY <1>8, <3>2 DEF NextMonth
      <4>2. PICK b \in Int : b = DaysBeforeYear(py + 1)
        BY <1>7, YearBounds
      <4>3. FirstOfMonth(py, pm) < DaysBeforeYear(py + 1)
        BY <1>7, MonthInYear
      <4> QED BY <1>9, <4>1, <4>2, <4>3
    <3> QED BY <1>7, <3>1, <3>2
  <2> QED BY <2>1, <2>2, <2>3
<1>11. _start_of_month(now) = Midnight(first)
  BY <1>1, <1>2, <1>3, <1>4 DEF _start_of_month
<1>12. _previous_month_start(now) = Midnight(previous)
  <2>1. Minus(Midnight(first), Days(1)) = Midnight(first - 1)
    BY DEF Minus, Midnight, Days, Instant
  <2>2. PICK eve \in Nat \ {0} : eve = first - 1 /\ previous <= eve /\ eve < first
    BY <1>10
  <2>3. YearOf[eve] = py /\ MonthOf[eve] = pm
    BY <1>7, <1>8, <1>9, <2>2, DaysOfMonth
  <2>4. _start_of_month(Midnight(eve)) = Midnight(previous)
    <3>1. Midnight(eve).day = eve
      BY DEF Midnight, Instant
    <3> QED BY <1>9, <2>3, <3>1 DEF _start_of_month
  <2> QED BY <1>11, <2>1, <2>2, <2>4 DEF _previous_month_start
<1>13. ASSUME NEW day \in Nat \ {0}
       PROVE  /\ InPeriod("this-month", day) <=> first <= day /\ day < next
              /\ InPeriod("last-month", day) <=> previous <= day /\ day < first
  <2>1. PICK dy \in Nat : dy = YearOf[day]
    BY YearOfDay
  <2>2. PICK dm \in Nat : dm = MonthOf[day] /\ 1 <= dm /\ dm <= 12
    BY MonthOfDay
  <2>3. InPeriod("this-month", day) <=> 12 * dy + dm = 12 * y + m
    BY <1>1, <1>2, <1>3, <2>1, <2>2 DEF InPeriod, MonthIndex
  <2>4. InPeriod("last-month", day) <=> 12 * dy + dm = 12 * py + pm
    BY <1>1, <1>2, <1>3, <1>7, <2>1, <2>2 DEF InPeriod, MonthIndex
  <2>5. 12 * dy + dm = 12 * y + m <=> dy = y /\ dm = m
    BY <1>3, <2>2
  <2>6. 12 * dy + dm = 12 * py + pm <=> dy = py /\ dm = pm
    BY <1>7, <2>2
  <2>7. dy = y /\ dm = m <=> first <= day /\ day < next
    <3>1. (YearOf[day] = y /\ MonthOf[day] = m) <=>
              (FirstOfMonth(y, m) <= day /\ day < NextMonth(y, m))
      BY <1>ints, DaysOfMonth
    <3> QED BY <1>4, <1>5, <2>1, <2>2, <3>1
  <2>8. dy = py /\ dm = pm <=> previous <= day /\ day < first
    <3>1. (YearOf[day] = py /\ MonthOf[day] = pm) <=>
              (FirstOfMonth(py, pm) <= day /\ day < NextMonth(py, pm))
      BY <1>7, DaysOfMonth
    <3> QED BY <1>8, <1>9, <2>1, <2>2, <3>1
  <2> QED BY <2>3, <2>4, <2>5, <2>6, <2>7, <2>8
<1>14. Spans("this-month", first, next)
  <2>1. first \in Nat \ {0} /\ next \in Nat \ {0}
    BY <1>6, <1>10
  <2>2. resolve_named_period("this-month", now) =
            Window(Midnight(first), IF next > now.day THEN now ELSE Midnight(next))
    BY <1>1, <1>6, <1>11 DEF resolve_named_period
  <2>3. \A day \in Nat \ {0} :
            day > now.day => (InPeriod("this-month", day) => next > now.day)
    BY <1>1, <1>6
  <2> QED BY <1>1, <1>6, <1>13, <2>1, <2>2, <2>3 DEF Spans
<1>15. Spans("last-month", previous, first)
  <2>1. first \in Nat \ {0} /\ previous \in Nat \ {0}
    BY <1>10
  <2>2. resolve_named_period("last-month", now) =
            Window(Midnight(previous),
                   IF first > now.day THEN now ELSE Midnight(first))
    BY <1>1, <1>6, <1>11, <1>12 DEF resolve_named_period
  <2>3. \A day \in Nat \ {0} :
            day > now.day => (InPeriod("last-month", day) => first > now.day)
    BY <1>1, <1>6, <1>13
  <2>4. previous <= now.day
    BY <1>1, <1>6, <1>10
  <2> QED BY <1>13, <2>1, <2>2, <2>3, <2>4 DEF Spans
<1>16. first \in Nat \ {0} /\ next \in Nat \ {0} /\ previous \in Nat \ {0}
  BY <1>6, <1>10
<1> QED BY <1>14, <1>15, <1>16

LEMMA SpanOfYears ==
    ASSUME ClockOK
    PROVE  \E first, next, previous \in Nat \ {0} :
               /\ Spans("this-year", first, next)
               /\ Spans("last-year", previous, first)
<1>1. PICK today \in Nat \ {0} : today = now.day
  BY ClockYear
<1>2. PICK y \in Nat : y = YearOf[today] /\ y >= 3
  BY <1>1, ClockYear
<1>3. PICK first \in Int : first = DaysBeforeYear(y) + 1
  BY YearBounds
<1>4. PICK next \in Int : next = DaysBeforeYear(y + 1) + 1
  BY YearBounds
<1>5. PICK previous \in Int : previous = DaysBeforeYear(y - 1) + 1
  BY <1>2, YearBounds
<1>6. first <= today /\ today < next
  <2>1. DaysBeforeYear(y) < today /\ today <= DaysBeforeYear(y + 1)
    BY <1>2, YearOfDay
  <2>2. DaysBeforeYear(y) \in Int /\ DaysBeforeYear(y + 1) \in Int
    BY YearBounds
  <2> QED BY <1>3, <1>4, <2>1, <2>2
<1>7. previous >= 1 /\ previous < first
  BY <1>2, <1>3, <1>5 DEF DaysBeforeYear
<1>8. _start_of_year(now) = Midnight(first)
  BY <1>1, <1>2, <1>3, January DEF _start_of_year
<1>9. _previous_year_start(now) = Midnight(previous)
  BY <1>1, <1>2, <1>5, January DEF _previous_year_start
<1>10. ASSUME NEW day \in Nat \ {0}
       PROVE  /\ InPeriod("this-year", day) <=> first <= day /\ day < next
              /\ InPeriod("last-year", day) <=> previous <= day /\ day < first
  <2>1. PICK dy \in Nat : dy = YearOf[day]
    BY YearOfDay
  <2>2. InPeriod("this-year", day) <=> dy = y
    BY <1>1, <1>2, <2>1 DEF InPeriod
  <2>3. InPeriod("last-year", day) <=> dy = y - 1
    BY <1>1, <1>2, <2>1 DEF InPeriod
  <2>4. PICK a \in Int, b \in Int : a = DaysBeforeYear(dy) /\ a < day
                                    /\ b = DaysBeforeYear(dy + 1) /\ day <= b
    BY <2>1, YearOfDay, YearBounds
  <2>5. dy = y => first <= day /\ day < next
    BY <1>3, <1>4, <2>4
  <2>6. dy = y - 1 => previous <= day /\ day < first
    <3>1. dy = y - 1 => dy + 1 = y
      BY <1>2
    <3> QED BY <1>3, <1>5, <2>4, <3>1
  <2>7. first <= day /\ day < next => dy = y
    <3>1. DaysBeforeYear(y) \in Int /\ DaysBeforeYear(y + 1) \in Int
      BY YearBounds
    <3>2. first <= day /\ day < next =>
              DaysBeforeYear(y) < day /\ day <= DaysBeforeYear(y + 1)
      BY <1>3, <1>4, <3>1
    <3> QED BY <2>1, <3>2, YearIs
  <2>8. previous <= day /\ day < first => dy = y - 1
    <3>1. PICK z \in Int : z = y - 1 /\ z + 1 = y
      BY <1>2
    <3>2. DaysBeforeYear(z) \in Int /\ DaysBeforeYear(z + 1) \in Int
      BY YearBounds
    <3>3. previous <= day /\ day < first =>
              DaysBeforeYear(z) < day /\ day <= DaysBeforeYear(z + 1)
      BY <1>3, <1>5, <3>1, <3>2
    <3> QED BY <2>1, <3>1, <3>3, YearIs
  <2> QED BY <2>2, <2>3, <2>5, <2>6, <2>7, <2>8
<1>11. first \in Nat \ {0} /\ next \in Nat \ {0} /\ previous \in Nat \ {0}
  BY <1>6, <1>7
<1>12. Spans("this-year", first, next)
  <2>1. resolve_named_period("this-year", now) =
            Window(Midnight(first), IF next > now.day THEN now ELSE Midnight(next))
    BY <1>1, <1>6, <1>8 DEF resolve_named_period
  <2>2. \A day \in Nat \ {0} :
            day > now.day => (InPeriod("this-year", day) => next > now.day)
    BY <1>1, <1>6
  <2> QED BY <1>1, <1>6, <1>10, <1>11, <2>1, <2>2 DEF Spans
<1>13. Spans("last-year", previous, first)
  <2>1. resolve_named_period("last-year", now) =
            Window(Midnight(previous),
                   IF first > now.day THEN now ELSE Midnight(first))
    BY <1>1, <1>6, <1>8, <1>9 DEF resolve_named_period
  <2>2. \A day \in Nat \ {0} :
            day > now.day => (InPeriod("last-year", day) => first > now.day)
    BY <1>1, <1>6, <1>10
  <2>3. previous <= now.day
    BY <1>1, <1>6, <1>7
  <2> QED BY <1>10, <1>11, <2>1, <2>2, <2>3 DEF Spans
<1> QED BY <1>11, <1>12, <1>13

\* Each named period is an interval of days of the calendar -- weeks by
\* counting from a Monday, months and years by YearOf and MonthOf -- and
\* resolve_named_period returns its ends, the later one cut at the present,
\* whatever the date: no month is too short, no year a leap year too many.
THEOREM PeriodSpans ==
    ASSUME ClockOK, NEW name \in NAMED_PERIODS
    PROVE  \E first, next \in Nat \ {0} : Spans(name, first, next)
<1>1. now.day \in Nat /\ now.day > 730
  BY ClockYear
<1>2. PICK monday \in Int : monday = now.day - Weekday(now.day) /\ monday > 7
  BY <1>1 DEF Weekday
<1>3. CASE name \in {"today", "yesterday"}
  BY <1>1, <1>3, SpanOfDays
<1>4. CASE name \in {"this-week", "last-week"}
  BY <1>2, <1>4, SpanOfWeeks
<1>5. CASE name \in {"this-month", "last-month"}
  BY <1>5, SpanOfMonths
<1>6. CASE name \in {"this-year", "last-year"}
  BY <1>6, SpanOfYears
<1> QED BY <1>3, <1>4, <1>5, <1>6 DEF NAMED_PERIODS

-----------------------------------------------------------------------------
(* Durations and the window *)

LEMMA TimeParts ==
    ASSUME NEW t \in Times
    PROVE  /\ t.day \in Nat \ {0}
           /\ t.sec \in Int /\ 0 <= t.sec /\ t.sec < SecondsPerDay
           /\ t = Instant(t.day, t.sec)
<1>1. SecondsPerDay \in Int
  BY DEF SecondsPerDay
<1>2. t.day \in Nat \ {0} /\ t.sec \in 0 .. SecondsPerDay - 1
      /\ t = Instant(t.day, t.sec)
  BY DEF Times, Instant
<1> QED BY <1>1, <1>2

\* What is older than n seconds was posted before the instant n seconds ago.
LEMMA OlderIsEarlier ==
    ASSUME ClockOK, NEW d \in Int, NEW s \in Int, 0 <= s, s < SecondsPerDay,
           NEW t \in Times
    PROVE  /\ Age(t) > d * SecondsPerDay + s <=>
                  Earlier(t, Minus(now, Instant(d, s)))
           /\ Age(t) < d * SecondsPerDay + s <=>
                  Earlier(Minus(now, Instant(d, s)), t)
           /\ Minus(now, Instant(d, s)).day \in Int
           /\ Minus(now, Instant(d, s)).sec \in 0 .. SecondsPerDay - 1
<1>1. PICK td \in Int : td = t.day
  BY TimeParts
<1>2. PICK ts \in Int : ts = t.sec /\ 0 <= ts /\ ts < SecondsPerDay
  BY TimeParts
<1>3. PICK day \in Int, sec \in Int :
          /\ now.day = day /\ now.sec = sec
          /\ 0 <= sec /\ sec < SecondsPerDay /\ now = Instant(day, sec)
  BY TimeParts DEF ClockOK
<1>4. PICK a \in Int, b \in Int :
          /\ Minus(Instant(day, sec), Instant(d, s)) = Instant(a, b)
          /\ 0 <= b /\ b < SecondsPerDay
          /\ a * SecondsPerDay + b
                 = day * SecondsPerDay + sec - (d * SecondsPerDay + s)
  <2>1. CASE sec >= s
    <3>1. Minus(Instant(day, sec), Instant(d, s)) = Instant(day - d, sec - s)
      BY <2>1 DEF Minus, Instant
    <3>2. (day - d) * SecondsPerDay + (sec - s)
              = day * SecondsPerDay + sec - (d * SecondsPerDay + s)
          /\ 0 <= sec - s /\ sec - s < SecondsPerDay
      BY <1>3, <2>1 DEF SecondsPerDay
    <3> QED BY <3>1, <3>2
  <2>2. CASE sec < s
    <3>1. Minus(Instant(day, sec), Instant(d, s))
              = Instant(day - d - 1, sec + SecondsPerDay - s)
      BY <2>2 DEF Minus, Instant
    <3>2. (day - d - 1) * SecondsPerDay + (sec + SecondsPerDay - s)
              = day * SecondsPerDay + sec - (d * SecondsPerDay + s)
          /\ 0 <= sec + SecondsPerDay - s
          /\ sec + SecondsPerDay - s < SecondsPerDay
          /\ sec + SecondsPerDay - s \in Int
      BY <1>3, <2>2 DEF SecondsPerDay
    <3> QED BY <3>1, <3>2
  <2> QED BY <2>1, <2>2
<1>5. /\ (day - td) * SecondsPerDay + sec - ts > d * SecondsPerDay + s
             <=> (td < a \/ (td = a /\ ts < b))
      /\ (day - td) * SecondsPerDay + sec - ts < d * SecondsPerDay + s
             <=> (a < td \/ (a = td /\ b < ts))
  BY <1>2, <1>4 DEF SecondsPerDay
<1>6. Instant(a, b).day = a /\ Instant(a, b).sec = b
  BY DEF Instant
<1>7. Earlier(t, Instant(a, b)) <=> (td < a \/ (td = a /\ ts < b))
  BY <1>1, <1>2, <1>6 DEF Earlier
<1>8. Earlier(Instant(a, b), t) <=> (a < td \/ (a = td /\ b < ts))
  BY <1>1, <1>2, <1>6 DEF Earlier
<1>9. Age(t) = (day - td) * SecondsPerDay + sec - ts
  BY <1>1, <1>2, <1>3 DEF Age
<1>10. Minus(now, Instant(d, s)) = Instant(a, b)
  BY <1>3, <1>4
<1>11. SecondsPerDay \in Int
  BY DEF SecondsPerDay
<1>12. b \in 0 .. SecondsPerDay - 1
  BY <1>4, <1>11
<1> QED BY <1>5, <1>6, <1>7, <1>8, <1>9, <1>10, <1>12

LEMMA DurationMeans ==
    ASSUME NEW text \in Texts, ParseError(text) = "ok"
    PROVE  \E d \in Nat, s \in Nat :
               /\ parse_duration(text) = Instant(d, s)
               /\ s < SecondsPerDay
               /\ Seconds(text) = d * SecondsPerDay + s
<1>1. PICK n \in Nat : n = text.n
  BY DEF Texts
<1>2. text.unit \in {"m", "h", "d", "w"}
  BY DEF ParseError
<1>3. CASE text.unit = "w"
  <2>1. parse_duration(text) = Instant(7 * n, 0)
    BY <1>1, <1>3 DEF parse_duration, Duration, Days
  <2>2. Seconds(text) = n * (7 * SecondsPerDay)
    BY <1>1, <1>3 DEF Seconds
  <2>3. 7 * n \in Nat /\ 0 < SecondsPerDay
        /\ n * (7 * SecondsPerDay) = (7 * n) * SecondsPerDay + 0
    BY DEF SecondsPerDay
  <2> QED BY <2>1, <2>2, <2>3
<1>4. CASE text.unit = "d"
  <2>1. parse_duration(text) = Instant(n \div 1, (n % 1) * SecondsPerDay)
    BY <1>1, <1>4 DEF parse_duration, Duration, PerDay, UnitSeconds
  <2>2. Seconds(text) = n * SecondsPerDay
    BY <1>1, <1>4 DEF Seconds
  <2>3. n \div 1 = n /\ (n % 1) * SecondsPerDay = 0 /\ 0 < SecondsPerDay
        /\ n * SecondsPerDay = n * SecondsPerDay + 0
    BY DEF SecondsPerDay
  <2> QED BY <2>1, <2>2, <2>3
<1>5. CASE text.unit = "h"
  <2>1. parse_duration(text) = Instant(n \div 24, (n % 24) * 3600)
    BY <1>1, <1>5 DEF parse_duration, Duration, PerDay, UnitSeconds
  <2>2. Seconds(text) = n * 3600
    BY <1>1, <1>5 DEF Seconds
  <2>3. n \div 24 \in Nat /\ (n % 24) * 3600 \in Nat
        /\ (n % 24) * 3600 < SecondsPerDay
        /\ n * 3600 = (n \div 24) * SecondsPerDay + (n % 24) * 3600
    BY DEF SecondsPerDay
  <2> QED BY <2>1, <2>2, <2>3
<1>6. CASE text.unit = "m"
  <2>1. parse_duration(text) = Instant(n \div 1440, (n % 1440) * 60)
    BY <1>1, <1>6 DEF parse_duration, Duration, PerDay, UnitSeconds
  <2>2. Seconds(text) = n * 60
    BY <1>1, <1>6 DEF Seconds
  <2>3. n \div 1440 \in Nat /\ (n % 1440) * 60 \in Nat
        /\ (n % 1440) * 60 < SecondsPerDay
        /\ n * 60 = (n \div 1440) * SecondsPerDay + (n % 1440) * 60
    BY DEF SecondsPerDay
  <2> QED BY <2>1, <2>2, <2>3
<1> QED BY <1>2, <1>3, <1>4, <1>5, <1>6

\* The window a worker resolves the payload it was given into.
ResolvedTo(w) ==
    /\ ClockOK
    /\ filters \in Payloads /\ Admitted(filters)
    /\ ResolveError(filters, now) = "ok"
    /\ w = Resolve(filters, now)

\* An end of the window: a datetime, or none.
Bound(b) ==
    /\ b.day \in Nat /\ b.sec \in 0 .. SecondsPerDay - 1
    /\ b.day = 0 => b = None

\* What a duration ago means, as either end of the window.
LEMMA AgoMeans ==
    ASSUME ClockOK, NEW text \in Texts, text # NoDuration => ParseError(text) = "ok",
           Reaches(now, text), NEW t \in Times
    PROVE  /\ Bound(Ago(now, text))
           /\ text = NoDuration => Ago(now, text) = None
           /\ text # NoDuration =>
                  /\ Ago(now, text) # None
                  /\ Age(t) > Seconds(text) <=> Earlier(t, Ago(now, text))
                  /\ Age(t) < Seconds(text) <=> Earlier(Ago(now, text), t)
<1>1. CASE text = NoDuration
  <2>1. SecondsPerDay \in Int /\ 0 < SecondsPerDay
    BY DEF SecondsPerDay
  <2>2. 0 \in 0 .. SecondsPerDay - 1
    BY <2>1
  <2> QED BY <1>1, <2>2 DEF Ago, None, Bound, Instant
<1>2. CASE text # NoDuration
  <2>1. PICK d \in Nat, s \in Nat :
            /\ parse_duration(text) = Instant(d, s) /\ s < SecondsPerDay
            /\ Seconds(text) = d * SecondsPerDay + s
    BY <1>2, DurationMeans
  <2>2. Ago(now, text) = Minus(now, Instant(d, s)) /\ Ago(now, text).day >= 1
    BY <1>2, <2>1 DEF Ago, Reaches
  <2>3. /\ Age(t) > Seconds(text) <=> Earlier(t, Ago(now, text))
        /\ Age(t) < Seconds(text) <=> Earlier(Ago(now, text), t)
        /\ Ago(now, text).day \in Int
        /\ Ago(now, text).sec \in 0 .. SecondsPerDay - 1
    BY <2>1, <2>2, OlderIsEarlier
  <2>4. PICK a \in Int : a = Ago(now, text).day /\ a >= 1
    BY <2>2, <2>3
  <2>5. Ago(now, text) # None
    BY <2>4 DEF None, Instant
  <2>6. Bound(Ago(now, text))
    BY <2>3, <2>4 DEF Bound
  <2> QED BY <1>2, <2>3, <2>5, <2>6
<1> QED BY <1>1, <1>2

\* Between the ends of a window, neither of which belongs to it.
Within(w, t) ==
    /\ w.after # None => Earlier(w.after, t)
    /\ w.before # None => Earlier(t, w.before)

LEMMA PastIsEarlier ==
    ASSUME ClockOK, NEW t \in Times
    PROVE  Age(t) > 0 <=> Earlier(t, now)
<1>1. SecondsPerDay \in Int /\ 0 < SecondsPerDay
  BY DEF SecondsPerDay
<1>2. PICK day \in Int, sec \in Int : 0 <= sec /\ now = Instant(day, sec)
  BY TimeParts DEF ClockOK
<1>3. Minus(Instant(day, sec), Instant(0, 0)) = Instant(day, sec)
  <2>1. Minus(Instant(day, sec), Instant(0, 0)) = Instant(day - 0, sec - 0)
    BY <1>2 DEF Minus, Instant
  <2> QED BY <2>1
<1>4. Age(t) > 0 * SecondsPerDay + 0 <=> Earlier(t, Minus(now, Instant(0, 0)))
  BY <1>1, OlderIsEarlier
<1>5. 0 * SecondsPerDay + 0 = 0
  BY <1>1
<1> QED BY <1>2, <1>3, <1>4, <1>5

\* The window that resolve() gives for a payload holds what the filter means:
\* nothing else, and all of it but what was posted on the stroke of a period,
\* for every payload the command admits, date, and instant of a message.
THEOREM WindowMeans ==
    ASSUME NEW w, ResolvedTo(w), NEW t \in Times
    PROVE  /\ Within(w, t) => InTime(t)
           /\ InTime(t) /\ ~OnTheStroke(t) => Within(w, t)
           /\ Bound(w.after) /\ Bound(w.before)
<1>1. ClockOK /\ Admitted(filters) /\ w = Resolve(filters, now)
  BY DEF ResolvedTo
<1>2. /\ filters.before \in Texts /\ filters.after \in Texts
      /\ filters.during \in NAMED_PERIODS \cup {Absent}
  BY DEF ResolvedTo, Payloads
<1>3. CASE filters.during # Absent
  <2>1. filters.before = NoDuration /\ filters.after = NoDuration
    BY <1>1, <1>3 DEF Admitted
  <2>2. w = resolve_named_period(filters.during, now)
    BY <1>1, <1>3 DEF Resolve
  <2>3. InTime(t) <=> InPeriod(filters.during, t.day) /\ Age(t) > 0
    BY <1>3, <2>1 DEF InTime
  <2>4. PICK first \in Nat \ {0}, next \in Nat \ {0} :
            Spans(filters.during, first, next)
    BY <1>1, <1>2, <1>3, PeriodSpans
  <2>5. PICK today \in Nat \ {0}, sec \in Int :
            /\ today = now.day /\ sec = now.sec
            /\ 0 <= sec /\ sec < SecondsPerDay /\ now = Instant(today, sec)
    BY <1>1, TimeParts DEF ClockOK
  <2>6. PICK td \in Nat \ {0}, ts \in Int : td = t.day /\ ts = t.sec /\ 0 <= ts
    BY TimeParts
  <2>7. /\ w.after = Midnight(first)
        /\ w.before = IF next > today THEN now ELSE Midnight(next)
    BY <2>2, <2>4, <2>5 DEF Spans, Window
  <2>8. \A day \in Nat \ {0} : /\ Midnight(day) # None
                               /\ Midnight(day).day = day /\ Midnight(day).sec = 0
    BY DEF Midnight, None, Instant
  <2>9. now # None
    BY <2>5 DEF None, Instant
  <2>10. Within(w, t) <=> /\ first < td \/ (first = td /\ 0 < ts)
                       /\ IF next > today THEN Earlier(t, now) ELSE td < next
    <3>1. Earlier(w.after, t) <=> first < td \/ (first = td /\ 0 < ts)
      BY <2>6, <2>7, <2>8 DEF Earlier
    <3>2. next <= today => (Earlier(t, w.before) <=> td < next)
      BY <2>6, <2>7, <2>8 DEF Earlier
    <3>3. next > today => w.before = now
      BY <2>7
    <3>4. w.after # None /\ w.before # None
      BY <2>7, <2>8, <2>9
    <3> QED BY <3>1, <3>2, <3>3, <3>4 DEF Within
  <2>11. Earlier(t, now) <=> td < today \/ (td = today /\ ts < sec)
    BY <2>5, <2>6 DEF Earlier
  <2>12. Age(t) > 0 <=> Earlier(t, now)
    BY <1>1, PastIsEarlier
  <2>13. /\ td <= today => (InPeriod(filters.during, td) <=> first <= td /\ td < next)
         /\ td > today => (InPeriod(filters.during, td) => next > today)
    BY <2>4, <2>5 DEF Spans
  <2>14. Within(w, t) => InTime(t)
    BY <2>3, <2>6, <2>10, <2>11, <2>12, <2>13
  <2>15. InTime(t) /\ ts # 0 => Within(w, t)
    BY <2>3, <2>6, <2>10, <2>11, <2>12, <2>13
  <2>16. OnTheStroke(t) <=> ts = 0
    BY <1>3, <2>6 DEF OnTheStroke
  <2>17. Bound(w.after) /\ Bound(w.before)
    <3>1. SecondsPerDay \in Int /\ 0 < SecondsPerDay
      BY DEF SecondsPerDay
    <3>2. \A day \in Nat \ {0} : Bound(Midnight(day))
      BY <2>8, <3>1 DEF Bound
    <3>3. Bound(now)
      BY <2>5, <3>1 DEF Bound
    <3> QED BY <2>7, <3>2, <3>3
  <2> QED BY <2>14, <2>15, <2>16, <2>17
<1>4. CASE filters.during = Absent
  <2>1. w = Window(Ago(now, filters.after), Ago(now, filters.before))
    BY <1>1, <1>4 DEF Resolve
  <2>2. Reaches(now, filters.before) /\ Reaches(now, filters.after)
    BY <1>4 DEF ResolvedTo, ResolveError
  <2>3. /\ filters.before # NoDuration => ParseError(filters.before) = "ok"
        /\ filters.after # NoDuration => ParseError(filters.after) = "ok"
    BY <1>1 DEF Admitted
  <2>4. /\ Bound(w.before)
        /\ filters.before = NoDuration => w.before = None
        /\ filters.before # NoDuration =>
               /\ w.before # None
               /\ Age(t) > Seconds(filters.before) <=> Earlier(t, w.before)
    BY <1>1, <1>2, <2>1, <2>2, <2>3, AgoMeans DEF Window
  <2>5. /\ Bound(w.after)
        /\ filters.after = NoDuration => w.after = None
        /\ filters.after # NoDuration =>
               /\ w.after # None
               /\ Age(t) < Seconds(filters.after) <=> Earlier(w.after, t)
    BY <1>1, <1>2, <2>1, <2>2, <2>3, AgoMeans DEF Window
  <2>6. Within(w, t) <=> InTime(t)
    BY <1>4, <2>4, <2>5 DEF Within, InTime
  <2> QED BY <2>4, <2>5, <2>6
<1> QED BY <1>3, <1>4

LEMMA MatchMeans ==
    ASSUME filters \in Payloads, NEW author, NEW f \in Attached
    PROVE  Matches(filters, allowed, author, f) <=>
               /\ filters.from_user \in {Absent, author}
               /\ filters.category \in {Absent, KindOf(f)}
               /\ \A types \in allowed : [main |-> f.main, sub |-> f.sub] \in types
<1>1. _content_type(f) = [main |-> f.main, sub |-> f.sub]
  BY DEF _content_type
<1>2. PICK mime : /\ mime = [main |-> f.main, sub |-> f.sub]
                  /\ mime.main = f.main /\ mime.sub = f.sub
                  /\ mime = _content_type(f)
  BY <1>1
<1>3. _is_gif(mime) <=> f.main = "image" /\ f.sub = "gif"
  BY <1>2 DEF _is_gif
<1>4. ASSUME filters.category # Absent
      PROVE  CATEGORY_PREDICATES(filters.category, mime)
                 <=> filters.category = KindOf(f)
  <2>1. filters.category \in {"image", "video", "audio", "gif", "other"}
    BY <1>4 DEF Payloads
  <2> QED BY <1>2, <1>3, <2>1
          DEF CATEGORY_PREDICATES, KindOf, _is_image, _is_video, _is_audio,
              _is_other
<1> QED BY <1>2, <1>4 DEF Matches
-----------------------------------------------------------------------------
(* The setting of a walk, which it does not change *)

InWindow(id) == Within(window, channel[id].at)

\* What the resolved filter and the policy select.
Selected(a) ==
    /\ InWindow(a[1])
    /\ Matches(filters, allowed, channel[a[1]].author, Files(a[1])[a[2]])

Setting ==
    /\ ClockOK
    /\ filters \in Payloads /\ Admitted(filters)
    /\ channel \in Seq(Messages)
    /\ atStart \in Nat /\ atStart <= Len(channel)
    /\ \A i, j \in 1 .. Len(channel) :
           i < j /\ (pc \in {"resolve", "bounds"} \/ j <= atStart) =>
               ~Earlier(channel[j].at, channel[i].at)
    /\ Bound(window.after) /\ Bound(window.before)
    /\ pc \notin {"resolve", "failed"} => ResolvedTo(window)

LEMMA Posted ==
    ASSUME NEW c \in Seq(Messages), NEW x
    PROVE  /\ Len(Append(c, x)) = Len(c) + 1
           /\ Len(c) \in Nat
           /\ \A i \in 1 .. Len(c) : Append(c, x)[i] = c[i]
           /\ Append(c, x)[Len(c) + 1] = x
           /\ x \in Messages => Append(c, x) \in Seq(Messages)
OBVIOUS

LEMMA SameSetting ==
    ASSUME UNCHANGED <<inputVars, channel, window>>
    PROVE  /\ Ids' = Ids /\ Attachments' = Attachments
           /\ OldestFirst' <=> OldestFirst
           /\ \A id : Files(id)' = Files(id)
           /\ \A id : InWindow(id)' <=> InWindow(id)
           /\ \A a : Selected(a)' <=> Selected(a)
           /\ \A i, j : Precedes(i, j)' <=> Precedes(i, j)
BY DEF inputVars, Ids, Attachments, OldestFirst, Files, InWindow, Within,
       Selected, Precedes

\* A message posted during the walk is the newest: the others are as they were.
LEMMA PostedSetting ==
    ASSUME Setting, Post
    PROVE  /\ \A id \in Ids : id \in Ids' /\ channel'[id] = channel[id]
           /\ Len(channel') = Len(channel) + 1 /\ Len(channel) \in Nat
           /\ channel' \in Seq(Messages)
           /\ Attachments \subseteq Attachments'
           /\ \A a \in Attachments' : a[1] \in Ids => a \in Attachments
           /\ \A a \in Attachments' : a[1] \in Ids'
           /\ OldestFirst' <=> OldestFirst
           /\ \A id \in Ids : Files(id)' = Files(id)
           /\ \A id \in Ids : InWindow(id)' <=> InWindow(id)
           /\ \A a : a[1] \in Ids => (Selected(a)' <=> Selected(a))
           /\ \A i, j : Precedes(i, j)' <=> Precedes(i, j)
<1>1. PICK m \in Late :
          channel' = Append(channel, [at |-> Midnight(now.day + 1),
                                      author |-> m.author, files |-> m.files])
  BY DEF Post
<1>2. UNCHANGED <<inputVars, window>>
  BY DEF Post
<1> DEFINE x == [at |-> Midnight(now.day + 1), author |-> m.author,
                 files |-> m.files]
<1>3. x \in Messages
  <2>1. m.author \in STRING /\ m.files \in Seq(Attached)
    BY ZipAssumption
  <2>2. SecondsPerDay \in Int /\ 0 < SecondsPerDay
    BY DEF SecondsPerDay
  <2>3. now.day + 1 \in Nat \ {0} /\ 0 \in 0 .. SecondsPerDay - 1
    BY <2>2, ClockYear DEF Setting
  <2>4. Midnight(now.day + 1) \in Times
    BY <2>3 DEF Midnight, Instant, Times
  <2> QED BY <2>1, <2>4 DEF Messages
<1> HIDE DEF x
<1>4. channel' = Append(channel, x)
  BY <1>1 DEF x
<1>5. channel \in Seq(Messages)
  BY DEF Setting
<1>6. /\ Len(channel') = Len(channel) + 1 /\ Len(channel) \in Nat
      /\ \A i \in 1 .. Len(channel) : channel'[i] = channel[i]
      /\ channel' \in Seq(Messages)
  BY <1>3, <1>4, <1>5, Posted
<1>7. \A id \in Ids : id \in Ids' /\ channel'[id] = channel[id]
  BY <1>6 DEF Ids
<1>8. \A id \in Ids : Files(id)' = Files(id)
  BY <1>7 DEF Files
<1>9. Attachments \subseteq Attachments'
  BY <1>7, <1>8 DEF Attachments
<1>10. \A a \in Attachments' : a[1] \in Ids'
  BY DEF Attachments
<1>11. \A a \in Attachments' : a[1] \in Ids => a \in Attachments
  BY <1>8 DEF Attachments
<1>12. \A id \in Ids : InWindow(id)' <=> InWindow(id)
  BY <1>2, <1>7 DEF InWindow, Within
<1>13. \A a : a[1] \in Ids => (Selected(a)' <=> Selected(a))
  BY <1>2, <1>7, <1>8, <1>12 DEF Selected, inputVars
<1>14. OldestFirst' <=> OldestFirst
  BY <1>2 DEF OldestFirst
<1>15. \A i, j : Precedes(i, j)' <=> Precedes(i, j)
  BY <1>2 DEF Precedes, OldestFirst
<1> QED BY <1>6, <1>7, <1>8, <1>9, <1>10, <1>11, <1>12, <1>13, <1>14, <1>15

LEMMA SettingInit == Init => Setting
<1> SUFFICES ASSUME Init PROVE Setting
  OBVIOUS
<1>1. PICK c \in Cases : /\ filters = c.filters /\ allowed = c.allowed
                         /\ now = c.now /\ channel = c.channel
  BY DEF Init
<1>2. /\ filters \in Payloads /\ Admitted(filters) /\ ClockOK
      /\ channel \in Seq(Messages) /\ InOrder(channel)
  BY <1>1, ZipAssumption DEF ClockOK
<1>3. atStart = 0 /\ pc = "resolve"
  BY DEF Init
<1>4. Bound(None)
  <2>1. SecondsPerDay \in Int /\ 0 < SecondsPerDay
    BY DEF SecondsPerDay
  <2>2. 0 \in 0 .. SecondsPerDay - 1
    BY <2>1
  <2> QED BY <2>2 DEF Bound, None, Instant
<1>5. Bound(window.after) /\ Bound(window.before)
  BY <1>4 DEF Init, Window
<1>6. Len(channel) \in Nat
  BY <1>2
<1>7. \A i, j \in 1 .. Len(channel) :
          i < j => ~Earlier(channel[j].at, channel[i].at)
  BY <1>2 DEF InOrder
<1> QED BY <1>2, <1>3, <1>5, <1>6, <1>7 DEF Setting

\* Most steps leave the setting as it is and are past the first two.
LEMMA SettingKept ==
    ASSUME Setting, UNCHANGED <<inputVars, channel, window, atStart>>,
           pc' \notin {"resolve", "bounds"}, pc # "resolve",
           pc = "failed" => pc' = "failed"
    PROVE  Setting'
<1>1. pc' \notin {"resolve", "failed"} => ResolvedTo(window)
  BY DEF Setting
<1>2. ResolvedTo(window)' <=> ResolvedTo(window)
  BY DEF inputVars, ResolvedTo, ClockOK
<1>3. ClockOK' /\ (Bound(window.after) /\ Bound(window.before))'
  BY DEF inputVars, ClockOK, Setting, Bound
<1> QED BY <1>1, <1>2, <1>3 DEF Setting, inputVars

LEMMA SettingStep ==
    ASSUME Setting, [Next]_vars
    PROVE  Setting'
<1>1. CASE ResolveFilters
  <2>1. CASE ResolveError(filters, now) = "ok"
    <3>1. ResolvedTo(window')
      BY <1>1, <2>1 DEF ResolveFilters, ResolvedTo, Setting
    <3>2. \E t : t \in Times
      BY DEF Setting, ClockOK
    <3>3. PICK w : w = window' /\ ResolvedTo(w)
      BY <3>1
    <3>4. Bound(w.after) /\ Bound(w.before)
      BY <3>2, <3>3, WindowMeans
    <3>5. ResolvedTo(window)' <=> ResolvedTo(w)
      BY <1>1, <3>3 DEF ResolveFilters, inputVars, ResolvedTo, ClockOK
    <3> QED BY <1>1, <2>1, <3>3, <3>4, <3>5
            DEF ResolveFilters, Goto, inputVars, Setting, ClockOK, Bound
  <2>2. CASE ResolveError(filters, now) # "ok"
    BY <1>1, <2>2 DEF ResolveFilters, Goto, inputVars, Setting, ClockOK, Bound
  <2> QED BY <2>1, <2>2
<1>2. CASE ResolveSnowflakeBounds
  <2>1. UNCHANGED <<inputVars, channel, window>> /\ pc = "bounds" /\ pc' = "page"
        /\ atStart' = Len(channel)
    BY <1>2 DEF ResolveSnowflakeBounds, Goto
  <2>2. ResolvedTo(window)' <=> ResolvedTo(window)
    BY <2>1 DEF inputVars, ResolvedTo, ClockOK
  <2>3. ClockOK' /\ (Bound(window.after) /\ Bound(window.before))'
    BY <2>1 DEF inputVars, ClockOK, Setting, Bound
  <2>4. Len(channel) \in Nat
    BY DEF Setting
  <2> QED BY <2>1, <2>2, <2>3, <2>4 DEF Setting, inputVars
<1>3. CASE Post
  <2>1. /\ UNCHANGED <<inputVars, window, atStart, pc>>
        /\ pc \notin {"resolve", "bounds"} /\ pc \in Working
    BY <1>3 DEF Post
  <2>2. /\ \A id \in Ids : channel'[id] = channel[id]
        /\ Len(channel') = Len(channel) + 1 /\ Len(channel) \in Nat
        /\ channel' \in Seq(Messages)
    BY <1>3, PostedSetting
  <2>3. ResolvedTo(window)' <=> ResolvedTo(window)
    BY <2>1 DEF inputVars, ResolvedTo, ClockOK
  <2>4. ClockOK' /\ (Bound(window.after) /\ Bound(window.before))'
    BY <2>1 DEF inputVars, ClockOK, Setting, Bound
  <2>5. atStart \in Nat /\ atStart <= Len(channel)
    BY DEF Setting
  <2>6. \A i, j \in 1 .. Len(channel') :
            i < j /\ j <= atStart => ~Earlier(channel'[j].at, channel'[i].at)
    <3> SUFFICES ASSUME NEW i \in Nat, NEW j \in Nat, 1 <= i, i < j, j <= atStart
                 PROVE  ~Earlier(channel'[j].at, channel'[i].at)
      BY <2>2
    <3>1. i \in Ids /\ j \in Ids
      BY <2>2, <2>5 DEF Ids
    <3>2. ~Earlier(channel[j].at, channel[i].at)
      BY <3>1 DEF Setting, Ids
    <3> QED BY <2>2, <3>1, <3>2
  <2>7. atStart' \in Nat /\ atStart' <= Len(channel')
    BY <2>1, <2>2, <2>5
  <2> QED BY <2>1, <2>2, <2>3, <2>4, <2>6, <2>7 DEF Setting, inputVars
<1>4. CASE FetchPage \/ NextMessage \/ EndOfPage \/ LookAtAttachment \/ Get
           \/ GetFails \/ BeginMember \/ EndMember \/ Commit \/ BodyFails \/ Abort
  <2>1. UNCHANGED <<inputVars, channel, window, atStart>>
    BY <1>4 DEF FetchPage, NextMessage, EndOfPage, LookAtAttachment, Get,
                GetFails, BeginMember, EndMember, Commit, BodyFails, Abort
  <2>2. /\ pc' \notin {"resolve", "bounds"} /\ pc # "resolve"
        /\ pc = "failed" => pc' = "failed"
    BY <1>4 DEF FetchPage, NextMessage, EndOfPage, LookAtAttachment, Get, Goto,
                GetFails, BeginMember, EndMember, Commit, BodyFails, Abort, Skip
  <2> QED BY <2>1, <2>2, SettingKept
<1>5. CASE Elapse
  <2>1. /\ UNCHANGED <<inputVars, channel, window, atStart, pc>>
        /\ pc \notin {"resolve", "bounds", "failed"}
    BY <1>5 DEF Elapse
  <2> QED BY <2>1, SettingKept
<1>6. CASE UNCHANGED vars
  BY <1>6 DEF vars, inputVars, Setting, ClockOK, Bound, ResolvedTo
<1> QED BY <1>1, <1>2, <1>3, <1>4, <1>5, <1>6 DEF Next, Proceed, Disturb

-----------------------------------------------------------------------------
(* The shown position *)

LEMMA MinMax ==
    ASSUME NEW a \in Int, NEW b \in Int
    PROVE  /\ Min({a, b}) = IF a <= b THEN a ELSE b
           /\ Max({a, b}) = IF a >= b THEN a ELSE b
<1> DEFINE IsMin(x) == x \in {a, b} /\ \A y \in {a, b} : x <= y
           IsMax(x) == x \in {a, b} /\ \A y \in {a, b} : x >= y
<1>1. Min({a, b}) = CHOOSE x \in {a, b} : \A y \in {a, b} : x <= y
  BY DEF Min
<1>2. Max({a, b}) = CHOOSE x \in {a, b} : \A y \in {a, b} : x >= y
  BY DEF Max
<1>3. IsMin(a) \/ IsMin(b)
  OBVIOUS
<1>4. IsMax(a) \/ IsMax(b)
  OBVIOUS
<1>5. IsMin(Min({a, b}))
  BY <1>1, <1>3
<1>6. IsMax(Max({a, b}))
  BY <1>2, <1>4
<1> QED BY <1>5, <1>6

\* The position lies between none and all, and grows towards older messages.
LEMMA PositionGrows ==
    ASSUME bounds.low \in Nat, bounds.high \in Nat,
           NEW id \in Nat, NEW older \in Nat, older <= id
    PROVE  /\ _compute_history_fraction(id) \in (0 .. bounds.high) \cup {1}
           /\ _compute_history_fraction(id) <= _compute_history_fraction(older)
<1>1. PICK low \in Nat, high \in Nat : low = bounds.low /\ high = bounds.high
  OBVIOUS
<1>2. CASE high <= low
  BY <1>1, <1>2 DEF _compute_history_fraction
<1>3. CASE low < high
  <2> DEFINE near == Min({high - low, high - id})
             far == Min({high - low, high - older})
  <2>1. _compute_history_fraction(id) = Max({0, near})
        /\ _compute_history_fraction(older) = Max({0, far})
    BY <1>1, <1>3 DEF _compute_history_fraction
  <2>2. /\ near = IF high - low <= high - id THEN high - low ELSE high - id
        /\ far = IF high - low <= high - older THEN high - low ELSE high - older
    BY MinMax
  <2> HIDE DEF near, far
  <2>3. near \in Int /\ far \in Int
    BY <2>2
  <2>4. PICK n \in Int, f \in Int : n = near /\ f = far /\ n <= f /\ n <= high
    <3>1. near <= far /\ near <= high
      <4>1. PICK u \in Int, v \in Int, w \in Int :
                u = high - low /\ v = high - id /\ w = high - older
                /\ v <= w /\ v <= high
        OBVIOUS
      <4> QED BY <2>2, <4>1
    <3> QED BY <2>3, <3>1
  <2>5. Max({0, n}) = (IF 0 >= n THEN 0 ELSE n)
        /\ Max({0, f}) = (IF 0 >= f THEN 0 ELSE f)
    <3>1. 0 \in Int /\ n \in Int /\ f \in Int
      BY <2>4
    <3>2. Max({0, n}) = IF 0 >= n THEN 0 ELSE n
      BY <3>1, MinMax
    <3>3. Max({0, f}) = IF 0 >= f THEN 0 ELSE f
      BY <3>1, MinMax
    <3> QED BY <3>2, <3>3
  <2> QED BY <1>1, <2>1, <2>4, <2>5
<1> QED BY <1>2, <1>3

LEMMA SnowflakeType ==
    ASSUME Setting, NEW t
    PROVE  Snowflake(t) \in Ids \cup {0}
<1>1. Len(channel) \in Nat
  BY DEF Setting
<1>2. IsFiniteSet(Ids) /\ Cardinality(Ids) = Len(channel)
  <2>1. \A n \in Nat : IsFiniteSet(1 .. n) /\ Cardinality(1 .. n) = n
    <3> SUFFICES ASSUME NEW n \in Nat
                 PROVE  IsFiniteSet(1 .. n) /\ Cardinality(1 .. n) = n
      OBVIOUS
    <3>1. /\ IsFiniteSet(1 .. n)
          /\ Cardinality(1 .. n) = IF 1 > n THEN 0 ELSE n - 1 + 1
      BY FS_Interval
    <3> QED BY <3>1
  <2>2. PICK n \in Nat : n = Len(channel)
    BY <1>1
  <2>3. Ids = 1 .. n
    BY <2>2 DEF Ids
  <2> QED BY <2>1, <2>2, <2>3
<1> DEFINE S == {id \in Ids : Earlier(channel[id].at, t)}
<1>3. IsFiniteSet(S) /\ Cardinality(S) <= Cardinality(Ids)
  BY <1>2, FS_Subset
<1>4. Cardinality(S) \in Nat
  BY <1>3, FS_CardinalityType
<1> QED BY <1>1, <1>2, <1>3, <1>4 DEF Snowflake, Ids

-----------------------------------------------------------------------------
(* Types: TypeOK but for the count of attachments *)

Fresh ==
    /\ page = {} /\ cursor = 0 /\ message = 0 /\ zip = <<>> /\ skipped = {}
    /\ done = 0 /\ ~emitted /\ snapshot = NoSnapshot

Types ==
    /\ pc \in Working \cup Ended
    /\ bounds.low \in Ids \cup {0, Unknown}
    /\ bounds.high \in Ids \cup {0, Unknown}
    /\ page \subseteq Ids
    /\ cursor \in Ids \cup {0}
    /\ more \in BOOLEAN
    /\ message \in Ids \cup {0}
    /\ file \in Nat
    /\ done \in Nat
    /\ due \in BOOLEAN
    /\ zip \in Seq(Nat \X Nat)
    /\ \A k \in 1 .. Len(zip) : zip[k] \in Attachments
    /\ emitted \in BOOLEAN
    /\ snapshot.done \in Nat
    /\ snapshot.fraction \in Ids \cup {0, Unknown}
    /\ skipped \subseteq Attachments
    /\ pc \in {"resolve", "bounds"} => Fresh
    /\ pc \in {"attachment", "get", "member", "body"} =>
           message \in Ids /\ file \in Nat \ {0}
    /\ pc \in {"get", "member", "body"} => Current \in Attachments

LEMMA FilesTypes ==
    ASSUME Setting, NEW id \in Ids
    PROVE  /\ Files(id) \in Seq(Attached) /\ Len(Files(id)) \in Nat
           /\ DOMAIN Files(id) = 1 .. Len(Files(id))
           /\ channel[id].at \in Times
           /\ id \in Nat \ {0}
<1>1. channel \in Seq(Messages)
  BY DEF Setting
<1>2. channel[id] \in Messages /\ id \in Nat \ {0}
  BY <1>1 DEF Ids
<1>3. Files(id) \in Seq(Attached) /\ channel[id].at \in Times
  BY <1>2 DEF Files, Messages
<1> QED BY <1>2, <1>3

LEMMA AttachmentParts ==
    ASSUME Setting
    PROVE  /\ \A id \in Ids, k \in Nat \ {0} :
                  <<id, k>> \in Attachments <=> k <= Len(Files(id))
           /\ \A a \in Attachments : /\ a = <<a[1], a[2]>> /\ a[1] \in Ids
                                     /\ a[2] \in Nat \ {0}
                                     /\ a[2] <= Len(Files(a[1]))
                                     /\ a \in Nat \X Nat
<1>1. \A id \in Ids : /\ DOMAIN Files(id) = 1 .. Len(Files(id))
                      /\ Len(Files(id)) \in Nat /\ id \in Nat \ {0}
  BY FilesTypes
<1>2. ASSUME NEW id \in Ids, NEW k \in Nat \ {0}
      PROVE  <<id, k>> \in Attachments <=> k <= Len(Files(id))
  BY <1>1 DEF Attachments
<1>3. ASSUME NEW a \in Attachments
      PROVE  /\ a = <<a[1], a[2]>> /\ a[1] \in Ids
             /\ a[2] \in Nat \ {0}
             /\ a[2] <= Len(Files(a[1]))
             /\ a \in Nat \X Nat
  <2>1. PICK id \in Ids : a \in {id} \X DOMAIN Files(id)
    BY DEF Attachments
  <2>2. a \in {id} \X (1 .. Len(Files(id)))
    BY <1>1, <2>1
  <2> QED BY <1>1, <2>2
<1> QED BY <1>2, <1>3

LEMMA TypesInit == Init => Types
<1> SUFFICES ASSUME Init PROVE Types
  OBVIOUS
<1>1. /\ pc = "resolve" /\ Fresh
      /\ bounds.low = Unknown /\ bounds.high = Unknown
      /\ emitted \in BOOLEAN /\ more \in BOOLEAN /\ file \in Nat /\ due \in BOOLEAN
  BY DEF Init, Fresh
<1>2. snapshot.done \in Nat /\ snapshot.fraction = Unknown
  BY <1>1 DEF Fresh, NoSnapshot
<1>3. zip \in Seq(Nat \X Nat) /\ Len(zip) = 0
  BY <1>1 DEF Fresh
<1> QED BY <1>1, <1>2, <1>3 DEF Types, Fresh, Working

\* A tick tells what the walk knows.
LEMMA SnapshotType ==
    ASSUME Setting, Types, NEW id \in Ids
    PROVE  /\ Snapshot(id).done = done
           /\ Snapshot(id).fraction \in Ids \cup {0, Unknown}
<1>1. CASE Unknown \in {bounds.low, bounds.high}
  BY <1>1 DEF Snapshot
<1>2. CASE Unknown \notin {bounds.low, bounds.high}
  <2>1. Len(channel) \in Nat
    BY DEF Setting
  <2>2. bounds.low \in Nat /\ bounds.high \in Nat /\ id \in Nat
        /\ bounds.high <= Len(channel)
    BY <1>2, <2>1 DEF Types, Ids
  <2>3. _compute_history_fraction(id) \in (0 .. bounds.high) \cup {1}
    BY <2>2, PositionGrows
  <2>4. PICK high \in Nat : high = bounds.high /\ high <= Len(channel)
    BY <2>2
  <2>5. _compute_history_fraction(id) \in Ids \cup {0}
    <3>1. 1 \in Ids
      BY <2>1 DEF Ids
    <3> QED BY <2>1, <2>3, <2>4, <3>1 DEF Ids
  <2> QED BY <1>2, <2>5 DEF Snapshot
<1> QED BY <1>1, <1>2

LEMMA TypesStep ==
    ASSUME Setting, Types, [Next]_vars
    PROVE  Types'
<1>1. CASE ResolveFilters
  <2>1. UNCHANGED <<inputVars, channel>>
    BY <1>1 DEF ResolveFilters
  <2>2. Ids' = Ids /\ Attachments' = Attachments
    BY <2>1 DEF Ids, Attachments, Files
  <2> QED BY <1>1, <2>2
          DEF ResolveFilters, Types, Fresh, Goto, walkVars, seenVars, Working,
              Ended
<1>2. CASE ResolveSnowflakeBounds
  <2>1. UNCHANGED <<inputVars, channel, window>>
    BY <1>2 DEF ResolveSnowflakeBounds
  <2>2. Ids' = Ids /\ Attachments' = Attachments
    BY <2>1, SameSetting
  <2>3. Len(channel) \in Nat /\ (channel # <<>> => 1 \in Ids /\ Len(channel) \in Ids)
    BY DEF Setting, Ids
  <2>4. Snowflake(window.after) \in Ids \cup {0}
        /\ Snowflake(window.before) \in Ids \cup {0}
    BY SnowflakeType
  <2>5. PICK low : /\ low \in Ids \cup {0, Unknown}
                   /\ bounds' = [low |-> low,
                                 high |-> IF window.before # None
                                          THEN Snowflake(window.before)
                                          ELSE IF channel = <<>> THEN Unknown
                                          ELSE Len(channel)]
    BY <1>2, <2>3, <2>4 DEF ResolveSnowflakeBounds
  <2>6. bounds'.low \in Ids \cup {0, Unknown}
    BY <2>5
  <2>7. bounds'.high \in Ids \cup {0, Unknown}
    BY <2>3, <2>4, <2>5
  <2> QED BY <1>2, <2>2, <2>6, <2>7
          DEF ResolveSnowflakeBounds, Types, Goto, walkVars, seenVars, Working
<1>3. CASE FetchPage
  <2>1. UNCHANGED <<inputVars, channel, window>>
    BY <1>3 DEF FetchPage
  <2>2. Ids' = Ids /\ Attachments' = Attachments
    BY <2>1, SameSetting
  <2>3. Fetched \subseteq Ids
    BY DEF Fetched, Ahead
  <2>4. page' \subseteq Ids /\ cursor' \in Ids \cup {0} /\ more' \in BOOLEAN
    BY <1>3, <2>3 DEF FetchPage, Types
  <2> QED BY <1>3, <2>2, <2>4 DEF FetchPage, Types, Goto, seenVars, Working
<1>4. CASE NextMessage
  <2>1. UNCHANGED <<inputVars, channel, window>>
    BY <1>4 DEF NextMessage
  <2>2. Ids' = Ids /\ Attachments' = Attachments
    BY <2>1, SameSetting
  <2>3. PICK id \in page : /\ message' = id /\ page' = page \ {id}
                           /\ snapshot' \in {snapshot, Snapshot(id)}
    BY <1>4 DEF NextMessage, Tick
  <2>4. id \in Ids
    BY <2>3 DEF Types
  <2>5. snapshot'.done \in Nat /\ snapshot'.fraction \in Ids \cup {0, Unknown}
    BY <2>3, <2>4, SnapshotType DEF Types
  <2>6. page' \subseteq Ids /\ message' \in Ids
    BY <2>3, <2>4 DEF Types
  <2>7. file' = 1 /\ due' = FALSE /\ pc' = "attachment"
        /\ UNCHANGED <<bounds, cursor, more, done, zip, emitted, skipped>>
    BY <1>4 DEF NextMessage, Goto
  <2>8. file' \in Nat \ {0} /\ due' \in BOOLEAN
    <3>1. file' \in Nat \ {0}
      BY <1>4 DEF NextMessage
    <3>2. due' \in BOOLEAN
      BY <1>4, Zenon DEF NextMessage
    <3> QED BY <3>1, <3>2
  <2>9. pc' \in Working /\ pc' \notin {"resolve", "bounds", "get", "member", "body"}
    BY <2>7 DEF Working
  <2>10. \A k \in 1 .. Len(zip') : zip'[k] \in Attachments'
    BY <2>2, <2>7 DEF Types
  <2>11. /\ bounds'.low \in Ids' \cup {0, Unknown}
         /\ bounds'.high \in Ids' \cup {0, Unknown}
         /\ cursor' \in Ids' \cup {0} /\ more' \in BOOLEAN
         /\ done' \in Nat /\ emitted' \in BOOLEAN
         /\ zip' \in Seq(Nat \X Nat) /\ skipped' \subseteq Attachments'
    BY <2>2, <2>7 DEF Types
  <2> QED BY <2>2, <2>5, <2>6, <2>8, <2>9, <2>10, <2>11 DEF Types
<1>5. CASE EndOfPage \/ Commit \/ Abort \/ BodyFails
  <2>1. UNCHANGED <<inputVars, channel, window>>
    BY <1>5 DEF EndOfPage, Commit, Abort, BodyFails
  <2>2. Ids' = Ids /\ Attachments' = Attachments
    BY <2>1, SameSetting
  <2>3. UNCHANGED <<bounds, walkVars, seenVars, done, due, zip, snapshot, skipped>>
    BY <1>5 DEF EndOfPage, Commit, Abort, BodyFails
  <2>4. emitted' \in BOOLEAN
    BY <1>5 DEF EndOfPage, Commit, Abort, BodyFails, Types
  <2>5. pc' \in {"page", "empty", "finish", "committed", "failed"}
    BY <1>5 DEF EndOfPage, Commit, Abort, BodyFails, Goto
  <2> QED BY <2>2, <2>3, <2>4, <2>5 DEF Types, walkVars, seenVars, Working, Ended
<1>6. CASE LookAtAttachment
  <2>1. UNCHANGED <<inputVars, channel, window>> /\ pc = "attachment"
        /\ message' = message
    BY <1>6 DEF LookAtAttachment
  <2>2. Ids' = Ids /\ Attachments' = Attachments
    BY <2>1, SameSetting
  <2>3. message \in Ids /\ file \in Nat \ {0}
    BY <2>1 DEF Types
  <2>4. Len(Files(message)) \in Nat
    BY <2>3, FilesTypes
  <2>5. file' \in Nat \ {0} /\ pc' \in {"message", "get", "attachment"}
    BY <1>6, <2>3 DEF LookAtAttachment, Skip, Goto
  <2>6. pc' = "get" => Current' = Current /\ file <= Len(Files(message))
    BY <1>6, <2>3, <2>4 DEF LookAtAttachment, Skip, Goto, Current
  <2>7. pc' = "get" => Current' \in Attachments
    BY <2>3, <2>6, AttachmentParts DEF Current
  <2> QED BY <1>6, <2>1, <2>2, <2>3, <2>5, <2>7
          DEF LookAtAttachment, Types, walkVars, Working
<1>7. CASE Get
  <2>1. UNCHANGED <<inputVars, channel, window>>
    BY <1>7 DEF Get
  <2>2. Ids' = Ids /\ Attachments' = Attachments
    BY <2>1, SameSetting
  <2>3. done' \in Nat
    BY <1>7 DEF Get, Types
  <2>4. UNCHANGED <<message, file>> /\ Current' = Current /\ pc = "get"
        /\ pc' = "member"
    BY <1>7 DEF Get, seenVars, Current, Goto
  <2> QED BY <1>7, <2>2, <2>3, <2>4 DEF Get, Types, walkVars, seenVars, Working
<1>8. CASE GetFails
  <2>1. UNCHANGED <<inputVars, channel, window>>
    BY <1>8 DEF GetFails
  <2>2. Ids' = Ids /\ Attachments' = Attachments
    BY <2>1, SameSetting
  <2>3. file' \in Nat \ {0} /\ message' \in Ids /\ message' = message
    BY <1>8 DEF GetFails, Skip, Types
  <2>4. skipped' \subseteq Attachments
    BY <1>8 DEF GetFails, Types
  <2> QED BY <1>8, <2>2, <2>3, <2>4
          DEF GetFails, Skip, Goto, Types, walkVars, Working
<1>9. CASE BeginMember
  <2>1. UNCHANGED <<inputVars, channel, window>>
    BY <1>9 DEF BeginMember
  <2>2. Ids' = Ids /\ Attachments' = Attachments
    BY <2>1, SameSetting
  <2>3. UNCHANGED <<message, file>> /\ Current' = Current
    BY <1>9 DEF BeginMember, seenVars, Current
  <2> QED BY <1>9, <2>2, <2>3
          DEF BeginMember, Goto, Types, walkVars, seenVars, Working
<1>10. CASE EndMember
  <2>1. UNCHANGED <<inputVars, channel, window>>
    BY <1>10 DEF EndMember
  <2>2. Ids' = Ids /\ Attachments' = Attachments
    BY <2>1, SameSetting
  <2>3. file' \in Nat \ {0} /\ message' \in Ids /\ message' = message
    BY <1>10 DEF EndMember, Skip, Types
  <2>4. Current \in Attachments /\ Current \in Nat \X Nat
    BY <1>10, AttachmentParts DEF EndMember, Types
  <2>5. zip \in Seq(Nat \X Nat) /\ zip' = Append(zip, Current)
    BY <1>10 DEF EndMember, Types
  <2>6. /\ zip' \in Seq(Nat \X Nat)
        /\ \A k \in 1 .. Len(zip') : zip'[k] \in Attachments
    BY <2>4, <2>5 DEF Types
  <2> QED BY <1>10, <2>2, <2>3, <2>6
          DEF EndMember, Skip, Goto, Types, walkVars, Working
<1>11. CASE Elapse
  <2>1. UNCHANGED <<inputVars, channel, window>>
    BY <1>11 DEF Elapse
  <2>2. Ids' = Ids /\ Attachments' = Attachments
    BY <2>1, SameSetting
  <2>3. UNCHANGED <<message, file>> /\ Current' = Current
    BY <1>11 DEF Elapse, seenVars, Current
  <2> QED BY <1>11, <2>2, <2>3 DEF Elapse, Types, Fresh, walkVars, seenVars, Working
<1>12. CASE Post
  <2>1. Attachments \subseteq Attachments' /\ Ids \subseteq Ids'
    BY <1>12, PostedSetting
  <2>2. UNCHANGED <<message, file>> /\ Current' = Current
    BY <1>12 DEF Post, seenVars, Current
  <2> QED BY <1>12, <2>1, <2>2 DEF Post, Types, Fresh, walkVars, seenVars, Working
<1>13. CASE UNCHANGED vars
  <2>1. UNCHANGED <<inputVars, channel, window>>
    BY <1>13 DEF vars
  <2>2. Ids' = Ids /\ Attachments' = Attachments
    BY <2>1, SameSetting
  <2>3. UNCHANGED <<message, file>> /\ Current' = Current
    BY <1>13 DEF vars, seenVars, Current
  <2> QED BY <1>13, <2>2, <2>3 DEF vars, Types, Fresh, walkVars, seenVars
<1> QED BY <1>1, <1>2, <1>3, <1>4, <1>5, <1>6, <1>7, <1>8, <1>9, <1>10, <1>11,
           <1>12, <1>13 DEF Next, Proceed, Disturb

-----------------------------------------------------------------------------
(* A request: the first of what is ahead *)

\* Any set of ids has one that none of them precedes, and one that precedes
\* none of them.
LEMMA FirstAndLast ==
    ASSUME Setting, NEW S, S \subseteq Ids, S # {}
    PROVE  /\ \E x \in S : \A y \in S : ~Precedes(y, x)
           /\ \E x \in S : \A y \in S : ~Precedes(x, y)
<1>1. PICK n \in Nat : n = Len(channel)
  BY DEF Setting
<1>2. \A x \in S : x \in Nat /\ 1 <= x /\ x <= n
  BY <1>1 DEF Ids
<1>3. PICK least \in S : \A y \in S : least <= y
  <2>1. S \subseteq Nat
    BY <1>2
  <2> QED BY <2>1, Least
<1>4. PICK greatest \in S : \A y \in S : y <= greatest
  <2> DEFINE T == {n - x : x \in S}
  <2>1. T \subseteq Nat /\ T # {}
    BY <1>2
  <2>2. PICK t \in T : \A u \in T : t <= u
    <3> HIDE DEF T
    <3> QED BY <2>1, Least
  <2>3. PICK x \in S : t = n - x
    BY <2>2
  <2>4. ASSUME NEW y \in S PROVE y <= x
    <3>1. t <= n - y
      BY <2>2
    <3> QED BY <1>2, <2>3, <3>1
  <2> QED BY <2>4
<1> QED BY <1>2, <1>3, <1>4 DEF Precedes

LEMMA PrecedesOrders ==
    /\ \A i, j, k \in Nat : Precedes(i, j) /\ Precedes(j, k) => Precedes(i, k)
    /\ \A i, j \in Nat : Precedes(i, j) \/ i = j \/ Precedes(j, i)
    /\ \A i, j \in Nat : ~(Precedes(i, j) /\ Precedes(j, i))
    /\ \A i \in Nat : ~Precedes(i, i)
BY DEF Precedes

Preceding(id) == {i \in Ahead : Precedes(i, id)}

LEMMA AheadTypes ==
    ASSUME Setting
    PROVE  /\ Ahead \subseteq Ids /\ Ids \subseteq Nat /\ IsFiniteSet(Ahead)
           /\ Fetched \subseteq Ahead /\ IsFiniteSet(Fetched)
           /\ Cardinality(Fetched) \in Nat
           /\ \A id : /\ Preceding(id) \subseteq Ahead
                      /\ IsFiniteSet(Preceding(id))
                      /\ Cardinality(Preceding(id)) \in Nat
           /\ Fetched = {id \in Ahead : Cardinality(Preceding(id)) < PageSize}
<1>1. Len(channel) \in Nat
  BY DEF Setting
<1>2. IsFiniteSet(Ids) /\ Ids \subseteq Nat
  <2>1. PICK n \in Nat : n = Len(channel)
    BY <1>1
  <2>2. IsFiniteSet(1 .. n)
    BY <2>1, FS_Interval
  <2> QED BY <2>1, <2>2 DEF Ids
<1>3. Ahead \subseteq Ids /\ IsFiniteSet(Ahead)
  <2>1. Ahead \subseteq Ids
    BY DEF Ahead
  <2> QED BY <1>2, <2>1, FS_Subset
<1>4. Fetched \subseteq Ahead
  BY DEF Fetched
<1>5. IsFiniteSet(Fetched) /\ Cardinality(Fetched) \in Nat
  BY <1>3, <1>4, FS_Subset, FS_CardinalityType
<1>6. ASSUME NEW id
      PROVE  /\ Preceding(id) \subseteq Ahead
             /\ IsFiniteSet(Preceding(id))
             /\ Cardinality(Preceding(id)) \in Nat
  <2>1. Preceding(id) \subseteq Ahead
    BY DEF Preceding
  <2> QED BY <1>3, <2>1, FS_Subset, FS_CardinalityType
<1>7. Fetched = {id \in Ahead : Cardinality(Preceding(id)) < PageSize}
  BY DEF Fetched, Preceding
<1> QED BY <1>2, <1>3, <1>4, <1>5, <1>6, <1>7

\* What a request returns comes before what it leaves.
LEMMA FetchedFirst ==
    ASSUME Setting, NEW id \in Ahead, id \notin Fetched, NEW f \in Fetched
    PROVE  Precedes(f, id)
<1>1. id \in Nat /\ f \in Nat /\ f \in Ahead
  BY AheadTypes
<1>2. CASE id = f
  BY <1>2
<1>3. CASE Precedes(id, f)
  <2>1. Preceding(id) \subseteq Preceding(f)
    BY <1>1, <1>3, PrecedesOrders, AheadTypes DEF Preceding
  <2>2. Cardinality(Preceding(id)) <= Cardinality(Preceding(f))
    BY <2>1, AheadTypes, FS_Subset
  <2>3. Cardinality(Preceding(f)) < PageSize
    BY AheadTypes
  <2>4. Cardinality(Preceding(id)) < PageSize
    BY <2>2, <2>3, AheadTypes, ZipAssumption
  <2> QED BY <2>4, AheadTypes
<1> QED BY <1>1, <1>2, <1>3, PrecedesOrders

\* A request leaves something only when it returns a full page, and returns no
\* more than that.
LEMMA FetchedFull ==
    ASSUME Setting
    PROVE  /\ Cardinality(Fetched) <= PageSize
           /\ Fetched # Ahead => Cardinality(Fetched) = PageSize
<1>1. PageSize \in Nat /\ PageSize > 0
  BY ZipAssumption
<1>2. Cardinality(Fetched) <= PageSize
  <2>1. CASE Fetched = {}
    BY <1>1, <2>1, FS_EmptySet
  <2>2. CASE Fetched # {}
    <3>1. PICK last \in Fetched : \A y \in Fetched : ~Precedes(last, y)
      BY <2>2, AheadTypes, FirstAndLast
    <3>2. Fetched \ {last} \subseteq Preceding(last)
      BY <3>1, AheadTypes, PrecedesOrders DEF Preceding
    <3>3. Cardinality(Fetched \ {last}) <= Cardinality(Preceding(last))
      BY <3>2, AheadTypes, FS_Subset
    <3>4. Cardinality(Preceding(last)) < PageSize
      BY AheadTypes
    <3>5. Cardinality(Fetched \ {last}) = Cardinality(Fetched) - 1
      BY AheadTypes, FS_RemoveElement
    <3> QED BY <1>1, <3>3, <3>4, <3>5, AheadTypes
  <2> QED BY <2>1, <2>2
<1>3. ASSUME Fetched # Ahead PROVE Cardinality(Fetched) >= PageSize
  <2>1. Ahead \ Fetched # {} /\ Ahead \ Fetched \subseteq Ids
    BY <1>3, AheadTypes
  <2>2. PICK x \in Ahead \ Fetched : \A y \in Ahead \ Fetched : ~Precedes(y, x)
    BY <2>1, FirstAndLast
  <2>3. Preceding(x) \subseteq Fetched
    BY <2>2 DEF Preceding
  <2>4. Cardinality(Preceding(x)) <= Cardinality(Fetched)
    BY <2>3, AheadTypes, FS_Subset
  <2>5. ~(Cardinality(Preceding(x)) < PageSize)
    BY <2>2, AheadTypes
  <2> QED BY <1>1, <2>4, <2>5, AheadTypes
<1> QED BY <1>1, <1>2, <1>3, AheadTypes

-----------------------------------------------------------------------------
(* The walk: no message of the window is missed, none is walked twice *)

Beyond(id) == cursor # 0 => Precedes(cursor, id)
Walked(id) == message # 0 /\ ~Precedes(message, id)

Walk ==
    pc \notin {"resolve", "bounds", "failed"} =>
        /\ \A id \in page : /\ InWindow(id) /\ ~Walked(id)
                            /\ cursor # 0 /\ ~Precedes(cursor, id)
        /\ message # 0 => /\ InWindow(message)
                          /\ cursor # 0 /\ ~Precedes(cursor, message)
        /\ \A id \in 1 .. atStart :
               InWindow(id) =>
                   \/ Walked(id)
                   \/ id \in page
                   \/ Beyond(id) /\ (pc = "page" \/ more)
        /\ pc = "page" => page = {}
        /\ pc \in {"finish", "committed", "empty"} => page = {} /\ ~more

\* What is in the window is what Discord selects by one of its ends and
\* discord.py or Discord by the other.
LEMMA InWindowMeans ==
    ASSUME NEW id \in Ids
    PROVE  /\ InWindow(id) <=> (OldestFirst => After(id)) /\ Before(id)
           /\ id \in Ahead <=> /\ Beyond(id)
                               /\ IF OldestFirst THEN After(id) ELSE Before(id)
BY DEF InWindow, Within, OldestFirst, After, Before, Ahead, Beyond

\* A page that is not full is the last: what was left is outside the window, or
\* was posted after the walk began.
LEMMA ShortPageEnds ==
    ASSUME Setting, NEW kept, kept = {f \in Fetched : Before(f)},
           Cardinality(kept) # PageSize,
           pc \notin {"resolve", "failed"},
           NEW id \in Ahead, id \notin Fetched, id <= atStart, InWindow(id)
    PROVE  FALSE
<1>1. Cardinality(Fetched) = PageSize
  BY FetchedFull
<1>2. PICK f \in Fetched : ~Before(f)
  BY <1>1
<1>3. f \in Ids /\ id \in Ids /\ f \in Nat /\ id \in Nat /\ f \in Ahead
  BY AheadTypes
<1>4. OldestFirst
  BY <1>2, <1>3, InWindowMeans
<1>5. f < id
  <2>1. Precedes(f, id)
    BY FetchedFirst
  <2> QED BY <1>4, <2>1 DEF Precedes
<1>6. ~Earlier(channel[id].at, channel[f].at)
  BY <1>3, <1>5 DEF Setting, Ids
<1>7. Before(id)
  BY <1>3, InWindowMeans
<1>8. Earlier(channel[id].at, window.before) /\ ~Earlier(channel[f].at, window.before)
  BY <1>2, <1>7 DEF Before
<1>9. channel[id].at \in Times /\ channel[f].at \in Times
  BY <1>3, FilesTypes
<1>10. PICK a \in Int, b \in Int, c \in Int, d \in Int :
           /\ channel[id].at.day = a /\ channel[id].at.sec = b
           /\ channel[f].at.day = c /\ channel[f].at.sec = d
  BY <1>9, TimeParts
<1>11. PICK u \in Int, v \in Int : window.before.day = u /\ window.before.sec = v
  <2>1. SecondsPerDay \in Int
    BY DEF SecondsPerDay
  <2> QED BY <2>1 DEF Setting, Bound
<1>12. /\ a < u \/ (a = u /\ b < v)
       /\ ~(c < u \/ (c = u /\ d < v))
       /\ ~(a < c \/ (a = c /\ b < d))
  BY <1>6, <1>8, <1>10, <1>11 DEF Earlier
<1> QED BY <1>12

LEMMA WalkFetch ==
    ASSUME Setting, Types, Walk, FetchPage
    PROVE  Walk'
<1>1. UNCHANGED <<inputVars, channel, window, message, atStart>>
      /\ pc = "page" /\ pc' = "message" /\ page = {}
  BY DEF FetchPage, Goto, seenVars, Walk
<1>2. /\ Ids' = Ids /\ \A id : InWindow(id)' <=> InWindow(id)
      /\ \A i, j : Precedes(i, j)' <=> Precedes(i, j)
  BY <1>1, SameSetting
<1>3. PICK kept : /\ kept = {id \in Fetched : Before(id)} /\ page' = kept
                  /\ more' = (Cardinality(kept) = PageSize)
  BY DEF FetchPage
<1>4. PICK c : /\ c = cursor'
               /\ Fetched = {} => c = cursor
               /\ Fetched # {} => /\ c \in Fetched
                                  /\ \A id \in Fetched : ~Precedes(c, id)
  BY DEF FetchPage
<1>5. /\ \A id : Walked(id)' <=> Walked(id)
      /\ \A id : Beyond(id)' <=> (c # 0 => Precedes(c, id))
  BY <1>1, <1>2, <1>4 DEF Walked, Beyond
<1>6. /\ Ahead \subseteq Ids /\ Ids \subseteq Nat /\ Fetched \subseteq Ahead
      /\ 0 \notin Ids
  BY AheadTypes DEF Ids
<1>7. cursor \in Ids \cup {0} /\ message \in Ids \cup {0}
  BY DEF Types
<1>8. message # 0 => InWindow(message) /\ cursor # 0 /\ ~Precedes(cursor, message)
  BY <1>1 DEF Walk
<1>9. \A id \in Ahead : Beyond(id) /\ ~Walked(id)
  <2> SUFFICES ASSUME NEW id \in Ahead PROVE Beyond(id) /\ ~Walked(id)
    OBVIOUS
  <2>1. Beyond(id)
    BY <1>6, InWindowMeans
  <2>2. ASSUME Walked(id) PROVE FALSE
    <3>1. message # 0 /\ ~Precedes(message, id)
      BY <2>2 DEF Walked
    <3>2. Precedes(cursor, id) /\ ~Precedes(cursor, message)
      BY <1>8, <2>1, <3>1 DEF Beyond
    <3>3. cursor \in Nat /\ message \in Nat /\ id \in Nat
      BY <1>6, <1>7
    <3> QED BY <3>1, <3>2, <3>3, PrecedesOrders
  <2> QED BY <2>1, <2>2
<1>10. \A id \in kept : /\ InWindow(id) /\ ~Walked(id)
                        /\ c # 0 /\ ~Precedes(c, id)
  BY <1>3, <1>4, <1>6, <1>9, InWindowMeans
<1>11. message # 0 => InWindow(message) /\ c # 0 /\ ~Precedes(c, message)
  <2> SUFFICES ASSUME message # 0 PROVE c # 0 /\ ~Precedes(c, message)
    BY <1>8
  <2>1. CASE Fetched = {}
    BY <1>4, <1>8, <2>1
  <2>2. CASE Fetched # {}
    <3>1. c \in Ahead /\ c \in Nat /\ c # 0 /\ message \in Nat
      <4>1. c \in Ahead /\ c \in Ids
        BY <1>4, <1>6, <2>2
      <4>2. message \in Nat
        BY <1>6, <1>7
      <4> QED BY <1>6, <4>1, <4>2
    <3>2. ~Walked(c)
      BY <1>9, <3>1
    <3>3. Precedes(message, c)
      BY <3>2 DEF Walked
    <3> QED BY <3>1, <3>3, PrecedesOrders
  <2> QED BY <2>1, <2>2
<1>12. ASSUME NEW id \in 1 .. atStart, InWindow(id), ~Walked(id), id \notin kept
       PROVE  (c # 0 => Precedes(c, id)) /\ Cardinality(kept) = PageSize
  <2>1. id \in Ids /\ id <= atStart
    BY DEF Setting, Ids
  <2>2. Beyond(id)
    BY <1>1, <1>12 DEF Walk
  <2>3. id \in Ahead
    BY <1>12, <2>1, <2>2, InWindowMeans
  <2>4. id \notin Fetched
    BY <1>3, <1>12, <2>1, InWindowMeans
  <2>5. Cardinality(kept) = PageSize
    BY <1>1, <1>3, <1>12, <2>1, <2>3, <2>4, ShortPageEnds
  <2>6. Fetched # {}
    <3>1. PageSize # 0 /\ Fetched # Ahead
      BY <2>3, <2>4, ZipAssumption
    <3> QED BY <3>1, FetchedFull, FS_EmptySet
  <2>7. c \in Fetched
    BY <1>4, <2>6
  <2>8. Precedes(c, id)
    BY <2>3, <2>4, <2>7, FetchedFirst
  <2> QED BY <2>5, <2>8
<1> QED BY <1>1, <1>2, <1>3, <1>4, <1>5, <1>10, <1>11, <1>12 DEF Walk

LEMMA WalkNext ==
    ASSUME Setting, Types, Walk, NextMessage
    PROVE  Walk'
<1>1. UNCHANGED <<inputVars, channel, window, cursor, more, atStart>>
      /\ pc = "message" /\ pc' = "attachment"
  BY DEF NextMessage, Goto
<1>2. /\ \A id : InWindow(id)' <=> InWindow(id)
      /\ \A i, j : Precedes(i, j)' <=> Precedes(i, j)
  BY <1>1, SameSetting
<1>3. PICK next \in page : /\ \A other \in page : ~Precedes(other, next)
                           /\ message' = next /\ page' = page \ {next}
  BY DEF NextMessage
<1>4. /\ page \subseteq Ids /\ Ids \subseteq Nat /\ 0 \notin Ids
      /\ cursor \in Ids \cup {0} /\ message \in Ids \cup {0}
  BY AheadTypes DEF Types, Ids
<1>5. /\ \A id : Walked(id)' <=> next # 0 /\ ~Precedes(next, id)
      /\ \A id : Beyond(id)' <=> Beyond(id)
  BY <1>1, <1>2, <1>3 DEF Walked, Beyond
<1>6. next \in Nat /\ next # 0 /\ next \in Ids /\ message \in Nat /\ cursor \in Nat
  <2>1. next \in Ids
    BY <1>3, <1>4
  <2>2. message \in Nat
    BY <1>4
  <2>3. cursor \in Nat
    BY <1>4
  <2> QED BY <1>4, <2>1, <2>2, <2>3
<1>7. InWindow(next) /\ ~Walked(next) /\ cursor # 0 /\ ~Precedes(cursor, next)
  BY <1>1, <1>3 DEF Walk
<1>8. ASSUME NEW id \in page, id # next
      PROVE  InWindow(id) /\ Precedes(next, id) /\ ~Precedes(cursor, id)
  <2>1. InWindow(id) /\ ~Precedes(cursor, id)
    BY <1>1, <1>8 DEF Walk
  <2>2. id \in Nat
    BY <1>4
  <2> QED BY <1>3, <1>6, <1>8, <2>1, <2>2, PrecedesOrders
<1>9. ASSUME NEW id \in 1 .. atStart, InWindow(id), id \notin page \ {next},
             Precedes(next, id)
      PROVE  Beyond(id) /\ more
  <2>1. id \in Nat
    BY <1>9 DEF Setting
  <2>2. id # next /\ id \notin page
    BY <1>6, <1>9, <2>1, PrecedesOrders
  <2>3. Walked(id) \/ (Beyond(id) /\ more)
    BY <1>1, <1>9, <2>2 DEF Walk
  <2>4. ~Walked(id)
    <3>1. CASE message = 0
      BY <3>1 DEF Walked
    <3>2. CASE message # 0
      <4>1. Precedes(message, next)
        BY <1>7, <3>2 DEF Walked
      <4>2. Precedes(message, id)
        BY <1>6, <1>9, <2>1, <4>1, PrecedesOrders
      <4> QED BY <4>2 DEF Walked
    <3> QED BY <3>1, <3>2
  <2> QED BY <2>3, <2>4
<1> QED BY <1>1, <1>2, <1>3, <1>5, <1>6, <1>7, <1>8, <1>9 DEF Walk

LEMMA WalkInit == Init => Walk
BY DEF Init, Walk

LEMMA WalkStep ==
    ASSUME Setting, Types, Walk, [Next]_vars
    PROVE  Walk'
<1>1. CASE ResolveFilters
  BY <1>1 DEF ResolveFilters, Walk, Goto
<1>2. CASE ResolveSnowflakeBounds
  <2>1. /\ pc' = "page" /\ pc = "bounds" /\ UNCHANGED <<walkVars, seenVars>>
    BY <1>2 DEF ResolveSnowflakeBounds, Goto
  <2>2. page' = {} /\ message' = 0 /\ cursor' = 0
    BY <2>1 DEF Types, Fresh, walkVars, seenVars
  <2>3. \A id : Beyond(id)'
    BY <2>2 DEF Beyond
  <2> QED BY <2>1, <2>2, <2>3 DEF Walk
<1>3. CASE FetchPage
  BY <1>3, WalkFetch
<1>4. CASE NextMessage
  BY <1>4, WalkNext
<1>5. CASE EndOfPage
  <2>1. /\ UNCHANGED <<inputVars, channel, window, walkVars, seenVars, atStart>>
        /\ pc = "message" /\ page = {}
        /\ pc' = "page" \/ (pc' \in {"empty", "finish"} /\ ~more)
    BY <1>5 DEF EndOfPage, Goto
  <2>2. /\ \A id : InWindow(id)' <=> InWindow(id)
        /\ \A i, j : Precedes(i, j)' <=> Precedes(i, j)
    BY <2>1, SameSetting
  <2>3. \A id : (Walked(id)' <=> Walked(id)) /\ (Beyond(id)' <=> Beyond(id))
    BY <2>1, <2>2 DEF Walked, Beyond, walkVars, seenVars
  <2> QED BY <2>1, <2>2, <2>3 DEF Walk, walkVars, seenVars
<1>6. CASE Commit \/ Elapse \/ UNCHANGED vars \/ LookAtAttachment \/ Get \/ GetFails
           \/ BeginMember \/ EndMember
  <2>1. UNCHANGED <<inputVars, channel, window, walkVars, message, atStart>>
    BY <1>6 DEF Commit, Elapse, vars, LookAtAttachment, Get, GetFails, BeginMember,
                EndMember, seenVars
  <2>2. /\ \A id : InWindow(id)' <=> InWindow(id)
        /\ \A i, j : Precedes(i, j)' <=> Precedes(i, j)
    BY <2>1, SameSetting
  <2>3. \A id : (Walked(id)' <=> Walked(id)) /\ (Beyond(id)' <=> Beyond(id))
    BY <2>1, <2>2 DEF Walked, Beyond, walkVars
  <2>4. /\ pc' \notin {"resolve", "bounds", "failed"} =>
               pc \notin {"resolve", "bounds", "failed"}
        /\ pc' = "page" <=> pc = "page"
        /\ pc' \in {"finish", "committed", "empty"} <=>
               pc \in {"finish", "committed", "empty"}
    BY <1>6 DEF Commit, Elapse, vars, LookAtAttachment, Get, GetFails, BeginMember,
                EndMember, Skip, Goto
  <2> QED BY <2>1, <2>2, <2>3, <2>4 DEF Walk, walkVars
<1>7. CASE BodyFails \/ Abort
  BY <1>7 DEF BodyFails, Abort, Goto, Walk
<1>8. CASE Post
  <2>1. UNCHANGED <<inputVars, window, walkVars, seenVars, atStart, pc>>
        /\ pc \notin {"resolve", "bounds"} /\ pc \in Working
    BY <1>8 DEF Post
  <2>2. /\ \A id \in Ids : InWindow(id)' <=> InWindow(id)
        /\ \A i, j : Precedes(i, j)' <=> Precedes(i, j)
    BY <1>8, PostedSetting
  <2>3. \A id : (Walked(id)' <=> Walked(id)) /\ (Beyond(id)' <=> Beyond(id))
    BY <2>1, <2>2 DEF Walked, Beyond, walkVars, seenVars
  <2>4. page \subseteq Ids /\ (message # 0 => message \in Ids)
    BY DEF Types
  <2>5. \A id \in 1 .. atStart : id \in Ids
    BY DEF Setting, Ids
  <2> QED BY <2>1, <2>2, <2>3, <2>4, <2>5 DEF Walk, walkVars, seenVars
<1> QED BY <1>1, <1>2, <1>3, <1>4, <1>5, <1>6, <1>7, <1>8 DEF Next, Proceed, Disturb

-----------------------------------------------------------------------------
(* The members: what was passed is in the archive, skipped, or not selected *)

Seen(a) ==
    message # 0 /\ (Precedes(a[1], message) \/ (a[1] = message /\ a[2] < file))

Members ==
    /\ pc \in {"get", "member", "body"} => Selected(Current)
    /\ pc \in {"page", "message", "finish", "committed", "empty"} /\ message # 0
           => file > Len(Files(message))
    /\ \A k \in 1 .. Len(zip) : Seen(zip[k]) /\ Selected(zip[k])
                                /\ zip[k] \notin skipped
    /\ \A a \in skipped : Seen(a)
    /\ \A k, l \in 1 .. Len(zip) : zip[k] = zip[l] => k = l
    /\ pc \notin {"resolve", "bounds"} =>
           \A a \in Attachments :
               a[1] <= atStart /\ Selected(a) /\ Seen(a) =>
                   a \in skipped \/ \E k \in 1 .. Len(zip) : zip[k] = a

LEMMA MembersInit == Init => Members
<1> SUFFICES ASSUME Init PROVE Members
  OBVIOUS
<1>1. pc = "resolve" /\ zip = <<>> /\ skipped = {}
  BY DEF Init
<1>2. Len(zip) = 0
  BY <1>1
<1> QED BY <1>1, <1>2 DEF Members

LEMMA SameSeen ==
    ASSUME UNCHANGED <<inputVars, channel, window, message, file>>
    PROVE  /\ \A a : Seen(a)' <=> Seen(a)
           /\ \A a : Selected(a)' <=> Selected(a)
           /\ Current' = Current /\ Attachments' = Attachments
           /\ \A id : Files(id)' = Files(id)
BY SameSetting DEF Seen, Current

\* Passing the attachment at hand adds it to what was seen.
LEMMA PassedSeen ==
    ASSUME Setting, Types, UNCHANGED <<inputVars, channel, window, message>>,
           Current \in Attachments, file' = file + 1
    PROVE  /\ \A a \in Attachments : Seen(a)' <=> Seen(a) \/ a = Current
           /\ \A a : Selected(a)' <=> Selected(a)
           /\ Attachments' = Attachments
           /\ \A id : Files(id)' = Files(id)
           /\ ~Seen(Current)
<1>1. /\ \A i, j : Precedes(i, j)' <=> Precedes(i, j)
      /\ \A a : Selected(a)' <=> Selected(a)
      /\ Attachments' = Attachments /\ \A id : Files(id)' = Files(id)
  BY SameSetting
<1>2. message \in Nat /\ message # 0 /\ file \in Nat
  BY AttachmentParts DEF Current, Types, Ids
<1>3. PICK next \in Nat : next = file' /\ next = file + 1
  BY <1>2
<1>4. ASSUME NEW a \in Attachments PROVE Seen(a)' <=> Seen(a) \/ a = Current
  <2>1. PICK i, k \in Nat : a = <<i, k>> /\ a[1] = i /\ a[2] = k
    BY AttachmentParts
  <2>2. Seen(a)' <=> Precedes(i, message) \/ (i = message /\ k < next)
    BY <1>1, <1>2, <1>3, <2>1 DEF Seen
  <2>3. Seen(a) <=> Precedes(i, message) \/ (i = message /\ k < file)
    BY <1>2, <2>1 DEF Seen
  <2>4. a = Current <=> i = message /\ k = file
    BY <2>1 DEF Current
  <2>5. k < next <=> k < file \/ k = file
    BY <1>2, <1>3, <2>1
  <2> QED BY <2>2, <2>3, <2>4, <2>5
<1>5. ~Seen(Current)
  BY <1>2, PrecedesOrders DEF Seen, Current
<1> QED BY <1>1, <1>4, <1>5

LEMMA MembersNext ==
    ASSUME Setting, Types, Walk, Members, NextMessage
    PROVE  Members'
<1>1. /\ UNCHANGED <<inputVars, channel, window, zip, skipped, atStart>>
      /\ pc = "message" /\ pc' = "attachment" /\ file' = 1
  BY DEF NextMessage, Goto
<1>2. /\ Attachments' = Attachments
      /\ \A a : Selected(a)' <=> Selected(a)
      /\ \A i, j : Precedes(i, j)' <=> Precedes(i, j)
  BY <1>1, SameSetting
<1>3. PICK next \in page : /\ \A other \in page : ~Precedes(other, next)
                           /\ message' = next
  BY DEF NextMessage
<1>4. /\ page \subseteq Ids /\ Ids \subseteq Nat /\ 0 \notin Ids
      /\ message \in Ids \cup {0} /\ cursor \in Ids \cup {0}
  BY AheadTypes DEF Types, Ids
<1>5. next \in Nat /\ next # 0
  BY <1>3, <1>4
<1>6. message \in Nat /\ cursor \in Nat
  BY <1>4
<1>7. ~Walked(next) /\ cursor # 0 /\ ~Precedes(cursor, next)
  BY <1>1, <1>3 DEF Walk
<1>8. \A a \in Attachments : Seen(a)' <=> Precedes(a[1], next)
  <2> SUFFICES ASSUME NEW a \in Attachments
               PROVE  Seen(a)' <=> Precedes(a[1], next)
    OBVIOUS
  <2>1. a[2] \in Nat \ {0}
    BY AttachmentParts
  <2>2. ~(a[2] < 1)
    BY <2>1
  <2> QED BY <1>1, <1>2, <1>3, <1>5, <2>2 DEF Seen
<1>9. ASSUME NEW a \in Attachments, Seen(a) PROVE Precedes(a[1], next)
  <2>1. a[1] \in Nat
    BY <1>4, AttachmentParts
  <2>2. message # 0 /\ (Precedes(a[1], message) \/ a[1] = message)
    BY <1>9 DEF Seen
  <2>3. Precedes(message, next)
    BY <1>7, <2>2 DEF Walked
  <2> QED BY <1>5, <1>6, <2>1, <2>2, <2>3, PrecedesOrders
<1>10. ASSUME NEW a \in Attachments, a[1] <= atStart, Selected(a),
              Precedes(a[1], next)
       PROVE  Seen(a)
  <2>1. a[1] \in Ids /\ a[1] \in Nat \ {0} /\ a[2] \in Nat
        /\ a[2] <= Len(Files(a[1])) /\ Len(Files(a[1])) \in Nat
    BY AttachmentParts, FilesTypes
  <2>2. a[1] \in 1 .. atStart
    BY <1>10, <2>1 DEF Setting
  <2>3. InWindow(a[1])
    BY <1>10 DEF Selected
  <2>4. a[1] \notin page
    BY <1>3, <1>10
  <2>5. ~Beyond(a[1])
    <3>1. ASSUME Precedes(cursor, a[1]) PROVE FALSE
      <4>1. Precedes(cursor, next)
        BY <1>5, <1>6, <1>10, <2>1, <3>1, PrecedesOrders
      <4> QED BY <1>7, <4>1
    <3> QED BY <1>7, <3>1 DEF Beyond
  <2>6. Walked(a[1])
    BY <1>1, <2>2, <2>3, <2>4, <2>5 DEF Walk
  <2>7. message # 0 /\ (Precedes(a[1], message) \/ a[1] = message)
    BY <1>6, <2>1, <2>6, PrecedesOrders DEF Walked
  <2>8. a[1] = message => a[2] < file
    <3>1. file > Len(Files(message)) /\ file \in Nat
      BY <1>1, <2>7 DEF Members, Types
    <3> QED BY <2>1, <3>1
  <2> QED BY <2>7, <2>8 DEF Seen
<1>11. \A k \in 1 .. Len(zip) : zip[k] \in Attachments
  BY DEF Types
<1>12. skipped \subseteq Attachments
  BY DEF Types
<1>13. \A k \in 1 .. Len(zip) : Seen(zip[k])' /\ Selected(zip[k])
                                /\ zip[k] \notin skipped
  <2>1. \A a \in Attachments : Seen(a) => Seen(a)'
    BY <1>8, <1>9
  <2>2. zip' = zip
    BY <1>1
  <2> QED BY <1>11, <2>1, <2>2 DEF Members
<1>14. \A a \in skipped : Seen(a)'
  BY <1>8, <1>9, <1>12 DEF Members
<1>15. \A a \in Attachments :
           a[1] <= atStart /\ Selected(a) /\ Seen(a)' =>
               a \in skipped \/ \E k \in 1 .. Len(zip) : zip[k] = a
  BY <1>1, <1>8, <1>10 DEF Members
<1>16. \A k, l \in 1 .. Len(zip) : zip[k] = zip[l] => k = l
  BY DEF Members
<1>17. zip' = zip /\ skipped' = skipped /\ atStart' = atStart
       /\ pc' \notin {"get", "member", "body", "page", "message", "finish",
                      "committed", "empty"}
  BY <1>1
<1> QED BY <1>2, <1>13, <1>14, <1>15, <1>16, <1>17 DEF Members

LEMMA Appended ==
    ASSUME NEW c \in Seq(Nat \X Nat), NEW x \in Nat \X Nat
    PROVE  /\ Len(Append(c, x)) = Len(c) + 1 /\ Len(c) \in Nat
           /\ \A k \in 1 .. Len(c) : Append(c, x)[k] = c[k]
           /\ Append(c, x)[Len(c) + 1] = x
           /\ Append(c, x) \in Seq(Nat \X Nat)
OBVIOUS

LEMMA MembersPassed ==
    ASSUME Setting, Types, Members, pc \notin {"resolve", "bounds"},
           UNCHANGED <<inputVars, channel, window, message, atStart>>,
           Current \in Attachments, file' = file + 1, pc' = "attachment",
           \/ ~Selected(Current) /\ UNCHANGED <<zip, skipped>>
           \/ skipped' = skipped \cup {Current} /\ zip' = zip
           \/ Selected(Current) /\ zip' = Append(zip, Current) /\ skipped' = skipped
    PROVE  Members'
<1>1. /\ \A a \in Attachments : Seen(a)' <=> Seen(a) \/ a = Current
      /\ \A a : Selected(a)' <=> Selected(a)
      /\ Attachments' = Attachments /\ ~Seen(Current)
  BY PassedSeen
<1>2. /\ \A k \in 1 .. Len(zip) : zip[k] \in Attachments
      /\ skipped \subseteq Attachments /\ zip \in Seq(Nat \X Nat)
      /\ Len(zip) \in Nat
  BY DEF Types
<1>3. /\ \A k \in 1 .. Len(zip) : Seen(zip[k]) /\ Selected(zip[k])
                                  /\ zip[k] \notin skipped
      /\ \A a \in skipped : Seen(a)
      /\ \A k, l \in 1 .. Len(zip) : zip[k] = zip[l] => k = l
      /\ \A a \in Attachments :
             a[1] <= atStart /\ Selected(a) /\ Seen(a) =>
                 a \in skipped \/ \E k \in 1 .. Len(zip) : zip[k] = a
  BY DEF Members
<1>4. CASE ~Selected(Current) /\ UNCHANGED <<zip, skipped>>
  <2>1. \A k \in 1 .. Len(zip) : Seen(zip[k])'
    BY <1>1, <1>2, <1>3, <1>4
  <2>2. \A a \in skipped : Seen(a)'
    BY <1>1, <1>2, <1>3
  <2>3. \A a \in Attachments :
             a[1] <= atStart /\ Selected(a) /\ Seen(a)' =>
                 a \in skipped \/ \E k \in 1 .. Len(zip) : zip[k] = a
    BY <1>1, <1>3, <1>4
  <2> QED BY <1>1, <1>3, <1>4, <2>1, <2>2, <2>3 DEF Members
<1>5. CASE skipped' = skipped \cup {Current} /\ zip' = zip
  <2>1. \A k \in 1 .. Len(zip) : Seen(zip[k])' /\ zip[k] \notin skipped'
    BY <1>1, <1>2, <1>3, <1>5
  <2>2. \A a \in skipped' : Seen(a)'
    BY <1>1, <1>2, <1>3, <1>5
  <2>3. \A a \in Attachments :
             a[1] <= atStart /\ Selected(a) /\ Seen(a)' =>
                 a \in skipped' \/ \E k \in 1 .. Len(zip) : zip[k] = a
    BY <1>1, <1>3, <1>5
  <2> QED BY <1>1, <1>3, <1>5, <2>1, <2>2, <2>3 DEF Members
<1>6. CASE Selected(Current) /\ zip' = Append(zip, Current) /\ skipped' = skipped
  <2>1. Current \in Nat \X Nat
    BY AttachmentParts
  <2>2. PICK n \in Nat : n = Len(zip)
    BY <1>2
  <2>3. PICK z : /\ z = zip' /\ Len(z) = n + 1 /\ z[n + 1] = Current
                 /\ \A k \in 1 .. n : z[k] = zip[k]
    <3>1. zip' = Append(zip, Current)
      BY <1>6
    <3>2. PICK c \in Seq(Nat \X Nat), x \in Nat \X Nat : c = zip /\ x = Current
      BY <1>2, <2>1
    <3>3. /\ Len(Append(c, x)) = n + 1 /\ Append(c, x)[n + 1] = x
          /\ \A k \in 1 .. n : Append(c, x)[k] = c[k]
      BY <2>2, <3>2, Appended
    <3> QED BY <3>1, <3>2, <3>3
  <2>4. \A k \in 1 .. n + 1 : k \in 1 .. n \/ k = n + 1
    OBVIOUS
  <2>5. Current \notin skipped
    BY <1>1, <1>3
  <2>6. \A k \in 1 .. n + 1 : z[k] \in Attachments /\ Selected(z[k])
                              /\ z[k] \notin skipped /\ (Seen(z[k]) \/ z[k] = Current)
    BY <1>2, <1>3, <1>6, <2>2, <2>3, <2>4, <2>5
  <2>7. ASSUME NEW k \in 1 .. n + 1, NEW l \in 1 .. n + 1, z[k] = z[l]
        PROVE  k = l
    <3>1. \A i \in 1 .. n : z[i] # Current
      BY <1>1, <1>3, <2>2, <2>3
    <3>2. CASE k = n + 1 \/ l = n + 1
      BY <2>3, <2>4, <2>7, <3>1, <3>2
    <3>3. CASE k \in 1 .. n /\ l \in 1 .. n
      BY <1>3, <2>2, <2>3, <2>7, <3>3
    <3> QED BY <2>4, <3>2, <3>3
  <2>8. ASSUME NEW a \in Attachments, a[1] <= atStart, Selected(a),
               Seen(a) \/ a = Current
        PROVE  a \in skipped \/ \E k \in 1 .. n + 1 : z[k] = a
    <3>1. CASE a = Current
      BY <2>3, <3>1
    <3>2. CASE Seen(a)
      <4>1. a \in skipped \/ \E k \in 1 .. n : zip[k] = a
        BY <1>3, <2>2, <2>8, <3>2
      <4>2. \A k \in 1 .. n : k \in 1 .. n + 1
        OBVIOUS
      <4> QED BY <2>3, <4>1, <4>2
    <3> QED BY <2>8, <3>1, <3>2
  <2> QED BY <1>1, <1>2, <1>3, <1>6, <2>3, <2>6, <2>7, <2>8 DEF Members
<1> QED BY <1>4, <1>5, <1>6

LEMMA MembersStep ==
    ASSUME Setting, Types, Walk, Members, [Next]_vars
    PROVE  Members'
<1>1. CASE ResolveFilters \/ ResolveSnowflakeBounds
  <2>1. /\ zip' = <<>> /\ skipped' = {} /\ message' = 0
        /\ pc' \in {"bounds", "failed", "page"}
    BY <1>1 DEF ResolveFilters, ResolveSnowflakeBounds, Types, Fresh, Goto, seenVars
  <2>2. Len(zip') = 0
    BY <2>1
  <2>3. \A a : ~Seen(a)'
    BY <2>1 DEF Seen
  <2> QED BY <2>1, <2>2, <2>3 DEF Members
<1>2. CASE FetchPage \/ EndOfPage \/ Get \/ BeginMember \/ Commit \/ BodyFails
           \/ Abort \/ Elapse \/ UNCHANGED vars
  <2>1. UNCHANGED <<inputVars, channel, window, message, file, zip, skipped, atStart>>
    BY <1>2 DEF FetchPage, EndOfPage, Get, BeginMember, Commit, BodyFails, Abort,
                Elapse, vars, seenVars
  <2>2. /\ pc' \in {"get", "member", "body"} => pc \in {"get", "member", "body"}
        /\ pc' \in {"page", "message", "finish", "committed", "empty"} =>
               pc \in {"page", "message", "finish", "committed", "empty"}
        /\ pc' \notin {"resolve", "bounds"} => pc \notin {"resolve", "bounds"}
    BY <1>2 DEF FetchPage, EndOfPage, Get, BeginMember, Commit, BodyFails, Abort,
                Elapse, vars, Goto
  <2>3. /\ \A a : Seen(a)' <=> Seen(a)
        /\ \A a : Selected(a)' <=> Selected(a)
        /\ Current' = Current /\ Attachments' = Attachments
        /\ \A id : Files(id)' = Files(id)
    BY <2>1, SameSeen
  <2>4. /\ \A k \in 1 .. Len(zip) : Seen(zip[k])' <=> Seen(zip[k])
        /\ Selected(Current)' <=> Selected(Current)
        /\ Files(message)' = Files(message)
    BY <2>1, <2>3
  <2> QED BY <2>1, <2>2, <2>3, <2>4 DEF Members
<1>3. CASE NextMessage
  BY <1>3, MembersNext
<1>4. CASE LookAtAttachment
  <2>1. /\ UNCHANGED <<inputVars, channel, window, message, zip, skipped, atStart>>
        /\ pc = "attachment"
    BY <1>4 DEF LookAtAttachment
  <2>2. message \in Ids /\ file \in Nat \ {0}
    BY <2>1 DEF Types
  <2>3. Len(Files(message)) \in Nat
    BY <2>2, FilesTypes
  <2> DEFINE matches == Matches(filters, allowed, channel[message].author,
                                Files(message)[file])
  <2>4. CASE file > Len(Files(message))
    <3>1. pc' = "message" /\ file' = file
      BY <1>4, <2>4 DEF LookAtAttachment, Goto
    <3>2. /\ \A a : Seen(a)' <=> Seen(a)
          /\ \A a : Selected(a)' <=> Selected(a)
          /\ Attachments' = Attachments
          /\ \A id : Files(id)' = Files(id)
      BY <2>1, <3>1, SameSeen
    <3>3. /\ \A k \in 1 .. Len(zip) : Seen(zip[k])' <=> Seen(zip[k])
          /\ Files(message)' = Files(message)
      BY <2>1, <3>2
    <3> QED BY <2>1, <2>4, <3>1, <3>2, <3>3 DEF Members
  <2>5. CASE ~(file > Len(Files(message))) /\ matches
    <3>1. pc' = "get" /\ file' = file
      BY <1>4, <2>5 DEF LookAtAttachment, Goto
    <3>2. /\ \A a : Seen(a)' <=> Seen(a)
          /\ \A a : Selected(a)' <=> Selected(a)
          /\ Current' = Current /\ Attachments' = Attachments
      BY <2>1, <3>1, SameSeen
    <3>3. InWindow(message)
      BY <2>1, <2>2, AheadTypes DEF Walk, Ids
    <3>4. Selected(Current)
      BY <2>5, <3>3 DEF Selected, Current
    <3>5. /\ \A k \in 1 .. Len(zip) : Seen(zip[k])' <=> Seen(zip[k])
          /\ Selected(Current)'
      BY <2>1, <3>2, <3>4
    <3> QED BY <2>1, <3>1, <3>2, <3>5 DEF Members
  <2>6. CASE ~(file > Len(Files(message))) /\ ~matches
    <3>1. pc' = "attachment" /\ file' = file + 1
      BY <1>4, <2>6 DEF LookAtAttachment, Skip, Goto
    <3>2. Current \in Attachments
      BY <2>2, <2>3, <2>6, AttachmentParts DEF Current
    <3>3. ~Selected(Current)
      BY <2>6 DEF Selected, Current
    <3> QED BY <2>1, <3>1, <3>2, <3>3, MembersPassed
  <2> QED BY <2>4, <2>5, <2>6
<1>5. CASE GetFails
  <2>1. /\ UNCHANGED <<inputVars, channel, window, message, zip, atStart>>
        /\ pc = "get" /\ skipped' = skipped \cup {Current}
        /\ pc' = "attachment" /\ file' = file + 1
    BY <1>5 DEF GetFails, Skip, Goto
  <2>2. Current \in Attachments
    BY <2>1 DEF Types
  <2> QED BY <2>1, <2>2, MembersPassed
<1>6. CASE EndMember
  <2>1. /\ UNCHANGED <<inputVars, channel, window, message, skipped, atStart>>
        /\ pc = "body" /\ zip' = Append(zip, Current)
        /\ pc' = "attachment" /\ file' = file + 1
    BY <1>6 DEF EndMember, Skip, Goto
  <2>2. Current \in Attachments /\ Selected(Current)
    BY <2>1 DEF Types, Members
  <2> QED BY <2>1, <2>2, MembersPassed
<1>7. CASE Post
  <2>1. /\ UNCHANGED <<message, file, zip, skipped, atStart, pc>>
    BY <1>7 DEF Post, seenVars
  <2>2. /\ Attachments \subseteq Attachments'
        /\ \A a \in Attachments' : a[1] \in Ids => a \in Attachments
        /\ \A a \in Attachments' : a[1] \in Ids'
        /\ \A id \in Ids : Files(id)' = Files(id)
        /\ \A a : a[1] \in Ids => (Selected(a)' <=> Selected(a))
        /\ \A i, j : Precedes(i, j)' <=> Precedes(i, j)
    BY <1>7, PostedSetting
  <2>3. \A a : Seen(a)' <=> Seen(a)
    BY <2>1, <2>2 DEF Seen
  <2>4. /\ \A k \in 1 .. Len(zip) : zip[k] \in Attachments /\ zip[k][1] \in Ids
        /\ message # 0 => message \in Ids
    BY AttachmentParts DEF Types
  <2>5. \A k \in 1 .. Len(zip) : /\ Seen(zip[k])' <=> Seen(zip[k])
                                 /\ Selected(zip[k])' <=> Selected(zip[k])
    BY <2>1, <2>2, <2>3, <2>4
  <2>6. pc \in {"get", "member", "body"} => (Selected(Current)' <=> Selected(Current))
    <3>1. Current' = Current
      BY <2>1 DEF Current
    <3>2. pc \in {"get", "member", "body"} => Current[1] \in Ids
      BY AttachmentParts DEF Types
    <3> QED BY <2>2, <3>1, <3>2
  <2>7. message # 0 => Files(message)' = Files(message)
    BY <2>1, <2>2, <2>4
  <2>8. \A a \in Attachments' : a[1] <= atStart => a \in Attachments /\ a[1] \in Ids
    <3> SUFFICES ASSUME NEW a \in Attachments', a[1] <= atStart
                 PROVE  a \in Attachments /\ a[1] \in Ids
      OBVIOUS
    <3>1. a[1] \in Ids' /\ Ids' = 1 .. Len(channel')
      BY <2>2 DEF Ids
    <3>2. Len(channel') = Len(channel) + 1 /\ Len(channel) \in Nat
          /\ atStart \in Nat /\ atStart <= Len(channel)
      BY <1>7, PostedSetting DEF Setting
    <3>3. a[1] \in 1 .. Len(channel)
      BY <3>1, <3>2
    <3> QED BY <2>2, <3>3 DEF Ids
  <2> QED BY <2>1, <2>2, <2>3, <2>5, <2>6, <2>7, <2>8 DEF Members
<1> QED BY <1>1, <1>2, <1>3, <1>4, <1>5, <1>6, <1>7 DEF Next, Proceed, Disturb

-----------------------------------------------------------------------------
(* The tally: what was counted is whole, but for the member at hand *)

Tally ==
    /\ done = Len(zip) \/ (done = Len(zip) + 1 /\ pc \in {"member", "body", "failed"})
    /\ pc \in {"member", "body"} => done = Len(zip) + 1
    /\ snapshot.done <= Len(zip)
    /\ emitted => done > 0
    /\ pc = "empty" => done = 0
    /\ pc \in {"finish", "committed"} => done > 0

LEMMA TallyInit == Init => Tally
<1> SUFFICES ASSUME Init PROVE Tally
  OBVIOUS
<1>1. pc = "resolve" /\ Len(zip) = 0 /\ done = 0 /\ ~emitted
  BY DEF Init
<1>2. snapshot.done = 0
  BY DEF Init, NoSnapshot
<1> QED BY <1>1, <1>2 DEF Tally

LEMMA TallyStep ==
    ASSUME Setting, Types, Tally, [Next]_vars
    PROVE  Tally'
<1>1. PICK n \in Nat, d \in Nat, s \in Nat : n = Len(zip) /\ d = done /\ s = snapshot.done
  BY DEF Types
<1>2. CASE ResolveFilters \/ ResolveSnowflakeBounds
  <2>1. /\ UNCHANGED <<zip, done, snapshot, emitted>> /\ pc \in {"resolve", "bounds"}
        /\ pc' \notin {"member", "body", "empty", "finish", "committed"}
    BY <1>2 DEF ResolveFilters, ResolveSnowflakeBounds, Goto
  <2> QED BY <2>1 DEF Tally
<1>3. CASE NextMessage
  <2>1. /\ UNCHANGED <<zip, done, emitted>> /\ pc = "message" /\ pc' = "attachment"
    BY <1>3 DEF NextMessage, Goto
  <2>2. PICK id \in page : snapshot' \in {snapshot, Snapshot(id)}
    BY <1>3 DEF NextMessage, Tick
  <2>3. Snapshot(id).done = done
    BY DEF Snapshot
  <2>4. done = Len(zip) /\ snapshot.done <= Len(zip)
    BY <2>1 DEF Tally
  <2>5. snapshot'.done \in {s, n}
    BY <1>1, <2>2, <2>3, <2>4
  <2> QED BY <1>1, <2>1, <2>4, <2>5 DEF Tally
<1>4. CASE EndOfPage
  <2>1. /\ UNCHANGED <<zip, done, snapshot, emitted>> /\ pc = "message"
        /\ pc' = "page" \/ (pc' = "empty" /\ done = 0) \/ (pc' = "finish" /\ done # 0)
    BY <1>4 DEF EndOfPage, Goto
  <2> QED BY <1>1, <2>1 DEF Tally
<1>5. CASE FetchPage \/ LookAtAttachment \/ GetFails \/ Elapse \/ Post
           \/ UNCHANGED vars
  <2>1. UNCHANGED <<zip, done, snapshot, emitted>>
    BY <1>5 DEF FetchPage, LookAtAttachment, GetFails, Elapse, Post, vars
  <2>2. \/ pc' = pc
        \/ pc \notin {"member", "body", "failed"}
               /\ pc' \notin {"member", "body", "empty", "finish", "committed"}
    BY <1>5 DEF FetchPage, LookAtAttachment, GetFails, Elapse, Post, vars, Skip,
                Goto
  <2> QED BY <2>1, <2>2 DEF Tally
<1>6. CASE Get
  <2>1. /\ UNCHANGED <<zip, snapshot, emitted>> /\ done' = done + 1
        /\ pc = "get" /\ pc' = "member"
    BY <1>6 DEF Get, Goto
  <2>2. done' = d + 1
    BY <1>1, <2>1
  <2> QED BY <1>1, <2>1, <2>2 DEF Tally
<1>7. CASE BeginMember
  <2>1. UNCHANGED <<zip, done, snapshot>> /\ pc = "member" /\ pc' = "body"
    BY <1>7 DEF BeginMember, Goto
  <2> QED BY <1>1, <2>1 DEF Tally
<1>8. CASE EndMember
  <2>1. /\ UNCHANGED <<done, snapshot, emitted>> /\ pc = "body"
        /\ pc' = "attachment" /\ zip' = Append(zip, Current)
    BY <1>8 DEF EndMember, Skip, Goto
  <2>2. Current \in Nat \X Nat /\ zip \in Seq(Nat \X Nat)
    BY <2>1, AttachmentParts DEF Types
  <2>3. Len(zip') = n + 1
    BY <1>1, <2>1, <2>2, Appended
  <2> QED BY <1>1, <2>1, <2>3 DEF Tally
<1>9. CASE Commit
  <2>1. /\ UNCHANGED <<zip, done, snapshot>> /\ pc = "finish" /\ pc' = "committed"
    BY <1>9 DEF Commit, Goto
  <2> QED BY <1>1, <2>1 DEF Tally
<1>10. CASE BodyFails \/ Abort
  <2>1. UNCHANGED <<zip, done, snapshot, emitted>> /\ pc' = "failed"
    BY <1>10 DEF BodyFails, Abort, Goto
  <2> QED BY <2>1 DEF Tally
<1> QED BY <1>2, <1>3, <1>4, <1>5, <1>6, <1>7, <1>8, <1>9, <1>10
        DEF Next, Proceed, Disturb

-----------------------------------------------------------------------------
(* The count: as many attachments as were counted *)

Counted == IsFiniteSet(Attachments) /\ done <= Cardinality(Attachments)

\* Each message has finitely many attachments.
LEMMA FiniteAttachments == Setting => IsFiniteSet(Attachments)
<1> SUFFICES ASSUME Setting PROVE IsFiniteSet(Attachments)
  OBVIOUS
<1> DEFINE Upto(n) == {a \in Attachments : a[1] <= n}
           Finite == {n \in Nat : ~IsFiniteSet(Upto(n))}
<1>1. PICK size \in Nat : size = Len(channel)
  BY DEF Setting
<1>2. Upto(0) = {}
  <2>1. \A a \in Attachments : ~(a[1] <= 0)
    BY AttachmentParts DEF Ids
  <2> QED BY <2>1
<1>3. ASSUME NEW n \in Nat, n < size, IsFiniteSet(Upto(n))
      PROVE  IsFiniteSet(Upto(n + 1))
  <2>1. n + 1 \in Ids
    BY <1>1, <1>3 DEF Ids
  <2>2. PICK k \in Nat : k = Len(Files(n + 1))
    BY <2>1, FilesTypes
  <2> DEFINE own == {n + 1} \X (1 .. k)
  <2>3. IsFiniteSet(own)
    <3>1. IsFiniteSet({n + 1})
      BY FS_Singleton
    <3>2. IsFiniteSet(1 .. k)
      BY <2>2, FS_Interval
    <3> QED BY <3>1, <3>2, FS_Product
  <2>4. Upto(n + 1) \subseteq Upto(n) \cup own
    <3> SUFFICES ASSUME NEW a \in Attachments, a[1] <= n + 1, ~(a[1] <= n)
                 PROVE  a \in own
      OBVIOUS
    <3>1. /\ a = <<a[1], a[2]>> /\ a[1] \in Nat /\ a[2] \in Nat \ {0}
          /\ a[2] <= Len(Files(a[1]))
      BY AttachmentParts DEF Ids
    <3>2. a[1] = n + 1
      BY <3>1
    <3>3. a[2] \in 1 .. k
      BY <2>2, <3>1, <3>2
    <3> QED BY <3>1, <3>2, <3>3
  <2> QED BY <1>3, <2>3, <2>4, FS_Union, FS_Subset
<1>4. IsFiniteSet(Upto(size))
  <2>1. CASE Finite = {}
    BY <2>1
  <2>2. CASE Finite # {}
    <3> HIDE DEF Upto
    <3>1. PICK n \in Finite : \A m \in Finite : n <= m
      <4> Finite \subseteq Nat
        OBVIOUS
      <4> QED BY <2>2, Least
    <3>2. n # 0
      BY <1>2, <3>1, FS_EmptySet
    <3>3. n - 1 \in Nat /\ n - 1 \notin Finite /\ (n - 1) + 1 = n
      BY <3>1, <3>2
    <3>4. IsFiniteSet(Upto(n - 1)) /\ ~IsFiniteSet(Upto(n))
      BY <3>1, <3>3
    <3>5. ~(n - 1 < size)
      BY <1>3, <3>3, <3>4
    <3>6. n \in Nat /\ size < n
      BY <3>1, <3>3, <3>5
    <3>7. size \notin Finite
      BY <3>1, <3>6
    <3> QED BY <3>7
  <2> QED BY <2>1, <2>2
<1>5. Upto(size) = Attachments
  <2>1. \A a \in Attachments : a[1] <= size
    BY <1>1, AttachmentParts DEF Ids
  <2> QED BY <2>1
<1> QED BY <1>4, <1>5

LEMMA CountedInit == Init => Counted
<1> SUFFICES ASSUME Init PROVE Counted
  OBVIOUS
<1>1. IsFiniteSet(Attachments)
  BY SettingInit, FiniteAttachments
<1>2. Cardinality(Attachments) \in Nat /\ done = 0
  BY <1>1, FS_CardinalityType DEF Init
<1> QED BY <1>1, <1>2 DEF Counted

\* The members and the attachment at hand are different attachments.
LEMMA RoomForCurrent ==
    ASSUME Setting, Types, Members, Tally, Counted, pc = "get"
    PROVE  done + 1 <= Cardinality(Attachments)
<1>1. PICK n \in Nat : n = Len(zip) /\ n = done
  BY DEF Types, Tally
<1> DEFINE f == [k \in 1 .. n + 1 |-> IF k = n + 1 THEN Current ELSE zip[k]]
<1>2. Current \in Attachments
  BY DEF Types
<1>3. \A k \in 1 .. n : zip[k] \in Attachments /\ zip[k] # Current
  <2>1. ~Seen(Current)
    BY <1>2, PrecedesOrders, AttachmentParts DEF Seen, Current, Ids
  <2> QED BY <1>1, <2>1 DEF Types, Members
<1>4. \A k, l \in 1 .. n : zip[k] = zip[l] => k = l
  BY <1>1 DEF Members
<1>5. \A k \in 1 .. n + 1 : k \in 1 .. n \/ k = n + 1
  OBVIOUS
<1>6. f \in Injection(1 .. n + 1, Attachments)
  <2>1. f \in [1 .. n + 1 -> Attachments]
    BY <1>2, <1>3, <1>5
  <2>2. \A k, l \in 1 .. n + 1 : f[k] = f[l] => k = l
    BY <1>3, <1>4, <1>5
  <2> HIDE DEF f
  <2> QED BY <2>1, <2>2 DEF Injection, IsInjective
<1>7. Cardinality(1 .. n + 1) = n + 1
  BY FS_Interval
<1>8. Cardinality(1 .. n + 1) <= Cardinality(Attachments)
  BY <1>6, FS_Injection DEF Counted
<1> QED BY <1>1, <1>7, <1>8

LEMMA CountedStep ==
    ASSUME Setting, Types, Members, Tally, Counted, Setting', [Next]_vars
    PROVE  Counted'
<1>1. CASE Post
  <2>1. (IsFiniteSet(Attachments))'
    BY FiniteAttachments, PTL
  <2>2. Attachments \subseteq Attachments' /\ done' = done
    BY <1>1, PostedSetting DEF Post
  <2>3. PICK d \in Nat : d = done
    BY DEF Types
  <2>4. PICK a \in Nat, b \in Nat :
            /\ a = Cardinality(Attachments) /\ b = Cardinality(Attachments')
            /\ a <= b
    BY <2>1, <2>2, FS_Subset, FS_CardinalityType DEF Counted
  <2> QED BY <2>1, <2>2, <2>3, <2>4 DEF Counted
<1>2. CASE Get
  <2>1. Attachments' = Attachments
    BY <1>2, SameSetting DEF Get
  <2>2. done' = done + 1 /\ pc = "get"
    BY <1>2 DEF Get
  <2> QED BY <2>1, <2>2, RoomForCurrent DEF Counted
<1>3. CASE ResolveFilters
  <2>1. UNCHANGED <<channel, done>>
    BY <1>3 DEF ResolveFilters
  <2>2. Attachments' = Attachments
    BY <2>1 DEF Attachments, Ids, Files
  <2> QED BY <2>1, <2>2 DEF Counted
<1>4. CASE \/ ResolveSnowflakeBounds \/ FetchPage \/ NextMessage \/ EndOfPage
           \/ LookAtAttachment \/ GetFails \/ BeginMember \/ EndMember \/ Commit
           \/ BodyFails \/ Abort \/ Elapse \/ UNCHANGED vars
  <2>1. UNCHANGED <<inputVars, channel, window, done>>
    BY <1>4 DEF ResolveSnowflakeBounds, FetchPage, NextMessage, EndOfPage,
                LookAtAttachment, GetFails, BeginMember, EndMember, Commit,
                BodyFails, Abort, Elapse, vars
  <2>2. Attachments' = Attachments
    BY <2>1, SameSetting
  <2> QED BY <2>1, <2>2 DEF Counted
<1> QED BY <1>1, <1>2, <1>3, <1>4 DEF Next, Proceed, Disturb

-----------------------------------------------------------------------------
(* The position: what was shown lies before where the walk is *)

Position ==
    snapshot.fraction # Unknown =>
        /\ Unknown \notin {bounds.low, bounds.high}
        /\ message # 0
        /\ ~OldestFirst =>
               snapshot.fraction <= _compute_history_fraction(message)

LEMMA PositionInit == Init => Position
BY DEF Init, Position, NoSnapshot

\* A newest-first walk comes to ever older messages.
LEMMA OlderNext ==
    ASSUME Setting, Types, Walk, NextMessage, message # 0, ~OldestFirst
    PROVE  /\ message \in Nat /\ message' \in Nat /\ message' <= message
<1>1. PICK next \in page : message' = next
  BY DEF NextMessage
<1>2. next \in Ids /\ message \in Ids /\ Ids \subseteq Nat
  BY AheadTypes DEF Types
<1>3. ~Walked(next)
  BY DEF Walk, NextMessage
<1> QED BY <1>1, <1>2, <1>3 DEF Walked, Precedes

LEMMA PositionStep ==
    ASSUME Setting, Types, Walk, Position, [Next]_vars
    PROVE  /\ Position'
           /\ ~OldestFirst => snapshot'.fraction >= snapshot.fraction
<1>1. CASE NextMessage
  <2>1. bounds' = bounds /\ (OldestFirst' <=> OldestFirst)
    BY <1>1 DEF NextMessage, OldestFirst
  <2>2. PICK id \in page : /\ message' = id
                           /\ snapshot' \in {snapshot, Snapshot(id)}
    BY <1>1 DEF NextMessage, Tick
  <2>3. id \in Ids /\ id \in Nat /\ id # 0
    BY AheadTypes DEF Types, Ids
  <2> DEFINE here == _compute_history_fraction(id)
             last == _compute_history_fraction(message)
  <2>4. _compute_history_fraction(message)' = here
    BY <2>1, <2>2 DEF _compute_history_fraction
  <2>5. CASE Unknown \in {bounds.low, bounds.high}
    <3>1. snapshot.fraction = Unknown
      BY <2>5 DEF Position
    <3>2. Snapshot(id).fraction = Unknown
      BY <2>5 DEF Snapshot
    <3> QED BY <2>2, <3>1, <3>2 DEF Position, Unknown
  <2>6. CASE Unknown \notin {bounds.low, bounds.high}
    <3>1. bounds.low \in Nat /\ bounds.high \in Nat
      BY <2>6, AheadTypes DEF Types
    <3>2. here \in Nat
      BY <2>3, <3>1, PositionGrows
    <3>3. Snapshot(id).fraction = here
      BY <2>6 DEF Snapshot
    <3>4. ASSUME ~OldestFirst, snapshot.fraction # Unknown
          PROVE  snapshot.fraction <= here
      <4>1. message # 0 /\ snapshot.fraction <= last
        BY <3>4 DEF Position
      <4>2. message \in Nat /\ id <= message
        BY <1>1, <2>2, <3>4, <4>1, OlderNext
      <4>3. last \in Nat /\ last <= here
        BY <2>3, <3>1, <4>2, PositionGrows
      <4>4. snapshot.fraction \in Int
        BY AheadTypes DEF Types, Unknown
      <4> HIDE DEF here, last
      <4> QED BY <3>2, <4>1, <4>3, <4>4
    <3>5. PICK h \in Nat : h = here
      BY <3>2
    <3>6. PICK s \in Int : s = snapshot.fraction
      BY AheadTypes DEF Types, Unknown
    <3>7. PICK t \in Int : t = snapshot'.fraction /\ t \in {s, h}
      BY <2>2, <3>3, <3>5, <3>6
    <3>8. ~OldestFirst => t >= s /\ (t # Unknown => t <= h)
      <4>1. ~OldestFirst /\ s # Unknown => s <= h
        BY <3>4, <3>5, <3>6
      <4> HIDE DEF here, last
      <4> QED BY <3>7, <4>1 DEF Unknown
    <3>9. t # Unknown => /\ Unknown \notin {bounds'.low, bounds'.high}
                         /\ message' # 0
      BY <2>1, <2>2, <2>3, <2>6
    <3> HIDE DEF here, last
    <3> QED BY <2>1, <2>4, <3>5, <3>6, <3>7, <3>8, <3>9 DEF Position
  <2> QED BY <2>5, <2>6
<1>2. CASE ResolveFilters \/ ResolveSnowflakeBounds
  <2>1. snapshot' = NoSnapshot /\ snapshot = NoSnapshot
    BY <1>2 DEF ResolveFilters, ResolveSnowflakeBounds, Types, Fresh
  <2> QED BY <2>1 DEF Position, NoSnapshot, Unknown
<1>3. CASE \/ FetchPage \/ EndOfPage \/ LookAtAttachment \/ Get \/ GetFails
           \/ BeginMember \/ EndMember \/ Commit \/ BodyFails \/ Abort \/ Elapse
           \/ Post \/ UNCHANGED vars
  <2>1. UNCHANGED <<window, bounds, message, snapshot>>
    BY <1>3 DEF FetchPage, EndOfPage, LookAtAttachment, Get, GetFails, BeginMember,
                EndMember, Commit, BodyFails, Abort, Elapse, Post, vars, seenVars
  <2>2. snapshot.fraction \in Int
    BY AheadTypes DEF Types, Unknown
  <2>3. (OldestFirst' <=> OldestFirst)
        /\ _compute_history_fraction(message)' = _compute_history_fraction(message)
    BY <2>1 DEF OldestFirst, _compute_history_fraction
  <2>4. PICK s \in Int : s = snapshot.fraction /\ s = snapshot'.fraction
    BY <2>1, <2>2
  <2>5. Position'
    BY <2>1, <2>3 DEF Position
  <2> QED BY <2>4, <2>5
<1> QED BY <1>1, <1>2, <1>3 DEF Next, Proceed, Disturb

-----------------------------------------------------------------------------
(* The theorems *)

Archiving ==
    Setting /\ Types /\ Walk /\ Members /\ Tally /\ Counted /\ Position

LEMMA ArchivingHolds == Spec => []Archiving
<1>1. Init => Archiving
  BY SettingInit, TypesInit, WalkInit, MembersInit, TallyInit, CountedInit,
     PositionInit DEF Archiving
<1>2. Archiving /\ [Next]_vars => Archiving'
  <2> SUFFICES ASSUME Archiving, [Next]_vars PROVE Archiving'
    OBVIOUS
  <2>1. /\ Setting /\ Types /\ Walk /\ Members /\ Tally /\ Counted /\ Position
    BY DEF Archiving
  <2>2. Setting' /\ Types'
    BY <2>1, SettingStep, TypesStep
  <2>3. Walk' /\ Members' /\ Tally'
    BY <2>1, WalkStep, MembersStep, TallyStep
  <2>4. Counted'
    BY <2>1, <2>2, CountedStep
  <2>5. Position'
    BY <2>1, PositionStep
  <2> QED BY <2>2, <2>3, <2>4, <2>5 DEF Archiving
<1> QED BY <1>1, <1>2, PTL DEF Spec

\* The window, the bounds, the cursor and the progress shown keep their ranges,
\* and _members counts no more attachments than the channel has: each page goes
\* on behind the last, so nothing is counted twice.
THEOREM ArchiveInRange == Spec => []TypeOK
<1>1. Archiving => TypeOK
  <2> SUFFICES ASSUME Archiving PROVE TypeOK
    OBVIOUS
  <2>1. Setting /\ Types /\ Members /\ Counted
    BY DEF Archiving
  <2>2. \A b \in {now, window.after, window.before} :
            b.day \in Nat /\ b.sec \in 0 .. SecondsPerDay - 1
    <3>1. now.day \in Nat /\ now.sec \in 0 .. SecondsPerDay - 1
      BY <2>1 DEF Setting, ClockOK, Times
    <3>2. Bound(window.after) /\ Bound(window.before)
      BY <2>1 DEF Setting
    <3> QED BY <3>1, <3>2 DEF Bound
  <2>3. zip \in Seq(Attachments)
    <3>1. PICK n \in Nat : n = Len(zip)
      BY <2>1 DEF Types
    <3>2. zip = [k \in 1 .. n |-> zip[k]]
      BY <2>1, <3>1 DEF Types
    <3>3. \A k \in 1 .. n : zip[k] \in Attachments
      BY <2>1, <3>1 DEF Types
    <3>4. zip \in [1 .. n -> Attachments]
      BY <3>2, <3>3
    <3> QED BY <3>4
  <2>4. done \in 0 .. Cardinality(Attachments)
    <3>1. Cardinality(Attachments) \in Nat
      BY <2>1, FS_CardinalityType DEF Counted
    <3> QED BY <2>1, <3>1 DEF Counted, Types
  <2>5. atStart \in 0 .. Len(channel)
    <3>1. Len(channel) \in Nat
      BY <2>1 DEF Setting
    <3> QED BY <2>1, <3>1 DEF Setting
  <2> QED BY <2>1, <2>2, <2>3, <2>4, <2>5 DEF Types, TypeOK
<1> QED BY <1>1, ArchivingHolds, PTL

\* What is wanted and old enough is selected, and what is selected is wanted.
LEMMA SelectedMeans ==
    ASSUME Setting, pc \notin {"resolve", "failed"}, NEW a \in Attachments
    PROVE  /\ Selected(a) => Wanted(a)
           /\ Wanted(a) /\ ~OnTheStroke(channel[a[1]].at) => Selected(a)
<1>1. /\ a[1] \in Ids /\ a[2] \in Nat \ {0} /\ a[2] <= Len(Files(a[1]))
  BY AttachmentParts
<1>2. /\ Files(a[1]) \in Seq(Attached) /\ Len(Files(a[1])) \in Nat
      /\ channel[a[1]].at \in Times
  BY <1>1, FilesTypes
<1>3. Files(a[1])[a[2]] \in Attached /\ Files(a[1]) = channel[a[1]].files
  BY <1>1, <1>2 DEF Files
<1>4. PICK w : w = window /\ ResolvedTo(w)
  BY DEF Setting
<1>5. /\ Within(w, channel[a[1]].at) => InTime(channel[a[1]].at)
      /\ InTime(channel[a[1]].at) /\ ~OnTheStroke(channel[a[1]].at)
             => Within(w, channel[a[1]].at)
  BY <1>2, <1>4, WindowMeans
<1>6. filters \in Payloads
  BY DEF Setting
<1>7. PICK f \in Attached : f = Files(a[1])[a[2]] /\ f = channel[a[1]].files[a[2]]
  BY <1>3
<1>8. Matches(filters, allowed, channel[a[1]].author, f) <=>
          /\ filters.from_user \in {Absent, channel[a[1]].author}
          /\ filters.category \in {Absent, KindOf(f)}
          /\ \A types \in allowed : [main |-> f.main, sub |-> f.sub] \in types
  BY <1>6, MatchMeans
<1>9. Selected(a) <=> /\ Within(w, channel[a[1]].at)
                      /\ Matches(filters, allowed, channel[a[1]].author, f)
  BY <1>4, <1>7 DEF Selected, InWindow
<1>10. Wanted(a) <=>
          /\ InTime(channel[a[1]].at)
          /\ filters.from_user \in {Absent, channel[a[1]].author}
          /\ filters.category \in {Absent, KindOf(f)}
          /\ \A types \in allowed : [main |-> f.main, sub |-> f.sub] \in types
  BY <1>7 DEF Wanted
<1> QED BY <1>5, <1>8, <1>9, <1>10

\* Once the history is exhausted, what was due is in the archive or skipped.
LEMMA AllSeen ==
    ASSUME Setting, Types, Walk, Members,
           pc \in {"finish", "committed", "empty"}, NEW a \in Due
    PROVE  a \in skipped \/ \E k \in 1 .. Len(zip) : zip[k] = a
<1>1. /\ a \in Attachments /\ a[1] <= atStart
      /\ Wanted(a) /\ ~OnTheStroke(channel[a[1]].at)
  BY DEF Due
<1>2. Selected(a)
  BY <1>1, SelectedMeans
<1>3. /\ a[1] \in Ids /\ a[1] \in Nat /\ a[1] # 0 /\ a[2] \in Nat
      /\ a[2] <= Len(Files(a[1])) /\ Len(Files(a[1])) \in Nat
  BY <1>1, AttachmentParts, FilesTypes
<1>4. a[1] \in 1 .. atStart
  BY <1>1, <1>3 DEF Setting
<1>5. Walked(a[1])
  BY <1>2, <1>4 DEF Walk, Selected
<1>6. message \in Nat /\ message # 0 /\ ~Precedes(message, a[1])
  BY <1>5, AheadTypes DEF Walked, Types
<1>7. Precedes(a[1], message) \/ a[1] = message
  BY <1>3, <1>6, PrecedesOrders
<1>8. a[1] = message => a[2] < file
  <2>1. file > Len(Files(message)) /\ file \in Nat
    BY <1>6 DEF Members, Types
  <2> QED BY <1>3, <2>1
<1>9. Seen(a)
  BY <1>6, <1>7, <1>8 DEF Seen
<1> QED BY <1>1, <1>2, <1>9 DEF Members

\* A committed archive holds every attachment the requester asked for and the
\* guild allows, as the calendar and the worker's clock tell it, once, and
\* nothing else, whatever is posted meanwhile and whatever GETs fail (resolve and
\* the matcher of filters.py, the walk of _members over channel.history).
THEOREM ArchiveIsWhatWasAsked == Spec => []ArchiveComplete
<1>1. Archiving => ArchiveComplete
  <2> SUFFICES ASSUME Archiving, pc = "committed"
               PROVE  /\ IsInjective(zip)
                      /\ \A a \in Range(zip) : Wanted(a) /\ a \notin skipped
                      /\ Due \subseteq Range(zip) \cup skipped
    BY DEF ArchiveComplete
  <2>1. Setting /\ Types /\ Walk /\ Members
    BY DEF Archiving
  <2>2. PICK n \in Nat : n = Len(zip) /\ DOMAIN zip = 1 .. n
    BY <2>1 DEF Types
  <2>3. IsInjective(zip)
    BY <2>1, <2>2 DEF Members, IsInjective
  <2>4. \A a : a \in Range(zip) <=> \E k \in 1 .. n : zip[k] = a
    BY <2>2 DEF Range
  <2>5. ASSUME NEW a \in Range(zip) PROVE Wanted(a) /\ a \notin skipped
    <3>1. a \in Attachments /\ Selected(a) /\ a \notin skipped
      BY <2>1, <2>2, <2>4, <2>5 DEF Types, Members
    <3> QED BY <2>1, <3>1, SelectedMeans
  <2>6. ASSUME NEW a \in Due PROVE a \in Range(zip) \cup skipped
    BY <2>1, <2>2, <2>4, <2>6, AllSeen
  <2> QED BY <2>3, <2>5, <2>6
<1> QED BY <1>1, ArchivingHolds, PTL

\* A committed archive has a member, and every member that was begun is whole:
\* the CDN breaking off aborts the job (_stream_response).
THEOREM MembersAreWhole == Spec => []WholeOrNothing
<1>1. Archiving => WholeOrNothing
  <2> SUFFICES ASSUME Archiving, pc = "committed"
               PROVE  zip # <<>> /\ Len(zip) = done
    BY DEF WholeOrNothing
  <2>1. done = Len(zip) /\ done > 0
    BY DEF Archiving, Tally
  <2>2. Len(<<>>) = 0
    OBVIOUS
  <2> QED BY <2>1, <2>2
<1> QED BY <1>1, ArchivingHolds, PTL

\* _peek_or_raise_empty says "empty" only when nothing that is due could be
\* downloaded, and before stream-zip has emitted a byte.
THEOREM EmptyIsEmpty == Spec => []EmptyMeansNothing
<1>1. Archiving => EmptyMeansNothing
  <2> SUFFICES ASSUME Archiving, pc = "empty"
               PROVE  ~emitted /\ zip = <<>> /\ Due \subseteq skipped
    BY DEF EmptyMeansNothing
  <2>1. Setting /\ Types /\ Walk /\ Members /\ Tally
    BY DEF Archiving
  <2>2. done = 0 /\ ~emitted
    BY <2>1 DEF Tally
  <2>3. Len(zip) = 0
    BY <2>1, <2>2 DEF Tally
  <2>4. zip = <<>>
    BY <2>1, <2>3 DEF Types
  <2>5. ASSUME NEW a \in Due PROVE a \in skipped
    <3>1. a \in skipped \/ \E k \in 1 .. Len(zip) : zip[k] = a
      BY <2>1, <2>5, AllSeen
    <3> QED BY <2>3, <3>1
  <2> QED BY <2>2, <2>4, <2>5
<1> QED BY <1>1, ArchivingHolds, PTL

\* The attachments /status shows as done are in the archive, whole: on_progress
\* is called between members only.
THEOREM ShownIsWhole == Spec => []TallyHonest
<1>1. Archiving => TallyHonest
  BY DEF Archiving, Tally, TallyHonest
<1> QED BY <1>1, ArchivingHolds, PTL

\* Newest first, the share of the history shown as walked never shrinks
\* (_compute_history_fraction, on_progress).
THEOREM PositionNeverGoesBack == Spec => PositionForward
<1>1. Archiving /\ [Next]_vars =>
          [~OldestFirst => snapshot'.fraction >= snapshot.fraction]_vars
  BY PositionStep DEF Archiving
<1> QED BY <1>1, ArchivingHolds, PTL DEF Spec, PositionForward
=============================================================================
