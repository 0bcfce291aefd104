-------------------------- MODULE Calendar_proofs --------------------------
(***************************************************************************)
(* The period computed from the date is the observer's, for every reset    *)
(* day and over any span of years.  A day is enough of an induction step   *)
(* once dates are known to be dates: within a month the reset day is       *)
(* either behind or ahead on both days, and over the end of a month the    *)
(* old month's reset is behind whatever its length.                        *)
(***************************************************************************)
EXTENDS Calendar, TLAPS

Days(date) == DaysInMonth(date.year, date.month)

\* A date of the calendar.
IsDate(date) ==
    /\ date = [year |-> date.year, month |-> date.month, day |-> date.day]
    /\ date.year \in Nat /\ date.month \in 1 .. 12
    /\ date.day \in 1 .. Days(date)

\* The inductive invariant.
IInv == IsDate(today) /\ resetDay \in 1 .. 31 /\ PeriodIsSinceLastReset

\* A month has 28 to 31 days.
LEMMA MonthLength ==
    ASSUME NEW y, NEW m \in 1 .. 12
    PROVE  DaysInMonth(y, m) \in 28 .. 31
  <1>1. CASE m \in {4, 6, 9, 11}
    <2>1. DaysInMonth(y, m) = 30
      BY <1>1 DEF DaysInMonth
    <2> QED BY <2>1
  <1>2. CASE m = 2
    <2>1. DaysInMonth(y, m) \in {28, 29}
      BY <1>2 DEF DaysInMonth
    <2> QED BY <2>1
  <1>3. CASE m \notin {2, 4, 6, 9, 11}
    <2>1. DaysInMonth(y, m) = 31
      BY <1>3 DEF DaysInMonth
    <2> QED BY <2>1
  <1> QED BY <1>1, <1>2, <1>3

\* clamp_to_month gives a day the month has.
LEMMA Clamped ==
    ASSUME NEW y, NEW m \in 1 .. 12, NEW d \in 1 .. 31
    PROVE  /\ ClampToMonth(y, m, d) \in 1 .. DaysInMonth(y, m)
           /\ ClampToMonth(y, m, d) = d \/ ClampToMonth(y, m, d) = DaysInMonth(y, m)
           /\ d <= DaysInMonth(y, m) => ClampToMonth(y, m, d) = d
           /\ d >= DaysInMonth(y, m) => ClampToMonth(y, m, d) = DaysInMonth(y, m)
  <1>1. DaysInMonth(y, m) \in 28 .. 31
    BY MonthLength
  <1> QED BY <1>1 DEF ClampToMonth

\* The start of a period, by where the date lies in its month.
LEMMA PeriodStartCases ==
    ASSUME NEW date, IsDate(date), NEW d \in 1 .. 31
    PROVE  LET c == ClampToMonth(date.year, date.month, d)
               start(y, m) == [year |-> y, month |-> m, day |-> ClampToMonth(y, m, d)]
           IN  /\ date.day >= c => PeriodStart(date, d) = start(date.year, date.month)
               /\ date.day < c /\ date.month = 1 => PeriodStart(date, d) = start(date.year - 1, 12)
               /\ date.day < c /\ date.month # 1
                    => PeriodStart(date, d) = start(date.year, date.month - 1)
  <1> DEFINE c == ClampToMonth(date.year, date.month, d)
  <1>1. c \in Nat /\ date.day \in Nat
    <2>1. Days(date) \in 28 .. 31 /\ date.month \in 1 .. 12
      BY MonthLength DEF IsDate, Days
    <2>2. c \in 1 .. Days(date)
      BY <2>1, Clamped DEF Days
    <2> QED BY <2>1, <2>2 DEF IsDate
  <1>2. (date.day >= c) <=> ~(date.day < c)
    BY <1>1
  <1> QED BY <1>2 DEF PeriodStart

\* The day after a date: in the same month, or the first of the next.
LEMMA NextDayCases ==
    ASSUME NEW date, IsDate(date)
    PROVE  LET t == NextDay(date)
           IN  /\ IsDate(t)
               /\ date.day < Days(date)
                    => t.year = date.year /\ t.month = date.month /\ t.day = date.day + 1
               /\ date.day = Days(date) /\ date.month < 12
                    => t.year = date.year /\ t.month = date.month + 1 /\ t.day = 1
               /\ date.day = Days(date) /\ date.month = 12
                    => t.year = date.year + 1 /\ t.month = 1 /\ t.day = 1
               /\ t.month # date.month <=> date.day = Days(date)
  <1> DEFINE y == date.year
             m == date.month
             d == date.day
             t == NextDay(date)
  <1>1. /\ date = [year |-> y, month |-> m, day |-> d]
        /\ y \in Nat /\ m \in 1 .. 12 /\ d \in 1 .. Days(date)
        /\ Days(date) \in 28 .. 31 /\ Days(date) = DaysInMonth(y, m)
    BY MonthLength DEF IsDate, Days
  <1> HIDE DEF y, m, d
  <1>2. CASE d < Days(date)
    <2>1. t = [year |-> y, month |-> m, day |-> d + 1]
      <3>1. t = [date EXCEPT !.day = @ + 1]
        BY <1>1, <1>2 DEF NextDay, Days, y, m, d
      <3> QED BY <1>1, <3>1
    <2>2. t.year = y /\ t.month = m /\ t.day = d + 1
      BY <2>1
    <2>3. d + 1 \in 1 .. DaysInMonth(y, m)
      BY <1>1, <1>2
    <2> HIDE DEF t
    <2>4. IsDate(t)
      BY <1>1, <2>1, <2>2, <2>3 DEF IsDate, Days
    <2> QED BY <1>1, <1>2, <2>2, <2>4 DEF y, m, d, t
  <1>3. CASE ~(d < Days(date)) /\ m < 12
    <2>1. t = [year |-> y, month |-> m + 1, day |-> 1]
      <3>1. t = [date EXCEPT !.month = @ + 1, !.day = 1]
        BY <1>1, <1>3 DEF NextDay, Days, y, m, d
      <3> QED BY <1>1, <3>1
    <2>2. t.year = y /\ t.month = m + 1 /\ t.day = 1
      BY <2>1
    <2>3. m + 1 \in 1 .. 12
      BY <1>1, <1>3
    <2>4. DaysInMonth(y, m + 1) \in 28 .. 31
      BY <2>3, MonthLength
    <2> HIDE DEF t
    <2>5. IsDate(t)
      BY <1>1, <2>1, <2>2, <2>3, <2>4 DEF IsDate, Days
    <2> QED BY <1>1, <1>3, <2>2, <2>5 DEF y, m, d, t
  <1>4. CASE ~(d < Days(date)) /\ m = 12
    <2>1. t = [year |-> y + 1, month |-> 1, day |-> 1]
      BY <1>1, <1>4 DEF NextDay, Days, y, m, d
    <2>2. t.year = y + 1 /\ t.month = 1 /\ t.day = 1
      BY <2>1
    <2>3. DaysInMonth(y + 1, 1) \in 28 .. 31
      BY MonthLength
    <2> HIDE DEF t
    <2>4. IsDate(t)
      BY <1>1, <2>1, <2>2, <2>3 DEF IsDate, Days
    <2> QED BY <1>1, <1>4, <2>2, <2>4 DEF y, m, d, t
  <1>5. m < 12 \/ m = 12
    BY <1>1
  <1> QED BY <1>2, <1>3, <1>4, <1>5

\* A date is a reset day exactly when it is the clamped day of its month.
LEMMA ResetDayIsClamped ==
    ASSUME NEW date, IsDate(date), NEW d \in 1 .. 31
    PROVE  IsResetDay(date, d) <=> date.day = ClampToMonth(date.year, date.month, d)
  <1> DEFINE n == Days(date)
             c == ClampToMonth(date.year, date.month, d)
  <1>1. n \in 28 .. 31 /\ date.day \in 1 .. n
    BY MonthLength DEF IsDate, Days
  <1>2. /\ c \in 1 .. n /\ (c = d \/ c = n) /\ (d <= n => c = d) /\ (d >= n => c = n)
    BY Clamped DEF IsDate, Days
  <1>3. NextDay(date).month # date.month <=> date.day = n
    BY NextDayCases
  <1>4. IsResetDay(date, d) <=> date.day = d \/ (date.day < d /\ date.day = n)
    BY <1>3 DEF IsResetDay
  <1> HIDE DEF n, c
  <1> QED BY <1>1, <1>2, <1>4 DEF c

\* On a reset day the period begins.
LEMMA PeriodBegins ==
    ASSUME NEW date, IsDate(date), NEW d \in 1 .. 31, IsResetDay(date, d)
    PROVE  PeriodStart(date, d) = date
  <1> DEFINE c == ClampToMonth(date.year, date.month, d)
  <1>1. date.day = c
    BY ResetDayIsClamped
  <1>2. date.day \in Nat
    BY MonthLength DEF IsDate, Days
  <1>3. PeriodStart(date, d) = [year |-> date.year, month |-> date.month, day |-> c]
    BY <1>1, <1>2, PeriodStartCases
  <1> HIDE DEF c
  <1> QED BY <1>1, <1>3 DEF IsDate

\* On any other day it goes on.
LEMMA PeriodGoesOn ==
    ASSUME NEW date, IsDate(date), NEW d \in 1 .. 31, ~IsResetDay(NextDay(date), d)
    PROVE  PeriodStart(NextDay(date), d) = PeriodStart(date, d)
  <1> DEFINE t == NextDay(date)
             c == ClampToMonth(date.year, date.month, d)
             ct == ClampToMonth(t.year, t.month, d)
             start(y, m) == [year |-> y, month |-> m, day |-> ClampToMonth(y, m, d)]
  <1>1. IsDate(t)
    BY NextDayCases
  <1>2. /\ date.year \in Nat /\ date.month \in 1 .. 12
        /\ Days(date) \in 28 .. 31 /\ date.day \in 1 .. Days(date)
        /\ Days(t) \in 28 .. 31 /\ t.day \in 1 .. Days(t)
    BY <1>1, MonthLength DEF IsDate, Days
  <1>3. c \in 1 .. Days(date) /\ ct \in 1 .. Days(t)
    BY <1>1, Clamped DEF IsDate, Days
  <1>4. t.day # ct
    BY <1>1, ResetDayIsClamped
  <1>5. /\ date.day >= c => PeriodStart(date, d) = start(date.year, date.month)
        /\ date.day < c /\ date.month = 1 => PeriodStart(date, d) = start(date.year - 1, 12)
        /\ date.day < c /\ date.month # 1
             => PeriodStart(date, d) = start(date.year, date.month - 1)
    BY PeriodStartCases
  <1>6. /\ t.day >= ct => PeriodStart(t, d) = start(t.year, t.month)
        /\ t.day < ct /\ t.month = 1 => PeriodStart(t, d) = start(t.year - 1, 12)
        /\ t.day < ct /\ t.month # 1 => PeriodStart(t, d) = start(t.year, t.month - 1)
    BY <1>1, PeriodStartCases
  <1>7. CASE date.day < Days(date)
    <2>1. t.year = date.year /\ t.month = date.month /\ t.day = date.day + 1
      BY <1>7, NextDayCases
    <2>2. ct = c
      BY <2>1
    <2> HIDE DEF t, c, ct
    <2>3. (date.day >= c <=> t.day >= ct) /\ (date.day < c <=> t.day < ct)
      BY <1>2, <1>3, <1>4, <2>1, <2>2
    <2>4. date.day >= c \/ (date.day < c /\ (date.month = 1 \/ date.month # 1))
      BY <1>2, <1>3
    <2>5. PeriodStart(t, d) = PeriodStart(date, d)
      BY <1>5, <1>6, <2>1, <2>3, <2>4
    <2> QED BY <2>5 DEF t
  <1>8. CASE date.day = Days(date)
    <2>1. t.day = 1 /\ \/ date.month < 12 /\ t.year = date.year /\ t.month = date.month + 1
                       \/ date.month = 12 /\ t.year = date.year + 1 /\ t.month = 1
      <3>1. date.month < 12 \/ date.month = 12
        BY <1>2
      <3> QED BY <1>8, <3>1, NextDayCases
    <2> HIDE DEF t, c, ct
    <2>2. t.day < ct /\ date.day >= c
      BY <1>2, <1>3, <1>4, <1>8, <2>1
    <2>3. PeriodStart(date, d) = start(date.year, date.month)
      BY <1>5, <2>2
    <2>4. CASE date.month < 12
      <3>1. t.month # 1 /\ t.month - 1 = date.month /\ t.year = date.year
        BY <1>2, <2>1, <2>4
      <3> QED BY <1>6, <2>2, <2>3, <3>1 DEF t
    <2>5. CASE date.month = 12
      <3>1. t.month = 1 /\ t.year - 1 = date.year
        BY <1>2, <2>1, <2>5
      <3> QED BY <1>6, <2>2, <2>3, <2>5, <3>1 DEF t
    <2> QED BY <1>2, <2>4, <2>5
  <1> QED BY <1>2, <1>7, <1>8

\* period_start, which looks at nothing but the date and the reset day, finds the
\* last day on which the provider reset the counter: for every reset day, from
\* any first year on, through every short month and leap year.
THEOREM PeriodsAreRight == Spec => []PeriodIsSinceLastReset
  <1>1. Init => IInv
    <2> SUFFICES ASSUME Init PROVE IInv
      OBVIOUS
    <2>1. today = [year |-> FirstYear, month |-> 1, day |-> 1] /\ resetDay \in 1 .. 31
      BY ResetAssumption DEF Init
    <2>2. today.year = FirstYear /\ today.month = 1 /\ today.day = 1
      BY <2>1
    <2>3. DaysInMonth(FirstYear, 1) \in 28 .. 31
      BY MonthLength
    <2>4. IsDate(today)
      BY <2>1, <2>2, <2>3, YearAssumption DEF IsDate, Days
    <2>5. PeriodIsSinceLastReset
      BY <2>1, <2>4, PeriodBegins DEF Init, PeriodIsSinceLastReset
    <2> QED BY <2>1, <2>4, <2>5 DEF IInv
  <1>2. IInv /\ [Next]_vars => IInv'
    <2> SUFFICES ASSUME IInv, [Next]_vars PROVE IInv'
      OBVIOUS
    <2>1. CASE Next
      <3>1. /\ today' = NextDay(today) /\ resetDay' = resetDay
            /\ last' = IF IsResetDay(today', resetDay) THEN today' ELSE last
        BY <2>1 DEF Next, DayPasses
      <3>2. IsDate(NextDay(today)) /\ resetDay \in 1 .. 31 /\ IsDate(today)
        BY NextDayCases DEF IInv
      <3>3. IsDate(today)'
        BY <3>1, <3>2 DEF IsDate, Days
      <3>4. CASE IsResetDay(NextDay(today), resetDay)
        <4>1. PeriodStart(NextDay(today), resetDay) = NextDay(today)
          BY <3>2, <3>4, PeriodBegins
        <4>2. last' = NextDay(today)
          BY <3>1, <3>4
        <4> QED BY <3>1, <3>2, <3>3, <4>1, <4>2 DEF IInv, PeriodIsSinceLastReset
      <3>5. CASE ~IsResetDay(NextDay(today), resetDay)
        <4>1. PeriodStart(NextDay(today), resetDay) = PeriodStart(today, resetDay)
          BY <3>2, <3>5, PeriodGoesOn
        <4>2. last' = last
          BY <3>1, <3>5
        <4> QED BY <3>1, <3>2, <3>3, <4>1, <4>2 DEF IInv, PeriodIsSinceLastReset
      <3> QED BY <3>4, <3>5
    <2>2. CASE UNCHANGED vars
      BY <2>2 DEF vars, IInv, IsDate, Days, PeriodIsSinceLastReset
    <2> QED BY <2>1, <2>2
  <1>3. IInv => PeriodIsSinceLastReset
    BY DEF IInv
  <1> QED BY <1>1, <1>2, <1>3, PTL DEF Spec
=============================================================================
