------------------------------ MODULE Calendar ------------------------------
(***************************************************************************)
(* Which billing period a date falls in (src/quotas/period.rs).  The       *)
(* function period_start is checked against a reference that never         *)
(* computes a period: an observer who looks at the calendar every day and  *)
(* remembers the last day the provider reset the counter on.               *)
(***************************************************************************)
EXTENDS Integers

CONSTANTS ResetDays,            \* values of reset_day, 1 .. 31 in the config
          FirstYear, LastYear   \* bounds on the calendar

ASSUME YearAssumption == FirstYear \in Nat /\ LastYear \in Nat
ASSUME ResetAssumption == ResetDays \subseteq 1 .. 31

VARIABLES today,     \* a date [year, month, day]
          resetDay,  \* RpcNode::reset_day
          last       \* the observer: the last reset day, NoDate before the first

vars == <<today, resetDay, last>>

NoDate == [year |-> 0, month |-> 0, day |-> 0]

IsLeap(year) == year % 4 = 0 /\ (year % 100 # 0 \/ year % 400 = 0)

\* time::util::days_in_month.
DaysInMonth(year, month) ==
    CASE month \in {4, 6, 9, 11} -> 30
      [] month = 2 -> IF IsLeap(year) THEN 29 ELSE 28
      [] OTHER -> 31

\* Mutant: a reset day past the end of the month stays there.
Unclamped(year, month, day) == day

ClampToMonth(year, month, day) ==
    IF day < DaysInMonth(year, month) THEN day ELSE DaysInMonth(year, month)

PeriodStart(date, day) ==
    LET year == date.year
        month == date.month
        start(y, m) == [year |-> y, month |-> m, day |-> ClampToMonth(y, m, day)]
    IN  CASE date.day >= ClampToMonth(year, month, day) -> start(year, month)
          [] date.day < ClampToMonth(year, month, day) /\ month = 1 -> start(year - 1, 12)
          [] OTHER -> start(year, month - 1)

NextDay(date) ==
    IF date.day < DaysInMonth(date.year, date.month)
    THEN [date EXCEPT !.day = @ + 1]
    ELSE IF date.month < 12
         THEN [date EXCEPT !.month = @ + 1, !.day = 1]
         ELSE [year |-> date.year + 1, month |-> 1, day |-> 1]

\* The day a provider bills on: the reset day, or the last of a shorter month.
IsResetDay(date, day) ==
    \/ date.day = day
    \/ date.day < day /\ NextDay(date).month # date.month

Init ==
    /\ today = [year |-> FirstYear, month |-> 1, day |-> 1]
    /\ resetDay \in ResetDays
    /\ last = IF IsResetDay(today, resetDay) THEN today ELSE NoDate

DayPasses ==
    /\ NextDay(today).year <= LastYear
    /\ today' = NextDay(today)
    /\ last' = IF IsResetDay(today', resetDay) THEN today' ELSE last
    /\ UNCHANGED resetDay

Next == DayPasses

Spec == Init /\ [][Next]_vars

\* The period the balancer computes from the date alone is the one an observer
\* of the whole calendar is in: it began on the last reset day, over month
\* ends, short months, leap years and the turn of the year.
PeriodIsSinceLastReset ==
    last # NoDate => PeriodStart(today, resetDay) = last
=============================================================================
