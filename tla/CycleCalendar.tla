--------------------------- MODULE CycleCalendar ---------------------------
(***************************************************************************)
(* The dates of a budget cycle: computeExpiresAt, which adds a period to a *)
(* date, and getCycleWindow, which subtracts it again from the end.        *)
(*                                                                         *)
(* A date is a number of days.  Every instant the code compares keeps the  *)
(* time of day of the config's creation or last change of frequency, so    *)
(* two dates that are equal here are equal to the millisecond there.       *)
(***************************************************************************)
EXTENDS Integers

CONSTANTS
  LastMonth,    \* the calendar has the months 0 .. LastMonth
  MonthStart,   \* the date of the first day of each month
  Week,         \* 7 in the code
  DefaultDays   \* the length of a custom cycle nobody gave one, 30 in the code

ASSUME CalendarAssumption ==
  /\ LastMonth \in Nat
  /\ MonthStart \in [0 .. LastMonth -> Nat]
  /\ MonthStart[0] = 0
  /\ \A m \in 0 .. LastMonth - 1 : MonthStart[m] < MonthStart[m + 1]
  /\ Week \in Nat \ {0}
  /\ DefaultDays \in Nat \ {0}

Frequencies == {"daily", "weekly", "biweekly", "monthly", "custom"}

\* customDays of a config that never had any.
NoDays == 0

MonthOf(d) ==
  CHOOSE m \in 0 .. LastMonth - 1 : MonthStart[m] =< d /\ d < MonthStart[m + 1]

\* Date.setMonth: the day of the month stays, and when the month reached is too
\* short for it, it counts on into the next.
AddMonths(d, n) == MonthStart[MonthOf(d) + n] + d - MonthStart[MonthOf(d)]

\* The number of days of a frequency that has one.
PeriodDays(frequency, customDays) ==
  CASE frequency = "daily" -> 1
    [] frequency = "weekly" -> Week
    [] frequency = "biweekly" -> 2 * Week
    [] OTHER -> IF customDays = NoDays THEN DefaultDays ELSE customDays

ComputeExpiresAt(frequency, from, customDays) ==
  IF frequency = "monthly" THEN AddMonths(from, 1)
                           ELSE from + PeriodDays(frequency, customDays)

\* The window of a config c ends at c.expiresAt; it starts here.
WindowStart(c) ==
  IF c.frequency = "monthly"
  THEN AddMonths(c.expiresAt, -1)
  ELSE c.expiresAt - PeriodDays(c.frequency, c.customDays)

\* c has the end it was given on some date up to `latest`.
DatedBy(c, latest) ==
  \E d \in 0 .. latest : c.expiresAt = ComputeExpiresAt(c.frequency, d, c.customDays)

TotalDays(c) == c.expiresAt - WindowStart(c)

=============================================================================
