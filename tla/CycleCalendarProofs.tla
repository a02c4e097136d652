------------------------ MODULE CycleCalendarProofs ------------------------
(***************************************************************************)
(* The calendar of CycleCalendar: every date is in one month, adding a     *)
(* period goes forward, and the window that ends where a period from some  *)
(* date has led starts on that date or, where a short month has pushed it  *)
(* over, later; it never starts before.                                    *)
(***************************************************************************)
EXTENDS CycleCalendar, WellFoundedInduction, TLAPS

Months == 0 .. LastMonth

\* A set of numbers that is not empty has a least element.
LEMMA LeastElement ==
  ASSUME NEW T, T \subseteq Nat, T # {}
  PROVE  \E x \in T : \A y \in T : x =< y
<1>1. \E x \in T : \A y \in T : ~ (<<y, x>> \in OpToRel(<, Nat))
  BY NatLessThanWellFounded, WFMin
<1>2. \A x, y \in Nat : <<y, x>> \notin OpToRel(<, Nat) => x =< y
  BY DEF OpToRel
<1> QED
  BY <1>1, <1>2

LEMMA MonthTypes ==
  /\ LastMonth \in Nat
  /\ \A m \in Months : MonthStart[m] \in Nat
  /\ MonthStart[0] = 0
  /\ \A m \in 0 .. LastMonth - 1 : MonthStart[m] < MonthStart[m + 1]
BY CalendarAssumption DEF Months

\* Later months start later.
LEMMA MonthsInOrder ==
  ASSUME NEW m \in Months, NEW n \in Months, m < n
  PROVE  MonthStart[m] < MonthStart[n]
<1> USE MonthTypes
<1> DEFINE T == {k \in Months : m < k /\ MonthStart[k] =< MonthStart[m]}
<1> SUFFICES ASSUME T # {}
             PROVE  FALSE
  BY DEF Months
<1>1. T \subseteq Nat
  BY DEF Months
<1>2. PICK k \in T : \A l \in T : k =< l
  BY <1>1, LeastElement
<1>3. k - 1 \in 0 .. LastMonth - 1 /\ m =< k - 1 /\ k = (k - 1) + 1
  BY DEF Months
<1>4. MonthStart[k - 1] < MonthStart[k]
  BY <1>3
<1>5. MonthStart[k - 1] \in Nat /\ MonthStart[k] \in Nat /\ MonthStart[m] \in Nat
  BY <1>3 DEF Months
<1>6. k - 1 # m
  BY <1>4, <1>5
<1>7. k - 1 \in T
  BY <1>3, <1>4, <1>5, <1>6 DEF Months
<1> QED
  BY <1>2, <1>7 DEF Months

\* Every date of the calendar is in one month.
LEMMA MonthOfDate ==
  ASSUME NEW d \in Nat, d < MonthStart[LastMonth]
  PROVE  LET m == MonthOf(d) IN
         /\ m \in 0 .. LastMonth - 1
         /\ MonthStart[m] =< d /\ d < MonthStart[m + 1]
<1> USE MonthTypes
<1> DEFINE T == {k \in Months : d < MonthStart[k]}
<1>1. T \subseteq Nat /\ LastMonth \in T
  BY DEF Months
<1>2. PICK k \in T : \A l \in T : k =< l
  BY <1>1, LeastElement
<1>3. k # 0
  OBVIOUS
<1>4. k - 1 \in 0 .. LastMonth - 1 /\ (k - 1) + 1 = k
  BY <1>3 DEF Months
<1>5. ~ (d < MonthStart[k - 1])
  BY <1>2, <1>4 DEF Months
<1>6. MonthStart[k - 1] =< d /\ d < MonthStart[(k - 1) + 1]
  BY <1>4, <1>5 DEF Months
<1> QED
  BY <1>4, <1>6 DEF MonthOf

\* A month on, and back.
LEMMA MonthThereAndBack ==
  ASSUME NEW d \in Nat, d < MonthStart[LastMonth],
         AddMonths(d, 1) < MonthStart[LastMonth]
  PROVE  LET e == AddMonths(d, 1) IN
         /\ e \in Nat /\ d < e
         /\ AddMonths(e, -1) \in Nat
         /\ d =< AddMonths(e, -1) /\ AddMonths(e, -1) < e
<1> USE MonthTypes
<1> DEFINE e == AddMonths(d, 1)
           m == MonthOf(d)
           n == MonthOf(e)
<1>1. m \in 0 .. LastMonth - 1 /\ MonthStart[m] =< d /\ d < MonthStart[m + 1]
  BY MonthOfDate
<1>2. /\ MonthStart[m] \in Nat /\ MonthStart[m + 1] \in Nat
      /\ MonthStart[m] < MonthStart[m + 1]
  BY <1>1 DEF Months
<1>3. e = MonthStart[m + 1] + d - MonthStart[m]
  BY DEF AddMonths
<1>4. e \in Nat /\ d < e /\ MonthStart[m + 1] =< e
  BY <1>1, <1>2, <1>3
<1>5. n \in 0 .. LastMonth - 1 /\ MonthStart[n] =< e /\ e < MonthStart[n + 1]
  BY <1>4, MonthOfDate
<1>6. m + 1 =< n
  <2> SUFFICES ASSUME n + 1 =< m + 1
               PROVE  FALSE
    BY <1>1, <1>5
  <2>1. MonthStart[n + 1] =< MonthStart[m + 1]
    BY <1>1, <1>5, MonthsInOrder DEF Months
  <2>2. MonthStart[n + 1] \in Nat
    BY <1>5 DEF Months
  <2> QED
    BY <2>1, <2>2, <1>2, <1>4, <1>5
<1>7. n - 1 \in 0 .. LastMonth - 1 /\ (n - 1) + 1 = n
  BY <1>1, <1>5, <1>6
<1>8. /\ MonthStart[n - 1] \in Nat /\ MonthStart[n] \in Nat
      /\ MonthStart[n - 1] < MonthStart[n]
  BY <1>5, <1>7 DEF Months
<1>9. AddMonths(e, -1) = MonthStart[n - 1] + e - MonthStart[n]
  <2>1. n + (-1) = n - 1
    BY <1>5
  <2> QED
    BY <2>1 DEF AddMonths
<1>10. AddMonths(e, -1) \in Nat /\ AddMonths(e, -1) < e
  BY <1>4, <1>5, <1>8, <1>9
<1>11. d =< AddMonths(e, -1)
  <2>1. CASE n = m + 1
    <3>1. MonthStart[n - 1] = MonthStart[m] /\ MonthStart[n] = MonthStart[m + 1]
      BY <2>1, <1>1
    <3> QED
      BY <3>1, <1>1, <1>2, <1>3, <1>9
  <2>2. CASE n # m + 1
    <3>1. m + 1 =< n - 1
      BY <2>2, <1>1, <1>5, <1>6
    <3>2. MonthStart[m + 1] =< MonthStart[n - 1]
      BY <3>1, <1>1, <1>7, MonthsInOrder DEF Months
    <3>3. MonthStart[n - 1] =< AddMonths(e, -1)
      <4> HIDE DEF n, e
      <4> QED
        BY <1>4, <1>5, <1>8, <1>9
    <3>4. d < MonthStart[n - 1]
      <4> HIDE DEF n, m
      <4> QED
        BY <3>2, <1>1, <1>2, <1>8
    <3> HIDE DEF n, e
    <3> QED
      BY <3>3, <3>4, <1>8, <1>10
  <2> QED
    BY <2>1, <2>2
<1> QED
  BY <1>4, <1>10, <1>11

\* A frequency with a number of days has at least one.
LEMMA PeriodDaysType ==
  ASSUME NEW frequency \in Frequencies, NEW customDays \in Nat
  PROVE  PeriodDays(frequency, customDays) \in Nat \ {0}
BY CalendarAssumption DEF PeriodDays, NoDays, Frequencies

\* What a row c knows of the date d it was given its end on, the calendar
\* reaching past its window: the window is not empty and does not start before d,
\* and for every frequency but monthly it starts on d.
THEOREM WindowsFollowTheirDate ==
  ASSUME NEW d \in Nat, d < MonthStart[LastMonth],
         AddMonths(d, 1) < MonthStart[LastMonth],
         NEW c, c.frequency \in Frequencies, c.customDays \in Nat,
         c.expiresAt = ComputeExpiresAt(c.frequency, d, c.customDays)
  PROVE  /\ c.expiresAt \in Nat /\ WindowStart(c) \in Nat
         /\ d =< WindowStart(c) /\ WindowStart(c) < c.expiresAt
         /\ c.frequency # "monthly" => WindowStart(c) = d
<1>1. CASE c.frequency = "monthly"
  BY <1>1, MonthThereAndBack DEF ComputeExpiresAt, WindowStart
<1>2. CASE c.frequency # "monthly"
  BY <1>2, PeriodDaysType DEF ComputeExpiresAt, WindowStart
<1> QED
  BY <1>1, <1>2

=============================================================================
