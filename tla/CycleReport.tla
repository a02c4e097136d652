---------------------------- MODULE CycleReport ----------------------------
(***************************************************************************)
(* What the rows of safi_transactions, safi_overrides and safi_cycles of   *)
(* one account add up to: the amounts and the score of a cycle that        *)
(* closes, and what the dashboard shows of the running one.                *)
(*                                                                         *)
(* `ledger` is the rows of safi_transactions in the order of their commits *)
(* and, the wallet's row lock being held from a row's date to its commit,  *)
(* of their dates; `overrides` the rows of safi_overrides.                 *)
(* A config c has the columns of SafiGovernance and those of a window.     *)
(***************************************************************************)
EXTENDS CycleCalendar, SafiGovernance, SequencesExt, FiniteSetsExt

\* A row with more columns: TLC's @@, written out.
Joined(f, g) ==
  [col \in DOMAIN f \union DOMAIN g |-> IF col \in DOMAIN f THEN f[col] ELSE g[col]]

Between(at, start, end) == start =< at /\ at =< end

\* getCurrentBalance.
CurrentBalance(c, ledger) ==
  IF ledger = <<>> THEN c.baselineBalance ELSE Last(ledger).after

\* Mutant: the date is not looked at.
BalanceByNow(c, ledger, date) == CurrentBalance(c, ledger)

\* getBalanceAsOf.
BalanceAsOf(c, ledger, date) ==
  LET upTo == {i \in DOMAIN ledger : ledger[i].at =< date}
  IN IF upTo = {} THEN c.baselineBalance ELSE ledger[Max(upTo)].after

RowsBetween(ledger, start, end) ==
  {i \in DOMAIN ledger : Between(ledger[i].at, start, end)}

OverridesBetween(overrides, start, end) ==
  {i \in DOMAIN overrides : Between(overrides[i].at, start, end)}

\* The cycles that may come first ORDER BY endDate DESC.
LatestCycles(cycles) ==
  {p \in DOMAIN cycles : \A q \in DOMAIN cycles : cycles[q].end =< cycles[p].end}

\* What the previous cycle p, if any, adds to the spend pool of config c.
CarriedOver(c, cycles, p) ==
  IF /\ p \in DOMAIN cycles
     /\ c.governanceMode = "flexible"
     /\ c.rolloverPreference = "rollover"
  THEN Max({0, cycles[p].netAmount + cycles[p].allocation})
  ELSE 0

Allocation(c, cycles, p) == c.income - c.protectedSum + CarriedOver(c, cycles, p)

Remaining(c, balance) == Max({0, balance - c.protectedSum})

Breached(c, balance, ledger, rows) ==
  \/ BreachesReserve(c, balance)
  \/ \E i \in rows : BreachesReserve(c, ledger[i].after)

BufferSpent(c) == Max({0, c.bufferAmount - c.remainingBuffer})

RawScore(c, breached, overrideCount) ==
  100 - 15 * overrideCount
      - (IF c.governanceMode = "strict" /\ (breached \/ overrideCount > 0)
         THEN 20 ELSE 0)
      - (IF BufferSpent(c) > 0 THEN 5 ELSE 0)
      + (IF overrideCount = 0 THEN 20 ELSE 0)

\* Mutant: the bonus lifts the score over 100.
ScoreUncapped(c, breached, overrideCount) ==
  Max({0, RawScore(c, breached, overrideCount)})

ComplianceScore(c, breached, overrideCount) ==
  Min({100, Max({0, RawScore(c, breached, overrideCount)})})

Outcome(netAmount) ==
  CASE netAmount > 0 -> "returned"
    [] netAmount < 0 -> "over_budget"
    [] OTHER -> "exact"

\* The row closeCycle inserts for the window of config c, p being the cycle it
\* takes for the previous one.
ClosedCycle(c, ledger, overrides, cycles, p) ==
  LET start == WindowStart(c)
      end == c.expiresAt
      balance == BalanceAsOf(c, ledger, end)
      overrideCount == Cardinality(OverridesBetween(overrides, start, end))
      allocation == Allocation(c, cycles, p)
      net == Remaining(c, balance) - allocation
  IN [ start |-> start, end |-> end, allocation |-> allocation,
       netAmount |-> net, outcome |-> Outcome(net),
       overrideCount |-> overrideCount, bufferUsed |-> BufferSpent(c),
       complianceScore |->
         ComplianceScore(c,
           Breached(c, balance, ledger, RowsBetween(ledger, start, end)),
           overrideCount) ]

-----------------------------------------------------------------------------
\* The days of the window of c there are left at `now`.
DaysLeft(c, now) == Max({0, c.expiresAt - now})

\* What a customer may still spend each day.
SafeDaily(c, now, balance) ==
  IF DaysLeft(c, now) > 0 THEN Remaining(c, balance) \div DaysLeft(c, now)
                          ELSE Remaining(c, balance)

\* The status of the running cycle, in order of precedence.
Status(c, now, breached, score) ==
  CASE c.isPaused -> "Paused"
    [] ~ c.isPaused /\ c.overrideActive -> "Override Active"
    [] ~ c.isPaused /\ ~ c.overrideActive /\ breached -> "Warning"
    [] OTHER ->
         IF DaysLeft(c, now) = 0 THEN "Cycle Complete"
         ELSE IF score < 60 THEN "Warning"
         ELSE IF score >= 85 THEN "Protected"
         ELSE "On Track"

\* What getDashboard answers for the entity c, having found `breached` and
\* overrideCount in the window and `balance` behind it.
Dashboard(c, now, balance, breached, overrideCount, allocation) ==
  LET score == ComplianceScore(c, breached, overrideCount) IN
  [ start |-> WindowStart(c), breached |-> breached, complianceScore |-> score,
    allocation |-> allocation,
    used |-> Max({0, allocation - Remaining(c, balance)}),
    safeDaily |-> SafeDaily(c, now, balance),
    status |-> Status(c, now, breached, score) ]

=============================================================================
