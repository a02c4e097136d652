--------------------------- MODULE MCBudgetCycles ---------------------------
(***************************************************************************)
(* Short months and weeks, so that a few days see several cycles end.      *)
(***************************************************************************)
EXTENDS BudgetCycles

\* The account starts on the last day of the second month; the third is
\* shorter.
MCMonths == [m \in 0 .. 6 |-> <<0, 2, 4, 5, 7, 9, 11>>[m + 1]]
MCFirstDay == 3

Opening == 5

Config(behaviour, mode, rollover, frequency, buffer) ==
  [ income             |-> 6,
    protectedSum       |-> 3,
    baselineBalance    |-> Opening,
    governanceMode     |-> mode,
    frequency          |-> frequency,
    customDays         |-> NoDays,
    expiresAt          |-> ComputeExpiresAt(frequency, MCFirstDay, NoDays),
    rolloverPreference |-> rollover,
    cardBehaviour      |-> behaviour,
    bufferAmount       |-> buffer,
    remainingBuffer    |-> buffer,
    isPaused           |-> FALSE,
    overrideActive     |-> FALSE ]

\* All of the income is protected, which is more than there is.
AllReserved(c) == [c EXCEPT !.protectedSum = c.income]

Setup(c) == [config |-> c, cycles |-> <<>>]

\* The account was enrolled before: deactivate keeps the rows of safi_cycles.
Again(c) ==
  [ config |-> c,
    cycles |->
      << [ start |-> 0, end |-> 2, allocation |-> 3, netAmount |-> -1,
           outcome |-> "over_budget", overrideCount |-> 0, bufferUsed |-> 0,
           complianceScore |-> 100, seen |-> 0, first |-> TRUE,
           frequency |-> "weekly", epoch |-> -1 ] >> ]

MCSetups ==
  { Setup(Config("buffer", "flexible", "return_to_reserve", "monthly", 2)),
    Setup(Config("auto_cover", "strict", "return_to_reserve", "custom", 0)),
    Setup(AllReserved(Config("auto_cover", "flexible", "return_to_reserve", "custom", 0))),
    Again(Config("buffer", "flexible", "rollover", "daily", 2)) }

MCUpdateDtos ==
  { [frequency |-> "custom", customDays |-> 2], [protectedSum |-> 4],
    [protectedSum |-> 7], [bufferAmount |-> 3] }

StrictSetups ==
  { Setup(Config("auto_cover", "strict", "return_to_reserve", "custom", 0)) }

=============================================================================
