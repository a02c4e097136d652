--------------------------- MODULE SafiGovernance ---------------------------
(***************************************************************************)
(* What Safi decides about one debit: the columns of a safi_configs row    *)
(* the money path reads or writes, the decision of                         *)
(* SafiService.assertWithdrawalAllowed, and the change                     *)
(* SafiService.recordTransaction makes to the row afterwards.              *)
(*                                                                         *)
(* Amounts are whole units.  The code keeps them as BigInt behind MySQL    *)
(* bigint columns, so no width matters at the sizes the DTOs accept.       *)
(***************************************************************************)
EXTENDS Integers

CardBehaviours == {"hard_decline", "auto_cover", "buffer"}

GovernanceModes == {"strict", "flexible"}

\* A row of safi_configs.  cycleDays is the length in days of the current
\* window (getCycleWindow's totalDays), which stands for frequency, customDays
\* and expiresAt; rolloverPreference and the pause counters play no part in a
\* debit.
SafiConfigs ==
  [ income          : Nat,
    protectedSum    : Nat,
    baselineBalance : Nat,
    governanceMode  : GovernanceModes,
    cycleDays       : Nat,
    cardBehaviour   : CardBehaviours,
    bufferAmount    : Nat,
    remainingBuffer : Nat,
    isPaused        : BOOLEAN,
    overrideActive  : BOOLEAN ]

\* A row as `create` leaves it over a wallet that holds `balance`, or as
\* `pause` leaves it after that.
IsFresh(c, balance) ==
  /\ c.protectedSum =< c.income
  /\ c.baselineBalance = balance
  /\ c.remainingBuffer = c.bufferAmount
  /\ ~ c.overrideActive

-----------------------------------------------------------------------------
(***************************************************************************)
(* assertWithdrawalAllowed                                                 *)
(***************************************************************************)

BreachesReserve(c, balance) == balance < c.protectedSum

\* Mutant: any cushion left lets any debit through.
WithdrawalAllowedOnAnyBuffer(c, current, prospective) ==
  \/ c.isPaused
  \/ current - prospective =< 0
  \/ ~ BreachesReserve(c, prospective)
  \/ c.cardBehaviour = "auto_cover"
  \/ c.cardBehaviour = "buffer" /\ c.remainingBuffer > 0

\* `current` is the balance of Safi's own ledger, `prospective` the balance
\* core banking would be left with.
WithdrawalAllowed(c, current, prospective) ==
  \/ c.isPaused
  \/ current - prospective =< 0
  \/ ~ BreachesReserve(c, prospective)
  \/ c.cardBehaviour = "auto_cover"
  \/ /\ c.cardBehaviour = "buffer"
     /\ c.protectedSum - prospective =< c.remainingBuffer

-----------------------------------------------------------------------------
(***************************************************************************)
(* recordTransaction, for a debit on an account that is not paused         *)
(***************************************************************************)

\* Mutant: the debit that crosses into the reserve is not charged.
BufferUsedBelowOnly(c, amount, balanceAfter) ==
  IF BreachesReserve(c, balanceAfter + amount) THEN amount ELSE 0

\* The part of a debit that came out of the reserve.
BufferUsed(c, amount, balanceAfter) ==
  IF BreachesReserve(c, balanceAfter + amount)
  THEN amount
  ELSE c.protectedSum - balanceAfter

DrawsOnBuffer(c, balanceAfter) ==
  BreachesReserve(c, balanceAfter) /\ c.cardBehaviour = "buffer"

BufferLeft(c, amount, balanceAfter) ==
  c.remainingBuffer - BufferUsed(c, amount, balanceAfter)

\* The daily limit of a strict account: its spend pool spread over the window.
DailySafeSpend(c) ==
  IF c.cycleDays > 0 THEN (c.income - c.protectedSum) \div c.cycleDays ELSE 0

\* The override a debit triggers, given the total its day has reached: a limit
\* breach replaces an auto cover.
BreachesLimit(c, spentToday) ==
  c.governanceMode = "strict" /\ spentToday > DailySafeSpend(c)

AutoCovers(c, balanceAfter) ==
  BreachesReserve(c, balanceAfter) /\ c.cardBehaviour = "auto_cover"

TriggersOverride(c, balanceAfter, spentToday) ==
  BreachesLimit(c, spentToday) \/ AutoCovers(c, balanceAfter)

OverrideType(c, spentToday) ==
  IF BreachesLimit(c, spentToday) THEN "limit_breach" ELSE "auto_cover"

\* The row after recordTransaction saves it, given `seen`, the row it read.
\* Inside the transaction TypeORM's save writes only the columns that differ
\* from the row as read, so every other column keeps the value `c` has by now.
ConfigAfterDebit(c, seen, amount, balanceAfter, spentToday) ==
  LET draws == DrawsOnBuffer(seen, balanceAfter)
      left  == BufferLeft(seen, amount, balanceAfter)
      remaining == IF left > 0 THEN left ELSE 0
  IN [c EXCEPT
        !.remainingBuffer = IF draws /\ remaining # seen.remainingBuffer
                            THEN remaining ELSE @,
        !.cardBehaviour   = IF draws /\ left =< 0 THEN "hard_decline" ELSE @,
        !.overrideActive  =
           @ \/ ( /\ ~ seen.overrideActive
                  /\ TriggersOverride(seen, balanceAfter, spentToday) )]

=============================================================================
