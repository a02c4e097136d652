---------------------------- MODULE BudgetCycles ----------------------------
(***************************************************************************)
(* The budget cycles of one enrolled account over a few days: the debits   *)
(* and credits the wallet records, the lazy rollover that closes every     *)
(* cycle that has ended when somebody next looks, and the calls that look: *)
(* the dashboard, the history, and an update of the config.                *)
(*                                                                         *)
(* One call at a time, which entries of the wallet and midnight come       *)
(* between the steps of; SafiConfigService has calls that race each other, *)
(* WalletService the statements of an entry.                               *)
(***************************************************************************)
EXTENDS CycleReport

CONSTANTS
  Setups,          \* configs and closed cycles the system may start with
  UpdateDtos,      \* what an update may ask for
  Debits, Credits, \* what an entry may move
  OpeningBalance,  \* the wallet's balance at the start
  FirstDay,        \* the date at the start
  LastDay,         \* bound: the clock stops there
  MaxEntries,      \* bound on the entries
  MaxCalls,        \* bound on the calls
  NoConfig, NoEntry, Nothing

VARIABLES
  config,     \* the account's row of safi_configs
  balance,    \* wallets.balance
  ledger,     \* its rows of safi_transactions, see CycleReport
  overrides,  \* its rows of safi_overrides
  cycles,     \* its rows of safi_cycles
  now,        \* the date
  pending,    \* the entry whose row is inserted and not committed
  call,       \* the call in flight
  asked,      \* the calls so far
  shown,      \* what the last dashboard shows
  listed,     \* what the last history lists
  inForce,    \* history: what was configured when each day began
  atEnd,      \* history: what the days began with on which its window ended
  restarts,   \* history: cycles an update has started over
  slips       \* history: what happened in the middle of something else

vars == <<config, balance, ledger, overrides, cycles, now, pending, call, asked,
          shown, listed, inForce, atEnd, restarts, slips>>

-----------------------------------------------------------------------------
Days == FirstDay .. LastDay

\* The columns of a debit's decision, of the window, and of the carry-over.
Configs ==
  [ income             : Nat,
    protectedSum       : Nat,
    baselineBalance    : Nat,
    governanceMode     : GovernanceModes,
    frequency          : Frequencies,
    customDays         : Nat,
    expiresAt          : Nat,
    rolloverPreference : {"return_to_reserve", "rollover"},
    cardBehaviour      : CardBehaviours,
    bufferAmount       : Nat,
    remainingBuffer    : Nat,
    isPaused           : BOOLEAN,
    overrideActive     : BOOLEAN ]

\* A row of safi_transactions; drew is history: it was charged to the buffer.
Rows ==
  [ at : Days, after : Nat, amount : Debits \union Credits, debit : BOOLEAN,
    drew : BOOLEAN ]

Overrides == [at : Days, type : {"limit_breach", "auto_cover"}]

\* A row of safi_cycles; the last four are history: the rows of the ledger when
\* it was closed, whether it was the first its call closed, the frequency, and
\* the restarts so far (-1 in an earlier enrolment).
Cycles ==
  [ start : Nat, end : Nat, allocation : Int, netAmount : Int,
    outcome : {"returned", "over_budget", "exact"}, overrideCount : Nat,
    bufferUsed : Nat, complianceScore : 0 .. 100,
    seen : 0 .. MaxEntries, first : BOOLEAN, frequency : Frequencies, epoch : Int ]

\* What an update may give.
DtoTypes ==
  [ income |-> Nat, protectedSum |-> Nat, governanceMode |-> GovernanceModes,
    frequency |-> Frequencies, customDays |-> Nat,
    rolloverPreference |-> {"return_to_reserve", "rollover"},
    cardBehaviour |-> CardBehaviours, bufferAmount |-> Nat ]

ASSUME DtosAssumption ==
  \A dto \in UpdateDtos :
    /\ DOMAIN dto \subseteq DOMAIN DtoTypes
    /\ \A col \in DOMAIN dto : dto[col] \in DtoTypes[col]

\* The row is as create left it; the cycles are of an earlier enrolment.
ASSUME SetupsAssumption ==
  \A s \in Setups :
    /\ s.config \in Configs
    /\ DatedBy(s.config, LastDay)
    /\ s.config.remainingBuffer = s.config.bufferAmount
    /\ s.cycles \in Seq(Cycles)
    /\ \A i \in DOMAIN s.cycles :
         LET c == s.cycles[i] IN
         /\ c.epoch < 0
         /\ c.start < c.end /\ c.end =< FirstDay /\ c.end =< WindowStart(s.config)
         /\ \A j \in DOMAIN s.cycles : i < j => c.end =< s.cycles[j].start
         /\ ( /\ i + 1 \in DOMAIN s.cycles
              /\ s.cycles[i + 1].frequency # "monthly"
              /\ s.cycles[i + 1].epoch = c.epoch )
            => c.end = s.cycles[i + 1].start

\* The calendar reaches past the window of every date.
ASSUME ConstantsAssumption ==
  /\ Debits \subseteq Nat /\ Credits \subseteq Nat /\ OpeningBalance \in Nat
  /\ FirstDay \in Nat /\ LastDay \in Nat /\ FirstDay =< LastDay
  /\ MaxEntries \in Nat /\ MaxCalls \in Nat
  /\ NoConfig \notin Configs /\ Nothing \notin Int
  /\ \A d \in 0 .. LastDay :
       /\ d < MonthStart[LastMonth]
       /\ AddMonths(d, 1) < MonthStart[LastMonth]

\* entity is the object a call works on and saves, stored the row its save has
\* read, startedAt the `now` of ensureCurrentCycle, closed the cycles it has
\* closed, from the start of the window a history has found, then what the
\* dashboard's queries return; truths is history, see BreachShownIsReal, and so is
\* passed: the entries committed between the rows and the balance.
Idle ==
  [ op |-> Nothing, dto |-> Nothing, pc |-> "idle", entity |-> NoConfig,
    stored |-> NoConfig, startedAt |-> FirstDay, closed |-> 0, from |-> Nothing,
    at |-> FirstDay, rowsBreached |-> FALSE, balance |-> 0, truths |-> {},
    passed |-> 0 ]

Steps ==
  {"find", "close", "renew_read", "renew", "save_read", "save", "rows",
   "balance", "overrides", "list"}

\* A call here has found cycles that have ended and not saved that it has; a
\* call here is going to save an entity read before.
RollingOver == {"close", "renew_read", "renew"}

Unsaved == {"close", "renew_read", "save_read"}

\* straggler: an entry committed after the end of a cycle that holds its row was
\* closed; lost_flag: an override was triggered under a call about to save the
\* config as it was before, or after the end of a cycle nobody has rolled over or
\* of one an update is about to save, or by a debit that had seen the flag up when
\* it has gone down since; half_rolled: a call failed between
\* a closed cycle and its save; late_update: an update was saved after the end
\* of the cycle it found running or of the one it starts; ended_meanwhile: a
\* history saw the cycle it had found running end.
Slips == {"straggler", "lost_flag", "half_rolled", "late_update", "ended_meanwhile"}

\* The type invariant.
TypeOK ==
  /\ config \in Configs
  /\ balance \in Nat
  /\ ledger \in Seq(Rows) /\ Len(ledger) =< MaxEntries
  /\ overrides \in Seq(Overrides)
  /\ cycles \in Seq(Cycles)
  /\ now \in Days
  /\ pending # NoEntry => pending.row \in Rows /\ pending.seen \in Configs
  /\ call.pc \in Steps \union {"idle"}
  /\ call.pc # "idle" => call.entity \in Configs \union {NoConfig}
  /\ asked \in 0 .. MaxCalls
  /\ slips \subseteq Slips

\* What the customer has asked for, of the row.
Configured ==
  [col \in {"income", "protectedSum", "governanceMode", "frequency", "customDays",
            "rolloverPreference"} |-> config[col]]

\* What is missing of the buffer, and the entries charged to it so far.
Dawn ==
  [missing |-> BufferSpent(config), charged |-> {k \in DOMAIN ledger : ledger[k].drew}]

Init ==
  /\ \E s \in Setups : config = s.config /\ cycles = s.cycles
  /\ balance = OpeningBalance
  /\ ledger = <<>>
  /\ overrides = <<>>
  /\ now = FirstDay
  /\ pending = NoEntry
  /\ call = Idle
  /\ asked = 0
  /\ shown = Nothing
  /\ listed = Nothing
  /\ inForce = [d \in Days |-> IF d = FirstDay THEN Configured ELSE NoConfig]
  /\ atEnd = [d \in Days |-> Nothing]
  /\ restarts = 0
  /\ slips = {}

-----------------------------------------------------------------------------
(***************************************************************************)
(* The entries of the wallet                                               *)
(***************************************************************************)

\* The wallet's row is locked, the entry allowed, and its row dated.
Post(amount, debit) ==
  LET after == IF debit THEN balance - amount ELSE balance + amount IN
  /\ pending = NoEntry
  /\ Len(ledger) < MaxEntries
  /\ debit => /\ after >= 0
              /\ WithdrawalAllowed(config, CurrentBalance(config, ledger), after)
  /\ pending' =
       [row |-> [at |-> now, after |-> after, amount |-> amount, debit |-> debit,
                 drew |-> /\ debit /\ ~ config.isPaused
                          /\ DrawsOnBuffer(config, after)],
        seen |-> config]
  /\ UNCHANGED <<config, balance, ledger, overrides, cycles, now, call, asked,
                 shown, listed, inForce, atEnd, restarts, slips>>

SpentOn(date, rows) ==
  FoldSeq(LAMBDA row, sum :
            IF row.debit /\ row.at = date THEN sum + row.amount ELSE sum,
          0, rows)

\* A commit of the ledger `rows` in the middle of a dashboard changes what it
\* should show.
Noticed(rows) ==
  IF call.pc \in {"balance", "overrides"}
  THEN [call EXCEPT !.truths = @ \union
          {Breached(call.entity, CurrentBalance(call.entity, rows), rows,
                    RowsBetween(rows, WindowStart(call.entity), LastDay))},
        !.passed = IF call.pc = "balance" THEN @ + 1 ELSE @]
  ELSE call

\* recordTransaction polices the entry, and COMMIT.
Commit ==
  LET row   == pending.row
      seen  == Joined(pending.seen, [cycleDays |-> TotalDays(pending.seen)])
      rows  == Append(ledger, row)
      spent == SpentOn(now, rows)
      polices  == row.debit /\ ~ seen.isPaused
      triggers == polices /\ TriggersOverride(seen, row.after, spent)
  IN
  /\ pending # NoEntry
  /\ pending' = NoEntry
  /\ ledger' = rows
  /\ balance' = row.after
  /\ config' = IF polices
               THEN ConfigAfterDebit(config, seen, row.amount, row.after, spent)
               ELSE config
  /\ overrides' =
       IF triggers
       THEN Append(overrides, [at |-> now, type |-> OverrideType(seen, spent)])
       ELSE overrides
  /\ call' = Noticed(rows)
  /\ slips' = slips
       \union {s \in {"straggler"} : \E i \in DOMAIN cycles : row.at =< cycles[i].end}
       \union {s \in {"lost_flag"} :
                 triggers /\ \/ call.pc \in Unsaved
                             \/ config.expiresAt =< now
                             \/ call.pc = "save" /\ call.entity.expiresAt =< now
                             \/ seen.overrideActive /\ ~ config.overrideActive}
  /\ UNCHANGED <<cycles, now, asked, shown, listed, inForce, atEnd, restarts>>

-----------------------------------------------------------------------------
(***************************************************************************)
(* The calls.  Loop and Own say where a call goes next from the statement  *)
(* that has just returned.                                                 *)
(***************************************************************************)

Goto(step, l) == call' = [l EXCEPT !.pc = step]

Quiet == UNCHANGED <<balance, ledger, overrides, now, pending, asked, inForce,
                   atEnd>>

NotShown == UNCHANGED <<shown, listed>>

Ask(op, dto) ==
  /\ call.pc = "idle"
  /\ asked < MaxCalls
  /\ asked' = asked + 1
  /\ Goto("find", [Idle EXCEPT !.op = op, !.dto = dto])
  /\ shown' = Nothing /\ listed' = Nothing
  /\ UNCHANGED <<config, balance, ledger, overrides, cycles, now, pending, inForce,
                 atEnd, restarts, slips>>

\* A fresh window starts with a full buffer and the flag down.
RenewedFlagOnly(e) == [e EXCEPT !.overrideActive = FALSE]

Renewed(e) == [e EXCEPT !.overrideActive = FALSE, !.remainingBuffer = e.bufferAmount]

Merged(e, dto) ==
  [col \in DOMAIN e |-> IF col \in DOMAIN dto THEN dto[col] ELSE e[col]]

\* A new frequency starts the cycle over, today.
Restarts(dto) == "frequency" \in DOMAIN dto \/ "customDays" \in DOMAIN dto

\* Mutant: the flag goes down with every update.
UpdatedFlagDown(e, dto) ==
  LET merged == [Merged(e, dto) EXCEPT !.overrideActive = FALSE] IN
  [merged EXCEPT !.expiresAt =
     IF Restarts(dto)
     THEN ComputeExpiresAt(merged.frequency, now, merged.customDays) ELSE @]

Updated(e, dto) ==
  LET merged == Merged(e, dto) IN
  [merged EXCEPT
     !.expiresAt =
       IF Restarts(dto)
       THEN ComputeExpiresAt(merged.frequency, now, merged.customDays) ELSE @,
     !.remainingBuffer =
       IF "bufferAmount" \in DOMAIN dto THEN dto.bufferAmount ELSE @]

\* Mutant: a history is labelled with the window the row was in.
LabelAsFound(e) == WindowStart(config)

\* The running cycle of a history goes by the start of its window.
Label(e) == WindowStart(e)

\* getByAccountNumber has returned l.entity.
Own(l) ==
  \/ l.op = "dashboard" /\ Goto("rows", l)
  \/ /\ l.op = "history"
     /\ IF l.from = Nothing
        THEN Goto("find", [l EXCEPT !.from = Label(l.entity), !.closed = 0])
        ELSE Goto("rows", l)
  \/ /\ l.op = "update"
     /\ IF Merged(l.entity, l.dto).protectedSum =< Merged(l.entity, l.dto).income
        THEN Goto("save_read", [l EXCEPT !.entity = Updated(@, l.dto)])
        ELSE Goto("idle", Idle)

\* The bound on the iterations is that of SafiConfigService and out of reach here.
Rolling(l) == l.startedAt >= l.entity.expiresAt

\* Mutant: the row starts the new window before the old one is closed.
LoopRenewsFirst(l) ==
  \/ Rolling(l) /\ Goto("close", [l EXCEPT !.entity = Renewed(@)])
  \/ /\ ~ Rolling(l) /\ l.closed > 0
     /\ Goto("renew_read", [l EXCEPT !.entity = Renewed(@)])
  \/ ~ Rolling(l) /\ l.closed = 0 /\ Own(l)

\* The loop of ensureCurrentCycle, and what follows it.
Loop(l) ==
  \/ Rolling(l) /\ Goto("close", l)
  \/ /\ ~ Rolling(l) /\ l.closed > 0
     /\ Goto("renew_read", [l EXCEPT !.entity = Renewed(@)])
  \/ ~ Rolling(l) /\ l.closed = 0 /\ Own(l)

Find ==
  /\ call.pc = "find"
  /\ Loop([call EXCEPT !.entity = config, !.startedAt = now])
  /\ slips' = slips \union
       {s \in {"ended_meanwhile"} :
          /\ call.from # Nothing
          /\ call.startedAt < config.expiresAt /\ config.expiresAt =< now}
  /\ NotShown /\ Quiet /\ UNCHANGED <<config, cycles, restarts>>

\* Mutant: the next window starts on the day somebody looks.
NextWindowToday(e) ==
  [e EXCEPT !.expiresAt = ComputeExpiresAt(e.frequency, now, e.customDays)]

NextWindow(e) ==
  [e EXCEPT !.expiresAt = ComputeExpiresAt(e.frequency, @, e.customDays)]

\* closeCycle, and the entity moves to the next window.  What closeCycle reads
\* is dated up to the end of the window, so that only a straggler can come
\* between its queries: they are one step here.
CloseCycle ==
  LET e == call.entity IN
  /\ call.pc = "close"
  /\ \E p \in IF cycles = <<>> THEN {0} ELSE LatestCycles(cycles) :
       cycles' = Append(cycles,
         Joined(ClosedCycle(e, ledger, overrides, cycles, p),
                [seen |-> Len(ledger), first |-> call.closed = 0,
                 frequency |-> e.frequency, epoch |-> restarts]))
  /\ Loop([call EXCEPT !.entity = NextWindow(@), !.closed = @ + 1])
  /\ NotShown /\ Quiet /\ UNCHANGED <<config, restarts, slips>>

\* save(entity): the SELECT by id ...
SaveReads ==
  /\ call.pc \in {"renew_read", "save_read"}
  /\ Goto(IF call.pc = "renew_read" THEN "renew" ELSE "save",
          [call EXCEPT !.stored = config])
  /\ NotShown /\ Quiet /\ UNCHANGED <<config, cycles, restarts, slips>>

\* The columns of e that differ from `stored` replace those of c.
Differing(c, e, stored) ==
  [col \in DOMAIN c |-> IF e[col] # stored[col] THEN e[col] ELSE c[col]]

\* ... and the UPDATE, after the loop ...
SaveRenewed ==
  /\ call.pc = "renew"
  /\ config' = Differing(config, call.entity, call.stored)
  /\ Own(call)
  /\ NotShown /\ Quiet /\ UNCHANGED <<cycles, restarts, slips>>

\* ... or the update's own.
SaveOwn ==
  /\ call.pc = "save"
  /\ config' = Differing(config, call.entity, call.stored)
  /\ restarts' = IF Restarts(call.dto) THEN restarts + 1 ELSE restarts
  /\ slips' = slips \union
       {s \in {"late_update"} : config.expiresAt =< now \/ call.entity.expiresAt =< now}
  /\ Goto("idle", Idle)
  /\ NotShown /\ Quiet /\ UNCHANGED cycles

\* getDashboard's queries: the rows of the window ...
ReadRows ==
  LET rows == RowsBetween(ledger, WindowStart(call.entity), LastDay) IN
  /\ call.pc = "rows"
  /\ Goto("balance",
       [call EXCEPT !.at = now,
          !.rowsBreached =
            \E i \in rows : BreachesReserve(call.entity, ledger[i].after),
          !.truths = {Breached(call.entity, CurrentBalance(call.entity, ledger),
                               ledger, rows)}])
  /\ NotShown /\ Quiet /\ UNCHANGED <<config, cycles, restarts, slips>>

\* ... the balance (and the previous cycle, which nobody else touches) ...
ReadBalance ==
  /\ call.pc = "balance"
  /\ Goto("overrides", [call EXCEPT !.balance = CurrentBalance(call.entity, ledger)])
  /\ NotShown /\ Quiet /\ UNCHANGED <<config, cycles, restarts, slips>>

\* Mutant: what has been paid back was never missing.
FoundBreachedNow(l) == BreachesReserve(l.entity, l.balance)

FoundBreached(l) == BreachesReserve(l.entity, l.balance) \/ l.rowsBreached

\* ... the overrides; and its answer.
ReadOverrides ==
  LET e == call.entity
      count == Cardinality(OverridesBetween(overrides, WindowStart(e), LastDay))
  IN
  /\ call.pc = "overrides"
  /\ \E p \in IF cycles = <<>> THEN {0} ELSE LatestCycles(cycles) :
       shown' = Joined(
         Dashboard(e, call.at, call.balance, FoundBreached(call), count,
                   Allocation(e, cycles, p)),
         [on |-> call.at, seen |-> Len(ledger), truths |-> call.truths,
          passed |-> call.passed])
  /\ IF call.op = "history" THEN Goto("list", call) ELSE Goto("idle", Idle)
  /\ Quiet /\ UNCHANGED <<config, cycles, listed, restarts, slips>>

\* getHistory lists the completed cycles under the running one, whose label is
\* the start it found before it asked for the dashboard.
ListCycles ==
  /\ call.pc = "list"
  /\ listed' = [active |-> call.from,
                completed |-> {cycles[i].start : i \in DOMAIN cycles}]
  /\ Goto("idle", Idle)
  /\ Quiet /\ UNCHANGED <<config, cycles, shown, restarts, slips>>

-----------------------------------------------------------------------------
\* A statement of the call fails, or the process dies under it.  Where it has
\* nothing to save any more, nothing is left of it either way.
Fail ==
  /\ call.pc \in RollingOver \union {"save_read", "save"}
  /\ slips' = slips \union
       {s \in {"half_rolled"} : call.pc \in RollingOver}
  /\ Goto("idle", Idle)
  /\ NotShown /\ Quiet /\ UNCHANGED <<config, cycles, restarts>>

NextDay ==
  /\ now < LastDay
  /\ now' = now + 1
  /\ inForce' = [inForce EXCEPT ![now + 1] = Configured]
  /\ atEnd' = IF config.expiresAt = now + 1
              THEN [atEnd EXCEPT ![now + 1] = Dawn] ELSE atEnd
  /\ UNCHANGED <<config, balance, ledger, overrides, cycles, pending, call, asked,
                 shown, listed, restarts, slips>>

Next ==
  \/ \E amount \in Debits : Post(amount, TRUE)
  \/ \E amount \in Credits : Post(amount, FALSE)
  \/ Commit
  \/ \E op \in {"dashboard", "history"} : Ask(op, Nothing)
  \/ \E dto \in UpdateDtos : Ask("update", dto)
  \/ Find \/ CloseCycle \/ SaveReads \/ SaveRenewed \/ SaveOwn
  \/ ReadRows \/ ReadBalance \/ ReadOverrides \/ ListCycles
  \/ Fail
  \/ NextDay

Spec == Init /\ [][Next]_vars

-----------------------------------------------------------------------------
(***************************************************************************)
(* Properties                                                              *)
(***************************************************************************)

\* The row as it was when the day began on which the window of the closed cycle c
\* ended; of the buffer, what c says was missing.
InForceAt(c) ==
  Joined([expiresAt |-> c.end, bufferAmount |-> c.bufferUsed, remainingBuffer |-> 0],
         Joined(inForce[c.end], config))

\* A cycle is closed with the amounts, the outcome and the score it ended with,
\* however late somebody looks and whatever was entered or configured since: every
\* column closeCycle stores is what the config in force at the end and the rows
\* dated up to the end say, the score with what is stored of the buffer, which
\* BufferUsedExplained is about.  A row that commits behind the closing, and an
\* update that is saved after midnight has ended a cycle under it, are the
\* exceptions.
ScoredAsItEnded ==
  slips \intersect {"straggler", "late_update"} = {} =>
    \A i \in DOMAIN cycles :
      LET c == cycles[i] IN
      c.epoch >= 0 /\ c.end \in Days /\ inForce[c.end] # NoConfig =>
        \E p \in IF i = 1 THEN {0} ELSE LatestCycles(SubSeq(cycles, 1, i - 1)) :
          LET should == ClosedCycle(InForceAt(c), ledger, overrides, cycles, p)
          IN \A col \in DOMAIN should : c[col] = should[col]

\* What a closed cycle says was used of the buffer is what was missing of it when
\* the cycle ended, unless a debit charged to the buffer has committed between the
\* end and the look that closes the cycle (it is charged to the old cycle); and the
\* cycles that one look closes together all say the same.  A window that was not
\* on the row yet at the midnight that ended it, because the rollover to it was
\* still under way, and an update saved after the end of a cycle, are the
\* exceptions.
BufferUsedExplained ==
  \A i \in DOMAIN cycles :
    LET c == cycles[i] IN
    c.epoch >= 0 =>
      /\ ~ c.first => i > 1 /\ c.bufferUsed = cycles[i - 1].bufferUsed
      /\ ( /\ c.first /\ c.end \in Days /\ atEnd[c.end] # Nothing
           /\ "late_update" \notin slips ) =>
         \/ c.bufferUsed = atEnd[c.end].missing
         \/ \E k \in 1 .. c.seen : ledger[k].drew /\ k \notin atEnd[c.end].charged

\* No day is in two closed cycles, unless a call failed half-way; and the days
\* between two closed cycles are those before a restart, or those a month too
\* short for the day of the month has pushed the window over.
WindowsInOrder ==
  "half_rolled" \notin slips =>
    \A i, j \in DOMAIN cycles :
      /\ i < j => cycles[i].end =< cycles[j].start
      /\ ( /\ j = i + 1 /\ cycles[i].epoch = cycles[j].epoch
           /\ cycles[j].frequency # "monthly" ) => cycles[i].end = cycles[j].start

\* A draw on the buffer lowers the score of one cycle: a cycle is charged for
\* the buffer only if some draw came after the cycle before it, or if it is one
\* of several that one late look has closed together.
BufferPenaltyOnce ==
  slips \intersect {"straggler", "half_rolled"} = {} =>
    \A i \in DOMAIN cycles :
      ( cycles[i].epoch >= 0 /\ cycles[i].bufferUsed > 0 /\ cycles[i].first ) =>
        \E k \in 1 .. cycles[i].seen :
          ledger[k].drew /\ (i > 1 => ledger[k].at >= cycles[i - 1].end)

\* An override of the running cycle is flagged on the row, and so heads the
\* dashboard, until the cycle ends: neither an update nor a restart takes the
\* flag down.  What does is the save of an entity read before it was triggered,
\* the rollover when the override came after the end of the cycle, or of the one
\* an update was about to start, and the debit that had seen the flag up before.
OverridesStayFlagged ==
  ( /\ "lost_flag" \notin slips
    /\ \E i \in DOMAIN overrides : overrides[i].at > WindowStart(config) )
  => config.overrideActive

\* The reserve is shown breached, or untouched, only if it was so at some moment
\* of the call, although the dashboard reads the rows before the balance.  What
\* can pass it by, of an account in the reserve since before the window, is an
\* entry that leaves it there and one that takes it out, both in between.
BreachShownIsReal ==
  shown # Nothing =>
    \/ shown.breached \in shown.truths
    \/ ~ shown.breached /\ shown.passed > 1

\* A history does not list the running cycle among the completed ones, unless
\* that cycle ended between the two times it looked.
RunningCycleListedOnce ==
  ( listed # Nothing /\ "ended_meanwhile" \notin slips )
  => listed.active \notin listed.completed

-----------------------------------------------------------------------------
(***************************************************************************)
(* What the guide says                                                     *)
(***************************************************************************)

\* "You have ... / day safe to spend", and strict mode "Enforces daily
\* safe-spend limits": who has spent nothing today before looking at the
\* dashboard, and spends no more than it says is safe, is not over the limit.
SafeToSpendIsSafe ==
  [][ ( /\ shown # Nothing /\ shown.on = now
        /\ Len(overrides') > Len(overrides)
        /\ Last(overrides').type = "limit_breach"
        /\ \A k \in 1 .. shown.seen : ledger[k].at < now
        /\ restarts = 0 )
      => SpentOn(now, ledger') > shown.safeDaily ]_vars

=============================================================================
