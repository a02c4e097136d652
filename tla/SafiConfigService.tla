------------------------- MODULE SafiConfigService -------------------------
(***************************************************************************)
(* Everything that writes one account's row of safi_configs: the calls of  *)
(* SafiService (create, get, update, deactivate, pause, resume, manual     *)
(* override), the lazy rollover they all go through, and the entries of    *)
(* the wallet, whose recordTransaction charges the buffer.                 *)
(*                                                                         *)
(* The calls run outside transactions: each reads the row, works on the    *)
(* entity it got, and saves it later.  TypeORM's save is a SELECT by id    *)
(* followed by an UPDATE of the columns in which the entity differs from   *)
(* what that SELECT returned, or by an INSERT when it returned nothing.    *)
(* Nothing compares versions.                                              *)
(*                                                                         *)
(* Accounts do not interact here, so there is one.  Time is in days.       *)
(***************************************************************************)
EXTENDS SafiGovernance, FiniteSets

CONSTANTS
  Calls,           \* API calls on the config
  Entries,         \* API calls on the wallet
  Initial,         \* the id of the row there is at the start
  NoConfig,        \* there is no row
  NoRequest,       \* nobody holds the wallet's row lock
  InitialRows,     \* rows the system may start from (NoConfig among them)
  CreateDtos,      \* what a create may ask for
  UpdateDtos,      \* what an update may ask for: any of the fields of a create
  Amounts,         \* what an entry may move
  OpeningBalance,  \* the wallet's balance at the start
  MaxPauses,       \* 3 in the code
  WatchdogDays,    \* 14 in the code
  MaxRollovers,    \* MAX_ROLLOVER_ITERATIONS, 1000 in the code
  MaxNow           \* bound: the clock stops at MaxNow

VARIABLES
  row,        \* the account's row of safi_configs
  balance,    \* wallets.balance
  latest,     \* balanceAfter of the latest row of safi_transactions, or NoRow
  overrides,  \* who inserted into safi_overrides
  cycles,     \* the rows of safi_cycles
  now,        \* the date
  walletLock, \* the entry whose transaction holds the wallet's row lock
  pc,         \* where each request is
  req,        \* what it asks for
  loc,        \* its local variables
  overtaken,  \* history: requests in flight that have read the row and seen
              \* somebody else change it since
  staleSave,  \* history: such a request has saved
  unrecorded  \* history: an entry has found no config to be recorded under

ledger == <<balance, latest, walletLock>>
history == <<overtaken, staleSave, unrecorded>>
vars == <<row, ledger, overrides, cycles, now, pc, req, loc, history>>

-----------------------------------------------------------------------------
Requests == Calls \union Entries

NoRow == -1
NoPause == -1

CallOps ==
  {"create", "get", "update", "deactivate", "pause", "resume", "override"}

Ids == Calls \union {Initial}

Days == 0 .. MaxNow

\* A row of safi_configs; see SafiGovernance for the columns left out.
Rows ==
  [ id                 : Ids,
    income             : Nat,
    protectedSum       : Nat,
    baselineBalance    : Nat,
    governanceMode     : GovernanceModes,
    cycleDays          : Nat \ {0},
    expiresAt          : Nat,
    cardBehaviour      : CardBehaviours,
    bufferAmount       : Nat,
    remainingBuffer    : Nat,
    isPaused           : BOOLEAN,
    pauseCountThisYear : 0 .. MaxPauses,
    pauseStartedAt     : Days \union {NoPause},
    overrideActive     : BOOLEAN ]

\* A row as `create` or `pause` left it before the system started: in a window
\* that has begun.
ASSUME InitialRowsAssumption ==
  \A c \in InitialRows \ {NoConfig} :
    /\ c \in Rows
    /\ c.id = Initial
    /\ IsFresh(c, OpeningBalance)
    /\ c.isPaused => c.pauseStartedAt # NoPause
    /\ c.expiresAt =< c.cycleDays

\* What a DTO may give; a create gives all of it.
Dtos ==
  [ income : Nat, protectedSum : Nat, governanceMode : GovernanceModes,
    cycleDays : Nat \ {0}, cardBehaviour : CardBehaviours, bufferAmount : Nat ]

ASSUME DtosAssumption ==
  /\ CreateDtos \subseteq Dtos
  /\ \A dto \in UpdateDtos :
       /\ DOMAIN dto \subseteq
            { "income", "protectedSum", "governanceMode", "cycleDays",
              "cardBehaviour", "bufferAmount" }
       /\ "income" \in DOMAIN dto => dto.income \in Nat
       /\ "protectedSum" \in DOMAIN dto => dto.protectedSum \in Nat
       /\ "governanceMode" \in DOMAIN dto => dto.governanceMode \in GovernanceModes
       /\ "cycleDays" \in DOMAIN dto => dto.cycleDays \in Nat \ {0}
       /\ "cardBehaviour" \in DOMAIN dto => dto.cardBehaviour \in CardBehaviours
       /\ "bufferAmount" \in DOMAIN dto => dto.bufferAmount \in Nat

ASSUME ConstantsAssumption ==
  /\ Calls \intersect Entries = {} /\ Initial \notin Calls
  /\ NoConfig \notin Rows /\ NoRequest \notin Entries
  /\ Amounts \subseteq Nat /\ OpeningBalance \in Nat
  /\ MaxPauses \in Nat /\ MaxNow \in Nat
  /\ WatchdogDays \in Nat \ {0} /\ MaxRollovers \in Nat

\* entity is the object a call works on and saves, stored the row its save
\* has read, stage which save that is, startedAt the `now` of
\* ensureCurrentCycle, closed the cycles it has closed.
EmptyLoc ==
  [ entity |-> NoConfig, stored |-> NoConfig, stage |-> "none",
    startedAt |-> 0, closed |-> 0 ]

Locals ==
  [ entity    : Rows \union {NoConfig},
    stored    : Rows \union {NoConfig},
    stage     : {"none", "watchdog", "rollover", "own"},
    startedAt : Days,
    closed    : 0 .. MaxRollovers ]

CallRequests ==
  [op : {"create"}, dto : CreateDtos] \union [op : {"update"}, dto : UpdateDtos]
    \union [op : CallOps \ {"create", "update"}, dto : {NoRequest}]

EntryRequests == [op : {"credit", "debit"}, amount : Amounts]

InFlight ==
  {"find", "wallet", "insert", "delete", "close", "override", "read", "write",
   "lock", "record", "commit"}

Answered == {"done", "declined", "failed"}

\* A request here is going to save what it has read from the row.
HasRead == {"close", "override", "read", "write", "commit"}

\* The type invariant.
TypeOK ==
  /\ row \in Rows \union {NoConfig}
  /\ balance \in Nat
  /\ latest \in Nat \union {NoRow}
  /\ overrides \subseteq Requests
  /\ cycles \subseteq [by : Calls, id : Ids, start : Int, end : Days]
  /\ now \in Days
  /\ walletLock \in Entries \union {NoRequest}
  /\ pc \in [Requests -> {"idle"} \union InFlight \union Answered]
  /\ \A r \in Requests :
       pc[r] # "idle" => req[r] \in IF r \in Calls THEN CallRequests
                                                  ELSE EntryRequests
  /\ loc \in [Requests -> Locals]
  /\ overtaken \subseteq Requests
  /\ {staleSave, unrecorded} \subseteq BOOLEAN

Init ==
  /\ row \in InitialRows
  /\ balance = OpeningBalance
  /\ latest = NoRow
  /\ overrides = {}
  /\ cycles = {}
  /\ now = 0
  /\ walletLock = NoRequest
  /\ pc = [r \in Requests |-> "idle"]
  /\ req = [r \in Requests |-> NoRequest]
  /\ loc = [r \in Requests |-> EmptyLoc]
  /\ overtaken = {}
  /\ staleSave = FALSE
  /\ unrecorded = FALSE

-----------------------------------------------------------------------------
(***************************************************************************)
(* Helpers                                                                 *)
(***************************************************************************)

\* Request r moves on to label with the local variables l.
Goto(r, label, l) ==
  /\ pc' = [pc EXCEPT ![r] = label]
  /\ loc' = [loc EXCEPT ![r] = l]

Answer(r, answer) == Goto(r, answer, loc[r])

\* Request r leaves `new` in the table.
Write(r, new) ==
  /\ row' = new
  /\ overtaken' =
       IF new = row THEN overtaken
       ELSE overtaken \union {q \in Requests \ {r} : pc[q] \in HasRead}
  /\ staleSave' = (staleSave \/ r \in overtaken)

NotWritten == UNCHANGED <<row, overtaken, staleSave>>

WithinIncome(c) == c.protectedSum =< c.income

\* The fields a DTO gives replace those of entity e.
Merged(e, dto) ==
  [col \in DOMAIN e |-> IF col \in DOMAIN dto THEN dto[col] ELSE e[col]]

\* What `update` makes of entity e: a new frequency restarts the cycle, a new
\* buffer is a full one.
Updated(e, dto) ==
  [Merged(e, dto) EXCEPT
     !.expiresAt = IF "cycleDays" \in DOMAIN dto THEN now + dto.cycleDays ELSE @,
     !.remainingBuffer =
       IF "bufferAmount" \in DOMAIN dto THEN dto.bufferAmount ELSE @]

\* What `create` saves for call r, over a wallet holding n.
Created(r, dto, n) ==
  [ id                 |-> r,
    income             |-> dto.income,
    protectedSum       |-> dto.protectedSum,
    baselineBalance    |-> n,
    governanceMode     |-> dto.governanceMode,
    cycleDays          |-> dto.cycleDays,
    expiresAt          |-> now + dto.cycleDays,
    cardBehaviour      |-> dto.cardBehaviour,
    bufferAmount       |-> dto.bufferAmount,
    remainingBuffer    |-> dto.bufferAmount,
    isPaused           |-> FALSE,
    pauseCountThisYear |-> 0,
    pauseStartedAt     |-> NoPause,
    overrideActive     |-> FALSE ]

\* Mutant: the fourth pause is let through.
MayPauseOnce(e) == e.pauseCountThisYear =< MaxPauses

MayPause(e) == e.pauseCountThisYear < MaxPauses

\* Mutant: the pause is not counted.
PausedUncounted(e) == [e EXCEPT !.isPaused = TRUE, !.pauseStartedAt = now]

\* Mutant: the pause is not dated.
PausedUndated(e) == [e EXCEPT !.isPaused = TRUE, !.pauseCountThisYear = @ + 1]

Paused(e) ==
  [e EXCEPT !.isPaused = TRUE, !.pauseStartedAt = now,
            !.pauseCountThisYear = @ + 1]

\* Mutant: protection comes back with a full buffer.
ResumedAfresh(e) ==
  [e EXCEPT !.isPaused = FALSE, !.pauseStartedAt = NoPause,
            !.remainingBuffer = e.bufferAmount]

Resumed(e) == [e EXCEPT !.isPaused = FALSE, !.pauseStartedAt = NoPause]

\* The first save of ensureCurrentCycle, and the one after its loop.
WatchdogDue(e) ==
  /\ e.isPaused
  /\ e.pauseStartedAt # NoPause
  /\ now - e.pauseStartedAt >= WatchdogDays

Renewed(e) ==
  [e EXCEPT !.remainingBuffer = e.bufferAmount, !.overrideActive = FALSE]

\* Mutant: a cycle is still current on the day it expires.
RollingAfterExpiry(l) == l.startedAt > l.entity.expiresAt /\ l.closed < MaxRollovers

\* The loop of ensureCurrentCycle goes on.
Rolling(l) == l.startedAt >= l.entity.expiresAt /\ l.closed < MaxRollovers

-----------------------------------------------------------------------------
(***************************************************************************)
(* The calls on the config.  Own, Loop and SaveEntity say where a call     *)
(* goes next from the statement that has just returned.                    *)
(***************************************************************************)

SaveEntity(r, l, e, stage) ==
  Goto(r, "read", [l EXCEPT !.entity = e, !.stage = stage])

\* getByAccountNumber has returned l.entity: the operation's own part.
Own(r, l) ==
  LET e == l.entity IN
  \/ req[r].op = "get" /\ Goto(r, "done", l)
  \/ /\ req[r].op = "update"
     /\ IF WithinIncome(Merged(e, req[r].dto))
        THEN SaveEntity(r, l, Updated(e, req[r].dto), "own")
        ELSE Goto(r, "declined", l)
  \/ /\ req[r].op = "pause"
     /\ IF MayPause(e) THEN SaveEntity(r, l, Paused(e), "own")
                       ELSE Goto(r, "declined", l)
  \/ req[r].op = "resume" /\ SaveEntity(r, l, Resumed(e), "own")
  \/ /\ req[r].op = "override"
     /\ Goto(r, "override", [l EXCEPT !.entity.overrideActive = TRUE])

\* Mutant: the entity is not saved after the loop.
LoopUnsaved(r, l) ==
  \/ Rolling(l) /\ Goto(r, "close", l)
  \/ ~ Rolling(l) /\ Own(r, [l EXCEPT !.entity = Renewed(@)])

\* The loop of ensureCurrentCycle, and what follows it.
Loop(r, l) ==
  \/ Rolling(l) /\ Goto(r, "close", l)
  \/ /\ ~ Rolling(l) /\ l.closed > 0
     /\ SaveEntity(r, l, Renewed(l.entity), "rollover")
  \/ ~ Rolling(l) /\ l.closed = 0 /\ Own(r, l)

Submit(r) ==
  /\ pc[r] = "idle"
  /\ \E c \in CallRequests : req' = [req EXCEPT ![r] = c]
  /\ Answer(r, "find")
  /\ NotWritten /\ UNCHANGED <<ledger, overrides, cycles, now, unrecorded>>

\* findByAccountNumber finds no row: 404, except for a create.
FindNothing(r) ==
  /\ pc[r] = "find"
  /\ row = NoConfig
  /\ Answer(r, IF req[r].op = "create" THEN "wallet" ELSE "declined")
  /\ NotWritten /\ UNCHANGED <<ledger, overrides, cycles, now, req, unrecorded>>

\* It finds one: 409 for a create; deactivate goes on to delete it, the others
\* have it brought up to date.
Find(r) ==
  LET l == [loc[r] EXCEPT !.entity = row, !.startedAt = now] IN
  /\ pc[r] = "find"
  /\ row # NoConfig
  /\ CASE req[r].op = "create" -> Answer(r, "declined")
       [] req[r].op = "deactivate" -> Answer(r, "delete")
       [] OTHER -> IF WatchdogDue(row)
                   THEN SaveEntity(r, l, Resumed(row), "watchdog")
                   ELSE Loop(r, l)
  /\ NotWritten /\ UNCHANGED <<ledger, overrides, cycles, now, req, unrecorded>>

\* create reads the wallet's balance.
ReadWallet(r) ==
  /\ pc[r] = "wallet"
  /\ IF WithinIncome(req[r].dto)
     THEN Goto(r, "insert",
               [loc[r] EXCEPT !.entity = Created(r, req[r].dto, balance)])
     ELSE Answer(r, "declined")
  /\ NotWritten /\ UNCHANGED <<ledger, overrides, cycles, now, req, unrecorded>>

\* Its INSERT; accountNumber is unique.
Insert(r) ==
  /\ pc[r] = "insert"
  /\ IF row = NoConfig
     THEN Write(r, loc[r].entity) /\ Answer(r, "done")
     ELSE NotWritten /\ Answer(r, "failed")
  /\ UNCHANGED <<ledger, overrides, cycles, now, req, unrecorded>>

\* Mutant: the entity that has been removed is saved again.
DeleteAndSave(r) ==
  /\ pc[r] = "delete"
  /\ Write(r, NoConfig)
  /\ IF row = NoConfig THEN Answer(r, "done") ELSE SaveEntity(r, loc[r], row, "own")
  /\ UNCHANGED <<ledger, overrides, cycles, now, req, unrecorded>>

\* deactivate's DELETE by account number.
Delete(r) ==
  /\ pc[r] = "delete"
  /\ Write(r, NoConfig)
  /\ Answer(r, "done")
  /\ UNCHANGED <<ledger, overrides, cycles, now, req, unrecorded>>

\* closeCycle, and the entity moves to the next window.
CloseCycle(r) ==
  LET e == loc[r].entity IN
  /\ pc[r] = "close"
  /\ cycles' = cycles \union
       {[by |-> r, id |-> e.id, start |-> e.expiresAt - e.cycleDays,
         end |-> e.expiresAt]}
  /\ Loop(r, [loc[r] EXCEPT !.entity.expiresAt = @ + e.cycleDays, !.closed = @ + 1])
  /\ NotWritten /\ UNCHANGED <<ledger, overrides, now, req, unrecorded>>

\* Mutant: the insertion fails and the failure is swallowed.
InsertOverrideSwallowed(r) ==
  /\ pc[r] = "override"
  /\ SaveEntity(r, loc[r], loc[r].entity, "own")
  /\ NotWritten /\ UNCHANGED <<ledger, overrides, cycles, now, req, unrecorded>>

\* manualOverride inserts its override.
InsertOverride(r) ==
  /\ pc[r] = "override"
  /\ overrides' = overrides \union {r}
  /\ SaveEntity(r, loc[r], loc[r].entity, "own")
  /\ NotWritten /\ UNCHANGED <<ledger, cycles, now, req, unrecorded>>

\* save(entity): the SELECT by id ...
SaveReads(r) ==
  LET l == loc[r]
      found == row # NoConfig /\ row.id = l.entity.id
  IN
  /\ pc[r] = "read"
  /\ Goto(r, "write", [l EXCEPT !.stored = IF found THEN row ELSE NoConfig])
  /\ NotWritten /\ UNCHANGED <<ledger, overrides, cycles, now, req, unrecorded>>

\* The columns of e that differ from `stored` replace those of c.
Differing(c, e, stored) ==
  [col \in DOMAIN c |-> IF e[col] # stored[col] THEN e[col] ELSE c[col]]

AfterSave(r, l) ==
  \/ l.stage = "watchdog" /\ Loop(r, l)
  \/ l.stage = "rollover" /\ Own(r, l)
  \/ l.stage = "own" /\ Goto(r, "done", l)

\* ... then an INSERT if it found nothing ...
SaveInserts(r) ==
  LET l == loc[r] IN
  /\ pc[r] = "write"
  /\ l.stored = NoConfig
  /\ IF row = NoConfig
     THEN Write(r, l.entity) /\ AfterSave(r, l)
     ELSE NotWritten /\ Answer(r, "failed")
  /\ UNCHANGED <<ledger, overrides, cycles, now, req, unrecorded>>

\* ... or an UPDATE, which does nothing when the row has gone meanwhile.
SaveUpdates(r) ==
  LET l == loc[r] IN
  /\ pc[r] = "write"
  /\ l.stored # NoConfig
  /\ Write(r, IF row # NoConfig /\ row.id = l.entity.id
              THEN Differing(row, l.entity, l.stored)
              ELSE row)
  /\ AfterSave(r, l)
  /\ UNCHANGED <<ledger, overrides, cycles, now, req, unrecorded>>

-----------------------------------------------------------------------------
(***************************************************************************)
(* The entries of the wallet, as far as the row sees them: WalletService   *)
(* has the whole path.  The limit of a strict day raises the same flag as  *)
(* an auto cover and is left to WalletService.                             *)
(***************************************************************************)

CurrentBalance == IF latest = NoRow THEN row.baselineBalance ELSE latest

BalanceAfter(e) ==
  IF req[e].op = "credit" THEN balance + req[e].amount ELSE balance - req[e].amount

SubmitEntry(e) ==
  /\ pc[e] = "idle"
  /\ \E c \in EntryRequests : req' = [req EXCEPT ![e] = c]
  /\ Answer(e, "lock")
  /\ NotWritten /\ UNCHANGED <<ledger, overrides, cycles, now, unrecorded>>

\* The wallet's row is locked and the entry allowed, or not.
Enter(e) ==
  LET allowed ==
        req[e].op = "debit" =>
          /\ BalanceAfter(e) >= 0
          /\ row # NoConfig =>
               WithdrawalAllowed(row, CurrentBalance, BalanceAfter(e))
  IN
  /\ pc[e] = "lock"
  /\ walletLock = NoRequest
  /\ IF allowed THEN walletLock' = e /\ Answer(e, "record")
                ELSE UNCHANGED walletLock /\ Answer(e, "declined")
  /\ NotWritten /\ UNCHANGED <<balance, latest, overrides, cycles, now, req, unrecorded>>

\* The snapshot recordTransaction reads the row from.
Snapshot(e) ==
  /\ pc[e] = "record"
  /\ Goto(e, "commit", [loc[e] EXCEPT !.entity = row])
  /\ NotWritten /\ UNCHANGED <<ledger, overrides, cycles, now, req, unrecorded>>

\* Mutant: the entries of a paused account are not recorded.
RecordsUnpaused(e) == loc[e].entity # NoConfig /\ ~ loc[e].entity.isPaused

Records(e) == loc[e].entity # NoConfig

Polices(e) ==
  Records(e) /\ ~ loc[e].entity.isPaused /\ req[e].op = "debit"

\* recordTransaction and COMMIT.  Its save, like the others, updates columns
\* of the row it has read, if that row is still there.
CommitEntry(e) ==
  LET seen == loc[e].entity
      after == BalanceAfter(e)
  IN
  /\ pc[e] = "commit"
  /\ balance' = after
  /\ latest' = IF Records(e) THEN after ELSE latest
  /\ walletLock' = NoRequest
  /\ unrecorded' = (unrecorded \/ seen = NoConfig)
  /\ IF Polices(e)
     THEN Write(e, IF row # NoConfig /\ row.id = seen.id
                   THEN ConfigAfterDebit(row, seen, req[e].amount, after, 0)
                   ELSE row)
     ELSE NotWritten
  /\ overrides' = IF Polices(e) /\ TriggersOverride(seen, after, 0)
                  THEN overrides \union {e} ELSE overrides
  /\ Answer(e, "done")
  /\ UNCHANGED <<cycles, now, req>>

-----------------------------------------------------------------------------
\* The process dies.
Crash ==
  /\ \E r \in Requests : pc[r] \in InFlight
  /\ pc' = [r \in Requests |-> IF pc[r] \in InFlight THEN "failed" ELSE pc[r]]
  /\ walletLock' = NoRequest
  /\ NotWritten
  /\ UNCHANGED <<balance, latest, overrides, cycles, now, req, loc, unrecorded>>

NextDay ==
  /\ now < MaxNow
  /\ now' = now + 1
  /\ NotWritten /\ UNCHANGED <<ledger, overrides, cycles, pc, req, loc, unrecorded>>

Terminating ==
  /\ \A r \in Requests : pc[r] \in Answered
  /\ UNCHANGED vars

Serve(r) ==
  \/ FindNothing(r) \/ Find(r)
  \/ ReadWallet(r) \/ Insert(r)
  \/ Delete(r)
  \/ CloseCycle(r)
  \/ InsertOverride(r)
  \/ SaveReads(r) \/ SaveInserts(r) \/ SaveUpdates(r)

ServeEntry(e) == Enter(e) \/ Snapshot(e) \/ CommitEntry(e)

Next ==
  \/ \E r \in Calls : Submit(r) \/ Serve(r)
  \/ \E e \in Entries : SubmitEntry(e) \/ ServeEntry(e)
  \/ Crash
  \/ NextDay
  \/ Terminating

Spec == Init /\ [][Next]_vars

-----------------------------------------------------------------------------
(***************************************************************************)
(* Properties.  Several hold only as long as no request has saved a row    *)
(* that somebody else changed after it was read, and name that condition:  *)
(* staleSave is the one thing that breaks them.                            *)
(***************************************************************************)

\* The spent part of a buffer comes back only with a new cycle or a new
\* buffer, or by a stale save: neither pause, resume, override and the
\* watchdog nor the order of an entry's steps give it back.
BufferRefilledForCause ==
  [][ ( /\ row # NoConfig /\ row' # NoConfig /\ row'.id = row.id
        /\ row'.remainingBuffer > row.remainingBuffer )
      => \/ staleSave'
         \/ \E r \in Calls :
              /\ pc[r] = "write" /\ pc'[r] # "write"
              /\ \/ loc[r].stage # "watchdog" /\ loc[r].closed > 0
                 \/ /\ loc[r].stage = "own" /\ req[r].op = "update"
                    /\ "bufferAmount" \in DOMAIN req[r].dto ]_vars

GrantedPauses(i) ==
  {r \in Calls : /\ pc[r] = "done" /\ req[r].op = "pause"
                 /\ loc[r].entity.id = i}

\* A config is paused at most MaxPauses times, whatever crashes and calls come
\* in between, unless a stale save resets or misses a count.
PausesLimitedUnlessStale ==
  staleSave \/ \A i \in Ids : Cardinality(GrantedPauses(i)) =< MaxPauses

\* Two finished calls do not close windows that overlap (a stale save aside,
\* which may set expiresAt back): no day of a customer is scored twice.  A call
\* that dies between closeCycle and its save leaves a window to be closed again.
WindowsClosedOnce ==
  \A c, d \in cycles :
    ( /\ c.by # d.by /\ c.id = d.id
      /\ c.start < d.end /\ d.start < c.end
      /\ pc[c.by] = "done" /\ pc[d.by] = "done" ) => staleSave

\* Whoever is shown a config is shown the current cycle, and protection that is
\* back on when a pause with a date has lasted WatchdogDays, however long nobody
\* looked (NoEndlessPause has the pauses without).
AnswersAreCurrent ==
  \A r \in Calls :
    ( pc[r] = "done" /\ req[r].op \notin {"create", "deactivate"} ) =>
      LET l == loc[r] IN
      /\ l.entity.expiresAt > l.startedAt \/ l.closed = MaxRollovers
      /\ l.entity.isPaused /\ l.entity.pauseStartedAt # NoPause =>
           l.startedAt - l.entity.pauseStartedAt < WatchdogDays

\* A row whose override flag is up has an override behind it, also when
\* manualOverride dies half-way.
OverrideFlagExplained ==
  row # NoConfig /\ row.overrideActive => overrides # {}

\* Safi's balance is the wallet's, through pauses, updates, rollovers, and also
\* when the account is deactivated and enrolled again with the rows of its last
\* enrolment still there: only an entry made without a config, or before the
\* INSERT of the new one, parts them.
MirrorUnlessUnrecorded ==
  row # NoConfig /\ ~ unrecorded => CurrentBalance = balance

\* A protection that is off has the date from which the watchdog counts, so
\* that no pause is for ever; only a stale save can take the date alone away.
NoEndlessPause ==
  ( row # NoConfig /\ row.isPaused /\ row.pauseStartedAt = NoPause ) => staleSave

\* Deactivated is deactivated: a row comes back by a create, or by a call that
\* had read it before the DELETE and now saves it.
RowsReturnByCreate ==
  [][ row = NoConfig /\ row' # NoConfig =>
        staleSave' \/ \E r \in Calls : pc[r] = "insert" /\ row'.id = r ]_vars

-----------------------------------------------------------------------------
(***************************************************************************)
(* What the guide says without that condition                              *)
(***************************************************************************)

\* "SAFI allows it and reduces the cushion": a draw on the buffer stands until
\* the cycle or the buffer is renewed.
BufferDrawsStand ==
  [][ ( /\ row # NoConfig /\ row' # NoConfig /\ row'.id = row.id
        /\ row'.remainingBuffer > row.remainingBuffer )
      => \E r \in Calls :
           /\ pc[r] = "write" /\ pc'[r] # "write"
           /\ \/ loc[r].closed > 0
              \/ req[r].op = "update" ]_vars

=============================================================================
