# Safi mobile backend: a TLA+ verification project

The repository is the backend of a mobile bank (NestJS, TypeORM, MySQL) with
Safi built in: a governance layer that keeps a part of a customer's income, the
*protected sum* or reserve, out of reach of day-to-day debits. This directory
models the code paths that move money and decide about it, checks them with
TLC on small instances, and proves the central facts with TLAPS for every
number of wallets, calls and amounts.

Source paths below are relative to the repository root. `safi.service.ts` is
`src/modules/safi/safi.service.ts`, `wallet.service.ts` is
`src/modules/core-banking/wallet/wallet.service.ts`, the *guide* is
`docs/BANK_INTEGRATION_AND_CONFIGURABLE_CONTROLS.md`.

## 1. Inventory

| Component | State | Operations |
|---|---|---|
| Wallet service | `wallets` (balance), `transactions` | `createForUser`, `fund`, `withdraw`, `transfer`, `resolveAccount`, listings |
| Safi, money path | `safi_transactions` (Safi's own ledger), `safi_overrides`, columns of `safi_configs` | `assertWithdrawalAllowed`, `recordTransaction` |
| Safi, config lifecycle | `safi_configs` | `create`, `getByAccountNumber`, `update`, `deactivate`, `pause`, `resume`, `manualOverride` |
| Safi, cycles | `safi_cycles`, `safi_configs.expiresAt`, `remainingBuffer`, `overrideActive` | `ensureCurrentCycle`, `closeCycle`, `getCycleWindow`, `computeExpiresAt` |
| Safi, what a customer sees | none | `getDashboard`, `getHistory`, `getProjection` |
| Safi, admin reports | none | admin dashboard, transactions, deployments, analytics, compliance |
| Safi, admin controls | `safi_rules`, `safi_controls`, `safi_audit_logs` | seeding at start-up, `createAdminRule`, `updateAdminRule`, `deleteAdminRule`, `updateAdminControls`, listings |
| Safi, admin settings | the file `safi-admin-settings.json` | `readSettings`, `writeSettings`, `updateAdminComplianceWebhook` |
| Authentication | `core_banking_users`, through the user service | `register`, `login`, `forgotPassword`, `resetPassword`, `getProfile` |
| Mail | its transport, chosen at start-up | `sendPasswordResetEmail`, `sendPasswordResetSuccessEmail` |
| Admin authentication | none | a stub |
| HTTP layer | none | controllers, DTO validation, filters, interceptors, health |
| Database pool | mysql2's connections | used by everything above |

**How they interact.** Each call is an async function in one Node process, and
calls interleave at every `await`. `fund`, `withdraw` and `transfer` each run in
one database transaction; in it they call Safi twice. `assertWithdrawalAllowed`,
before a debit, reads through `SafiService`'s own repositories, that is on
*another* connection and outside the transaction. `recordTransaction`, after it,
is given the transaction's `EntityManager` and reads, inserts and saves inside
it, except for `getDbOffset`, which again takes another connection. The
lifecycle and cycle operations use no transaction at all: they read a row, and
later save the entity. Two tables hold a customer's balance: `wallets.balance`
and the latest `safi_transactions.balanceAfter`. They are kept equal only by
every money movement going through both. Nothing runs on a timer: a cycle is
closed, and a pause ended, by whichever call next reads the config. `register`
creates a user and, through the wallet service, a wallet in one transaction; a
password reset saves the user outside any and sends mail after it. The admin
operations change one table each and then append to the audit log, in separate
statements; their settings live in a file every report reads and may rewrite.

**What the database contributes** (InnoDB, REPEATABLE READ). `SELECT ... FOR
UPDATE` and `UPDATE` take a row's lock until the transaction ends. A plain
`SELECT` takes none; in a transaction it reads the snapshot made by the
transaction's first plain `SELECT`. TypeORM's `save` reads the row, then
updates the columns in which the entity differs from what it has just read.
The pool has mysql2's defaults: ten connections, callers wait in line, with no
time limit.

**What is hard.** Interleavings of calls on one wallet; transfers between two
wallets; Safi's decision being made on one connection and applied on another;
two copies of one balance; lock waits, deadlocks, rollbacks and process death
between statements; midnight between two statements; a pool whose connections
are held while another one is awaited; reads that are saved back much later;
month arithmetic at month ends; rollover that only happens when somebody looks.
`PROJECT.json` lists each hazard at its line.

**What makes each component correct.**

- Wallet service: a balance is what its entries add up to; it is never
  negative; a transfer to an internal account moves money; every call is
  answered.
- Money path: Safi's balance is core banking's; the reserve is eaten only by
  what the buffer has been charged; hard decline blocks; a strict day over its
  limit leaves an override.
- Pool: no connection is lost, no call waits for ever.
- Lifecycle: a lifecycle operation and a debit do not undo each other; at most
  three pauses a year; a deleted config stays deleted.
- Cycles: each cycle is closed once; consecutive windows neither overlap nor
  leave days out; a new cycle starts with a full buffer.
- Dashboard and history: what they show of a cycle was so at some moment of the
  call, and no cycle is listed twice.
- Admin controls and settings: an update changes what it names; the audit log
  can be replayed; a deleted rule stays deleted; a reader never replaces the
  settings by the defaults.
- Authentication: users and wallets come in pairs; a reset token is used once,
  and works as long as it was promised to; concurrent saves of one user do not
  revert a password.

## 2. What is modelled now

### Modules

| Module | Role |
|---|---|
| `SafiGovernance` | The `safi_configs` row and pure operators: the decision of `assertWithdrawalAllowed` and the change `recordTransaction` makes to the row. No state. |
| `WalletService` | The money path: `fund`, `withdraw`, `transfer` statement by statement, with locks, snapshots, failures and midnight. |
| `ReservedAccounts` | The abstract promise: credits, debits above the reserve, draws a cushion pays for; and what follows from it. |
| `WalletRefinement` | The refinement mapping from `WalletService` to `ReservedAccounts`. |
| `SafiConfigService` | Everything that writes one row of `safi_configs`: the lifecycle operations, the lazy rollover, and the wallet's entries as far as that row sees them. |
| `ConnectionPool` | The same calls seen from the connection pool. |
| `CycleCalendar` | Dates, months of unequal length, and the two functions on them: `computeExpiresAt` and `getCycleWindow`. No state. |
| `CycleReport` | What rows of an account add up to: balances, carry-over, score and outcome of a cycle, and the dashboard of a running one. No state; extends `CycleCalendar` and `SafiGovernance`. |
| `BudgetCycles` | One account over several cycles: entries, midnights, the lazy rollover, and the calls that look (dashboard, history, update). Composes `CycleReport` with the decision and the charge of `SafiGovernance`. |
| `AdminConsole` | The bank's staff: start-up seeding, rules, controls, audit log, and the settings file. |
| `AuthService` | Registration with the wallet it opens, forgotten and reset passwords, and the mail they send. |
| `MCWalletService`, `MCSafiConfigService`, `MCConnectionPool`, `MCBudgetCycles`, `MCAdminConsole`, `MCAuthService` | Instances for TLC. |
| `WalletServiceProofs`, `WalletRefinementProofs`, `SafiConfigProofs`, `ConnectionPoolProofs`, `AuthServiceProofs`, `AdminConsoleProofs`, `CycleCalendarProofs`, `BudgetCyclesProofs` | Theorems and proofs. |

### WalletService

Variables hold *committed* state: `wallet` (`wallets.balance`), `posted` (what
the rows of `transactions` add up to), `config` (`safi_configs`), `safiLatest`
(the balance in the latest row of `safi_transactions`), `spent` (the day totals
of its debits), `overrides`, `today`. `rowLock` is InnoDB's lock on a wallet
row. Each request has a program counter `pc`, its arguments `req` and, in `tx`,
what its transaction has read so far. Its writes are applied by `Commit`,
because nobody else sees them earlier and a rollback drops them.

| Action | Code |
|---|---|
| `Submit` | the controller, after DTO validation (amounts are at least 1) |
| `LockWallet`, `InsufficientBalance` | `findOne` with `pessimistic_write`, and the check that the balance suffices |
| `AssertWithdrawalAllowed`, `WithdrawalDeclined` | the call of `assertWithdrawalAllowed`, returning or throwing |
| `ReadRecipient` | `transfer`'s plain `findOne` of the recipient; makes the snapshot |
| `SaveWallet` | `applyEntry`'s `save(wallet)`; its read makes the snapshot |
| `CreditRecipient` | `save(recipientWallet)`, which waits for that row's lock |
| `RecordTransaction` | `recordTransaction` reads the config and inserts the ledger row, which MySQL dates |
| `Commit` | the rest of `recordTransaction` (buffer, card behaviour, daily limit, override) and `COMMIT` |
| `LockWaitFails` | a lock wait ended by deadlock detection or `innodb_lock_wait_timeout`; rollback, 500 |
| `Crash` | the process dies, MySQL rolls back |
| `NextDay` | midnight |

`ConfigAfterDebit` follows TypeORM's rule for `save`: the columns that differ
from the row as read are written, the others keep their committed value. A
request id is not reused; a client's retry is a new request.

**Internal transfers.** The recipient of a transfer is read without its lock,
written back as an absolute balance, and not reported to Safi. The positive
properties therefore speak of `NonRecipients`, the accounts no transfer is sent
to, although those accounts send transfers, and share the database, the locks
and the crashes with recipients. What happens to recipients is stated by the
properties of section 4.

### SafiConfigService

The lifecycle calls use no transaction. Each reads `row`, works on the entity it
got (`loc[r].entity`), and saves it. `save` is two statements: a SELECT by id
(`SaveReads`), then an UPDATE of the columns in which the entity differs from
that SELECT (`SaveUpdates`, `Differing`), or an INSERT when it found nothing
(`SaveInserts`); anything may happen between them.

| Action | Code |
|---|---|
| `FindNothing`, `Find` | `findByAccountNumber`, then 404, 409, or `ensureCurrentCycle` up to its first await: the watchdog of 14 days, the test of the loop |
| `CloseCycle` | `closeCycle` inserts its row; the entity moves to the next window; the loop's test again |
| `SaveReads`, `SaveUpdates`, `SaveInserts` | each `save`, for the watchdog, after the loop, and of the operation itself (`stage` says which) |
| `InsertOverride` | `manualOverride`'s row, inserted before the config is saved |
| `ReadWallet`, `Insert` | `create`'s balance and its INSERT, where `accountNumber` is unique |
| `Delete` | `deactivate` |
| `Enter`, `Snapshot`, `CommitEntry` | a credit or debit of the wallet: decision, snapshot, charge; `WalletService` has it in full |

`Own` is the operation's own part, run as soon as `getByAccountNumber` returns.
Three history variables say when a request is `overtaken` (somebody changed the
row after it was read), whether one has saved nevertheless (`staleSave`), and
whether an entry found no config to be recorded under (`unrecorded`).

### ConnectionPool

`free` counts idle connections, `queue` is the pool's first-come line, `held`
what each request has. An entry (`fund`, `withdraw`, `transfer`) keeps one
connection from BEGIN to COMMIT and takes another for each of its `Lookups`:
the config and the latest row for `assertWithdrawalAllowed`, and the clock
for a strict account's daily limit. A plain call needs one connection once.

### BudgetCycles

`config`, `balance`, `ledger` (`safi_transactions`), `overrides` and `cycles` are
the rows of one account, `now` the date, `call` the one call in flight. Entries
(`Post` to the dating of the row, `Commit` with the policing) and midnight come
between any two statements of the call.

| Action | Code |
|---|---|
| `Find` | `getByAccountNumber` up to the first await of the loop |
| `CloseCycle` | `closeCycle` and the move to the next window; `ClosedCycle` of `CycleReport` is the row it inserts |
| `SaveReads`, `SaveRenewed`, `SaveOwn` | the saves after the loop and of `update` |
| `ReadRows`, `ReadBalance`, `ReadOverrides` | `getDashboard`'s queries, in order, and its answer (`Dashboard`) |
| `ListCycles` | `getHistory`, after its own look at the config and the dashboard's second one |
| `Fail` | a statement fails or the process dies while something is unsaved |

The previous cycle is `ORDER BY endDate DESC`; of cycles that end together any
may come first. A date is a number of days, and months have the lengths that
`MonthStart` gives them: `AddMonths` is `Date.setMonth`, which counts on into the
following month when the day does not exist. `inForce` (what was configured when
each day began), `atEnd` (what a day began with on which the row's window ended: how
much of the buffer was missing, and which rows had been charged to it), `restarts`
and `slips` (what happened in the middle of something else) are history, and so are a dashboard's `truths` (whether the reserve was
breached at each moment of the call) and `passed` (the entries that committed
between its first two queries). Rows of different columns are put together by
`Joined`, which is TLC's `@@` written out for the prover.

### AdminConsole

`boot` is how far `onModuleInit` has come; requests are served after it. A rule is
its status, a boot's seeds are one rule, the audit log is a sequence of what was
said about which rule. `save` is the same two statements as in
`SafiConfigService`. The settings file is its text, of which only the webhook
matters, and the text's length: `Truncate` and `Flush` are the two halves of
`writeFile`, and a text written over a longer one is no JSON any more. `view`
stands for the two reports that call `readSettings`, which writes the defaults
when it cannot parse what it finds.

### AuthService

`users` and `wallets` are committed rows; a request's open transaction is in its
`loc` (`inserted`). The unique email makes a second INSERT wait for an open
transaction with that email, and fail if that commits; a wallet's number may be
taken between the check and the INSERT, and then the user is rolled back too.
A reset token is the request that made it. `mail` is the transport the process
chose at start-up: SMTP delivers or fails, the test account and the JSON
fallback take the mail and deliver nothing.

## 3. Runs that pass

| Run | Instance | Shows |
|---|---|---|
| `WalletGoverned` | 3 calls with amounts 1 or 2, two wallets of 4, the first with no config, one of six flexible ones (hard decline, auto cover, buffer, paused; reserve below and above the balance) or one of three strict ones, transfers to the second or out; a midnight when the first is strict | `TypeOK`, `LedgerBalanced`, `MirrorInSync`, `ReserveCovered`, `UnreportedBreachSpansMidnight`, and that the money path implements `ReservedAccounts` |
| `WalletLiveness` | 3 calls of amount 2, two wallets, transfers in both directions | `EveryRequestAnswered` |
| `SafiConfig` | 2 calls and 1 debit or credit on an account with no config, a buffer, an auto cover or a pause; windows of 1 or 2 days, 3 days; 1 pause, watchdog after 1 day, 2 rollovers at most | `TypeOK`, `PausesLimitedUnlessStale`, `WindowsClosedOnce`, `AnswersAreCurrent`, `OverrideFlagExplained`, `MirrorUnlessUnrecorded`, `NoEndlessPause`, `BufferRefilledForCause`, `RowsReturnByCreate` |
| `Pool` | 2 connections, 4 entries on 2 wallets with 2, 3, 1 and 0 lookups, a plain call | `TypeOK`, `StuckOnlyWhenDebitsFillThePool`, `PoolRefills`, `AnsweredUnlessStuck` |
| `Cycles` | 2 entries (debits of 2, credits of 3) and 2 calls from the last day of a month to three days later; a monthly account with a buffer before a shorter month, a strict account whose custom cycle has the default length, one with all of its income protected, a daily account that carries over from an earlier enrolment; updates of length, reserve and buffer | `TypeOK`, `ScoredAsItEnded`, `BufferUsedExplained`, `WindowsInOrder`, `BufferPenaltyOnce`, `OverridesStayFlagged`, `BreachShownIsReal`, `RunningCycleListedOnce` |
| `Admin` | 3 requests, 2 starts of the process; the settings file there or missing; two webhooks of different length | `TypeOK`, `DeletedRulesStayDeleted`, `LogTellsTheRules`, `ActiveModesFollow`, `WebhookKept`, `UpdatesTouchWhatTheyName` |
| `Auth` | 3 requests, one customer, two more emails, one account number left, 3 hours, a process with and one without SMTP | `TypeOK`, `OneWalletPerUser`, `SpentTokensGone`, `SentMeansDelivered`, `PasswordChangesByToken`, `PromisedTokensWork` |

- `LedgerBalanced`: the balance column equals what the entries add up to, in
  every order of lock, wait, failure, crash and commit.
- `MirrorInSync`: the balance Safi decides on is the balance of the wallet.
- `ReserveCovered`: the buffer is never overcharged, and balance plus charges
  reach the reserve, or the balance the customer enrolled with when that was
  lower. It needs the decision and the charge, made at different times on
  different connections, to fit together.
- `ImplementsReservedAccounts`: the same as a relation between steps. Each step
  is for each protected account one of three promised ones; no debit below the
  reserve escapes being charged in full, and the cushion is not refilled.
- `UnreportedBreachSpansMidnight`: a strict day over its limit has a
  `limit_breach` row, unless its debit was dated before midnight and looked at
  after; MySQL dates the row, the application picks the day. That exception is
  reachable, which is why the property names it.
- `PausesLimitedUnlessStale`, `WindowsClosedOnce`, `BufferRefilledForCause`: with
  crashes between any two statements, the pause limit holds, two finished calls
  never close overlapping windows, and a spent buffer comes back only with a new
  cycle or a new buffer, *unless* an overtaken entity was saved. They reduce all
  that can go wrong with them to that one cause, which section 4 then shows.
- `AnswersAreCurrent`: an answer shows the current cycle, or the loop's limit was
  reached, and no pause *with a date* older than the watchdog allows. That the
  property speaks of dated pauses was found by trying to prove it of all: an
  entity that says paused and has no `pauseStartedAt` passes the watchdog. Such
  a row takes five calls of `pause` and `resume` whose saves interleave, more
  than the run has; TLC finds them on an instance that has nothing else. Stale
  saves are what makes it, and `NoEndlessPause` states that nothing else does.
- `OverrideFlagExplained`: the flag never stands without an override row, also
  when `manualOverride` dies half-way (row first, flag second).
- `MirrorUnlessUnrecorded`: Safi's balance stays the wallet's through pauses,
  updates, rollovers, and a deactivation and a second enrolment over the rows of
  the first; only an entry Safi was not told of (made without a config, or before
  the INSERT of the new one) parts them. Then the latest old row outranks the new
  baseline, or the new baseline is old.
- `NoEndlessPause`: no protection is off without the date the watchdog counts
  from, unless a stale save has taken it.
- `RowsReturnByCreate`: a deleted row comes back by `create`, or by the save of a
  call that read it before the DELETE, and by nothing else.
- `StuckOnlyWhenDebitsFillThePool`, `AnsweredUnlessStuck`: the only way for the
  service to hang is a pool whose every connection is held by a debit of a
  different wallet waiting for one more; everything else is answered.
- `ScoredAsItEnded`: whoever looks first after any number of missed cycles, every
  column `closeCycle` stores is what the config of its end and the rows up to its
  end say; of the compliance score, with the `bufferUsed` that is stored beside it.
  Exceptions, both reachable: a row that commits behind the closing, and an
  `update` that is on its way when the cycle ends.
- `BufferUsedExplained` is about that `bufferUsed`, which is *not* always what it
  was at the end: `closeCycle` takes it from the row as it is at the look. So a
  draw that commits after the end and before the look is charged to the cycle that
  has ended, and cycles that one look closes together all say the same. The
  property says that this is all: otherwise the column is what was missing at the
  midnight that ended the cycle. Exceptions: an `update` saved after the end, and
  a window that was not yet on the row at its last midnight, because the rollover
  to it was still under way.
- `WindowsInOrder`: closed cycles do not overlap, and follow each other without a
  gap except where an `update` has started over or a month was too short for the
  day of the month; only a call that dies between `closeCycle` and its save has
  a cycle closed twice.
- `BufferPenaltyOnce`: a draw on the buffer lowers the score of one cycle, or of
  the several that one late look closes together.
- `OverridesStayFlagged`: an override of the running cycle keeps the flag up
  until the cycle ends. A save that was under way, and a rollover that comes
  after the override, take it down too early, and are the named exceptions. Two
  more were found by trying to prove it: an override under an update's save after
  the end of the very window that is being saved, and a debit that had seen the
  flag up, and so does not write it, when a rollover has taken it down since.
- `BreachShownIsReal`: although the dashboard reads rows, balance and overrides
  one after the other, the reserve is shown breached or untouched only if it was
  so at some moment of the call. The proof attempt found the exception it names: of
  an account that has been in the reserve since before the window, one entry that
  leaves it there and one that takes it out, both between the first query and the
  second, are seen by neither, and the reserve is shown untouched although it was
  breached all along.
- `RunningCycleListedOnce`: a history, which reads the config twice, lists the
  running cycle as completed only if it ended in between.
- `DeletedRulesStayDeleted`, `LogTellsTheRules`: neither a boot nor a request
  brings a deleted rule back, an update that found it before apart; and the log,
  replayed, is the table, for rules no two requests were at together.
- `UpdatesTouchWhatTheyName`, `ActiveModesFollow`: an update of the controls
  leaves every mode and column it does not name, and the derived column agrees
  with the one it is derived from, unless requests overlap or it is set directly.
- `WebhookKept`: no report, boot or default ever replaces the webhook, unless two
  requests are at the file together or the process dies over it. Both happen.
- `OneWalletPerUser`: races for an email or a number, failures and crashes leave
  no user without a wallet, no wallet without a user.
- `SpentTokensGone`, `PasswordChangesByToken`: a token is good for one reset and
  a password changes by the token on the row, unless a request saves a user that
  somebody changed after it was read.
- `SentMeansDelivered`, `PromisedTokensWork`: with SMTP, whoever is told that the
  mail was sent has it, and its token opens a reset for an hour unless it is
  spent or replaced; a later request replaces it even if its own mail fails.

**Why the bounds are enough.** Three calls are two that race on a wallet and one
that changes what they race about (a second draw on the buffer, a credit to the
recipient). Amounts 1 and 2 against a balance of 4 and reserves of 3 to 6 give
debits that stay above, cross, start below and exactly meet the reserve, and
buffers of 2 and 3 are used up exactly, partly, or not enough. `MaxDay = 1`
puts a midnight between any two steps; `MidnightOnlyWhenStrict`, a constraint,
saves the states after it where no daily limit is looked at. In `SafiConfig` two calls are what a
lost update takes, and the third day and the limits scaled down (3 pauses to 1,
14 days to 1, 1000 rollovers to 2) make a watchdog, a double rollover and a
refused pause happen. In `Cycles` two calls are one that leaves something behind
(a closed cycle, a restart) and one that finds it, and four days end up to three
cycles of the daily account at one look; `LastDay`, `MaxEntries` and `MaxCalls` are
the bounds. In `Admin` three requests are a change, what races it, and what comes
after; in `Auth` a request for a token, its use, and what comes between. Every
exception a property names was dropped once to see TLC reach it. Each property also fails on a
mutation of a definition it depends on (`PROJECT.json`, `mutants`; the mutated
definitions stand beside the originals and are marked "Mutant").

**Fairness.** `WF_vars(Serve(r))` for each request: Node resumes an `await` whose
answer is there, and MySQL answers each statement; a lock wait always ends,
because InnoDB either grants the lock or fails the wait, so weak fairness on
the disjunction is enough. `Submit`, `Crash` and `NextDay` have no fairness. In
`ConnectionPool` the same holds for the pool, which serves its line in order. A
caller waiting for a connection gets no timeout since mysql2 has none by
default.

`BudgetCycles`, `AdminConsole` and `AuthService` state safety only and assume no
fairness.

`Pool` and `PoolStranded` switch the deadlock check off: when every call is
answered there is no next step, and `Stuck` speaks of the real deadlock. `Cycles`
and `CyclesSafeSpend` do because the bounds end every behaviour. In the others the finished state stutters explicitly (`Terminating`) and the
deadlock check stays on.

## 4. Where code and documentation disagree

Each of these runs ends in a counterexample, for a statement in a comment or the
guide. None of them adds an assumption to the model.

| Run | Property | What happens |
|---|---|---|
| `WalletLostCredit` | `LedgerBalancedEverywhere` | The recipient's balance is read before and written after another call's commit, which is lost. |
| `WalletHardDecline` | `HardDeclineHolds` | Safi does not hear of an internal credit; its balance is then too low, `currentBalance - prospectiveBalance` is not positive, and a debit of a hard-decline account passes into the reserve. |
| `ConfigDraws` | `BufferDrawsStand` | `pause` reads the row, a debit charges the buffer, `pause` saves and writes the old amount back. |
| `PoolStranded` | `NobodyStranded` | As many debits of different wallets as connections wait for one another for ever. |
| `CyclesSafeSpend` | `SafeToSpendIsSafe` | The dashboard divides what is left by the days left, the strict limit divides the planned pool by all days; spending what is shown as safe raises a limit breach. |

The guide's "up to 3 times per calendar year" fails in the same way as the draws:
two concurrent pauses read the same count, which is the `staleSave` that
`PausesLimitedUnlessStale` names. Two more need no order of steps to be seen in the
code: a transfer to one's own account number is debited and, by lines 259-260 of
`wallet.service.ts`, credited to nobody; and a second draw on a buffer is declined
too early, because the whole distance to the protected sum is compared with what
the first draw has left of the buffer (line 229 of `safi.service.ts`).

## 5. Proofs

Each theorem is about `Spec` of its module, for any values of the constants that
meet the module's assumptions, finite or not: any accounts, requests, amounts,
DTOs, pool size and limits. The assumptions are declared beside the constants and
TLC evaluates them on its instances.

| Theorem | States |
|---|---|
| `WalletServiceProofs` | |
| `TypeCorrect` | `TypeOK`; with it, no balance is ever negative |
| `LedgerCorrect` | `LedgerBalanced` |
| `MirrorCorrect` | `MirrorInSync` |
| `ReserveCorrect` | `ReserveCovered` |
| `BreachesAreReported` | `UnreportedBreachSpansMidnight`, of recipients too |
| `WalletRefinementProofs` | |
| `RefinesReservedAccounts` | `ImplementsReservedAccounts` |
| `ReserveIsPaidFor` | what follows of it: the part of the reserve the rest of the buffer does not reach never shrinks (`SecureNeverShrinks` of `ReservedAccounts`) |
| `SafiConfigProofs` | |
| `ConfigTypeCorrect` | `TypeOK` |
| `AnswersStayCurrent` | `AnswersAreCurrent` |
| `FlagsAreExplained` | `OverrideFlagExplained` |
| `MirrorHolds` | `MirrorUnlessUnrecorded` |
| `PausesAreDated` | `NoEndlessPause` |
| `PausesAreLimited` | `PausesLimitedUnlessStale` |
| `WindowsAreClosedOnce` | `WindowsClosedOnce` |
| `RefillsHaveACause` | `BufferRefilledForCause`, an action property |
| `DeactivatedStaysGone` | `RowsReturnByCreate`, an action property |
| `ConnectionPoolProofs` | |
| `PoolTypeCorrect` | `TypeOK` |
| `PoolRefillsAlways` | `PoolRefills` |
| `HangsOnlyFull` | `StuckOnlyWhenDebitsFillThePool` |
| `LargePoolNeverHangs` | more connections than wallets exclude `Stuck` |
| `AuthServiceProofs` | |
| `AuthTypeCorrect` | `TypeOK` |
| `RegistrationsAreWhole` | `OneWalletPerUser` |
| `TokensAreSpentOnce` | `SpentTokensGone` |
| `SentIsDelivered` | `SentMeansDelivered` |
| `PasswordsChangeByToken` | `PasswordChangesByToken`, an action property |
| `PromisesAreKept` | `PromisedTokensWork`, an action property |
| `AdminConsoleProofs` | |
| `AdminTypeCorrect` | `TypeOK` |
| `DeletionsLast` | `DeletedRulesStayDeleted` |
| `LogCanBeReplayed` | `LogTellsTheRules` |
| `ModesFollowTheirStatus` | `ActiveModesFollow` |
| `WebhookIsKept` | `WebhookKept` |
| `UpdatesAreLocal` | `UpdatesTouchWhatTheyName`, an action property |
| `CycleCalendarProofs` | |
| `WindowsFollowTheirDate` | a window starts on the date its end was computed from, or later after a short month, and is not empty |
| `BudgetCyclesProofs` | |
| `CyclesTypeCorrect` | `TypeOK` |
| `BreachesShownAreReal` | `BreachShownIsReal` |
| `CyclesFollowEachOther` | `WindowsInOrder` |
| `FlagsStayUp` | `OverridesStayFlagged` |
| `DrawsAreChargedOnce` | `BufferPenaltyOnce` |
| `RunningCycleIsListedOnce` | `RunningCycleListedOnce` |
| `CyclesScoredAsTheyEnded` | `ScoredAsItEnded` |
| `BufferUseIsExplained` | `BufferUsedExplained` |

So each invariant and each action property of the runs that pass is proved; what
is left to TLC is liveness.

**Assumptions.** `WalletService`: amounts are positive, opening balances are
naturals, the initial configs are as `create` leaves them (`IsFresh`).
`SafiConfigService`: initial rows are `IsFresh`, in a window that has begun and, if
paused, with a date; the DTOs are what validation lets through
(`DtosAssumption`); amounts and limits are naturals, the watchdog's at least one
day. `ConnectionPool`: a pool of one connection or more, and nobody makes a plain
call and an entry at once. `AuthService`: the first user is nobody's request, and
its email and number exist. `AdminConsole`: the process may start once at least,
the settings file is the defaults or missing at first, and DTOs name known modes.
`CycleCalendar`: the months follow each other from date 0 and none is empty
(`CalendarAssumption`; nothing is assumed of their lengths). `BudgetCycles`: the
calendar reaches past the window of every date of the clock
(`ConstantsAssumption`), DTOs give columns values of their types
(`DtosAssumption`), the row is as `create` left it, with an end computed on some
date, and the cycles of an earlier enrolment are in order and over before the
row's window and the first day (`SetupsAssumption`).
In all of them, the markers (`NoConfig`, `NoRequest`, `Nothing`, ...) are none of
the values they stand beside.

**The money path.** None of the invariants is inductive: what a commit does depends
on what its request has read several steps earlier. The strengthening comes in
three layers, each proved with the ones before it.

1. `TypeInv` adds to `TypeOK` that a debit past its balance check still finds
   the amount in what it read (`Sufficient`), and that only a transfer with an
   internal recipient reaches the credit (`CreditPoint`).
2. `LockInv`: a request past `LockWallet` holds its wallet's row lock, hence at
   most one request of a wallet is past it.
3. `MoneyInv`: a request in flight *stands*: what it has read is still the
   committed balance, the config row it saw is still the committed row, and the
   permission it obtained would be given again. It holds since only a holder of
   the row lock commits to that wallet, a recipient's credit apart, which is
   why the accounts are `NonRecipients`. Together with `LedgerBalanced`,
   `MirrorInSync` and `ReserveCovered` it is inductive.

Each step lemma has one step per action, and only `Commit` needs arithmetic
about money. `BreachesAreReported` adds `RowsDated` (a row carries a day that has
come) and needs of `MoneyInv` only that the config row a request saw is still the
committed one, which is true of recipients: a commit either counts its own row
into the day it looks at, or midnight has passed since the row was dated.
`RefinesReservedAccounts` uses the same invariants: a step other than `Commit`
stutters, and a `Commit` is a credit, a debit above the reserve, or a draw that
`Permitted` bounded by the remaining buffer.

**The config lifecycle.** Here nothing locks, so the invariant has two halves.
`TypeInv` and `RowInv` hold whatever is saved over what: a row and every entity in
flight agree on the baseline and have an override behind their flag, and an
answer has passed the watchdog and the loop. From these follow `TypeOK`,
`AnswersAreCurrent`, `OverrideFlagExplained` and `MirrorUnlessUnrecorded`. `Calm`
holds until a stale save. Its core is `FlightOf`: the entity of a call nobody has
overtaken is the row with that call's own changes, its pause count at most one
ahead, its buffer no fuller unless the call renews it, its window no earlier.
`PausesCounted` and `WindowsInOrder` relate the row to the history of answers. A
save by a call nobody overtook then does what it meant, which gives the other
five properties. The proof goes action by action, and within an action by what
`Own` does for each operation; TLC checked the invariant on the instance of
`SafiConfig` before it was proved.

**The pool.** `ConnectionsAddUp` counts what is held once (`Holding(1)`) and twice
(`Holding(2)`), `HeldByPlace` ties that to where a request is, `Line` says that the
queue has each waiting request once, and `RowLocks` that a lock has one entry
behind it. In a hang nothing is free and nobody holds two, so the holders of the
pool are the lock holders, one for each locked wallet: a bijection gives the
count, and with fewer wallets than connections there is no hang.

**Authentication.** `WalletInv` says what an open registration transaction keeps
others from; `TokenInv` that a token belongs to the user it was made for, and that
a request nobody has overtaken would read again what it has read; `PromiseInv`
where a promised token is. `OneWalletPerUser` needs only the first, the token
properties need all.

**Admin console.** `RulesInv` follows each rule from its birth to its last entry in
the log: what a request is about to log is what it has done, unless two were at
the rule. `ControlsInv` is the derived column with the entities in flight;
`FileInv` says what the settings file is at each half of a `writeFile`.

**Budget cycles.** `TypeInv` adds to the types, for each step a call can be at, what
it knows there of the row (`Place`): the entity of a rollover has the row's terms
and, once moved on, a window that starts where the row's has ended or later; that of
an update has the row's window or one that starts now. Nobody but the call changes
the row's terms, which is what makes it last. On it stands one inductive invariant for each
property.

- `BreachInv` keeps, between the dashboard's queries, what each has found equal to
  the breach at some moment of `truths`; the second query can miss what the first
  could not see only if two entries passed.
- `OrderInv`: until a call fails half-way the closed cycles, in order, end where the
  row's window starts or before, or the entity's while a call is rolling over.
  `WindowsFollowTheirDate` turns that into the order of the next window and, months
  apart, into its being adjacent.
- `FlagInv`: no override lies after the row's window, one lies in it only if the flag
  is up, and the same of a window an update is about to save; what a save has read
  agrees with the row about the flag.
- `BufferInv`: what is missing of the buffer, on the row and on the entity, has been
  drawn by a row later than the latest closed cycle.
- `UsedInv`: what is missing on the row, and on the entity of a rollover that has
  closed nothing yet, was missing when the window ended or a draw has committed
  since; `atEnd` knows nothing of days past the row's window; and once a look has
  closed a cycle, its entity says of the buffer what that cycle says.
- `ListInv` has to hold after a half-done rollover, too, when closed cycles lie ahead
  of the row's window. It says that they lie on the row's path: their ends are in
  `Ends`, the least set that has the end of the row's window and with each date the
  end of the window after it. The next rollover goes along that path, past what it
  will then list.
- `ScoreInv`: on every day from the end of the row's window on, the terms in force
  were those of the row, and each closed cycle is scored as the property says. It
  lasts because a row or an override dated after the end of a cycle changes none of
  the sets that cycle was computed from, nor does a cycle closed after it.

TLC checked the last five on the instance of `Cycles` before they were proved.

**Only model-checked.** Liveness under fairness (`EveryRequestAnswered`,
`AnsweredUnlessStuck`), which the prover does not reach (nor ENABLED). Also out of its reach: induction over data, so the proofs use
no recursive definition and sums such as `posted` and `spent` are kept as running
totals by the actions, and RECURSIVE operators, which no module declares.

## 6. Abstractions

- Money is in whole units, unbounded: the code computes with BigInt over
  `bigint` columns.
- `frequency`, `customDays` and `expiresAt` reach a debit only as the length of
  the window, `cycleDays`, which is part of the row and fixed.
- In `WalletService` only debits change configs; `SafiConfigService` has the
  other writers, on one account, with a short form of the entries.
- `SafiConfigService` counts time in days and gives a window a fixed number of
  them; the calendar, the amounts and the scores are in `BudgetCycles`, which in
  turn has one call at a time. Strict days are left to `WalletService` and
  `BudgetCycles`, since they raise the same flag as an auto cover.
- In `BudgetCycles` an instant is a day: what happens on the day a cycle ends
  happens at the moment it ends, to which both `Between` queries reach. Pauses and
  manual overrides are in `SafiConfigService` only. `closeCycle`'s queries are one
  step: all are dated up to the end of the cycle, so only an entry dated before
  the end and committed after can come between them, and that is `straggler`.
  The history's limit of twelve cycles is out of reach.
- `AdminConsole` has the process listen after `onModuleInit`, as NestJS does, and
  one process; so the code in `getControls` and `updateAdminControls` that creates
  the missing row of controls is never reached, which its `TypeOK` states.
  `allowedBehaviours` of the row itself is a column like `governanceMode`.
- `AuthService` does not look into passwords, hashes and signatures: a password is
  the request that set it.
- Ledger rows of `safi_transactions` have distinct, increasing times. The
  database offset is exact; the code's is good to a second.
- References are UUIDs (`crypto.randomUUID`), so `recordTransaction`'s branch
  for references that contain "ussd" is never taken and is left out.
- A failing statement other than a lock wait is a rollback like that of
  `LockWaitFails`, and a lost connection is like `Crash` for one request.

## 7. Not modelled

- `getProjection`, and the dashboard's categories, weekly sums, spending pace and
  run-out date: arithmetic over rows for display, which nothing else reads.
- `getAdminDashboard`, `getAdminTransactions`, `getAdminDeployments`,
  `getAdminAnalytics`, `getAdminCompliance` and the listings: counts and layout.
  That two of them rewrite an unreadable settings file is modelled.
- `login`, `getProfile`, `resolveAccount`: they read and sign.
- The text and layout of mails; account numbers as strings of digits.
- Admin authentication (a stub without state); controllers, validation, filters,
  interceptors, bootstrap, health (their bounds on DTOs are assumptions here).
- `seed_cycles.js`, `simulate_cycles.js`, `check_transactions.js`: one-off scripts
  run by hand.

`PROJECT.json` gives the status of each component.

## 8. Plan

What is left, in this order:

1. Lemmas on `SafiGovernance` for their own sake: what one debit takes from the
   buffer is what it takes from the reserve, whatever the buffer's history.
2. The bounds of the answers in `CycleReport` (scores from 0 to 100, carry-over and
   daily amount never negative) as statements of the operators.
