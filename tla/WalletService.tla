--------------------------- MODULE WalletService ---------------------------
(***************************************************************************)
(* The money path of the backend: WalletService.fund, withdraw and         *)
(* transfer, each one a database transaction of core banking that asks     *)
(* Safi for permission before a debit and tells Safi about it before it    *)
(* commits.                                                                *)
(*                                                                         *)
(* Requests run concurrently and interleave at every await, that is at     *)
(* every statement sent to MySQL.  What the database contributes:          *)
(*   - SELECT ... FOR UPDATE and UPDATE take the wallet's row lock and     *)
(*     keep it until the transaction ends;                                 *)
(*   - a plain SELECT takes no lock.  Inside the transaction it reads the  *)
(*     snapshot of the transaction's first plain SELECT (REPEATABLE READ), *)
(*     outside the transaction the last committed state;                   *)
(*   - writes are seen by others when the transaction commits, and vanish  *)
(*     when it rolls back.                                                 *)
(* So the variables below hold committed state, and a request in flight    *)
(* keeps what it has read in tx[r] until its Commit applies its writes.    *)
(***************************************************************************)
EXTENDS SafiGovernance

CONSTANTS
  Accounts,        \* wallets, by account number
  External,        \* a transfer's destination at another bank
  Requests,        \* API calls
  NoRequest,       \* nobody holds the row lock
  Amounts,         \* what a call may ask to move
  Recipients,      \* accounts transfers may be sent to
  OpeningBalance,  \* [Accounts -> Nat]
  NoConfig,        \* the account has no row in safi_configs
  Setups,          \* the configurations the system may start from
  MaxDay           \* bound: the clock passes midnight at most MaxDay times

ASSUME AccountsAssumption ==
  /\ External \notin Accounts
  /\ Recipients \subseteq Accounts

ASSUME RequestsAssumption == NoRequest \notin Requests

\* The DTOs accept amounts of at least 1.
ASSUME AmountsAssumption == Amounts \subseteq Nat \ {0}

ASSUME OpeningBalanceAssumption == OpeningBalance \in [Accounts -> Nat]

ASSUME SetupsAssumption ==
  /\ NoConfig \notin SafiConfigs
  /\ Setups \subseteq [Accounts -> SafiConfigs \union {NoConfig}]
  /\ \A setup \in Setups : \A a \in Accounts :
       setup[a] # NoConfig => IsFresh(setup[a], OpeningBalance[a])

ASSUME MaxDayAssumption == MaxDay \in Nat

VARIABLES
  wallet,      \* wallets.balance
  posted,      \* what the committed rows of transactions add up to
  config,      \* safi_configs
  safiLatest,  \* balanceAfter of the latest row of safi_transactions, or NoRow
  spent,       \* per day, the total of the account's debits in safi_transactions
  overrides,   \* safi_overrides
  today,       \* the date
  rowLock,     \* the request whose transaction holds the wallet's row lock
  pc,          \* where each request is
  req,         \* what each request asks for
  tx           \* what its transaction has read

ledger == <<wallet, posted>>
safi == <<config, safiLatest, spent, overrides>>
vars == <<ledger, safi, today, rowLock, pc, req, tx>>

-----------------------------------------------------------------------------
NoRow == -1

Days == 0 .. MaxDay

\* rowDay is the day the row of safi_transactions was created, checkedOn the
\* day the daily limit was looked at.
TxLocals ==
  [ balanceBefore    : Nat,
    recipientBefore  : Nat,
    seen             : SafiConfigs \union {NoConfig},
    rowDay           : Days,
    checkedOn        : Days ]

EmptyTx ==
  [ balanceBefore |-> 0, recipientBefore |-> 0, seen |-> NoConfig,
    rowDay |-> 0, checkedOn |-> 0 ]

RequestRecords ==
  [ op      : {"fund", "withdraw", "transfer"},
    account : Accounts,
    to      : Recipients \union {External},
    amount  : Amounts ]

OverrideRecords ==
  [ by      : Requests,
    account : Accounts,
    type    : {"limit_breach", "auto_cover"},
    day     : Days ]

InFlight == {"lock", "assert", "recipient", "save", "credit", "record", "commit"}
Answered == {"committed", "declined", "failed"}

\* The type invariant.
TypeOK ==
  /\ wallet \in [Accounts -> Nat]
  /\ posted \in [Accounts -> Int]
  /\ config \in [Accounts -> SafiConfigs \union {NoConfig}]
  /\ safiLatest \in [Accounts -> Nat \union {NoRow}]
  /\ spent \in [Accounts -> [Days -> Nat]]
  /\ overrides \subseteq OverrideRecords
  /\ today \in Days
  /\ rowLock \in [Accounts -> Requests \union {NoRequest}]
  /\ pc \in [Requests -> {"idle"} \union InFlight \union Answered]
  /\ req \in [Requests -> RequestRecords \union {NoRequest}]
  /\ \A r \in Requests : pc[r] # "idle" => req[r] \in RequestRecords
  /\ tx \in [Requests -> TxLocals]

Init ==
  /\ wallet = OpeningBalance
  /\ posted = OpeningBalance
  /\ config \in Setups
  /\ safiLatest = [a \in Accounts |-> NoRow]
  /\ spent = [a \in Accounts |-> [d \in Days |-> 0]]
  /\ overrides = {}
  /\ today = 0
  /\ rowLock = [a \in Accounts |-> NoRequest]
  /\ pc = [r \in Requests |-> "idle"]
  /\ req = [r \in Requests |-> NoRequest]
  /\ tx = [r \in Requests |-> EmptyTx]

-----------------------------------------------------------------------------
(***************************************************************************)
(* Helpers                                                                 *)
(***************************************************************************)

Governed(a) == config[a] # NoConfig

\* getCurrentBalance
CurrentBalance(a) ==
  IF safiLatest[a] = NoRow THEN config[a].baselineBalance ELSE safiLatest[a]

IsDebit(r) == req[r].op # "fund"

BalanceAfter(r) ==
  IF IsDebit(r) THEN tx[r].balanceBefore - req[r].amount
                ELSE tx[r].balanceBefore + req[r].amount

\* The recipient of a transfer is credited when it is a wallet other than the
\* sender's.
CreditsRecipient(r) ==
  /\ req[r].op = "transfer"
  /\ req[r].to \in Accounts
  /\ req[r].to # req[r].account

\* assertWithdrawalAllowed for request r, on the committed state.
Permitted(r) ==
  Governed(req[r].account) =>
    WithdrawalAllowed(config[req[r].account],
                      CurrentBalance(req[r].account), BalanceAfter(r))

WithoutLocks(r) ==
  [a \in Accounts |-> IF rowLock[a] = r THEN NoRequest ELSE rowLock[a]]

Goto(r, label) == pc' = [pc EXCEPT ![r] = label]

\* The transaction ends without effect and its locks are released.
RollBack(r, answer) ==
  /\ Goto(r, answer)
  /\ rowLock' = WithoutLocks(r)
  /\ UNCHANGED <<ledger, safi, today, req, tx>>

-----------------------------------------------------------------------------
(***************************************************************************)
(* The requests                                                            *)
(***************************************************************************)

\* A call arrives: its arguments have passed the DTO's validation.
Submit(r) ==
  /\ pc[r] = "idle"
  /\ \E op \in {"fund", "withdraw", "transfer"}, a \in Accounts, n \in Amounts :
       \E to \in IF op = "transfer" THEN Recipients \union {External}
                                    ELSE {External} :
         req' = [req EXCEPT ![r] =
                   [op |-> op, account |-> a, to |-> to, amount |-> n]]
  /\ Goto(r, "lock")
  /\ UNCHANGED <<ledger, safi, today, rowLock, tx>>

\* Mutant: a plain SELECT, so that two requests work on the same balance.
LockWalletOfAnother(r) ==
  LET a == req[r].account IN
  /\ pc[r] = "lock"
  /\ IsDebit(r) => wallet[a] >= req[r].amount
  /\ rowLock' = [rowLock EXCEPT ![a] = r]
  /\ tx' = [tx EXCEPT ![r].balanceBefore = wallet[a]]
  /\ Goto(r, IF IsDebit(r) THEN "assert" ELSE "save")
  /\ UNCHANGED <<ledger, safi, today, req>>

\* Mutant: the balance is not compared with the amount.
LockWalletUnchecked(r) ==
  LET a == req[r].account IN
  /\ pc[r] = "lock"
  /\ rowLock[a] = NoRequest
  /\ rowLock' = [rowLock EXCEPT ![a] = r]
  /\ tx' = [tx EXCEPT ![r].balanceBefore = wallet[a]]
  /\ Goto(r, IF IsDebit(r) THEN "assert" ELSE "save")
  /\ UNCHANGED <<ledger, safi, today, req>>

\* BEGIN; SELECT ... FOR UPDATE of the wallet.  A locking read returns the
\* last committed balance.
LockWallet(r) ==
  LET a == req[r].account IN
  /\ pc[r] = "lock"
  /\ rowLock[a] = NoRequest
  /\ IsDebit(r) => wallet[a] >= req[r].amount
  /\ rowLock' = [rowLock EXCEPT ![a] = r]
  /\ tx' = [tx EXCEPT ![r].balanceBefore = wallet[a]]
  /\ Goto(r, IF IsDebit(r) THEN "assert" ELSE "save")
  /\ UNCHANGED <<ledger, safi, today, req>>

\* The same read finds too little for the debit: 400, roll back.
InsufficientBalance(r) ==
  /\ pc[r] = "lock"
  /\ rowLock[req[r].account] = NoRequest
  /\ IsDebit(r)
  /\ wallet[req[r].account] < req[r].amount
  /\ RollBack(r, "declined")

\* assertWithdrawalAllowed returns: Safi has nothing against the debit.  It
\* reads on a connection of its own, outside the transaction: the config, then
\* the latest row.  Both change only with an entry of the same wallet, which r
\* has locked, so the two reads are one step.
AssertWithdrawalAllowed(r) ==
  /\ pc[r] = "assert"
  /\ Permitted(r)
  /\ Goto(r, IF req[r].op = "transfer" THEN "recipient" ELSE "save")
  /\ UNCHANGED <<ledger, safi, today, rowLock, req, tx>>

\* It throws: the debit is declined, the transaction rolls back.
WithdrawalDeclined(r) ==
  /\ pc[r] = "assert"
  /\ ~ Permitted(r)
  /\ RollBack(r, "declined")

\* transfer looks the recipient up with a plain SELECT, the first of its
\* transaction: this is the snapshot recordTransaction will read, too.
ReadRecipient(r) ==
  /\ pc[r] = "recipient"
  /\ tx' = [tx EXCEPT
       ![r].recipientBefore = IF CreditsRecipient(r) THEN wallet[req[r].to] ELSE 0,
       ![r].seen            = config[req[r].account] ]
  /\ Goto(r, IF CreditsRecipient(r) THEN "credit" ELSE "record")
  /\ UNCHANGED <<ledger, safi, today, rowLock, req>>

\* applyEntry's save(wallet) reads the row before it updates it: the snapshot.
SaveWallet(r) ==
  /\ pc[r] = "save"
  /\ tx' = [tx EXCEPT ![r].seen = config[req[r].account]]
  /\ Goto(r, "record")
  /\ UNCHANGED <<ledger, safi, today, rowLock, req>>

\* save(recipientWallet): an UPDATE with the absolute balance computed from
\* the snapshot.  It waits for the recipient's row lock.
CreditRecipient(r) ==
  /\ pc[r] = "credit"
  /\ rowLock[req[r].to] = NoRequest
  /\ rowLock' = [rowLock EXCEPT ![req[r].to] = r]
  /\ Goto(r, "record")
  /\ UNCHANGED <<ledger, safi, today, req, tx>>

\* recordTransaction inserts the row of safi_transactions; MySQL dates it.
RecordTransaction(r) ==
  /\ pc[r] = "record"
  /\ tx' = [tx EXCEPT ![r].rowDay = today]
  /\ Goto(r, "commit")
  /\ UNCHANGED <<ledger, safi, today, rowLock, req>>

\* What the transaction of r leaves in each table when it commits.
WalletAfter(r) ==
  [a \in Accounts |->
     IF a = req[r].account THEN BalanceAfter(r)
     ELSE IF CreditsRecipient(r) /\ a = req[r].to
          THEN tx[r].recipientBefore + req[r].amount
          ELSE wallet[a]]

PostedAfter(r) ==
  [a \in Accounts |->
     IF a = req[r].account
     THEN IF IsDebit(r) THEN posted[a] - req[r].amount
                        ELSE posted[a] + req[r].amount
     ELSE IF CreditsRecipient(r) /\ a = req[r].to
          THEN posted[a] + req[r].amount
          ELSE posted[a]]

\* Mutant: credits are not recorded.
RecordsDebitsOnly(r) == tx[r].seen # NoConfig /\ IsDebit(r)

\* recordTransaction returns at once when the account had no config, and after
\* the insertion when the account was paused or the entry is a credit.
Records(r) == tx[r].seen # NoConfig

RecordsDebit(r) == Records(r) /\ IsDebit(r)

Polices(r) == RecordsDebit(r) /\ ~ tx[r].seen.isPaused

SpentAfter(r) ==
  IF RecordsDebit(r)
  THEN [spent EXCEPT ![req[r].account][tx[r].rowDay] = @ + req[r].amount]
  ELSE spent

\* Mutant: the debit itself is left out of its day.
SpentBefore(r) == spent[req[r].account][today]

\* The debits of the date on which the limit is looked at, r's own among them
\* if its row carries that date.
SpentToday(r) == SpentAfter(r)[req[r].account][today]

ConfigAfter(r) ==
  IF Polices(r) /\ Governed(req[r].account)
  THEN [config EXCEPT ![req[r].account] =
          ConfigAfterDebit(@, tx[r].seen, req[r].amount, BalanceAfter(r),
                           SpentToday(r))]
  ELSE config

OverridesAfter(r) ==
  IF Polices(r) /\ TriggersOverride(tx[r].seen, BalanceAfter(r), SpentToday(r))
  THEN overrides \union
         {[by |-> r, account |-> req[r].account,
           type |-> OverrideType(tx[r].seen, SpentToday(r)), day |-> today]}
  ELSE overrides

\* The rest of recordTransaction, COMMIT, and the answer.
Commit(r) ==
  /\ pc[r] = "commit"
  /\ wallet' = WalletAfter(r)
  /\ posted' = PostedAfter(r)
  /\ config' = ConfigAfter(r)
  /\ safiLatest' = IF Records(r)
                   THEN [safiLatest EXCEPT ![req[r].account] = BalanceAfter(r)]
                   ELSE safiLatest
  /\ spent' = SpentAfter(r)
  /\ overrides' = OverridesAfter(r)
  /\ rowLock' = WithoutLocks(r)
  /\ tx' = [tx EXCEPT ![r].checkedOn = today]
  /\ Goto(r, "committed")
  /\ UNCHANGED <<today, req>>

-----------------------------------------------------------------------------
(***************************************************************************)
(* What goes wrong around them                                             *)
(***************************************************************************)

AwaitsLock(r) ==
  \/ pc[r] = "lock"   /\ rowLock[req[r].account] # NoRequest
  \/ pc[r] = "credit" /\ rowLock[req[r].to] # NoRequest

\* Mutant: the transaction starts over, again and again.
LockWaitRetries(r) ==
  /\ AwaitsLock(r)
  /\ RollBack(r, "lock")

\* InnoDB gives up on a wait, because it closes a cycle or because it has
\* lasted innodb_lock_wait_timeout: the statement throws, the transaction
\* rolls back and the client gets a 500.
LockWaitFails(r) ==
  /\ AwaitsLock(r)
  /\ RollBack(r, "failed")

\* The process dies.  MySQL rolls back what its connections had open.
Crash ==
  /\ \E r \in Requests : pc[r] \in InFlight
  /\ pc' = [r \in Requests |-> IF pc[r] \in InFlight THEN "failed" ELSE pc[r]]
  /\ rowLock' = [a \in Accounts |-> NoRequest]
  /\ UNCHANGED <<ledger, safi, today, req, tx>>

NextDay ==
  /\ today < MaxDay
  /\ today' = today + 1
  /\ UNCHANGED <<ledger, safi, rowLock, pc, req, tx>>

\* Nothing is left to do.
Terminating ==
  /\ \A r \in Requests : pc[r] \in Answered
  /\ UNCHANGED vars

-----------------------------------------------------------------------------
Serve(r) ==
  \/ LockWallet(r)
  \/ InsufficientBalance(r)
  \/ AssertWithdrawalAllowed(r)
  \/ WithdrawalDeclined(r)
  \/ ReadRecipient(r)
  \/ SaveWallet(r)
  \/ CreditRecipient(r)
  \/ RecordTransaction(r)
  \/ Commit(r)
  \/ LockWaitFails(r)

Next ==
  \/ \E r \in Requests : Submit(r) \/ Serve(r)
  \/ Crash
  \/ NextDay
  \/ Terminating

Spec == Init /\ [][Next]_vars

\* Node's event loop and MySQL keep serving every request they have accepted,
\* and MySQL ends every wait, by granting the lock or by an error.
FairSpec == Spec /\ \A r \in Requests : WF_vars(Serve(r))

-----------------------------------------------------------------------------
(***************************************************************************)
(* Properties of the accounts no internal transfer is sent to.  A transfer *)
(* reads its recipient without the row lock and does not tell Safi about   *)
(* the credit; the ...Everywhere properties further down say what that     *)
(* does to an account that does receive transfers.                         *)
(***************************************************************************)

NonRecipients == Accounts \ Recipients

\* The balance column and the transaction rows agree: whatever the order in
\* which requests of the same wallet take its lock, wait, fail, crash or
\* commit, no entry is lost and none is counted twice (applyEntry and the
\* sender's side of transfer).
LedgerBalanced == \A a \in NonRecipients : wallet[a] = posted[a]

\* Safi's own copy of the ledger, the balance assertWithdrawalAllowed compares
\* the debit against, is core banking's balance.
MirrorInSync ==
  \A a \in NonRecipients : Governed(a) => CurrentBalance(a) = wallet[a]

\* The balance and what the buffer has been charged for, which is never
\* negative, add up to the reserve or to the balance the customer enrolled with.
Covered(c, n) ==
  LET charged == c.bufferAmount - c.remainingBuffer
  IN /\ charged >= 0
     /\ \/ n + charged >= c.protectedSum
        \/ n + charged >= c.baselineBalance

\* Safi decides in one statement and the balance changes in another, with
\* other requests in between; still, the reserve (or the balance the customer
\* enrolled with, when that was lower) is only ever eaten by as much as the
\* buffer has been charged for.
ReserveCovered ==
  \A a \in NonRecipients :
    ( /\ Governed(a)
      /\ ~ config[a].isPaused
      /\ config[a].cardBehaviour # "auto_cover" ) => Covered(config[a], wallet[a])

\* A day on which a strict account spent more than its daily limit has a
\* limit_breach override, unless the debit that crossed the limit was recorded
\* before midnight and looked at after it, when recordTransaction adds up the
\* new day's rows.
UnreportedBreachSpansMidnight ==
  \A a \in Accounts, d \in Days :
    ( /\ Governed(a)
      /\ ~ config[a].isPaused
      /\ BreachesLimit(config[a], spent[a][d]) ) =>
    \/ \E o \in overrides :
         o.account = a /\ o.type = "limit_breach" /\ o.day = d
    \/ \E r \in Requests :
         /\ pc[r] = "committed" /\ req[r].account = a
         /\ tx[r].rowDay = d /\ tx[r].checkedOn > d

-----------------------------------------------------------------------------
(***************************************************************************)
(* Liveness                                                                *)
(***************************************************************************)

\* Every call that reaches the service is answered, even when two transfers
\* wait for each other's wallet.
EveryRequestAnswered ==
  \A r \in Requests : pc[r] = "lock" ~> pc[r] \in Answered

-----------------------------------------------------------------------------
(***************************************************************************)
(* What comments, tests and the integration guide say of every account     *)
(***************************************************************************)

\* "If internal recipient, credit their wallet and record transaction":
\* the wallet of every account holds what its transaction rows add up to.
LedgerBalancedEverywhere == \A a \in Accounts : wallet[a] = posted[a]

\* Hard Decline, in the guide: the transfer is blocked and the savings remain
\* untouched.  No debit of an unpaused hard-decline account that commits
\* leaves less in the wallet than the protected sum.
HardDeclineHolds ==
  [][ \A r \in Requests :
        LET a == req[r].account
        IN /\ pc[r] = "commit" /\ pc'[r] = "committed"
           /\ IsDebit(r)
           /\ Governed(a)
           /\ ~ config[a].isPaused
           /\ config[a].cardBehaviour = "hard_decline"
           => wallet'[a] >= config[a].protectedSum ]_vars

=============================================================================
