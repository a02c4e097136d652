--------------------------- MODULE ConnectionPool ---------------------------
(***************************************************************************)
(* The database connections the money path needs.  applyEntry and transfer *)
(* run in a transaction, which keeps one connection of the pool from BEGIN *)
(* to COMMIT; meanwhile assertWithdrawalAllowed and getDbOffset query      *)
(* through the repositories of SafiService, which take another connection  *)
(* for each statement.  The pool is mysql2's with its defaults: at most    *)
(* PoolSize connections, callers wait in line, and wait for as long as it  *)
(* takes.                                                                  *)
(***************************************************************************)
EXTENDS Integers, Sequences, FiniteSets

CONSTANTS
  Accounts,   \* wallets
  Plain,      \* calls that run one statement outside any transaction
  Entries,    \* calls of fund, withdraw and transfer
  NoRequest,  \* nobody holds the row lock
  AccountOf,  \* [Entries -> Accounts], whose wallet the call locks
  Lookups,    \* [Entries -> Nat], the statements it runs outside its
              \* transaction: 0 for a credit; for a debit 1 when the account
              \* has no config or is paused, 2 when it is policed, 3 when it
              \* is strict and policed
  PoolSize    \* connectionLimit

Requests == Plain \union Entries

ASSUME RequestsAssumption ==
  /\ Plain \intersect Entries = {}
  /\ NoRequest \notin Requests
  /\ AccountOf \in [Entries -> Accounts]
  /\ Lookups \in [Entries -> Nat]

ASSUME PoolSizeAssumption == PoolSize \in Nat \ {0}

VARIABLES
  pc,       \* where each request is
  left,     \* the statements it still has to run outside its transaction
  held,     \* the connections it holds
  free,     \* the connections nobody holds
  queue,    \* the requests waiting for a connection, first come first served
  rowLock   \* the request whose transaction holds the wallet's row lock

vars == <<pc, left, held, free, queue, rowLock>>

Waiting == {"begin", "ask"}
Answered == {"answered", "failed"}

\* The type invariant.
TypeOK ==
  /\ pc \in [Requests -> {"idle", "lock", "query", "finish"} \union Waiting
                           \union Answered]
  /\ left \in [Entries -> Nat]
  /\ held \in [Requests -> 0 .. 2]
  /\ free \in 0 .. PoolSize
  /\ queue \in Seq(Requests)
  /\ rowLock \in [Accounts -> Entries \union {NoRequest}]

Init ==
  /\ pc = [r \in Requests |-> "idle"]
  /\ left = Lookups
  /\ held = [r \in Requests |-> 0]
  /\ free = PoolSize
  /\ queue = <<>>
  /\ rowLock = [a \in Accounts |-> NoRequest]

-----------------------------------------------------------------------------
Goto(r, label) == pc' = [pc EXCEPT ![r] = label]

\* Request r asks the pool for a connection.
Ask(r, label) ==
  /\ Goto(r, label)
  /\ queue' = Append(queue, r)

\* Request r gives n connections back.
Release(r, n) ==
  /\ held' = [held EXCEPT ![r] = @ - n]
  /\ free' = free + n

Submit(r) ==
  /\ pc[r] = "idle"
  /\ Ask(r, "begin")
  /\ UNCHANGED <<left, held, free, rowLock>>

\* The pool serves the first in line.
Connect(r) ==
  /\ queue # <<>> /\ r = Head(queue)
  /\ free > 0
  /\ queue' = Tail(queue)
  /\ free' = free - 1
  /\ held' = [held EXCEPT ![r] = @ + 1]
  /\ Goto(r, IF pc[r] = "begin" /\ r \in Entries THEN "lock" ELSE "query")
  /\ UNCHANGED <<left, rowLock>>

\* SELECT ... FOR UPDATE; a debit then asks for its first lookup's connection.
LockWallet(r) ==
  /\ pc[r] = "lock"
  /\ rowLock[AccountOf[r]] = NoRequest
  /\ rowLock' = [rowLock EXCEPT ![AccountOf[r]] = r]
  /\ IF left[r] = 0 THEN Goto(r, "finish") /\ UNCHANGED queue
                    ELSE Ask(r, "ask")
  /\ UNCHANGED <<left, held, free>>

\* Mutant: the rollback gives the connection back twice.
LockWaitReleasesTwice(r) ==
  /\ pc[r] = "lock"
  /\ rowLock[AccountOf[r]] # NoRequest
  /\ Release(r, 2)
  /\ Goto(r, "failed")
  /\ UNCHANGED <<left, queue, rowLock>>

\* Mutant: the rollback keeps the connection.
LockWaitLeaks(r) ==
  /\ pc[r] = "lock"
  /\ rowLock[AccountOf[r]] # NoRequest
  /\ Goto(r, "failed")
  /\ UNCHANGED <<left, held, free, queue, rowLock>>

\* Mutant: a row lock is waited for without end.
LockWaitNeverFails(r) == pc[r] = "lock" /\ UNCHANGED vars

\* innodb_lock_wait_timeout: the transaction rolls back.
LockWaitFails(r) ==
  /\ pc[r] = "lock"
  /\ rowLock[AccountOf[r]] # NoRequest
  /\ Release(r, 1)
  /\ Goto(r, "failed")
  /\ UNCHANGED <<left, queue, rowLock>>

\* Mutant: the connection of a plain statement is not given back.
QueryLeaksPlain(r) ==
  /\ pc[r] = "query"
  /\ IF r \in Plain
     THEN Goto(r, "answered") /\ UNCHANGED <<left, held, free, queue>>
     ELSE /\ Release(r, 1)
          /\ left' = [left EXCEPT ![r] = @ - 1]
          /\ IF left[r] = 1 THEN Goto(r, "finish") /\ UNCHANGED queue
                            ELSE Ask(r, "ask")
  /\ UNCHANGED rowLock

\* A statement outside the transaction returns, and so does its connection.
Query(r) ==
  /\ pc[r] = "query"
  /\ Release(r, 1)
  /\ IF r \in Plain
     THEN Goto(r, "answered") /\ UNCHANGED <<left, queue>>
     ELSE /\ left' = [left EXCEPT ![r] = @ - 1]
          /\ IF left[r] = 1 THEN Goto(r, "finish") /\ UNCHANGED queue
                            ELSE Ask(r, "ask")
  /\ UNCHANGED rowLock

\* COMMIT, or the ROLLBACK of a debit Safi declined.
Finish(r) ==
  /\ pc[r] = "finish"
  /\ Release(r, 1)
  /\ rowLock' = [rowLock EXCEPT ![AccountOf[r]] = NoRequest]
  /\ Goto(r, "answered")
  /\ UNCHANGED <<left, queue>>

Serve(r) ==
  \/ Connect(r)
  \/ LockWallet(r)
  \/ LockWaitFails(r)
  \/ Query(r)
  \/ Finish(r)

Next == \E r \in Requests : Submit(r) \/ Serve(r)

Spec == Init /\ [][Next]_vars

\* The pool, Node and MySQL do for every request what they can do.
FairSpec == Spec /\ \A r \in Requests : WF_vars(Serve(r))

-----------------------------------------------------------------------------
\* Nobody in the building can move: every call that has arrived and is not
\* answered waits for a connection, and there is none.
CanMove(r) ==
  \/ pc[r] \in {"lock", "query", "finish"}
  \/ free > 0 /\ queue # <<>> /\ r = Head(queue)

Stuck ==
  /\ \E r \in Requests : pc[r] \notin {"idle"} \union Answered
  /\ \A r \in Requests : ~ CanMove(r)

\* The service hangs in one way only: as many debits as there are connections,
\* of as many different wallets, each in its transaction and each waiting for
\* the connection of a lookup.  Calls on one wallet never do it (a waiter's
\* lock wait ends), nor do plain calls, whatever the queue looks like.
StuckOnlyWhenDebitsFillThePool ==
  Stuck => Cardinality({a \in Accounts : rowLock[a] # NoRequest}) = PoolSize

\* No connection is lost: when nothing is in flight the pool is whole again.
PoolRefills ==
  (\A r \in Requests : pc[r] \in {"idle"} \union Answered) => free = PoolSize

\* Every call that reaches the service is answered or caught in such a hang:
\* nobody starves in the pool's line or on a row lock while others move on.
AnsweredUnlessStuck ==
  \A r \in Requests : pc[r] = "begin" ~> (pc[r] \in Answered \/ Stuck)

\* Every call that reaches the service is answered.  The guide says of slow
\* answers that Safi "fails open" and that cardholders "never" are "stranded".
NobodyStranded ==
  \A r \in Requests : pc[r] = "begin" ~> pc[r] \in Answered

=============================================================================
