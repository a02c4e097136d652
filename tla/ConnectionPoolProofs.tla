------------------------ MODULE ConnectionPoolProofs ------------------------
(***************************************************************************)
(* Proofs about ConnectionPool, for any pool, wallets and calls.  The      *)
(* inductive invariant says what the place a request is at tells of its    *)
(* connections, its place in the line and its row lock, and that the       *)
(* connections held and free add up to the pool.                           *)
(***************************************************************************)
EXTENDS ConnectionPool, FiniteSetTheorems, TLAPS

\* The requests that hold k connections at least.
Holding(k) == {r \in Requests : held[r] >= k}

\* No connection is lost or made up.
ConnectionsAddUp ==
  /\ IsFiniteSet(Holding(1)) /\ IsFiniteSet(Holding(2))
  /\ free + Cardinality(Holding(1)) + Cardinality(Holding(2)) = PoolSize

\* Where a request is tells how many connections it holds.
Holds(r) ==
  CASE pc[r] \in {"idle", "begin"} \union Answered -> 0
    [] pc[r] \in {"lock", "ask", "finish"} -> 1
    [] OTHER -> IF r \in Entries THEN 2 ELSE 1

HeldByPlace == \A r \in Requests : held[r] = Holds(r)

\* Only an entry locks rows and asks twice, and then it has lookups to do.
Places ==
  \A r \in Requests :
    /\ pc[r] \in {"lock", "ask", "finish"} => r \in Entries
    /\ pc[r] \in {"ask", "query"} /\ r \in Entries => left[r] > 0

\* The line holds those who wait, each once.
Line ==
  /\ \A i \in 1 .. Len(queue) : pc[queue[i]] \in Waiting
  /\ \A i, j \in 1 .. Len(queue) : queue[i] = queue[j] => i = j
  /\ \A r \in Requests :
       pc[r] \in Waiting => \E i \in 1 .. Len(queue) : queue[i] = r

\* An entry past its locking read has the lock of its wallet, and nobody else
\* has one.
PastLock == {"ask", "query", "finish"}

RowLocks ==
  /\ \A e \in Entries : pc[e] \in PastLock => rowLock[AccountOf[e]] = e
  /\ \A a \in Accounts :
       rowLock[a] # NoRequest =>
         pc[rowLock[a]] \in PastLock /\ AccountOf[rowLock[a]] = a

IInv ==
  TypeOK /\ ConnectionsAddUp /\ HeldByPlace /\ Places /\ Line /\ RowLocks

-----------------------------------------------------------------------------
(***************************************************************************)
(* The connections                                                         *)
(***************************************************************************)

\* The pool hands out a connection it has.
LEMMA HandOut ==
  ASSUME TypeOK, ConnectionsAddUp, NEW r \in Requests,
         free > 0, held[r] < 2,
         held' = [held EXCEPT ![r] = @ + 1], free' = free - 1
  PROVE  ConnectionsAddUp' /\ held' \in [Requests -> 0 .. 2] /\ free' \in 0 .. PoolSize
  <1>1. /\ held \in [Requests -> 0 .. 2] /\ free \in Nat /\ PoolSize \in Nat
        /\ held[r] = 0 \/ held[r] = 1
    BY PoolSizeAssumption DEF TypeOK
  <1>2. /\ IsFiniteSet(Holding(1)) /\ IsFiniteSet(Holding(2))
        /\ Cardinality(Holding(1)) \in Nat /\ Cardinality(Holding(2)) \in Nat
    BY FS_CardinalityType DEF ConnectionsAddUp
  <1>3. \A S : IsFiniteSet(S) /\ r \notin S =>
          IsFiniteSet(S \union {r}) /\ Cardinality(S \union {r}) = Cardinality(S) + 1
    BY FS_AddElement
  <1>4. ConnectionsAddUp'
    <2>1. CASE held[r] = 0
      <3>1. /\ Holding(1)' = Holding(1) \union {r} /\ r \notin Holding(1)
            /\ Holding(2)' = Holding(2)
        BY <1>1, <2>1 DEF Holding
      <3>2. /\ IsFiniteSet(Holding(1)')
            /\ Cardinality(Holding(1)') = Cardinality(Holding(1)) + 1
            /\ Cardinality(Holding(1)') \in Nat
        BY <1>2, <1>3, <3>1
      <3> QED BY <1>1, <1>2, <3>1, <3>2 DEF ConnectionsAddUp
    <2>2. CASE held[r] = 1
      <3>1. /\ Holding(2)' = Holding(2) \union {r} /\ r \notin Holding(2)
            /\ Holding(1)' = Holding(1)
        BY <1>1, <2>2 DEF Holding
      <3>2. /\ IsFiniteSet(Holding(2)')
            /\ Cardinality(Holding(2)') = Cardinality(Holding(2)) + 1
            /\ Cardinality(Holding(2)') \in Nat
        BY <1>2, <1>3, <3>1
      <3> QED BY <1>1, <1>2, <3>1, <3>2 DEF ConnectionsAddUp
    <2> QED BY <1>1, <2>1, <2>2
  <1> QED BY <1>1, <1>4 DEF TypeOK

\* A request gives one back.
LEMMA GiveBack ==
  ASSUME TypeOK, ConnectionsAddUp, NEW r \in Requests, held[r] > 0, Release(r, 1)
  PROVE  ConnectionsAddUp' /\ held' \in [Requests -> 0 .. 2] /\ free' \in 0 .. PoolSize
  <1>1. /\ held \in [Requests -> 0 .. 2] /\ free \in Nat /\ PoolSize \in Nat
        /\ held[r] = 1 \/ held[r] = 2
        /\ held' = [held EXCEPT ![r] = @ - 1] /\ free' = free + 1
    BY PoolSizeAssumption DEF TypeOK, Release
  <1>2. /\ IsFiniteSet(Holding(1)) /\ IsFiniteSet(Holding(2))
        /\ Cardinality(Holding(1)) \in Nat /\ Cardinality(Holding(2)) \in Nat
    BY FS_CardinalityType DEF ConnectionsAddUp
  <1>3. \A S : IsFiniteSet(S) /\ r \in S =>
          /\ IsFiniteSet(S \ {r}) /\ Cardinality(S \ {r}) = Cardinality(S) - 1
          /\ Cardinality(S \ {r}) \in Nat
    BY FS_RemoveElement, FS_CardinalityType
  <1>4. ConnectionsAddUp' /\ free' =< PoolSize
    <2>1. CASE held[r] = 1
      <3>1. /\ Holding(1)' = Holding(1) \ {r} /\ r \in Holding(1)
            /\ Holding(2)' = Holding(2)
        BY <1>1, <2>1 DEF Holding
      <3>2. /\ IsFiniteSet(Holding(1)')
            /\ Cardinality(Holding(1)') = Cardinality(Holding(1)) - 1
            /\ Cardinality(Holding(1)') \in Nat
        BY <1>2, <1>3, <3>1
      <3> QED BY <1>1, <1>2, <3>1, <3>2 DEF ConnectionsAddUp
    <2>2. CASE held[r] = 2
      <3>1. /\ Holding(2)' = Holding(2) \ {r} /\ r \in Holding(2)
            /\ Holding(1)' = Holding(1)
        BY <1>1, <2>2 DEF Holding
      <3>2. /\ IsFiniteSet(Holding(2)')
            /\ Cardinality(Holding(2)') = Cardinality(Holding(2)) - 1
            /\ Cardinality(Holding(2)') \in Nat
        BY <1>2, <1>3, <3>1
      <3> QED BY <1>1, <1>2, <3>1, <3>2 DEF ConnectionsAddUp
    <2> QED BY <1>1, <2>1, <2>2
  <1> QED BY <1>1, <1>4

-----------------------------------------------------------------------------
(***************************************************************************)
(* The line                                                                *)
(***************************************************************************)

\* A request that starts to wait goes to the end of the line.
LEMMA JoinLine ==
  ASSUME TypeOK, Line, NEW r \in Requests, NEW label \in Waiting,
         pc[r] \notin Waiting, Ask(r, label)
  PROVE  Line' /\ queue' \in Seq(Requests)
  <1>0. queue \in Seq(Requests) /\ queue' = Append(queue, r) /\ Goto(r, label)
    BY DEF TypeOK, Ask
  <1>1. /\ queue \in Seq(Requests) /\ queue' = Append(queue, r)
        /\ \A q \in Requests : pc'[q] = IF q = r THEN label ELSE pc[q]
    BY <1>0 DEF TypeOK, Goto
  <1>2. /\ Len(queue) \in Nat /\ Len(queue') = Len(queue) + 1
        /\ queue' \in Seq(Requests)
        /\ \A i \in 1 .. Len(queue) : queue'[i] = queue[i] /\ queue[i] \in Requests
        /\ queue'[Len(queue) + 1] = r
    BY <1>1
  <1>3. \A i \in 1 .. Len(queue) : queue[i] # r
    BY DEF Line
  <1> DEFINE m == Len(queue)
  <1> HIDE DEF m
  <1>4. \A i \in 1 .. m + 1 : pc'[queue'[i]] \in Waiting
    <2>1. \A i \in 1 .. m : pc'[queue'[i]] \in Waiting
      BY <1>1, <1>2, <1>3 DEF Line, m
    <2> QED BY <1>1, <1>2, <2>1 DEF m
  <1>5. \A i, j \in 1 .. m + 1 : queue'[i] = queue'[j] => i = j
    <2>1. \A i, j \in 1 .. m : queue'[i] = queue'[j] => i = j
      BY <1>2 DEF Line, m
    <2>2. \A i \in 1 .. m : queue'[i] # queue'[m + 1]
      BY <1>2, <1>3 DEF m
    <2>3. \A i \in 1 .. m + 1 : i \in 1 .. m \/ i = m + 1
      BY <1>2 DEF m
    <2> QED BY <2>1, <2>2, <2>3
  <1>6. \A q \in Requests :
          pc'[q] \in Waiting => \E i \in 1 .. m + 1 : queue'[i] = q
    <2> SUFFICES ASSUME NEW q \in Requests, pc'[q] \in Waiting
                 PROVE  \E i \in 1 .. m + 1 : queue'[i] = q
      OBVIOUS
    <2>1. CASE q = r
      BY <1>2, <2>1 DEF m
    <2>2. CASE q # r
      <3>1. PICK i \in 1 .. m : queue[i] = q
        BY <1>1, <2>2 DEF Line, m
      <3>2. i \in 1 .. m + 1 /\ queue'[i] = q
        BY <1>2, <3>1 DEF m
      <3> QED BY <3>2
    <2> QED BY <2>1, <2>2
  <1> QED BY <1>2, <1>4, <1>5, <1>6 DEF Line, m

\* The first in line is served, and nobody else loses a place.
LEMMA LeaveLine ==
  ASSUME TypeOK, Line, NEW r \in Requests, NEW label, label \notin Waiting,
         queue # <<>>, r = Head(queue), queue' = Tail(queue), Goto(r, label)
  PROVE  Line' /\ queue' \in Seq(Requests) /\ pc[r] \in Waiting
  <1>1. /\ queue \in Seq(Requests)
        /\ \A q \in Requests : pc'[q] = IF q = r THEN label ELSE pc[q]
    BY DEF TypeOK, Goto
  <1>2. /\ Len(queue) \in Nat \ {0} /\ queue[1] = r
        /\ queue' \in Seq(Requests) /\ Len(queue') = Len(queue) - 1
        /\ \A i \in 1 .. Len(queue') : queue'[i] = queue[i + 1]
    BY <1>1
  <1> DEFINE m == Len(queue')
  <1>3. /\ m \in Nat /\ Len(queue) = m + 1
        /\ \A i \in 1 .. m : i + 1 \in 1 .. m + 1 /\ i + 1 # 1
        /\ 1 \in 1 .. m + 1
    BY <1>2
  <1>4. pc[r] \in Waiting
    BY <1>2, <1>3 DEF Line
  <1> HIDE DEF m
  <1>5. \A i \in 1 .. m : queue'[i] # r /\ queue'[i] \in Requests
    BY <1>1, <1>2, <1>3 DEF Line, m
  <1>6. \A i \in 1 .. m : pc'[queue'[i]] \in Waiting
    BY <1>1, <1>2, <1>3, <1>5 DEF Line, m
  <1>7. \A i, j \in 1 .. m : queue'[i] = queue'[j] => i = j
    <2> SUFFICES ASSUME NEW i \in 1 .. m, NEW j \in 1 .. m, queue'[i] = queue'[j]
                 PROVE  i = j
      OBVIOUS
    <2>1. i + 1 = j + 1
      BY <1>2, <1>3 DEF Line, m
    <2> QED BY <2>1, <1>3
  <1>8. \A q \in Requests : pc'[q] \in Waiting => \E i \in 1 .. m : queue'[i] = q
    <2> SUFFICES ASSUME NEW q \in Requests, pc'[q] \in Waiting
                 PROVE  \E i \in 1 .. m : queue'[i] = q
      OBVIOUS
    <2>1. q # r /\ pc[q] \in Waiting
      BY <1>1
    <2>2. PICK i \in 1 .. m + 1 : queue[i] = q
      BY <1>3, <2>1 DEF Line
    <2>3. i # 1 /\ i - 1 \in 1 .. m
      BY <1>2, <1>3, <2>1, <2>2
    <2>4. queue'[i - 1] = q
      BY <1>2, <1>3, <2>2, <2>3 DEF m
    <2> QED BY <2>3, <2>4
  <1> QED BY <1>2, <1>4, <1>6, <1>7, <1>8 DEF Line, m

\* Whoever neither waits nor is going to leaves the line alone.
LEMMA KeepLine ==
  ASSUME TypeOK, Line, NEW r \in Requests, NEW label, label \notin Waiting,
         pc[r] \notin Waiting, Goto(r, label), UNCHANGED queue
  PROVE  Line'
  <1>1. \A q \in Requests : pc'[q] = IF q = r THEN label ELSE pc[q]
    BY DEF TypeOK, Goto
  <1>2. queue \in Seq(Requests) /\ queue' = queue
    BY DEF TypeOK
  <1>3. \A i \in 1 .. Len(queue) : queue[i] \in Requests /\ queue[i] # r
    BY <1>2 DEF Line
  <1> QED BY <1>1, <1>2, <1>3 DEF Line

-----------------------------------------------------------------------------
(***************************************************************************)
(* The inductive invariant                                                 *)
(***************************************************************************)

LEMMA InitIInv == Init => IInv
  <1> SUFFICES ASSUME Init PROVE IInv
    OBVIOUS
  <1> USE RequestsAssumption, PoolSizeAssumption DEF Init
  <1>1. TypeOK
    BY DEF TypeOK, Requests
  <1>2. ConnectionsAddUp
    <2>1. Holding(1) = {} /\ Holding(2) = {}
      BY DEF Holding
    <2>2. /\ IsFiniteSet(Holding(1)) /\ Cardinality(Holding(1)) = 0
          /\ IsFiniteSet(Holding(2)) /\ Cardinality(Holding(2)) = 0
      BY <2>1, FS_EmptySet
    <2> QED BY <2>2 DEF ConnectionsAddUp
  <1>3. HeldByPlace /\ Places /\ Line /\ RowLocks
    BY DEF HeldByPlace, Holds, Places, Line, RowLocks, Waiting, PastLock, Requests
  <1> QED BY <1>1, <1>2, <1>3 DEF IInv

\* Whoever keeps to one side of the locking read leaves the locks as they are.
LEMMA KeepRowLocks ==
  ASSUME TypeOK, RowLocks, NEW r \in Requests, NEW label, Goto(r, label),
         r \in Entries => (pc[r] \in PastLock <=> label \in PastLock),
         UNCHANGED rowLock
  PROVE  RowLocks'
  <1>1. \A q \in Requests : pc'[q] = IF q = r THEN label ELSE pc[q]
    BY DEF Goto, TypeOK
  <1>2. \A e \in Entries : pc'[e] \in PastLock => rowLock'[AccountOf[e]] = e
    BY <1>1 DEF RowLocks, Requests
  <1>3. ASSUME NEW a \in Accounts, rowLock'[a] # NoRequest
        PROVE  pc'[rowLock'[a]] \in PastLock /\ AccountOf[rowLock'[a]] = a
    <2>1. rowLock[a] \in Entries /\ pc[rowLock[a]] \in PastLock
          /\ AccountOf[rowLock[a]] = a
      BY <1>3 DEF RowLocks, TypeOK
    <2> QED BY <1>1, <2>1 DEF Requests
  <1> QED BY <1>2, <1>3 DEF RowLocks

LEMMA SubmitIInv ==
  ASSUME IInv, NEW r \in Requests, Submit(r)
  PROVE  IInv'
  <1> USE DEF IInv
  <1>1. /\ pc[r] = "idle" /\ Ask(r, "begin")
        /\ UNCHANGED <<left, held, free, rowLock>>
    BY DEF Submit
  <1>2. Line' /\ queue' \in Seq(Requests)
    BY <1>1, JoinLine DEF Waiting
  <1>3. \A q \in Requests : pc'[q] = IF q = r THEN "begin" ELSE pc[q]
    BY <1>1 DEF Ask, Goto, TypeOK
  <1>4. TypeOK'
    BY <1>1, <1>2 DEF TypeOK, Ask, Goto, Waiting
  <1>5. ConnectionsAddUp'
    BY <1>1 DEF ConnectionsAddUp, Holding
  <1>6. HeldByPlace'
    BY <1>1, <1>3 DEF HeldByPlace, Holds, Answered
  <1>7. Places'
    BY <1>1, <1>3 DEF Places
  <1>8. RowLocks'
    <2>1. pc[r] \notin PastLock /\ "begin" \notin PastLock /\ Goto(r, "begin")
      BY <1>1 DEF PastLock, Ask
    <2> QED BY ONLY <2>1, <1>1, KeepRowLocks, IInv, r \in Requests DEF IInv
  <1> QED BY <1>2, <1>4, <1>5, <1>6, <1>7, <1>8

LEMMA ConnectIInv ==
  ASSUME IInv, NEW r \in Requests, Connect(r)
  PROVE  IInv'
  <1> USE DEF IInv
  <1> DEFINE label == IF pc[r] = "begin" /\ r \in Entries THEN "lock" ELSE "query"
  <1>1. /\ queue # <<>> /\ r = Head(queue) /\ queue' = Tail(queue) /\ free > 0
        /\ free' = free - 1 /\ held' = [held EXCEPT ![r] = @ + 1]
        /\ Goto(r, label) /\ UNCHANGED <<left, rowLock>>
    BY DEF Connect
  <1>2. label \notin Waiting
    BY DEF Waiting
  <1>3. Line' /\ queue' \in Seq(Requests) /\ pc[r] \in Waiting
    BY ONLY <1>1, <1>2, LeaveLine, IInv DEF IInv
  <1>4. \A q \in Requests : pc'[q] = IF q = r THEN label ELSE pc[q]
    BY <1>1 DEF Goto, TypeOK
  <1>5. held[r] = IF pc[r] = "begin" THEN 0 ELSE 1
    BY <1>3 DEF HeldByPlace, Holds, Waiting
  <1>6. /\ ConnectionsAddUp' /\ held' \in [Requests -> 0 .. 2]
        /\ free' \in 0 .. PoolSize
    <2>1. held[r] < 2
      BY <1>5
    <2> QED BY ONLY <2>1, <1>1, HandOut, IInv, r \in Requests DEF IInv
  <1>7. TypeOK'
    BY <1>1, <1>3, <1>6 DEF TypeOK, Goto
  <1>8. HeldByPlace'
    <2>1. held'[r] = Holds(r)'
      BY <1>1, <1>3, <1>4, <1>5 DEF Holds, Waiting, Answered, TypeOK, Places
    <2>2. \A q \in Requests : q # r => held'[q] = held[q] /\ Holds(q)' = Holds(q)
      BY <1>1, <1>4 DEF TypeOK, Holds
    <2> QED BY <2>1, <2>2 DEF HeldByPlace
  <1>9. Places'
    BY <1>1, <1>3, <1>4 DEF Places, Waiting
  <1>10. RowLocks'
    <2>1. r \in Entries => (pc[r] \in PastLock <=> label \in PastLock)
      BY <1>3 DEF PastLock, Waiting
    <2> QED BY ONLY <2>1, <1>1, KeepRowLocks, IInv, r \in Requests DEF IInv
  <1> QED BY <1>3, <1>6, <1>7, <1>8, <1>9, <1>10

LEMMA LockWalletIInv ==
  ASSUME IInv, NEW r \in Requests, LockWallet(r)
  PROVE  IInv'
  <1> USE DEF IInv
  <1> DEFINE label == IF left[r] = 0 THEN "finish" ELSE "ask"
             a == AccountOf[r]
  <1>1. /\ pc[r] = "lock" /\ rowLock[a] = NoRequest
        /\ rowLock' = [rowLock EXCEPT ![a] = r]
        /\ Goto(r, label) /\ UNCHANGED <<left, held, free>>
        /\ IF left[r] = 0 THEN UNCHANGED queue ELSE Ask(r, "ask")
    BY DEF LockWallet, Ask
  <1>2. r \in Entries /\ a \in Accounts /\ r # NoRequest
    BY <1>1, RequestsAssumption DEF Places, Requests
  <1>3. \A q \in Requests : pc'[q] = IF q = r THEN label ELSE pc[q]
    BY <1>1 DEF Goto, TypeOK
  <1>4. Line' /\ queue' \in Seq(Requests)
    <2>1. CASE left[r] = 0
      <3>1. label \notin Waiting /\ pc[r] \notin Waiting /\ UNCHANGED queue
        BY <1>1, <2>1 DEF Waiting
      <3>2. Line'
        BY ONLY <1>1, <3>1, KeepLine, IInv, r \in Requests DEF IInv
      <3> QED BY <3>1, <3>2 DEF TypeOK
    <2>2. CASE left[r] # 0
      <3>1. "ask" \in Waiting /\ pc[r] \notin Waiting /\ Ask(r, "ask")
        BY <1>1, <2>2 DEF Waiting
      <3> QED BY ONLY <3>1, JoinLine, IInv, r \in Requests DEF IInv
    <2> QED BY <2>1, <2>2
  <1>5. TypeOK'
    BY <1>1, <1>2, <1>4 DEF TypeOK, Goto, Waiting
  <1>6. ConnectionsAddUp'
    BY <1>1 DEF ConnectionsAddUp, Holding
  <1>7. HeldByPlace'
    BY <1>1, <1>3 DEF HeldByPlace, Holds, Answered
  <1>8. Places'
    BY <1>1, <1>2, <1>3 DEF Places, TypeOK
  <1>9. RowLocks'
    <2>1. \A e \in Entries : pc'[e] \in PastLock => rowLock'[AccountOf[e]] = e
      <3> SUFFICES ASSUME NEW e \in Entries, pc'[e] \in PastLock, e # r
                   PROVE  rowLock'[AccountOf[e]] = e
        BY <1>1, <1>2 DEF TypeOK
      <3>1. pc[e] \in PastLock /\ e # NoRequest
        BY <1>3, RequestsAssumption DEF Requests
      <3> QED BY <1>1, <3>1 DEF RowLocks, TypeOK
    <2>2. \A b \in Accounts : rowLock'[b] # NoRequest =>
            pc'[rowLock'[b]] \in PastLock /\ AccountOf[rowLock'[b]] = b
      <3> SUFFICES ASSUME NEW b \in Accounts, rowLock'[b] # NoRequest
                   PROVE  pc'[rowLock'[b]] \in PastLock /\ AccountOf[rowLock'[b]] = b
        OBVIOUS
      <3>1. CASE b = a
        BY <1>1, <1>2, <1>3, <3>1 DEF TypeOK, PastLock
      <3>2. CASE b # a
        BY <1>1, <1>2, <1>3, <3>2 DEF TypeOK, PastLock, RowLocks, Requests
      <3> QED BY <3>1, <3>2
    <2> QED BY <2>1, <2>2 DEF RowLocks
  <1> QED BY <1>4, <1>5, <1>6, <1>7, <1>8, <1>9

LEMMA LockWaitFailsIInv ==
  ASSUME IInv, NEW r \in Requests, LockWaitFails(r)
  PROVE  IInv'
  <1> USE DEF IInv
  <1>1. /\ pc[r] = "lock" /\ Release(r, 1) /\ Goto(r, "failed")
        /\ UNCHANGED <<left, queue, rowLock>>
    BY DEF LockWaitFails
  <1>2. \A q \in Requests : pc'[q] = IF q = r THEN "failed" ELSE pc[q]
    BY <1>1 DEF Goto, TypeOK
  <1>3. held[r] = 1 /\ held' = [held EXCEPT ![r] = @ - 1]
    BY <1>1 DEF HeldByPlace, Holds, Answered, Release
  <1>4. /\ ConnectionsAddUp' /\ held' \in [Requests -> 0 .. 2]
        /\ free' \in 0 .. PoolSize
    BY <1>1, <1>3, GiveBack
  <1>5. Line'
    BY <1>1, KeepLine DEF Waiting
  <1>6. TypeOK'
    BY <1>1, <1>4 DEF TypeOK, Goto, Answered
  <1>7. HeldByPlace'
    BY <1>1, <1>2, <1>3 DEF HeldByPlace, Holds, Answered, TypeOK
  <1>8. Places'
    BY <1>1, <1>2 DEF Places
  <1>9. RowLocks'
    <2>1. pc[r] \notin PastLock /\ "failed" \notin PastLock
      BY <1>1 DEF PastLock
    <2> QED BY ONLY <2>1, <1>1, KeepRowLocks, IInv, r \in Requests DEF IInv
  <1> QED BY <1>4, <1>5, <1>6, <1>7, <1>8, <1>9

LEMMA QueryIInv ==
  ASSUME IInv, NEW r \in Requests, Query(r)
  PROVE  IInv'
  <1> USE DEF IInv
  <1> DEFINE label == IF r \in Plain THEN "answered"
                      ELSE IF left[r] = 1 THEN "finish" ELSE "ask"
  <1>1. /\ pc[r] = "query" /\ Release(r, 1) /\ Goto(r, label) /\ UNCHANGED rowLock
        /\ left' = IF r \in Plain THEN left ELSE [left EXCEPT ![r] = @ - 1]
        /\ IF label = "ask" THEN Ask(r, "ask") ELSE UNCHANGED queue
    BY DEF Query, Ask
  <1>2. r \in Entries <=> r \notin Plain
    BY RequestsAssumption DEF Requests
  <1>3. \A q \in Requests : pc'[q] = IF q = r THEN label ELSE pc[q]
    BY <1>1 DEF Goto, TypeOK
  <1>4. /\ held[r] = (IF r \in Entries THEN 2 ELSE 1)
        /\ held' = [held EXCEPT ![r] = @ - 1]
    BY <1>1 DEF HeldByPlace, Holds, Answered, Release
  <1>5. /\ ConnectionsAddUp' /\ held' \in [Requests -> 0 .. 2]
        /\ free' \in 0 .. PoolSize
    BY <1>1, <1>4, GiveBack
  <1>6. Line' /\ queue' \in Seq(Requests)
    <2>1. CASE label = "ask"
      <3>1. "ask" \in Waiting /\ pc[r] \notin Waiting /\ Ask(r, "ask")
        BY <1>1, <2>1 DEF Waiting
      <3> QED BY ONLY <3>1, JoinLine, IInv, r \in Requests DEF IInv
    <2>2. CASE label # "ask"
      <3>1. label \notin Waiting /\ pc[r] \notin Waiting /\ UNCHANGED queue
        BY <1>1, <2>2 DEF Waiting
      <3>2. Line'
        BY ONLY <1>1, <3>1, KeepLine, IInv, r \in Requests DEF IInv
      <3> QED BY <3>1, <3>2 DEF TypeOK
    <2> QED BY <2>1, <2>2
  <1>7. left' \in [Entries -> Nat]
    BY <1>1, <1>2 DEF Places, TypeOK
  <1>8. TypeOK'
    BY <1>1, <1>5, <1>6, <1>7 DEF TypeOK, Goto, Waiting, Answered
  <1>9. HeldByPlace'
    <2>1. held'[r] = Holds(r)'
      BY <1>1, <1>2, <1>3, <1>4 DEF Holds, Answered, TypeOK
    <2>2. \A q \in Requests : q # r => held'[q] = held[q] /\ Holds(q)' = Holds(q)
      BY <1>3, <1>4 DEF TypeOK, Holds
    <2> QED BY <2>1, <2>2 DEF HeldByPlace
  <1>10. Places'
    BY <1>1, <1>2, <1>3 DEF Places, TypeOK
  <1>11. RowLocks'
    <2>1. r \in Entries => (pc[r] \in PastLock <=> label \in PastLock)
      BY <1>1, <1>2 DEF PastLock
    <2> QED BY ONLY <2>1, <1>1, KeepRowLocks, IInv, r \in Requests DEF IInv
  <1> QED BY <1>5, <1>6, <1>8, <1>9, <1>10, <1>11

LEMMA FinishIInv ==
  ASSUME IInv, NEW r \in Requests, Finish(r)
  PROVE  IInv'
  <1> USE DEF IInv
  <1> DEFINE a == AccountOf[r]
  <1>1. /\ pc[r] = "finish" /\ Release(r, 1) /\ Goto(r, "answered")
        /\ rowLock' = [rowLock EXCEPT ![a] = NoRequest]
        /\ UNCHANGED <<left, queue>>
    BY DEF Finish
  <1>2. /\ r \in Entries /\ a \in Accounts /\ rowLock[a] = r
        /\ \A q \in Requests : pc'[q] = IF q = r THEN "answered" ELSE pc[q]
    BY <1>1, RequestsAssumption DEF Places, RowLocks, PastLock, Goto, TypeOK
  <1>3. held[r] = 1 /\ held' = [held EXCEPT ![r] = @ - 1]
    BY <1>1 DEF HeldByPlace, Holds, Answered, Release
  <1>4. /\ ConnectionsAddUp' /\ held' \in [Requests -> 0 .. 2]
        /\ free' \in 0 .. PoolSize
    BY <1>1, <1>3, GiveBack
  <1>5. Line'
    BY <1>1, KeepLine DEF Waiting
  <1>6. TypeOK'
    BY <1>1, <1>4 DEF TypeOK, Goto, Answered
  <1>7. HeldByPlace'
    BY <1>1, <1>2, <1>3 DEF HeldByPlace, Holds, Answered, TypeOK
  <1>8. Places'
    BY <1>1, <1>2 DEF Places
  <1>9. RowLocks'
    <2>1. \A e \in Entries : pc'[e] \in PastLock => rowLock'[AccountOf[e]] = e
      <3> SUFFICES ASSUME NEW e \in Entries, pc'[e] \in PastLock
                   PROVE  rowLock'[AccountOf[e]] = e
        OBVIOUS
      <3>1. e # r /\ pc[e] \in PastLock /\ rowLock[AccountOf[e]] = e
        BY <1>2 DEF PastLock, RowLocks, Requests
      <3>2. AccountOf[e] # a
        BY <1>2, <3>1
      <3> QED BY <1>1, <3>1, <3>2, RequestsAssumption DEF TypeOK
    <2>2. \A b \in Accounts : rowLock'[b] # NoRequest =>
            pc'[rowLock'[b]] \in PastLock /\ AccountOf[rowLock'[b]] = b
      <3> SUFFICES ASSUME NEW b \in Accounts, rowLock'[b] # NoRequest
                   PROVE  pc'[rowLock'[b]] \in PastLock /\ AccountOf[rowLock'[b]] = b
        OBVIOUS
      <3>1. b # a /\ rowLock'[b] = rowLock[b]
        BY <1>1 DEF TypeOK
      <3>2. rowLock[b] \in Entries /\ AccountOf[rowLock[b]] = b
             /\ pc[rowLock[b]] \in PastLock /\ rowLock[b] # r
        BY <3>1 DEF RowLocks, TypeOK
      <3> QED BY <1>2, <3>1, <3>2 DEF Requests
    <2> QED BY <2>1, <2>2 DEF RowLocks
  <1> QED BY <1>4, <1>5, <1>6, <1>7, <1>8, <1>9

LEMMA StepIInv == IInv /\ [Next]_vars => IInv'
  <1> SUFFICES ASSUME IInv, [Next]_vars PROVE IInv'
    OBVIOUS
  <1>1. ASSUME NEW r \in Requests, Submit(r) \/ Serve(r) PROVE IInv'
    BY <1>1, SubmitIInv, ConnectIInv, LockWalletIInv, LockWaitFailsIInv, QueryIInv,
       FinishIInv DEF Serve
  <1>2. CASE UNCHANGED vars
    BY <1>2 DEF vars, IInv, TypeOK, ConnectionsAddUp, Holding, HeldByPlace, Holds,
                Places, Line, RowLocks
  <1> QED BY <1>1, <1>2 DEF Next

LEMMA PoolInvariant == Spec => []IInv
  BY InitIInv, StepIInv, PTL DEF Spec

-----------------------------------------------------------------------------
(***************************************************************************)
(* Theorems                                                                *)
(***************************************************************************)

\* The pool hands out no more connections than it has, nobody holds more than
\* two, and only entries lock rows.
THEOREM PoolTypeCorrect == Spec => []TypeOK
  <1>1. IInv => TypeOK
    BY DEF IInv
  <1> QED BY <1>1, PoolInvariant, PTL

\* No connection is lost, whatever fails: when nothing is in flight the pool is
\* whole again.
THEOREM PoolRefillsAlways == Spec => []PoolRefills
  <1>1. IInv => PoolRefills
    <2> SUFFICES ASSUME IInv,
                        \A r \in Requests : pc[r] \in {"idle"} \union Answered
                 PROVE  free = PoolSize
      BY DEF PoolRefills
    <2>1. \A r \in Requests : held[r] = 0
      BY DEF IInv, HeldByPlace, Holds, Answered
    <2>2. Holding(1) = {} /\ Holding(2) = {}
      BY <2>1 DEF Holding
    <2>3. Cardinality(Holding(1)) = 0 /\ Cardinality(Holding(2)) = 0
      BY <2>2, FS_EmptySet
    <2> QED BY <2>3, PoolSizeAssumption DEF IInv, ConnectionsAddUp, TypeOK
  <1> QED BY <1>1, PoolInvariant, PTL

LockedAccounts == {a \in Accounts : rowLock[a] # NoRequest}

\* In a hang every connection is held by an entry in its transaction, which is
\* the one that has locked its wallet.
LEMMA HangShape ==
  ASSUME IInv, Stuck
  PROVE  /\ free = 0 /\ Holding(2) = {}
         /\ ExistsBijection(Holding(1), LockedAccounts)
  <1> USE DEF IInv
  <1>1. \A r \in Requests : pc[r] \in {"idle", "begin", "ask"} \union Answered
    BY DEF Stuck, CanMove, TypeOK, Waiting
  <1>2. PICK s \in Requests : pc[s] \in Waiting
    BY <1>1 DEF Stuck, Waiting
  <1>3. queue # <<>> /\ Head(queue) \in Requests
    <2>1. PICK i \in 1 .. Len(queue) : queue[i] = s
      BY <1>2 DEF Line
    <2>2. queue # <<>>
      BY <2>1
    <2> QED BY <2>2 DEF TypeOK
  <1>4. free = 0
    BY <1>3 DEF Stuck, CanMove, TypeOK
  <1>5. \A r \in Requests : held[r] = IF pc[r] = "ask" THEN 1 ELSE 0
    BY <1>1 DEF HeldByPlace, Holds, Answered
  <1>6. Holding(2) = {} /\ Holding(1) = {r \in Requests : pc[r] = "ask"}
    BY <1>5 DEF Holding
  <1> DEFINE f == [r \in Holding(1) |-> AccountOf[r]]
  <1>7. \A r \in Holding(1) :
          r \in Entries /\ AccountOf[r] \in LockedAccounts
          /\ rowLock[AccountOf[r]] = r
    BY <1>6, RequestsAssumption
    DEF Places, RowLocks, PastLock, LockedAccounts, Requests
  <1>8. \A a \in LockedAccounts : rowLock[a] \in Holding(1) /\ f[rowLock[a]] = a
    <2> SUFFICES ASSUME NEW a \in LockedAccounts
                 PROVE  rowLock[a] \in Holding(1) /\ AccountOf[rowLock[a]] = a
      OBVIOUS
    <2>1. rowLock[a] \in Requests /\ pc[rowLock[a]] \in PastLock
          /\ AccountOf[rowLock[a]] = a
      BY DEF LockedAccounts, RowLocks, TypeOK, Requests
    <2> QED BY <1>1, <1>6, <2>1 DEF PastLock, Answered
  <1>9. f \in Bijection(Holding(1), LockedAccounts)
    BY <1>7, <1>8 DEF Bijection, Injection, Surjection, IsInjective
  <1> QED BY <1>4, <1>6, <1>9 DEF ExistsBijection

\* The service hangs in one way only, whatever the pool and the calls: as many
\* debits as there are connections, of as many wallets, all wait for a lookup's.
THEOREM HangsOnlyFull == Spec => []StuckOnlyWhenDebitsFillThePool
  <1>1. IInv => StuckOnlyWhenDebitsFillThePool
    <2> SUFFICES ASSUME IInv, Stuck
                 PROVE  Cardinality(LockedAccounts) = PoolSize
      BY DEF StuckOnlyWhenDebitsFillThePool, LockedAccounts
    <2>1. /\ free = 0 /\ Holding(2) = {}
          /\ ExistsBijection(Holding(1), LockedAccounts)
      BY HangShape
    <2>2. Cardinality(LockedAccounts) = Cardinality(Holding(1))
      BY <2>1, FS_Bijection DEF IInv, ConnectionsAddUp
    <2>3. Cardinality(Holding(2)) = 0 /\ Cardinality(Holding(1)) \in Nat
      BY <2>1, FS_EmptySet, FS_CardinalityType DEF IInv, ConnectionsAddUp
    <2> QED BY <2>1, <2>2, <2>3, PoolSizeAssumption DEF IInv, ConnectionsAddUp
  <1> QED BY <1>1, PoolInvariant, PTL

\* A pool with more connections than there are wallets never hangs.
THEOREM LargePoolNeverHangs ==
  ASSUME IsFiniteSet(Accounts), Cardinality(Accounts) < PoolSize
  PROVE  Spec => [] ~ Stuck
  <1>1. Cardinality(LockedAccounts) =< Cardinality(Accounts)
        /\ Cardinality(LockedAccounts) \in Nat /\ Cardinality(Accounts) \in Nat
    BY FS_Subset, FS_CardinalityType DEF LockedAccounts
  <1>2. StuckOnlyWhenDebitsFillThePool => ~ Stuck
    BY <1>1, PoolSizeAssumption DEF StuckOnlyWhenDebitsFillThePool, LockedAccounts
  <1> QED BY <1>2, HangsOnlyFull, PTL

=============================================================================
