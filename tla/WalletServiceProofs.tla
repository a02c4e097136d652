------------------------ MODULE WalletServiceProofs ------------------------
(***************************************************************************)
(* Proofs about WalletService, for any accounts, requests, amounts and     *)
(* configurations.  The inductive invariant is built in three layers, each *)
(* proved with the ones before it:                                         *)
(*   TypeInv   the types, and what the program counter says about a        *)
(*             request that the types of its next step rest on;            *)
(*   LockInv   a request past its locking read holds the lock of its       *)
(*             wallet;                                                     *)
(*   MoneyInv  what such a request has read and what Safi has decided for  *)
(*             it is still true, and the properties themselves.            *)
(***************************************************************************)
EXTENDS WalletService, TLAPS

Holding == InFlight \ {"lock"}

-----------------------------------------------------------------------------
(***************************************************************************)
(* Types                                                                   *)
(***************************************************************************)

\* The balance covers a debit from the locking read on.
Sufficient ==
  \A r \in Requests :
    pc[r] \in Holding /\ IsDebit(r) => tx[r].balanceBefore >= req[r].amount

\* Only a transfer to another wallet waits for a recipient's lock.
CreditPoint ==
  \A r \in Requests : pc[r] = "credit" => CreditsRecipient(r)

TypeInv == TypeOK /\ Sufficient /\ CreditPoint

LEMMA InitTypeInv == Init => TypeInv
  <1> SUFFICES ASSUME Init PROVE TypeInv
    OBVIOUS
  <1> USE OpeningBalanceAssumption, SetupsAssumption, MaxDayAssumption
        DEF Init
  <1>1. 0 \in Days
    BY DEF Days
  <1>2. EmptyTx \in TxLocals
    BY <1>1 DEF EmptyTx, TxLocals
  <1>3. TypeOK
    BY <1>1, <1>2 DEF TypeOK, NoRow
  <1>4. Sufficient /\ CreditPoint
    BY DEF Sufficient, CreditPoint, Holding, InFlight
  <1> QED BY <1>3, <1>4 DEF TypeInv

\* The config recordTransaction saves is again a config.
LEMMA ConfigAfterDebitType ==
  ASSUME NEW c \in SafiConfigs, NEW seen \in SafiConfigs,
         NEW amount \in Nat, NEW balanceAfter \in Nat, NEW spentToday \in Nat
  PROVE  ConfigAfterDebit(c, seen, amount, balanceAfter, spentToday) \in SafiConfigs
  <1> DEFINE draws == DrawsOnBuffer(seen, balanceAfter)
             left  == BufferLeft(seen, amount, balanceAfter)
             remaining == IF left > 0 THEN left ELSE 0
  <1>1. left \in Int
    BY DEF BufferLeft, BufferUsed, SafiConfigs
  <1>2. remaining \in Nat
    BY <1>1
  <1> HIDE DEF draws, left, remaining
  <1>3. c.cardBehaviour \in CardBehaviours /\ "hard_decline" \in CardBehaviours
    BY DEF SafiConfigs, CardBehaviours
  <1>4. /\ (IF draws /\ remaining # seen.remainingBuffer
            THEN remaining ELSE c.remainingBuffer) \in Nat
        /\ (IF draws /\ left =< 0 THEN "hard_decline" ELSE c.cardBehaviour)
             \in CardBehaviours
    BY <1>2, <1>3 DEF SafiConfigs
  <1>5. (c.overrideActive
           \/ ( /\ ~ seen.overrideActive
                /\ TriggersOverride(seen, balanceAfter, spentToday) )) \in BOOLEAN
    BY DEF SafiConfigs
  <1> QED
    BY <1>4, <1>5 DEF ConfigAfterDebit, SafiConfigs, draws, left, remaining

\* What TypeOK says of the request a step is about, read off once.
LEMMA RequestTypes ==
  ASSUME TypeOK, NEW r \in Requests, pc[r] # "idle"
  PROVE  /\ req[r] \in RequestRecords
         /\ req[r].account \in Accounts
         /\ req[r].amount \in Nat /\ req[r].amount > 0
         /\ req[r].to \in Recipients \union {External}
         /\ tx[r] \in TxLocals
         /\ tx[r].balanceBefore \in Nat
         /\ tx[r].recipientBefore \in Nat
         /\ tx[r].seen \in SafiConfigs \union {NoConfig}
         /\ tx[r].rowDay \in Days
  <1>1. req[r] \in RequestRecords /\ tx[r] \in TxLocals
    BY DEF TypeOK
  <1>2. req[r].account \in Accounts /\ req[r].to \in Recipients \union {External}
        /\ req[r].amount \in Amounts
    BY <1>1 DEF RequestRecords
  <1>3. \A n \in Amounts : n \in Nat /\ n > 0
    BY AmountsAssumption
  <1>4. /\ tx[r].balanceBefore \in Nat
        /\ tx[r].recipientBefore \in Nat
        /\ tx[r].seen \in SafiConfigs \union {NoConfig}
        /\ tx[r].rowDay \in Days
    BY <1>1 DEF TxLocals
  <1>5. req[r].amount \in Nat /\ req[r].amount > 0
    BY ONLY <1>2, <1>3
  <1> QED BY <1>1, <1>2, <1>4, <1>5

LEMMA RollBackTypeInv ==
  ASSUME TypeInv, NEW r \in Requests, NEW answer \in Answered,
         pc[r] \in InFlight, RollBack(r, answer)
  PROVE  TypeInv'
  <1> USE DEF RollBack, Goto, ledger, safi
  <1>1. WithoutLocks(r) \in [Accounts -> Requests \union {NoRequest}]
    BY DEF TypeInv, TypeOK, WithoutLocks
  <1>2. \A s \in Requests : pc'[s] = IF s = r THEN answer ELSE pc[s]
    BY DEF TypeInv, TypeOK
  <1>3. pc'[r] \notin Holding /\ pc'[r] # "credit"
    BY <1>2 DEF Answered, Holding, InFlight
  <1>4. TypeOK'
    BY <1>1, <1>2, <1>3 DEF TypeInv, TypeOK, InFlight
  <1>5. Sufficient'
    BY <1>2, <1>3 DEF TypeInv, Sufficient, IsDebit
  <1>6. CreditPoint'
    BY <1>2, <1>3 DEF TypeInv, CreditPoint, CreditsRecipient
  <1> QED BY <1>4, <1>5, <1>6 DEF TypeInv

LEMMA SubmitTypeInv ==
  ASSUME TypeInv, NEW r \in Requests, Submit(r)
  PROVE  TypeInv'
  <1> USE DEF Submit, Goto, ledger, safi
  <1>1. PICK record \in RequestRecords : req' = [req EXCEPT ![r] = record]
    BY DEF RequestRecords
  <1>2. \A s \in Requests : s # r => pc'[s] = pc[s] /\ req'[s] = req[s]
    BY <1>1 DEF TypeInv, TypeOK
  <1>3. pc'[r] = "lock" /\ req'[r] = record
    BY <1>1 DEF TypeInv, TypeOK
  <1>4. TypeOK'
    BY <1>1, <1>2, <1>3 DEF TypeInv, TypeOK, InFlight
  <1>5. Sufficient'
    BY <1>2, <1>3 DEF TypeInv, Sufficient, IsDebit, Holding
  <1>6. CreditPoint'
    BY <1>2, <1>3 DEF TypeInv, CreditPoint, CreditsRecipient
  <1> QED BY <1>4, <1>5, <1>6 DEF TypeInv

LEMMA LockWalletTypeInv ==
  ASSUME TypeInv, NEW r \in Requests, LockWallet(r)
  PROVE  TypeInv'
  <1> USE DEF LockWallet, Goto, ledger, safi
  <1> DEFINE a == req[r].account
  <1>1. pc[r] = "lock" /\ rowLock' = [rowLock EXCEPT ![a] = r]
    OBVIOUS
  <1>2. a \in Accounts /\ tx[r] \in TxLocals
    BY <1>1, RequestTypes DEF TypeInv
  <1>3. wallet[a] \in Nat
    BY <1>2 DEF TypeInv, TypeOK
  <1>4. [tx[r] EXCEPT !.balanceBefore = wallet[a]] \in TxLocals
    BY <1>2, <1>3 DEF TxLocals
  <1>5. \A s \in Requests : s # r => pc'[s] = pc[s] /\ tx'[s] = tx[s]
    BY DEF TypeInv, TypeOK
  <1>6. /\ pc'[r] = IF IsDebit(r) THEN "assert" ELSE "save"
        /\ tx'[r] = [tx[r] EXCEPT !.balanceBefore = wallet[a]]
    BY DEF TypeInv, TypeOK
  <1>7. TypeOK'
    BY <1>1, <1>2, <1>4, <1>5, <1>6 DEF TypeInv, TypeOK, InFlight
  <1>8. Sufficient'
    <2>1. tx'[r].balanceBefore = wallet[a]
      BY <1>2, <1>6 DEF TxLocals
    <2> QED BY <2>1, <1>5, <1>6 DEF TypeInv, Sufficient, IsDebit
  <1>9. CreditPoint'
    BY <1>5, <1>6 DEF TypeInv, CreditPoint, CreditsRecipient
  <1> QED BY <1>7, <1>8, <1>9 DEF TypeInv

\* The steps that move a request on, and change nothing but its own locals
\* and the recipient's lock.
LEMMA MoveTypeInv ==
  ASSUME TypeInv, NEW r \in Requests,
         pc[r] \in Holding, NEW label \in Holding, Goto(r, label),
         label = "credit" => CreditsRecipient(r),
         rowLock' \in [Accounts -> Requests \union {NoRequest}],
         NEW locals \in TxLocals, tx' = [tx EXCEPT ![r] = locals],
         locals.balanceBefore = tx[r].balanceBefore,
         UNCHANGED <<ledger, safi, today, req>>
  PROVE  TypeInv'
  <1> USE DEF Goto, ledger, safi
  <1>1. \A s \in Requests : s # r => pc'[s] = pc[s] /\ tx'[s] = tx[s]
    BY DEF TypeInv, TypeOK
  <1>2. pc'[r] = label /\ tx'[r] = locals
    BY DEF TypeInv, TypeOK
  <1>3. TypeOK'
    BY <1>1, <1>2 DEF TypeInv, TypeOK, Holding, InFlight
  <1>4. Sufficient'
    BY <1>1, <1>2 DEF TypeInv, Sufficient, IsDebit
  <1>5. CreditPoint'
    BY <1>1, <1>2 DEF TypeInv, CreditPoint, CreditsRecipient
  <1> QED BY <1>3, <1>4, <1>5 DEF TypeInv

LEMMA CommitTypeInv ==
  ASSUME TypeInv, NEW r \in Requests, Commit(r)
  PROVE  TypeInv'
  <1> USE DEF Commit, Goto
  <1> DEFINE a == req[r].account
             n == req[r].amount
  <1>1. pc[r] = "commit" /\ pc[r] \in Holding /\ pc[r] # "idle"
    BY DEF Holding, InFlight
  <1>2. /\ a \in Accounts
        /\ n \in Nat /\ n > 0
        /\ tx[r] \in TxLocals
        /\ tx[r].balanceBefore \in Nat
        /\ tx[r].recipientBefore \in Nat
        /\ tx[r].seen \in SafiConfigs \union {NoConfig}
        /\ tx[r].rowDay \in Days
    BY <1>1, RequestTypes DEF TypeInv
  <1>3. BalanceAfter(r) \in Nat
    BY <1>1, <1>2 DEF BalanceAfter, TypeInv, Sufficient
  <1>4. wallet' \in [Accounts -> Nat]
    BY <1>2, <1>3 DEF WalletAfter, TypeInv, TypeOK
  <1>5. posted' \in [Accounts -> Int]
    BY <1>2 DEF PostedAfter, TypeInv, TypeOK
  <1>6. safiLatest' \in [Accounts -> Nat \union {NoRow}]
    BY <1>3 DEF TypeInv, TypeOK
  <1>7. spent' \in [Accounts -> [Days -> Nat]]
    BY <1>2 DEF SpentAfter, TypeInv, TypeOK
  <1>8. today \in Days /\ SpentToday(r) \in Nat
    BY <1>2, <1>7 DEF SpentToday, TypeInv, TypeOK
  <1>9. config' \in [Accounts -> SafiConfigs \union {NoConfig}]
    <2>1. CASE Polices(r) /\ Governed(a)
      <3>1. tx[r].seen \in SafiConfigs /\ config[a] \in SafiConfigs
        BY <1>2, <2>1 DEF Polices, RecordsDebit, Records, Governed, TypeInv, TypeOK
      <3>2. ConfigAfterDebit(config[a], tx[r].seen, n, BalanceAfter(r),
                             SpentToday(r)) \in SafiConfigs
        BY <1>2, <1>3, <1>8, <3>1, ConfigAfterDebitType
      <3> QED BY <2>1, <3>2 DEF ConfigAfter, TypeInv, TypeOK
    <2>2. CASE ~ (Polices(r) /\ Governed(a))
      BY <2>2 DEF ConfigAfter, TypeInv, TypeOK
    <2> QED BY <2>1, <2>2
  <1>10. overrides' \subseteq OverrideRecords
    BY <1>2, <1>8 DEF OverridesAfter, OverrideType, OverrideRecords, TypeInv, TypeOK
  <1>11. rowLock' \in [Accounts -> Requests \union {NoRequest}]
    BY DEF WithoutLocks, TypeInv, TypeOK
  <1>12. tx' \in [Requests -> TxLocals]
    <2>1. [tx[r] EXCEPT !.checkedOn = today] \in TxLocals
      BY <1>2, <1>8 DEF TxLocals
    <2> QED BY <2>1 DEF TypeInv, TypeOK
  <1>13. \A s \in Requests : s # r => pc'[s] = pc[s] /\ tx'[s] = tx[s]
    BY DEF TypeInv, TypeOK
  <1>14. pc'[r] = "committed"
    BY DEF TypeInv, TypeOK
  <1>15. TypeOK'
    <2>1. /\ pc' \in [Requests -> {"idle"} \union InFlight \union Answered]
          /\ req' = req /\ today' = today
      BY <1>14 DEF TypeInv, TypeOK, Answered
    <2>2. \A s \in Requests : pc'[s] # "idle" => req'[s] \in RequestRecords
      BY <1>1, <1>13, <2>1 DEF TypeInv, TypeOK
    <2>3. /\ req \in [Requests -> RequestRecords \union {NoRequest}]
          /\ today \in Days
      BY DEF TypeInv, TypeOK
    <2> QED
      BY ONLY <1>4, <1>5, <1>6, <1>7, <1>9, <1>10, <1>11, <1>12, <2>1, <2>2, <2>3
      DEF TypeOK
  <1>16. Sufficient'
    BY <1>13, <1>14 DEF TypeInv, Sufficient, IsDebit, Holding, InFlight
  <1>17. CreditPoint'
    BY <1>13, <1>14 DEF TypeInv, CreditPoint, CreditsRecipient
  <1> QED BY <1>15, <1>16, <1>17 DEF TypeInv

LEMMA CrashTypeInv == ASSUME TypeInv, Crash PROVE TypeInv'
  <1> USE DEF Crash, ledger, safi
  <1>1. \A s \in Requests : pc'[s] \notin InFlight /\ (pc'[s] # "idle" => pc[s] # "idle")
    BY DEF TypeInv, TypeOK, InFlight
  <1>2. TypeOK'
    BY <1>1 DEF TypeInv, TypeOK, Answered
  <1>3. Sufficient' /\ CreditPoint'
    BY <1>1 DEF Sufficient, CreditPoint, Holding, InFlight
  <1> QED BY <1>2, <1>3 DEF TypeInv

LEMMA NextDayTypeInv == ASSUME TypeInv, NextDay PROVE TypeInv'
  <1> USE DEF NextDay, ledger, safi
  <1>1. today' \in Days
    BY MaxDayAssumption DEF TypeInv, TypeOK, Days
  <1>2. TypeOK'
    BY <1>1 DEF TypeInv, TypeOK
  <1>3. Sufficient' /\ CreditPoint'
    BY DEF TypeInv, Sufficient, CreditPoint, IsDebit, CreditsRecipient
  <1> QED BY <1>2, <1>3 DEF TypeInv

LEMMA StutterTypeInv == ASSUME TypeInv, UNCHANGED vars PROVE TypeInv'
  BY DEF TypeInv, TypeOK, Sufficient, CreditPoint, IsDebit, CreditsRecipient,
         vars, ledger, safi

LEMMA ServeTypeInv ==
  ASSUME TypeInv, NEW r \in Requests, Serve(r)
  PROVE  TypeInv'
  <1> USE DEF ledger, safi
  <1>1. CASE LockWallet(r)
    BY <1>1, LockWalletTypeInv
  <1>2. CASE InsufficientBalance(r) \/ WithdrawalDeclined(r) \/ LockWaitFails(r)
    <2>1. pc[r] \in InFlight
      BY <1>2 DEF InsufficientBalance, WithdrawalDeclined, LockWaitFails,
                  AwaitsLock, InFlight
    <2>2. RollBack(r, "declined") \/ RollBack(r, "failed")
      BY <1>2 DEF InsufficientBalance, WithdrawalDeclined, LockWaitFails
    <2>3. "declined" \in Answered /\ "failed" \in Answered
      BY DEF Answered
    <2> QED BY <2>1, <2>2, <2>3, RollBackTypeInv
  <1>3. ASSUME pc[r] \in Holding
        PROVE  /\ tx[r] \in TxLocals /\ tx = [tx EXCEPT ![r] = tx[r]]
               /\ config[req[r].account] \in SafiConfigs \union {NoConfig}
               /\ rowLock \in [Accounts -> Requests \union {NoRequest}]
    <2>1. pc[r] # "idle"
      BY <1>3 DEF Holding, InFlight
    <2> QED BY <2>1, RequestTypes DEF TypeInv, TypeOK
  <1>4. CASE AssertWithdrawalAllowed(r)
    <2> DEFINE label == IF req[r].op = "transfer" THEN "recipient" ELSE "save"
    <2>1. /\ pc[r] \in Holding /\ label \in Holding /\ label # "credit"
          /\ Goto(r, label)
          /\ UNCHANGED <<ledger, safi, today, rowLock, req, tx>>
      BY <1>4 DEF AssertWithdrawalAllowed, Holding, InFlight
    <2> HIDE DEF label
    <2> QED BY <2>1, <1>3, MoveTypeInv
  <1>5. CASE ReadRecipient(r)
    <2> DEFINE label == IF CreditsRecipient(r) THEN "credit" ELSE "record"
               before == IF CreditsRecipient(r) THEN wallet[req[r].to] ELSE 0
               locals == [tx[r] EXCEPT !.recipientBefore = before,
                                       !.seen = config[req[r].account]]
    <2>1. /\ pc[r] \in Holding /\ label \in Holding
          /\ label = "credit" => CreditsRecipient(r)
          /\ Goto(r, label)
          /\ tx' = [tx EXCEPT ![r] = locals]
          /\ UNCHANGED <<ledger, safi, today, rowLock, req>>
      BY <1>5 DEF ReadRecipient, Holding, InFlight
    <2>2. before \in Nat
      BY DEF CreditsRecipient, TypeInv, TypeOK
    <2>3. locals \in TxLocals /\ locals.balanceBefore = tx[r].balanceBefore
      BY <2>1, <2>2, <1>3 DEF TxLocals
    <2> HIDE DEF label, locals
    <2> QED BY <2>1, <2>3, <1>3, MoveTypeInv
  <1>6. CASE SaveWallet(r)
    <2> DEFINE locals == [tx[r] EXCEPT !.seen = config[req[r].account]]
    <2>1. /\ pc[r] \in Holding /\ "record" \in Holding
          /\ Goto(r, "record")
          /\ tx' = [tx EXCEPT ![r] = locals]
          /\ UNCHANGED <<ledger, safi, today, rowLock, req>>
      BY <1>6 DEF SaveWallet, Holding, InFlight
    <2>2. locals \in TxLocals /\ locals.balanceBefore = tx[r].balanceBefore
      BY <2>1, <1>3 DEF TxLocals
    <2> HIDE DEF locals
    <2> QED BY <2>1, <2>2, <1>3, MoveTypeInv
  <1>7. CASE CreditRecipient(r)
    <2>1. /\ pc[r] \in Holding /\ "record" \in Holding
          /\ Goto(r, "record")
          /\ rowLock' = [rowLock EXCEPT ![req[r].to] = r]
          /\ UNCHANGED <<ledger, safi, today, req, tx>>
      BY <1>7 DEF CreditRecipient, Holding, InFlight
    <2>2. rowLock' \in [Accounts -> Requests \union {NoRequest}]
      BY <2>1, <1>3
    <2> QED BY <2>1, <2>2, <1>3, MoveTypeInv
  <1>8. CASE RecordTransaction(r)
    <2> DEFINE locals == [tx[r] EXCEPT !.rowDay = today]
    <2>1. /\ pc[r] \in Holding /\ "commit" \in Holding
          /\ Goto(r, "commit")
          /\ tx' = [tx EXCEPT ![r] = locals]
          /\ UNCHANGED <<ledger, safi, today, rowLock, req>>
      BY <1>8 DEF RecordTransaction, Holding, InFlight
    <2>2. locals \in TxLocals /\ locals.balanceBefore = tx[r].balanceBefore
      BY <2>1, <1>3 DEF TxLocals, TypeInv, TypeOK
    <2> HIDE DEF locals
    <2> QED BY <2>1, <2>2, <1>3, MoveTypeInv
  <1>9. CASE Commit(r)
    BY <1>9, CommitTypeInv
  <1> QED
    BY <1>1, <1>2, <1>4, <1>5, <1>6, <1>7, <1>8, <1>9 DEF Serve

LEMMA TypeInvStep == TypeInv /\ [Next]_vars => TypeInv'
  <1> SUFFICES ASSUME TypeInv, [Next]_vars PROVE TypeInv'
    OBVIOUS
  <1>1. CASE \E r \in Requests : Submit(r) \/ Serve(r)
    BY <1>1, SubmitTypeInv, ServeTypeInv
  <1>2. CASE Crash
    BY <1>2, CrashTypeInv
  <1>3. CASE NextDay
    BY <1>3, NextDayTypeInv
  <1>4. CASE Terminating \/ UNCHANGED vars
    BY <1>4, StutterTypeInv DEF Terminating
  <1> QED BY <1>1, <1>2, <1>3, <1>4 DEF Next

LEMMA TypeInvariant == Spec => []TypeInv
  BY InitTypeInv, TypeInvStep, PTL DEF Spec

\* Every variable keeps its type; in particular no interleaving of requests
\* leaves a wallet with less than nothing.
THEOREM TypeCorrect == Spec => []TypeOK
  <1>1. TypeInv => TypeOK
    BY DEF TypeInv
  <1> QED BY <1>1, TypeInvariant, PTL

-----------------------------------------------------------------------------
(***************************************************************************)
(* Locks                                                                   *)
(***************************************************************************)

LockInv ==
  \A r \in Requests : pc[r] \in Holding => rowLock[req[r].account] = r

\* A request that holds its wallet's lock, and another step takes or releases
\* only locks that are free or its own.
LEMMA LocksOfOthersKept ==
  ASSUME TypeInv, LockInv, NEW s \in Requests, pc[s] \in Holding,
         NEW r \in Requests, NEW a \in Accounts,
         \/ rowLock' = rowLock
         \/ rowLock[a] = NoRequest /\ rowLock' = [rowLock EXCEPT ![a] = r]
         \/ s # r /\ rowLock' = WithoutLocks(r)
  PROVE  rowLock'[req[s].account] = s
  <1>1. rowLock[req[s].account] = s /\ s # NoRequest
    BY RequestsAssumption DEF LockInv
  <1>2. req[s].account \in Accounts
    BY RequestTypes DEF TypeInv, Holding, InFlight
  <1> QED BY <1>1, <1>2 DEF WithoutLocks, TypeInv, TypeOK

LEMMA LockInvStep == TypeInv /\ LockInv /\ [Next]_vars => LockInv'
  <1> SUFFICES ASSUME TypeInv, LockInv, [Next]_vars,
                      NEW s \in Requests, pc'[s] \in Holding
               PROVE  rowLock'[req'[s].account] = s
    BY DEF LockInv
  <1>1. ASSUME NEW r \in Requests, Submit(r)
        PROVE  rowLock'[req'[s].account] = s
    <2>1. pc' = [pc EXCEPT ![r] = "lock"] /\ rowLock' = rowLock
      BY <1>1 DEF Submit, Goto
    <2>2. s # r /\ pc[s] \in Holding
      BY <2>1 DEF TypeInv, TypeOK, Holding
    <2>3. req'[s] = req[s]
      BY <1>1, <2>2 DEF Submit, TypeInv, TypeOK
    <2> QED BY <2>1, <2>2, <2>3 DEF LockInv
  <1>2. ASSUME NEW r \in Requests, Serve(r)
        PROVE  rowLock'[req'[s].account] = s
    <2>1. req' = req /\ \A t \in Requests : t # r => pc'[t] = pc[t]
      BY <1>2 DEF Serve, LockWallet, InsufficientBalance, WithdrawalDeclined,
                  LockWaitFails, AssertWithdrawalAllowed, ReadRecipient,
                  SaveWallet, CreditRecipient, RecordTransaction, Commit,
                  RollBack, Goto, TypeInv, TypeOK
    <2>2. CASE LockWallet(r)
      <3>1. /\ rowLock[req[r].account] = NoRequest
            /\ rowLock' = [rowLock EXCEPT ![req[r].account] = r]
            /\ req[r].account \in Accounts
        BY <2>2, RequestTypes DEF LockWallet, TypeInv
      <3>2. CASE s = r
        BY <2>1, <3>1, <3>2 DEF TypeInv, TypeOK
      <3>3. CASE s # r
        BY <2>1, <3>1, <3>3, LocksOfOthersKept
      <3> QED BY <3>2, <3>3
    <2>3. CASE \/ InsufficientBalance(r) \/ WithdrawalDeclined(r)
               \/ LockWaitFails(r) \/ Commit(r)
      <3>1. rowLock' = WithoutLocks(r) /\ pc'[r] \notin Holding
        BY <2>3 DEF InsufficientBalance, WithdrawalDeclined, LockWaitFails,
                    Commit, RollBack, Goto, TypeInv, TypeOK, Holding, InFlight
      <3>2. s # r /\ pc[s] \in Holding
        BY <2>1, <3>1
      <3>3. req[s].account \in Accounts
        BY <3>2, RequestTypes DEF TypeInv, Holding, InFlight
      <3> QED BY <2>1, <3>1, <3>2, <3>3, LocksOfOthersKept
    <2>4. CASE \/ AssertWithdrawalAllowed(r) \/ ReadRecipient(r)
               \/ SaveWallet(r) \/ RecordTransaction(r)
      <3>1. rowLock' = rowLock /\ pc[r] \in Holding
        BY <2>4 DEF AssertWithdrawalAllowed, ReadRecipient, SaveWallet,
                    RecordTransaction, Holding, InFlight
      <3>2. pc[s] \in Holding
        BY <2>1, <3>1
      <3> QED BY <2>1, <3>1, <3>2 DEF LockInv
    <2>5. CASE CreditRecipient(r)
      <3>1. /\ rowLock[req[r].to] = NoRequest
            /\ rowLock' = [rowLock EXCEPT ![req[r].to] = r]
            /\ pc[r] \in Holding /\ pc[r] = "credit"
        BY <2>5 DEF CreditRecipient, Holding, InFlight
      <3>2. req[r].to \in Accounts
        BY <3>1 DEF TypeInv, CreditPoint, CreditsRecipient
      <3>3. pc[s] \in Holding
        BY <2>1, <3>1
      <3> QED BY <2>1, <3>1, <3>2, <3>3, LocksOfOthersKept
    <2> QED BY <1>2, <2>2, <2>3, <2>4, <2>5 DEF Serve
  <1>3. CASE Crash
    BY <1>3 DEF Crash, Holding, InFlight
  <1>4. CASE NextDay \/ Terminating \/ UNCHANGED vars
    BY <1>4 DEF NextDay, Terminating, vars, LockInv
  <1> QED BY <1>1, <1>2, <1>3, <1>4 DEF Next

LEMMA LockInvariant == Spec => []LockInv
  <1>1. Init => LockInv
    BY DEF Init, LockInv, Holding, InFlight
  <1> QED BY <1>1, LockInvStep, TypeInvariant, PTL DEF Spec

-----------------------------------------------------------------------------
(***************************************************************************)
(* Money                                                                   *)
(***************************************************************************)

\* What request r has read and what Safi has decided for it still hold.
Stands(r) ==
  LET a == req[r].account IN
  /\ pc[r] \in Holding /\ a \in NonRecipients => tx[r].balanceBefore = wallet[a]
  /\ pc[r] \in {"credit", "record", "commit"} => tx[r].seen = config[a]
  /\ pc[r] \in Holding \ {"assert"} /\ IsDebit(r) /\ a \in NonRecipients
       => Permitted(r)

RequestsStand == \A r \in Requests : Stands(r)

MoneyInv == RequestsStand /\ LedgerBalanced /\ MirrorInSync /\ ReserveCovered

\* The arithmetic of the reserve: a debit assertWithdrawalAllowed lets through
\* on the true balance costs the buffer all that it takes from the reserve.
LEMMA DebitKeepsCover ==
  ASSUME NEW c \in SafiConfigs, NEW n \in Nat, NEW amount \in Nat,
         NEW spentToday \in Nat,
         amount > 0, n >= amount,
         ~ c.isPaused, c.cardBehaviour # "auto_cover",
         WithdrawalAllowed(c, n, n - amount),
         Covered(c, n)
  PROVE  Covered(ConfigAfterDebit(c, c, amount, n - amount, spentToday), n - amount)
  <1> DEFINE after == n - amount
             left  == BufferLeft(c, amount, after)
             d     == ConfigAfterDebit(c, c, amount, after, spentToday)
  <1>1. /\ c.protectedSum \in Nat /\ c.remainingBuffer \in Nat
        /\ c.bufferAmount \in Nat /\ c.baselineBalance \in Nat
        /\ after \in Nat /\ after + amount = n
    BY DEF SafiConfigs
  <1>2. /\ d.protectedSum = c.protectedSum
        /\ d.bufferAmount = c.bufferAmount
        /\ d.baselineBalance = c.baselineBalance
    BY DEF ConfigAfterDebit, SafiConfigs
  <1>3. CASE after >= c.protectedSum
    <2>1. d.remainingBuffer = c.remainingBuffer
      BY <1>1, <1>3 DEF ConfigAfterDebit, DrawsOnBuffer, BreachesReserve, SafiConfigs
    <2> HIDE DEF after, d
    <2> QED BY <1>1, <1>2, <1>3, <2>1 DEF Covered, after, d
  <1>4. CASE after < c.protectedSum
    <2>1. /\ c.cardBehaviour = "buffer"
          /\ c.protectedSum - after =< c.remainingBuffer
      BY <1>1, <1>4 DEF WithdrawalAllowed, BreachesReserve, SafiConfigs, CardBehaviours
    <2>2. left = c.remainingBuffer
                 - (IF n < c.protectedSum THEN amount ELSE c.protectedSum - after)
      BY <1>1 DEF BufferLeft, BufferUsed, BreachesReserve
    <2>3. left \in Nat
      BY <1>1, <2>1, <2>2
    <2>4. d.remainingBuffer = left
      BY <1>1, <1>4, <2>1, <2>3
      DEF ConfigAfterDebit, DrawsOnBuffer, BreachesReserve, SafiConfigs
    <2> HIDE DEF after, d, left
    <2>5. Covered(d, after)
      BY <1>1, <1>2, <1>4, <2>2, <2>3, <2>4 DEF Covered
    <2> QED BY <2>5 DEF d, after
  <1>5. after >= c.protectedSum \/ after < c.protectedSum
    BY <1>1
  <1> QED BY <1>3, <1>4, <1>5

\* A request that does not move stands as long as its wallet and config do.
LEMMA OthersStand ==
  ASSUME NEW s \in Requests, Stands(s),
         pc'[s] = pc[s], req'[s] = req[s], tx'[s] = tx[s],
         config'[req[s].account] = config[req[s].account],
         safiLatest'[req[s].account] = safiLatest[req[s].account],
         req[s].account \in NonRecipients =>
           wallet'[req[s].account] = wallet[req[s].account]
  PROVE  Stands(s)'
  <1> DEFINE a == req[s].account
  <1>1. Permitted(s)' <=> Permitted(s)
    BY DEF Permitted, Governed, CurrentBalance, BalanceAfter, IsDebit
  <1>2. IsDebit(s)' <=> IsDebit(s)
    BY DEF IsDebit
  <1> QED BY <1>1, <1>2 DEF Stands

LEMMA LockWalletStands ==
  ASSUME TypeInv, NEW r \in Requests, LockWallet(r)
  PROVE  Stands(r)'
  <1> USE DEF LockWallet, Goto, ledger, safi
  <1>1. tx[r] \in TxLocals
    BY RequestTypes DEF TypeInv
  <1>2. tx'[r] = [tx[r] EXCEPT !.balanceBefore = wallet[req[r].account]]
    BY DEF TypeInv, TypeOK
  <1>3. tx'[r].balanceBefore = wallet'[req'[r].account]
    BY <1>1, <1>2 DEF TxLocals
  <1>4. pc'[r] = IF IsDebit(r) THEN "assert" ELSE "save"
    BY DEF TypeInv, TypeOK
  <1> QED BY <1>3, <1>4 DEF Stands, IsDebit, Holding

\* The steps of a request after its lock and before its commit.
LEMMA MovedRequestStands ==
  ASSUME TypeInv, NEW r \in Requests, Stands(r),
         pc[r] \in Holding, pc[r] = "assert" => Permitted(r),
         pc'[r] \in Holding, UNCHANGED <<ledger, safi, req>>,
         tx'[r].balanceBefore = tx[r].balanceBefore,
         pc'[r] \in {"credit", "record", "commit"} =>
           tx'[r].seen = config[req[r].account]
  PROVE  Stands(r)'
  <1> USE DEF ledger, safi
  <1>1. Permitted(r)' <=> Permitted(r)
    BY DEF Permitted, Governed, CurrentBalance, BalanceAfter, IsDebit
  <1>2. IsDebit(r)' <=> IsDebit(r)
    BY DEF IsDebit
  <1> QED BY <1>1, <1>2 DEF Stands

LEMMA ServedRequestStands ==
  ASSUME TypeInv, NEW r \in Requests, Serve(r), Stands(r)
  PROVE  Stands(r)'
  <1>1. CASE LockWallet(r)
    BY <1>1, LockWalletStands
  <1>2. CASE \/ InsufficientBalance(r) \/ WithdrawalDeclined(r)
             \/ LockWaitFails(r) \/ Commit(r)
    <2>1. pc'[r] \in Answered
      BY <1>2 DEF InsufficientBalance, WithdrawalDeclined, LockWaitFails, Commit,
                  RollBack, Goto, TypeInv, TypeOK, Answered
    <2> QED BY <2>1 DEF Stands, Holding, InFlight, Answered
  <1>3. pc[r] \in Holding => tx[r] \in TxLocals
    BY DEF TypeInv, TypeOK
  <1>4. CASE AssertWithdrawalAllowed(r)
    <2>1. /\ pc[r] = "assert" /\ pc[r] \in Holding /\ pc'[r] \in Holding
          /\ pc'[r] \in {"recipient", "save"}
          /\ Permitted(r) /\ tx' = tx /\ UNCHANGED <<ledger, safi, req>>
      BY <1>4 DEF AssertWithdrawalAllowed, Goto, TypeInv, TypeOK, Holding, InFlight
    <2> QED BY <2>1, MovedRequestStands
  <1>5. CASE ReadRecipient(r)
    <2>1. /\ pc[r] = "recipient" /\ pc[r] \in Holding /\ pc'[r] \in Holding
          /\ UNCHANGED <<ledger, safi, req>>
      BY <1>5 DEF ReadRecipient, Goto, TypeInv, TypeOK, Holding, InFlight
    <2>2. tx'[r] = [tx[r] EXCEPT
            !.recipientBefore = IF CreditsRecipient(r) THEN wallet[req[r].to] ELSE 0,
            !.seen            = config[req[r].account]]
      BY <1>5 DEF ReadRecipient, TypeInv, TypeOK
    <2>3. /\ tx'[r].balanceBefore = tx[r].balanceBefore
          /\ tx'[r].seen = config[req[r].account]
      BY <2>1, <2>2, <1>3 DEF TxLocals
    <2> QED BY <2>1, <2>3, MovedRequestStands
  <1>6. CASE SaveWallet(r)
    <2>1. /\ pc[r] = "save" /\ pc[r] \in Holding /\ pc'[r] \in Holding
          /\ UNCHANGED <<ledger, safi, req>>
      BY <1>6 DEF SaveWallet, Goto, TypeInv, TypeOK, Holding, InFlight
    <2>2. tx'[r] = [tx[r] EXCEPT !.seen = config[req[r].account]]
      BY <1>6 DEF SaveWallet, TypeInv, TypeOK
    <2>3. /\ tx'[r].balanceBefore = tx[r].balanceBefore
          /\ tx'[r].seen = config[req[r].account]
      BY <2>1, <2>2, <1>3 DEF TxLocals
    <2> QED BY <2>1, <2>3, MovedRequestStands
  <1>7. CASE CreditRecipient(r)
    <2>1. /\ pc[r] = "credit" /\ pc[r] \in Holding /\ pc'[r] \in Holding
          /\ tx' = tx /\ UNCHANGED <<ledger, safi, req>>
      BY <1>7 DEF CreditRecipient, Goto, TypeInv, TypeOK, Holding, InFlight
    <2>2. tx[r].seen = config[req[r].account]
      BY <2>1 DEF Stands
    <2> QED BY <2>1, <2>2, MovedRequestStands
  <1>8. CASE RecordTransaction(r)
    <2>1. /\ pc[r] = "record" /\ pc[r] \in Holding /\ pc'[r] \in Holding
          /\ UNCHANGED <<ledger, safi, req>>
      BY <1>8 DEF RecordTransaction, Goto, TypeInv, TypeOK, Holding, InFlight
    <2>2. tx'[r] = [tx[r] EXCEPT !.rowDay = today]
      BY <1>8 DEF RecordTransaction, TypeInv, TypeOK
    <2>3. /\ tx'[r].balanceBefore = tx[r].balanceBefore
          /\ tx'[r].seen = tx[r].seen
      BY <2>1, <2>2, <1>3 DEF TxLocals
    <2>4. tx[r].seen = config[req[r].account]
      BY <2>1 DEF Stands
    <2> QED BY <2>1, <2>3, <2>4, MovedRequestStands
  <1> QED
    BY <1>1, <1>2, <1>4, <1>5, <1>6, <1>7, <1>8 DEF Serve

\* A commit changes the rows of its own account; of the other accounts only
\* a recipient's, and only the wallet and the ledger.
LEMMA CommitIsLocal ==
  ASSUME TypeInv, NEW r \in Requests, Commit(r),
         NEW b \in Accounts, b # req[r].account
  PROVE  /\ config'[b] = config[b]
         /\ safiLatest'[b] = safiLatest[b]
         /\ b \in NonRecipients => wallet'[b] = wallet[b] /\ posted'[b] = posted[b]
  <1>1. config'[b] = config[b] /\ safiLatest'[b] = safiLatest[b]
    BY DEF Commit, ConfigAfter, TypeInv, TypeOK
  <1>2. req[r].to \in Recipients \union {External}
    BY RequestTypes DEF Commit, TypeInv
  <1>3. b \in NonRecipients => b # req[r].to
    BY <1>2, AccountsAssumption DEF NonRecipients
  <1>4. /\ wallet' = WalletAfter(r)
        /\ posted' = PostedAfter(r)
    BY DEF Commit
  <1> QED BY <1>1, <1>3, <1>4 DEF WalletAfter, PostedAfter

LEMMA RequestsStandStep ==
  TypeInv /\ LockInv /\ RequestsStand /\ [Next]_vars => RequestsStand'
  <1> SUFFICES ASSUME TypeInv, LockInv, RequestsStand, [Next]_vars,
                      NEW s \in Requests
               PROVE  Stands(s)'
    BY DEF RequestsStand
  <1>0. Stands(s)
    BY DEF RequestsStand
  <1>1. ASSUME NEW r \in Requests, Submit(r)
        PROVE  Stands(s)'
    <2>1. /\ UNCHANGED <<ledger, safi, tx>>
          /\ pc' = [pc EXCEPT ![r] = "lock"]
          /\ \A t \in Requests : t # r => req'[t] = req[t]
      BY <1>1 DEF Submit, Goto, TypeInv, TypeOK
    <2>2. CASE s = r
      BY <2>1, <2>2 DEF Stands, Holding, InFlight, TypeInv, TypeOK
    <2>3. CASE s # r
      BY <2>1, <2>3, <1>0, OthersStand DEF TypeInv, TypeOK, ledger, safi
    <2> QED BY <2>2, <2>3
  <1>2. ASSUME NEW r \in Requests, Serve(r), s # r
        PROVE  Stands(s)'
    <2>1. /\ req' = req
          /\ pc'[s] = pc[s] /\ tx'[s] = tx[s]
      BY <1>2 DEF Serve, LockWallet, InsufficientBalance, WithdrawalDeclined,
                  LockWaitFails, AssertWithdrawalAllowed, ReadRecipient,
                  SaveWallet, CreditRecipient, RecordTransaction, Commit,
                  RollBack, Goto, TypeInv, TypeOK
    <2>2. CASE ~ Commit(r)
      <3>1. UNCHANGED <<ledger, safi>>
        BY <1>2, <2>2 DEF Serve, LockWallet, InsufficientBalance, LockWaitFails,
                  WithdrawalDeclined, AssertWithdrawalAllowed, ReadRecipient,
                  SaveWallet, CreditRecipient, RecordTransaction, RollBack
      <3> QED BY <1>0, <2>1, <3>1, OthersStand DEF ledger, safi
    <2>3. CASE Commit(r) /\ pc[s] \in Holding
      <3>1. rowLock[req[s].account] = s /\ rowLock[req[r].account] = r
        BY <2>3 DEF LockInv, Commit, Holding, InFlight
      <3>2. req[s].account \in Accounts /\ req[s].account # req[r].account
        BY <1>2, <2>3, <3>1, RequestTypes DEF TypeInv, Holding, InFlight
      <3> QED BY <1>0, <2>1, <2>3, <3>2, CommitIsLocal, OthersStand
    <2>4. CASE pc[s] \notin Holding
      BY <2>1, <2>4 DEF Stands, Holding, InFlight
    <2> QED BY <2>2, <2>3, <2>4
  <1>3. ASSUME NEW r \in Requests, Serve(r), s = r
        PROVE  Stands(s)'
    BY <1>0, <1>3, ServedRequestStands
  <1>4. CASE Crash
    BY <1>4 DEF Crash, Stands, Holding, InFlight
  <1>5. CASE NextDay \/ Terminating \/ UNCHANGED vars
    BY <1>0, <1>5, OthersStand DEF NextDay, Terminating, vars, ledger, safi
  <1> QED BY <1>1, <1>2, <1>3, <1>4, <1>5 DEF Next

\* The steps other than Commit leave the money where it is.
LEMMA MoneyMovesAtCommit ==
  ASSUME [Next]_vars, \A r \in Requests : ~ Commit(r)
  PROVE  UNCHANGED <<ledger, safi>>
  BY DEF Next, Submit, Serve, LockWallet, InsufficientBalance, LockWaitFails,
         WithdrawalDeclined, AssertWithdrawalAllowed, ReadRecipient, SaveWallet,
         CreditRecipient, RecordTransaction, RollBack, Crash, NextDay,
         Terminating, vars

\* What a commit does to the wallet, the ledger and Safi's copy of its account.
LEMMA CommitSettles ==
  ASSUME TypeInv, RequestsStand, NEW r \in Requests, Commit(r),
         req[r].account \in NonRecipients
  PROVE  LET a == req[r].account IN
         /\ wallet[a] \in Nat /\ posted[a] \in Int
         /\ req[r].amount \in Nat /\ req[r].amount > 0
         /\ wallet'[a] = BalanceAfter(r)
         /\ BalanceAfter(r) = IF IsDebit(r) THEN wallet[a] - req[r].amount
                                            ELSE wallet[a] + req[r].amount
         /\ IsDebit(r) => wallet[a] >= req[r].amount
         /\ posted'[a] = IF IsDebit(r) THEN posted[a] - req[r].amount
                                       ELSE posted[a] + req[r].amount
         /\ Governed(a) => safiLatest'[a] = BalanceAfter(r)
         /\ ~ Governed(a) => config'[a] = config[a]
  <1> DEFINE a == req[r].account
  <1>1. pc[r] = "commit" /\ pc[r] \in Holding /\ pc[r] # "idle"
    BY DEF Commit, Holding, InFlight
  <1>2. a \in Accounts /\ req[r].amount \in Nat /\ req[r].amount > 0
    BY <1>1, RequestTypes DEF TypeInv
  <1>3. wallet[a] \in Nat /\ posted[a] \in Int
    BY <1>2 DEF TypeInv, TypeOK
  <1>4. tx[r].balanceBefore = wallet[a] /\ tx[r].seen = config[a]
    BY <1>1 DEF RequestsStand, Stands
  <1>5. IsDebit(r) => wallet[a] >= req[r].amount
    BY <1>1, <1>4 DEF TypeInv, Sufficient
  <1>6. wallet'[a] = BalanceAfter(r)
    BY <1>2 DEF Commit, WalletAfter
  <1>7. posted'[a] = IF IsDebit(r) THEN posted[a] - req[r].amount
                                   ELSE posted[a] + req[r].amount
    BY <1>2 DEF Commit, PostedAfter
  <1>8. Governed(a) => safiLatest'[a] = BalanceAfter(r)
    BY <1>2, <1>4 DEF Commit, Records, Governed, TypeInv, TypeOK
  <1>9. ~ Governed(a) => config'[a] = config[a]
    BY DEF Commit, ConfigAfter
  <1> QED BY <1>2, <1>3, <1>4, <1>5, <1>6, <1>7, <1>8, <1>9 DEF BalanceAfter

LEMMA CommitKeepsLedger ==
  ASSUME TypeInv, MoneyInv, NEW r \in Requests, Commit(r)
  PROVE  LedgerBalanced'
  <1> SUFFICES ASSUME NEW b \in NonRecipients
               PROVE  wallet'[b] = posted'[b]
    BY DEF LedgerBalanced, NonRecipients
  <1>1. wallet[b] = posted[b] /\ b \in Accounts
    BY DEF MoneyInv, LedgerBalanced, NonRecipients
  <1>2. CASE b = req[r].account
    BY <1>1, <1>2, CommitSettles DEF MoneyInv
  <1>3. CASE b # req[r].account
    BY <1>1, <1>3, CommitIsLocal
  <1> QED BY <1>2, <1>3

LEMMA CommitSpends ==
  ASSUME TypeInv, NEW r \in Requests, Commit(r)
  PROVE  SpentToday(r) \in Nat
  <1>1. /\ req[r].account \in Accounts
        /\ req[r].amount \in Nat
        /\ tx[r].rowDay \in Days
    BY RequestTypes DEF Commit, TypeInv
  <1> QED BY <1>1 DEF SpentToday, SpentAfter, TypeInv, TypeOK

\* A commit neither removes a config nor changes the columns that say whether
\* and how far the account is protected, but for a buffer that runs out.
LEMMA CommitKeepsTerms ==
  ASSUME TypeInv, MoneyInv, NEW r \in Requests, Commit(r), NEW b \in Accounts
  PROVE  /\ Governed(b)' <=> Governed(b)
         /\ Governed(b) =>
              /\ config'[b].baselineBalance = config[b].baselineBalance
              /\ config'[b].isPaused = config[b].isPaused
              /\ config'[b].cardBehaviour = "auto_cover" <=>
                   config[b].cardBehaviour = "auto_cover"
  <1>1. CASE config'[b] = config[b]
    BY <1>1 DEF Governed
  <1>2. CASE config'[b] # config[b]
    <2> DEFINE after == ConfigAfterDebit(config[b], config[b], req[r].amount,
                                         BalanceAfter(r), SpentToday(r))
    <2>1. /\ Governed(b)
          /\ b = req[r].account
          /\ config'[b] = ConfigAfterDebit(config[b], tx[r].seen, req[r].amount,
                                           BalanceAfter(r), SpentToday(r))
      BY <1>2 DEF Commit, ConfigAfter, TypeInv, TypeOK
    <2>2. config[b] \in SafiConfigs /\ config'[b] \in SafiConfigs \union {NoConfig}
      BY <2>1, CommitTypeInv DEF Governed, TypeInv, TypeOK
    <2>3. config'[b] = after
      BY <2>1 DEF MoneyInv, RequestsStand, Stands, Commit
    <2>4. /\ after.baselineBalance = config[b].baselineBalance
          /\ after.isPaused = config[b].isPaused
          /\ after.cardBehaviour =
               IF /\ config[b].cardBehaviour = "buffer"
                  /\ BreachesReserve(config[b], BalanceAfter(r))
                  /\ BufferLeft(config[b], req[r].amount, BalanceAfter(r)) =< 0
               THEN "hard_decline" ELSE config[b].cardBehaviour
      BY <2>2 DEF ConfigAfterDebit, DrawsOnBuffer, SafiConfigs
    <2>5. config'[b] # NoConfig
      <3>1. after \in SafiConfigs
        <4>1. req[r].account \in Accounts /\ req[r].amount \in Nat
          BY RequestTypes DEF Commit, TypeInv
        <4>2. BalanceAfter(r) \in Nat
          BY <4>1, CommitTypeInv DEF Commit, WalletAfter, TypeInv, TypeOK
        <4>3. SpentToday(r) \in Nat
          BY CommitSpends
        <4> QED BY <4>1, <4>2, <4>3, <2>2, ConfigAfterDebitType
      <3> QED BY <3>1, <2>3, SetupsAssumption
    <2> HIDE DEF after
    <2> QED BY <2>1, <2>3, <2>4, <2>5 DEF Governed
  <1> QED BY <1>1, <1>2

LEMMA CommitKeepsMirror ==
  ASSUME TypeInv, MoneyInv, NEW r \in Requests, Commit(r)
  PROVE  MirrorInSync'
  <1> SUFFICES ASSUME NEW b \in NonRecipients, Governed(b)'
               PROVE  CurrentBalance(b)' = wallet'[b]
    BY DEF MirrorInSync, NonRecipients
  <1>1. b \in Accounts
    BY DEF NonRecipients
  <1>2. CASE b = req[r].account
    <2>1. Governed(b)
      BY <1>2, CommitSettles DEF MoneyInv, Governed
    <2>2. /\ safiLatest'[b] = wallet'[b]
          /\ wallet'[b] \in Nat
      BY <1>2, <2>1, CommitSettles DEF MoneyInv
    <2> QED BY <2>2 DEF CurrentBalance, NoRow
  <1>3. CASE b # req[r].account
    <2>1. Governed(b) /\ CurrentBalance(b)' = CurrentBalance(b)
      BY <1>1, <1>3, CommitIsLocal DEF Governed, CurrentBalance
    <2> QED BY <1>1, <1>3, <2>1, CommitIsLocal DEF MoneyInv, MirrorInSync
  <1> QED BY <1>2, <1>3

LEMMA CommitKeepsReserve ==
  ASSUME TypeInv, MoneyInv, NEW r \in Requests, Commit(r)
  PROVE  ReserveCovered'
  <1> SUFFICES ASSUME NEW b \in NonRecipients, Governed(b)',
                      ~ config'[b].isPaused,
                      config'[b].cardBehaviour # "auto_cover"
               PROVE  Covered(config'[b], wallet'[b])
    BY DEF ReserveCovered, NonRecipients
  <1> DEFINE n == req[r].amount
  <1>1. b \in Accounts
    BY DEF NonRecipients
  <1>2. CASE b # req[r].account
    BY <1>1, <1>2, CommitIsLocal DEF MoneyInv, ReserveCovered, Governed
  <1>3. CASE b = req[r].account /\ ~ Polices(r)
    <2>1. config'[b] = config[b]
      BY <1>3 DEF Commit, ConfigAfter
    <2>2. tx[r].seen = config[b]
      BY <1>3 DEF MoneyInv, RequestsStand, Stands, Commit
    <2>3. ~ IsDebit(r)
      BY <1>3, <2>1, <2>2 DEF Polices, RecordsDebit, Records, Governed
    <2>4. wallet'[b] = wallet[b] + n /\ n \in Nat /\ wallet[b] \in Nat
      BY <1>3, <2>3, CommitSettles DEF MoneyInv
    <2>5. Covered(config[b], wallet[b]) /\ config[b] \in SafiConfigs
      BY <1>1, <2>1 DEF MoneyInv, ReserveCovered, Governed, TypeInv, TypeOK
    <2> QED BY <2>1, <2>4, <2>5 DEF Covered, SafiConfigs
  <1>4. CASE b = req[r].account /\ Polices(r)
    <2>1. /\ tx[r].seen = config[b]
          /\ Permitted(r)
      BY <1>4 DEF MoneyInv, RequestsStand, Stands, Commit, Holding, InFlight,
                  Polices, RecordsDebit
    <2>2. /\ Governed(b) /\ IsDebit(r) /\ ~ config[b].isPaused
          /\ config[b] \in SafiConfigs
      BY <1>1, <1>4, <2>1
      DEF Polices, RecordsDebit, Records, Governed, TypeInv, TypeOK
    <2>3. /\ wallet[b] \in Nat /\ n \in Nat /\ n > 0 /\ wallet[b] >= n
          /\ BalanceAfter(r) = wallet[b] - n
          /\ wallet'[b] = wallet[b] - n
      BY <1>4, <2>2, CommitSettles DEF MoneyInv
    <2>4. SpentToday(r) \in Nat
      BY CommitSpends
    <2>5. config'[b] = ConfigAfterDebit(config[b], config[b], n, wallet[b] - n,
                                        SpentToday(r))
      BY <1>1, <1>4, <2>1, <2>2, <2>3 DEF Commit, ConfigAfter, TypeInv, TypeOK
    <2>6. config[b].cardBehaviour # "auto_cover"
      BY <1>1, <2>2, CommitKeepsTerms
    <2>7. Covered(config[b], wallet[b])
      BY <2>2, <2>6 DEF MoneyInv, ReserveCovered
    <2>8. WithdrawalAllowed(config[b], wallet[b], wallet[b] - n)
      BY <1>4, <2>1, <2>2, <2>3 DEF Permitted, MoneyInv, MirrorInSync
    <2> QED BY <2>2, <2>3, <2>4, <2>5, <2>6, <2>7, <2>8, DebitKeepsCover
  <1> QED BY <1>2, <1>3, <1>4

LEMMA InitMoneyInv == Init => MoneyInv
  <1> SUFFICES ASSUME Init PROVE MoneyInv
    OBVIOUS
  <1> USE DEF Init
  <1>1. RequestsStand
    BY DEF RequestsStand, Stands, Holding, InFlight
  <1>2. LedgerBalanced
    BY DEF LedgerBalanced
  <1>3. \A a \in NonRecipients :
          Governed(a) => /\ config[a] \in SafiConfigs
                         /\ IsFresh(config[a], wallet[a])
                         /\ wallet[a] \in Nat
    BY SetupsAssumption, OpeningBalanceAssumption DEF Governed, NonRecipients
  <1>4. MirrorInSync
    BY <1>3 DEF MirrorInSync, CurrentBalance, IsFresh, NonRecipients
  <1>5. ReserveCovered
    BY <1>3 DEF ReserveCovered, Covered, IsFresh, SafiConfigs
  <1> QED BY <1>1, <1>2, <1>4, <1>5 DEF MoneyInv

LEMMA MoneyInvStep == TypeInv /\ LockInv /\ MoneyInv /\ [Next]_vars => MoneyInv'
  <1> SUFFICES ASSUME TypeInv, LockInv, MoneyInv, [Next]_vars PROVE MoneyInv'
    OBVIOUS
  <1>1. RequestsStand'
    BY RequestsStandStep DEF MoneyInv
  <1>2. CASE \E r \in Requests : Commit(r)
    BY <1>1, <1>2, CommitKeepsLedger, CommitKeepsMirror, CommitKeepsReserve
    DEF MoneyInv
  <1>3. CASE \A r \in Requests : ~ Commit(r)
    <2>1. UNCHANGED <<ledger, safi>>
      BY <1>3, MoneyMovesAtCommit
    <2>2. LedgerBalanced' /\ MirrorInSync' /\ ReserveCovered'
      BY <2>1 DEF MoneyInv, LedgerBalanced, MirrorInSync, ReserveCovered,
                  CurrentBalance, Governed, ledger, safi
    <2> QED BY <1>1, <2>2 DEF MoneyInv
  <1> QED BY <1>2, <1>3

LEMMA MoneyInvariant == Spec => []MoneyInv
  BY InitMoneyInv, MoneyInvStep, TypeInvariant, LockInvariant, PTL DEF Spec

\* No interleaving loses an entry of an account that receives no internal
\* transfers, nor posts one twice.
THEOREM LedgerCorrect == Spec => []LedgerBalanced
  <1>1. MoneyInv => LedgerBalanced
    BY DEF MoneyInv
  <1> QED BY <1>1, MoneyInvariant, PTL

\* The balance Safi judges such an account by is the balance it has.
THEOREM MirrorCorrect == Spec => []MirrorInSync
  <1>1. MoneyInv => MirrorInSync
    BY DEF MoneyInv
  <1> QED BY <1>1, MoneyInvariant, PTL

\* The reserve of such an account is eaten only by what its buffer was charged.
THEOREM ReserveCorrect == Spec => []ReserveCovered
  <1>1. MoneyInv => ReserveCovered
    BY DEF MoneyInv
  <1> QED BY <1>1, MoneyInvariant, PTL

-----------------------------------------------------------------------------
(***************************************************************************)
(* Strict days                                                             *)
(***************************************************************************)

\* The row of a request that has inserted it carries a day that has come.
RowsDated == \A r \in Requests : pc[r] = "commit" => tx[r].rowDay =< today

\* The limit_breach row of account a for day d, and a debit that was dated on
\* that day and looked at later.
Reported(a, d) ==
  \E o \in overrides : o.account = a /\ o.type = "limit_breach" /\ o.day = d

SpansMidnight(a, d) ==
  \E r \in Requests : /\ pc[r] = "committed" /\ req[r].account = a
                      /\ tx[r].rowDay = d /\ tx[r].checkedOn > d

\* Nothing that happened to account a or to its answered requests is undone.
Remembers(a) ==
  /\ overrides \subseteq overrides'
  /\ \A r \in Requests : pc[r] = "committed" =>
       pc'[r] = "committed" /\ req'[r] = req[r] /\ tx'[r] = tx[r]

\* What has been reported stays reported, and so does the exception.
LEMMA ReportsLast ==
  ASSUME NEW a \in Accounts, NEW d \in Days, Remembers(a)
  PROVE  /\ Reported(a, d) => Reported(a, d)'
         /\ SpansMidnight(a, d) => SpansMidnight(a, d)'
  <1>1. Reported(a, d) => Reported(a, d)'
    BY DEF Reported, Remembers
  <1>2. SpansMidnight(a, d) => SpansMidnight(a, d)'
    BY DEF SpansMidnight, Remembers
  <1> QED BY <1>1, <1>2

\* No step touches an answered request or deletes an override.
LEMMA StepRemembers ==
  ASSUME TypeInv, [Next]_vars, NEW a
  PROVE  Remembers(a)
  <1>1. ASSUME NEW r \in Requests, Submit(r)
        PROVE  Remembers(a)
    <2>1. /\ pc[r] = "idle" /\ overrides' = overrides /\ tx' = tx
          /\ \A s \in Requests : s # r => pc'[s] = pc[s] /\ req'[s] = req[s]
      BY <1>1 DEF Submit, Goto, safi, TypeInv, TypeOK
    <2> QED BY <2>1 DEF Remembers
  <1>2. ASSUME NEW r \in Requests, Serve(r)
        PROVE  Remembers(a)
    <2>1. /\ req' = req /\ pc[r] # "committed"
          /\ \A s \in Requests : s # r => pc'[s] = pc[s] /\ tx'[s] = tx[s]
      BY <1>2 DEF Serve, LockWallet, InsufficientBalance, WithdrawalDeclined,
                  LockWaitFails, AwaitsLock, AssertWithdrawalAllowed, ReadRecipient,
                  SaveWallet, CreditRecipient, RecordTransaction, Commit,
                  RollBack, Goto, TypeInv, TypeOK
    <2>2. overrides \subseteq overrides'
      BY <1>2 DEF Serve, LockWallet, InsufficientBalance, WithdrawalDeclined,
                  LockWaitFails, AssertWithdrawalAllowed, ReadRecipient,
                  SaveWallet, CreditRecipient, RecordTransaction, Commit,
                  OverridesAfter, RollBack, safi
    <2> QED BY <2>1, <2>2 DEF Remembers
  <1>3. CASE Crash
    BY <1>3 DEF Crash, Remembers, safi, InFlight, TypeInv, TypeOK
  <1>4. CASE NextDay \/ Terminating \/ UNCHANGED vars
    BY <1>4 DEF NextDay, Terminating, vars, Remembers, safi
  <1> QED BY <1>1, <1>2, <1>3, <1>4 DEF Next

LEMMA RowsDatedStep == TypeInv /\ RowsDated /\ [Next]_vars => RowsDated'
  <1> SUFFICES ASSUME TypeInv, RowsDated, [Next]_vars,
                      NEW s \in Requests, pc'[s] = "commit"
               PROVE  tx'[s].rowDay =< today'
    BY DEF RowsDated
  <1>0. today \in Int /\ tx[s] \in TxLocals
    BY MaxDayAssumption DEF TypeInv, TypeOK, Days
  <1>1. ASSUME NEW r \in Requests, Submit(r)
        PROVE  pc[s] = "commit" /\ tx'[s] = tx[s] /\ today' = today
    BY <1>1 DEF Submit, Goto, TypeInv, TypeOK
  <1>2. ASSUME NEW r \in Requests, Serve(r)
        PROVE  /\ today' = today
               /\ \/ pc[s] = "commit" /\ tx'[s] = tx[s]
                  \/ tx'[s].rowDay = today
    <2>1. CASE RecordTransaction(r) /\ s = r
      BY <2>1, <1>0 DEF RecordTransaction, TxLocals, TypeInv, TypeOK
    <2>2. CASE ~ RecordTransaction(r) \/ s # r
      BY <1>2, <2>2
      DEF Serve, LockWallet, InsufficientBalance, WithdrawalDeclined,
          LockWaitFails, AssertWithdrawalAllowed, ReadRecipient,
          SaveWallet, CreditRecipient, RecordTransaction, Commit,
          RollBack, Goto, TypeInv, TypeOK
    <2> QED BY <2>1, <2>2
  <1>3. CASE Crash
    BY <1>3 DEF Crash, InFlight, RowsDated
  <1>4. CASE NextDay
    <2>1. tx[s].rowDay \in Int /\ today' = today + 1 /\ tx[s].rowDay =< today
          /\ tx' = tx
      BY <1>4, <1>0, MaxDayAssumption DEF NextDay, RowsDated, TxLocals, Days
    <2> QED BY <2>1, <1>0
  <1>5. CASE Terminating \/ UNCHANGED vars
    BY <1>5 DEF Terminating, vars, RowsDated
  <1> QED BY <1>0, <1>1, <1>2, <1>3, <1>4, <1>5 DEF Next, RowsDated

\* A debit leaves the terms of the daily limit as they are.
LEMMA LimitKept ==
  ASSUME NEW c \in SafiConfigs, NEW seen, NEW amount, NEW after, NEW total,
         NEW spentToday
  PROVE  LET d == ConfigAfterDebit(c, seen, amount, after, total)
         IN BreachesLimit(d, spentToday) <=> BreachesLimit(c, spentToday)
  <1> DEFINE d == ConfigAfterDebit(c, seen, amount, after, total)
  <1>1. /\ d.governanceMode = c.governanceMode /\ d.income = c.income
        /\ d.protectedSum = c.protectedSum /\ d.cycleDays = c.cycleDays
    BY DEF ConfigAfterDebit, SafiConfigs
  <1> HIDE DEF d
  <1>2. BreachesLimit(d, spentToday) <=> BreachesLimit(c, spentToday)
    BY <1>1 DEF BreachesLimit, DailySafeSpend
  <1> QED BY <1>2 DEF d

\* A commit accounts for the day of its row: the limit is looked at with the row
\* counted in, or midnight has passed.
LEMMA CommitReports ==
  ASSUME TypeInv, RequestsStand, RowsDated, UnreportedBreachSpansMidnight,
         NEW r \in Requests, Commit(r), Remembers(req[r].account)
  PROVE  UnreportedBreachSpansMidnight'
  <1> SUFFICES ASSUME NEW a \in Accounts, NEW d \in Days,
                      Governed(a)', ~ config'[a].isPaused,
                      BreachesLimit(config'[a], spent'[a][d])
               PROVE  Reported(a, d)' \/ SpansMidnight(a, d)'
    BY DEF UnreportedBreachSpansMidnight, Reported, SpansMidnight
  <1>0. /\ req[r].account \in Accounts /\ req[r].amount \in Nat
        /\ tx[r] \in TxLocals /\ tx[r].rowDay \in Days /\ today \in Days
        /\ tx[r].seen = config[req[r].account]
        /\ tx[r].rowDay =< today
    BY RequestTypes DEF Commit, TypeInv, TypeOK, RequestsStand, Stands, RowsDated, TxLocals
  <1>1. ASSUME config'[a] = config[a], spent'[a][d] = spent[a][d]
        PROVE  Reported(a, d)' \/ SpansMidnight(a, d)'
    <2>1. Reported(a, d) \/ SpansMidnight(a, d)
      BY <1>1 DEF UnreportedBreachSpansMidnight, Reported, SpansMidnight, Governed
    <2>2. Remembers(a)
      BY DEF Remembers
    <2> QED BY <2>1, <2>2, ReportsLast
  <1>2. CASE a # req[r].account \/ ~ RecordsDebit(r)
    <2>1. config'[a] = config[a]
      BY <1>2, <1>0 DEF Commit, ConfigAfter, Polices, TypeInv, TypeOK
    <2>2. spent'[a][d] = spent[a][d]
      BY <1>2, <1>0 DEF Commit, SpentAfter, TypeInv, TypeOK
    <2> QED BY <2>1, <2>2, <1>1
  <1>3. CASE a = req[r].account /\ RecordsDebit(r)
    <2>0. Governed(a) /\ config[a] \in SafiConfigs
      BY <1>0, <1>3 DEF RecordsDebit, Records, Governed, TypeInv, TypeOK
    <2>1. ~ tx[r].seen.isPaused
      BY <1>0, <1>3 DEF Commit, ConfigAfter, Polices
    <2>2. Polices(r)
      BY <1>3, <2>1 DEF Polices
    <2>3. config'[a] = ConfigAfterDebit(config[a], tx[r].seen, req[r].amount,
                                        BalanceAfter(r), SpentToday(r))
      BY <1>0, <1>3, <2>0, <2>2 DEF Commit, ConfigAfter, TypeInv, TypeOK
    <2>4. BreachesLimit(config[a], spent'[a][d])
      BY <2>0, <2>3, LimitKept
    <2>5. spent'[a] = [spent[a] EXCEPT ![tx[r].rowDay] = @ + req[r].amount]
      BY <1>0, <1>3 DEF Commit, SpentAfter, TypeInv, TypeOK
    <2>6. CASE d # tx[r].rowDay
      <3>1. spent'[a][d] = spent[a][d]
        BY <2>5, <2>6, <1>0 DEF TypeInv, TypeOK
      <3>2. Reported(a, d) \/ SpansMidnight(a, d)
        BY <2>0, <2>1, <2>4, <3>1, <1>0, <1>3
        DEF UnreportedBreachSpansMidnight, Reported, SpansMidnight
      <3>3. Remembers(a)
        BY DEF Remembers
      <3> QED BY <3>2, <3>3, ReportsLast
    <2>7. CASE d = tx[r].rowDay /\ today = d
      <3>1. SpentToday(r) = spent'[a][d]
        BY <1>3, <2>7 DEF SpentToday, Commit
      <3>2. BreachesLimit(tx[r].seen, SpentToday(r))
        BY <1>0, <1>3, <2>4, <3>1
      <3>3. [by |-> r, account |-> a, type |-> "limit_breach", day |-> d] \in overrides'
        BY <1>3, <2>2, <2>7, <3>2
        DEF Commit, OverridesAfter, TriggersOverride, OverrideType
      <3> QED BY <3>3 DEF Reported
    <2>8. CASE d = tx[r].rowDay /\ today # d
      <3>1. today > d
        BY <2>8, <1>0, MaxDayAssumption DEF Days
      <3>2. /\ pc'[r] = "committed" /\ req'[r].account = a
            /\ tx'[r].rowDay = d /\ tx'[r].checkedOn = today
        BY <1>0, <1>3, <2>8 DEF Commit, Goto, TypeInv, TypeOK, TxLocals
      <3> QED BY <3>1, <3>2 DEF SpansMidnight
    <2> QED BY <2>6, <2>7, <2>8
  <1> QED BY <1>2, <1>3

\* A day without debits is within every limit `create` accepts.
LEMMA InitReports == Init => UnreportedBreachSpansMidnight
  <1> SUFFICES ASSUME Init, NEW a \in Accounts, NEW d \in Days, Governed(a)
               PROVE  ~ BreachesLimit(config[a], spent[a][d])
    BY DEF UnreportedBreachSpansMidnight
  <1>1. /\ config[a] \in SafiConfigs /\ config[a].protectedSum =< config[a].income
        /\ spent[a][d] = 0
    BY SetupsAssumption DEF Init, Governed, IsFresh
  <1>2. /\ config[a].income - config[a].protectedSum \in Nat
        /\ config[a].cycleDays \in Nat
    BY <1>1 DEF SafiConfigs
  <1>3. \A m, k \in Nat : k > 0 => m \div k >= 0
    OBVIOUS
  <1>4. DailySafeSpend(config[a]) >= 0
    BY <1>2, <1>3 DEF DailySafeSpend
  <1>5. DailySafeSpend(config[a]) \in Int
    BY <1>2 DEF DailySafeSpend
  <1> QED BY <1>1, <1>4, <1>5 DEF BreachesLimit

LEMMA ReportsStep ==
  ASSUME TypeInv, RequestsStand, RowsDated, UnreportedBreachSpansMidnight, [Next]_vars
  PROVE  UnreportedBreachSpansMidnight'
  <1>1. CASE \E r \in Requests : Commit(r)
    BY <1>1, StepRemembers, CommitReports
  <1>2. CASE \A r \in Requests : ~ Commit(r)
    <2>1. config' = config /\ spent' = spent
      BY <1>2, MoneyMovesAtCommit DEF safi
    <2>2. ASSUME NEW a \in Accounts, NEW d \in Days,
                 Governed(a)', ~ config'[a].isPaused,
                 BreachesLimit(config'[a], spent'[a][d])
          PROVE  Reported(a, d)' \/ SpansMidnight(a, d)'
      <3>1. Reported(a, d) \/ SpansMidnight(a, d)
        BY <2>1, <2>2 DEF UnreportedBreachSpansMidnight, Reported, SpansMidnight, Governed
      <3> QED BY <3>1, StepRemembers, ReportsLast
    <2> QED BY <2>2 DEF UnreportedBreachSpansMidnight, Reported, SpansMidnight
  <1> QED BY <1>1, <1>2

\* A strict day over its limit has its limit_breach row, unless a debit of that
\* day was looked at after midnight: for every account, recipients included.
THEOREM BreachesAreReported == Spec => []UnreportedBreachSpansMidnight
  <1>1. Init => RowsDated /\ UnreportedBreachSpansMidnight
    BY InitReports DEF Init, RowsDated
  <1>2. TypeInv /\ MoneyInv /\ RowsDated /\ UnreportedBreachSpansMidnight /\ [Next]_vars
          => RowsDated' /\ UnreportedBreachSpansMidnight'
    BY RowsDatedStep, ReportsStep DEF MoneyInv
  <1> QED BY <1>1, <1>2, TypeInvariant, MoneyInvariant, PTL DEF Spec

=============================================================================
