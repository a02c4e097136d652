----------------------- MODULE WalletRefinementProofs -----------------------
(***************************************************************************)
(* The proof that WalletService implements ReservedAccounts, from the      *)
(* invariants of WalletServiceProofs: a step that is not a commit, or that *)
(* commits on an account Safi does not protect, stutters; a commit on a    *)
(* protected account is a credit, a debit above the reserve or a draw on   *)
(* the cushion.                                                            *)
(***************************************************************************)
EXTENDS WalletRefinement, WalletServiceProofs

LEMMA ProtectedConfig ==
  ASSUME TypeInv, NEW a \in Accounts, Protected(a)
  PROVE  /\ config[a] \in SafiConfigs
         /\ config[a].protectedSum \in Nat
         /\ config[a].remainingBuffer \in Nat
         /\ wallet[a] \in Nat
         /\ config[a].cardBehaviour \in {"hard_decline", "buffer"}
         /\ a \in NonRecipients
  BY DEF Protected, Governed, TypeInv, TypeOK, SafiConfigs, CardBehaviours,
         NonRecipients

LEMMA ShownTypes ==
  TypeInv => /\ BalanceOf \in [Accounts -> Nat]
             /\ ReserveOf \in [Accounts -> Nat]
             /\ CushionOf \in [Accounts -> Nat]
  <1> SUFFICES ASSUME TypeInv
               PROVE  /\ BalanceOf \in [Accounts -> Nat]
                      /\ ReserveOf \in [Accounts -> Nat]
                      /\ CushionOf \in [Accounts -> Nat]
    OBVIOUS
  <1>1. BalanceOf \in [Accounts -> Nat]
    BY ProtectedConfig DEF BalanceOf
  <1>2. ReserveOf \in [Accounts -> Nat]
    BY ProtectedConfig DEF ReserveOf
  <1>3. CushionOf \in [Accounts -> Nat]
    BY ProtectedConfig DEF CushionOf
  <1> QED BY <1>1, <1>2, <1>3

LEMMA InitRefines == Init /\ TypeInv => Reserved!Init
  BY ShownTypes DEF Reserved!Init

\* An account that no commit is about shows no change.
LEMMA OthersShowNothing ==
  ASSUME TypeInv, MoneyInv, NEW r \in Requests, Commit(r),
         NEW b \in Accounts, b # req[r].account
  PROVE  /\ BalanceOf'[b] = BalanceOf[b]
         /\ ReserveOf'[b] = ReserveOf[b]
         /\ CushionOf'[b] = CushionOf[b]
  <1>1. Protected(b)' <=> Protected(b)
    BY CommitIsLocal DEF Protected, Governed
  <1>2. config'[b] = config[b]
    BY CommitIsLocal
  <1>3. Protected(b) => wallet'[b] = wallet[b]
    BY CommitIsLocal DEF Protected, NonRecipients
  <1> QED BY <1>1, <1>2, <1>3 DEF BalanceOf, ReserveOf, CushionOf

\* What a commit on a protected account shows.
LEMMA CommitShows ==
  ASSUME TypeInv, MoneyInv, NEW r \in Requests, Commit(r),
         NEW a \in Accounts, a = req[r].account, Protected(a)
  PROVE  \/ /\ BalanceOf'[a] > BalanceOf[a]
            /\ CushionOf'[a] = CushionOf[a]
         \/ /\ BalanceOf'[a] < BalanceOf[a]
            /\ BalanceOf'[a] >= ReserveOf[a]
            /\ CushionOf'[a] = CushionOf[a]
         \/ /\ 0 =< BalanceOf'[a] /\ BalanceOf'[a] < BalanceOf[a]
            /\ BalanceOf'[a] < ReserveOf[a]
            /\ CushionOf'[a] =
                 CushionOf[a] -
                   (Reserved!ReserveLeft(BalanceOf[a], ReserveOf[a]) - BalanceOf'[a])
            /\ CushionOf'[a] >= 0
  <1> DEFINE c == config[a]
             n == req[r].amount
             after == wallet[a] - n
  <1>1. a \in Accounts
    OBVIOUS
  <1>2. /\ c \in SafiConfigs /\ c.protectedSum \in Nat /\ c.remainingBuffer \in Nat
        /\ wallet[a] \in Nat /\ a \in NonRecipients
        /\ c.cardBehaviour \in {"hard_decline", "buffer"}
        /\ Governed(a) /\ ~ c.isPaused
    BY <1>1, ProtectedConfig DEF Protected
  <1>3. Protected(a)'
    BY <1>1, <1>2, CommitKeepsTerms DEF Protected
  <1>4. /\ BalanceOf[a] = wallet[a] /\ BalanceOf'[a] = wallet'[a]
        /\ ReserveOf[a] = c.protectedSum
        /\ CushionOf[a] = IF c.cardBehaviour = "buffer" THEN c.remainingBuffer ELSE 0
        /\ CushionOf'[a] = IF config'[a].cardBehaviour = "buffer"
                           THEN config'[a].remainingBuffer ELSE 0
    BY <1>3 DEF BalanceOf, ReserveOf, CushionOf
  <1>5. /\ n \in Nat /\ n > 0
        /\ IsDebit(r) => wallet[a] >= n
        /\ wallet'[a] = IF IsDebit(r) THEN after ELSE wallet[a] + n
        /\ BalanceAfter(r) = IF IsDebit(r) THEN after ELSE wallet[a] + n
    BY <1>2, CommitSettles DEF MoneyInv
  <1>6. CASE ~ IsDebit(r)
    <2>1. config' = config
      BY <1>6 DEF Commit, ConfigAfter, Polices, RecordsDebit
    <2> QED BY <1>2, <1>4, <1>5, <1>6, <2>1
  <1>7. CASE IsDebit(r)
    <2>1. tx[r].seen = c /\ Permitted(r)
      BY <1>2, <1>7 DEF MoneyInv, RequestsStand, Stands, Commit, Holding, InFlight
    <2>2. WithdrawalAllowed(c, wallet[a], after)
      BY <1>2, <1>5, <1>7, <2>1 DEF Permitted, MoneyInv, MirrorInSync
    <2>3. c # NoConfig
      BY <1>2 DEF Governed
    <2>4. config'[a] = ConfigAfterDebit(c, c, n, after, SpentToday(r))
      BY <1>1, <1>2, <1>5, <1>7, <2>1, <2>3
      DEF Commit, ConfigAfter, Polices, RecordsDebit, Records, TypeInv, TypeOK
    <2> DEFINE d == ConfigAfterDebit(c, c, n, after, SpentToday(r))
    <2>5. CASE after >= c.protectedSum
      <3>1. d.cardBehaviour = c.cardBehaviour /\ d.remainingBuffer = c.remainingBuffer
        BY <1>2, <1>5, <1>7, <2>5
        DEF ConfigAfterDebit, DrawsOnBuffer, BreachesReserve, SafiConfigs
      <3> HIDE DEF d, c
      <3> QED BY <1>2, <1>4, <1>5, <1>7, <2>4, <2>5, <3>1 DEF d, c
    <2>6. CASE after < c.protectedSum
      <3> DEFINE left == BufferLeft(c, n, after)
      <3>1. c.cardBehaviour = "buffer" /\ c.protectedSum - after =< c.remainingBuffer
        BY <1>2, <1>5, <1>7, <2>2, <2>6 DEF WithdrawalAllowed, BreachesReserve
      <3>2. left = c.remainingBuffer
                     - (IF wallet[a] < c.protectedSum THEN n ELSE c.protectedSum - after)
        BY <1>2, <1>5 DEF BufferLeft, BufferUsed, BreachesReserve
      <3>3. left \in Nat
        BY <1>2, <1>5, <1>7, <2>6, <3>1, <3>2
      <3>4. /\ d.remainingBuffer = left
            /\ d.cardBehaviour = IF left =< 0 THEN "hard_decline" ELSE "buffer"
        BY <1>2, <1>5, <2>6, <3>1, <3>3
        DEF ConfigAfterDebit, DrawsOnBuffer, BreachesReserve, SafiConfigs
      <3> HIDE DEF d, c, left
      <3>5. CushionOf'[a] = left /\ CushionOf[a] = c.remainingBuffer
        BY <1>4, <2>4, <3>1, <3>3, <3>4 DEF d, c
      <3>6. left = c.remainingBuffer -
                     (Reserved!ReserveLeft(wallet[a], c.protectedSum) - after)
        BY <1>2, <1>5, <1>7, <2>6, <3>2 DEF Reserved!ReserveLeft, c
      <3>7. 0 =< after /\ after < wallet[a] /\ wallet'[a] = after /\ left >= 0
        BY <1>2, <1>5, <1>7, <3>3
      <3> QED BY <1>4, <2>6, <3>5, <3>6, <3>7 DEF c
    <2> QED BY <1>2, <1>5, <2>5, <2>6
  <1> QED BY <1>6, <1>7

LEMMA CommitRefines ==
  ASSUME TypeInv, MoneyInv, NEW r \in Requests, Commit(r)
  PROVE  Reserved!Next \/ UNCHANGED <<BalanceOf, ReserveOf, CushionOf>>
  <1>1. PICK a \in Accounts : a = req[r].account
    BY RequestTypes DEF Commit, TypeInv
  <1>2. \A b \in Accounts : b # a => /\ BalanceOf'[b] = BalanceOf[b]
                                     /\ ReserveOf'[b] = ReserveOf[b]
                                     /\ CushionOf'[b] = CushionOf[b]
    BY <1>1, OthersShowNothing
  <1>3. ReserveOf'[a] = ReserveOf[a]
    <2>1. Protected(a)' <=> Protected(a)
      BY CommitKeepsTerms DEF Protected
    <2>2. Protected(a) => config'[a].protectedSum = config[a].protectedSum
      BY ProtectedConfig DEF Commit, ConfigAfter, ConfigAfterDebit, SafiConfigs,
                             TypeInv, TypeOK
    <2> QED BY <2>1, <2>2 DEF ReserveOf
  <1>4. UNCHANGED ReserveOf
    BY <1>2, <1>3 DEF ReserveOf
  <1>5. CASE Protected(a)
    <2>1. BalanceOf' = [BalanceOf EXCEPT ![a] = BalanceOf'[a]]
      BY <1>2 DEF BalanceOf
    <2>2. CushionOf' = [CushionOf EXCEPT ![a] = CushionOf'[a]]
      BY <1>2 DEF CushionOf
    <2>3. Reserved!Only(a)
      BY <2>1, <2>2, <1>4 DEF Reserved!Only
    <2>4. Reserved!Credit(a) \/ Reserved!SpendPool(a) \/ Reserved!DrawOnCushion(a)
      BY <1>1, <1>5, <2>3, CommitShows
      DEF Reserved!Credit, Reserved!SpendPool, Reserved!DrawOnCushion
    <2> QED BY <2>4 DEF Reserved!Next
  <1>6. CASE ~ Protected(a)
    <2>1. ~ Protected(a)'
      BY <1>6, CommitKeepsTerms DEF Protected
    <2>2. BalanceOf'[a] = BalanceOf[a] /\ CushionOf'[a] = CushionOf[a]
      BY <1>6, <2>1 DEF BalanceOf, CushionOf
    <2>3. UNCHANGED <<BalanceOf, CushionOf>>
      BY <1>2, <2>2 DEF BalanceOf, CushionOf
    <2> QED BY <1>4, <2>3
  <1> QED BY <1>5, <1>6

LEMMA StepRefines ==
  TypeInv /\ MoneyInv /\ [Next]_vars => [Reserved!Next]_(Reserved!vars)
  <1> SUFFICES ASSUME TypeInv, MoneyInv, [Next]_vars
               PROVE  [Reserved!Next]_(Reserved!vars)
    OBVIOUS
  <1>1. CASE \E r \in Requests : Commit(r)
    BY <1>1, CommitRefines DEF Reserved!vars
  <1>2. CASE \A r \in Requests : ~ Commit(r)
    <2>1. wallet' = wallet /\ config' = config
      BY <1>2, MoneyMovesAtCommit DEF ledger, safi
    <2>2. \A a \in Accounts : Protected(a)' <=> Protected(a)
      BY <2>1 DEF Protected, Governed
    <2>3. UNCHANGED <<BalanceOf, ReserveOf, CushionOf>>
      BY <2>1, <2>2 DEF BalanceOf, ReserveOf, CushionOf
    <2> QED BY <2>3 DEF Reserved!vars
  <1> QED BY <1>1, <1>2

\* The money path keeps the promise of ReservedAccounts to every account that
\* is enrolled, not paused, not on auto cover and no internal transfer reaches.
THEOREM RefinesReservedAccounts == Spec => ImplementsReservedAccounts
  BY InitRefines, StepRefines, TypeInvariant, MoneyInvariant, PTL
  DEF Spec, ImplementsReservedAccounts, Reserved!Spec

-----------------------------------------------------------------------------
\* What follows from the three promised steps, of the account they are about ...
LEMMA PromisedStepPays ==
  ASSUME NEW n \in Nat, NEW m \in Nat, NEW floor \in Nat,
         NEW left \in Nat, NEW rest \in Nat,
         \/ m > n /\ rest = left
         \/ m < n /\ m >= floor /\ rest = left
         \/ /\ m < n /\ m < floor
            /\ rest = left - (Reserved!ReserveLeft(n, floor) - m)
  PROVE  Reserved!ReserveLeft(m, floor) - rest >= Reserved!ReserveLeft(n, floor) - left
BY DEF Reserved!ReserveLeft

\* ... and of all of them.
LEMMA StepPays ==
  ASSUME TypeInv, TypeInv', [Reserved!Next]_(Reserved!vars), NEW a \in Accounts
  PROVE  Reserved!Secure(a)' >= Reserved!Secure(a)
  <1>1. /\ BalanceOf[a] \in Nat /\ ReserveOf[a] \in Nat /\ CushionOf[a] \in Nat
        /\ BalanceOf'[a] \in Nat /\ CushionOf'[a] \in Nat
    <2>1. (TypeInv => /\ BalanceOf \in [Accounts -> Nat]
                      /\ ReserveOf \in [Accounts -> Nat]
                      /\ CushionOf \in [Accounts -> Nat])'
      BY ShownTypes, PTL
    <2> QED BY <2>1, ShownTypes
  <1>2. Reserved!ReserveLeft(BalanceOf[a], ReserveOf[a]) \in Int
    BY <1>1 DEF Reserved!ReserveLeft
  <1>3. CASE /\ BalanceOf'[a] = BalanceOf[a] /\ CushionOf'[a] = CushionOf[a]
             /\ ReserveOf'[a] = ReserveOf[a]
    BY <1>1, <1>2, <1>3 DEF Reserved!Secure
  <1>4. CASE UNCHANGED Reserved!vars
    BY <1>3, <1>4 DEF Reserved!vars
  <1>5. ASSUME NEW b \in Accounts,
               Reserved!Credit(b) \/ Reserved!SpendPool(b) \/ Reserved!DrawOnCushion(b)
        PROVE  Reserved!Secure(a)' >= Reserved!Secure(a)
    <2>1. ReserveOf'[a] = ReserveOf[a] /\ Reserved!Only(b)
      BY <1>5 DEF Reserved!Credit, Reserved!SpendPool, Reserved!DrawOnCushion,
                  Reserved!Only
    <2>2. CASE b # a
      <3>1. BalanceOf'[a] = BalanceOf[a] /\ CushionOf'[a] = CushionOf[a]
        BY <2>1, <2>2 DEF Reserved!Only, BalanceOf, CushionOf
      <3> QED BY <1>3, <2>1, <3>1
    <2>3. CASE b = a
      <3>1. \/ BalanceOf'[a] > BalanceOf[a] /\ CushionOf'[a] = CushionOf[a]
            \/ /\ BalanceOf'[a] < BalanceOf[a] /\ BalanceOf'[a] >= ReserveOf[a]
               /\ CushionOf'[a] = CushionOf[a]
            \/ /\ BalanceOf'[a] < BalanceOf[a] /\ BalanceOf'[a] < ReserveOf[a]
               /\ CushionOf'[a] =
                    CushionOf[a] -
                      (Reserved!ReserveLeft(BalanceOf[a], ReserveOf[a]) - BalanceOf'[a])
        BY <1>5, <2>3 DEF Reserved!Credit, Reserved!SpendPool, Reserved!DrawOnCushion
      <3> QED BY <1>1, <2>1, <3>1, PromisedStepPays DEF Reserved!Secure
    <2> QED BY <2>2, <2>3
  <1> QED BY <1>4, <1>5 DEF Reserved!Next

\* What the three promised steps add up to, and so what the money path does for
\* every account it protects, in every interleaving: the part of the reserve that
\* the rest of the buffer does not reach never shrinks.
THEOREM ReserveIsPaidFor == Spec => Reserved!SecureNeverShrinks
  <1>1. TypeInv /\ TypeInv' /\ [Reserved!Next]_(Reserved!vars) =>
          [\A a \in Accounts : Reserved!Secure(a)' >= Reserved!Secure(a)]_(Reserved!vars)
    BY StepPays
  <1> QED
    BY <1>1, StepRefines, TypeInvariant, MoneyInvariant, PTL
    DEF Spec, Reserved!SecureNeverShrinks

=============================================================================
