-------------------------- MODULE ReservedAccounts --------------------------
(***************************************************************************)
(* What Safi promises the owner of a protected account, without requests,  *)
(* locks or databases: the balance may grow; it may shrink as long as the  *)
(* reserve stays in it; and it may sink below the reserve by drawing on a  *)
(* cushion, which pays for all of it and is not refilled.                  *)
(*                                                                         *)
(* The money path implements this for every account that is enrolled, not  *)
(* paused, not on auto cover and receives no internal transfer             *)
(* (WalletRefinement).                                                     *)
(***************************************************************************)
EXTENDS Integers

CONSTANT Accounts

VARIABLES
  balance,  \* the money in the account
  reserve,  \* the part of it that is to be kept
  cushion   \* how far the reserve may still be drawn down

vars == <<balance, reserve, cushion>>

Init ==
  /\ balance \in [Accounts -> Nat]
  /\ reserve \in [Accounts -> Nat]
  /\ cushion \in [Accounts -> Nat]

\* Only account a changes.
Only(a) ==
  /\ balance' = [balance EXCEPT ![a] = balance'[a]]
  /\ cushion' = [cushion EXCEPT ![a] = cushion'[a]]
  /\ UNCHANGED reserve

Credit(a) ==
  /\ balance'[a] > balance[a]
  /\ cushion'[a] = cushion[a]
  /\ Only(a)

SpendPool(a) ==
  /\ balance'[a] < balance[a]
  /\ balance'[a] >= reserve[a]
  /\ cushion'[a] = cushion[a]
  /\ Only(a)

\* The part of the reserve that is still in the account.
ReserveLeft(n, floor) == IF n < floor THEN n ELSE floor

DrawOnCushion(a) ==
  /\ 0 =< balance'[a] /\ balance'[a] < balance[a]
  /\ balance'[a] < reserve[a]
  /\ cushion'[a] = cushion[a] - (ReserveLeft(balance[a], reserve[a]) - balance'[a])
  /\ cushion'[a] >= 0
  /\ Only(a)

Next == \E a \in Accounts : Credit(a) \/ SpendPool(a) \/ DrawOnCushion(a)

Spec == Init /\ [][Next]_vars

-----------------------------------------------------------------------------
\* The part of the reserve that would still be there if all of the cushion were
\* drawn: a number below zero when the account holds less than that.
Secure(a) == ReserveLeft(balance[a], reserve[a]) - cushion[a]

\* No step lets it shrink: what leaves the reserve is taken off the cushion, once.
SecureNeverShrinks == [][\A a \in Accounts : Secure(a)' >= Secure(a)]_vars

=============================================================================
