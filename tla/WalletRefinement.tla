-------------------------- MODULE WalletRefinement --------------------------
(***************************************************************************)
(* WalletService implements ReservedAccounts.  An account Safi protects    *)
(* shows its wallet, its protected sum and its remaining buffer (which     *)
(* only counts while the card behaviour is buffer); any other account      *)
(* shows as an empty one that never changes.                               *)
(***************************************************************************)
EXTENDS WalletService

Protected(a) ==
  /\ a \notin Recipients
  /\ Governed(a)
  /\ ~ config[a].isPaused
  /\ config[a].cardBehaviour # "auto_cover"

BalanceOf == [a \in Accounts |-> IF Protected(a) THEN wallet[a] ELSE 0]

ReserveOf ==
  [a \in Accounts |-> IF Protected(a) THEN config[a].protectedSum ELSE 0]

CushionOf ==
  [a \in Accounts |-> IF Protected(a) /\ config[a].cardBehaviour = "buffer"
                      THEN config[a].remainingBuffer ELSE 0]

Reserved == INSTANCE ReservedAccounts WITH
  balance <- BalanceOf, reserve <- ReserveOf, cushion <- CushionOf

\* Every step of the money path, whatever the interleaving, is for each
\* protected account one of the three steps its owner was promised, or none:
\* no debit eats into the reserve without the cushion paying for all of it,
\* and nothing refills the cushion behind its back.
ImplementsReservedAccounts == Reserved!Spec

=============================================================================
