-------------------------- MODULE MCConnectionPool --------------------------
(***************************************************************************)
(* Small pools: three or four entries on two wallets and a plain call.     *)
(***************************************************************************)
EXTENDS ConnectionPool, TLC

CONSTANTS a1, a2, e1, e2, e3, e4

\* e1 and e3 debit a1, e2 and e4 a2; e1 is policed, e2 strict, e4 a credit.
MCAccountOf ==
  [e \in Entries |-> IF e \in {e1, e3} THEN a1 ELSE a2]

MCLookups ==
  [e \in Entries |-> CASE e = e1 -> 2 [] e = e2 -> 3 [] e = e3 -> 1 [] e = e4 -> 0]

=============================================================================
