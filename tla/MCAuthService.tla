--------------------------- MODULE MCAuthService ---------------------------
(***************************************************************************)
(* Three requests on a bank with one customer and room for one more wallet.*)
(***************************************************************************)
EXTENDS AuthService, TLC

CONSTANTS q1, q2, q3, e0, e1, e2, n0, n1

Symmetric == Permutations(Requests)

=============================================================================
