--------------------------- MODULE MCAdminConsole ---------------------------
(***************************************************************************)
(* Three requests on rules, controls and settings, over two boots.         *)
(***************************************************************************)
EXTENDS AdminConsole, TLC

CONSTANTS q1, q2, q3, short, long

RequestSymmetry == Permutations(Requests)

MCDtos ==
  { [modeConfigurations |->
       ("Strict" :> [status |-> "INACTIVE", allowedBehaviours |-> "default"])],
    [modeConfigurations |->
       ("Flexible" :> [status |-> "ACTIVE", allowedBehaviours |-> "other"])],
    [governanceMode |-> "Strict", activeModes |-> {"Strict"}] }

MCTexts == {DefaultHook, "missing"}

MCLength == (short :> 1) @@ (DefaultHook :> 2) @@ (long :> 3)

=============================================================================
