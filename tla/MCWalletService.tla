--------------------------- MODULE MCWalletService ---------------------------
(***************************************************************************)
(* Small instances of WalletService: two or three wallets, a few calls,    *)
(* and the configurations a customer can choose over the opening balances. *)
(***************************************************************************)
EXTENDS WalletRefinement, TLC

CONSTANTS a1, a2, r1, r2, r3

RequestSymmetry == Permutations({r1, r2, r3})

Config(behaviour, mode, reserve, buffer, paused, balance) ==
  [ income          |-> 6,
    protectedSum    |-> reserve,
    baselineBalance |-> balance,
    governanceMode  |-> mode,
    cycleDays       |-> 2,
    cardBehaviour   |-> behaviour,
    bufferAmount    |-> buffer,
    remainingBuffer |-> buffer,
    isPaused        |-> paused,
    overrideActive  |-> FALSE ]

Opening == [a \in Accounts |-> 4]

\* a1 has no config or one of these, the other accounts have none.
FlexibleConfigs ==
  { Config("hard_decline", "flexible", 3, 0, FALSE, 4),
    Config("hard_decline", "flexible", 6, 0, FALSE, 4),
    Config("auto_cover",   "flexible", 3, 0, FALSE, 4),
    Config("buffer",       "flexible", 3, 2, FALSE, 4),
    Config("buffer",       "flexible", 5, 3, FALSE, 4),
    Config("buffer",       "flexible", 3, 2, TRUE,  4) }

StrictConfigs ==
  { Config("auto_cover",   "strict", 2, 0, FALSE, 4),
    Config("buffer",       "strict", 4, 2, FALSE, 4),
    Config("hard_decline", "strict", 3, 0, FALSE, 4) }

OnFirst(configs) ==
  { [a \in Accounts |-> IF a = a1 THEN c ELSE NoConfig] : c \in configs }

FlexibleSetups == OnFirst(FlexibleConfigs \union {NoConfig})

StrictSetups == OnFirst(StrictConfigs)

GovernedSetups == FlexibleSetups \union StrictSetups

\* Midnight matters to strict accounts alone.
MidnightOnlyWhenStrict ==
  today > 0 => config[a1] # NoConfig /\ config[a1].governanceMode = "strict"

UngovernedSetups == OnFirst({NoConfig})

HardDeclineSetups ==
  OnFirst({Config("hard_decline", "flexible", 6, 0, FALSE, 4)})

=============================================================================
