------------------------ MODULE MCSafiConfigService ------------------------
(***************************************************************************)
(* A few calls on one account, with the limits of the code scaled down.    *)
(***************************************************************************)
EXTENDS SafiConfigService, TLC

CONSTANTS c1, c2, c3, e1, e2

CallSymmetry == Permutations(Calls)

Opening == 3

Row(behaviour, buffer, paused) ==
  [ id                 |-> Initial,
    income             |-> 4,
    protectedSum       |-> 3,
    baselineBalance    |-> Opening,
    governanceMode     |-> "flexible",
    cycleDays          |-> 1,
    expiresAt          |-> 1,
    cardBehaviour      |-> behaviour,
    bufferAmount       |-> buffer,
    remainingBuffer    |-> buffer,
    isPaused           |-> paused,
    pauseCountThisYear |-> IF paused THEN 1 ELSE 0,
    pauseStartedAt     |-> IF paused THEN 0 ELSE NoPause,
    overrideActive     |-> FALSE ]

Dto ==
  [ income |-> 4, protectedSum |-> 2, governanceMode |-> "flexible",
    cycleDays |-> 1, cardBehaviour |-> "buffer", bufferAmount |-> 1 ]

MCCreateDtos == {Dto}

MCUpdateDtos ==
  { [bufferAmount |-> 2, cardBehaviour |-> "buffer"],
    [cycleDays |-> 2],
    [protectedSum |-> 5] }

BufferRow == {Row("buffer", 2, FALSE)}

AllRows ==
  { NoConfig, Row("buffer", 2, FALSE), Row("auto_cover", 0, FALSE),
    Row("buffer", 2, TRUE) }

=============================================================================
