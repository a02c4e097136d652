SPECIFICATION Spec
CONSTANTS
  c1 = c1
  c2 = c2
  c3 = c3
  e1 = e1
  e2 = e2
  Calls = {c1, c2}
  Entries = {e1}
  Initial = Initial
  NoConfig = NoConfig
  NoRequest = NoRequest
  InitialRows <- AllRows
  CreateDtos <- MCCreateDtos
  UpdateDtos <- MCUpdateDtos
  Amounts = {1}
  OpeningBalance <- Opening
  MaxPauses = 1
  WatchdogDays = 1
  MaxRollovers = 2
  MaxNow = 2
SYMMETRY CallSymmetry
INVARIANTS
  TypeOK
  PausesLimitedUnlessStale
  WindowsClosedOnce
  AnswersAreCurrent
  OverrideFlagExplained
  MirrorUnlessUnrecorded
  NoEndlessPause
PROPERTIES
  BufferRefilledForCause
  RowsReturnByCreate
