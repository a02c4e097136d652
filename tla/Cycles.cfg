SPECIFICATION Spec
CONSTANTS
  LastMonth = 6
  MonthStart <- MCMonths
  Week = 2
  DefaultDays = 3
  Setups <- MCSetups
  UpdateDtos <- MCUpdateDtos
  Debits = {2}
  Credits = {3}
  OpeningBalance <- Opening
  FirstDay <- MCFirstDay
  LastDay = 6
  MaxEntries = 2
  MaxCalls = 2
  NoConfig = NoConfig
  NoEntry = NoEntry
  Nothing = Nothing
CHECK_DEADLOCK FALSE
INVARIANTS
  TypeOK
  ScoredAsItEnded
  BufferUsedExplained
  WindowsInOrder
  BufferPenaltyOnce
  OverridesStayFlagged
  BreachShownIsReal
  RunningCycleListedOnce
