SPECIFICATION Spec
CONSTANTS
  LastMonth = 6
  MonthStart <- MCMonths
  Week = 2
  DefaultDays = 3
  Setups <- StrictSetups
  UpdateDtos <- MCUpdateDtos
  Debits = {2}
  Credits = {3}
  OpeningBalance <- Opening
  FirstDay <- MCFirstDay
  LastDay = 6
  MaxEntries = 2
  MaxCalls = 1
  NoConfig = NoConfig
  NoEntry = NoEntry
  Nothing = Nothing
CHECK_DEADLOCK FALSE
PROPERTIES
  SafeToSpendIsSafe
