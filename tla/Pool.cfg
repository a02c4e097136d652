SPECIFICATION FairSpec
CONSTANTS
  a1 = a1
  a2 = a2
  e1 = e1
  e2 = e2
  e3 = e3
  e4 = e4
  Accounts = {a1, a2}
  Plain = {p1}
  Entries = {e1, e2, e3, e4}
  NoRequest = NoRequest
  AccountOf <- MCAccountOf
  Lookups <- MCLookups
  PoolSize = 2
CHECK_DEADLOCK FALSE
INVARIANTS
  TypeOK
  StuckOnlyWhenDebitsFillThePool
  PoolRefills
PROPERTIES
  AnsweredUnlessStuck
