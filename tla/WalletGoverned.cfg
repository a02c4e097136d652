SPECIFICATION Spec
CONSTANTS
  a1 = a1
  a2 = a2
  r1 = r1
  r2 = r2
  r3 = r3
  Accounts = {a1, a2}
  External = External
  Requests = {r1, r2, r3}
  NoRequest = NoRequest
  Amounts = {1, 2}
  Recipients = {a2}
  OpeningBalance <- Opening
  NoConfig = NoConfig
  Setups <- GovernedSetups
  MaxDay = 1
SYMMETRY RequestSymmetry
CONSTRAINT MidnightOnlyWhenStrict
INVARIANTS
  TypeOK
  LedgerBalanced
  MirrorInSync
  ReserveCovered
  UnreportedBreachSpansMidnight
PROPERTIES
  ImplementsReservedAccounts
