SPECIFICATION Spec
CONSTANTS
  q1 = q1
  q2 = q2
  q3 = q3
  e0 = e0
  e1 = e1
  e2 = e2
  n0 = n0
  n1 = n1
  Requests = {q1, q2, q3}
  Initial = Initial
  Emails = {e0, e1, e2}
  InitialEmail = e0
  Numbers = {n0, n1}
  InitialNumber = n0
  Transports = {"smtp", "json"}
  ValidHours = 1
  LastHour = 2
  NoUser = NoUser
  NoToken = NoToken
  NoOwner = NoOwner
  Nothing = Nothing
SYMMETRY Symmetric
INVARIANTS
  TypeOK
  OneWalletPerUser
  SpentTokensGone
  SentMeansDelivered
PROPERTIES
  PasswordChangesByToken
  PromisedTokensWork
