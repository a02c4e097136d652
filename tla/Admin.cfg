SPECIFICATION Spec
CONSTANTS
  q1 = q1
  q2 = q2
  q3 = q3
  short = short
  long = long
  DefaultHook = DefaultHook
  Requests = {q1, q2, q3}
  ControlsDtos <- MCDtos
  Hooks = {short, long}
  Length <- MCLength
  InitialTexts <- MCTexts
  MaxBoots = 2
  NoRule = NoRule
  NoControls = NoControls
  Nothing = Nothing
SYMMETRY RequestSymmetry
INVARIANTS
  TypeOK
  DeletedRulesStayDeleted
  LogTellsTheRules
  ActiveModesFollow
  WebhookKept
PROPERTIES
  UpdatesTouchWhatTheyName
