SPECIFICATION Spec
CONSTANTS
  Empty = Empty
  COutput = COutput
  CCreation = CCreation
  CLast = CLast
  NotFound = 15
  EmptyName = noname
  Ssids = {noname, home}
  Unstorable = {}
  o1 = o1
  o2 = o2
  Outputs <- TwoOutputs
  Codes = {c1}
  Garbage = {1, 3}
  None = None
  MaxClock = 1
  MaxCrashes = 1
  MaxEdits = 0
INVARIANTS
  TypeOK
  KeysUnique
  HandleMatches
  RowsBelong
  HeaderFirst
PROPERTY
  RowsKept
