SPECIFICATION Spec
CONSTANTS
  Empty = Empty
  COutput = COutput
  CCreation = CCreation
  CLast = CLast
  NotFound = 15
  EmptyName = noname
  Ssids = {noname}
  Unstorable = {}
  o1 = o1
  o2 = o2
  Outputs <- OneOutput
  Codes = {c1}
  Garbage = {7}
  None = None
  MaxClock = 1
  MaxCrashes = 1
  MaxEdits = 0
INVARIANT
  StoreReopenable
