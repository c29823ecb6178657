SPECIFICATION FairSpec
CONSTANTS
  Empty = Empty
  COutput = COutput
  CCreation = CCreation
  CLast = CLast
  NotFound = 15
  EmptyName = noname
  Ssids = {noname, slash}
  Unstorable = {slash}
  o1 = o1
  o2 = o2
  Outputs <- OneOutput
  Codes = {c1, c2}
  Garbage = {7}
  None = None
  MaxClock = 1
  MaxCrashes = 0
  MaxEdits = 1
INVARIANTS
  EveryRowNotified
  NotifiedAtMostOnce
PROPERTY
  ImplementsLog
  FrameRecorded
