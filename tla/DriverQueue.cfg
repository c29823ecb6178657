SPECIFICATION FairSpec
CONSTANTS
  Drivers = {"ath9k_htc"}
  Bufs = {b1, b2}
  Readers = {}
  None = None
  MaxInits = 1
  MaxFrames = 4
CHECK_DEADLOCK FALSE
INVARIANTS
  WaitingInFront
PROPERTIES
  CapturedInOrder
  QueueServed
