SPECIFICATION Spec
CONSTANTS
  Drivers = {"ath9k_htc"}
  Bufs = {b1, b2, b3}
  Readers = {r1}
  None = None
  MaxInits = 1
  MaxFrames = 3
CHECK_DEADLOCK FALSE
INVARIANT
  WritesLive
