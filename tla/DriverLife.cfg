SPECIFICATION FairSpec
CONSTANTS
  Drivers = {"ath9k_htc", "rtl8188eus"}
  Bufs = {b1, b2}
  Readers = {r1}
  None = None
  MaxInits = 2
  MaxFrames = 2
CHECK_DEADLOCK FALSE
INVARIANTS
  TypeOK
  UncrossedWritesLive
  FilesLive
  FreedOnce
  WaitingInFront
PROPERTIES
  CapturedInOrder
  QueueServed
  DisconnectEnds
