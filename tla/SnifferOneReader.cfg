SPECIFICATION FairSpec
CONSTANTS
  Readers = {r1}
  MaxSize = 3
  Lengths = {1, 2, 3}
  UserSizes = {1, 4}
  Starts = {2}
  WordSize = 16
  MaxBeacons = 3
  MaxBytes = 5
INVARIANTS
  TypeOK
  BufferHoldsLastBeacon
  CountMatchesReaders
  ReadsWithinFrame
  QuietOpenIsWhole
PROPERTIES
  LastBeaconIsRead
