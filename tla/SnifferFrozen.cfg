SPECIFICATION FairSpec
CONSTANTS
  Readers = {r1, r2}
  MaxSize = 1
  Lengths = {1}
  UserSizes = {1}
  Starts = {}
  WordSize = 4
  MaxBeacons = 1
  MaxBytes = 1
PROPERTY
  LastBeaconIsRead
