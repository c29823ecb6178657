SPECIFICATION Spec
CONSTANTS
  Readers = {r1}
  MaxSize = 2
  Lengths = {2}
  UserSizes = {4}
  Starts = {}
  WordSize = 16
  MaxBeacons = 2
  MaxBytes = 4
INVARIANT
  DeliversOneBeacon
