SPECIFICATION Spec
CONSTANTS
  Readers = {r1}
  MaxSize = 2
  Lengths = {2}
  UserSizes = {4}
  Starts = {0, 1, 2, 3}
  WordSize = 16
  MaxBeacons = 1
  MaxBytes = 4
INVARIANT
  NoReadBeyond
