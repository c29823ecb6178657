SPECIFICATION Spec
CONSTANTS
  Readers = {r1}
  MaxSize = 2
  Lengths = {2}
  UserSizes = {1}
  Starts = {}
  WordSize = 16
  MaxBeacons = 1
  MaxBytes = 2
INVARIANT
  ReadsConsecutive
