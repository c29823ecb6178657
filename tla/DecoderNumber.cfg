SPECIFICATION Spec
CONSTANTS
  Null = Null
  Thrown = Thrown
  Bytes = {0, 1, 45, 221}
  MaxArea = 3
  Trailers = {4}
  Controls = {64, 8}
  ShortSizes = {0, 1, 23, 24, 27, 28, 39}
  Slices <- MCSlices
  Lookups <- ScriptLookups
  WordSize = 1024
INVARIANT
  LookupDecimal
