SPECIFICATION Spec
CONSTANTS
  Null = Null
  Thrown = Thrown
  Bytes = {0, 1, 165}
  MaxArea = 6
  Trailers = {4}
  Controls = {64, 8}
  ShortSizes = {0, 1, 23, 24, 27, 28, 39}
  Slices <- MCSlices
  Lookups <- MCLookups
  WordSize = 1024
INVARIANTS
  TypeOK
  DecodesExactly
  LookupExact
  CutsAreSlices
  AllElementsDecoded
