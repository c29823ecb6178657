SPECIFICATION Spec
CONSTANTS
  Kinds = {"comment", "value"}
  MaxLines = 4
INVARIANT
  CompilesAsDocumented
