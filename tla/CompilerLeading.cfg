SPECIFICATION Spec
CONSTANTS
  Kinds = {"blank", "value"}
  MaxLines = 4
INVARIANT
  CompilesAsDocumented
