SPECIFICATION Spec
CONSTANTS
  Kinds = {"blank", "close", "open", "value"}
  MaxLines = 4
INVARIANT
  EndsAtBlankLine
