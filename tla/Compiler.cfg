SPECIFICATION FairSpec
CONSTANTS
  Kinds = {"blank", "comment", "close", "open", "unknown", "getter", "value"}
  MaxLines = 6
INVARIANTS
  TypeOK
  CompilesExactly
  StackMirrorsNesting
PROPERTY
  Terminates
