SPECIFICATION Spec
CONSTANTS
  Names = {"a"}
  Types <- MCIntType
  ArrayLen = 2
  Constructs = {"use", "decl", "set", "if", "else", "func", "next"}
  MaxItems = 6
  LabelArrSize = 12
  WordSize = 8
INVARIANTS
  ScopedAccess
