SPECIFICATION Spec
CONSTRAINT MCBound
SYMMETRY MCSymmetry
CONSTANTS
  Names = {a, b}
  Types <- MCStorageTypes
  ArrayLen = 2
  Constructs = {"index", "use", "decl", "set", "op", "addr", "deref", "if", "else", "func", "next"}
  MaxItems = 6
  LabelArrSize = 12
  WordSize = 8
INVARIANTS
  GeneratedInOwnContext
  VariablesKeepTheirCells
  HeldLabelsIntact
  AcceptedIsWellTyped
