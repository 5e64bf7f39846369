SPECIFICATION Spec
CONSTANTS
  Names = {"a"}
  Types <- MCCallTypes
  ArrayLen = 2
  Constructs = {"use", "decl", "call", "arg", "if", "else", "func", "next"}
  MaxItems = 6
  LabelArrSize = 12
  WordSize = 8
INVARIANTS
  TypeOK
  StackMatchesContext
  CheckedInOwnContext
  CheckedAsParsed
  AcceptedIsWellTyped
PROPERTIES
  ScopesAreATable
  Termination
  EveryScopeGenerated
