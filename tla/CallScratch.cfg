SPECIFICATION Spec
CONSTANTS
  ScratchCnt = 7
  Kinds = {"int", "binop", "call"}
  Ops = {"+", "*"}
  Globals = {"g"}
  Locals = {"x", "y"}
  Params <- MCParams
  MaxStmts = 1
  MaxNodes = 3
  MaxArgs = 0
INVARIANTS
  ReturnsLastValue
