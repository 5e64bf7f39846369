SPECIFICATION Spec
CONSTANTS
  ScratchCnt = 7
  Kinds = {"int", "binop"}
  Ops = {"<", "+", "-", "*", "/", "%"}
  Globals = {"g"}
  Locals = {"x", "y"}
  Params <- MCParams
  MaxStmts = 2
  MaxNodes = 5
  MaxArgs = 0
INVARIANTS
  NeverOutOfRegisters
  PoolMatchesOperands
  LiveOperandsIntact
  ReturnsLastValue
