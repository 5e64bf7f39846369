SPECIFICATION Spec
CONSTANTS
  ScratchCnt = 3
  Kinds = {"int", "binop", "if", "else"}
  Ops = {"<", "-"}
  Globals = {"g"}
  Locals = {"x", "y"}
  Params <- MCParams
  MaxStmts = 2
  MaxNodes = 4
  MaxArgs = 0
INVARIANTS
  TypeOK
  PoolMatchesOperands
  LiveOperandsIntact
  ReturnsLastValue
