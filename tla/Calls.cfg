SPECIFICATION Spec
CONSTANTS
  ScratchCnt = 7
  Kinds = {"int", "var", "index", "addr", "binop", "call", "store"}
  Ops = {"/", "%"}
  Globals = {"g"}
  Locals = {"x", "y"}
  Params <- MCParams
  MaxStmts = 2
  MaxNodes = 5
  MaxArgs = 2
INVARIANTS
  PoolEmptyBetweenStatements
  LiveOperandsIntact
  ReturnsLastValue
  CallStateMatches
  ArgsInPlace
  StackAccounted
