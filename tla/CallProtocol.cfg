SPECIFICATION Spec
CONSTANTS
  ScratchCnt = 7
  Kinds = {"int", "var", "deref", "binop", "store", "call", "ext_call"}
  Ops = {"<<", "+"}
  Globals = {"g"}
  Locals = {"x", "y"}
  Params <- MCParams
  MaxStmts = 2
  MaxNodes = 4
  MaxArgs = 3
INVARIANTS
  CallStateMatches
  StackAccounted
