SPECIFICATION Spec
CONSTANTS
  ScratchCnt = 7
  Kinds = {"int", "var", "addr", "binop", "decl", "reassign", "function", "call"}
  Ops = {"+"}
  Globals = {"g"}
  Locals = {"x", "y"}
  Params <- MCParams
  MaxStmts = 3
  MaxNodes = 4
  MaxArgs = 1
INVARIANTS
  LocalsIntact
  StackAccounted
  CallStateMatches
