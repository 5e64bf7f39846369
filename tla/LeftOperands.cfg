SPECIFICATION Spec
CONSTANTS
  Ops = {"==", "+", "*"}
  MaxTokens = 6
INVARIANTS
  LeftOperandsBindTighter
