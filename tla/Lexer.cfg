SPECIFICATION Spec
CONSTANTS
  Delims = {"<", "(", " ", "eol"}
  Whitespace = {" ", "eol"}
  Comment = {"#"}
  Others = {"a", "#"}
  Expected <- MCExpected
  Operators <- MCOperators
  MaxLen = 6
INVARIANTS
  TypeOK
  NothingSkipped
  TokensAreWords
  
  
PROPERTIES
  Termination
