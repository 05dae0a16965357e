CONSTANTS
  Functions <- TwoFunctions
  FunctionArity <- Arities
  Alphabet <- MinusAlphabet
  Starts <- OnlyEmpty
  MaxLength = 6
SPECIFICATION Spec
INVARIANTS
  LeftToRight
