CONSTANTS
  Functions <- TwoFunctions
  FunctionArity <- Arities
  Alphabet <- FilterAlphabet
  Starts <- FilterStart
  MaxLength = 3
SPECIFICATION Spec
INVARIANTS
  FilterNumbersRead
