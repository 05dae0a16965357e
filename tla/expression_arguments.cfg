CONSTANTS
  Functions <- TwoFunctions
  FunctionArity <- Arities
  Alphabet <- ExpressionAlphabet
  Starts <- ExpressionStart
  MaxLength = 3
SPECIFICATION Spec
INVARIANTS
  ProgramsRun
