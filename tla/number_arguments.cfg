CONSTANTS
  Functions <- TwoFunctions
  FunctionArity <- Arities
  Alphabet <- NumbersAlphabet
  Starts <- CallStart
  MaxLength = 4
SPECIFICATION Spec
INVARIANTS
  ProgramsRun
