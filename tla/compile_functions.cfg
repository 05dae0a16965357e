CONSTANTS
  Functions <- TwoFunctions
  FunctionArity <- Arities
  Alphabet <- FunctionAlphabet
  Starts <- FunctionStarts
  MaxLength = 6
SPECIFICATION Spec
INVARIANTS
  GroupLedger
  ProgramsRun
PROPERTY
  Terminates
