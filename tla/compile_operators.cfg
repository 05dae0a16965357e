CONSTANTS
  Functions <- TwoFunctions
  FunctionArity <- Arities
  Alphabet <- OperatorAlphabet
  Starts <- OperatorStarts
  MaxLength = 5
SPECIFICATION Spec
INVARIANTS
  OpsOrdered
  GroupLedger
  ProgramsRun
