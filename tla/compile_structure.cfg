CONSTANTS
  Functions <- TwoFunctions
  FunctionArity <- Arities
  Alphabet <- StructureAlphabet
  Starts <- StructureStarts
  MaxLength = 5
SPECIFICATION Spec
INVARIANTS
  TypeOK
  GroupLedger
  ProgramsRun
  RootStays
PROPERTIES
  Terminates
  ErrorEndsTheCall
