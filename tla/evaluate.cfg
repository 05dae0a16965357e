CONSTANTS
  Functions <- TwoFunctions
  FunctionArity <- Arities
  Programs <- AllPrograms
SPECIFICATION Spec
INVARIANTS
  TypeOK
  NeverFails
  FindsItsArguments
  OnlyWellFormedRun
