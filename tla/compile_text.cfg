CONSTANTS
  Functions <- TwoFunctions
  FunctionArity <- Arities
  Alphabet <- TextAlphabet
  Starts <- TextStarts
  MaxLength = 4
SPECIFICATION Spec
INVARIANTS
  SliceScratch
  GrandparentExists
PROPERTY
  Terminates
