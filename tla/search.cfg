CONSTANTS
  Characters <- AllCharacters
  IntModulus = 16
  MaxInt = 7
  Absent = Absent
  Functions <- Library
  FunctionArity <- LibraryArity
  Sources <- AllSources
  Documents <- AllDocuments
  Stale <- LeftOver
  Compute <- compute
  CallFunction <- call_function
  OutputTokens <- output_tokens
  DeepCopy <- deep_copy
SPECIFICATION Spec
INVARIANTS
  TypeOK
  PathsMean
  OperatorLaws
  FunctionLaws
  WholeAnswers
  NothingDangles
  NoAssertionFails
  ListsRun
PROPERTIES
  CallsReturn
  Implements
