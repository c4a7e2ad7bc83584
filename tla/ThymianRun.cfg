SPECIFICATION FairSpec
CONSTANTS
  NumPlugins = 2
  MaxDiagnostics = 3
INVARIANTS
  TypeOK
  RejectsWithFirstCause
  SettledMeansTornDown
  SuccessIsClean
PROPERTY RunSettles
CHECK_DEADLOCK FALSE
