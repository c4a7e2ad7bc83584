SPECIFICATION Spec
CONSTANTS
  NumPlugins = 2
  MaxDiagnostics = 3
INVARIANT RejectsOnErrorDiagnostic
CHECK_DEADLOCK FALSE
