CONSTANTS
  r1 = r1
  r2 = r2
  s1 = s1
  s2 = s2
  e1 = e1
  NoRule = NoRule
  Names <- MCNames
  Sources <- MCSources
  Edges <- MCEdges
  Signals <- MCSignals
  Libraries <- MCLibraries
  Configs <- MCConfigs
  MaxEffort = 3
  MaxResults = 1
  Formatters = {csv, json}
  MaxCloses = 2
  MaxReports = 2
SPECIFICATION Spec
CHECK_DEADLOCK FALSE
INVARIANTS
  TypeOK
  AttributedOnce
  ViolationsDecide
  RanAsConfigured
  CloseAfterReports
PROPERTIES
  FlushDrains
  ClosesAnswered
