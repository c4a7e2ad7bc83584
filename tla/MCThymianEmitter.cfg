SPECIFICATION Spec
CONSTANTS
  Calls = {c1, c2}
  l1 = l1
  l2 = l2
  core = core
  plain = plain
  Listeners = {l1, l2}
  Names = {core, plain}
  CoreNames = {core}
  ListensTo <- MCListensTo
  Requests <- MCRequests
  MaxAnswers = 2
INVARIANTS
  TypeOK
  HearsItsOwnAnswers
  QuotaIsReachable
  EveryListenerHeard
  NoSilentSuccess
  ShutdownReleasesCallers
SYMMETRY CallSymmetry
CHECK_DEADLOCK FALSE
