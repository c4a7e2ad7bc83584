SPECIFICATION Spec
CONSTANTS
  Requests = {r1, r2, r3}
  Closes = {k1, k2}
  HookLists <- MCHookLists
  MaxLoads = 2
INVARIANTS
  TypeOK
  NoRequestBeforeSetup
  Unwinds
  NothingStranded
  TeardownIsLatched
SYMMETRY Symmetry
CHECK_DEADLOCK FALSE
