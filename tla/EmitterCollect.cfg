SPECIFICATION Spec
CONSTANTS
  Calls = {c1}
  l1 = l1
  l2 = l2
  core = core
  plain = plain
  Listeners = {l1, l2}
  Names = {core, plain}
  CoreNames = {core}
  ListensTo <- MCListensTo
  Requests <- StrictRequests
  MaxAnswers = 2
INVARIANT CollectWaitsForAllListeners
CHECK_DEADLOCK FALSE
