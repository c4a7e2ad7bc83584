SPECIFICATION FairSpec
CONSTANTS
  Calls = {c1, c2}
  l1 = l1
  l2 = l2
  core = core
  plain = plain
  Listeners = {l1, l2}
  Names = {core, plain}
  CoreNames = {core}
  ListensTo <- MCListensTo
  Requests <- StrictRequests
  MaxAnswers = 1
PROPERTIES
  EveryCallSettles
  ImplementsActionPromise
CHECK_DEADLOCK FALSE
