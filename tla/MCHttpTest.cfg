CONSTANTS
  a = a
  b = b
  p = p
  c1 = c1
  c2 = c2
  s1 = s1
  s2 = s2
  Transactions <- MCTransactions
  BeforeEach <- MCBeforeEach
  AfterEach <- MCAfterEach
  Authorized <- MCAuthorized
  SetsFlag = {}
  Seeds <- MCSeeds
  Cases <- MCCases
  Own <- MCOwn
  Flag <- MCFlag
  Steps = 2
  Concurrency = 1
  Served = {"named", "undeclared"}
  MaxAbandoned = 1
  Modes = {"rule", "check"}
  SeedIds <- MCSeedIds
  NoRequest = NoRequest
  Nobody = Nobody
SPECIFICATION Spec
CHECK_DEADLOCK FALSE
INVARIANT TypeOK
INVARIANT NoReentry
INVARIANT NobodyIsStuck
INVARIANT SlotsAreUsed
INVARIANT OneRequestEach
INVARIANT CloseSettlesOwed
INVARIANT AllAreAccountedFor
 
PROPERTY ImplementsTestPromise
PROPERTY TestEnds
