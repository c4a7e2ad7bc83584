CONSTANTS
  Filters <- MCFilters
  Responses <- MCResponses
  MaxFilters = 2
  MaxTransactions = 1
SPECIFICATION Spec
CHECK_DEADLOCK FALSE
INVARIANT EitherCanMatch
