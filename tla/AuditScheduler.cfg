SPECIFICATION FairSpec
CONSTANTS
  N = 3
  Budget <- SmallBudget
  Requests <- SomeRequests
INVARIANTS WithinBudget NeverStuck NothingLeftBehind WorkConserving
PROPERTY Terminates
