SPECIFICATION FairSpec
CONSTANTS
  c = c
  k = k
  f = f
  Criteria = {c}
  Required = {c}
  Keys = {k}
  Paths = {f}
  Plans <- MCPlans
  Outcomes <- MCOutcomes
  MaxDelegations = 2
  MaxCodeCalls = 2
  MaxSteps = 5
  MaxCalls = 6
  Patience = 2
  RecursionLimit = 8
  MaxPauses = 1
INVARIANTS
  FinishedIsAccepted
  IndependentIsAssessed
  StartedAfterDependencies
  NodesFindWhatTheyDemand
PROPERTIES
  TaskSettles
CHECK_DEADLOCK FALSE
