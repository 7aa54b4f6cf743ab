SPECIFICATION FairSpec
CONSTANTS
  p1 = p1
  Clients = {p1}
  MaxTurns = 1
  MaxCalls = 2
  MaxRevision = 5
  MaxFaults = 0
PROPERTIES
  CompletedCanContinue
CHECK_DEADLOCK FALSE
