SPECIFICATION FairSpec
CONSTANTS
  p1 = p1
  Clients = {p1}
  MaxTurns = 2
  MaxCalls = 3
  MaxRevision = 9
  MaxFaults = 2
INVARIANTS
  ReferenceIsOfLastTask
  UnfinishedIsReferenced
PROPERTIES
  EveryTurnAnswered
CHECK_DEADLOCK FALSE
