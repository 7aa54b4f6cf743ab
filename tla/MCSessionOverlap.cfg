SPECIFICATION Spec
CONSTANTS
  p1 = p1
  p2 = p2
  Clients = {p1, p2}
  MaxTurns = 2
  MaxCalls = 1
  MaxRevision = 5
  MaxFaults = 1
SYMMETRY Symmetry
INVARIANTS
  TurnsAreCounted
CHECK_DEADLOCK FALSE
