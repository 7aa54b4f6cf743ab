SPECIFICATION Spec
CONSTANTS
  d1 = d1
  d2 = d2
  Drivers = {d1, d2}
  Verdicts = {"ALLOW", "ASK", "DENY"}
  MaxAttempts = 2
  MaxFaults = 1
  FreshGate = FALSE
  Truthful = FALSE
SYMMETRY Symmetry
INVARIANTS
  OneStartPerAttempt
  ReplayNeedsAnOperator
  ResultIsGenuine
PROPERTIES
  KeepsPromise
