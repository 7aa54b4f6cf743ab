SPECIFICATION FairSpec
CONSTANTS
  d1 = d1
  Drivers = {d1}
  Verdicts = {"ASK"}
  MaxAttempts = 2
  MaxFaults = 3
  FreshGate = TRUE
  Truthful = TRUE
INVARIANTS
  TruthfulRecoveryRunsOnce
PROPERTIES
  SettlesOrStrands
