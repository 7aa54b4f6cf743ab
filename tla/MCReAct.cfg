SPECIFICATION FairSpec
CONSTANTS
  test = test
  write = write
  Keys = {test, write}
  Reads = {}
  Probes = {}
  Tests = {test}
  Budgets = {2, 3}
  RepeatLimit = 2
  MaxSteps = 2
  MaxBatch = 2
  MaxVersion = 1
  MaxCrashes = 1
INVARIANTS
  RunIsAsUninterrupted
  DenialsStick
PROPERTIES
  BudgetNeverGrows
  RunStops
CHECK_DEADLOCK FALSE
