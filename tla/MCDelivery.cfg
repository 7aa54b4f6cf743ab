SPECIFICATION Spec
CONSTANTS
  Criteria = {"c"}
  Required = {"c"}
  Calls <- MCCalls
  UserChanges <- MCUserChanges
  FirstWorkspaces <- MCWorkspaces
  MaxCalls = 3
  MaxRounds = 2
  MaxEdits = 1
  MaxBroken = 1
INVARIANTS
  FileToolsNeedAReason
  ChangesAreDeclared
  SilenceMeansTestsPassed
  CompletedIsBacked
CHECK_DEADLOCK FALSE
