SPECIFICATION Spec
CONSTANTS
  c1 = c1
  c2 = c2
  Clients = {c1, c2}
  Limits = {2, 3}
  WebLimits = {1, 2}
  Reserve = 1
  k1 = k1
  k2 = k2
  WebKeys = {k1, k2}
  r1 = r1
  Runs = {r1}
  Free = Free
  Stale = Stale
  None = None
  MaxFaults = 1
SYMMETRY Symmetry
INVARIANTS
  Exclusive
  SentIsCharged
  OneSummaryPerRun
PROPERTIES
  KeepsQuota
