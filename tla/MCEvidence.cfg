SPECIFICATION FairSpec
CONSTANTS
  c = c
  u = u
  v = v
  s1 = s1
  e1 = e1
  p = p
  Criteria = {c}
  Required = {c}
  Urls = {u, v}
  SearchKeys = {s1}
  ExtractKeys = {e1}
  Probes = {p}
  MaxSearches = 2
  MaxExtracts = 1
  MaxRounds = 2
  MaxBatch = 2
  WebLimit = 2
  CatalogLimit = 2
  Fallback = 1
  MaxRuns = 2
  MaxEvidenceCalls = 2
  MaxVerifyRounds = 1
  MaxVerifyBatch = 2
  MaxRefs = 1
INVARIANTS
  SourcesAreTraced
  GateRecognisesResearch
PROPERTIES
  PassedRestsOnEvidence
  DelegationIsReported
CHECK_DEADLOCK FALSE
