SPECIFICATION Spec
CONSTANTS
  MaxRank = 3
  Keys = {1, 2}
  Identity = 1
  Docs <- MCDocs
  IdentityEvents <- MCIdentityEvents
  ContentEvents <- MCContentEvents
  Procs = {p1}
  Requests = {r1, r2}
  MaxBatch = 1
  HalfFailures = FALSE
  BrokerUp = FALSE
INVARIANTS
  Coherent
