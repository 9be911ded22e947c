SPECIFICATION Spec
CONSTANTS
  MaxRank = 3
  Keys = {1, 2}
  Identity = 1
  Docs <- MCDocs
  IdentityEvents <- RogueIdentityEvents
  ContentEvents <- OneContentEvent
  Procs = {p1}
  Requests = {r1, r2}
  MaxBatch = 2
  HalfFailures = TRUE
  BrokerUp = FALSE
INVARIANTS
  TypeOK
  CacheWasHead
  StoredWasAuthorized
PROPERTIES
  NoInsertWhileBanned
SYMMETRY Symmetric
