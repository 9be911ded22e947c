SPECIFICATION FairSpec
CONSTANTS
  MaxRank = 3
  Keys = {1, 2}
  Identity = 1
  Docs <- MCDocs
  IdentityEvents <- OneIdentityEvent
  ContentEvents <- OneContentEvent
  Procs = {p1}
  Requests = {r1, r2}
  MaxBatch = 1
  HalfFailures = FALSE
  BrokerUp = TRUE
PROPERTIES
  BanCompletes
