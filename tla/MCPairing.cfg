SPECIFICATION FairSpec
CONSTANTS
  MaxRank = 32
  Keys <- MCKeys
  Docs <- MCDocs
  Identity = 1
  Issuer = 2
  MaxSessions = 2
  Claimers <- MCClaimers
  Settings <- MCSettings
INVARIANTS TypeOK OnlyApprovedPaired  ActiveIffClaimed ApprovalKept ApprovalPublishedFirst
PROPERTIES LoginKeepsIdentity PairingSettles
CHECK_DEADLOCK FALSE
