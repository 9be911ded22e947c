SPECIFICATION Spec
CONSTANTS
  MaxRank = 5
  Keys = {1, 2, 3, 4}
  Identity = 5
  Docs <- MCDocs
  Candidates <- MCCandidates
INVARIANTS
  TypeOK
  OrderIndependent
  ResolvesReference
  RotationNotSwallowed
  OnlyImproves
CHECK_DEADLOCK FALSE
