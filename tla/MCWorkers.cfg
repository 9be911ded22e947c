SPECIFICATION Spec
CONSTANTS
  alice = alice
  bob = bob
  ka = ka
  kb = kb
  NoKey = NoKey
  NoToken = NoToken
  Events <- MCEvents
  MaxPuts = 2
  Tokens = {t1, t2}
  KeysOf <- MCKeysOf
  MaxRetries = 1
  Settings <- MCSettings
INVARIANTS
  TypeOK
  TallyMatches
  CacheFollowsEvents
  NothingLost
  BlockedStaysQuiet
  CountsStanding
  LiveTokenKept
PROPERTIES
  ConsumersCatchUp
CHECK_DEADLOCK FALSE
