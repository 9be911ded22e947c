SPECIFICATION Spec
CONSTANTS
  alice = alice
  bob = bob
  ka = ka
  kb = kb
  NoKey = NoKey
  NoToken = NoToken
  Events <- MCEvents
  MaxPuts = 1
  Tokens = {t1, t2}
  KeysOf <- MCKeysOf
  MaxRetries = 1
  Settings <- OutOfOrder
INVARIANTS
  TablesAsDocumented
CHECK_DEADLOCK FALSE
