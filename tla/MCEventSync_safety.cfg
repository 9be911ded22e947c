SPECIFICATION Spec
CONSTANTS
  Devices = {1, 2}
  Servers = {s1}
  Flows = {f1}
  MaxEvents = 2
  PageSize = 2
  MaxRestarts = 1
  Partial = {TRUE, FALSE}
  Failures = {"lost", "refused"}
INVARIANTS
  TypeOK
  KeysUnique
  OwnEventsKept
  ServersHoldPrefixes
PROPERTIES
  Replicates
