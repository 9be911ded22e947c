SPECIFICATION Spec
CONSTANTS
  Devices = {1}
  Servers = {s1}
  Flows = {f1, f2}
  MaxEvents = 2
  PageSize = 2
  MaxRestarts = 1
  Partial = {TRUE}
  Failures = {}
INVARIANTS
  KeysUnique
