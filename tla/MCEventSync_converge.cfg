SPECIFICATION FairSpec
CONSTANTS
  Devices = {1, 2}
  Servers = {s1}
  Flows = {f1}
  MaxEvents = 2
  PageSize = 2
  MaxRestarts = 0
  Partial = {TRUE}
  Failures = {}
PROPERTIES
  Converges
