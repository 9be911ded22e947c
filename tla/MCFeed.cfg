CONSTANTS
  s1 = s1
  s2 = s2
  Servers = {s1, s2}
  Settings <- MCSettings
  Reactions = {up, down}
  Positive = {up}
  NoReaction = none
SPECIFICATION FairSpec
INVARIANTS TypeOK NonNegative FreshAfterInvalidate SpinnerHasFetch
PROPERTIES CountersRefine OwnReplyStays QuerySettles
CHECK_DEADLOCK FALSE
