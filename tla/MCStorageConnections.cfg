SPECIFICATION FairSpec
CONSTANTS
  Providers = {p1, p2}
  Calls = {c1, c2}
  Disconnects = {d1, d2}
  MaxDrops = 1
  None = None
INVARIANTS DisconnectHolds ResourcesAgree
PROPERTY CallsEnd
CHECK_DEADLOCK FALSE
