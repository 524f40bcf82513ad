SPECIFICATION FairSpec
CONSTANTS
  p = p
  q = q
  net = net
  Ticks = {p, q}
  NetSim = net
  Stride <- OneTwo
  Settings <- Varied
  Wrap = 13
  MaxContext = 2
  None = None
INVARIANTS OneGrant OneChild Isolated
PROPERTIES ParentsGoOn
CHECK_DEADLOCK FALSE
