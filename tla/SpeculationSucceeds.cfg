SPECIFICATION Spec
CONSTANTS
  p = p
  q = q
  net = net
  Ticks = {p, q}
  NetSim = net
  Stride <- OneTwo
  Settings <- Succeeds
  Wrap = 8
  MaxContext = 2
  None = None
CHECK_DEADLOCK FALSE
INVARIANT Succeeded
