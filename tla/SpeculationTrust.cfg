SPECIFICATION Spec
CONSTANTS
  p = p
  q = q
  net = net
  Ticks = {p, q}
  NetSim = net
  Stride <- FourTwo
  Settings <- OffThePath
  Wrap = 22
  MaxContext = 2
  None = None
CHECK_DEADLOCK FALSE
INVARIANT TrustKept
