SPECIFICATION FairSpec
CONSTANTS
  p = p
  q = q
  net = net
  m1 = m1
  m2 = m2
  Ticks <- TicksDef
  NetSim = net
  Msgs = {m1}
  From <- OneFrom
  To <- OneTo
  Direct = {}
  Unit <- CoarseNet
  Step <- OneStep
  Strides <- StayOrOne
  Loss = 1
  Horizon = 2
  Infinity = 9
  None = None
PROPERTY GetNextTimeReturns
CHECK_DEADLOCK FALSE
