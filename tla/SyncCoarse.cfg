SPECIFICATION Spec
CONSTANTS
  p = p
  q = q
  net = net
  m1 = m1
  m2 = m2
  Ticks <- TicksDef
  NetSim = net
  Msgs = {m1}
  From <- OneFrom
  To <- OneTo
  Direct = {}
  Unit <- CoarseNet
  Step <- OneStep
  Strides <- StayOrOne
  Loss = 1
  Horizon = 3
  Infinity = 9
  None = None
INVARIANTS OneRequest StableMeansQuiet
CHECK_DEADLOCK FALSE
