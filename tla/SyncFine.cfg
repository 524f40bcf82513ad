SPECIFICATION FairSpec
CONSTANTS
  p = p
  q = q
  net = net
  m1 = m1
  m2 = m2
  Ticks <- TicksDef
  NetSim = net
  Msgs = {m1, m2}
  From <- TwoFrom
  To <- TwoTo
  Direct = {m2}
  Unit <- LongUnit
  Step <- LongStep
  Strides <- OwnStep
  Loss = 0
  Horizon = 3
  Infinity = 9
  None = None
INVARIANTS TypeOK OneRequest InStep OneInstant NeverPastAsked StableMeansQuiet BrokerUp
PROPERTIES OneVirtualTime GetNextTimeReturns
CHECK_DEADLOCK FALSE
