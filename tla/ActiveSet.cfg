SPECIFICATION ActiveFairSpec
CONSTANTS
  p = p
  q = q
  net = net
  m1 = m1
  m2 = m2
  Ticks <- TicksDef
  NetSim = net
  Msgs = {m1, m2}
  From <- TwoFrom
  To <- TwoTo
  Direct = {m2}
  Unit <- LongUnit
  Step <- LongStep
  Strides <- Far
  Loss = 0
  Horizon = 3
  Infinity = 9
  None = None
INVARIANTS AwakeInStep SleepersAhead NothingForgotten AwakeMeansQuiet
PROPERTIES SendersWake ActiveVirtualTime SleepersReturn
CHECK_DEADLOCK FALSE
