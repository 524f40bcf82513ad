SPECIFICATION SleepingFairSpec
CONSTANTS
  p = p
  q = q
  net = net
  m1 = m1
  m2 = m2
  Ticks <- TicksDef
  NetSim = net
  Msgs = {m1}
  From <- MailFrom
  To <- MailTo
  Direct = {m1}
  Unit <- Fine
  Step <- OneStep
  Strides <- Strider
  Loss = 0
  Horizon = 4
  Infinity = 9
  None = None
INVARIANTS GatherTogether NotLeftBehind ForgetsNothing SleepersHoldNothing
PROPERTIES BackOnlyToAnswer SleepReturns
CHECK_DEADLOCK FALSE
