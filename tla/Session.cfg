SPECIFICATION FairSpec
CONSTANTS
  p = p
  q = q
  net = net
  op = op
  oq = oq
  m1 = m1
  Ticks = {p, q}
  NetSim = net
  Objects = {op, oq}
  Names <- MCNames
  Configs <- AnyConfig
  Msgs = {m1}
  From <- FromNet
  To <- ToP
  Rounds = 1
  EndSignal = TRUE
  Signalled = {p, q, net, Broker}
  Broker = Broker
  None = None
INVARIANTS Resolved BeginsComplete CleanExit
PROPERTIES NoneGoesOn EndsInOrder
CHECK_DEADLOCK FALSE
