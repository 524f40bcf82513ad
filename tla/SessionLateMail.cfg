SPECIFICATION FairSpec
CONSTANTS
  p = p
  q = q
  net = net
  op = op
  oq = oq
  m1 = m1
  Ticks = {p, q}
  NetSim = net
  Objects = {op, oq}
  Names <- MCNames
  Configs <- Right
  Msgs = {m1}
  From <- FromNet
  To <- ToP
  Rounds = 1
  EndSignal = FALSE
  Signalled = {}
  Broker = Broker
  None = None
PROPERTY EndTogether
CHECK_DEADLOCK FALSE
