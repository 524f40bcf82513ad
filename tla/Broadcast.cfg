SPECIFICATION FairSpec
CONSTANTS
  o1 = o1
  o2 = o2
  o3 = o3
  b = b
  d = d
  u = u
  Objects = {o1, o2, o3}
  Msgs = {b, d, u}
  Bcast = {b, d}
  From <- FromDef
  To <- ToDef
  Units = {1, 2}
  Loss = 1
  LastSend = 1
  Horizon = 4
INVARIANTS Balanced LostOrSent
PROPERTIES Settles
CHECK_DEADLOCK FALSE
