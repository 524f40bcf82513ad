SPECIFICATION Spec
CONSTANTS
  m1 = m1
  m2 = m2
  m3 = m3
  Msgs = {m1, m2, m3}
  Stamp <- MCStamp
  Loss = 1
  MaxTime = 4
  Batch = 1
  Gone = Gone
INVARIANTS GivenOnce NothingLost PositionsValid
CHECK_DEADLOCK FALSE

