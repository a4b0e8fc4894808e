CONSTANTS
  Ops = {o1}
  Calls = {c1, c2}
  Invs = {i1, i2}
  Unreadable = {}
  None = None
SPECIFICATION RecoverySpec
CHECK_DEADLOCK FALSE
PROPERTIES DoubtResolved CallsReturn
