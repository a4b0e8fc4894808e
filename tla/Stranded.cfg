CONSTANTS
  Ops = {o1}
  Calls = {c1}
  Invs = {i1, i2}
  Unreadable = {}
  None = None
SPECIFICATION Spec
INVARIANTS RecoveryAdmitted
CHECK_DEADLOCK FALSE
