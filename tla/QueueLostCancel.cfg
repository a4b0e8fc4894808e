CONSTANTS
  Jobs = {j1}
  Targets = {t1}
  Target <- OneTarget
  Commands = {c1, c2}
  Procs = {p1}
  None = None
SPECIFICATION Spec
PROPERTIES CancelHonoured
CHECK_DEADLOCK FALSE
