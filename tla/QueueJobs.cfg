\* Three jobs, of which two have the same file and the same place.
CONSTANTS
  Jobs = {j1, j2, j3}
  Targets = {t1, t2}
  Target <- SharedTarget
  Commands = {c1}
  Procs = {p1}
  None = None
SPECIFICATION Spec
SYMMETRY SharedSymmetry
INVARIANTS CompletionTruthful QueueSound
PROPERTIES TerminalSticks
CHECK_DEADLOCK FALSE
