\* Two processes that follow each other, with commands beside the worker.
CONSTANTS
  Jobs = {j1}
  Targets = {t1}
  Target <- OneTarget
  Commands = {c1, c2}
  Procs = {p1, p2}
  None = None
SPECIFICATION LiveSpec
INVARIANTS MemoryIsDisk TransferIsDurable StateReadable
PROPERTIES NoStaleStart StopsReturn
CHECK_DEADLOCK FALSE
