SPECIFICATION Spec
CONSTANTS
  None = None
  Versions = {1}
  Slots = {s1}
  Workers = {w1}
  Roles <- Renders
  Outcomes = {"ok"}
  MaxAttempts = 1
  MaxDeliveries = 2
  MaxCleanups = 2
  MaxUploads = 1
  MaxCopies = 1
  MaxFaults = 0
INVARIANT WinnerAdopted
CHECK_DEADLOCK FALSE
