\* Every kind of repair after one fault, while the slot owes nothing.
SPECIFICATION FairSpec
CONSTANTS
  None = None
  Versions = {1}
  Slots = {s1}
  Workers = {w1}
  Roles <- Repairs
  Outcomes = {"ok","permanent"}
  MaxAttempts = 1
  MaxDeliveries = 3
  MaxCleanups = 2
  MaxUploads = 1
  MaxCopies = 1
  MaxFaults = 1
 
PROPERTY Repaired Settles
CHECK_DEADLOCK FALSE
