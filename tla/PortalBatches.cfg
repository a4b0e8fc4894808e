\* Three notices, batches that hold two, changes of authority and address.
SPECIFICATION Spec
CONSTANTS
  Notices = {n1, n2, n3}
  Batches = {b1, b2}
  Keys = {}
  Contacts = {c1, c2}
  Senders = {s1}
  MaxAttempts = 2
  MaxItems = 2
  None = None
SYMMETRY PortalSymmetry
CONSTRAINT OnlyStaged
INVARIANTS OneMessage
PROPERTIES SealedStays
CHECK_DEADLOCK FALSE
