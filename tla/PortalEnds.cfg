\* One notice, direct or staged, with overlapping invocations and two staff requests.
SPECIFICATION FairSpec
CONSTANTS
  Notices = {n1}
  Batches = {b1}
  Keys = {k1, k2}
  Contacts = {c1}
  Senders = {s1, s2}
  MaxAttempts = 2
  MaxItems = 1
  None = None
INVARIANTS OneLane ReceiptsTruthful PortalSound
PROPERTIES IsLedger CancelStops EveryNoticeEnds
CHECK_DEADLOCK FALSE
