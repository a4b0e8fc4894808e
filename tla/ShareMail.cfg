\* One notice of any kind, three versions of the share, overlapping invocations.
SPECIFICATION FairSpec
CONSTANTS
  Notices = {n1}
  Senders = {s1, s2}
  MaxAttempts = 3
  MaxVersion = 3
  None = None
INVARIANTS  MissedMeansSuppressed 
PROPERTIES IsLedger SentWasCurrent Settles
CHECK_DEADLOCK FALSE
