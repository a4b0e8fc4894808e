\* A second content of the source, or a second invocation, beside a slot; any answer of the container.
SPECIFICATION Spec
CONSTANTS
  None = None
  Versions = {1,2}
  Slots = {s1}
  Workers = {w1,w2}
  Roles <- Replaces
  Outcomes = {"ok","code","pixel","transfer"}
  MaxAttempts = 2
  MaxDeliveries = 2
  MaxCleanups = 2
  MaxUploads = 2
  MaxCopies = 1
  MaxFaults = 0
VIEW LettersUnread
CONSTRAINT FewTries
INVARIANT NotStranded SignalsOut  ThumbSound
 
CHECK_DEADLOCK FALSE
