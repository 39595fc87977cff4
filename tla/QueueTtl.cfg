\* No statement fails; an old TTL timer meets a new batch.
SPECIFICATION FairSpec
CONSTANTS
  None = None
  Job = {j1}
  Slot = {s1}
  Size = 1
  Threshold = None
  MaxAbort = 1
  MaxAttempts = 2
  MaxReleases = 0
  Direct = FALSE
  Others = FALSE
  Pulses = FALSE
  DbErrors = FALSE
PROPERTIES TtlReturnsToPolling
CHECK_DEADLOCK FALSE
