\* One job and one slot, another queue, pulses and a refetch
\* delay; the queue is released at any time.
SPECIFICATION FairSpec
CONSTANTS
  None = None
  Job = {j1}
  Slot = {s1}
  Size = 1
  Threshold = 0
  MaxAbort = 1
  MaxAttempts = 2
  MaxReleases = 2
  Direct = FALSE
  Others = TRUE
  Pulses = TRUE
  DbErrors = TRUE
 
PROPERTIES ReleaseEnds
CHECK_DEADLOCK FALSE
