\* No jobs, no pulses, no refetch delay: only the poll interval is left.
SPECIFICATION Spec
CONSTANTS
  None = None
  Job = {}
  Slot = {s1}
  Size = 1
  Threshold = None
  MaxAbort = 1
  MaxAttempts = 2
  MaxReleases = 0
  Direct = FALSE
  Others = FALSE
  Pulses = FALSE
  DbErrors = FALSE
PROPERTIES PollsOnInterval
CHECK_DEADLOCK FALSE
