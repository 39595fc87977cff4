\* One job, no pulses: the poll interval alone has to bring the next fetch.
SPECIFICATION FairSpec
CONSTANTS
  None = None
  Job = {j1}
  Slot = {s1}
  Size = 1
  Threshold = None
  MaxAbort = 1
  MaxAttempts = 2
  MaxReleases = 0
  Direct = FALSE
  Others = FALSE
  Pulses = FALSE
  DbErrors = FALSE
PROPERTIES PollingKeepsFetching
CHECK_DEADLOCK FALSE
