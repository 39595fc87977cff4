\* Liveness of recovery: two jobs of one queue, workers that crash or shut down.
SPECIFICATION FairSpec
CONSTANTS
  Worker = {w1, w2}
  Queue = {q}
  Key = {}
  None = None
  MaxJobs = 2
  MaxAttempts = 1
  MaxAge = 1
  Resilient = {1}
  HookResults = {}
  JobSpecs <- InQueue
  RecoveryEnabled = {w1, w2}
  MaxClaims = 1
  Outages = FALSE
  DbErrors = TRUE
  Operations = {}
PROPERTIES DeadLocksReleased
CHECK_DEADLOCK FALSE
