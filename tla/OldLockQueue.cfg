\* An operator completes a job whose lock is older than four hours.
SPECIFICATION Spec
CONSTANTS
  None = None
  Worker = {w1, w2}
  Queue = {q}
  Key = {}
  MaxJobs = 1
  MaxAttempts = 1
  MaxAge = 2
  Resilient = {}
  HookResults = {}
  JobSpecs <- InQueue
  RecoveryEnabled = {w1, w2}
  MaxClaims = 1
  Outages = FALSE
  DbErrors = FALSE
  Operations = {"complete"}
INVARIANTS FinishedJobFreesQueue
CHECK_DEADLOCK FALSE
