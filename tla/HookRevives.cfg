\* A recovery hook that answers Reschedule with attempts.
SPECIFICATION Spec
CONSTANTS
  None = None
  Worker = {w1, w2}
  Queue = {q}
  Key = {k}
  MaxJobs = 2
  MaxAttempts = 1
  MaxAge = 1
  Resilient = {}
  HookResults = {"reset"}
  JobSpecs <- InQueue
  RecoveryEnabled = {w1, w2}
  MaxClaims = 1
  Outages = FALSE
  DbErrors = FALSE
  Operations = {}
INVARIANTS RetiredUnavailable
CHECK_DEADLOCK FALSE
