\* Nothing is reliable: heartbeats of live workers go stale, locks outlive four
\* hours, statements fail and operators call every administration function.
SPECIFICATION Spec
CONSTANTS
  Worker = {w1, w2}
  Queue = {}
  Key = {k}
  None = None
  MaxJobs = 2
  MaxAttempts = 1
  MaxAge = 2
  Resilient = {1}
  HookResults = {}
  JobSpecs <- Keyed
  RecoveryEnabled = {w1, w2}
  MaxClaims = 1
  Outages = TRUE
  DbErrors = FALSE
  Operations = {"complete", "fail", "reschedule", "remove", "unlock", "cleanup"}
SYMMETRY Symmetry
INVARIANTS RetiredUnavailable
 
CHECK_DEADLOCK FALSE
