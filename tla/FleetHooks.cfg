\* The same workers with a recovery hook, two attempts and jobs that a
\* replacement moves into and out of the queue.
SPECIFICATION Spec
CONSTANTS
  Worker = {w1, w2}
  Queue = {q}
  Key = {k}
  None = None
  MaxJobs = 2
  MaxAttempts = 2
  MaxAge = 1
  Resilient = {1}
  HookResults = {"default", "reschedule", "fail", "skip"}
  JobSpecs <- Keyed
  RecoveryEnabled = {w1, w2}
  MaxClaims = 2
  Outages = FALSE
  DbErrors = TRUE
  Operations = {"remove", "unlock"}
SYMMETRY Symmetry
INVARIANTS ClaimsOwned QueueSerial QueueLockBacked RetiredUnavailable
CHECK_DEADLOCK FALSE
