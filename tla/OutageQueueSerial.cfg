\* A live worker misses heartbeats past the threshold: three jobs of one queue.
SPECIFICATION Spec
CONSTANTS
  None = None
  Worker = {w1, w2}
  Queue = {q}
  Key = {}
  MaxJobs = 3
  MaxAttempts = 1
  MaxAge = 1
  Resilient = {}
  HookResults = {}
  JobSpecs <- InQueue
  RecoveryEnabled = {w1, w2}
  MaxClaims = 2
  Outages = TRUE
  DbErrors = FALSE
  Operations = {}
INVARIANTS QueueSerial
CHECK_DEADLOCK FALSE
