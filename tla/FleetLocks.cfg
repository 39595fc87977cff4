\* Registered workers whose heartbeats stay young: crashes, lost statements
\* and unlocking operators around three jobs, in one queue or outside it.
SPECIFICATION Spec
CONSTANTS
  Worker = {w1, w2}
  Queue = {q}
  Key = {}
  None = None
  MaxJobs = 3
  MaxAttempts = 1
  MaxAge = 1
  Resilient = {}
  HookResults = {}
  JobSpecs <- Unkeyed
  RecoveryEnabled = {w1, w2}
  MaxClaims = 2
  Outages = FALSE
  DbErrors = TRUE
  Operations = {"unlock"}
SYMMETRY Symmetry
INVARIANTS TypeOK ClaimsOwned SingleClaim QueueSerial QueueLockBacked SweptWorkersStopped
CHECK_DEADLOCK FALSE
