\* Two jobs, two slots, another queue, direct claims, lost answers and two
\* calls of release.
SPECIFICATION Spec
CONSTANTS
  None = None
  Job = {j1, j2}
  Slot = {s1, s2}
  Size = 2
  Threshold = None
  MaxAbort = 1
  MaxAttempts = 2
  MaxReleases = 2
  Direct = TRUE
  Others = TRUE
  Pulses = FALSE
  DbErrors = TRUE
SYMMETRY Symmetry
INVARIANTS ClaimsLocked OneHolder  
PROPERTIES NoJobAfterRelease
CHECK_DEADLOCK FALSE
