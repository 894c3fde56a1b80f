SPECIFICATION Spec
CONSTANTS
  Holds = {TRUE}
  Workers = {w1, w2}
  OpenMayFail = FALSE
  MaxPresses = 1
  MaxJobs = 1
INVARIANT KeyUpCloses
CHECK_DEADLOCK FALSE
