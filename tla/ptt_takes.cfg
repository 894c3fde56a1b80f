SPECIFICATION FairSpec
CONSTANTS
  Holds = {TRUE, FALSE}
  Workers = {w1, w2, w3}
  OpenMayFail = TRUE
  MaxPresses = 4
  MaxJobs = 1
INVARIANTS KeyUpClosesInTurn HoldTellsCapture OpenGateIsActive NotBusyAtRest OneCaptureInTurn
PROPERTY StopCompletes
CHECK_DEADLOCK FALSE
