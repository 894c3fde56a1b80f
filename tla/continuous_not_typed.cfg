SPECIFICATION Spec
CONSTANTS
  F1 = F1
  F2 = F2
  Own = Own
  NoWindow = NoWindow
  f1 = f1
  f2 = f2
  Fields = {F1, F2}
  Modes <- ContinuousAfterHold
  Flushes = {f1}
  RestoreFails = FALSE
  MaxSegments = 2
  MaxMoves = 2
  MaxFailures = 0
INVARIANT InsertedAutomatically
CHECK_DEADLOCK FALSE
