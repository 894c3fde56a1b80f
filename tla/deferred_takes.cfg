SPECIFICATION Spec
CONSTANTS
  F1 = F1
  F2 = F2
  Own = Own
  NoWindow = NoWindow
  f1 = f1
  f2 = f2
  Fields = {F1, F2}
  Modes <- ToggleAiOrContinuous
  Flushes = {f1, f2}
  RestoreFails = FALSE
  MaxSegments = 2
  MaxMoves = 2
  MaxFailures = 1
SYMMETRY FlushSymmetry
INVARIANTS NothingLost OnceInOrder InItsField DeletesOwnText WaitsOnlyAway ReadyAtRest
CHECK_DEADLOCK FALSE
