SPECIFICATION Spec
CONSTANTS
  Vad = vad
  Releaser = release
  Boot = Boot
  NoSegment = NoSegment
  SpillEnabled = TRUE
  RamCap = 1
  MaxPending = 2
  DiskSlots = 2
  UsizeMod = 8
  MaxSegments = 2
  MaxClears = 1
  Modes <- AllModes
  Overlap = TRUE
  MaxSessions = 2
  MaxRecoveries = 1
INVARIANTS AtMostOneLateText FreshTakeRuns
CHECK_DEADLOCK FALSE
