SPECIFICATION FairSpec
CONSTANTS
  Vad = vad
  Releaser = release
  Boot = Boot
  NoSegment = NoSegment
  SpillEnabled = FALSE
  RamCap = 1
  MaxPending = 1
  DiskSlots = 2
  UsizeMod = 8
  MaxSegments = 2
  MaxClears = 0
  Modes <- AllModes
  Overlap = FALSE
  MaxSessions = 2
  MaxRecoveries = 1
INVARIANTS ReadyAtRest IdleAtRest KeyUpEndsCapture
PROPERTIES ImplementsQueue BusyEnds
CHECK_DEADLOCK FALSE
