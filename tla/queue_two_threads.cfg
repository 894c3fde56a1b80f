SPECIFICATION FairSpec
CONSTANTS
  Producers = {vad, release}
  Boot = Boot
  NoSegment = NoSegment
  SpillEnabled = TRUE
  RamCap = 1
  MaxPending = 1
  DiskSlots = 1
  UsizeMod = 8
  MaxSegments = 3
  MaxClears = 1
  MaxCrashes = 1
INVARIANTS PendingExact BacklogBound FilesAccounted MemoryCovered OwnAudio JobsHaveTheirFile
PROPERTY ImplementsDelivery
CHECK_DEADLOCK FALSE
