SPECIFICATION Spec
CONSTANTS
  Modes = {"hold", "toggle", "continuous"}
  Capacity = 2
  Torn = FALSE
  Slow = FALSE
  PreFrames = 1
  MinSpeech = 2
  SilenceTimeout = 1
  MaxSegment = 5
  PttMin = 1
  MaxChunks = 4
  MaxTakes = 2
  MaxRestarts = 1
INVARIANTS TypeOK SpokenOrder OwnTake HeldTakeWhole  SegmentFits
CHECK_DEADLOCK FALSE
