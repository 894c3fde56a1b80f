SPECIFICATION Spec
CONSTANTS
  Modes = {"hold"}
  Capacity = 2
  Torn = FALSE
  Slow = FALSE
  PreFrames = 1
  MinSpeech = 2
  SilenceTimeout = 1
  MaxSegment = 5
  PttMin = 1
  MaxChunks = 6
  MaxTakes = 1
  MaxRestarts = 0
INVARIANT LongHoldWhole
CHECK_DEADLOCK FALSE
