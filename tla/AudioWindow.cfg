SPECIFICATION Spec
CONSTANTS
  MaxBuf = 6
  MaxBlock = 3
  Latency = 1
  MaxTotal = 10
  NoAudio = NoAudio
INVARIANTS
  CutIsSegments
  NothingIsLost
  WindowsCover
CHECK_DEADLOCK FALSE
