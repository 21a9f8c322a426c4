SPECIFICATION FairSpec
CONSTANTS
  NULL = NULL
  Lines <- MCLines
  Frames <- MCFrames
  Noise <- MCNoise
  MaxSent = 3
  MAX_PARTIAL_FRAME_READS = 2
  Patience = 2
CHECK_DEADLOCK FALSE
INVARIANTS FramesAreFrames SerialReaderLives NothingLost
PROPERTIES NextItemIsDue ReaderSettles
