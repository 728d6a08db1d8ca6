SPECIFICATION FairSpec
CONSTANTS
  N = 4
  MaxFrames = 3
  BadFrames = FALSE
  MaxBusErrors = 0
  Window = 2
  LongFrames = {}
PROPERTY EveryFrameTaken
CHECK_DEADLOCK FALSE
