SPECIFICATION Spec
CONSTANTS
  N = 4
  MaxFrames = 3
  BadFrames = FALSE
  MaxBusErrors = 0
  Window = 1
  LongFrames = {2}
INVARIANT FilledPbuf
CHECK_DEADLOCK FALSE
