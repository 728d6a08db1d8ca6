SPECIFICATION TestSpec
CONSTANTS
  N = 3
  MaxFrames = 6
  BadFrames = TRUE
  MaxBusErrors = 0
  MaxRestarts = 3
INVARIANT AtMostOnce
CHECK_DEADLOCK FALSE
