SPECIFICATION FairSpec
CONSTANTS
  N = 4
  MaxFrames = 7
  BadFrames = TRUE
  MaxBusErrors = 1
  Window = 3
  LongFrames = {2}
INVARIANTS RingInv Ordered
PROPERTIES NoUnreadRelease EveryFrameTakenInLockstep
CHECK_DEADLOCK FALSE
