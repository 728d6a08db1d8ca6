SPECIFICATION FairSpec
CONSTANTS
  N = 4
  MaxFrames = 9
  BadFrames = FALSE
  MaxBusErrors = 0
INVARIANTS RingInv NoLostWakeup
PROPERTIES DoneOnlyAfterFrame EveryFrameProcessed ReceiverResumes ImplementsQueue
CHECK_DEADLOCK FALSE
