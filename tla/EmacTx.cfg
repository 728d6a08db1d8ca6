SPECIFICATION FairSpec
CONSTANTS
  N = 3
  Contexts = {"main"}
  MaxTries = 5
  Chained = {2, 4}
  TxAborts = TRUE
  MaxBusErrors = 1
INVARIANTS RingInv CleanedBeforeReuse
PROPERTIES FillOwnBufferOnly EveryAcceptedSent DoneTerminates ImplementsQueue
CHECK_DEADLOCK FALSE
