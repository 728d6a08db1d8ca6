SPECIFICATION FairSpec
CONSTANTS
  N = 2
  Contexts = {"main","rx"}
  MaxTries = 3
  Chained = {}
  TxAborts = FALSE
  MaxBusErrors = 0
PROPERTY EveryAcceptedSent
CHECK_DEADLOCK FALSE
