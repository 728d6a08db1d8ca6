SPECIFICATION Spec
CONSTANTS
  Cyclic = {"arp", "dhcp"}
  Interval <- MCInterval
  M = 16
  PoolSize = 3
  MaxLag = 2
  TcpContext = "main"
INVARIANTS ListSound TcpTimerScheduled NeverEarly
PROPERTIES AllExpiredRun DueAdvances CheckReturns EveryTimerRuns
