SPECIFICATION Spec
CONSTANTS
  Cyclic = {"arp", "dhcp"}
  Interval <- MCInterval
  M = 16
  PoolSize = 3
  MaxLag = 2
  TcpContext = "isr"
INVARIANTS TcpTimerScheduled
