SPECIFICATION FairSpec
CONSTANTS
  Ips = {a1, a2, a3}
  Gw = a1
  NoIp = NoIp
  Macs = {m1, m2}
  GroupMac = GroupMac
  NoMac = NoMac
  Dsts = {a1, a2, "far", "group"}
  TableSize = 2
  MaxAge = 4
  Rerequest = 2
  MaxPending = 2
  MaxProbes = 1
INVARIANTS TableSound RefsExact RightAddress
PROPERTIES QueuedFate QueuedLeaves
