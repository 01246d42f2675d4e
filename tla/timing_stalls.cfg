SPECIFICATION TimingSpec
CONSTANTS
  Clients = {c1, c2}
  Dns <- NoDns
  TimeOut = 3
  MaxQueries = 1
  Mishaps = {}
  DnsTimeout = 1
  MaxStall = 2
  MaxTime = 8
INVARIANTS
  SilentIsFreed
PROPERTIES
  NotCutShort
SYMMETRY ClientSymmetry
CHECK_DEADLOCK FALSE
