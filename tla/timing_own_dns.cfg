SPECIFICATION TimingSpec
CONSTANTS
  Clients = {c1}
  Dns <- TwoDns
  TimeOut = 6
  MaxQueries = 1
  Mishaps = {"read_start", "query"}
  DnsTimeout = 1
  MaxStall = 0
  MaxTime = 15
INVARIANTS
  SilentIsFreed
  DnsWaitBounded
CHECK_DEADLOCK FALSE
