SPECIFICATION FairSpec
CONSTANTS
  Clients = {c1, c2}
  Dns <- NoDns
  TimeOut = 0
  MaxQueries = 1
  Mishaps = {"read_start", "query"}
PROPERTIES
  ClosedIsFreed
CHECK_DEADLOCK FALSE
