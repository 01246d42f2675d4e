SPECIFICATION FairSpec
CONSTANTS
  Clients = {c1, c2}
  Dns <- TwoDns
  TimeOut = 30
  MaxQueries = 2
  Mishaps = {"read_start", "query"}
INVARIANTS
  TypeOK
  MemorySafe
  RefCountExact
  CountsServed
  SidesCloseTogether
PROPERTIES
  FreedByLastUser
  EventuallyFreed
CHECK_DEADLOCK FALSE
