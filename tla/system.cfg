SPECIFICATION SysFairSpec
CONSTANTS
  Clients = {c1}
  Requests = {r1, r2}
  Dns <- TwoDns
  TimeOut = 30
  MaxQueries = 2
  Mishaps = {"read_start", "query", "early_data"}
INVARIANTS
  QueriesCounted
  ClientOutlivesQuery
  SecondAfterFirst
PROPERTIES
  ImplementsProxy
CHECK_DEADLOCK FALSE
