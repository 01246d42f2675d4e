SPECIFICATION RelaySpec
CONSTANTS
  Clients = {c1}
  TimeOut = 30
  MaxQueries = 2
  Dns <- NoDns
  Mishaps = {}
  Hosts = {"h1"}
  Modes = {"PROXY_HTTP"}
  Eager = {"PROXY_HTTP"}
  EarlyWrite = "queued"
  MaxChunks = 2
PROPERTIES
  UpInOrder
CHECK_DEADLOCK FALSE
