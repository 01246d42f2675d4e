SPECIFICATION RelaySpec
CONSTANTS
  Clients = {c1}
  TimeOut = 30
  MaxQueries = 2
  Dns <- OneDns
  Mishaps = {"read_start", "query"}
  Hosts = {"h1"}
  Modes = {"PROXY_HTTP", "PROXY_HTTPS"}
  Eager = {"PROXY_HTTPS"}
  EarlyWrite = "queued"
  MaxChunks = 4
INVARIANTS
  RelayTypeOK
  BuffersOwned
PROPERTIES
  UpInOrder
  DownInOrder
CHECK_DEADLOCK FALSE
