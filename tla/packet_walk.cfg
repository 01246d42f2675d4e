SPECIFICATION PacketSpec
CONSTANTS
  Hosts <- SomeHosts
  Owners = {"pointer", "plain"}
  Types = {1, 5, 28}
  MaxRecords = 3
  PacketSize = 11
INVARIANTS
  QueryAsksForHost
  FindsAddress
CHECK_DEADLOCK FALSE
