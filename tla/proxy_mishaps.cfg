SPECIFICATION Spec
CONSTANTS
  Clients = {c1, c2}
  Dns <- TwoDns
  TimeOut = 30
  MaxQueries = 2
  Mishaps = {"accept", "read_start", "connect", "query", "early_data"}
INVARIANTS
  NoUseAfterFree
  TimerCoversSockets
  UpMeansArmed
PROPERTIES
  NoLateConnect
SYMMETRY ClientSymmetry
CHECK_DEADLOCK FALSE
