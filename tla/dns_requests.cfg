SPECIFICATION NetFairSpec
CONSTANTS
  Requests = {r1, r2}
  Ports = {p1, p2}
  MayQueue = TRUE
INVARIANTS
  TypeOK
  MemorySafe
  CalledOnce
  HeardOrTimedOut
PROPERTIES
  
  KeepsPromise
  EventuallyAnswered
  EventuallyFreed
CHECK_DEADLOCK FALSE
