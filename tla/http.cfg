SPECIFICATION HttpSpec
CONSTANTS
  Requests <- AllRequests
  MAX_HEADERS = 3
INVARIANTS
  
  CompleteIsServed
  TunnelGoesWhereNamed
