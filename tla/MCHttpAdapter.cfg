SPECIFICATION HttpSpec
CONSTANTS
  Bases <- MCBases
  Requests <- MCRequests
  Limit = 4
  MaxChunk = 3
  MaxJsonDepth = 1
INVARIANTS
  HttpTypeOK
  BodiesAreWhole
  WireCarriesRequest
PROPERTIES
  ImplementsPort
  EveryCallEnds
CHECK_DEADLOCK FALSE
