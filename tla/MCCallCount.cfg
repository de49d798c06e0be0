CONSTANTS
  c1 = c1
  c2 = c2
  c3 = c3
  Client <- Clients
  MaxCmd = 0
  NoSocket = NoSocket
SPECIFICATION CallSpec
INVARIANT
  CountReturnsToZero
CHECK_DEADLOCK FALSE
