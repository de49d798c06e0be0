CONSTANTS
  c1 = c1
  c2 = c2
  c3 = c3
  Client <- Clients
  MaxCmd = 2
  NoSocket = NoSocket
SPECIFICATION CallFairSpec
INVARIANTS
  CallTypeOK
  OneClientRuns
  CommandsInOrder
PROPERTIES
  HangUpIsNoticed
CHECK_DEADLOCK FALSE
