CONSTANTS
  MAX_THR = 3
  MAX_QUEUE = 3
  c1 = c1
  c2 = c2
  c3 = c3
  c4 = c4
  Conn <- Clients
  Pill = Pill
  None = None
SPECIFICATION FairSpec
INVARIANTS
  TypeOK
  NoLostWakeup
  ExactlyOnePlace
  ShutdownDrains
PROPERTIES
  FifoSpec
  EveryRequestTaken
  ShutdownCompletes
