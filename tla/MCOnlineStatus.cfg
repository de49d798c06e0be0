CONSTANTS
  User = {u1, u2}
  Limit = 0
  None = None
  Never = Never
SPECIFICATION FairSpec
INVARIANT LogTellsOnline
PROPERTIES OfflineMeansSilent SilentGoesOffline
CHECK_DEADLOCK FALSE
