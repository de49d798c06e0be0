CONSTANTS
  NPoint = 3
  MaxSent = 2
SPECIFICATION GpsSpec
INVARIANTS GpsTypeOK UpflagCountsSends
PROPERTY GpsOutbox
CHECK_DEADLOCK FALSE
