CONSTANTS
  d1 = d1
  d2 = d2
  v1 = v1
  Device <- Devices
  Number = {1, 2}
  Vio <- Records
  Usetype = 0
  LIMIT = 2
  MaxRows = 2
  None = None
SPECIFICATION Spec
CONSTRAINT SomeNumberIsSure
SYMMETRY Symmetry
INVARIANTS
  TypeOK
  GivenTwiceOnlyInDoubt
  UsedIsAccountedFor
CHECK_DEADLOCK FALSE
