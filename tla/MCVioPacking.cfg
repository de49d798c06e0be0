CONSTANTS
  v1 = v1
  v2 = v2
  chief = chief
  officer = officer
  None = None
  Pack = {k1, k2}
  Vio <- MCVio
  User <- MCUser
  Visible <- MCVisible
SPECIFICATION Spec
CONSTRAINT Telling
SYMMETRY Symmetry
INVARIANTS DownloadedIsPacked PackedTwiceOnlyBeside PackedForRequester
CHECK_DEADLOCK FALSE
