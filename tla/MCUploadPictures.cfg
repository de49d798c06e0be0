CONSTANTS
  N = 7
  LIMIT = 6
  NSLOT = 3
  Picnum <- Pictures
  Disposable = {}
  MaxFaults = 0
SPECIFICATION Spec
INVARIANT
  UploadedMeansPicturesPut
