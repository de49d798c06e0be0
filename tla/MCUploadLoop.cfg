CONSTANTS
  N = 7
  LIMIT = 6
  NSLOT = 3
  Picnum <- Pictures
  Disposable <- LaterDisposed
  MaxFaults = 2
SPECIFICATION FairSpec
INVARIANTS
  TypeOK
  UploadedMeansSent
  ResentOnlyAfterLapse
PROPERTIES
  UploadOutbox
  EveryRecordSettled
