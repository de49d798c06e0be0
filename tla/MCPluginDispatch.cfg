CONSTANTS
  t1 = t1
  t2 = t2
  t3 = t3
  FProcess = FProcess
  Missing = Missing
  ann = ann
  bob = bob
  r1 = r1
  r2 = r2
  r3 = r3
  r4 = r4
  Thread <- Threads
  Plugin <- Plugins
  User <- Users
  Request <- Requests
  PluginOf <- RequestedPlugin
  UserOf <- RequestingUser
  NoUser = NoUser
  None = None
SPECIFICATION FairSpec
INVARIANTS
  TypeOK
  WritesAsRequester
  FailedMeansNoChange
  ReplyNotOlder
PROPERTIES
  EveryAnswerReady
