\* Two instances of one listed name, three pids, one restart each; a crash
\* count of one is already (quint16)-1.
CONSTANTS
  o1 = o1
  o2 = o2
  o3 = o3
  web = web
  api = api
  Object = {o1, o2}
  Name = {web}
  fName <- TwoWebOneApi
  Pid = {p1, p2, p3}
  NoPid = "0"
  RetryLimit = 1
  CountMax = 1
  Listed = {web}
  BootCount <- BootsTwo
  DeployCount <- OneEach
  NoServer = NoServer
  MaxEntries = 2
SPECIFICATION ACSpec
SYMMETRY PidSymmetry
INVARIANTS Supervised LiveAreListed FileExact StateSynced
PROPERTIES CleanupComplete TakedownHitsName ImplementsSupervision
