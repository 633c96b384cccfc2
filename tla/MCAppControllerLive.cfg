\* One server of a listed name and one of a name without a row, two pids, no
\* restarts, no symmetry; a crash count of one is already (quint16)-1.
CONSTANTS
  o1 = o1
  o2 = o2
  o3 = o3
  web = web
  api = api
  Object = {o1, o3}
  Name = {web, api}
  fName <- TwoWebOneApi
  Pid = {p1, p2}
  NoPid = "0"
  RetryLimit = 0
  CountMax = 1
  Listed = {web}
  BootCount <- BootsOne
  DeployCount <- OneEach
  NoServer = NoServer
  MaxEntries = 2
SPECIFICATION ACFairSpec
PROPERTIES TakedownHitsName StoppedLeave
