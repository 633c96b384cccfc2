\* Two instances of one server, three pids, two restarts each, no symmetry.
CONSTANTS
  o1 = o1
  o2 = o2
  web = web
  Object = {o1, o2}
  Name = {web}
  fName <- OneName
  Pid = {p1, p2, p3}
  NoPid = "0"
  RetryLimit = 2
  CountMax = 3
SPECIFICATION SPFairSpec
INVARIANT PidsOwnedOnce
PROPERTIES NoRestartAfterStop CountsOnlyCrashes StopCompletes CrashLoopEnds
