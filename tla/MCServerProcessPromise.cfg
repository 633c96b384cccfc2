\* The promise handleProcessCrash() logs when the database is away.
CONSTANTS
  o1 = o1
  o2 = o2
  web = web
  Object = {o1}
  Name = {web}
  fName <- OneName
  Pid = {p1, p2}
  NoPid = "0"
  RetryLimit = 9
  CountMax = 12
SPECIFICATION SPSpec
PROPERTY WebappWillBeRestarted
