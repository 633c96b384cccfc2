SPECIFICATION DPFairSpec
CONSTANTS
  Rows <- MCRows
  Name <- MCName
  NumberMod = 2
  RetryLimit = 1
  MaxServers = 4
  MaxCrashes = 1
  MaxFailures = 1
  MaxRequests = 2
INVARIANTS
  OwnLogFiles
PROPERTIES
  ConfiguredIsOneRow
  ComesUp
  GoesAway
  ImplementsSupervision
CHECK_DEADLOCK FALSE
