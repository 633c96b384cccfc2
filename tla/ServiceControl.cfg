SPECIFICATION SCFairSpec
CONSTANTS
  Proc = {p1, p2, p3}
  p1 = p1
  p2 = p2
  p3 = p3
  User = {u1}
  u1 = u1
  NoFile = NoFile
  Stale = Stale
  Commands = {"start", "exec", "terminate", "pause"}
  MaxFaults = 1
INVARIANTS
  OneController
  StatusTrue
  StartMeetsNobody
PROPERTIES
  CommandReturns
  TerminateEnds
  ServiceComesUp
