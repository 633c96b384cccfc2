\* Three sockets on a host that requires network sessions, no symmetry.
CONSTANTS
  Client = {c1, c2, c3}
  Required = TRUE
  Unasked = TRUE
SPECIFICATION TCFairSpec
INVARIANTS ListExact IDsRespective OneSession
PROPERTIES EveryoneTold ListensAgain
CHECK_DEADLOCK FALSE
