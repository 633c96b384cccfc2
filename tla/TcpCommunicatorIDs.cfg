\* Three sockets, no network sessions: one leaves, another comes.
CONSTANTS
  Client = {c1, c2, c3}
  Required = FALSE
  Unasked = FALSE
SPECIFICATION TCSpec
INVARIANT RespectiveIDs
CHECK_DEADLOCK FALSE
