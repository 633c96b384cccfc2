\* Three sockets, no network sessions: one leaves before the pong of another.
CONSTANTS
  Client = {c1, c2, c3}
  Required = FALSE
  Unasked = FALSE
SPECIFICATION TCSpec
PROPERTY CorrespondingPong
CHECK_DEADLOCK FALSE
