SPECIFICATION DBSpec
CONSTANTS
  Keys <- MCKeys
  CountTop = 2
  LoadTop = 1
  Loads = {0, 4}
  StrictMode = FALSE
  OuterTries = 3
  Retries = 2
INVARIANTS
  ReadsAsMeant
PROPERTIES
  WritesAsMeant
  CountMovesByOne
  GivenUpLate
  
