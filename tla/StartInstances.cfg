\* All rows of a host with eight ports and a counter of two bits, so that
\* both counters wrap; the loop of a row that ends at port 7 is cut after
\* twenty rounds.
CONSTANTS
  PortMod = 8
  NumberMod = 4
  MaxStarts = 20
SPECIFICATION SIFairSpec
INVARIANTS NumbersUnique WholeRow
PROPERTY RowEnds
CHECK_DEADLOCK FALSE
