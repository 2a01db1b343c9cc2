SPECIFICATION FairSpec
CONSTANTS
  OpenAddr = 3
  CloseAddr = 4
  Low = 2
  High = 6
  ScanEnd = 6
  Typed = {1, 3, 4, 5, 6, 7}
  MaxFaults = 3
INVARIANTS
  Separated
PROPERTIES
  SetupEnds
CHECK_DEADLOCK FALSE
