SPECIFICATION MCSpec
CONSTANTS
  TravelTimeout = 2
  MinSpacing = 1
  ClockMod = 16
  MaxTime = 4
  Overlaps = {"serial", "two cores"}
  EdgeSpacing = 2
  Skew = 1
INVARIANTS
  OpenNeedsContact
  TravelClockNear
PROPERTIES
  SerialCallsImplementGateSM
