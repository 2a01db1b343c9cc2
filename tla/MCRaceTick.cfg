SPECIFICATION MCSpec
CONSTANTS
  TravelTimeout = 3
  MinSpacing = 2
  ClockMod = 16
  MaxTime = 6
  Overlaps = {"one core"}
  EdgeSpacing = 2
  Skew = 1
INVARIANTS
  TickWaitsForTimeout
