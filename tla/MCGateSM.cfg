SPECIFICATION Spec
CONSTANTS
  TravelTimeout = 4
  MinSpacing = 3
  ClockMod = 16
  MaxTime = 10
INVARIANTS
  OpenMeansContact
  OnlyACommandMasksContact
PROPERTIES
  NeverSettledEarly
