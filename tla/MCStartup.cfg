SPECIFICATION FairSpec
CONSTANTS
  MaxUpdates = 3
  MaxOutages = 3
INVARIANTS
  FallbackKept
  OnlyWorkingConfirmed
PROPERTIES
  ConfirmedNotRestarted
  TrialEnds
  EndsOnline
  LedHeals
