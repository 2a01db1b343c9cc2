SPECIFICATION MCSpec
CONSTANTS
  TravelTimeout = 3
  MinSpacing = 4
  ClockMod = 16
  MaxTime = 7
  DebounceSamples = 2
  PollInterval = 1
  TickPeriod = 2
  BootTime = 3
  PulseTime = 2
  DefaultPulse = 1
  XferTimeout = 1
  Jitter = 1
  MaxMoves = 1
  MaxFaults = 1
INVARIANTS
  TravelBounded
  LineReported
  ClosedOnlyInPulse
  AnsweredInTime
  IdempotentMeansPressed
PROPERTIES
  ImplementsGateSM
  AcceptedMeansPressed
  PressesSpaced
