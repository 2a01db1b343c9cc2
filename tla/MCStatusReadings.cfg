SPECIFICATION ReadSpec
CONSTANTS
  DebounceSamples = 6
INVARIANTS
  SteadyLineReported
PROPERTIES
  Debounces
