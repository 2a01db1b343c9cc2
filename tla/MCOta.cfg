SPECIFICATION Spec
CONSTANTS
  Tasks = {t1, t2}
  MaxOpens = 1
  MaxPart = 2
  Chunks = 1
  AutoChecks = {TRUE, FALSE}
  AutoInstall = TRUE
  Interval = 1
  Pushes = TRUE
  t1 = t1
  t2 = t2
SYMMETRY Symmetry
INVARIANTS
  FlagBacked
  TimerAlive
  NeverStuckBusy
  OneStarterOneTask
  NewerByNumbers
