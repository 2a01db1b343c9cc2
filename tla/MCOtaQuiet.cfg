SPECIFICATION FairSpec
CONSTANTS
  Tasks = {t1, t2}
  MaxOpens = 1
  MaxPart = 2
  Chunks = 1
  AutoChecks = {TRUE, FALSE}
  AutoInstall = TRUE
  Interval = 1
  Pushes = FALSE
  t1 = t1
  t2 = t2
PROPERTIES
  FlagReleased
INVARIANTS
  FailedHasError
  InstallKept
