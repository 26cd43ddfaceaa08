SPECIFICATION FairSpec
CONSTANTS
  Workflows = {w1}
  Tasks = {t1, t2}
  Cancels = TRUE
  Faults = FALSE
  SlowDrives = FALSE
  MaxEvents = 3
  MaxCrashes = 0
  NoLock = NoLock
PROPERTY LifecycleSpec
CHECK_DEADLOCK FALSE
