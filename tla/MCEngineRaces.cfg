SPECIFICATION Spec
CONSTANTS
  Workflows = {w1}
  Tasks = {t1, t2}
  Cancels = TRUE
  Faults = TRUE
  SlowDrives = TRUE
  MaxEvents = 3
  MaxCrashes = 1
  NoLock = NoLock
SYMMETRY TaskSymmetry
INVARIANT CompletedIsBound
CHECK_DEADLOCK FALSE
