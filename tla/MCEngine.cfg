SPECIFICATION BothSpec
CONSTANTS
  Workflows = {w1, w2}
  Tasks = {t1, t2}
  Cancels = FALSE
  Faults = FALSE
  SlowDrives = FALSE
  MaxEvents = 2
  MaxCrashes = 1
  NoLock = NoLock
  Destinations = {matches, play}
  Keys = {k1, k2}
  Drains = {p1, p2}
  NoDestination = NoDestination
  MaxEnqueues = 3
INVARIANT DriversExcluded
INVARIANT NoneForgotten
INVARIANT OrderConsistent
INVARIANT NoIntentLost
PROPERTY LifecycleSpec
PROPERTY InstancesEnd
PROPERTY EventuallyDelivered
CHECK_DEADLOCK FALSE
