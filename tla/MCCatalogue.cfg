SPECIFICATION Spec
CONSTANTS
  None = None
  Gone = Gone
  Missing = Missing
  Threads = {e1, e2, e3}
  MaxPasses = 3
  MaxRevisions = 2
  MaxFailures = 1
  Callers = {c1, c2}
  Loner = c3
  MaxActive = 2
  MaxCalls = 5
  Pools = {e1, e2, e3}
  Maps = {m1, m2}
  Guilds = {g1}
  MapIds = {map1}
  PoolIds = {pool1}
  FactionIds = {faction1}
  Tasks = {k1}
  Factions = {f1}
  LegacyMaps = {m3}
  Refreshers = {c1, c2}
  NoDraft = None
  MaxRefreshes = 3
  MaxFaults = 1
  MaxChanges = 1
  Askers = {c1, c2, c3}
  Requests <- ThreeQueries
  Interval <- TwoAndOne
  Backoff = 1
  MaxRetries = 1
  Window = 3
  MaxWindow = 6
  Cooldown = 2
  FirstTime = 2
  MaxTime = 11
  MaxJobs = 3
  MaxErrors = 4
  Pages = {m1, m2}
  Cased = {m1}
  Keys = {e1, e2, e3}
  TextTasks = {c1, c2}
  NoText = None
  MaxWork = 3
  MaxEdits = 0
  MaxBreaks = 0
SYMMETRY Symmetry
INVARIANT PoolRules
INVARIANT PoolsMirrored
INVARIANT Refreshed
INVARIANT Paced
INVARIANT TextsFollow
PROPERTY UsedKept
PROPERTY NothingLost
CHECK_DEADLOCK FALSE
