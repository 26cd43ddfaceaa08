SPECIFICATION Spec
CONSTANTS
  Profiles = {p1, p2, p3}
  Users = {u1, u2}
  NoUser = NoUser
  None = None
  MaxChanges = 3
  MaxFaults = 3
  Accounts = {a1, a2}
  Matches = {m1, m2}
  NoMatch = NoMatch
  NoEvent = NoEvent
  MaxMoves = 3
  MaxBreaks = 1
  NoChannel = NoChannel
  Channels = {ch1, ch2, ch3}
  Others = {ch1}
  Callers = {c1, c2}
  MaxRoutes = 2
  MaxCrashes = 1
PROPERTY SyncSettles
INVARIANT TransitionsFollow
PROPERTY EventuallyMirrored
INVARIANT OneNamed
PROPERTY CacheSettles
CHECK_DEADLOCK FALSE
