SPECIFICATION FairSpec
CONSTANTS
  p1 = p1
  p2 = p2
  m1 = m1
  m2 = m2
  Profiles = {p1, p2}
  Matches = {m1, m2}
  NoMatch = NoMatch
  Bounds <- MCBounds
  MaxDrops = 1
  MaxQueue = 1
INVARIANT ToldIsRecorded
PROPERTY NoFalseOffline
PROPERTY Converges
CHECK_DEADLOCK FALSE
