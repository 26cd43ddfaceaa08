SPECIFICATION Spec
CONSTANTS
  c1 = c1
  c2 = c2
  en = en
  fr = fr
  m1 = m1
  m2 = m2
  m3 = m3
  on = on
  u1 = u1
  u2 = u2
  u3 = u3
  p1 = p1
  p2 = p2
  v1 = v1
  v2 = v2
  v3 = v3
  panel1 = panel1
  Nobody = Nobody
  Viewed = {v1, v2, v3}
  Panels = {c1, c2, panel1}
  MaxMoves = 1
  MaxPlays = 1
  MaxMishaps = 1
  Games = {g1}
  Mods = {mod1}
  Callers = {c1, c2}
  Idle = Idle
  NoDoc = NoDoc
  MaxClock = 1
  None = None
  NoChannel = NoChannel
  Tasks = {c1, c2}
  r1 = r1
  Channels = {v1, v2}
  Roles = {r1}
  MaxFaults = 1
  Handlers = {c1, c2}
  Ops <- SomeOps
  Bound = 2
  MaxCalls = 5
  Users = {u1, u2, u3}
  Profiles = {p1, p2}
  NoUser = NoUser
  NoProfile = NoProfile
  Files <- SomeFiles
SYMMETRY Symmetric
INVARIANT GrantsKept
INVARIANT RequestsKept
INVARIANT GuildChoiceKept
INVARIANT OneOwner
INVARIANT LastImportWins
INVARIANT PanelsFollow
INVARIANT BotSees
INVARIANT PolicyFollows
PROPERTY RouteKept
CHECK_DEADLOCK FALSE
