SPECIFICATION Spec
CONSTANTS
  None = None
  Gone = Gone
  Callers = {c1, c2}
  Channels = {x1, x2, x3}
  Decls = {folder, general}
  Categories = {folder}
  Languages = {en, fr}
  en = en
  MessageIds = {1, 2, 3}
  MaxSyncs = 3
  MaxFaults = 1
  MaxChanges = 2
  NoRole = NoRole
  Deleted = Deleted
  Other = Other
  RoleCallers = {c1, c2}
  Roles = {x1, x2, x3}
  RoleKeys = {k1}
  Admin = admin
  Operators = {o1}
  MaxCalls = 3
  MaxRefusals = 1
  MaxMeddlings = 2
  Nil = Nil
  g1 = g1
  g2 = g2
  p1 = p1
  p2 = p2
  f1 = f1
  Guilds = {g1}
  Players = {p1}
  Feeds = {f1, f2}
  Matches = {m1}
  Played = {m2, m3}
  Messages = {x1, x2, x3}
  Member <- AllMembers
  MaxQueue = 2
  MaxMishaps = 1
SYMMETRY Symmetry
INVARIANT Healed
INVARIANT SetupHeals
INVARIANT CardsFollow
CHECK_DEADLOCK FALSE
