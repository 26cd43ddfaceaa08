SPECIFICATION Spec
CONSTANTS
  Handlers = {c1, c2}
  None = None
  Guilds = {g1, g2, g3}
  Locales = {en, fr}
  MaxMishaps = 1
  Tasks = {c1, c2}
  Views = {w1, w2}
  Typed = {x1, x2, x3, x4}
  KnownIds = {x1, x2, x3}
  Insights <- ByName
  Taken = {x3}
  Names = {n1}
  Blank = Blank
  Given = Given
  NoName = NoName
  Gone = Gone
  NoView = NoView
  MaxEntered = 2
  MaxFailures = 1
  Admins = {c1, c2}
  Nil = Nil
  Pools = {q1, q2}
  Maps = {map1, map2}
  OwnMaps = {map1}
  MaxPoolMaps = 2
  MaxOptions = 1
  MaxSubmits = 2
  MaxRefusals = 1
  ErrorKinds = {g2, g3}
  Operators = {w1, w2}
  Reports = {c1, c2}
  Never = None
  DmWindow = 2
  MaxNow = 2
  MaxErrors = 3
  x1 = x1
  x4 = x4
  q1 = q1
  q2 = q2
  map1 = map1
  map2 = map2
  g1 = g1
  g2 = g2
  g3 = g3
  en = en
  fr = fr
SYMMETRY Symmetry
INVARIANT ProfileFollows
INVARIANT PostsFollow
PROPERTY AskedOnly
INVARIANT BotSettles
INVARIANT Heard
CHECK_DEADLOCK FALSE
