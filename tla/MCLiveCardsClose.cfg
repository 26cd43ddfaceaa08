SPECIFICATION CardsSpec
CONSTANTS
  Nil = Nil
  Feeds = {f1}
  Guilds = {g1, g2}
  Players = {p1}
  Matches = {m1}
  Messages = {c1, c2, c3}
  Member <- AllMembers
  MaxQueue = 2
  MaxMishaps = 0
INVARIANT CardsClose
CHECK_DEADLOCK FALSE
