SPECIFICATION DataSpec
CONSTANTS
  None = None
  Pools = {p1}
  Maps = {m1}
  Callers = {c1}
  MaxActive = 1
  MaxCalls = 5
PROPERTY HistoryStays
CHECK_DEADLOCK FALSE
