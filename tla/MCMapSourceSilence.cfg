SPECIFICATION SourceSpec
CONSTANTS
  Askers = {c1, c2}
  Requests <- OneRequest
  Interval <- TwoAndOne
  Backoff = 1
  MaxRetries = 1
  Window = 3
  MaxWindow = 6
  Cooldown = 2
  FirstTime = 2
  MaxTime = 8
  MaxJobs = 2
  MaxErrors = 2
INVARIANT Silent
CHECK_DEADLOCK FALSE
