SPECIFICATION Spec
CONSTANTS
  Runs = {r1}
  Repos = {"a"}
  Depth = 2
  Lag = 1
  Webhooks = TRUE
  MaxTime = 3
  MaxFails = 0
  DELTA_OVERLAP = 1
  FULL_SYNC_INTERVAL = 3
  EVENT_QUIET = 1
INVARIANT NoGap
