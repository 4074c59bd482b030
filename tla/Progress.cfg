SPECIFICATION MCFairSpec
CONSTANTS
  Parts = {"reached", "readings", "changelogs", "jobs"}
  Runs = {r1}
  Repos = {}
  Home = "a"
  MaxMerges = 0
  Depth = 2
  Lag = 1
  Webhooks = TRUE
  MaxTime = 4
  MaxFails = 1
  DELTA_OVERLAP = 1
  FULL_SYNC_INTERVAL = 2
  EVENT_QUIET = 2
  Kinds = {"github", "gitlab"}
  LastDate = 1
  Ids = {1, 2, 3}
  PAGE = 1
  MAX_PAGES = 2
  MaxMoves = 0
PROPERTIES EveryWaitEnds
CHECK_DEADLOCK FALSE
