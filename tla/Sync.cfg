SPECIFICATION MCSpec
CONSTANTS
  Parts = {"unheard", "reached", "rescoped", "listings", "mappers"}
  Runs = {r1, r2}
  Repos = {"a", "b"}
  Home = "a"
  MaxMerges = 1
  Depth = 2
  Lag = 2
  Webhooks = TRUE
  MaxTime = 4
  MaxFails = 1
  DELTA_OVERLAP = 2
  FULL_SYNC_INTERVAL = 2
  EVENT_QUIET = 1
  Kinds = {"github", "gitlab"}
  LastDate = 1
  Ids = {1, 2, 3}
  PAGE = 1
  MAX_PAGES = 2
  MaxMoves = 2
SYMMETRY RunSymmetry
INVARIANTS NoGapUnheard PlatformIsReadTrue
PROPERTIES StoreNeverEmptied EveryFullRestores
