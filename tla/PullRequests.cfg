SPECIFICATION MCSpec
CONSTANTS
  r1 = r1
  r2 = r2
  w1 = w1
  PRs = {p1}
  Runs <- MCRuns
  Workers <- MCWorkers
  Depth = 1
  Margin = 0
  ATTEMPTS = 2
  MergeDateInEvents = TRUE
  SameStamp = FALSE
  MaxTime = 3
  MaxQueue = 1
  DELTA_OVERLAP = 1
  FULL_SYNC_INTERVAL = 6
  EVENT_QUIET = 1
INVARIANT TypeOK
INVARIANT DatedMeansMerged
INVARIANT BoardIsReal
INVARIANT EveryCopyHonest
PROPERTY UpdatedAtNeverBack
PROPERTY MergeIsFinal
PROPERTY ConvergesWhenQuiet
PROPERTY ListedIsSpared
CHECK_DEADLOCK FALSE
