SPECIFICATION MCSpec
CONSTANTS
  Parts = {"report", "navigation", "catalogue", "queue", "rows", "source", "session", "jobs"}
  Callers = {c1, c2}
  Filters = {"f1", "f2"}
  Layouts = {"l1", "l2"}
  Windows = {0, 1}
  MaxClicks = 3
  Slugs = {"s1", "s2", "s3"}
  Bases = {"dashboard", "dora"}
  MaxSources = 2
  MaxMoves = 3
  Tabs = {"env", "repo"}
  TableRows = {1, 2}
  MaxVersion = 2
  Attempts = 2
  JOB_SCAN_DEPTH = 3
  LIST_LIMIT = 1
  MaxTime = 5
  Owners = {"o1", "o2"}
  Repos = {"r1", "r2"}
  Trackers = {"t1"}
  Offered = {"x"}
  Unlisted = {"y"}
  Users = {"u1", "u2"}
  Names = {"n1", "n2"}
  Modes = {"light", "dark"}
  Public = FALSE
  Sources = {"s1"}
  MaxStarts = 2
  MaxFaults = 1
  MaxCalls = 2
  MaxEdits = 2
SYMMETRY CallerSymmetry
INVARIANTS ScreenIsTheAddress AnswersAreCurrent SavedIsUsable
PROPERTIES FormsTouchOnly QuietLoadIsWhole
CHECK_DEADLOCK FALSE
