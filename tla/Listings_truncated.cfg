SPECIFICATION Spec
CONSTANTS
  Kinds = {"github", "gitlab"}
  Ids = {1, 2, 3}
  PAGE = 1
  MAX_PAGES = 2
  MaxTime = 1
  MaxMoves = 1
INVARIANT TruncatedMeansTheCeiling
CHECK_DEADLOCK FALSE
