SPECIFICATION MCSpec
CONSTANTS
  Parts = {"runs", "accounts", "throttle", "settings", "registry", "webhook secret", "defaults",
           "environment rules", "version rules", "addresses", "readings", "changelogs", "quota", "budget"}
  Ids = {i1}
  Writers = {w1, w2}
  SameStamp = FALSE
  Reruns = FALSE
  MaxTime = 4
  Users = {u1, u2}
  MaxTokens = 2
  Emails = {"e1", "e2"}
  Ips = {"i1"}
  EMAIL_LIMIT = 2
  IP_LIMIT = 3
  WINDOW = 2
  PRUNE_AT = 2
  Jobs = {"collect-all"}
  Patterns = {"p1", "p2"}
  Fallback = "p1"
  MaxFaults = 1
  Sources = {"s1"}
  Trackers = {"t1"}
  MaxSecrets = 3
  Providers = {"i1", "i2", "i3"}
  Promotes = TRUE
  EnvRules = {"r1"}
  VersionRules = {"v1"}
  TicketRules = {"t1"}
  UrlRules = {"u1"}
  Declared = {"d1", "d2"}
  Declarations = {"i1", "i2"}
  MaxKeys = 3
  Envs <- MCEnvs
  Claimed = {"e1"}
  Rules <- MCRules
  Versions = {"v1", "v2"}
  MaxDeployments = 1
  Last = 3
  Buckets = {"core"}
  BudgetBucket = "core"
  MaxCalls = 2
  MaxWindows = 2
  Batch = 1
  MaxCrashes = 1
SYMMETRY WriterSymmetry
INVARIANTS EveryRunHonest OldSessionsAreClosed SettledStateIsExact SourcesLeaveNothing SecretFollowsSwitch
PROPERTIES SettledStays UndoneOnlyByRace NeverBlanked RepairedByReading AccountsAreKept BrokenOnlyByRace HistoryIsFinal QuotaIsKept
CHECK_DEADLOCK FALSE
