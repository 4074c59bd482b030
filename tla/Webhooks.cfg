SPECIFICATION FairSpec
CONSTANTS
  Events = {e1, e2}
  Telling = {e1}
  Stamped = {e1}
  Handlers = {h1, h2}
  Admins = {a1}
  RETRY_WINDOW = 1
  REQUEST_TIME = 1
  DELIVERY_RETENTION = 2
  ATTEMPTS = 3
  MaxTime = 5
  MaxSends = 2
  MaxFaults = 1
  MaxSecrets = 2
INVARIANTS HandledOnce
PROPERTIES HeardIsApplied KeepsEventLife
CHECK_DEADLOCK FALSE
