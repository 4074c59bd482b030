SPECIFICATION Spec
CONSTANTS
  Events = {e1}
  Telling = {e1}
  Stamped = {e1}
  Handlers = {h1}
  Admins = {}
  RETRY_WINDOW = 1
  REQUEST_TIME = 1
  DELIVERY_RETENTION = 2
  ATTEMPTS = 3
  MaxTime = 2
  MaxSends = 2
  MaxFaults = 1
  MaxSecrets = 1
INVARIANTS DuplicateIsHandled
CHECK_DEADLOCK FALSE
