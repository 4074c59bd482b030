SPECIFICATION Spec
CONSTANTS
  Admins = {a1}
  Direct = {}
  Depths = {3}
  Window = 2
  Margin = 0
  ATTEMPTS = 2
  MaxDays = 3
  MaxAsks = 1
  MaxFails = 1
PROPERTIES GreenMeansIngested
CHECK_DEADLOCK FALSE
