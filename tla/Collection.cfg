SPECIFICATION Spec
CONSTANTS
  Admins = {a1, a2}
  Direct = {d1}
  Depths = {3}
  Window = 2
  Margin = 0
  ATTEMPTS = 2
  MaxDays = 3
  MaxAsks = 2
  MaxFails = 2
INVARIANTS AcceptedIsRead DepthIsKept
PROPERTIES DeepRunIsWhole
SYMMETRY AdminSymmetry
CHECK_DEADLOCK FALSE
