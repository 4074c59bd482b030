SPECIFICATION MCSpec
CONSTANTS
  Parts = {"template", "engines", "dora", "notes", "board",
           "rollouts", "standing", "grid"}
INVARIANTS EnginesAreSound ReportsAreTheStores GridIsHonest
CHECK_DEADLOCK FALSE
