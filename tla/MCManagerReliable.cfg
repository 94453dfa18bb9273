CONSTANTS
  Positions = {0, 50, 100}
  Modes = {"persistent", "poll", "command"}
  Automating = TRUE
  Invert = TRUE
  Reliable = TRUE
  ActionsCap = 2
  ControlCap = 1
  Budget <- ReliableBudget
SPECIFICATION Spec
INVARIANTS
  RestingStateTrue
PROPERTIES
  OverrideOnlyForOthers
CHECK_DEADLOCK FALSE
