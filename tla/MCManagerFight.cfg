CONSTANTS
  Positions = {0, 100}
  Modes = {"persistent", "poll", "command"}
  Automating = TRUE
  Invert = FALSE
  Reliable = TRUE
  ActionsCap = 2
  ControlCap = 1
  Budget <- SafeBudget
SPECIFICATION Spec
INVARIANT AutoNeverFightsUser
CHECK_DEADLOCK FALSE
