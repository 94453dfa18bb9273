CONSTANTS
  Positions = {0, 100}
  Modes = {"persistent", "poll", "command"}
  Automating = TRUE
  Invert = FALSE
  Reliable = FALSE
  ActionsCap = 1
  ControlCap = 1
  Budget <- SafeBudget
SPECIFICATION Spec
INVARIANTS
  TypeOK
  TimersArmed
  ConnectedShownOnline
  LinkDroppedFirst
PROPERTIES
  ImplementsCover
CHECK_DEADLOCK FALSE
