CONSTANTS
  Positions = {0, 100}
  Modes = {"persistent", "poll", "command"}
  Automating = FALSE
  Invert = FALSE
  Reliable = FALSE
  ActionsCap = 1
  ControlCap = 1
  Budget <- LiveBudget
SPECIFICATION FairSpec
PROPERTIES
  MovementEnds
  CommandsTaken
  AvailabilityFollows
  IdleLinkDropped
  CancelExits
CHECK_DEADLOCK FALSE
