CONSTANTS
  Cfgs <- MCCfgs
  Profiles = {35, 60}
  Deadband = 5
  Step = 10
  MaxMovesPerHour = 2
  Hour = 4
  MinMoveInterval = 1
  OverrideTimeout = 2
  Recompute = 2
  Disturbances = 1
SPECIFICATION FairSpec
INVARIANTS
  MovesBounded
PROPERTIES
  HysteresisHolds
  
CHECK_DEADLOCK FALSE
