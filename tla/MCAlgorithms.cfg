\* Each of the pure algorithms against what it should compute.
SPECIFICATION Spec
CONSTANTS
  Positions = {0, 50, 100}
  MaxSamples = 6
  Day = 8
  Week = 2
  Schedules <- RegularSchedules
  Suns <- MCSuns
  Steps <- AllSteps
  Deadbands <- SomeDeadbands
  Wants <- SomeWants
  Starts <- SomeStarts
  Nil = Nil
  Files <- MCFiles
  Structs <- MCStructs
  Requests <- MCRequests
  Ranges <- MCRanges
  Reports <- MCReports
  MaxFlight = 2
INVARIANTS
  SettledIffStable
  AsleepAfterSunset
  AtRestIsNear
  AcceptedIsSound
  KeysHonoured
  CommandsUnderstood
  ReportsUnderstood
PROPERTIES
  AlarmsRing
  RampRises
  NormalizedOnce
\* Nothing follows a rejected or a started configuration.
CHECK_DEADLOCK FALSE
