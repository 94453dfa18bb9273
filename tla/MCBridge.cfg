\* The goroutines that report, two connections, a broker that may forget.
SPECIFICATION FairSpec
CONSTANTS
  Blinds = {b1}
  MaxConnects = 2
  MaxReports = 2
INVARIANTS
  AvailabilityShown
  GoneIsUnavailable
PROPERTIES
  RunReturns
  EntitiesRestored
\* Run returns.
CHECK_DEADLOCK FALSE
