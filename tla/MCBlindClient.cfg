CONSTANTS
  Callers = {m, c}
  Owner = m
  Shutdown = s
  OnDemand = TRUE
  MaxLinks = 2
  MaxCalls = 3
SPECIFICATION FairSpec
INVARIANTS
  ConnectedIsLoggedIn
  LinksAccounted
PROPERTIES
  CommandsAreLoggedIn
  EverythingReturns
CHECK_DEADLOCK FALSE
