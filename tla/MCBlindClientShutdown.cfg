CONSTANTS
  Callers = {m}
  Owner = m
  Shutdown = s
  OnDemand = FALSE
  MaxLinks = 3
  MaxCalls = 3
SPECIFICATION Spec
INVARIANT NoLinkAfterShutdown
CHECK_DEADLOCK FALSE
