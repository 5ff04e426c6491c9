SPECIFICATION FairSpec
CONSTANTS
  Callers = {c1, c2}
  MaxReconnects = 1
  RuntimeStops = TRUE
  MaxRuns = 1
  MaxSessions = 2
PROPERTIES DisconnectReturns FirstConnectReturns DropEndsWorker
CHECK_DEADLOCK FALSE
