SPECIFICATION Spec
CONSTANTS
  Callers = {c1, c2}
  MaxReconnects = 1
  RuntimeStops = TRUE
  MaxRuns = 2
  MaxSessions = 2
INVARIANTS ConnectedMeansWorker
CHECK_DEADLOCK FALSE
