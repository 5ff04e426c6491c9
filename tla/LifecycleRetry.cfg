SPECIFICATION Spec
CONSTANTS
  Callers = {c1, c2}
  MaxReconnects = 1
  RuntimeStops = FALSE
  MaxRuns = 2
  MaxSessions = 2
INVARIANTS RetryIsNewAttempt
CHECK_DEADLOCK FALSE
