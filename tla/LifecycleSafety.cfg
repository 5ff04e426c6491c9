SPECIFICATION Spec
CONSTANTS
  Callers = {c1, c2}
  MaxReconnects = 2
  RuntimeStops = FALSE
  MaxRuns = 2
  MaxSessions = 3
SYMMETRY Symmetry
INVARIANTS TypeOK OneWorker ConnectedIffSession ReadyIsRecent DisconnectAwaitsCleanup
PROPERTIES DestroyIsFinal EventOrder ImplementsConnection
CHECK_DEADLOCK FALSE
