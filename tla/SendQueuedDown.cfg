SPECIFICATION Spec
CONSTANTS
  Sends = {s1, s2}
  MaxInFlight = 1
  MaxSessions = 2
SYMMETRY Symmetry
INVARIANTS NeverQueuedWhileDisconnected
CHECK_DEADLOCK FALSE
