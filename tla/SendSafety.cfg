SPECIFICATION Spec
CONSTANTS
  Sends = {s1, s2}
  MaxInFlight = 1
  MaxSessions = 2
SYMMETRY Symmetry
INVARIANTS TypeOK PermitsConserved QueueHasRoom NeverReplayed HonestOutcome NoOrphan
PROPERTIES ImplementsConnection
CHECK_DEADLOCK FALSE
