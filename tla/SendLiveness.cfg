SPECIFICATION FairSpec
CONSTANTS
  Sends = {s1}
  MaxInFlight = 1
  MaxSessions = 3
PROPERTIES SendsReturn PermitsReturn DisconnectedSendsFail
CHECK_DEADLOCK FALSE
