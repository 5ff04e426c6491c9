SPECIFICATION FairChatSpec
CONSTANTS
  Callers = {c1}
  Task = c1
  MaxReconnects = 2
  RuntimeStops = FALSE
  MaxRuns = 1
  MaxSessions = 3
  Capacity = 2
  MaxOthers = 3
INVARIANTS NothingLeft BeliefRight
PROPERTIES LossIsLearnt LostEventsEndChat
CHECK_DEADLOCK FALSE
