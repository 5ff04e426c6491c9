SPECIFICATION Spec
CONSTANTS
  MaxU8 = 3
  MaxU32 = 7
  MaxI64 = 15
  Bodies <- FirstBodies
  Keys <- AllKeys
  Values <- Written
  MaxEdits = 2
  Calls <- SomeCalls
INVARIANTS ObjectAcceptedIfSuccess SpellingIrrelevant DataUntouched AckNamesPush ReceivedAsSent
CHECK_DEADLOCK FALSE
