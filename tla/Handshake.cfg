SPECIFICATION Spec
CONSTANTS
  MaxU8 = 3
  MaxU32 = 7
  MaxI64 = 15
  ConnectTimeout = 4
  WriteTimeout = 2
  Texts <- Said
  MaxFrames = 3
  MaxTime = 6
INVARIANTS EndsInTime AuthenticatedByAnswer RejectionIsSaid
CHECK_DEADLOCK FALSE
