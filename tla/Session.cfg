SPECIFICATION Spec
CONSTANTS
  Sends = {s1}
  FrameKinds <- AllFrames
  PingInterval = 2
  PongTimeout = 1
  WriteTimeout = 1
  RequestTimeout = 2
  MaxFrames = 3
  MaxInbox = 2
  MaxTime = 7
INVARIANTS DeadPeerNoticed LivePeerKept SendAcksAgree
PROPERTIES ImplementsDelivery
CHECK_DEADLOCK FALSE
