\* Both transports, with and without InboundWaitACK, the retry limits of the code.
SPECIFICATION FairSpec
CONSTANTS
    HideInboundPort = TRUE
    RetryAttempts = 5
    RetryAttemptsNoACK = 2
    PinLimit = 1
INVARIANTS
  AnsweredIsHungUp
  ActiveIsEstablished
  ReleasedAtEnd
  FinalIsLast
PROPERTIES
  ImplementsSipLeg
  CallEnds
CHECK_DEADLOCK FALSE
