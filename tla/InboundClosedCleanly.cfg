\* A call that was answered and ends without a BYE.
SPECIFICATION Spec
CONSTANTS
    HideInboundPort = FALSE
    RetryAttempts = 5
    RetryAttemptsNoACK = 2
    PinLimit = 1
INVARIANT ClosedCleanly
CHECK_DEADLOCK FALSE
