\* The RPC dials itself or not; five INVITEs at most, as in Invite.
SPECIFICATION FairSpec
CONSTANTS
    HasCredentials = TRUE
    AuthTries = 5
INVARIANTS
  EstablishedIsHungUp
  ByeFollowsAck
  ReleasedAtEnd
  ErrorIsReported
PROPERTIES
  ImplementsSipLeg
  CallEnds
CHECK_DEADLOCK FALSE
