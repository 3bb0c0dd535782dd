SPECIFICATION FairSpec
CONSTANTS
    Transfers = {x}
INVARIANTS
  CleanIsDelivered
  EndIsReported
PROPERTIES
  ImplementsReport
  KeepAliveRepairs
  UpdatesReturn
CHECK_DEADLOCK FALSE
