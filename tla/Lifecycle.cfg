\* A signal while calls come and go.
SPECIFICATION FairSpec
CONSTANTS
  In = {i1, i2}
  Out = {o1}
INVARIANTS
  DrainSparesCalls
  OutboundEnds
PROPERTY ProcessExits
CHECK_DEADLOCK FALSE
