\* Two inbound calls, two outbound ones, or one of each, under tags of their own or shared.
SPECIFICATION DispatchFairSpec
CONSTANTS
  Calls = {c1, c2}
  Callees = {o1, o2}
  Parties = {{c1, c2}, {c1, o1}, {o1, o2}}
  Tags = {o1, o2}
  NoCall = NoCall
INVARIANTS
  ServedIsRegistered
  EntryIsLive
  OwnRequests
  CalleeIsFound
PROPERTIES
  StopEnds
  ByeEnds
  ServiceStops
CHECK_DEADLOCK FALSE
