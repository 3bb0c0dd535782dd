\* A call with an agent and a SIP participant of another node.
SPECIFICATION FairRoomSpec
CONSTANTS
  Calls = {v1}
  Others = {agent, gw}
  SipOthers = {gw}
INVARIANT NothingEarly
PROPERTIES
  SipUnblocks
  CloseSilences
  TracksMixed
CHECK_DEADLOCK FALSE
