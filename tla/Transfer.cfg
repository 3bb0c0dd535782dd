\* Two requests for one target, both with a dial tone; the NOTIFY of r1 carries no id.
SPECIFICATION FairSpec
CONSTANTS
  Reqs = {r1, r2}
  Targets = {t1}
  NoReq = NoReq
  Outbound = FALSE
  DialtoneReqs = {r1, r2}
  Bare = {r1}
INVARIANTS
  OneAttemptPerTarget
  SuccessIsNotified
  RoomAudioRestored
PROPERTIES
  ReadsOwnResult
  TransfersEnd
CHECK_DEADLOCK FALSE
