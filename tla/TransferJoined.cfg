\* What a joined request answers.
SPECIFICATION Spec
CONSTANTS
  Reqs = {r1, r2}
  Targets = {t1}
  NoReq = NoReq
  Outbound = FALSE
  DialtoneReqs = {r1}
  Bare = {}
INVARIANT AnsweredMeansTransferred
CHECK_DEADLOCK FALSE
