------------------------- MODULE OutboundCallProofs -------------------------
(***************************************************************************)
(* The safety properties of OutboundCall, for every number of INVITEs and   *)
(* with credentials or without.                                            *)
(*                                                                         *)
(* The inductive invariant says who holds the two locks, that a call that  *)
(* is not registered yet is nobody's business, what a close has released   *)
(* when it is over, and how many BYEs its leg has seen.                    *)
(***************************************************************************)
EXTENDS OutboundCall, TLAPS

\* ConnectSIP holds c.mu.
Holds == {"invite", "inviteErr", "inviteBye", "connectErr", "answer", "index", "ack", "dtmf",
          "connect"}

\* newCall has not registered the call: nobody else can know of it.
Early == {"media", "join", "register"}

LockInv ==
    /\ pc \in Holds => mu = "dial" /\ closeAt = "idle"
    /\ closeAt # "idle" => mu # "free" /\ stopped
    /\ mu # "free" /\ closeAt = "idle" => pc \in Holds
    /\ ccmu = "invite" => pc = "invite"
    /\ ccmu = "bye" => closeAt = "byeWait" \/ pc = "inviteBye"

EarlyInv ==
    /\ pc \in Early => /\ ~stopped /\ mu = "free" /\ ~registered /\ ~started
                       /\ stop \notin {"close", "wait"}
    /\ pc \in Early \cup {"dial", "invite"} =>
          leg = "none" /\ ~accepted /\ byes = 0 /\ ~noTag
    /\ pc \in Early \cup {"dial", "invite", "inviteErr", "answer", "index"} =>
          bye = "none" /\ byes = 0 /\ ~indexed
    /\ pc \in {"media", "join"} => room = "nil"

\* What a close has done once it is over, and who is sure of a close.
CloseInv ==
    /\ sessionEnds = IF stopped /\ closeAt = "idle" THEN 1 ELSE 0
    /\ stopped => media = "closed" /\ room # "joined"
    /\ stopped /\ closeAt = "idle" => ~registered /\ ~indexed /\ ~topic
    /\ pc = "index" => ~stopped
    /\ pc \in {"end", "setError", "waitClosing"} \/ (pc = "ensure" /\ dialFailed) => stopped
    /\ pc \in Holds /\ stopped => dialedClosed
    /\ pc \in Early \cup {"dial", "invite", "answer", "index", "ack", "dtmf", "connect",
                       "report"} => ~dialFailed

\* CloseLeg has run.
LegClosed == stopped /\ closeAt # "leg"

ByeInv ==
    /\ leg = "up" \/ byes > 0 => accepted
    /\ byes > 0 /\ leg = "up" => closing
    /\ closeAt \in {"byeWait", "unregister"} => leg = "none" \/ byes > 0
    /\ ~LegClosed => byes <= 1 /\ (byes = 1 => noTag)
    /\ pc = "inviteErr" /\ leg = "up" => noTag
    /\ leg = "up" /\ pc \notin {"answer", "index", "ack"} => ack # "none" \/ rejected \/ noTag
    /\ accepted /\ leg = "none" => byes > 0 \/ bye \in {"close", "done"}
    /\ accepted /\ LegClosed /\ ~dialedClosed => byes > 0 \/ bye # "none"

ReportInv == pc = "end" /\ report # "joined" => (report = "error" <=> infoError)

\* The dialling has failed, and ConnectSIP has not closed the call for it yet.
Failing == {"inviteErr", "inviteBye", "connectErr"}

\* What an error that is recorded comes from, and what is recorded.
CauseInv ==
    /\ infoError => timedOut \/ dialFailed \/ pc = "setError"
    /\ timedOut => infoError
    /\ pc \in Failing => dialFailed
    /\ dialFailed /\ resp # "busy" /\ ~dialedClosed /\ pc \notin Failing => infoError

\* A panic stops the process, with whatever was under way.
IInv ==
    /\ TypeOK /\ ByeFollowsAck
    /\ Alive => LockInv /\ EarlyInv /\ CloseInv /\ ByeInv /\ ReportInv /\ CauseInv

------------------------------------------------------------------------------
LEMMA InitIInv == Init => IInv
<1> SUFFICES ASSUME Init PROVE IInv
  OBVIOUS
<1> USE DEF Init
<1>1. TypeOK
  <2>1. StatesOK
    BY DEF StatesOK, Closers
  <2>2. CountersOK
    BY OutboundAssumption DEF CountersOK
  <2>3. FlagsOK
    BY DEF FlagsOK
  <2> QED BY <2>1, <2>2, <2>3 DEF TypeOK
<1>2. ByeFollowsAck /\ LockInv /\ EarlyInv
  BY DEF ByeFollowsAck, LockInv, EarlyInv, Holds, Early
<1>3. CloseInv /\ ByeInv /\ ReportInv /\ CauseInv
  BY DEF CloseInv, ByeInv, ReportInv, CauseInv, Failing, LegClosed, Holds
<1> QED BY <1>1, <1>2, <1>3 DEF IInv

\* The flags stay flags.
LEMMA StepFlags == FlagsOK /\ [Next]_vars => FlagsOK'
<1> SUFFICES ASSUME FlagsOK, [Next]_vars PROVE FlagsOK'
  OBVIOUS
<1> USE DEF FlagsOK,
        reportVars, closeVars, indexVars, envVars, legVars, inviteVars, flagVars, others
<1>1. CASE MediaFails
  BY <1>1 DEF MediaFails, Panic
<1>2. CASE MediaOpens
  BY <1>2 DEF MediaOpens
<1>3. CASE JoinRoom
  <2>1. topic' \in BOOLEAN
    BY <1>3 DEF JoinRoom
  <2>2. dialFailed' \in BOOLEAN
    BY <1>3 DEF JoinRoom
  <2>3. stopped' \in BOOLEAN
    BY <1>3 DEF JoinRoom
  <2>4. infoError' \in BOOLEAN
    BY <1>3 DEF JoinRoom
  <2>5. /\ ctxDone' \in BOOLEAN /\ started' \in BOOLEAN /\ dialedClosed' \in BOOLEAN
        /\ registered' \in BOOLEAN /\ indexed' \in BOOLEAN
        /\ disconnected' \in BOOLEAN /\ mediaTimeout' \in BOOLEAN /\ accepted' \in BOOLEAN
        /\ noTag' \in BOOLEAN /\ rejected' \in BOOLEAN
        /\ transferred' \in BOOLEAN
        /\ timedOut' \in BOOLEAN /\ crossed' \in BOOLEAN
    BY <1>3 DEF JoinRoom
  <2> QED BY <2>1, <2>2, <2>3, <2>4, <2>5
<1>4. CASE Register
  BY <1>4 DEF Register
<1>5. CASE SendInvite
  BY <1>5 DEF SendInvite, Panic
<1>6. CASE InviteOk
  <2>1. accepted' \in BOOLEAN
    BY <1>6 DEF InviteOk
  <2>2. noTag' \in BOOLEAN
    BY <1>6 DEF InviteOk
  <2>3. dialFailed' \in BOOLEAN
    BY <1>6 DEF InviteOk
  <2>4. /\ infoError' \in BOOLEAN /\ ctxDone' \in BOOLEAN /\ stopped' \in BOOLEAN
        /\ started' \in BOOLEAN /\ dialedClosed' \in BOOLEAN
        /\ registered' \in BOOLEAN /\ indexed' \in BOOLEAN /\ topic' \in BOOLEAN
        /\ disconnected' \in BOOLEAN /\ mediaTimeout' \in BOOLEAN
        /\ rejected' \in BOOLEAN /\ transferred' \in BOOLEAN
        /\ timedOut' \in BOOLEAN /\ crossed' \in BOOLEAN
    BY <1>6 DEF InviteOk
  <2> QED BY <2>1, <2>2, <2>3, <2>4
<1>7. CASE InviteAuth
  BY <1>7 DEF InviteAuth, Panic
<1>8. CASE InviteFails
  BY <1>8 DEF InviteFails
<1>39. CASE InviteCancelled
  BY <1>39 DEF InviteCancelled
<1>40. CASE SetErrStatus
  BY <1>40 DEF SetErrStatus
<1>9. CASE InviteErr
  BY <1>9 DEF InviteErr, HangUp, Panic, closing
<1>10. CASE InviteByeDone
  BY <1>10 DEF InviteByeDone
<1>11. CASE Answer
  <2>1. rejected' \in BOOLEAN
    BY <1>11 DEF Answer, Fail
  <2>2. dialFailed' \in BOOLEAN
    BY <1>11 DEF Answer, Fail
  <2>3. /\ infoError' \in BOOLEAN /\ ctxDone' \in BOOLEAN /\ stopped' \in BOOLEAN
        /\ started' \in BOOLEAN /\ dialedClosed' \in BOOLEAN
        /\ registered' \in BOOLEAN /\ indexed' \in BOOLEAN /\ topic' \in BOOLEAN
        /\ disconnected' \in BOOLEAN /\ mediaTimeout' \in BOOLEAN
        /\ accepted' \in BOOLEAN /\ noTag' \in BOOLEAN
        /\ timedOut' \in BOOLEAN /\ crossed' \in BOOLEAN
        /\ transferred' \in BOOLEAN
    BY <1>11 DEF Answer, Fail
  <2> QED BY <2>1, <2>2, <2>3
<1>12. CASE Index
  BY <1>12 DEF Index
<1>13. CASE Ack
  <2>1. timedOut' \in BOOLEAN /\ crossed' \in BOOLEAN
    BY <1>13 DEF Ack, Panic, Fail
  <2>2. dialFailed' \in BOOLEAN
    BY <1>13 DEF Ack, Panic, Fail
  <2>3. /\ infoError' \in BOOLEAN /\ ctxDone' \in BOOLEAN /\ stopped' \in BOOLEAN
        /\ started' \in BOOLEAN /\ dialedClosed' \in BOOLEAN
        /\ registered' \in BOOLEAN /\ indexed' \in BOOLEAN /\ topic' \in BOOLEAN
        /\ disconnected' \in BOOLEAN /\ mediaTimeout' \in BOOLEAN
        /\ accepted' \in BOOLEAN /\ noTag' \in BOOLEAN /\ rejected' \in BOOLEAN
        /\ transferred' \in BOOLEAN
    BY <1>13 DEF Ack, Panic, Fail
  <2> QED BY <2>1, <2>2, <2>3
<1>14. CASE WriteDTMF
  <2>1. dialFailed' \in BOOLEAN
    BY <1>14 DEF WriteDTMF, Fail
  <2>2. /\ infoError' \in BOOLEAN /\ ctxDone' \in BOOLEAN /\ stopped' \in BOOLEAN
        /\ started' \in BOOLEAN /\ dialedClosed' \in BOOLEAN
        /\ registered' \in BOOLEAN /\ indexed' \in BOOLEAN /\ topic' \in BOOLEAN
        /\ disconnected' \in BOOLEAN /\ mediaTimeout' \in BOOLEAN
        /\ accepted' \in BOOLEAN /\ noTag' \in BOOLEAN /\ rejected' \in BOOLEAN
        /\ transferred' \in BOOLEAN
        /\ timedOut' \in BOOLEAN /\ crossed' \in BOOLEAN
    BY <1>14 DEF WriteDTMF, Fail
  <2> QED BY <2>1, <2>2
<1>15. CASE Connect
  BY <1>15 DEF Connect
<1>16. CASE ConnectErr
  <2>1. stopped' \in BOOLEAN
    BY <1>16 DEF ConnectErr, BeginClose
  <2>2. infoError' \in BOOLEAN
    BY <1>16 DEF ConnectErr, BeginClose
  <2>3. /\ dialFailed' \in BOOLEAN /\ ctxDone' \in BOOLEAN /\ started' \in BOOLEAN
        /\ dialedClosed' \in BOOLEAN /\ registered' \in BOOLEAN
        /\ indexed' \in BOOLEAN /\ topic' \in BOOLEAN /\ disconnected' \in BOOLEAN
        /\ mediaTimeout' \in BOOLEAN /\ accepted' \in BOOLEAN
        /\ noTag' \in BOOLEAN /\ rejected' \in BOOLEAN
        /\ timedOut' \in BOOLEAN /\ crossed' \in BOOLEAN
        /\ transferred' \in BOOLEAN
    BY <1>16 DEF ConnectErr, BeginClose
  <2> QED BY <2>1, <2>2, <2>3
<1>17. CASE ReportActive
  BY <1>17 DEF ReportActive, Panic
<1>18. CASE DialReturns
  BY <1>18 DEF DialReturns
<1>19. CASE WaitClose
  <2>1. stopped' \in BOOLEAN
    BY <1>19 DEF WaitClose, BeginClose
  <2>2. infoError' \in BOOLEAN
    BY <1>19 DEF WaitClose, BeginClose
  <2>3. /\ dialFailed' \in BOOLEAN /\ ctxDone' \in BOOLEAN /\ started' \in BOOLEAN
        /\ dialedClosed' \in BOOLEAN /\ registered' \in BOOLEAN
        /\ indexed' \in BOOLEAN /\ topic' \in BOOLEAN /\ disconnected' \in BOOLEAN
        /\ mediaTimeout' \in BOOLEAN /\ accepted' \in BOOLEAN
        /\ noTag' \in BOOLEAN /\ rejected' \in BOOLEAN
        /\ timedOut' \in BOOLEAN /\ crossed' \in BOOLEAN
        /\ transferred' \in BOOLEAN
    BY <1>19 DEF WaitClose, BeginClose
  <2> QED BY <2>1, <2>2, <2>3
<1>20. CASE WaitReturns
  BY <1>20 DEF WaitReturns
<1>21. CASE CloseLeg
  BY <1>21 DEF CloseLeg, Panic, HangUp
<1>22. CASE CloseByeDone
  BY <1>22 DEF CloseByeDone
<1>23. CASE Unregister
  <2>1. registered' \in BOOLEAN /\ indexed' \in BOOLEAN /\ topic' \in BOOLEAN
    BY <1>23 DEF Unregister
  <2>2. /\ dialFailed' \in BOOLEAN /\ infoError' \in BOOLEAN /\ ctxDone' \in BOOLEAN
        /\ stopped' \in BOOLEAN /\ started' \in BOOLEAN /\ dialedClosed' \in BOOLEAN
        /\ disconnected' \in BOOLEAN /\ mediaTimeout' \in BOOLEAN /\ accepted' \in BOOLEAN
        /\ noTag' \in BOOLEAN /\ rejected' \in BOOLEAN /\ transferred' \in BOOLEAN
        /\ timedOut' \in BOOLEAN /\ crossed' \in BOOLEAN
    BY <1>23 DEF Unregister
  <2> QED BY <2>1, <2>2
<1>24. CASE AcceptBye
  BY <1>24 DEF AcceptBye
<1>25. CASE ByeCloses
  <2>1. stopped' \in BOOLEAN
    BY <1>25 DEF ByeCloses, BeginClose
  <2>2. infoError' \in BOOLEAN
    BY <1>25 DEF ByeCloses, BeginClose
  <2>3. /\ dialFailed' \in BOOLEAN /\ ctxDone' \in BOOLEAN /\ started' \in BOOLEAN
        /\ dialedClosed' \in BOOLEAN /\ registered' \in BOOLEAN
        /\ indexed' \in BOOLEAN /\ topic' \in BOOLEAN /\ disconnected' \in BOOLEAN
        /\ mediaTimeout' \in BOOLEAN /\ accepted' \in BOOLEAN
        /\ noTag' \in BOOLEAN /\ rejected' \in BOOLEAN
        /\ timedOut' \in BOOLEAN /\ crossed' \in BOOLEAN
        /\ transferred' \in BOOLEAN
    BY <1>25 DEF ByeCloses, BeginClose
  <2> QED BY <2>1, <2>2, <2>3
<1>26. CASE StopSwaps
  <2>1. registered' \in BOOLEAN
    BY <1>26 DEF StopSwaps
  <2>2. indexed' \in BOOLEAN
    BY <1>26 DEF StopSwaps
  <2>3. /\ dialFailed' \in BOOLEAN /\ infoError' \in BOOLEAN /\ ctxDone' \in BOOLEAN
        /\ stopped' \in BOOLEAN /\ started' \in BOOLEAN
        /\ dialedClosed' \in BOOLEAN /\ topic' \in BOOLEAN /\ disconnected' \in BOOLEAN
        /\ mediaTimeout' \in BOOLEAN /\ accepted' \in BOOLEAN
        /\ noTag' \in BOOLEAN /\ rejected' \in BOOLEAN
        /\ timedOut' \in BOOLEAN /\ crossed' \in BOOLEAN
        /\ transferred' \in BOOLEAN
    BY <1>26 DEF StopSwaps
  <2> QED BY <2>1, <2>2, <2>3
<1>27. CASE StopCloses
  <2>1. stopped' \in BOOLEAN
    BY <1>27 DEF StopCloses, BeginClose
  <2>2. infoError' \in BOOLEAN
    BY <1>27 DEF StopCloses, BeginClose
  <2>3. /\ dialFailed' \in BOOLEAN /\ ctxDone' \in BOOLEAN /\ started' \in BOOLEAN
        /\ dialedClosed' \in BOOLEAN /\ registered' \in BOOLEAN
        /\ indexed' \in BOOLEAN /\ topic' \in BOOLEAN /\ disconnected' \in BOOLEAN
        /\ mediaTimeout' \in BOOLEAN /\ accepted' \in BOOLEAN
        /\ noTag' \in BOOLEAN /\ rejected' \in BOOLEAN
        /\ timedOut' \in BOOLEAN /\ crossed' \in BOOLEAN
        /\ transferred' \in BOOLEAN
    BY <1>27 DEF StopCloses, BeginClose
  <2> QED BY <2>1, <2>2, <2>3
<1>28. CASE StopDone
  BY <1>28 DEF StopDone
<1>29. CASE RPCReturns
  BY <1>29 DEF RPCReturns
<1>30. CASE Respond
  BY <1>30 DEF Respond
<1>31. CASE TransactionFails
  BY <1>31 DEF TransactionFails
<1>32. CASE ByeArrives
  BY <1>32 DEF ByeArrives
<1>33. CASE StopBegins
  BY <1>33 DEF StopBegins
<1>34. CASE TransferHangup
  <2>1. stopped' \in BOOLEAN /\ infoError' \in BOOLEAN
    BY <1>34 DEF TransferHangup, BeginClose
  <2>2. /\ dialFailed' \in BOOLEAN /\ ctxDone' \in BOOLEAN /\ started' \in BOOLEAN
        /\ dialedClosed' \in BOOLEAN /\ registered' \in BOOLEAN
        /\ indexed' \in BOOLEAN /\ topic' \in BOOLEAN /\ disconnected' \in BOOLEAN
        /\ mediaTimeout' \in BOOLEAN /\ accepted' \in BOOLEAN
        /\ noTag' \in BOOLEAN /\ rejected' \in BOOLEAN /\ transferred' \in BOOLEAN
        /\ timedOut' \in BOOLEAN /\ crossed' \in BOOLEAN
    BY <1>34 DEF TransferHangup, BeginClose
  <2> QED BY <2>1, <2>2
<1>35. CASE DeadlineExpires
  BY <1>35 DEF DeadlineExpires
<1>36. CASE RoomDisconnects
  BY <1>36 DEF RoomDisconnects
<1>37. CASE MediaSilence
  BY <1>37 DEF MediaSilence
<1>38. CASE UNCHANGED vars
  BY <1>38 DEF vars
<1> QED BY <1>1, <1>2, <1>3, <1>4, <1>5, <1>6, <1>7, <1>8, <1>9, <1>10, <1>11, <1>12, <1>13,
    <1>14, <1>15, <1>16, <1>17, <1>18, <1>19, <1>20, <1>21, <1>22, <1>23, <1>24, <1>25, <1>26,
    <1>27, <1>28, <1>29, <1>30, <1>31, <1>32, <1>33, <1>34, <1>35, <1>36, <1>37, <1>38, <1>39,
    <1>40
    DEF Next, Dialling, Closing, Serving, Stopping

\* One case per action, and in it one step per part of the invariant.
LEMMA StepIInv == IInv /\ [Next]_vars => IInv'
<1> SUFFICES ASSUME IInv, [Next]_vars PROVE IInv'
  OBVIOUS
<1>f. FlagsOK'
  BY StepFlags DEF IInv, TypeOK
<1> USE OutboundAssumption, <1>f
    DEF IInv, TypeOK, StatesOK, CountersOK, FlagsOK, ByeFollowsAck, LockInv, EarlyInv, CloseInv,
        ByeInv, ReportInv, CauseInv, Failing, LegClosed, Closers, Early, Holds, Alive, closing,
        NoClient,
        reportVars, closeVars, indexVars, envVars, legVars, inviteVars, flagVars, others
<1>1. CASE MediaFails
  BY <1>1 DEF MediaFails, Panic
<1>2. CASE MediaOpens
  BY <1>2 DEF MediaOpens
<1>3. CASE JoinRoom
  <2>1. StatesOK'
    BY <1>3 DEF JoinRoom
  <2>2. CountersOK'
    BY <1>3 DEF JoinRoom
  <2>3. ByeFollowsAck'
    BY <1>3 DEF JoinRoom
  <2>4. Alive' => LockInv'
    BY <1>3 DEF JoinRoom
  <2>5. Alive' => EarlyInv'
    BY <1>3 DEF JoinRoom
  <2>6. Alive' => CloseInv'
    <3>1. CASE room' = "joined" /\ pc' = "register"
      BY <1>3, <3>1 DEF JoinRoom
    <3>2. CASE pc' = "end"
      BY <1>3, <3>2 DEF JoinRoom
    <3> QED BY <1>3, <3>1, <3>2 DEF JoinRoom
  <2>7. Alive' => ByeInv'
    BY <1>3 DEF JoinRoom
  <2>8. Alive' => ReportInv'
    BY <1>3 DEF JoinRoom
  <2>9. Alive' => CauseInv'
    BY <1>3 DEF JoinRoom
  <2> QED BY <2>1, <2>2, <2>3, <2>4, <2>5, <2>6, <2>7, <2>8, <2>9
<1>4. CASE Register
  BY <1>4 DEF Register
<1>5. CASE SendInvite
  BY <1>5 DEF SendInvite, Panic
<1>6. CASE InviteOk
  <2>1. StatesOK'
    BY <1>6 DEF InviteOk
  <2>2. CountersOK'
    BY <1>6 DEF InviteOk
  <2>3. ByeFollowsAck'
    BY <1>6 DEF InviteOk
  <2>4. Alive' => LockInv'
    BY <1>6 DEF InviteOk
  <2>5. Alive' => EarlyInv'
    BY <1>6 DEF InviteOk
  <2>6. Alive' => CloseInv'
    BY <1>6 DEF InviteOk
  <2>7. Alive' => ByeInv'
    BY <1>6 DEF InviteOk
  <2>8. Alive' => ReportInv'
    BY <1>6 DEF InviteOk
  <2>9. Alive' => CauseInv'
    BY <1>6 DEF InviteOk
  <2> QED BY <2>1, <2>2, <2>3, <2>4, <2>5, <2>6, <2>7, <2>8, <2>9
<1>7. CASE InviteAuth
  BY <1>7 DEF InviteAuth, Panic
<1>8. CASE InviteFails
  BY <1>8 DEF InviteFails
<1>39. CASE InviteCancelled
  <2>1. StatesOK'
    BY <1>39 DEF InviteCancelled
  <2>2. CountersOK'
    BY <1>39 DEF InviteCancelled
  <2>3. ByeFollowsAck'
    BY <1>39 DEF InviteCancelled
  <2>4. Alive' => LockInv'
    BY <1>39 DEF InviteCancelled
  <2>5. Alive' => EarlyInv'
    BY <1>39 DEF InviteCancelled
  <2>6. Alive' => CloseInv'
    BY <1>39 DEF InviteCancelled
  <2>7. Alive' => ByeInv'
    BY <1>39 DEF InviteCancelled
  <2>8. Alive' => ReportInv'
    BY <1>39 DEF InviteCancelled
  <2>9. Alive' => CauseInv'
    BY <1>39 DEF InviteCancelled
  <2> QED BY <2>1, <2>2, <2>3, <2>4, <2>5, <2>6, <2>7, <2>8, <2>9
<1>40. CASE SetErrStatus
  <2>1. StatesOK'
    BY <1>40 DEF SetErrStatus
  <2>2. CountersOK'
    BY <1>40 DEF SetErrStatus
  <2>3. ByeFollowsAck'
    BY <1>40 DEF SetErrStatus
  <2>4. Alive' => LockInv'
    BY <1>40 DEF SetErrStatus
  <2>5. Alive' => EarlyInv'
    BY <1>40 DEF SetErrStatus
  <2>6. Alive' => CloseInv'
    BY <1>40 DEF SetErrStatus
  <2>7. Alive' => ByeInv'
    BY <1>40 DEF SetErrStatus
  <2>8. Alive' => ReportInv'
    BY <1>40 DEF SetErrStatus
  <2>9. Alive' => CauseInv'
    BY <1>40 DEF SetErrStatus
  <2> QED BY <2>1, <2>2, <2>3, <2>4, <2>5, <2>6, <2>7, <2>8, <2>9
<1>9. CASE InviteErr
  <2>1. CASE leg = "up" /\ NoClient
    <3>1. StatesOK'
      BY <1>9, <2>1 DEF InviteErr, Panic
    <3>2. CountersOK'
      BY <1>9, <2>1 DEF InviteErr, Panic
    <3>3. ByeFollowsAck'
      BY <1>9, <2>1 DEF InviteErr, Panic
    <3>4. Alive' => LockInv'
      BY <1>9, <2>1 DEF InviteErr, Panic
    <3>5. Alive' => EarlyInv'
      BY <1>9, <2>1 DEF InviteErr, Panic
    <3>6. Alive' => CloseInv'
      BY <1>9, <2>1 DEF InviteErr, Panic
    <3>7. Alive' => ByeInv'
      BY <1>9, <2>1 DEF InviteErr, Panic
    <3>8. Alive' => ReportInv'
      BY <1>9, <2>1 DEF InviteErr, Panic
    <3>9. Alive' => CauseInv'
      BY <1>9, <2>1 DEF InviteErr, Panic
    <3> QED BY <3>1, <3>2, <3>3, <3>4, <3>5, <3>6, <3>7, <3>8, <3>9
  <2>2. CASE leg = "up" /\ ~NoClient
    <3>a. pc = "inviteErr" /\ byes = 0
      BY <1>9 DEF InviteErr
    <3>b. byes' = byes + 1
      BY <1>9, <2>2 DEF InviteErr, HangUp
    <3>c. /\ pc' = "inviteBye"
          /\ UNCHANGED <<panic, mu, reportVars, closeVars, indexVars, envVars, accepted, noTag,
                         inviteVars, flagVars, others>>
      BY <1>9, <2>2 DEF InviteErr
    <3>p. byes' = 1
      BY <3>a, <3>b
    <3>1. CASE closing
      <4>f. ccmu' = "free" /\ leg' = leg
        BY <1>9, <2>2, <3>1 DEF InviteErr, HangUp
      <4>1. StatesOK'
        BY <2>2, <3>a, <3>c, <3>p, <3>1, <4>f
      <4>2. CountersOK'
        BY <2>2, <3>a, <3>c, <3>p, <3>1, <4>f
      <4>3. ByeFollowsAck'
        BY <2>2, <3>a, <3>c, <3>p, <3>1, <4>f
      <4>4. Alive' => LockInv'
        BY <2>2, <3>a, <3>c, <3>p, <3>1, <4>f
      <4>5. Alive' => EarlyInv'
        BY <2>2, <3>a, <3>c, <3>p, <3>1, <4>f
      <4>6. Alive' => CloseInv'
        BY <2>2, <3>a, <3>c, <3>p, <3>1, <4>f
      <4>7. Alive' => ByeInv'
        BY <2>2, <3>a, <3>c, <3>p, <3>1, <4>f
      <4>8. Alive' => ReportInv'
        BY <2>2, <3>a, <3>c, <3>p, <3>1, <4>f
      <4>9. Alive' => CauseInv'
        BY <2>2, <3>a, <3>c, <3>p, <3>1, <4>f
      <4> QED BY <4>1, <4>2, <4>3, <4>4, <4>5, <4>6, <4>7, <4>8, <4>9
    <3>2. CASE ~closing
      <4>f. ccmu' = "bye" /\ leg' = "none"
        BY <1>9, <2>2, <3>2 DEF InviteErr, HangUp
      <4>1. StatesOK'
        BY <2>2, <3>a, <3>c, <3>p, <3>2, <4>f
      <4>2. CountersOK'
        BY <2>2, <3>a, <3>c, <3>p, <3>2, <4>f
      <4>3. ByeFollowsAck'
        BY <2>2, <3>a, <3>c, <3>p, <3>2, <4>f
      <4>4. Alive' => LockInv'
        BY <2>2, <3>a, <3>c, <3>p, <3>2, <4>f
      <4>5. Alive' => EarlyInv'
        BY <2>2, <3>a, <3>c, <3>p, <3>2, <4>f
      <4>6. Alive' => CloseInv'
        BY <2>2, <3>a, <3>c, <3>p, <3>2, <4>f
      <4>7. Alive' => ByeInv'
        BY <2>2, <3>a, <3>c, <3>p, <3>2, <4>f
      <4>8. Alive' => ReportInv'
        BY <2>2, <3>a, <3>c, <3>p, <3>2, <4>f
      <4>9. Alive' => CauseInv'
        BY <2>2, <3>a, <3>c, <3>p, <3>2, <4>f
      <4> QED BY <4>1, <4>2, <4>3, <4>4, <4>5, <4>6, <4>7, <4>8, <4>9
    <3> QED BY <3>1, <3>2
  <2>3. CASE leg = "none"
    <3>1. StatesOK'
      BY <1>9, <2>3 DEF InviteErr
    <3>2. CountersOK'
      BY <1>9, <2>3 DEF InviteErr
    <3>3. ByeFollowsAck'
      BY <1>9, <2>3 DEF InviteErr
    <3>4. Alive' => LockInv'
      BY <1>9, <2>3 DEF InviteErr
    <3>5. Alive' => EarlyInv'
      BY <1>9, <2>3 DEF InviteErr
    <3>6. Alive' => CloseInv'
      BY <1>9, <2>3 DEF InviteErr
    <3>7. Alive' => ByeInv'
      BY <1>9, <2>3 DEF InviteErr
    <3>8. Alive' => ReportInv'
      BY <1>9, <2>3 DEF InviteErr
    <3>9. Alive' => CauseInv'
      BY <1>9, <2>3 DEF InviteErr
    <3> QED BY <3>1, <3>2, <3>3, <3>4, <3>5, <3>6, <3>7, <3>8, <3>9
  <2> QED BY <2>1, <2>2, <2>3 DEF InviteErr
<1>10. CASE InviteByeDone
  BY <1>10 DEF InviteByeDone
<1>11. CASE Answer
  <2>1. StatesOK'
    BY <1>11 DEF Answer, Fail
  <2>2. CountersOK'
    BY <1>11 DEF Answer, Fail
  <2>3. ByeFollowsAck'
    BY <1>11 DEF Answer, Fail
  <2>4. Alive' => LockInv'
    BY <1>11 DEF Answer, Fail
  <2>5. Alive' => EarlyInv'
    BY <1>11 DEF Answer, Fail
  <2>6. Alive' => CloseInv'
    BY <1>11 DEF Answer, Fail
  <2>7. Alive' => ByeInv'
    BY <1>11 DEF Answer, Fail
  <2>8. Alive' => ReportInv'
    BY <1>11 DEF Answer, Fail
  <2>9. Alive' => CauseInv'
    BY <1>11 DEF Answer, Fail
  <2> QED BY <2>1, <2>2, <2>3, <2>4, <2>5, <2>6, <2>7, <2>8, <2>9
<1>12. CASE Index
  BY <1>12 DEF Index
<1>13. CASE Ack
  <2>1. StatesOK'
    BY <1>13 DEF Ack, Panic, Fail
  <2>2. CountersOK'
    BY <1>13 DEF Ack, Panic, Fail
  <2>3. ByeFollowsAck'
    BY <1>13 DEF Ack, Panic, Fail
  <2>4. Alive' => LockInv'
    BY <1>13 DEF Ack, Panic, Fail
  <2>5. Alive' => EarlyInv'
    BY <1>13 DEF Ack, Panic, Fail
  <2>6. Alive' => CloseInv'
    BY <1>13 DEF Ack, Panic, Fail
  <2>7. Alive' => ByeInv'
    BY <1>13 DEF Ack, Panic, Fail
  <2>8. Alive' => ReportInv'
    BY <1>13 DEF Ack, Panic, Fail
  <2>9. Alive' => CauseInv'
    BY <1>13 DEF Ack, Panic, Fail
  <2> QED BY <2>1, <2>2, <2>3, <2>4, <2>5, <2>6, <2>7, <2>8, <2>9
<1>14. CASE WriteDTMF
  <2>1. StatesOK'
    BY <1>14 DEF WriteDTMF, Fail
  <2>2. CountersOK'
    BY <1>14 DEF WriteDTMF, Fail
  <2>3. ByeFollowsAck'
    BY <1>14 DEF WriteDTMF, Fail
  <2>4. Alive' => LockInv'
    BY <1>14 DEF WriteDTMF, Fail
  <2>5. Alive' => EarlyInv'
    BY <1>14 DEF WriteDTMF, Fail
  <2>6. Alive' => CloseInv'
    BY <1>14 DEF WriteDTMF, Fail
  <2>7. Alive' => ByeInv'
    BY <1>14 DEF WriteDTMF, Fail
  <2>8. Alive' => ReportInv'
    BY <1>14 DEF WriteDTMF, Fail
  <2>9. Alive' => CauseInv'
    BY <1>14 DEF WriteDTMF, Fail
  <2> QED BY <2>1, <2>2, <2>3, <2>4, <2>5, <2>6, <2>7, <2>8, <2>9
<1>15. CASE Connect
  BY <1>15 DEF Connect
<1>16. CASE ConnectErr
  <2>1. StatesOK'
    <3>1. CASE stopped
      BY <1>16, <3>1 DEF ConnectErr, BeginClose
    <3>2. CASE ~stopped
      BY <1>16, <3>2 DEF ConnectErr, BeginClose
    <3> QED BY <3>1, <3>2
  <2>2. CountersOK'
    BY <1>16 DEF ConnectErr, BeginClose
  <2>3. ByeFollowsAck'
    BY <1>16 DEF ConnectErr, BeginClose
  <2>4. Alive' => LockInv'
    BY <1>16 DEF ConnectErr, BeginClose
  <2>5. Alive' => EarlyInv'
    BY <1>16 DEF ConnectErr, BeginClose
  <2>6. Alive' => CloseInv'
    BY <1>16 DEF ConnectErr, BeginClose
  <2>7. Alive' => ByeInv'
    BY <1>16 DEF ConnectErr, BeginClose
  <2>8. Alive' => ReportInv'
    BY <1>16 DEF ConnectErr, BeginClose
  <2>9. Alive' => CauseInv'
    <3>1. CASE stopped
      BY <1>16, <3>1 DEF ConnectErr, BeginClose
    <3>2. CASE ~stopped
      BY <1>16, <3>2 DEF ConnectErr, BeginClose
    <3> QED BY <3>1, <3>2
  <2> QED BY <2>1, <2>2, <2>3, <2>4, <2>5, <2>6, <2>7, <2>8, <2>9
<1>17. CASE ReportActive
  <2>1. StatesOK'
    BY <1>17 DEF ReportActive, Panic
  <2>2. CountersOK'
    BY <1>17 DEF ReportActive, Panic
  <2>3. ByeFollowsAck'
    BY <1>17 DEF ReportActive, Panic
  <2>4. Alive' => LockInv'
    BY <1>17 DEF ReportActive, Panic
  <2>5. Alive' => EarlyInv'
    BY <1>17 DEF ReportActive, Panic
  <2>6. Alive' => CloseInv'
    <3>1. CASE room = "closed"
      BY <1>17, <3>1 DEF ReportActive, Panic
    <3>2. CASE room = "joined"
      BY <1>17, <3>2 DEF ReportActive, Panic
    <3> QED BY <1>17, <3>1, <3>2 DEF ReportActive, Panic
  <2>7. Alive' => ByeInv'
    BY <1>17 DEF ReportActive, Panic
  <2>8. Alive' => ReportInv'
    BY <1>17 DEF ReportActive, Panic
  <2>9. Alive' => CauseInv'
    BY <1>17 DEF ReportActive, Panic
  <2> QED BY <2>1, <2>2, <2>3, <2>4, <2>5, <2>6, <2>7, <2>8, <2>9
<1>18. CASE DialReturns
  BY <1>18 DEF DialReturns
<1>19. CASE WaitClose
  <2>1. StatesOK'
    BY <1>19 DEF WaitClose, BeginClose
  <2>2. CountersOK'
    BY <1>19 DEF WaitClose, BeginClose
  <2>3. ByeFollowsAck'
    BY <1>19 DEF WaitClose, BeginClose
  <2>4. Alive' => LockInv'
    BY <1>19 DEF WaitClose, BeginClose
  <2>5. Alive' => EarlyInv'
    BY <1>19 DEF WaitClose, BeginClose
  <2>6. Alive' => CloseInv'
    BY <1>19 DEF WaitClose, BeginClose
  <2>7. Alive' => ByeInv'
    BY <1>19 DEF WaitClose, BeginClose
  <2>8. Alive' => ReportInv'
    BY <1>19 DEF WaitClose, BeginClose
  <2>9. Alive' => CauseInv'
    BY <1>19 DEF WaitClose, BeginClose
  <2> QED BY <2>1, <2>2, <2>3, <2>4, <2>5, <2>6, <2>7, <2>8, <2>9
<1>20. CASE WaitReturns
  BY <1>20 DEF WaitReturns
<1>21. CASE CloseLeg
  <2>g. Alive /\ closeAt = "leg"
    BY <1>21 DEF CloseLeg
  <2>1. CASE leg = "up" /\ NoClient
    <3>1. StatesOK'
      BY <1>21, <2>1 DEF CloseLeg, Panic
    <3>2. CountersOK'
      BY <1>21, <2>1 DEF CloseLeg, Panic
    <3>3. ByeFollowsAck'
      BY <1>21, <2>1 DEF CloseLeg, Panic
    <3>4. Alive' => LockInv'
      BY <1>21, <2>1 DEF CloseLeg, Panic
    <3>5. Alive' => EarlyInv'
      BY <1>21, <2>1 DEF CloseLeg, Panic
    <3>6. Alive' => CloseInv'
      BY <1>21, <2>1 DEF CloseLeg, Panic
    <3>7. Alive' => ByeInv'
      BY <1>21, <2>1 DEF CloseLeg, Panic
    <3>8. Alive' => ReportInv'
      BY <1>21, <2>1 DEF CloseLeg, Panic
    <3>9. Alive' => CauseInv'
      BY <1>21, <2>1 DEF CloseLeg, Panic
    <3> QED BY <3>1, <3>2, <3>3, <3>4, <3>5, <3>6, <3>7, <3>8, <3>9
  <2>2. CASE leg = "up" /\ ~NoClient
    <3>1. CASE closing
      <4>f. /\ byes' = byes + 1 /\ closeAt' = "byeWait" /\ mu' = mu /\ pc' = pc
            /\ panic' = panic /\ accepted' = accepted /\ noTag' = noTag
            /\ ccmu' = "free" /\ leg' = leg
        BY <1>21, <2>2, <3>1 DEF CloseLeg, HangUp
      <4>u. UNCHANGED <<reportVars, stopped, room, media, indexVars, envVars, inviteVars, flagVars,
                       others>>
        BY <1>21, <2>2 DEF CloseLeg
      <4>1. StatesOK'
        BY <4>f, <4>u, <2>g, <2>2, <3>1
      <4>2. CountersOK'
        BY <4>f, <4>u, <2>g, <2>2, <3>1
      <4>3. ByeFollowsAck'
        BY <4>f, <4>u, <2>g, <2>2, <3>1
      <4>4. Alive' => LockInv'
        BY <4>f, <4>u, <2>g, <2>2, <3>1
      <4>5. Alive' => EarlyInv'
        BY <4>f, <4>u, <2>g, <2>2, <3>1
      <4>6. Alive' => CloseInv'
        BY <4>f, <4>u, <2>g, <2>2, <3>1
      <4>7. Alive' => ByeInv'
        BY <4>f, <4>u, <2>g, <2>2, <3>1
      <4>8. Alive' => ReportInv'
        BY <4>f, <4>u, <2>g, <2>2, <3>1
      <4>9. Alive' => CauseInv'
        BY <4>f, <4>u, <2>g, <2>2, <3>1
      <4> QED BY <4>1, <4>2, <4>3, <4>4, <4>5, <4>6, <4>7, <4>8, <4>9
    <3>2. CASE ~closing
      <4>f. /\ byes' = byes + 1 /\ closeAt' = "byeWait" /\ mu' = mu /\ pc' = pc
            /\ panic' = panic /\ accepted' = accepted /\ noTag' = noTag
            /\ ccmu' = "bye" /\ leg' = "none"
        BY <1>21, <2>2, <3>2 DEF CloseLeg, HangUp
      <4>u. UNCHANGED <<reportVars, stopped, room, media, indexVars, envVars, inviteVars, flagVars,
                       others>>
        BY <1>21, <2>2 DEF CloseLeg
      <4>1. StatesOK'
        BY <4>f, <4>u, <2>g, <2>2, <3>2
      <4>2. CountersOK'
        BY <4>f, <4>u, <2>g, <2>2, <3>2
      <4>3. ByeFollowsAck'
        BY <4>f, <4>u, <2>g, <2>2, <3>2
      <4>4. Alive' => LockInv'
        BY <4>f, <4>u, <2>g, <2>2, <3>2
      <4>5. Alive' => EarlyInv'
        BY <4>f, <4>u, <2>g, <2>2, <3>2
      <4>6. Alive' => CloseInv'
        BY <4>f, <4>u, <2>g, <2>2, <3>2
      <4>7. Alive' => ByeInv'
        BY <4>f, <4>u, <2>g, <2>2, <3>2
      <4>8. Alive' => ReportInv'
        BY <4>f, <4>u, <2>g, <2>2, <3>2
      <4>9. Alive' => CauseInv'
        BY <4>f, <4>u, <2>g, <2>2, <3>2
      <4> QED BY <4>1, <4>2, <4>3, <4>4, <4>5, <4>6, <4>7, <4>8, <4>9
    <3> QED BY <3>1, <3>2
  <2>3. CASE leg = "none"
    <3>1. StatesOK'
      BY <1>21, <2>3 DEF CloseLeg
    <3>2. CountersOK'
      BY <1>21, <2>3 DEF CloseLeg
    <3>3. ByeFollowsAck'
      BY <1>21, <2>3 DEF CloseLeg
    <3>4. Alive' => LockInv'
      BY <1>21, <2>3 DEF CloseLeg
    <3>5. Alive' => EarlyInv'
      BY <1>21, <2>3 DEF CloseLeg
    <3>6. Alive' => CloseInv'
      BY <1>21, <2>3 DEF CloseLeg
    <3>7. Alive' => ByeInv'
      BY <1>21, <2>3 DEF CloseLeg
    <3>8. Alive' => ReportInv'
      BY <1>21, <2>3 DEF CloseLeg
    <3>9. Alive' => CauseInv'
      BY <1>21, <2>3 DEF CloseLeg
    <3> QED BY <3>1, <3>2, <3>3, <3>4, <3>5, <3>6, <3>7, <3>8, <3>9
  <2> QED BY <2>1, <2>2, <2>3
<1>22. CASE CloseByeDone
  BY <1>22 DEF CloseByeDone
<1>23. CASE Unregister
  <2>1. StatesOK'
    BY <1>23 DEF Unregister
  <2>2. CountersOK'
    BY <1>23 DEF Unregister
  <2>3. ByeFollowsAck'
    BY <1>23 DEF Unregister
  <2>4. Alive' => LockInv'
    BY <1>23 DEF Unregister
  <2>5. Alive' => EarlyInv'
    BY <1>23 DEF Unregister
  <2>6. Alive' => CloseInv'
    BY <1>23 DEF Unregister
  <2>7. Alive' => ByeInv'
    BY <1>23 DEF Unregister
  <2>8. Alive' => ReportInv'
    BY <1>23 DEF Unregister
  <2>9. Alive' => CauseInv'
    BY <1>23 DEF Unregister
  <2> QED BY <2>1, <2>2, <2>3, <2>4, <2>5, <2>6, <2>7, <2>8, <2>9
<1>24. CASE AcceptBye
  BY <1>24 DEF AcceptBye
<1>25. CASE ByeCloses
  <2>1. StatesOK'
    BY <1>25 DEF ByeCloses, BeginClose
  <2>2. CountersOK'
    BY <1>25 DEF ByeCloses, BeginClose
  <2>3. ByeFollowsAck'
    BY <1>25 DEF ByeCloses, BeginClose
  <2>4. Alive' => LockInv'
    BY <1>25 DEF ByeCloses, BeginClose
  <2>5. Alive' => EarlyInv'
    BY <1>25 DEF ByeCloses, BeginClose
  <2>6. Alive' => CloseInv'
    BY <1>25 DEF ByeCloses, BeginClose
  <2>7. Alive' => ByeInv'
    BY <1>25 DEF ByeCloses, BeginClose
  <2>8. Alive' => ReportInv'
    BY <1>25 DEF ByeCloses, BeginClose
  <2>9. Alive' => CauseInv'
    BY <1>25 DEF ByeCloses, BeginClose
  <2> QED BY <2>1, <2>2, <2>3, <2>4, <2>5, <2>6, <2>7, <2>8, <2>9
<1>26. CASE StopSwaps
  <2>1. StatesOK'
    BY <1>26 DEF StopSwaps
  <2>2. CountersOK'
    BY <1>26 DEF StopSwaps
  <2>3. ByeFollowsAck'
    BY <1>26 DEF StopSwaps
  <2>4. Alive' => LockInv'
    BY <1>26 DEF StopSwaps
  <2>5. Alive' => EarlyInv'
    BY <1>26 DEF StopSwaps
  <2>6. Alive' => CloseInv'
    BY <1>26 DEF StopSwaps
  <2>7. Alive' => ByeInv'
    BY <1>26 DEF StopSwaps
  <2>8. Alive' => ReportInv'
    BY <1>26 DEF StopSwaps
  <2>9. Alive' => CauseInv'
    BY <1>26 DEF StopSwaps
  <2> QED BY <2>1, <2>2, <2>3, <2>4, <2>5, <2>6, <2>7, <2>8, <2>9
<1>27. CASE StopCloses
  <2>1. StatesOK'
    BY <1>27 DEF StopCloses, BeginClose
  <2>2. CountersOK'
    BY <1>27 DEF StopCloses, BeginClose
  <2>3. ByeFollowsAck'
    BY <1>27 DEF StopCloses, BeginClose
  <2>4. Alive' => LockInv'
    BY <1>27 DEF StopCloses, BeginClose
  <2>5. Alive' => EarlyInv'
    BY <1>27 DEF StopCloses, BeginClose
  <2>6. Alive' => CloseInv'
    BY <1>27 DEF StopCloses, BeginClose
  <2>7. Alive' => ByeInv'
    BY <1>27 DEF StopCloses, BeginClose
  <2>8. Alive' => ReportInv'
    BY <1>27 DEF StopCloses, BeginClose
  <2>9. Alive' => CauseInv'
    BY <1>27 DEF StopCloses, BeginClose
  <2> QED BY <2>1, <2>2, <2>3, <2>4, <2>5, <2>6, <2>7, <2>8, <2>9
<1>28. CASE StopDone
  BY <1>28 DEF StopDone
<1>29. CASE RPCReturns
  BY <1>29 DEF RPCReturns
<1>30. CASE Respond
  BY <1>30 DEF Respond
<1>31. CASE TransactionFails
  BY <1>31 DEF TransactionFails
<1>32. CASE ByeArrives
  BY <1>32 DEF ByeArrives
<1>33. CASE StopBegins
  BY <1>33 DEF StopBegins
<1>34. CASE TransferHangup
  <2>1. StatesOK'
    BY <1>34 DEF TransferHangup, BeginClose
  <2>2. CountersOK'
    BY <1>34 DEF TransferHangup, BeginClose
  <2>3. ByeFollowsAck'
    BY <1>34 DEF TransferHangup, BeginClose
  <2>4. Alive' => LockInv'
    BY <1>34 DEF TransferHangup, BeginClose
  <2>5. Alive' => EarlyInv'
    BY <1>34 DEF TransferHangup, BeginClose
  <2>6. Alive' => CloseInv'
    BY <1>34 DEF TransferHangup, BeginClose
  <2>7. Alive' => ByeInv'
    BY <1>34 DEF TransferHangup, BeginClose
  <2>8. Alive' => ReportInv'
    BY <1>34 DEF TransferHangup, BeginClose
  <2>9. Alive' => CauseInv'
    BY <1>34 DEF TransferHangup, BeginClose
  <2> QED BY <2>1, <2>2, <2>3, <2>4, <2>5, <2>6, <2>7, <2>8, <2>9
<1>35. CASE DeadlineExpires
  BY <1>35 DEF DeadlineExpires
<1>36. CASE RoomDisconnects
  BY <1>36 DEF RoomDisconnects
<1>37. CASE MediaSilence
  BY <1>37 DEF MediaSilence
<1>38. CASE UNCHANGED vars
  BY <1>38 DEF vars
<1> QED BY <1>1, <1>2, <1>3, <1>4, <1>5, <1>6, <1>7, <1>8, <1>9, <1>9, <1>10, <1>11, <1>12, <1>13,
    <1>14, <1>15, <1>16, <1>17, <1>18, <1>19, <1>20, <1>21, <1>22, <1>23, <1>24, <1>25, <1>26,
    <1>27, <1>28, <1>29, <1>30, <1>31, <1>32, <1>33, <1>34, <1>35, <1>36, <1>37, <1>38, <1>39,
    <1>40
    DEF Next, Dialling, Closing, Serving, Stopping

\* What holds in every reachable state.
LEMMA Invariant == Spec => []IInv
  BY InitIInv, StepIInv, PTL DEF Spec

\* The state stays well typed, whatever the goroutines of a call do.
THEOREM TypeCorrect == Spec => []TypeOK
<1>1. IInv => TypeOK
  BY DEF IInv
<1> QED BY Invariant, <1>1, PTL

\* A callee that answered is told of the end, or said it itself, unless its 200 crossed the
\* CANCEL or Client.Stop closed the call before it was dialled.
THEOREM HungUp == Spec => []EstablishedIsHungUp
<1>1. IInv => EstablishedIsHungUp
  BY DEF IInv, EstablishedIsHungUp, Over, Alive, CloseInv, ByeInv, LegClosed
<1> QED BY Invariant, <1>1, PTL

\* One BYE per call, and none before the code has tried to acknowledge the 200, or refused it.
THEOREM ByeOrdered == Spec => []ByeFollowsAck
<1>1. IInv => ByeFollowsAck
  BY DEF IInv
<1> QED BY Invariant, <1>1, PTL

\* A call that is over holds nothing, and OnSessionEnd was called once.
THEOREM Released == Spec => []ReleasedAtEnd
<1>1. IInv => ReleasedAtEnd
  BY DEF IInv, ReleasedAtEnd, Over, Alive, LockInv, CloseInv, TypeOK, StatesOK, Closers
<1> QED BY Invariant, <1>1, PTL

\* The last report is an error exactly if the call was given up for its silence or could not
\* be dialled, whichever goroutine closed it.
THEOREM ErrorReported == Spec => []ErrorIsReported
<1>1. IInv => ErrorIsReported
  BY DEF IInv, ErrorIsReported, Over, Alive, ReportInv, CauseInv, Failing
<1> QED BY Invariant, <1>1, PTL

------------------------------------------------------------------------------
(* The call implements SipLeg.                                              *)

LEMMA LegInit == Init => Leg!Init
  BY DEF Init, Leg!Init

\* Only five actions touch what SipLeg sees.
LEMMA LegKept ==
    ASSUME [Next]_vars, ~InviteOk, ~InviteErr, ~CloseLeg, ~Unregister, ~AcceptBye
    PROVE  UNCHANGED <<accepted, leg, byes, sessionEnds>>
<1> USE DEF reportVars, closeVars, indexVars, envVars, legVars, inviteVars, flagVars, others
<1>1. CASE MediaFails \/ MediaOpens \/ JoinRoom \/ Register
  BY <1>1 DEF MediaFails, MediaOpens, JoinRoom, Register, Panic
<1>2. CASE SendInvite \/ InviteAuth \/ InviteFails \/ InviteCancelled \/ InviteByeDone
  BY <1>2 DEF SendInvite, InviteAuth, InviteFails, InviteCancelled, InviteByeDone, Panic
<1>3. CASE Answer \/ Index \/ Ack \/ WriteDTMF \/ Connect
  BY <1>3 DEF Answer, Index, Ack, WriteDTMF, Connect, Fail, Panic
<1>4. CASE ConnectErr \/ ReportActive \/ DialReturns \/ WaitClose \/ SetErrStatus \/ WaitReturns
  BY <1>4 DEF ConnectErr, ReportActive, DialReturns, WaitClose, SetErrStatus, WaitReturns,
              BeginClose, Panic
<1>5. CASE CloseByeDone \/ ByeCloses \/ StopSwaps \/ StopCloses \/ StopDone
  BY <1>5 DEF CloseByeDone, ByeCloses, StopSwaps, StopCloses, StopDone, BeginClose
<1>6. CASE RPCReturns \/ Respond \/ TransactionFails \/ ByeArrives \/ StopBegins
  BY <1>6 DEF RPCReturns, Respond, TransactionFails, ByeArrives, StopBegins
<1>7. CASE TransferHangup \/ DeadlineExpires \/ RoomDisconnects \/ MediaSilence
  BY <1>7 DEF TransferHangup, DeadlineExpires, RoomDisconnects, MediaSilence, BeginClose
<1>8. CASE UNCHANGED vars
  BY <1>8 DEF vars
<1> QED BY <1>1, <1>2, <1>3, <1>4, <1>5, <1>6, <1>7, <1>8
    DEF Next, Dialling, Closing, Serving, Stopping

\* The 200 is the Answer, the first BYE of ours the HangUp, the callee's the Leave, the end
\* of close the EndSession; a second BYE of ours is none.
LEMMA LegStep == IInv /\ [Next]_vars => [Leg!Next]_(Leg!vars)
<1> SUFFICES ASSUME IInv, [Next]_vars PROVE [Leg!Next]_(Leg!vars)
  OBVIOUS
<1> USE DEF Leg!Next, Leg!vars, Leg!Answer, Leg!HangUp, Leg!Leave, Leg!EndSession
<1> USE DEF reportVars, closeVars, indexVars, envVars, legVars, inviteVars, flagVars, others
<1>t. byes \in Nat /\ sessionEnds \in {0, 1} /\ leg \in {"none", "up"} /\ accepted \in BOOLEAN
  BY DEF IInv, TypeOK, StatesOK, CountersOK, FlagsOK
<1>1. CASE InviteOk
  <2>1. ~accepted /\ byes = 0
    BY <1>1 DEF InviteOk, IInv, Alive, EarlyInv, Early
  <2>2. accepted' /\ leg' = "up" /\ byes' = byes /\ sessionEnds' = sessionEnds
    BY <1>1 DEF InviteOk
  <2> QED BY <2>1, <2>2, <1>t
<1>2. CASE InviteErr \/ CloseLeg
  <2>1. Alive
    BY <1>2 DEF InviteErr, CloseLeg, Alive
  <2>2. accepted' = accepted /\ sessionEnds' = sessionEnds
    BY <1>2 DEF InviteErr, CloseLeg, Panic
  <2>3. \/ byes' = byes /\ leg' = leg
        \/ leg = "up" /\ byes' = byes + 1 /\ leg' \in {"none", leg}
    BY <1>2 DEF InviteErr, CloseLeg, Panic, HangUp
  <2>4. leg = "up" => accepted
    BY <2>1 DEF IInv, ByeInv
  <2>5. CASE byes' = byes /\ leg' = leg
    BY <2>2, <2>5
  <2>6. CASE leg = "up" /\ byes' = byes + 1
    BY <1>t, <2>2, <2>4, <2>6
  <2> QED BY <2>3, <2>5, <2>6
<1>3. CASE Unregister
  <2>1. /\ accepted' = accepted /\ leg' = leg /\ byes' = byes
        /\ sessionEnds' = sessionEnds + 1
    BY <1>3 DEF Unregister
  <2>2. sessionEnds = 0 /\ (leg = "none" \/ byes > 0)
    BY <1>3 DEF Unregister, IInv, CloseInv, ByeInv
  <2> QED BY <1>t, <2>1, <2>2
<1>4. CASE AcceptBye
  <2>1. /\ accepted' = accepted /\ leg' = "none" /\ byes' = byes
        /\ sessionEnds' = sessionEnds
    BY <1>4 DEF AcceptBye
  <2> QED BY <1>t, <2>1
<1>5. CASE ~InviteOk /\ ~InviteErr /\ ~CloseLeg /\ ~Unregister /\ ~AcceptBye
  BY <1>5, LegKept
<1> QED BY <1>1, <1>2, <1>3, <1>4, <1>5

\* Whichever goroutines answer, hang up and close, callee and session handler see a SipLeg.
THEOREM Implements == Spec => ImplementsSipLeg
  BY LegInit, LegStep, Invariant, PTL DEF Spec, ImplementsSipLeg, Leg!Spec
=============================================================================
