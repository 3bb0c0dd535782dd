-------------------------- MODULE InboundCallProofs --------------------------
(***************************************************************************)
(* The safety properties of InboundCall for every value of its constants.  *)
(*                                                                         *)
(* The inductive invariant has one part per question: who owns the lock,   *)
(* what the leg says about the wire, who dropped an answered leg, what the *)
(* closing phase has released, and what the handler may rely on when it    *)
(* reports the call active.                                                *)
(***************************************************************************)
EXTENDS InboundCall, TLAPS

\* The phases of close after the done flag was set.
Closing == {"closeLeg", "byeWait", "unregister", "return"}

\* Before StartRinging, and when the INVITE never became a call.
NoDialogYet == pc \in {"invite", "ring"} \/ (pc = "end" /\ reason = "none")

LockInv == mu = "handler" <=> pc \in {"acking", "byeWait"}

\* The leg against the wire.  A leg whose transaction is still there although a final
\* response was sent is inside Accept, or about to be closed after Accept failed, or an
\* INVITE refused by handleInviteAuth.
LegInv ==
    /\ pc = "acking" => leg = "early" /\ answered /\ finals = 1 /\ ~ringing
    /\ leg = "answered" => answered /\ finals = 1
    /\ leg = "early" /\ finals > 0 =>
          \/ pc = "acking"
          \/ pc = "closeLeg" /\ reason = "accept-failed" /\ answered /\ finals = 1
          \/ pc = "end" /\ reason = "none" /\ finals = 1
    /\ finals > 1 => finals = 2 /\ answered /\ reason = "accept-failed"
    /\ answered => finals > 0
    /\ lateRinging => answered /\ reason = "accept-failed"

PhaseInv ==
    /\ pc \in Closing => reason # "none"
    /\ reason # "none" => pc \in Closing \cup {"end"}
    /\ NoDialogYet \/ pc = "panic" =>
          ringer = "idle" /\ cancel = "none" /\ ~ringing /\ ~answered
    /\ NoDialogYet /\ pc # "ring" => bye = "none"
    /\ pc \in {"dispatch", "media"} => ~answered
    /\ pc = "invite" => leg = "early" /\ finals = 0

\* Who dropped the leg of an answered call that is not closed yet.
DropInv ==
    /\ ringer = "reject" => cancel = "taken"
    /\ bye \in {"dropped", "done"} => leg = "dropped"
    /\ byeSent > 0 => /\ byeSent = 1 /\ answered /\ leg = "dropped"
                      /\ pc \in {"byeWait", "unregister", "return", "end"}
    /\ pc = "byeWait" => byeSent = 1
    /\ (answered /\ leg = "dropped") =>
          byeSent = 1 \/ bye # "none" \/ cancel = "taken" \/ reason = "accept-failed"
    /\ (pc \in {"byeWait", "unregister", "return"} \/ (pc = "end" /\ reason # "none"))
          => leg = "dropped" /\ ~ringing

ReleaseInv ==
    /\ pc = "invite" => report = "none" /\ ~registered
    /\ NoDialogYet => ~topic /\ media = "nil" /\ sessionEnds = 0
    /\ pc = "end" /\ reason = "none" => report \in {"none", "error"}
    /\ reason # "none" => media # "open" /\ room = "closed"
    /\ pc \in {"return", "end"} => ~registered /\ ~topic
    /\ sessionEnds = IF pc = "return" \/ (pc = "end" /\ reason # "none") THEN 1 ELSE 0

\* What holds after acceptCall, and after joinRoom.
AfterAcceptPCs ==
    {"waitMedia", "activate", "loop"}
        \cup IF pinCall THEN {"pin", "join", "connect", "publish"} ELSE {}
AfterJoinPCs ==
    {"publish", "activate", "loop"}
        \cup IF pinCall THEN {} ELSE {"waitSubscribe", "accept", "acking", "waitMedia"}

ActiveInv ==
    /\ pc = "waitSubscribe" => ~pinCall
    /\ pc = "pin" => pinCall
    /\ pc \in AfterAcceptPCs => answered /\ (waitACK => gotAck)
    /\ pc \in AfterJoinPCs => room # "new"
    /\ report = "active" => answered /\ room # "new" /\ (waitACK => gotAck)

IInv == TypeOK /\ LockInv /\ LegInv /\ PhaseInv /\ DropInv /\ ReleaseInv /\ ActiveInv

------------------------------------------------------------------------------
LEMMA MaxRetriesType == MaxRetries \in Nat
  BY LimitAssumption DEF MaxRetries

\* What the call was configured with does not change, nor what depends on it.
LEMMA ConfKept == [Next]_vars => UNCHANGED <<waitACK, reliable, MaxRetries>>
  BY DEF Next, InConf, vars, confVars, MaxRetries

LEMMA InitIInv == Init => IInv
<1> SUFFICES ASSUME Init PROVE IInv
  OBVIOUS
<1> USE DEF Init
<1>1. TypeOK
  <2>1. ConfOK /\ StatesOK /\ CallFlagsOK /\ LegFlagsOK /\ AckFlagsOK /\ RoomFlagsOK
    BY DEF ConfOK, StatesOK, CallFlagsOK, LegFlagsOK, AckFlagsOK, RoomFlagsOK, PCs, Reasons
  <2>2. CountersOK
    BY MaxRetriesType DEF CountersOK, RetryIntervalMax
  <2>3. QED
    BY <2>1, <2>2 DEF TypeOK
<1>2. LockInv /\ LegInv /\ PhaseInv
  BY DEF LockInv, LegInv, PhaseInv, Closing, NoDialogYet
<1>3. DropInv /\ ReleaseInv /\ ActiveInv
  BY DEF DropInv, ReleaseInv, ActiveInv, NoDialogYet, AfterAcceptPCs, AfterJoinPCs
<1>4. QED
  BY <1>1, <1>2, <1>3 DEF IInv

LEMMA StepType == TypeOK /\ [Next]_vars => TypeOK'
<1> SUFFICES ASSUME TypeOK, [Next]_vars PROVE TypeOK'
  OBVIOUS
<1> UNCHANGED <<waitACK, reliable, MaxRetries>>
  BY ConfKept
<1> USE MaxRetriesType
    DEF TypeOK, ConfOK, CountersOK, StatesOK, CallFlagsOK, LegFlagsOK, AckFlagsOK, RoomFlagsOK,
        PCs, Reasons, RetryIntervalMax, RetryInterval,
        reportVars, legVars, byeVars, retryVars, lateVars, ackVars, roomVars,
        mediaVars, pinVars
<1>1. CASE RejectInvite
  <2>1. CountersOK'
    BY <1>1 DEF RejectInvite, RespondAndDrop, DropSilently, Drop
  <2>2. StatesOK'
    BY <1>1 DEF RejectInvite, RespondAndDrop, DropSilently, Drop
  <2>3. CallFlagsOK'
    BY <1>1 DEF RejectInvite, RespondAndDrop, DropSilently, Drop
  <2>4. LegFlagsOK'
    BY <1>1 DEF RejectInvite, RespondAndDrop, DropSilently, Drop
  <2>5. AckFlagsOK'
    BY <1>1 DEF RejectInvite, RespondAndDrop, DropSilently, Drop
  <2>6. RoomFlagsOK'
    BY <1>1 DEF RejectInvite, RespondAndDrop, DropSilently, Drop
  <2>7. QED
    BY <2>1, <2>2, <2>3, <2>4, <2>5, <2>6 DEF TypeOK, ConfOK
<1>2. CASE AdmitInvite
  BY <1>2 DEF AdmitInvite
<1>3. CASE StartRinging
  <2>1. CountersOK'
    BY <1>3 DEF StartRinging
  <2>2. StatesOK'
    BY <1>3 DEF StartRinging
  <2>3. CallFlagsOK'
    BY <1>3 DEF StartRinging
  <2>4. LegFlagsOK'
    BY <1>3 DEF StartRinging
  <2>5. AckFlagsOK'
    BY <1>3 DEF StartRinging
  <2>6. RoomFlagsOK'
    BY <1>3 DEF StartRinging
  <2>7. QED
    BY <2>1, <2>2, <2>3, <2>4, <2>5, <2>6 DEF TypeOK, ConfOK
<1>4. CASE DispatchRoom
  BY <1>4 DEF DispatchRoom
<1>5. CASE DispatchRefuse
  <2>1. CountersOK'
    BY <1>5 DEF DispatchRefuse, RespondAndDrop, DropSilently, Drop, Close, StartClose
  <2>2. StatesOK'
    BY <1>5 DEF DispatchRefuse, RespondAndDrop, DropSilently, Drop, Close, StartClose
  <2>3. CallFlagsOK'
    BY <1>5 DEF DispatchRefuse, RespondAndDrop, DropSilently, Drop, Close, StartClose
  <2>4. LegFlagsOK'
    BY <1>5 DEF DispatchRefuse, RespondAndDrop, DropSilently, Drop, Close, StartClose
  <2>5. AckFlagsOK'
    BY <1>5 DEF DispatchRefuse, RespondAndDrop, DropSilently, Drop, Close, StartClose
  <2>6. RoomFlagsOK'
    BY <1>5 DEF DispatchRefuse, RespondAndDrop, DropSilently, Drop, Close, StartClose
  <2>7. QED
    BY <2>1, <2>2, <2>3, <2>4, <2>5, <2>6 DEF TypeOK, ConfOK
<1>6. CASE RunMedia
  BY <1>6 DEF RunMedia
<1>7. CASE RunMediaFails
  <2>1. CountersOK'
    BY <1>7 DEF RunMediaFails, RespondAndDrop, Drop
  <2>2. StatesOK'
    BY <1>7 DEF RunMediaFails, RespondAndDrop, Drop
  <2>3. CallFlagsOK'
    BY <1>7 DEF RunMediaFails, RespondAndDrop, Drop
  <2>4. LegFlagsOK'
    BY <1>7 DEF RunMediaFails, RespondAndDrop, Drop
  <2>5. AckFlagsOK'
    BY <1>7 DEF RunMediaFails, RespondAndDrop, Drop
  <2>6. RoomFlagsOK'
    BY <1>7 DEF RunMediaFails, RespondAndDrop, Drop
  <2>7. QED
    BY <2>1, <2>2, <2>3, <2>4, <2>5, <2>6 DEF TypeOK, ConfOK
<1>8. CASE RegisterTransfer
  <2>1. CountersOK'
    BY <1>8 DEF RegisterTransfer, Close, StartClose
  <2>2. StatesOK'
    BY <1>8 DEF RegisterTransfer, Close, StartClose
  <2>3. CallFlagsOK'
    BY <1>8 DEF RegisterTransfer, Close, StartClose
  <2>4. LegFlagsOK'
    BY <1>8 DEF RegisterTransfer, Close, StartClose
  <2>5. AckFlagsOK'
    BY <1>8 DEF RegisterTransfer, Close, StartClose
  <2>6. RoomFlagsOK'
    BY <1>8 DEF RegisterTransfer, Close, StartClose
  <2>7. QED
    BY <2>1, <2>2, <2>3, <2>4, <2>5, <2>6 DEF TypeOK, ConfOK
<1>9. CASE ConnectRoom
  <2>1. CountersOK'
    BY <1>9 DEF ConnectRoom, Close, StartClose
  <2>2. StatesOK'
    BY <1>9 DEF ConnectRoom, Close, StartClose
  <2>3. CallFlagsOK'
    BY <1>9 DEF ConnectRoom, Close, StartClose
  <2>4. LegFlagsOK'
    BY <1>9 DEF ConnectRoom, Close, StartClose
  <2>5. AckFlagsOK'
    BY <1>9 DEF ConnectRoom, Close, StartClose
  <2>6. RoomFlagsOK'
    BY <1>9 DEF ConnectRoom, Close, StartClose
  <2>7. QED
    BY <2>1, <2>2, <2>3, <2>4, <2>5, <2>6 DEF TypeOK, ConfOK
<1>10. CASE PublishTrack
  BY <1>10 DEF PublishTrack
<1>11. CASE PublishTrackFails
  BY <1>11 DEF PublishTrackFails, Close, StartClose
<1>12. CASE WaitSubscribe
  <2>1. CountersOK'
    BY <1>12 DEF WaitSubscribe, Close, CloseWithReason, StartClose
  <2>2. StatesOK'
    BY <1>12 DEF WaitSubscribe, Close, CloseWithReason, StartClose
  <2>3. CallFlagsOK'
    BY <1>12 DEF WaitSubscribe, Close, CloseWithReason, StartClose
  <2>4. LegFlagsOK'
    BY <1>12 DEF WaitSubscribe, Close, CloseWithReason, StartClose
  <2>5. AckFlagsOK'
    BY <1>12 DEF WaitSubscribe, Close, CloseWithReason, StartClose
  <2>6. RoomFlagsOK'
    BY <1>12 DEF WaitSubscribe, Close, CloseWithReason, StartClose
  <2>7. QED
    BY <2>1, <2>2, <2>3, <2>4, <2>5, <2>6 DEF TypeOK, ConfOK
<1>13. CASE Accept
  <2>1. CountersOK'
    BY <1>13 DEF Accept, Close, StartClose, AfterAccept, NoWait
  <2>2. StatesOK'
    BY <1>13 DEF Accept, Close, StartClose, AfterAccept, NoWait
  <2>3. CallFlagsOK'
    BY <1>13 DEF Accept, Close, StartClose, AfterAccept, NoWait
  <2>4. LegFlagsOK'
    BY <1>13 DEF Accept, Close, StartClose, AfterAccept, NoWait
  <2>5. AckFlagsOK'
    BY <1>13 DEF Accept, Close, StartClose, AfterAccept, NoWait
  <2>6. RoomFlagsOK'
    BY <1>13 DEF Accept, Close, StartClose, AfterAccept, NoWait
  <2>7. QED
    BY <2>1, <2>2, <2>3, <2>4, <2>5, <2>6 DEF TypeOK, ConfOK
<1>14. CASE AcceptGotAck
  BY <1>14 DEF AcceptGotAck, Accepted, AfterAccept
<1>15. CASE AcceptRetry
  <2>1. CountersOK'
    BY <1>15 DEF AcceptRetry, Accepted, AfterAccept, RetriesDone, Close, StartClose
  <2>2. StatesOK'
    BY <1>15 DEF AcceptRetry, Accepted, AfterAccept, RetriesDone, Close, StartClose
  <2>3. CallFlagsOK'
    BY <1>15 DEF AcceptRetry, Accepted, AfterAccept, RetriesDone, Close, StartClose
  <2>4. LegFlagsOK'
    BY <1>15 DEF AcceptRetry, Accepted, AfterAccept, RetriesDone, Close, StartClose
  <2>5. AckFlagsOK'
    BY <1>15 DEF AcceptRetry, Accepted, AfterAccept, RetriesDone, Close, StartClose
  <2>6. RoomFlagsOK'
    BY <1>15 DEF AcceptRetry, Accepted, AfterAccept, RetriesDone, Close, StartClose
  <2>7. QED
    BY <2>1, <2>2, <2>3, <2>4, <2>5, <2>6 DEF TypeOK, ConfOK
<1>16. CASE WaitMedia
  <2>1. CountersOK'
    BY <1>16 DEF WaitMedia, Close, CloseWithReason, StartClose
  <2>2. StatesOK'
    BY <1>16 DEF WaitMedia, Close, CloseWithReason, StartClose
  <2>3. CallFlagsOK'
    BY <1>16 DEF WaitMedia, Close, CloseWithReason, StartClose
  <2>4. LegFlagsOK'
    BY <1>16 DEF WaitMedia, Close, CloseWithReason, StartClose
  <2>5. AckFlagsOK'
    BY <1>16 DEF WaitMedia, Close, CloseWithReason, StartClose
  <2>6. RoomFlagsOK'
    BY <1>16 DEF WaitMedia, Close, CloseWithReason, StartClose
  <2>7. QED
    BY <2>1, <2>2, <2>3, <2>4, <2>5, <2>6 DEF TypeOK, ConfOK
<1>17. CASE PinInterrupted
  <2>1. CountersOK'
    BY <1>17 DEF PinInterrupted, Close, CloseWithReason, StartClose
  <2>2. StatesOK'
    BY <1>17 DEF PinInterrupted, Close, CloseWithReason, StartClose
  <2>3. CallFlagsOK'
    BY <1>17 DEF PinInterrupted, Close, CloseWithReason, StartClose
  <2>4. LegFlagsOK'
    BY <1>17 DEF PinInterrupted, Close, CloseWithReason, StartClose
  <2>5. AckFlagsOK'
    BY <1>17 DEF PinInterrupted, Close, CloseWithReason, StartClose
  <2>6. RoomFlagsOK'
    BY <1>17 DEF PinInterrupted, Close, CloseWithReason, StartClose
  <2>7. QED
    BY <2>1, <2>2, <2>3, <2>4, <2>5, <2>6 DEF TypeOK, ConfOK
<1>18. CASE Activate
  BY <1>18 DEF Activate
<1>19. CASE LoopExit
  <2>1. CountersOK'
    BY <1>19 DEF LoopExit, Close, CloseWithReason, StartClose
  <2>2. StatesOK'
    BY <1>19 DEF LoopExit, Close, CloseWithReason, StartClose
  <2>3. CallFlagsOK'
    BY <1>19 DEF LoopExit, Close, CloseWithReason, StartClose
  <2>4. LegFlagsOK'
    BY <1>19 DEF LoopExit, Close, CloseWithReason, StartClose
  <2>5. AckFlagsOK'
    BY <1>19 DEF LoopExit, Close, CloseWithReason, StartClose
  <2>6. RoomFlagsOK'
    BY <1>19 DEF LoopExit, Close, CloseWithReason, StartClose
  <2>7. QED
    BY <2>1, <2>2, <2>3, <2>4, <2>5, <2>6 DEF TypeOK, ConfOK
<1>20. CASE LoopAck
  BY <1>20 DEF LoopAck
<1>21. CASE LoopAckTimeout
  BY <1>21 DEF LoopAckTimeout
<1>22. CASE CloseLeg
  <2>1. CountersOK'
    BY <1>22 DEF CloseLeg, Drop
  <2>2. StatesOK'
    BY <1>22 DEF CloseLeg, Drop
  <2>3. CallFlagsOK'
    BY <1>22 DEF CloseLeg, Drop
  <2>4. LegFlagsOK'
    BY <1>22 DEF CloseLeg, Drop
  <2>5. AckFlagsOK'
    BY <1>22 DEF CloseLeg, Drop
  <2>6. RoomFlagsOK'
    BY <1>22 DEF CloseLeg, Drop
  <2>7. QED
    BY <2>1, <2>2, <2>3, <2>4, <2>5, <2>6 DEF TypeOK, ConfOK
<1>23. CASE ByeDone
  BY <1>23 DEF ByeDone
<1>24. CASE Unregister
  <2>1. CountersOK'
    BY <1>24 DEF Unregister
  <2>2. StatesOK'
    BY <1>24 DEF Unregister
  <2>3. CallFlagsOK'
    BY <1>24 DEF Unregister
  <2>4. LegFlagsOK'
    BY <1>24 DEF Unregister
  <2>5. AckFlagsOK'
    BY <1>24 DEF Unregister
  <2>6. RoomFlagsOK'
    BY <1>24 DEF Unregister
  <2>7. QED
    BY <2>1, <2>2, <2>3, <2>4, <2>5, <2>6 DEF TypeOK, ConfOK
<1>25. CASE Return
  BY <1>25 DEF Return
<1>26. CASE RingerTick
  BY <1>26 DEF RingerTick, ringerFrame
<1>27. CASE RingerSend
  BY <1>27 DEF RingerSend, ringerFrame
<1>28. CASE RingerStop
  BY <1>28 DEF RingerStop, ringerFrame
<1>29. CASE RingerCancel
  BY <1>29 DEF RingerCancel, ringerFrame
<1>30. CASE RingerReject
  <2>1. CountersOK'
    BY <1>30 DEF RingerReject, ringerFrame, RespondAndDrop, Drop
  <2>2. StatesOK'
    BY <1>30 DEF RingerReject, ringerFrame, RespondAndDrop, Drop
  <2>3. CallFlagsOK'
    BY <1>30 DEF RingerReject, ringerFrame, RespondAndDrop, Drop
  <2>4. LegFlagsOK'
    BY <1>30 DEF RingerReject, ringerFrame, RespondAndDrop, Drop
  <2>5. AckFlagsOK'
    BY <1>30 DEF RingerReject, ringerFrame, RespondAndDrop, Drop
  <2>6. RoomFlagsOK'
    BY <1>30 DEF RingerReject, ringerFrame, RespondAndDrop, Drop
  <2>7. QED
    BY <2>1, <2>2, <2>3, <2>4, <2>5, <2>6 DEF TypeOK, ConfOK
<1>31. CASE ByeDrop
  <2>1. CountersOK'
    BY <1>31 DEF ByeDrop, byeFrame, DropSilently, Drop
  <2>2. StatesOK'
    BY <1>31 DEF ByeDrop, byeFrame, DropSilently, Drop
  <2>3. CallFlagsOK'
    BY <1>31 DEF ByeDrop, byeFrame, DropSilently, Drop
  <2>4. LegFlagsOK'
    BY <1>31 DEF ByeDrop, byeFrame, DropSilently, Drop
  <2>5. AckFlagsOK'
    BY <1>31 DEF ByeDrop, byeFrame, DropSilently, Drop
  <2>6. RoomFlagsOK'
    BY <1>31 DEF ByeDrop, byeFrame, DropSilently, Drop
  <2>7. QED
    BY <2>1, <2>2, <2>3, <2>4, <2>5, <2>6 DEF TypeOK, ConfOK
<1>32. CASE ByeCancelsCall
  BY <1>32 DEF ByeCancelsCall, byeFrame
<1>33. CASE PinDigit
  <2>1. CountersOK'
    BY <1>33 DEF PinDigit, Close, StartClose
  <2>2. StatesOK'
    BY <1>33 DEF PinDigit, Close, StartClose
  <2>3. CallFlagsOK'
    BY <1>33 DEF PinDigit, Close, StartClose
  <2>4. LegFlagsOK'
    BY <1>33 DEF PinDigit, Close, StartClose
  <2>5. AckFlagsOK'
    BY <1>33 DEF PinDigit, Close, StartClose
  <2>6. RoomFlagsOK'
    BY <1>33 DEF PinDigit, Close, StartClose
  <2>7. QED
    BY <2>1, <2>2, <2>3, <2>4, <2>5, <2>6 DEF TypeOK, ConfOK
<1>34. CASE PinEnter
  <2>1. CountersOK'
    BY <1>34 DEF PinEnter, Close, StartClose
  <2>2. StatesOK'
    BY <1>34 DEF PinEnter, Close, StartClose
  <2>3. CallFlagsOK'
    BY <1>34 DEF PinEnter, Close, StartClose
  <2>4. LegFlagsOK'
    BY <1>34 DEF PinEnter, Close, StartClose
  <2>5. AckFlagsOK'
    BY <1>34 DEF PinEnter, Close, StartClose
  <2>6. RoomFlagsOK'
    BY <1>34 DEF PinEnter, Close, StartClose
  <2>7. QED
    BY <2>1, <2>2, <2>3, <2>4, <2>5, <2>6 DEF TypeOK, ConfOK
<1>35. CASE ByeArrives
  BY <1>35 DEF ByeArrives, byeFrame
<1>36. CASE CancelArrives
  BY <1>36 DEF CancelArrives, ringerFrame
<1>37. CASE AckArrives
  BY <1>37 DEF AckArrives
<1>38. CASE DeadlineExpires
  BY <1>38 DEF DeadlineExpires, envFrame
<1>39. CASE ClosedFromOutside
  BY <1>39 DEF ClosedFromOutside, envFrame
<1>40. CASE RoomCloses
  BY <1>40 DEF RoomCloses, envFrame
<1>41. CASE RoomSubscribed
  BY <1>41 DEF RoomSubscribed, envFrame
<1>42. CASE MediaSilence
  BY <1>42 DEF MediaSilence, envFrame
<1>43. CASE UNCHANGED vars
  BY <1>43 DEF vars
<1>44. QED
  BY <1>1, <1>2, <1>3, <1>4, <1>5, <1>6, <1>7, <1>8, <1>9, <1>10, <1>11, <1>12,
     <1>13, <1>14, <1>15, <1>16, <1>17, <1>18, <1>19, <1>20, <1>21, <1>22, <1>23, <1>24,
     <1>25, <1>26, <1>27, <1>28, <1>29, <1>30, <1>31, <1>32, <1>33, <1>34, <1>35, <1>36,
     <1>37, <1>38, <1>39, <1>40, <1>41, <1>42, <1>43
     DEF Next, InConf, HandlerStep, RingerStep, ByeStep, EnvStep

\* The parts that say something about the wire and the phases; types are used where a
\* counter is.
SafeInv == LockInv /\ LegInv /\ PhaseInv /\ DropInv /\ ReleaseInv /\ ActiveInv
LEMMA StepSafe == TypeOK /\ SafeInv /\ [Next]_vars => SafeInv'
<1> SUFFICES ASSUME TypeOK, SafeInv, [Next]_vars PROVE SafeInv'
  OBVIOUS
<1> UNCHANGED <<waitACK, reliable>>
  BY ConfKept
<1> finals \in Nat /\ byeSent \in Nat /\ sessionEnds \in Nat
  BY DEF TypeOK, CountersOK
<1> USE DEF SafeInv, LockInv, LegInv, PhaseInv, DropInv, ReleaseInv, ActiveInv,
        NoDialogYet, Closing, AfterAcceptPCs, AfterJoinPCs,
        reportVars, legVars, byeVars, retryVars, lateVars, ackVars, roomVars,
        mediaVars, pinVars
<1>1. CASE RejectInvite
  BY <1>1 DEF RejectInvite, RespondAndDrop, DropSilently, Drop
<1>2. CASE AdmitInvite
  BY <1>2 DEF AdmitInvite
<1>3. CASE StartRinging
  BY <1>3 DEF StartRinging
<1>4. CASE DispatchRoom
  BY <1>4 DEF DispatchRoom
<1>5. CASE DispatchRefuse
  BY <1>5 DEF DispatchRefuse, RespondAndDrop, DropSilently, Drop, Close, StartClose
<1>6. CASE RunMedia
  BY <1>6 DEF RunMedia
<1>7. CASE RunMediaFails
  BY <1>7 DEF RunMediaFails, RespondAndDrop, Drop
<1>8. CASE RegisterTransfer
  BY <1>8 DEF RegisterTransfer, Close, StartClose
<1>9. CASE ConnectRoom
  BY <1>9 DEF ConnectRoom, Close, StartClose
<1>10. CASE PublishTrack
  BY <1>10 DEF PublishTrack
<1>11. CASE PublishTrackFails
  BY <1>11 DEF PublishTrackFails, Close, StartClose
<1>12. CASE WaitSubscribe
  BY <1>12 DEF WaitSubscribe, Close, CloseWithReason, StartClose
<1>13. CASE Accept
  BY <1>13 DEF Accept, Close, StartClose, AfterAccept, NoWait
<1>14. CASE AcceptGotAck
  BY <1>14 DEF AcceptGotAck, Accepted, AfterAccept
<1>15. CASE AcceptRetry
  <2>1. LockInv'
    BY <1>15 DEF AcceptRetry, Accepted, AfterAccept, RetriesDone, Close, StartClose
  <2>2. LegInv'
    <3>1. /\ pc = "acking" /\ reason = "none" /\ leg = "early" /\ answered
          /\ finals = 1 /\ ~ringing /\ ~lateRinging
      BY <1>15 DEF AcceptRetry
    <3>2. /\ UNCHANGED <<finals, answered, lateRinging, ringing>>
          /\ \/ leg' = "answered" /\ pc' # "acking"
             \/ leg' = leg /\ pc' = pc
             \/ leg' = leg /\ pc' = "closeLeg" /\ reason' = "accept-failed"
      BY <1>15 DEF AcceptRetry, Accepted, AfterAccept, Close, StartClose
    <3>3. QED
      BY <3>1, <3>2
  <2>3. PhaseInv'
    BY <1>15 DEF AcceptRetry, Accepted, AfterAccept, RetriesDone, Close, StartClose
  <2>4. DropInv'
    BY <1>15 DEF AcceptRetry, Accepted, AfterAccept, RetriesDone, Close, StartClose
  <2>5. ReleaseInv'
    BY <1>15 DEF AcceptRetry, Accepted, AfterAccept, RetriesDone, Close, StartClose
  <2>6. ActiveInv'
    BY <1>15 DEF AcceptRetry, Accepted, AfterAccept, RetriesDone, Close, StartClose
  <2>7. QED
    BY <2>1, <2>2, <2>3, <2>4, <2>5, <2>6
<1>16. CASE WaitMedia
  BY <1>16 DEF WaitMedia, Close, CloseWithReason, StartClose
<1>17. CASE PinInterrupted
  BY <1>17 DEF PinInterrupted, Close, CloseWithReason, StartClose
<1>18. CASE Activate
  BY <1>18 DEF Activate
<1>19. CASE LoopExit
  BY <1>19 DEF LoopExit, Close, CloseWithReason, StartClose
<1>20. CASE LoopAck
  BY <1>20 DEF LoopAck
<1>21. CASE LoopAckTimeout
  BY <1>21 DEF LoopAckTimeout
<1>22. CASE CloseLeg
  <2>1. LockInv'
    BY <1>22 DEF CloseLeg, Drop
  <2>2. LegInv'
    BY <1>22 DEF CloseLeg, Drop
  <2>3. PhaseInv'
    BY <1>22 DEF CloseLeg, Drop
  <2>4. DropInv'
    <3>1. byeSent = 0
      BY <1>22 DEF CloseLeg
    <3>2. CASE leg = "answered"
      BY <1>22, <3>1, <3>2 DEF CloseLeg, Drop
    <3>3. CASE leg # "answered"
      <4>1. UNCHANGED <<byeSent, answered, ringer, cancel, bye, reason>>
            /\ leg' = "dropped" /\ ~ringing' /\ pc' = "unregister"
        BY <1>22, <3>3 DEF CloseLeg, Drop
      <4>2. answered => bye # "none" \/ cancel = "taken" \/ reason = "accept-failed"
        BY <1>22, <3>1, <3>3 DEF CloseLeg, TypeOK, StatesOK
      <4>3. QED
        BY <3>1, <4>1, <4>2
    <3>4. QED
      BY <3>2, <3>3
  <2>5. ReleaseInv'
    BY <1>22 DEF CloseLeg, Drop
  <2>6. ActiveInv'
    BY <1>22 DEF CloseLeg, Drop
  <2>7. QED
    BY <2>1, <2>2, <2>3, <2>4, <2>5, <2>6
<1>23. CASE ByeDone
  <2>1. LockInv'
    BY <1>23 DEF ByeDone
  <2>2. LegInv'
    BY <1>23 DEF ByeDone
  <2>3. PhaseInv'
    BY <1>23 DEF ByeDone
  <2>4. DropInv'
    BY <1>23 DEF ByeDone
  <2>5. ReleaseInv'
    BY <1>23 DEF ByeDone
  <2>6. ActiveInv'
    BY <1>23 DEF ByeDone
  <2>7. QED
    BY <2>1, <2>2, <2>3, <2>4, <2>5, <2>6
<1>24. CASE Unregister
  BY <1>24 DEF Unregister
<1>25. CASE Return
  BY <1>25 DEF Return
<1>26. CASE RingerTick
  BY <1>26 DEF RingerTick, ringerFrame
<1>27. CASE RingerSend
  BY <1>27 DEF RingerSend, ringerFrame
<1>28. CASE RingerStop
  BY <1>28 DEF RingerStop, ringerFrame
<1>29. CASE RingerCancel
  BY <1>29 DEF RingerCancel, ringerFrame
<1>30. CASE RingerReject
  BY <1>30 DEF RingerReject, ringerFrame, RespondAndDrop, Drop
<1>31. CASE ByeDrop
  BY <1>31 DEF ByeDrop, byeFrame, DropSilently, Drop
<1>32. CASE ByeCancelsCall
  BY <1>32 DEF ByeCancelsCall, byeFrame
<1>33. CASE PinDigit
  BY <1>33 DEF PinDigit, Close, StartClose
<1>34. CASE PinEnter
  BY <1>34 DEF PinEnter, Close, StartClose
<1>35. CASE ByeArrives
  <2>1. LockInv'
    BY <1>35 DEF ByeArrives, byeFrame
  <2>2. LegInv'
    BY <1>35 DEF ByeArrives, byeFrame
  <2>3. PhaseInv'
    BY <1>35 DEF ByeArrives, byeFrame
  <2>4. DropInv'
    BY <1>35 DEF ByeArrives, byeFrame
  <2>5. ReleaseInv'
    BY <1>35 DEF ByeArrives, byeFrame
  <2>6. ActiveInv'
    BY <1>35 DEF ByeArrives, byeFrame
  <2>7. QED
    BY <2>1, <2>2, <2>3, <2>4, <2>5, <2>6
<1>36. CASE CancelArrives
  BY <1>36 DEF CancelArrives, ringerFrame
<1>37. CASE AckArrives
  BY <1>37 DEF AckArrives
<1>38. CASE DeadlineExpires
  BY <1>38 DEF DeadlineExpires, envFrame
<1>39. CASE ClosedFromOutside
  BY <1>39 DEF ClosedFromOutside, envFrame
<1>40. CASE RoomCloses
  BY <1>40 DEF RoomCloses, envFrame
<1>41. CASE RoomSubscribed
  BY <1>41 DEF RoomSubscribed, envFrame
<1>42. CASE MediaSilence
  BY <1>42 DEF MediaSilence, envFrame
<1>43. CASE UNCHANGED vars
  BY <1>43 DEF vars
<1>44. QED
  BY <1>1, <1>2, <1>3, <1>4, <1>5, <1>6, <1>7, <1>8, <1>9, <1>10, <1>11, <1>12,
     <1>13, <1>14, <1>15, <1>16, <1>17, <1>18, <1>19, <1>20, <1>21, <1>22, <1>23, <1>24,
     <1>25, <1>26, <1>27, <1>28, <1>29, <1>30, <1>31, <1>32, <1>33, <1>34, <1>35, <1>36,
     <1>37, <1>38, <1>39, <1>40, <1>41, <1>42, <1>43
     DEF Next, InConf, HandlerStep, RingerStep, ByeStep, EnvStep

------------------------------------------------------------------------------
LEMMA Invariance == Spec => []IInv
<1>1. IInv /\ [Next]_vars => IInv'
  BY StepType, StepSafe DEF IInv, SafeInv
<1>2. QED
  BY <1>1, InitIInv, PTL DEF Spec

\* Every variable keeps its type, the retry counter and its delay their bounds.
THEOREM TypeCorrect == Spec => []TypeOK
  BY Invariance, PTL DEF IInv

\* Handler, ringer and BYE goroutine together ask for one final response.
THEOREM OneFinal == Spec => []AtMostOneFinal
<1>1. IInv => AtMostOneFinal
  BY DEF IInv, LegInv, AtMostOneFinal
<1>2. QED
  BY <1>1, Invariance, PTL

\* No 180 after a final response, wherever the ringer was when it was sent.
THEOREM NoLateRing == Spec => []NoLateRinging
<1>1. IInv => NoLateRinging
  BY DEF IInv, LegInv, NoLateRinging
<1>2. QED
  BY <1>1, Invariance, PTL

\* The final response is the last one, but for a failed repetition of the 200.
THEOREM LastIsFinal == Spec => []FinalIsLast
  BY OneFinal, NoLateRing, PTL DEF FinalIsLast

\* The two ways an answered dialog is abandoned without a BYE are the only ones.
THEOREM HungUp == Spec => []AnsweredIsHungUp
<1>1. IInv => AnsweredIsHungUp
  BY DEF IInv, DropInv, PhaseInv, AnsweredIsHungUp, NoDialogYet
<1>2. QED
  BY <1>1, Invariance, PTL

\* A BYE needs a dialog and is sent once.
THEOREM ByeInDialog == Spec => []ByeOnlyInDialog
<1>1. IInv => ByeOnlyInDialog
  BY DEF IInv, DropInv, ByeOnlyInDialog
<1>2. QED
  BY <1>1, Invariance, PTL

\* Every path out of handleInvite releases everything.
THEOREM Released == Spec => []ReleasedAtEnd
<1>1. IInv => ReleasedAtEnd
  BY DEF IInv, TypeOK, StatesOK, LockInv, PhaseInv, DropInv, ReleaseInv, ReleasedAtEnd,
         NoDialogYet
<1>2. QED
  BY <1>1, Invariance, PTL

\* ACTIVE is reported only for an answered, joined and, if required, acknowledged call.
THEOREM ActiveEstablished == Spec => []ActiveIsEstablished
<1>1. IInv => ActiveIsEstablished
  BY DEF IInv, ActiveInv, ActiveIsEstablished
<1>2. QED
  BY <1>1, Invariance, PTL

\* Nothing brings a dropped leg back: the only steps that answer a leg hold c.mu from the
\* test of inviteTx on.
THEOREM DroppedForGood == Spec => LegStaysDropped
<1>1. IInv /\ [Next]_vars => (leg = "dropped" => leg' = "dropped")
  <2> SUFFICES ASSUME LegInv, [Next]_vars, leg = "dropped" PROVE leg' = "dropped"
    BY DEF IInv
  <2>1. CASE Accept
    BY <2>1 DEF Accept, legVars
  <2>2. CASE AcceptGotAck \/ AcceptRetry
    BY <2>2 DEF AcceptGotAck, AcceptRetry, LegInv
  <2>3. CASE RejectInvite \/ DispatchRefuse \/ RunMediaFails \/ CloseLeg \/ RingerReject \/ ByeDrop
    BY <2>3 DEF RejectInvite, DispatchRefuse, RunMediaFails, CloseLeg, RingerReject, ByeDrop,
         RespondAndDrop, DropSilently, Drop
  <2>4. CASE StartRinging \/ RingerSend \/ ByeDone
    BY <2>4 DEF StartRinging, RingerSend, ByeDone
  <2>5. CASE UNCHANGED legVars
    BY <2>5 DEF legVars
  <2>6. [Next]_vars => \/ Accept \/ AcceptGotAck \/ AcceptRetry \/ RejectInvite
                       \/ DispatchRefuse \/ RunMediaFails \/ CloseLeg \/ RingerReject
                       \/ ByeDrop \/ StartRinging \/ RingerSend \/ ByeDone
                       \/ UNCHANGED legVars
    BY DEF Next, InConf, HandlerStep, RingerStep, ByeStep, EnvStep, AdmitInvite, DispatchRoom,
         RunMedia, RegisterTransfer, ConnectRoom, PublishTrack, PublishTrackFails,
         WaitSubscribe, WaitMedia, PinInterrupted, Activate, LoopExit, LoopAck,
         LoopAckTimeout, Unregister, Return, RingerTick, RingerStop, RingerCancel,
         ByeCancelsCall, PinDigit, PinEnter, ByeArrives, CancelArrives, AckArrives,
         DeadlineExpires, ClosedFromOutside, RoomCloses, RoomSubscribed, MediaSilence,
         envFrame, vars
  <2>7. QED
    BY <2>1, <2>2, <2>3, <2>4, <2>5, <2>6
<1>2. QED
  BY <1>1, Invariance, PTL DEF Spec, LegStaysDropped

\* The handler's BYE and the caller's do not cross once the caller's was processed.
THEOREM NoCrossingBye == Spec => NoByeAfterBye
<1>1. [Next]_vars /\ byeSent' # byeSent => leg = "answered"
  BY DEF Next, InConf, HandlerStep, RingerStep, ByeStep, EnvStep, RejectInvite, AdmitInvite,
       StartRinging, DispatchRoom, DispatchRefuse, RunMedia, RunMediaFails,
       RegisterTransfer, ConnectRoom, PublishTrack, PublishTrackFails, WaitSubscribe,
       Accept, AcceptGotAck, AcceptRetry, Accepted, WaitMedia, PinInterrupted, Activate,
       LoopExit, LoopAck, LoopAckTimeout, CloseLeg, ByeDone, Unregister, Return,
       RingerTick, RingerSend, RingerStop, RingerCancel, RingerReject, ByeDrop,
       ByeCancelsCall, PinDigit, PinEnter, ByeArrives, CancelArrives, AckArrives,
       DeadlineExpires, ClosedFromOutside, RoomCloses, RoomSubscribed, MediaSilence,
       RespondAndDrop, DropSilently, envFrame, legVars, vars
<1>2. IInv /\ leg = "answered" => bye \in {"none", "answered"}
  BY DEF IInv, TypeOK, StatesOK, DropInv
<1>3. IInv /\ [Next]_vars => (byeSent' # byeSent => bye \in {"none", "answered"})
  BY <1>1, <1>2
<1>4. QED
  BY <1>3, Invariance, PTL DEF Spec, NoByeAfterBye

------------------------------------------------------------------------------
(* The call implements SipLeg.                                              *)

\* What the leg was and is, as the steps of one kind see it.
LegDrops == leg' = "dropped" /\ byeSent' = byeSent /\ sessionEnds' = sessionEnds
LegRests == UNCHANGED <<leg, byeSent, sessionEnds>>
LegAnswers == leg' = "answered" /\ byeSent' = byeSent /\ sessionEnds' = sessionEnds

\* Every step is of one kind.
LEMMA LegKinds ==
    ASSUME [Next]_vars
    PROVE  \/ LegRests
           \/ LegDrops
           \/ (Accept \/ AcceptGotAck \/ AcceptRetry) /\ LegAnswers
           \/ CloseLeg
           \/ Unregister
<1> USE DEF LegRests, LegDrops, LegAnswers, reportVars, legVars
<1>1. CASE Accept
  BY <1>1 DEF Accept, AfterAccept, Close, StartClose
<1>2. CASE AcceptGotAck
  BY <1>2 DEF AcceptGotAck, Accepted, AfterAccept
<1>3. CASE AcceptRetry
  BY <1>3 DEF AcceptRetry, Accepted, AfterAccept, Close, StartClose
<1>4. CASE RejectInvite
  BY <1>4 DEF RejectInvite, RespondAndDrop, DropSilently, Drop
<1>5. CASE DispatchRefuse
  BY <1>5 DEF DispatchRefuse, RespondAndDrop, DropSilently, Drop, Close, StartClose
<1>6. CASE RunMediaFails \/ RingerReject \/ ByeDrop
  BY <1>6 DEF RunMediaFails, RingerReject, ByeDrop, RespondAndDrop, DropSilently, Drop,
       ringerFrame, byeFrame
<1>7. CASE CloseLeg \/ Unregister
  BY <1>7
<1>8. CASE AdmitInvite \/ StartRinging \/ DispatchRoom \/ RunMedia
  BY <1>8 DEF AdmitInvite, StartRinging, DispatchRoom, RunMedia
<1>9. CASE RegisterTransfer \/ ConnectRoom \/ PublishTrack \/ PublishTrackFails
  BY <1>9 DEF RegisterTransfer, ConnectRoom, PublishTrack, PublishTrackFails, Close, StartClose
<1>10. CASE WaitSubscribe \/ WaitMedia \/ PinInterrupted \/ PinDigit \/ PinEnter
  BY <1>10 DEF WaitSubscribe, WaitMedia, PinInterrupted, PinDigit, PinEnter, Close,
       CloseWithReason, StartClose
<1>11. CASE Activate \/ LoopExit \/ LoopAck \/ LoopAckTimeout \/ ByeDone \/ Return
  BY <1>11 DEF Activate, LoopExit, LoopAck, LoopAckTimeout, ByeDone, Return, Close,
       CloseWithReason, StartClose
<1>12. CASE RingerTick \/ RingerSend \/ RingerStop \/ RingerCancel
  BY <1>12 DEF RingerTick, RingerSend, RingerStop, RingerCancel, ringerFrame
<1>13. CASE ByeArrives \/ ByeCancelsCall
  BY <1>13 DEF ByeArrives, ByeCancelsCall, byeFrame
<1>14. CASE EnvStep
  BY <1>14 DEF EnvStep, PinDigit, PinEnter, ByeArrives, CancelArrives, AckArrives,
       DeadlineExpires, ClosedFromOutside, RoomCloses, RoomSubscribed, MediaSilence,
       envFrame, byeFrame, ringerFrame, Close, StartClose
<1>15. CASE UNCHANGED vars
  BY <1>15 DEF vars
<1> QED
  BY <1>1, <1>2, <1>3, <1>4, <1>5, <1>6, <1>7, <1>8, <1>9, <1>10, <1>11, <1>12, <1>13,
     <1>14, <1>15 DEF Next, InConf, HandlerStep, RingerStep, ByeStep

LEMMA LegInit == Init => Leg!Init
  BY DEF Init, Leg!Init

\* The 200 that Accept sent is the Answer, a drop the Leave, the BYE of close the HangUp, the
\* end of close the EndSession.
LEMMA LegStep == IInv /\ [Next]_vars => [Leg!Next]_(Leg!vars)
<1> SUFFICES ASSUME IInv, [Next]_vars PROVE [Leg!Next]_(Leg!vars)
  OBVIOUS
<1> USE DEF Leg!Next, Leg!vars, Leg!Answer, Leg!HangUp, Leg!Leave, Leg!EndSession
<1>t. /\ byeSent \in {0, 1} /\ sessionEnds \in {0, 1}
      /\ leg \in {"early", "answered", "dropped"}
  BY DEF IInv, TypeOK, StatesOK, CountersOK, DropInv, ReleaseInv
<1>1. CASE LegRests
  BY <1>1 DEF LegRests
<1>2. CASE LegDrops
  BY <1>t, <1>2 DEF LegDrops
<1>3. CASE (Accept \/ AcceptGotAck \/ AcceptRetry) /\ LegAnswers
  <2>1. leg = "early" \/ leg' = leg
    BY <1>3 DEF Accept, AcceptGotAck, AcceptRetry, Close, StartClose, legVars, IInv, LegInv
  <2> QED BY <1>3, <2>1 DEF LegAnswers
<1>4. CASE CloseLeg
  <2>1. sessionEnds' = sessionEnds /\ leg' = "dropped"
    BY <1>4 DEF CloseLeg, Drop, reportVars
  <2>2. leg = "answered" => byeSent = 0 /\ byeSent' = 1
    BY <1>t, <1>4 DEF CloseLeg, IInv, DropInv
  <2>3. leg # "answered" => byeSent' = byeSent
    BY <1>4 DEF CloseLeg
  <2> QED BY <1>t, <2>1, <2>2, <2>3
<1>5. CASE Unregister
  <2>1. leg = "dropped" /\ sessionEnds = 0
    BY <1>5 DEF Unregister, IInv, DropInv, ReleaseInv
  <2>2. leg' = leg /\ byeSent' = byeSent /\ sessionEnds' = 1
    BY <1>5, <2>1 DEF Unregister, legVars
  <2> QED BY <2>1, <2>2
<1> QED BY LegKinds, <1>1, <1>2, <1>3, <1>4, <1>5

\* Handler, ringer and BYE goroutine together are a SipLeg for the caller and the session handler.
THEOREM Implements == Spec => ImplementsSipLeg
  BY LegInit, LegStep, Invariance, PTL DEF Spec, ImplementsSipLeg, Leg!Spec
==============================================================================
