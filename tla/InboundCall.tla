----------------------------- MODULE InboundCall -----------------------------
(***************************************************************************)
(* One inbound SIP call of pkg/sip/inbound.go, from the INVITE to the end  *)
(* of handleInvite.  Three goroutines share the call:                      *)
(*                                                                         *)
(*   - the handler: processInvite / handleInvite / close (variable pc);    *)
(*   - the ringer started by StartRinging (variable ringer);               *)
(*   - the goroutine that serves a BYE: onBye (variable bye).              *)
(*                                                                         *)
(* They meet in sipInbound, whose fields are protected by c.mu.  Accept    *)
(* and sendBye keep c.mu across a wait, so mu has an owner here; every     *)
(* other critical section is one step taken while mu is free.              *)
(*                                                                         *)
(* The environment is the caller (CANCEL, ACK, BYE, DTMF, RTP silence),    *)
(* the LiveKit room, Server.Stop and the handler's RPCs, whose answers are *)
(* chosen freely.                                                          *)
(***************************************************************************)
EXTENDS Naturals

CONSTANTS
    HideInboundPort,    \* conf.HideInboundPort
    RetryAttempts,      \* inviteOKRetryAttempts
    RetryAttemptsNoACK, \* inviteOKRetryAttemptsNoACK
    PinLimit            \* pinLimit of pinPrompt

ASSUME ConfigAssumption == HideInboundPort \in BOOLEAN

ASSUME LimitAssumption ==
    /\ RetryAttempts \in Nat
    /\ RetryAttemptsNoACK \in Nat
    /\ PinLimit \in Nat

VARIABLES
    \* what the call finds when it arrives, and keeps
    waitACK,     \* conf.Experimental.InboundWaitACK
    reliable,    \* legTr # UDP
    \* the handler goroutine
    pc,          \* where processInvite / handleInvite / close stands
    reason,      \* reason passed to close; "none" until done is set
    retErr,      \* handleInvite is about to return an error
    infoError,   \* state.callInfo.Error was set by closeWithReason
    report,      \* last SIPCallInfo.CallStatus sent to the IO service
    sessionEnds, \* number of OnSessionEnd notifications
    registered,  \* the call is in Server.activeCalls
    topic,       \* the transfer topic is registered
    \* the signalling leg, sipInbound
    mu,          \* owner of c.mu across steps: "free" or "handler"
    leg,         \* "early": inviteTx; "answered": inviteOk; "dropped": neither
    ringing,     \* c.ringing # nil, the ringer's stop channel is open
    ringer,      \* the ringing goroutine
    cancel,      \* CANCEL: waiting in tx.Cancels(), or taken (c.cancelled closed)
    bye,         \* the goroutine serving the caller's BYE
    closeReason, \* Reason header stored by Bye
    ctxDone,     \* the context handleInvite runs under is cancelled or expired
    \* what was put on the wire
    finals,      \* final responses to the INVITE, retransmissions not counted
    answered,    \* a 200 was sent
    lateRinging, \* a 180 was sent after a final response
    byeSent,     \* BYE requests sent to the caller
    \* Accept and the late ACK
    try, retryAfter, waited, \* retry loop of Accept, times in units of 250 ms
    acked,       \* the fuse broken by AcceptAck
    gotAck,      \* an ACK reached the call, by either way
    ackReceived, \* handleInvite's channel: "nil", "watch" or "taken"
    ackTimeout,  \* handleInvite's timer: "nil", "armed" or "fired"
    noAck,       \* handleInvite's local variable
    \* the room, the media port and the pin prompt
    room, subscribed, media, mediaTimeout, pinCall, pin

confVars   == <<waitACK, reliable>>
reportVars == <<reason, retErr, infoError, report, sessionEnds, registered, topic>>
legVars    == <<mu, leg, ringing, finals, answered, lateRinging, byeSent>>
byeVars    == <<bye, closeReason, ctxDone>>
retryVars  == <<try, retryAfter, waited>>
lateVars   == <<ackReceived, ackTimeout, noAck>>
ackVars    == <<acked, gotAck, lateVars>>
roomVars   == <<room, subscribed>>
mediaVars  == <<media, mediaTimeout>>
pinVars    == <<pinCall, pin>>

vars == <<confVars, pc, ringer, cancel, reportVars, legVars, byeVars, retryVars, ackVars,
          roomVars, mediaVars, pinVars>>

\* inviteOkRetryInterval and inviteOkRetryIntervalMax, in units of 250 ms
RetryInterval    == 1
RetryIntervalMax == 12

\* maxRetries in Accept
MaxRetries ==
    IF reliable THEN 1 ELSE IF waitACK THEN RetryAttempts ELSE RetryAttemptsNoACK

PCs == {"invite", "ring", "dispatch", "media", "accept", "acking", "waitMedia",
        "pin", "join", "connect", "publish", "waitSubscribe", "activate", "loop",
        "closeLeg", "byeWait", "unregister", "return", "end", "panic"}

Reasons == {"none", "unexpected-result", "flood", "no-dispatch", "media-failed",
            "no-ack", "accept-failed", "cancelled", "hangup", "media-timeout",
            "wrong-pin", "participant-failed", "publish-failed",
            "cannot-subscribe", "removed"}

\* The type invariant: the counters apart from the rest, which a proof treats alike.
CountersOK ==
    /\ sessionEnds \in Nat /\ finals \in Nat /\ byeSent \in Nat
    /\ pin \in Nat /\ waited \in Nat
    /\ try \in Nat /\ try <= MaxRetries + 1
    /\ retryAfter \in Nat /\ retryAfter <= RetryIntervalMax

StatesOK ==
    /\ pc \in PCs
    /\ reason \in Reasons
    /\ report \in {"none", "incoming", "active", "disconnected", "error"}
    /\ mu \in {"free", "handler"}
    /\ leg \in {"early", "answered", "dropped"}
    /\ ringer \in {"idle", "select", "tick", "reject", "done"}
    /\ cancel \in {"none", "pending", "taken"}
    /\ bye \in {"none", "answered", "dropped", "done"}
    /\ closeReason \in {"none", "normal", "abnormal"}
    /\ ackReceived \in {"nil", "watch", "taken"}
    /\ ackTimeout \in {"nil", "armed", "fired"}
    /\ room \in {"new", "joined", "closed"}
    /\ media \in {"nil", "open", "closed"}

CallFlagsOK ==
    retErr \in BOOLEAN /\ infoError \in BOOLEAN /\ registered \in BOOLEAN /\ topic \in BOOLEAN

LegFlagsOK ==
    ringing \in BOOLEAN /\ answered \in BOOLEAN /\ lateRinging \in BOOLEAN /\ ctxDone \in BOOLEAN

AckFlagsOK == acked \in BOOLEAN /\ gotAck \in BOOLEAN /\ noAck \in BOOLEAN

RoomFlagsOK == subscribed \in BOOLEAN /\ mediaTimeout \in BOOLEAN /\ pinCall \in BOOLEAN

ConfOK == waitACK \in BOOLEAN /\ reliable \in BOOLEAN

TypeOK ==
    ConfOK /\ CountersOK /\ StatesOK /\ CallFlagsOK /\ LegFlagsOK /\ AckFlagsOK /\ RoomFlagsOK

Init ==
    /\ waitACK \in BOOLEAN /\ reliable \in BOOLEAN
    /\ pc = "invite"
    /\ reason = "none" /\ retErr = FALSE /\ infoError = FALSE
    /\ report = "none" /\ sessionEnds = 0
    /\ registered = FALSE /\ topic = FALSE
    /\ mu = "free" /\ leg = "early" /\ ringing = FALSE
    /\ ringer = "idle" /\ cancel = "none"
    /\ bye = "none" /\ closeReason = "none" /\ ctxDone = FALSE
    /\ finals = 0 /\ answered = FALSE /\ lateRinging = FALSE /\ byeSent = 0
    /\ try = 0 /\ retryAfter = 0 /\ waited = 0
    /\ acked = FALSE /\ gotAck = FALSE
    /\ ackReceived = "nil" /\ ackTimeout = "nil" /\ noAck = FALSE
    /\ room = "new" /\ subscribed = FALSE
    /\ media = "nil" /\ mediaTimeout = FALSE
    /\ pinCall = FALSE /\ pin = 0

------------------------------------------------------------------------------
(* sipInbound: the operations the goroutines call on the leg.               *)

\* drop: stops the ringer, terminates the transaction, clears invite and inviteOk.
Drop == leg' = "dropped" /\ ringing' = FALSE

\* RespondAndDrop: a final response if the transaction is still there, then drop.
RespondAndDrop ==
    /\ mu = "free"
    /\ finals' = IF leg = "early" THEN finals + 1 ELSE finals
    /\ Drop
    /\ UNCHANGED <<mu, answered, lateRinging, byeSent>>

\* Mutant of DropSilently: c.mu is not taken.
DropUnlocked ==
    /\ Drop
    /\ UNCHANGED <<mu, finals, answered, lateRinging, byeSent>>

\* Drop, AcceptBye: forget the transaction without an answer.
DropSilently ==
    /\ mu = "free"
    /\ Drop
    /\ UNCHANGED <<mu, finals, answered, lateRinging, byeSent>>

------------------------------------------------------------------------------
(* The handler goroutine, before the call exists: processInvite.            *)

\* Every way processInvite ends before newInboundCall.  A refusal that comes after
\* GetAuthCredentials has a CallState, which the deferred function reports as ERROR.
RejectInvite ==
    /\ pc = "invite"
    /\ \/ /\ HideInboundPort                       \* ValidateInvite failed
          /\ DropSilently
          /\ UNCHANGED report
       \/ /\ RespondAndDrop                        \* 400, or 503 without credentials
          /\ UNCHANGED report
       \/ /\ DropSilently                          \* AuthDrop
          /\ report' = "error"
       \/ /\ RespondAndDrop                        \* AuthNotFound
          /\ report' = "error"
       \/ /\ finals' = finals + 1                  \* handleInviteAuth: 407 or 401
          /\ report' = "error"
          /\ UNCHANGED <<mu, leg, ringing, answered, lateRinging, byeSent>>
    /\ pc' = "end"
    /\ retErr' = TRUE
    /\ UNCHANGED <<reason, infoError, sessionEnds, registered, topic, ringer, cancel,
                   byeVars, retryVars, ackVars, roomVars, mediaVars, pinVars>>

\* The INVITE is authorised: newInboundCall registers the call.
AdmitInvite ==
    /\ pc = "invite"
    /\ pc' = "ring"
    /\ report' = "incoming"
    /\ registered' = TRUE
    /\ UNCHANGED <<reason, retErr, infoError, sessionEnds, topic, ringer, cancel, legVars,
                   byeVars, retryVars, ackVars, roomVars, mediaVars, pinVars>>

------------------------------------------------------------------------------
(* The handler goroutine: handleInvite.                                     *)

\* The part of close that only the handler sees: done, setStatus, closeMedia.  The
\* signalling side follows in CloseLeg, ByeDone and Unregister.
StartClose(why, err) ==
    /\ pc' = "closeLeg"
    /\ reason' = why
    /\ retErr' = err
    /\ room' = "closed"
    /\ media' = IF media = "open" THEN "closed" ELSE media
    /\ UNCHANGED <<report, sessionEnds, registered, topic, subscribed, mediaTimeout>>

Close(why, err) == StartClose(why, err) /\ UNCHANGED infoError

\* closeWithCancelled and closeWithHangup: a Reason header that is not a normal
\* clearing becomes the error of the call.
CloseWithReason(why, err) ==
    /\ StartClose(why, err)
    /\ infoError' = (infoError \/ closeReason = "abnormal")

\* The transaction is used without a look: a BYE that has dropped the leg by then left it nil.
StartRinging ==
    /\ pc = "ring"
    /\ mu = "free"
    /\ IF leg = "dropped"
         THEN pc' = "panic" /\ UNCHANGED <<ringing, ringer>>
         ELSE pc' = "dispatch" /\ ringing' = TRUE /\ ringer' = "select"
    /\ UNCHANGED <<mu, leg, finals, answered, lateRinging, byeSent, cancel, reportVars,
                   byeVars, retryVars, ackVars, roomVars, mediaVars, pinVars>>

\* DispatchCall answered with a rule: with or without a pin.
DispatchRoom ==
    /\ pc = "dispatch"
    /\ pc' = "media"
    /\ pinCall' \in BOOLEAN
    /\ UNCHANGED <<pin, ringer, cancel, reportVars, legVars, byeVars, retryVars, ackVars,
                   roomVars, mediaVars>>

\* DispatchCall refused the call.
DispatchRefuse ==
    /\ pc = "dispatch"
    /\ \/ RespondAndDrop /\ Close("unexpected-result", TRUE)
       \/ RespondAndDrop /\ Close("no-dispatch", TRUE)
       \/ DropSilently /\ Close("flood", TRUE)
    /\ UNCHANGED <<ringer, cancel, byeVars, retryVars, ackVars, pinVars>>

\* runMediaConn created the port; a pin call is answered before it joins the room.
RunMedia ==
    /\ pc = "media"
    /\ media' = "open"
    /\ pc' = IF pinCall THEN "accept" ELSE "join"
    /\ UNCHANGED <<mediaTimeout, ringer, cancel, reportVars, legVars, byeVars, retryVars,
                   ackVars, roomVars, pinVars>>

\* runMediaConn failed, before or after NewMediaPort.  The port it may have created is
\* the one closeMedia closes.
RunMediaFails ==
    /\ pc = "media"
    /\ RespondAndDrop
    /\ pc' = "closeLeg"
    /\ reason' = "media-failed" /\ retErr' = TRUE
    /\ room' = "closed"
    /\ media' \in {"nil", "closed"}
    /\ UNCHANGED <<infoError, report, sessionEnds, registered, topic, subscribed,
                   mediaTimeout, ringer, cancel, byeVars, retryVars, ackVars, pinVars>>

\* createLiveKitParticipant: the context is checked, the transfer topic registered.
RegisterTransfer ==
    /\ pc = "join"
    /\ \/ /\ ~ctxDone
          /\ topic' = TRUE
          /\ pc' = "connect"
          /\ UNCHANGED <<reason, retErr, infoError, report, sessionEnds, registered,
                         roomVars, mediaVars>>
       \/ Close("participant-failed", TRUE)     \* ctx.Err, or the registration failed
    /\ UNCHANGED <<ringer, cancel, legVars, byeVars, retryVars, ackVars, pinVars>>

\* Room.Connect does not look at the context.
ConnectRoom ==
    /\ pc = "connect"
    /\ \/ /\ room' = "joined"
          /\ pc' = "publish"
          /\ UNCHANGED <<reportVars, subscribed, mediaVars>>
       \/ Close("participant-failed", TRUE)
    /\ UNCHANGED <<ringer, cancel, legVars, byeVars, retryVars, ackVars, pinVars>>

\* Mutant of PublishTrack: the call goes on without acceptCall.
PublishSkipsAccept ==
    /\ pc = "publish"
    /\ pc' = "activate"
    /\ UNCHANGED <<ringer, cancel, reportVars, legVars, byeVars, retryVars, ackVars,
                   roomVars, mediaVars, pinVars>>

\* publishTrack and Subscribe.
PublishTrack ==
    /\ pc = "publish"
    /\ pc' = IF pinCall THEN "activate" ELSE "waitSubscribe"
    /\ UNCHANGED <<ringer, cancel, reportVars, legVars, byeVars, retryVars, ackVars,
                   roomVars, mediaVars, pinVars>>

PublishTrackFails ==
    /\ pc = "publish"
    /\ Close("publish-failed", TRUE)
    /\ UNCHANGED <<ringer, cancel, legVars, byeVars, retryVars, ackVars, pinVars>>

\* waitSubscribe: the select statement, one disjunct per channel.
WaitSubscribe ==
    /\ pc = "waitSubscribe"
    /\ \/ cancel = "taken" /\ CloseWithReason("cancelled", FALSE)
       \/ ctxDone /\ CloseWithReason("hangup", FALSE)
       \/ room = "closed" /\ CloseWithReason("hangup", TRUE)
       \/ mediaTimeout /\ Close("media-timeout", TRUE)           \* not enabled this early
       \/ Close("cannot-subscribe", TRUE)                        \* RingingTimeout
       \/ /\ subscribed
          /\ pc' = "accept"
          /\ UNCHANGED <<reportVars, roomVars, mediaVars>>
    /\ UNCHANGED <<ringer, cancel, legVars, byeVars, retryVars, ackVars, pinVars>>

\* acceptCall after Accept: the late ACK is awaited only if Accept did not require one.
AfterAccept ==
    /\ pc' = "waitMedia"
    /\ IF waitACK THEN UNCHANGED lateVars
       ELSE ackReceived' = "watch" /\ ackTimeout' = "armed" /\ UNCHANGED noAck
    /\ UNCHANGED <<reportVars, roomVars, mediaVars>>

\* The test that lets Accept return without waiting for the ACK.
NoWait == reliable /\ ~waitACK

\* Accept, up to the first wait: a dropped leg cannot be accepted; a failing Respond
\* leaves the transaction in place; a reliable transport does not wait at all.
Accept ==
    /\ pc = "accept"
    /\ mu = "free"
    /\ \/ /\ leg # "early"
          /\ Close("accept-failed", TRUE)
          /\ UNCHANGED <<legVars, retryVars, lateVars>>
       \/ /\ leg = "early"
          /\ ringing' = FALSE
          /\ Close("accept-failed", TRUE)                         \* Respond failed
          /\ UNCHANGED <<mu, leg, finals, answered, lateRinging, byeSent, retryVars,
                         lateVars>>
       \/ /\ leg = "early"
          /\ ringing' = FALSE
          /\ finals' = finals + 1
          /\ answered' = TRUE
          /\ IF NoWait
               THEN /\ leg' = "answered"
                    /\ AfterAccept
                    /\ UNCHANGED <<mu, retryVars>>
               ELSE /\ mu' = "handler"
                    /\ try' = 1
                    /\ retryAfter' = IF reliable THEN RetryIntervalMax ELSE RetryInterval
                    /\ pc' = "acking"
                    /\ UNCHANGED <<leg, waited, reportVars, lateVars, roomVars,
                                   mediaVars>>
          /\ UNCHANGED <<lateRinging, byeSent>>
    /\ UNCHANGED <<ringer, cancel, byeVars, acked, gotAck, pinVars>>

\* Mutant of Accepted: inviteTx is not cleared.
AcceptedKeepsTx ==
    /\ mu' = "free"
    /\ UNCHANGED <<leg, ringing, finals, answered, lateRinging, byeSent>>

\* accepted: the leg is answered and Accept gives c.mu back.
Accepted ==
    /\ mu' = "free"
    /\ leg' = "answered"
    /\ UNCHANGED <<ringing, finals, answered, lateRinging, byeSent>>

\* An ACK ends the wait: the fuse, or the transaction's own Acks channel, which does
\* not break the fuse.
AcceptGotAck ==
    /\ pc = "acking"
    /\ gotAck' = TRUE
    /\ Accepted
    /\ AfterAccept
    /\ UNCHANGED <<ringer, cancel, byeVars, retryVars, acked, pinVars>>

\* The test that ends the retries.
RetriesDone == try > MaxRetries

\* The retry timer fires: the 200 is sent again, or Accept gives up.  Giving up is an
\* error only under InboundWaitACK.
AcceptRetry ==
    /\ pc = "acking"
    /\ waited' = waited + retryAfter
    /\ \/ /\ RetriesDone
          /\ Accepted
          /\ IF waitACK THEN Close("no-ack", TRUE) /\ UNCHANGED lateVars ELSE AfterAccept
          /\ UNCHANGED <<try, retryAfter>>
       \/ /\ ~RetriesDone
          /\ try' = try + 1
          /\ retryAfter' = IF 2 * retryAfter < RetryIntervalMax
                             THEN 2 * retryAfter ELSE RetryIntervalMax
          /\ \/ UNCHANGED <<pc, reportVars, legVars, lateVars, roomVars, mediaVars>>
             \/ /\ Close("accept-failed", TRUE)                   \* Respond failed
                /\ mu' = "free"
                /\ UNCHANGED <<leg, ringing, finals, answered, lateRinging, byeSent, lateVars>>
    /\ UNCHANGED <<ringer, cancel, byeVars, acked, gotAck, pinVars>>

\* waitMedia: media packets or audioBridgeMaxDelay let the call continue.
WaitMedia ==
    /\ pc = "waitMedia"
    /\ \/ cancel = "taken" /\ CloseWithReason("cancelled", FALSE)
       \/ ctxDone /\ CloseWithReason("hangup", FALSE)
       \/ room = "closed" /\ CloseWithReason("hangup", TRUE)
       \/ mediaTimeout /\ Close("media-timeout", TRUE)
       \/ /\ pc' = IF pinCall THEN "pin" ELSE "activate"
          /\ UNCHANGED <<reportVars, roomVars, mediaVars>>
    /\ UNCHANGED <<ringer, cancel, legVars, byeVars, retryVars, ackVars, pinVars>>

\* pinPrompt: every channel but the DTMF one.
PinInterrupted ==
    /\ pc = "pin"
    /\ \/ cancel = "taken" /\ CloseWithReason("cancelled", FALSE)
       \/ ctxDone /\ CloseWithReason("hangup", FALSE)
       \/ mediaTimeout /\ Close("media-timeout", TRUE)
    /\ UNCHANGED <<ringer, cancel, legVars, byeVars, retryVars, ackVars, pinVars>>

\* A digit: one more than pinLimit of them is a wrong pin.
PinDigit ==
    /\ pc = "pin"
    /\ pin' = pin + 1
    /\ IF pin + 1 > PinLimit
         THEN Close("wrong-pin", TRUE)
         ELSE UNCHANGED <<pc, reportVars, roomVars, mediaVars>>
    /\ UNCHANGED <<pinCall, ringer, cancel, legVars, byeVars, retryVars, ackVars>>

\* The # key: DispatchCall decides about the pin collected so far.
PinEnter ==
    /\ pc = "pin"
    /\ \/ /\ pc' = "join"
          /\ UNCHANGED <<reportVars, roomVars, mediaVars>>
       \/ Close("wrong-pin", TRUE)
    /\ UNCHANGED <<ringer, cancel, legVars, byeVars, retryVars, ackVars, pinVars>>

Activate ==
    /\ pc = "activate"
    /\ pc' = "loop"
    /\ report' = "active"
    /\ UNCHANGED <<reason, retErr, infoError, sessionEnds, registered, topic, ringer, cancel,
                   legVars, byeVars, retryVars, ackVars, roomVars, mediaVars, pinVars>>

\* The main select of handleInvite: the ways out.  It does not watch c.cancelled.
LoopExit ==
    /\ pc = "loop"
    /\ \/ ctxDone /\ CloseWithReason("hangup", FALSE)
       \/ room = "closed" /\ Close("removed", FALSE)
       \/ mediaTimeout /\ noAck /\ Close("no-ack", TRUE)
       \/ mediaTimeout /\ ~noAck /\ Close("media-timeout", TRUE)
    /\ UNCHANGED <<ringer, cancel, legVars, byeVars, retryVars, ackVars, pinVars>>

\* case <-ackReceived: both channels are forgotten.
LoopAck ==
    /\ pc = "loop"
    /\ ackReceived = "watch" /\ acked
    /\ ackReceived' = "taken"
    /\ ackTimeout' = "nil"
    /\ UNCHANGED <<noAck, pc, ringer, cancel, reportVars, legVars, byeVars, retryVars,
                   acked, gotAck, roomVars, mediaVars, pinVars>>

\* case <-ackTimeout: the media timeout is shortened and the missing ACK remembered.
LoopAckTimeout ==
    /\ pc = "loop"
    /\ ackTimeout = "armed"
    /\ ackTimeout' = "fired"
    /\ noAck' = TRUE
    /\ UNCHANGED <<ackReceived, pc, ringer, cancel, reportVars, legVars, byeVars, retryVars,
                   acked, gotAck, roomVars, mediaVars, pinVars>>

------------------------------------------------------------------------------
(* The handler goroutine: the rest of close, and the end of processInvite.  *)

\* CloseWithStatus: a BYE for an answered call, a final response for a call that still
\* has its transaction, and nothing otherwise.  sendBye waits holding c.mu.
CloseLeg ==
    /\ pc = "closeLeg"
    /\ mu = "free"
    /\ Drop
    /\ \/ /\ leg = "answered"
          /\ byeSent' = byeSent + 1
          /\ mu' = "handler"
          /\ pc' = "byeWait"
          /\ UNCHANGED finals
       \/ /\ leg # "answered"
          /\ finals' = IF leg = "early" THEN finals + 1 ELSE finals
          /\ pc' = "unregister"
          /\ UNCHANGED <<mu, byeSent>>
    /\ UNCHANGED <<answered, lateRinging, ringer, cancel, reportVars, byeVars, retryVars,
                   ackVars, roomVars, mediaVars, pinVars>>

\* sendAndACK returned: an answer to the BYE, or the transaction's own timeout.
ByeDone ==
    /\ pc = "byeWait"
    /\ mu' = "free"
    /\ pc' = "unregister"
    /\ UNCHANGED <<leg, ringing, finals, answered, lateRinging, byeSent, ringer, cancel,
                   reportVars, byeVars, retryVars, ackVars, roomVars, mediaVars, pinVars>>

\* Mutant of Unregister: the transfer topic stays registered.
UnregisterKeepsTopic ==
    /\ pc = "unregister"
    /\ registered' = FALSE
    /\ sessionEnds' = sessionEnds + 1
    /\ ctxDone' = TRUE
    /\ pc' = "return"
    /\ UNCHANGED <<topic, reason, retErr, infoError, report, bye, closeReason, ringer, cancel,
                   legVars, retryVars, ackVars, roomVars, mediaVars, pinVars>>

\* The end of close: both maps, the topic, OnSessionEnd, and the context.
Unregister ==
    /\ pc = "unregister"
    /\ registered' = FALSE
    /\ topic' = FALSE
    /\ sessionEnds' = sessionEnds + 1
    /\ ctxDone' = TRUE
    /\ pc' = "return"
    /\ UNCHANGED <<reason, retErr, infoError, report, bye, closeReason, ringer, cancel,
                   legVars, retryVars, ackVars, roomVars, mediaVars, pinVars>>

\* handleInvite returns; its deferred close finds done set.  The deferred function of
\* processInvite reports the end of the call.
Return ==
    /\ pc = "return"
    /\ pc' = "end"
    /\ report' = IF retErr /\ ~infoError THEN "error" ELSE "disconnected"
    /\ UNCHANGED <<reason, retErr, infoError, sessionEnds, registered, topic, ringer, cancel,
                   legVars, byeVars, retryVars, ackVars, roomVars, mediaVars, pinVars>>

------------------------------------------------------------------------------
(* The ringing goroutine.                                                   *)

ringerFrame == <<pc, reportVars, byeVars, retryVars, ackVars, roomVars, mediaVars, pinVars>>

\* case <-ticker.C: the 180 waits for c.mu, and is sent if the transaction is there.
RingerTick ==
    /\ ringer = "select"
    /\ ringer' = "tick"
    /\ UNCHANGED <<cancel, legVars, ringerFrame>>

RingerSend ==
    /\ ringer = "tick"
    /\ mu = "free"
    /\ ringer' = "select"
    /\ lateRinging' = (lateRinging \/ (leg = "early" /\ finals > 0))
    /\ UNCHANGED <<cancel, mu, leg, ringing, finals, answered, byeSent, ringerFrame>>

RingerStop ==
    /\ ringer = "select"
    /\ ~ringing
    /\ ringer' = "done"
    /\ UNCHANGED <<cancel, legVars, ringerFrame>>

\* case <-cancels: the call is marked cancelled and the CANCEL is answered; the INVITE
\* is refused with 487 once c.mu is free.
RingerCancel ==
    /\ ringer = "select"
    /\ cancel = "pending"
    /\ cancel' = "taken"
    /\ ringer' = "reject"
    /\ UNCHANGED <<legVars, ringerFrame>>

RingerReject ==
    /\ ringer = "reject"
    /\ RespondAndDrop
    /\ ringer' = "done"
    /\ UNCHANGED <<cancel, ringerFrame>>

------------------------------------------------------------------------------
(* The goroutine that serves a BYE: onBye, AcceptBye, Bye.                  *)

byeFrame == <<pc, ringer, cancel, reportVars, retryVars, ackVars, roomVars, mediaVars, pinVars>>

\* The BYE finds the call in activeCalls, from its registration on: only the From tag is looked
\* at.  It is answered 200 before c.mu is taken.
ByeArrives ==
    /\ bye = "none"
    /\ registered
    /\ bye' = "answered"
    /\ UNCHANGED <<closeReason, ctxDone, legVars, byeFrame>>

ByeDrop ==
    /\ bye = "answered"
    /\ DropSilently
    /\ bye' = "dropped"
    /\ UNCHANGED <<closeReason, ctxDone, byeFrame>>

\* Mutant of ByeCancelsCall: the reason is stored, the context is not cancelled.
ByeOnlyStoresReason ==
    /\ bye = "dropped"
    /\ bye' = "done"
    /\ closeReason' \in {"normal", "abnormal"}
    /\ UNCHANGED <<ctxDone, legVars, byeFrame>>

\* Bye: the reason is stored before the context is cancelled.
ByeCancelsCall ==
    /\ bye = "dropped"
    /\ bye' = "done"
    /\ closeReason' \in {"normal", "abnormal"}
    /\ ctxDone' = TRUE
    /\ UNCHANGED <<legVars, byeFrame>>

------------------------------------------------------------------------------
(* The environment.                                                         *)

\* A CANCEL reaches the INVITE transaction; it has no effect once a final response was
\* sent, so the caller's side of the transaction does not deliver it then.
CancelArrives ==
    /\ cancel = "none"
    /\ ringer # "idle"
    /\ finals = 0
    /\ leg = "early"
    /\ cancel' = "pending"
    /\ UNCHANGED <<legVars, ringer, ringerFrame>>

\* onAck: the caller acknowledges a 200 and the call is found.
AckArrives ==
    /\ answered /\ registered /\ ~acked
    /\ acked' = TRUE
    /\ gotAck' = TRUE
    /\ UNCHANGED <<lateVars, pc, ringer, cancel, reportVars, legVars, byeVars, retryVars,
                   roomVars, mediaVars, pinVars>>

envFrame == <<pc, ringer, cancel, reportVars, legVars, bye, closeReason, retryVars, ackVars,
              pinVars>>

\* Where the context with the MaxCallDuration timeout is in force.
Limited ==
    pc \in {"join", "connect", "publish", "waitSubscribe", "activate", "loop"}
           \cup IF pinCall THEN {} ELSE {"accept", "acking", "waitMedia"}

DeadlineExpires ==
    /\ Limited
    /\ ~ctxDone
    /\ ctxDone' = TRUE
    /\ UNCHANGED <<envFrame, roomVars, mediaVars>>

\* inboundCall.Close from outside: Server.Stop, or the hang-up that follows a transfer.
ClosedFromOutside ==
    /\ registered
    /\ ~ctxDone
    /\ ctxDone' = TRUE
    /\ UNCHANGED <<envFrame, roomVars, mediaVars>>

\* The LiveKit room disconnects the participant.
RoomCloses ==
    /\ room = "joined"
    /\ room' = "closed"
    /\ UNCHANGED <<envFrame, ctxDone, subscribed, mediaVars>>

\* A participant's track is subscribed to.
RoomSubscribed ==
    /\ room = "joined"
    /\ ~subscribed
    /\ subscribed' = TRUE
    /\ UNCHANGED <<envFrame, ctxDone, room, mediaVars>>

\* The media port detects silence; its timeout is enabled by acceptCall.
MediaSilence ==
    /\ media = "open"
    /\ pc \in {"waitMedia", "pin", "join", "connect", "publish", "activate", "loop"}
    /\ answered
    /\ ~mediaTimeout
    /\ mediaTimeout' = TRUE
    /\ UNCHANGED <<envFrame, ctxDone, roomVars, media>>

------------------------------------------------------------------------------
\* Steps of the handler that it takes by itself; PinDigit and PinEnter need the caller.
HandlerStep ==
    \/ RejectInvite \/ AdmitInvite
    \/ StartRinging \/ DispatchRoom \/ DispatchRefuse \/ RunMedia \/ RunMediaFails
    \/ RegisterTransfer \/ ConnectRoom \/ PublishTrack \/ PublishTrackFails
    \/ WaitSubscribe \/ Accept \/ AcceptGotAck \/ AcceptRetry \/ WaitMedia
    \/ PinInterrupted \/ Activate \/ LoopExit \/ LoopAck \/ LoopAckTimeout
    \/ CloseLeg \/ ByeDone \/ Unregister \/ Return

RingerStep == RingerTick \/ RingerSend \/ RingerStop \/ RingerCancel \/ RingerReject

ByeStep == ByeDrop \/ ByeCancelsCall

EnvStep ==
    \/ PinDigit \/ PinEnter
    \/ ByeArrives \/ CancelArrives \/ AckArrives
    \/ DeadlineExpires \/ ClosedFromOutside
    \/ RoomCloses \/ RoomSubscribed \/ MediaSilence

\* A step of the call, which does not change what it was configured with.  A nil dereference
\* ends the process, and every goroutine with it.
InConf(step) == pc # "panic" /\ step /\ UNCHANGED confVars

Next == InConf(HandlerStep \/ RingerStep \/ ByeStep \/ EnvStep)

Spec == Init /\ [][Next]_vars

\* Goroutines make progress and timers fire.
Fairness ==
    /\ WF_vars(InConf(HandlerStep))
    /\ WF_vars(InConf(ByeStep))
    /\ WF_vars(InConf(RingerSend)) /\ WF_vars(InConf(RingerReject))
    /\ SF_vars(InConf(RingerStop))
    /\ WF_vars(InConf(DeadlineExpires))

FairSpec == Spec /\ Fairness

------------------------------------------------------------------------------
(* Safety.                                                                  *)

\* The INVITE transaction is asked for one final response at most, whichever of the
\* handler, the ringer and the BYE goroutine gets to the leg first.  The exception is a
\* Respond that failed while the 200 was being repeated: Accept returns with inviteTx
\* still set, and close then asks the transaction for a 486.
AtMostOneFinal == finals > 1 => finals = 2 /\ answered /\ reason = "accept-failed"

\* No 180 follows a final response: a tick that was waiting for c.mu while Accept held it
\* finds inviteTx gone.  The exception is the same failed repetition, which leaves it.
NoLateRinging == lateRinging => answered /\ reason = "accept-failed"

\* Both: nothing of the INVITE is answered after its final response.
FinalIsLast == AtMostOneFinal /\ NoLateRinging

\* A call that was answered is hung up: when close is done, a BYE went one way or the
\* other, unless the ringer dropped the leg for a CANCEL it took during Accept, or the
\* 200 could not be repeated.  The two exceptions are the only ones.
AnsweredIsHungUp ==
    (pc \in {"unregister", "return", "end"} /\ answered)
        => byeSent = 1 \/ bye # "none" \/ cancel = "taken" \/ reason = "accept-failed"

\* A BYE is only sent in a dialog we answered, once, and the leg is gone afterwards.
ByeOnlyInDialog == byeSent > 0 => byeSent = 1 /\ answered /\ leg = "dropped"

\* Whatever path the call took, when processInvite returns nothing is left behind: the
\* registry entry, the transfer topic, the media port, the room, the lock, the ringer's
\* stop channel; and a call that was admitted ended its session once.
ReleasedAtEnd ==
    pc = "end" =>
        /\ ~registered /\ ~topic /\ media # "open" /\ mu = "free" /\ ~ringing
        /\ IF reason = "none" THEN report \in {"none", "error"} /\ sessionEnds = 0
                              ELSE room = "closed" /\ sessionEnds = 1

\* ACTIVE is only reported for a call that was answered and joined its room, and under
\* InboundWaitACK only for one whose 200 was acknowledged.
ActiveIsEstablished ==
    report = "active" => /\ answered
                         /\ room # "new"
                         /\ waitACK => gotAck

\* Once the leg is dropped nothing brings it back: Accept keeps c.mu from the test of
\* inviteTx to accepted(), so neither a BYE nor a CANCEL is undone by a late accepted().
LegStaysDropped == [][leg = "dropped" => leg' = "dropped"]_vars

\* The leg as its caller and the session handler see it.
Leg == INSTANCE SipLeg WITH
    phase  <- CASE leg = "early" -> "setup" [] leg = "answered" -> "up" [] OTHER -> "over",
    hungUp <- byeSent > 0,
    ended  <- sessionEnds > 0

\* The call implements SipLeg: the dialog is answered once, nothing revives it, one BYE at
\* most is sent, and its session ends once, when the leg is down.
ImplementsSipLeg == Leg!Spec

\* Once a BYE from the caller was processed the handler does not send one of its own.
NoByeAfterBye == [][byeSent' # byeSent => bye \in {"none", "answered"}]_vars

------------------------------------------------------------------------------
(* Liveness.                                                                *)

\* A caller's BYE ends the call, and every admitted call ends, by MaxCallDuration if by
\* nothing else, unless the caller stays at the pin prompt.  The BYE that comes before the
\* call rings is the other exception: it ends the process (RingsOrEnds).
CallEnds ==
    /\ bye = "answered" ~> pc \in {"end", "panic"}
    /\ pc = "ring" ~> pc \in {"pin", "end", "panic"}

------------------------------------------------------------------------------
(* What the code's comments say and the code does not do.                   *)

\* "no ACK received for 200 OK" (errNoACK): the call whose ACK the main loop has taken
\* ("all good, disable timeout") is not closed for want of an ACK.
NoAckMeansNoAck == reason = "no-ack" => ackReceived # "taken"

\* CloseWithStatus "either sends BYE or terminates INVITE": every answered call the
\* caller did not hang up gets a BYE.
ClosedCleanly ==
    (pc = "end" /\ answered /\ reason # "accept-failed") => byeSent = 1 \/ bye # "none"

\* "mark as closed" (AcceptBye): a BYE marks the leg, and whoever uses it next finds it closed.
\* StartRinging does not look: a BYE that comes between the registration and the ringing has
\* set inviteTx to nil, and tx.Cancels() panics.
RingsOrEnds == pc # "panic"

\* "Still retry, but limit it to ~750ms": without InboundWaitACK, Accept over UDP waits
\* for the ACK three units of 250 ms at most.
RetryWindow == ~waitACK /\ ~reliable => waited <= 3

\* "maxCallDuration sets a global max call duration": no call stays at the pin prompt for
\* ever.
PinPromptEnds == pc = "pin" ~> pc # "pin"
==============================================================================
