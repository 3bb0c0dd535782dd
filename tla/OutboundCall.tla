---------------------------- MODULE OutboundCall ----------------------------
(***************************************************************************)
(* One outbound call of pkg/sip/outbound.go, from createSIPParticipant to  *)
(* the end of WaitClose.  The goroutines that meet in it:                  *)
(*                                                                         *)
(*   - dial: newCall, Dial (ConnectSIP), WaitClose (variable pc);          *)
(*   - the RPC that created the call, whose deferred function reports a    *)
(*     status of its own (variable rpc);                                   *)
(*   - the goroutine that serves the callee's BYE (variable bye);          *)
(*   - Client.Stop (variable stop);                                        *)
(*   - the timer that hangs up after a transfer (variable transferred).    *)
(*                                                                         *)
(* c.mu is held by ConnectSIP from the INVITE to the end of the set-up and *)
(* by every close; cc.mu is held by sipOutbound.Invite and, while the      *)
(* callee answers the BYE, by sipOutbound.sendBye.                         *)
(***************************************************************************)
EXTENDS Naturals

CONSTANTS
    HasCredentials,     \* a user name and a password are configured
    AuthTries           \* INVITEs that Invite sends before it gives up

ASSUME OutboundAssumption ==
    /\ HasCredentials \in BOOLEAN
    /\ AuthTries \in Nat \ {0}

VARIABLES
    pc,           \* where the dialling goroutine stands
    panic,        \* what was nil when a goroutine panicked, "no" if none did
    rpc,          \* "dials" with req.WaitUntilAnswered, else "async", until it has reported
    dialFailed,   \* Dial or newCall returned an error
    report,       \* last SIPCallInfo.CallStatus sent to the IO service
    infoError,    \* state.callInfo.Error is set
    gauge,        \* this call's contribution to the calls_active metric
    sessionEnds,  \* number of OnSessionEnd notifications
    timedOut,     \* WaitClose returns the media timeout
    ctxDone,      \* the context of Dial, or the ringing timeout, has expired
    \* the call
    mu,           \* owner of c.mu
    closeAt,      \* where the goroutine inside stopped.Once stands
    stopped,      \* c.stopped
    started,      \* c.started
    dialedClosed, \* ConnectSIP took c.mu of a call that was closed already
    registered,   \* the call is in Client.activeCalls
    indexed,      \* the call is in Client.byRemote
    topic,        \* the transfer topic is registered
    room,         \* c.lkRoom: "nil", "joined", or "closed" (r.room is nil)
    disconnected, \* the room's stopped fuse
    media,        \* c.media
    mediaTimeout, \* c.media.Timeout() is closed
    \* the signalling leg, sipOutbound
    ccmu,         \* cc.mu, when held across a wait
    leg,          \* "up": invite and inviteOk are set
    accepted,     \* Invite stored a 200
    noTag,        \* that 200 had no tag in its To header
    rejected,     \* SetAnswer or SetConfig refused the answer
    crossed,      \* a 200 met the CANCEL, or came after it: nobody took it
    ack,          \* the ACK of the 200: "none", "sent", or "failed" on its way
    tries, byes,
    resp,         \* the response waiting in the INVITE transaction
    \* the other goroutines
    bye, stop, transferred

reportVars == <<rpc, dialFailed, report, infoError, gauge, sessionEnds, timedOut>>
closeVars  == <<closeAt, stopped, room, media>>
indexVars  == <<registered, indexed, topic>>
envVars    == <<ctxDone, disconnected, mediaTimeout>>
legVars    == <<ccmu, leg, accepted, noTag, byes>>
inviteVars == <<tries, resp, crossed>>
flagVars   == <<started, dialedClosed, rejected, ack>>
others     == <<bye, stop, transferred>>

vars == <<pc, panic, mu, reportVars, closeVars, indexVars, envVars, legVars,
          inviteVars, flagVars, others>>

Closers == {"dial", "wait", "bye", "stop", "transfer"}

StatesOK ==
    /\ pc \in {"media", "join", "register", "dial", "invite", "inviteErr", "inviteBye",
               "connectErr", "answer", "index", "ack", "dtmf", "connect", "report",
               "ensure", "wait", "setError", "waitClosing", "end", "panic"}
    /\ panic \in {"no", "media", "room", "client"}
    /\ rpc \in {"async", "dials", "done"}
    /\ report \in {"none", "joined", "active", "disconnected", "error"}
    /\ mu \in {"free"} \cup Closers
    /\ closeAt \in {"idle", "leg", "byeWait", "unregister"}
    /\ room \in {"nil", "joined", "closed"}
    /\ media \in {"nil", "open", "closed"}
    /\ ccmu \in {"free", "invite", "bye"}
    /\ leg \in {"none", "up"}
    /\ ack \in {"none", "sent", "failed"}
    /\ resp \in {"none", "ok", "okNoTag", "auth", "busy", "error"}
    /\ bye \in {"none", "accept", "close", "done"}
    /\ stop \in {"none", "closing", "swapped", "close", "wait", "done"}

CountersOK ==
    /\ gauge \in {0, 1} /\ sessionEnds \in {0, 1}
    /\ tries \in 0..AuthTries /\ byes \in 0..2

FlagsOK ==
    /\ dialFailed \in BOOLEAN /\ infoError \in BOOLEAN /\ ctxDone \in BOOLEAN
    /\ stopped \in BOOLEAN /\ started \in BOOLEAN /\ dialedClosed \in BOOLEAN
    /\ registered \in BOOLEAN /\ indexed \in BOOLEAN /\ topic \in BOOLEAN
    /\ disconnected \in BOOLEAN /\ mediaTimeout \in BOOLEAN /\ accepted \in BOOLEAN
    /\ noTag \in BOOLEAN /\ rejected \in BOOLEAN /\ transferred \in BOOLEAN
    /\ timedOut \in BOOLEAN /\ crossed \in BOOLEAN

TypeOK == StatesOK /\ CountersOK /\ FlagsOK

Init ==
    /\ pc = "media" /\ panic = "no"
    /\ rpc \in {"async", "dials"} /\ dialFailed = FALSE /\ report = "none" /\ infoError = FALSE
    /\ gauge = 0 /\ sessionEnds = 0 /\ timedOut = FALSE
    /\ mu = "free" /\ closeAt = "idle" /\ stopped = FALSE
    /\ started = FALSE /\ dialedClosed = FALSE /\ rejected = FALSE /\ ack = "none"
    /\ registered = FALSE /\ indexed = FALSE /\ topic = FALSE
    /\ room = "nil" /\ media = "nil"
    /\ ctxDone = FALSE /\ disconnected = FALSE /\ mediaTimeout = FALSE
    /\ ccmu = "free" /\ leg = "none" /\ accepted = FALSE /\ noTag = FALSE /\ byes = 0
    /\ tries = 0 /\ resp = "none" /\ crossed = FALSE
    /\ bye = "none" /\ stop = "none" /\ transferred = FALSE

closing == stop # "none"       \* Client.closing

\* Client.Stop has set sipCli to nil: a request panics.
NoClient == stop = "done"

\* A nil dereference ends the process, and every goroutine with it.
Alive == pc # "panic"

Panic(what) ==
    /\ pc' = "panic"
    /\ panic' = what
    /\ UNCHANGED <<mu, reportVars, closeVars, indexVars, envVars, legVars, inviteVars,
                   flagVars, others>>

------------------------------------------------------------------------------
(* outboundCall.close, run once under c.mu by the goroutine w.              *)

\* Up to stopSIP: the error is reported, the media port and the room are closed.  A
\* second close finds the fuse broken and returns at once.
BeginClose(w, err) ==
    IF stopped THEN
        /\ mu' = "free"
        /\ UNCHANGED <<reportVars, closeVars>>
    ELSE
        /\ mu' = w
        /\ stopped' = TRUE
        /\ closeAt' = "leg"
        /\ report' = IF err /\ ~infoError THEN "error" ELSE report
        /\ infoError' = (infoError \/ err)
        /\ media' = "closed"
        /\ room' = IF room = "joined" THEN "closed" ELSE room
        /\ UNCHANGED <<rpc, dialFailed, gauge, sessionEnds, timedOut>>

\* Mutants of HangUp: the BYE leaves the leg up; a shut-down client sends no BYE.
HangUpKeepsLeg == byes' = byes + 1 /\ ccmu' = "bye" /\ leg' = leg
HangUpSkipped  == byes' = byes + (IF closing THEN 0 ELSE 1) /\ ccmu' = "free" /\ leg' = "none"

\* sendBye: with the client shutting down, the BYE is written without waiting and the
\* leg is left as it is.
HangUp ==
    /\ byes' = byes + 1
    /\ ccmu' = IF closing THEN "free" ELSE "bye"
    /\ leg' = IF closing THEN leg ELSE "none"

\* Mutant of CloseLeg: the leg is left as it is.
CloseSkipsLeg ==
    /\ Alive
    /\ closeAt = "leg"
    /\ closeAt' = "unregister"
    /\ UNCHANGED <<pc, panic, mu, reportVars, stopped, room, media, indexVars, envVars, legVars,
                   inviteVars, flagVars, others>>

\* stopSIP: cc.Close.
CloseLeg ==
    /\ Alive
    /\ closeAt = "leg"
    /\ ccmu = "free"
    /\ \/ /\ leg = "up" /\ NoClient
          /\ Panic("client")
       \/ /\ leg = "up" /\ ~NoClient
          /\ HangUp
          /\ closeAt' = "byeWait"
          /\ UNCHANGED <<pc, panic, mu, reportVars, stopped, room, media, indexVars, envVars,
                         accepted, noTag, inviteVars, flagVars, others>>
       \/ /\ leg = "none"
          /\ closeAt' = "unregister"
          /\ UNCHANGED <<pc, panic, mu, reportVars, stopped, room, media, indexVars, envVars,
                         legVars, inviteVars, flagVars, others>>

\* The callee answers the BYE, or its transaction times out.
CloseByeDone ==
    /\ Alive
    /\ closeAt = "byeWait"
    /\ closeAt' = "unregister"
    /\ ccmu' = "free"
    /\ UNCHANGED <<pc, panic, mu, reportVars, stopped, room, media, indexVars, envVars, leg,
                   accepted, noTag, byes, inviteVars, flagVars, others>>

\* Mutant of Unregister: the transfer topic stays.
UnregisterKeepsTopic ==
    /\ Alive
    /\ closeAt = "unregister"
    /\ closeAt' = "idle"
    /\ mu' = "free"
    /\ registered' = FALSE /\ indexed' = FALSE
    /\ sessionEnds' = sessionEnds + 1
    /\ UNCHANGED <<topic, pc, panic, rpc, dialFailed, report, infoError, gauge, timedOut, stopped,
                   room, media, envVars, legVars, inviteVars, flagVars, others>>

\* The rest of close, and the unlock of c.mu.
Unregister ==
    /\ Alive
    /\ closeAt = "unregister"
    /\ closeAt' = "idle"
    /\ mu' = "free"
    /\ registered' = FALSE /\ indexed' = FALSE /\ topic' = FALSE
    /\ sessionEnds' = sessionEnds + 1
    /\ UNCHANGED <<pc, panic, rpc, dialFailed, report, infoError, gauge, timedOut, stopped, room,
                   media, envVars, legVars, inviteVars, flagVars, others>>

------------------------------------------------------------------------------
(* The dialling goroutine: newCall.                                         *)

\* NewMediaPort failed: newCall closes the call, whose media port is nil.
MediaFails == pc = "media" /\ Panic("media")

MediaOpens ==
    /\ pc = "media"
    /\ media' = "open"
    /\ pc' = "join"
    /\ UNCHANGED <<panic, mu, reportVars, closeAt, stopped, room, indexVars, envVars, legVars,
                   inviteVars, flagVars, others>>

\* connectToRoom: the topic first, then the room and the track.
JoinRoom ==
    /\ pc = "join"
    /\ topic' = TRUE
    /\ \/ /\ room' = "joined"
          /\ pc' = "register"
          /\ UNCHANGED <<mu, reportVars, closeAt, stopped, media>>
       \/ /\ dialFailed' = TRUE                    \* the call is closed without c.mu
          /\ pc' = "end"
          /\ mu' = "dial" /\ closeAt' = "leg" /\ stopped' = TRUE
          /\ infoError' = TRUE /\ report' = "error"
          /\ media' = "closed"
          /\ UNCHANGED <<rpc, gauge, sessionEnds, timedOut, room>>
    /\ UNCHANGED <<panic, registered, indexed, envVars, legVars, inviteVars, flagVars, others>>

\* The call enters activeCalls; Dial starts.
Register ==
    /\ pc = "register"
    /\ registered' = TRUE
    /\ pc' = "dial"
    /\ gauge' = 1
    /\ UNCHANGED <<panic, mu, rpc, dialFailed, report, infoError, sessionEnds, timedOut, closeVars,
                   indexed, topic, envVars, legVars, inviteVars, flagVars, others>>

------------------------------------------------------------------------------
(* The dialling goroutine: ConnectSIP.                                      *)

Fail == pc' = "connectErr" /\ dialFailed' = TRUE

\* ConnectSIP takes c.mu, Invite takes cc.mu and sends the INVITE.
SendInvite ==
    /\ pc = "dial"
    /\ mu = "free"
    /\ \/ NoClient /\ Panic("client")
       \/ /\ ~NoClient
          /\ pc' = "invite"
          /\ mu' = "dial"
          /\ ccmu' = "invite"
          /\ tries' = 1
          /\ dialedClosed' = stopped
          /\ UNCHANGED <<panic, reportVars, closeVars, indexVars, envVars, leg, accepted,
                         noTag, byes, resp, crossed, started, rejected, ack, others>>

\* The callee's final response reaches the transaction.
Respond ==
    /\ pc = "invite"
    /\ resp = "none"
    /\ resp' \in {"ok", "okNoTag", "auth", "busy", "error"}
    /\ UNCHANGED <<pc, panic, mu, reportVars, closeVars, indexVars, envVars, legVars, tries,
                   crossed, flagVars, others>>

\* sipResponse returned a 200: Invite stores the request and the response.
InviteOk ==
    /\ pc = "invite"
    /\ resp \in {"ok", "okNoTag"}
    /\ leg' = "up" /\ accepted' = TRUE
    /\ noTag' = (resp = "okNoTag")
    /\ ccmu' = "free"
    /\ IF resp = "ok" THEN pc' = "answer" /\ UNCHANGED dialFailed
                      ELSE pc' = "inviteErr" /\ dialFailed' = TRUE
    /\ resp' = "none"
    /\ UNCHANGED <<panic, mu, rpc, report, infoError, gauge, sessionEnds, timedOut, closeVars,
                   indexVars, envVars, byes, tries, crossed, flagVars, others>>

\* A challenge is answered with a new INVITE, even after the client began to stop.
InviteAuth ==
    /\ pc = "invite"
    /\ resp = "auth"
    /\ HasCredentials /\ tries < AuthTries
    /\ \/ NoClient /\ Panic("client")
       \/ /\ ~NoClient
          /\ tries' = tries + 1
          /\ resp' = "none"
          /\ UNCHANGED <<pc, panic, mu, reportVars, closeVars, indexVars, envVars, legVars,
                         crossed, flagVars, others>>

\* The callee refused, or a challenge cannot be answered.
InviteFails ==
    /\ pc = "invite"
    /\ \/ resp \in {"busy", "error"}
       \/ resp = "auth" /\ (~HasCredentials \/ tries = AuthTries)
    /\ pc' = "inviteErr"
    /\ dialFailed' = TRUE
    /\ ccmu' = "free"
    /\ UNCHANGED <<panic, mu, rpc, report, infoError, gauge, sessionEnds, timedOut, closeVars,
                   indexVars, envVars, leg, accepted, noTag, byes, inviteVars, flagVars, others>>

\* The INVITE is cancelled by a timeout, the room, Client.Stop or an earlier close, and its
\* transaction terminated.  A 200 that waits in it, or meets the CANCEL, is lost.
InviteCancelled ==
    /\ pc = "invite"
    /\ ctxDone \/ disconnected \/ closing \/ stopped
    /\ pc' = "inviteErr"
    /\ dialFailed' = TRUE
    /\ ccmu' = "free"
    /\ crossed' \in IF resp = "none" THEN BOOLEAN ELSE {resp \in {"ok", "okNoTag"}}
    /\ resp' = "none"
    /\ UNCHANGED <<panic, mu, rpc, report, infoError, gauge, sessionEnds, timedOut, closeVars,
                   indexVars, envVars, leg, accepted, noTag, byes, tries, flagVars, others>>

\* tx.Done: the transaction ended without a final response.
TransactionFails ==
    /\ pc = "invite"
    /\ resp = "none"
    /\ pc' = "inviteErr"
    /\ dialFailed' = TRUE
    /\ ccmu' = "free"
    /\ UNCHANGED <<panic, mu, rpc, report, infoError, gauge, sessionEnds, timedOut, closeVars,
                   indexVars, envVars, leg, accepted, noTag, byes, inviteVars, flagVars, others>>

\* sipSignal closes the leg of an INVITE that failed.
InviteErr ==
    /\ pc = "inviteErr"
    /\ ccmu = "free"
    /\ \/ leg = "up" /\ NoClient /\ Panic("client")
       \/ /\ leg = "up" /\ ~NoClient
          /\ HangUp
          /\ pc' = "inviteBye"
          /\ UNCHANGED <<panic, mu, reportVars, closeVars, indexVars, envVars, accepted, noTag,
                         inviteVars, flagVars, others>>
       \/ /\ leg = "none"
          /\ pc' = "connectErr"
          /\ UNCHANGED <<panic, mu, reportVars, closeVars, indexVars, envVars, legVars,
                         inviteVars, flagVars, others>>

InviteByeDone ==
    /\ pc = "inviteBye"
    /\ pc' = "connectErr"
    /\ ccmu' = "free"
    /\ UNCHANGED <<panic, mu, reportVars, closeVars, indexVars, envVars, leg, accepted, noTag,
                   byes, inviteVars, flagVars, others>>

\* SetAnswer and SetConfig: a refused answer is not acknowledged, nor one that comes when the
\* media port is closed already.
Answer ==
    /\ pc = "answer"
    /\ \/ media = "open" /\ pc' = "index" /\ UNCHANGED <<rejected, dialFailed>>
       \/ Fail /\ rejected' = TRUE
    /\ UNCHANGED <<panic, mu, rpc, report, infoError, gauge, sessionEnds, timedOut, closeVars,
                   indexVars, envVars, legVars, inviteVars, started, dialedClosed, ack, others>>

\* The callee's tag enters byRemote, and its BYE can be served from here on.
Index ==
    /\ pc = "index"
    /\ indexed' = TRUE
    /\ pc' = "ack"
    /\ UNCHANGED <<panic, mu, reportVars, closeVars, registered, topic, envVars, legVars,
                   inviteVars, flagVars, others>>

\* AckInviteOK: its request may fail, and the call with it.
Ack ==
    /\ pc = "ack"
    /\ ccmu = "free"
    /\ \/ leg = "up" /\ NoClient /\ Panic("client")
       \/ /\ leg = "up" /\ ~NoClient
          /\ \/ pc' = "dtmf" /\ ack' = "sent" /\ UNCHANGED dialFailed
             \/ Fail /\ ack' = "failed"
          /\ UNCHANGED <<panic, mu, rpc, report, infoError, gauge, sessionEnds, timedOut,
                         closeVars, indexVars, envVars, legVars, inviteVars, started,
                         dialedClosed, rejected, others>>
       \/ /\ leg = "none"
          /\ Fail
          /\ UNCHANGED <<panic, mu, rpc, report, infoError, gauge, sessionEnds, timedOut,
                         closeVars, indexVars, envVars, legVars, inviteVars, flagVars, others>>

\* The initial digits of dialSIP.
WriteDTMF ==
    /\ pc = "dtmf"
    /\ \/ pc' = "connect" /\ UNCHANGED dialFailed
       \/ Fail
    /\ UNCHANGED <<panic, mu, rpc, report, infoError, gauge, sessionEnds, timedOut, closeVars,
                   indexVars, envVars, legVars, inviteVars, flagVars, others>>

\* connectMedia, started, Subscribe, and the unlock of c.mu.
Connect ==
    /\ pc = "connect"
    /\ pc' = "report"
    /\ started' = TRUE
    /\ mu' = "free"
    /\ UNCHANGED <<panic, reportVars, closeVars, indexVars, envVars, legVars, inviteVars,
                   dialedClosed, rejected, ack, others>>

\* ConnectSIP closes the call that failed; a busy or an absent callee is no error.
ConnectErr ==
    /\ pc = "connectErr"
    /\ pc' = "ensure"
    /\ BeginClose("dial", resp # "busy")
    /\ UNCHANGED <<panic, indexVars, envVars, legVars, inviteVars, flagVars, others>>

------------------------------------------------------------------------------
(* The dialling goroutine: the rest of Dial, and WaitClose.                 *)

\* Dial reads c.lkRoom.room without c.mu and without a check.
ReportActive ==
    /\ pc = "report"
    /\ \/ room = "closed" /\ Panic("room")
       \/ /\ room = "joined"
          /\ report' = "active"
          /\ pc' = "ensure"
          /\ UNCHANGED <<panic, mu, rpc, dialFailed, infoError, gauge, sessionEnds, timedOut,
                         closeVars, indexVars, envVars, legVars, inviteVars, flagVars, others>>

\* The deferred functions of Dial, the same after a success and after a failure:
\* ensureClosed, CallEnd, and the cancellation of its context.
DialReturns ==
    /\ pc = "ensure"
    /\ mu # "dial"
    /\ report' = IF infoError THEN "error" ELSE "disconnected"
    /\ gauge' = 0
    /\ pc' = IF dialFailed THEN "end" ELSE "wait"
    /\ UNCHANGED <<panic, mu, rpc, dialFailed, infoError, sessionEnds, timedOut, closeVars,
                   indexVars, envVars, legVars, inviteVars, flagVars, others>>

\* WaitClose: the select statement.
WaitClose ==
    /\ pc = "wait"
    /\ \/ stopped /\ pc' = "waitClosing" /\ UNCHANGED <<mu, reportVars, closeVars>>
       \/ disconnected /\ mu = "free" /\ pc' = "waitClosing" /\ BeginClose("wait", FALSE)
       \/ mediaTimeout /\ mu = "free" /\ pc' = "setError" /\ BeginClose("wait", TRUE)
    /\ UNCHANGED <<panic, indexVars, envVars, legVars, inviteVars, flagVars, others>>

\* Mutant of SetErrStatus: the error is left to close, which may have run already.
SetErrStatusSkipped ==
    /\ pc = "setError"
    /\ mu # "wait"
    /\ pc' = "waitClosing"
    /\ timedOut' = TRUE
    /\ UNCHANGED <<panic, mu, rpc, dialFailed, report, infoError, gauge, sessionEnds, closeVars,
                   indexVars, envVars, legVars, inviteVars, flagVars, others>>

\* setErrStatus after closeWithTimeout: an error that is recorded already stays.
SetErrStatus ==
    /\ pc = "setError"
    /\ mu # "wait"
    /\ pc' = "waitClosing"
    /\ timedOut' = TRUE
    /\ report' = IF infoError THEN report ELSE "error"
    /\ infoError' = TRUE
    /\ UNCHANGED <<panic, mu, rpc, dialFailed, gauge, sessionEnds, closeVars, indexVars,
                   envVars, legVars, inviteVars, flagVars, others>>

\* The deferred ensureClosed of WaitClose.
WaitReturns ==
    /\ pc = "waitClosing"
    /\ mu # "wait"
    /\ report' = IF infoError THEN "error" ELSE "disconnected"
    /\ pc' = "end"
    /\ UNCHANGED <<panic, mu, rpc, dialFailed, infoError, gauge, sessionEnds, timedOut, closeVars,
                   indexVars, envVars, legVars, inviteVars, flagVars, others>>

\* The deferred function of createSIPParticipant.  An asynchronous RPC reports whenever
\* it is scheduled; one that waits reports when newCall or Dial has returned.
RPCReturns ==
    /\ Alive
    /\ rpc # "done"
    /\ \/ pc \in {"wait", "waitClosing", "end"} /\ mu # "dial"
       \/ rpc = "async" /\ room # "nil" /\ pc # "register"
    /\ rpc' = "done"
    /\ LET failed == dialFailed /\ (rpc = "dials" \/ room = "nil") IN
         /\ report' = IF failed THEN "error" ELSE "joined"
         /\ infoError' = (infoError \/ failed)
    /\ UNCHANGED <<pc, panic, mu, dialFailed, gauge, sessionEnds, timedOut, closeVars,
                   indexVars, envVars, legVars, inviteVars, flagVars, others>>

------------------------------------------------------------------------------
(* The callee's BYE, Client.Stop, the hang-up after a transfer.             *)

\* onBye finds the call by the callee's tag.
ByeArrives ==
    /\ Alive
    /\ bye = "none"
    /\ indexed
    /\ bye' = "accept"
    /\ UNCHANGED <<pc, panic, mu, reportVars, closeVars, indexVars, envVars, legVars,
                   inviteVars, flagVars, stop, transferred>>

\* AcceptBye: 200, and the leg is dropped.
AcceptBye ==
    /\ Alive
    /\ bye = "accept"
    /\ ccmu = "free"
    /\ leg' = "none"
    /\ bye' = "close"
    /\ UNCHANGED <<pc, panic, mu, reportVars, closeVars, indexVars, envVars, ccmu, accepted,
                   noTag, byes, inviteVars, flagVars, stop, transferred>>

ByeCloses ==
    /\ Alive
    /\ bye = "close"
    /\ mu = "free"
    /\ BeginClose("bye", FALSE)
    /\ bye' = "done"
    /\ UNCHANGED <<pc, panic, indexVars, envVars, legVars, inviteVars, flagVars, stop,
                   transferred>>

StopBegins ==
    /\ Alive
    /\ stop = "none"
    /\ stop' = "closing"
    /\ UNCHANGED <<pc, panic, mu, reportVars, closeVars, indexVars, envVars, legVars,
                   inviteVars, flagVars, bye, transferred>>

\* The maps are replaced; only a call that is registered by now will be closed.
StopSwaps ==
    /\ Alive
    /\ stop = "closing"
    /\ stop' = IF registered THEN "close" ELSE "swapped"
    /\ registered' = FALSE /\ indexed' = FALSE
    /\ UNCHANGED <<pc, panic, mu, reportVars, closeVars, topic, envVars, legVars, inviteVars,
                   flagVars, bye, transferred>>

\* Mutant of StopCloses: the calls that were in the map are forgotten.
StopForgets ==
    /\ Alive
    /\ stop = "close"
    /\ stop' = "wait"
    /\ UNCHANGED <<pc, panic, mu, reportVars, closeVars, indexVars, envVars, legVars,
                   inviteVars, flagVars, bye, transferred>>

\* call.Close: c.mu, then close.
StopCloses ==
    /\ Alive
    /\ stop = "close"
    /\ mu = "free"
    /\ BeginClose("stop", FALSE)
    /\ stop' = "wait"
    /\ UNCHANGED <<pc, panic, indexVars, envVars, legVars, inviteVars, flagVars, bye,
                   transferred>>

StopDone ==
    /\ Alive
    /\ stop = "swapped" \/ (stop = "wait" /\ mu # "stop")
    /\ stop' = "done"
    /\ UNCHANGED <<pc, panic, mu, reportVars, closeVars, indexVars, envVars, legVars,
                   inviteVars, flagVars, bye, transferred>>

\* The timer that transferCall starts when the transfer succeeded.
TransferHangup ==
    /\ Alive
    /\ started /\ ~transferred
    /\ mu = "free"
    /\ transferred' = TRUE
    /\ BeginClose("transfer", FALSE)
    /\ UNCHANGED <<pc, panic, indexVars, envVars, legVars, inviteVars, flagVars, bye, stop>>

------------------------------------------------------------------------------
(* The room, the media port and the timers.                                 *)

\* maxCallDuration of Dial or the ringing timeout.
DeadlineExpires ==
    /\ ~ctxDone
    /\ pc \in {"dial", "invite"}
    /\ ctxDone' = TRUE
    /\ UNCHANGED <<pc, panic, mu, reportVars, closeVars, indexVars, disconnected, mediaTimeout,
                   legVars, inviteVars, flagVars, others>>

RoomDisconnects ==
    /\ Alive
    /\ room # "nil" /\ ~disconnected
    /\ disconnected' = TRUE
    /\ UNCHANGED <<pc, panic, mu, reportVars, closeVars, indexVars, ctxDone, mediaTimeout,
                   legVars, inviteVars, flagVars, others>>

\* The timeout is enabled just before the ACK.
MediaSilence ==
    /\ Alive
    /\ media = "open" /\ ~mediaTimeout
    /\ indexed /\ pc # "index"
    /\ mediaTimeout' = TRUE
    /\ UNCHANGED <<pc, panic, mu, reportVars, closeVars, indexVars, ctxDone, disconnected,
                   legVars, inviteVars, flagVars, others>>

Dialling ==
    \/ MediaFails \/ MediaOpens \/ JoinRoom \/ Register
    \/ SendInvite \/ InviteOk \/ InviteAuth \/ InviteFails \/ InviteCancelled
    \/ InviteErr \/ InviteByeDone \/ Answer \/ Index \/ Ack \/ WriteDTMF \/ Connect \/ ConnectErr
    \/ ReportActive \/ DialReturns \/ WaitClose \/ SetErrStatus \/ WaitReturns

Closing == CloseLeg \/ CloseByeDone \/ Unregister

Serving == AcceptBye \/ ByeCloses

Stopping == StopSwaps \/ StopCloses \/ StopDone

Next ==
    \/ Dialling \/ Closing \/ Serving \/ Stopping \/ RPCReturns
    \/ Respond \/ TransactionFails \/ ByeArrives \/ StopBegins \/ TransferHangup
    \/ DeadlineExpires \/ RoomDisconnects \/ MediaSilence

Spec == Init /\ [][Next]_vars

\* Goroutines run, timers fire and transactions end; the callee, the operator, the room
\* and the media owe nothing.
FairSpec ==
    /\ Spec
    /\ WF_vars(Dialling)
    /\ WF_vars(Closing)
    /\ WF_vars(Serving)
    /\ WF_vars(Stopping)
    /\ WF_vars(RPCReturns)
    /\ WF_vars(DeadlineExpires)

------------------------------------------------------------------------------
(* Properties.                                                              *)

\* The leg as its callee and the session handler see it: set up, up from the 200 to the
\* first BYE, over for good.
Leg == INSTANCE SipLeg WITH
    phase  <- IF ~accepted THEN "setup" ELSE IF leg = "up" /\ byes = 0 THEN "up" ELSE "over",
    hungUp <- byes > 0,
    ended  <- sessionEnds > 0

\* The call implements SipLeg: no goroutine revives a leg that another one dropped, hangs
\* up twice, or ends the session of a call whose leg is still up.
ImplementsSipLeg == Leg!Spec

Over == pc = "end" /\ closeAt = "idle" /\ mu = "free"

Ended == Over \/ ~Alive        \* a process that panicked has no calls

\* A callee that answered is told of the end: the call ends with a BYE from one of the two
\* sides, whatever failed after the 200 (the answer, the ACK, the digits, the room) and
\* whoever closed the call.  Two calls are excepted: one whose 200 crossed the CANCEL, which
\* nobody remembers, and one that Client.Stop closed before ConnectSIP took c.mu, whose close
\* has run already, without a leg.
EstablishedIsHungUp ==
    Over /\ (accepted \/ crossed) => byes > 0 \/ bye # "none" \/ crossed \/ dialedClosed

\* sendBye is called from sipSignal and from close, by any of five goroutines, and drops
\* the leg before it waits: one BYE per call, except when a client that shuts down (whose
\* sendBye does not drop the leg) got a 200 without a tag.  No goroutine gets its BYE in
\* before ConnectSIP has sent the ACK, or failed to, unless it refused the answer.
ByeFollowsAck ==
    /\ byes <= 1 \/ (closing /\ noTag)
    /\ byes > 0 => ack # "none" \/ rejected \/ noTag

\* Whatever way the call ended, its registrations, its room and its media port are gone and
\* OnSessionEnd was called once, also when Client.Stop closed it before it was dialled.
ReleasedAtEnd ==
    Over => /\ ~registered /\ ~indexed /\ ~topic
            /\ room # "joined" /\ media = "closed"
            /\ sessionEnds = 1 /\ ccmu = "free"

\* The last report says how the call ended, not who closed it first.  An established call
\* that WaitClose gave up for its silence is an error, also when a BYE, the room or Client.Stop
\* had closed it cleanly by then; so is a call that could not be dialled, unless the callee was
\* busy or the call had been closed before it was dialled; and no other call is.  The RPC's
\* "joined", when it comes last, hides the end.
ErrorIsReported ==
    Over /\ report # "joined" =>
        /\ timedOut \/ (dialFailed /\ resp # "busy" /\ ~dialedClosed) => report = "error"
        /\ report = "error" => timedOut \/ dialFailed

\* A callee's BYE ends the call, also one that arrives while ConnectSIP holds c.mu; so does
\* Client.Stop, if it found the call, one whose INVITE is under way included; and a lost room
\* or a silent callee ends an established call.
CallEnds ==
    /\ (bye = "accept") ~> Ended
    /\ (stop = "close") ~> Ended
    /\ (pc = "wait" /\ (disconnected \/ mediaTimeout)) ~> Ended

\* outbound.go calls close with "media-failed" when there is no media port: it should
\* close the call, and not dereference the nil port.
MediaFailureCloses == panic # "media"

\* Dial reports the room's SID of an established call; the rest of outbound.go checks
\* that the room is still there.
ReportReadsRoom == panic # "room"

\* calls_active is the "number of currently active SIP calls": an established call that
\* nobody has closed is counted.
EstablishedIsCounted == pc = "wait" /\ ~stopped => gauge = 1

\* maxCallDuration "sets a global max call duration": an established call ends.
DurationIsLimited == started ~> Ended

=============================================================================
