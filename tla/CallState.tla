------------------------------- MODULE CallState -------------------------------
(***************************************************************************)
(* The report of one call to the IO service: CallState of                  *)
(* src/pkg/sip/analytics.go, with the goroutines of a call that write it.   *)
(*                                                                         *)
(* Update and ForceFlush keep s.mu across the request to the IO service, a *)
(* DeferUpdate leaves what it wrote to whoever sends next.  The writers of *)
(* an outbound call are the RPC that created it, the goroutine that dials  *)
(* and waits ("call") and the one that closes it meanwhile (a BYE,         *)
(* Client.Stop, a transfer); an inbound call has its handler ("call").     *)
(* Transfers report themselves, outside the lock.                          *)
(*                                                                         *)
(* External: the IO service, which takes a request and answers, takes it   *)
(* and fails to answer, or does not get it.                                *)
(***************************************************************************)
EXTENDS Naturals, Sequences

CONSTANT Transfers     \* the transfers requested while the call is up

Writers == {"rpc", "call", "closer"}

VARIABLES
    kind,      \* "inbound", or how an outbound call is created: "async" or "waits"
    pc,        \* per writer: where its goroutine stands
    failed,    \* processInvite, newCall or Dial is about to return an error
    stopped,   \* the fuse of outboundCall.close
    \* CallState
    mu,        \* who holds s.mu over a request, or "free"
    info,      \* s.callInfo
    dirty,     \* s.dirty
    \* the IO service
    sending,   \* the writers whose request is under way
    sent,      \* per writer: its last request
    remote,    \* what the service knows of the call
    \* the transfers
    tpc,       \* where each stands
    heard      \* the statuses the service got of it

callVars     == <<kind, failed, stopped>>
stateVars    == <<mu, info, dirty, sending, sent>>
transferVars == <<tpc, heard>>
vars == <<pc, callVars, stateVars, remote, transferVars>>

\* version counts the updates; fields that no property tells apart are left out.
Info == [status : {"none", "incoming", "joined", "active", "disconnected", "error"},
         error : BOOLEAN, ended : BOOLEAN, version : Nat]

NoInfo == [status |-> "none", error |-> FALSE, ended |-> FALSE, version |-> 0]

Reports == {"ongoing", "success", "failed"}

TypeOK ==
    /\ kind \in {"inbound", "async", "waits"}
    /\ pc \in [Writers -> {"idle", "new", "newFails", "waiting", "report", "closing", "auth",
                           "dispatch", "media", "setup", "dial", "dialling", "refused",
                           "failing", "connected", "ensure", "returned", "loop", "setError",
                           "final", "reported", "closed", "end", "panic"}]
    /\ failed \in BOOLEAN /\ stopped \in BOOLEAN /\ dirty \in BOOLEAN
    /\ mu \in Writers \cup {"free"} /\ sending \subseteq Writers
    /\ info \in Info /\ sent \in [Writers -> Info] /\ remote \in Info
    /\ tpc \in [Transfers -> {"none", "starting", "store", "running", "success", "failed", "done"}]
    /\ heard \in [Transfers -> Seq(Reports)]

\* NewCallState: what was passed is dirty.
Init ==
    /\ kind \in {"inbound", "async", "waits"}
    /\ pc = [w \in Writers |-> IF w = (IF kind = "inbound" THEN "call" ELSE "rpc") THEN "new" ELSE "idle"]
    /\ failed = FALSE /\ stopped = FALSE
    /\ mu = "free" /\ dirty = TRUE /\ sending = {}
    /\ info = IF kind = "inbound" THEN [NoInfo EXCEPT !.status = "incoming"] ELSE NoInfo
    /\ sent = [w \in Writers |-> NoInfo] /\ remote = NoInfo
    /\ tpc = [t \in Transfers |-> "none"] /\ heard = [t \in Transfers |-> <<>>]

------------------------------------------------------------------------------
(* The operations of CallState, called by the writer w.                     *)

\* A bug: the lock is given up before the request.
SendUnlocked(w, i) ==
    /\ mu = "free" /\ mu' = "free"
    /\ sending' = sending \cup {w} /\ sent' = [sent EXCEPT ![w] = i] /\ info' = i

\* flush: s.mu is held until the answer.
Send(w, i) ==
    /\ mu = "free" /\ mu' = w
    /\ sending' = sending \cup {w} /\ sent' = [sent EXCEPT ![w] = i] /\ info' = i

\* The report with another status, and with whatever else an update changes.
Set(status, error, ended) ==
    [status |-> status, error |-> error, ended |-> ended, version |-> info.version + 1]

Touch == Set(info.status, info.error, info.ended)

Update(w, i) == Send(w, i) /\ dirty' = TRUE

ForceFlush(w) == Send(w, info) /\ UNCHANGED dirty

Flush(w) == IF dirty THEN ForceFlush(w) ELSE mu = "free" /\ UNCHANGED stateVars

DeferUpdate(i) ==
    /\ mu = "free"
    /\ info' = i /\ dirty' = TRUE
    /\ UNCHANGED <<mu, sending, sent>>

\* A bug: what was sent counts as delivered.
DirtyAfterSend(ok) == FALSE

\* dirty is only reset when the service has answered.
DirtyAfter(ok) == IF ok THEN FALSE ELSE dirty

\* A bug: the lock is kept when the request fails.
AnswerKeepsLock(w, taken, ok) ==
    /\ w \in sending /\ sending' = sending \ {w}
    /\ mu' = IF ok THEN "free" ELSE mu
    /\ remote' = IF taken THEN sent[w] ELSE remote
    /\ dirty' = DirtyAfter(ok)
    /\ UNCHANGED <<pc, callVars, info, sent, transferVars>>

Answer(w, taken, ok) ==
    /\ w \in sending /\ sending' = sending \ {w}
    /\ mu' = "free"
    /\ remote' = IF taken THEN sent[w] ELSE remote
    /\ dirty' = DirtyAfter(ok)
    /\ UNCHANGED <<pc, callVars, info, sent, transferVars>>

Delivered(w) == Answer(w, TRUE, TRUE)

Lost(w) == Answer(w, TRUE, FALSE) \/ Answer(w, FALSE, FALSE)

\* The goroutine of w goes on; it does not while its request is under way.
Goto(w, p, q) == w \notin sending /\ pc[w] = p /\ pc' = [pc EXCEPT ![w] = q]

frame == <<kind, remote, transferVars>>

------------------------------------------------------------------------------
(* The handler of an inbound call.                                          *)

InboundNew ==
    /\ kind = "inbound" /\ Goto("call", "new", "auth")
    /\ Flush("call")
    /\ UNCHANGED <<failed, stopped, frame>>

\* The INVITE is refused, or becomes a call whose dispatch is reported.
InboundAuth ==
    /\ \/ Goto("call", "auth", "final") /\ failed' = TRUE
       \/ Goto("call", "auth", "dispatch") /\ UNCHANGED failed
    /\ UNCHANGED <<stopped, stateVars, frame>>

InboundDispatch ==
    /\ Goto("call", "dispatch", "media")
    /\ Update("call", Touch)
    /\ UNCHANGED <<failed, stopped, frame>>

\* runMediaConn: the codec of the answer.
InboundMedia ==
    /\ Goto("call", "media", "setup")
    /\ DeferUpdate(Touch)
    /\ UNCHANGED <<failed, stopped, frame>>

\* handleInvite fails before the call is up: an error, not yet in the report.
InboundFails ==
    /\ Goto("call", pc["call"], "final") /\ pc["call"] \in {"media", "setup"}
    /\ kind = "inbound" /\ failed' = TRUE
    /\ UNCHANGED <<stopped, stateVars, frame>>

InboundActive ==
    /\ Goto("call", "setup", "loop")
    /\ Update("call", Set("active", info.error, info.ended))
    /\ UNCHANGED <<failed, stopped, frame>>

\* closeWithReason: the reason header of the caller may be an error.  In the wait for a
\* subscription the handler returns one besides; "removed" only sets the reason.
InboundHangup ==
    /\ kind = "inbound"
    /\ \/ Goto("call", "setup", "final") /\ failed' \in BOOLEAN
       \/ Goto("call", "loop", "final") /\ UNCHANGED failed
    /\ \E abnormal \in BOOLEAN : DeferUpdate(Set(info.status, info.error \/ abnormal, info.ended))
    /\ UNCHANGED <<stopped, frame>>

\* A media timeout is an error and leaves the report as it is.
InboundTimeout ==
    /\ kind = "inbound" /\ Goto("call", "loop", "final")
    /\ failed' = TRUE
    /\ UNCHANGED <<stopped, stateVars, frame>>

\* A bug: the time of the end is only set for a call that ended well.
InboundFinalErrorOnly ==
    /\ kind = "inbound" /\ Goto("call", "final", "end")
    /\ IF failed /\ ~info.error THEN Update("call", Set("error", TRUE, info.ended))
                                ELSE Update("call", Set("disconnected", info.error, TRUE))
    /\ UNCHANGED <<failed, stopped, frame>>

\* The deferred function of processInvite.
InboundFinal ==
    /\ kind = "inbound" /\ Goto("call", "final", "end")
    /\ IF failed /\ ~info.error THEN Update("call", Set("error", TRUE, TRUE))
                                ELSE Update("call", Set("disconnected", info.error, TRUE))
    /\ UNCHANGED <<failed, stopped, frame>>

------------------------------------------------------------------------------
(* An outbound call: the RPC that creates it.                               *)

\* newCall succeeds: the dialling starts, in a goroutine or in the RPC itself.
NewCall ==
    /\ pc["rpc"] = "new"
    /\ pc' = [pc EXCEPT !["call"] = "dial",
                        !["rpc"] = IF kind = "waits" THEN "waiting" ELSE "report"]
    /\ UNCHANGED <<failed, stopped, stateVars, frame>>

NewCallFails ==
    /\ Goto("rpc", "new", "newFails")
    /\ failed' = TRUE
    /\ UNCHANGED <<stopped, stateVars, frame>>

\* The update of close: the first error is kept, the reason is set.
CloseUpdate(w, err) ==
    IF stopped THEN mu = "free" /\ UNCHANGED <<stopped, stateVars>>
    ELSE /\ stopped' = TRUE
         /\ Update(w, IF err /\ ~info.error THEN Set("error", TRUE, info.ended) ELSE Touch)

NewCallCloses ==
    /\ Goto("rpc", "newFails", "report")
    /\ CloseUpdate("rpc", TRUE)
    /\ UNCHANGED <<failed, frame>>

\* The deferred function of createSIPParticipant, which does not look at what is there.
RPCReports ==
    /\ Goto("rpc", "report", "end")
    /\ IF failed /\ (kind = "waits" \/ pc["call"] = "idle")
         THEN Update("rpc", Set("error", TRUE, info.ended))
         ELSE Update("rpc", Set("joined", info.error, info.ended))
    /\ UNCHANGED <<failed, stopped, frame>>

------------------------------------------------------------------------------
(* An outbound call: Dial and WaitClose.                                    *)

\* Whether close runs under c.mu in the closer.
Closes == pc["closer"] \in {"closing", "reported"}

\* ConnectSIP takes c.mu.
ConnectSIP ==
    /\ Goto("call", "dial", "dialling") /\ ~Closes
    /\ UNCHANGED <<failed, stopped, stateVars, frame>>

\* The callee's refusal is noted; any other error is not.
DialFails ==
    /\ \/ Goto("call", "dialling", "refused") /\ DeferUpdate(Touch)
       \/ Goto("call", "dialling", "failing") /\ UNCHANGED stateVars
    /\ failed' = TRUE
    /\ UNCHANGED <<stopped, frame>>

\* ConnectSIP closes the call; a callee who is busy or away is no error.
DialCloses ==
    /\ \/ Goto("call", "refused", "ensure") /\ \E err \in BOOLEAN : CloseUpdate("call", err)
       \/ Goto("call", "failing", "ensure") /\ CloseUpdate("call", TRUE)
    /\ UNCHANGED <<failed, frame>>

\* The codec of the answer; c.mu is given up when ConnectSIP returns.
DialConnects ==
    /\ Goto("call", "dialling", "connected")
    /\ DeferUpdate(Touch)
    /\ UNCHANGED <<failed, stopped, frame>>

\* Dial reports the room of the call, or panics when a close has taken it away.
ReportActive ==
    /\ \/ pc["closer"] # "closed" /\ Goto("call", "connected", "ensure")
          /\ Update("call", Set("active", info.error, info.ended))
       \/ pc["closer"] = "closed" /\ Goto("call", "connected", "panic") /\ UNCHANGED stateVars
    /\ UNCHANGED <<failed, stopped, frame>>

\* ensureClosed
Ensure(p, q) ==
    /\ Goto("call", p, q)
    /\ Update("call", Set(IF info.error THEN "error" ELSE "disconnected", info.error, TRUE))
    /\ UNCHANGED <<failed, stopped, frame>>

\* Deferred by Dial, after a success as well.
DialEnsures == Ensure("ensure", "returned")

DialReturns ==
    /\ "call" \notin sending /\ pc["call"] = "returned"
    /\ pc' = [pc EXCEPT !["call"] = IF failed THEN "end" ELSE "loop",
                        !["rpc"] = IF @ = "waiting" THEN "report" ELSE @]
    /\ UNCHANGED <<failed, stopped, stateVars, frame>>

\* A bug: the keep-alive sends the report when it is clean.
KeepAliveWhenClean ==
    /\ Goto("call", "loop", "loop")
    /\ ~dirty /\ ForceFlush("call")
    /\ UNCHANGED <<failed, stopped, frame>>

\* The ticker of both kinds of call.
KeepAlive ==
    /\ Goto("call", "loop", "loop")
    /\ ForceFlush("call")
    /\ UNCHANGED <<failed, stopped, frame>>

\* WaitClose: the room is gone, the media is silent, or somebody has closed the call.
WaitClose ==
    /\ kind # "inbound"
    /\ \/ stopped /\ Goto("call", "loop", "final") /\ UNCHANGED <<stopped, stateVars>>
       \/ ~Closes /\ Goto("call", "loop", "final") /\ CloseUpdate("call", FALSE)
       \/ ~Closes /\ Goto("call", "loop", "setError") /\ CloseUpdate("call", TRUE)
    /\ UNCHANGED <<failed, frame>>

SetErrStatus ==
    /\ Goto("call", "setError", "final")
    /\ Update("call", IF info.error THEN info ELSE Set("error", TRUE, info.ended))
    /\ UNCHANGED <<failed, stopped, frame>>

WaitEnsures == kind # "inbound" /\ Ensure("final", "end")

------------------------------------------------------------------------------
(* An outbound call: who closes it meanwhile.                               *)

CloserBegins ==
    /\ kind # "inbound" /\ ~stopped
    /\ pc["call"] \in {"dial", "connected", "ensure", "returned", "loop"}
    /\ Goto("closer", "idle", "closing")
    /\ stopped' = TRUE
    /\ UNCHANGED <<failed, stateVars, frame>>

CloserReports ==
    /\ Goto("closer", "closing", "reported")
    /\ Update("closer", Touch)
    /\ UNCHANGED <<failed, stopped, frame>>

CloserDone ==
    /\ Goto("closer", "reported", "closed")
    /\ UNCHANGED <<failed, stopped, stateVars, frame>>

------------------------------------------------------------------------------
(* StartTransfer and EndTransfer, of a transfer whose request found the call. *)

TransferStep(t, p, q) == tpc[t] = p /\ tpc' = [tpc EXCEPT ![t] = q]

Hear(t, status) ==
    heard' = [heard EXCEPT ![t] = Append(@, status)] \/ UNCHANGED heard

StartTransfer(t) ==
    /\ pc["call"] \in {"setup", "dial", "dialling", "connected", "ensure", "returned", "loop"}
    /\ TransferStep(t, "none", "starting")
    /\ UNCHANGED <<pc, callVars, stateVars, remote, heard>>

\* The request, whose failure nobody looks at, and then the entry, under s.mu.
StartAnswered(t) ==
    /\ TransferStep(t, "starting", "store") /\ Hear(t, "ongoing")
    /\ UNCHANGED <<pc, callVars, stateVars, remote>>

StoreTransfer(t) ==
    /\ mu = "free" /\ TransferStep(t, "store", "running")
    /\ UNCHANGED <<pc, callVars, stateVars, remote, heard>>

\* The entry is removed under s.mu, the outcome sent without it.
EndTransfer(t) ==
    /\ mu = "free"
    /\ TransferStep(t, "running", "success") \/ TransferStep(t, "running", "failed")
    /\ UNCHANGED <<pc, callVars, stateVars, remote, heard>>

EndAnswered(t) ==
    /\ \E r \in {"success", "failed"} : TransferStep(t, r, "done") /\ Hear(t, r)
    /\ UNCHANGED <<pc, callVars, stateVars, remote>>

------------------------------------------------------------------------------
Inbound ==
    \/ InboundNew \/ InboundAuth \/ InboundDispatch \/ InboundMedia \/ InboundFails
    \/ InboundActive \/ InboundHangup \/ InboundTimeout \/ InboundFinal

Outbound ==
    \/ NewCall \/ NewCallFails \/ NewCallCloses \/ RPCReports
    \/ ConnectSIP \/ DialFails \/ DialCloses \/ DialConnects \/ ReportActive
    \/ DialEnsures \/ DialReturns \/ WaitClose \/ SetErrStatus \/ WaitEnsures
    \/ CloserBegins \/ CloserReports \/ CloserDone

Transfer(t) ==
    StartTransfer(t) \/ StartAnswered(t) \/ StoreTransfer(t) \/ EndTransfer(t) \/ EndAnswered(t)

\* A process that panicked does nothing any more.
Next ==
    /\ pc["call"] # "panic"
    /\ \/ Inbound \/ Outbound \/ KeepAlive
       \/ \E w \in Writers : Delivered(w) \/ Lost(w)
       \/ \E t \in Transfers : Transfer(t)

Spec == Init /\ [][Next]_vars

(* The goroutines go on and a sync.Mutex starves nobody; a request ends, well or not, since   *)
(* psrpc has a timeout.  How the call goes on (a refusal, a hang-up, a timeout, a close from  *)
(* outside, a transfer) is left to the environment, but dialSIP ends in one way or the other. *)
CallGoesOn ==
    \/ InboundNew \/ InboundAuth \/ InboundDispatch \/ InboundFinal
    \/ ConnectSIP \/ DialFails \/ DialCloses \/ DialConnects \/ ReportActive
    \/ DialEnsures \/ DialReturns \/ SetErrStatus \/ WaitEnsures

TransferGoesOn(t) == StartAnswered(t) \/ StoreTransfer(t) \/ EndTransfer(t) \/ EndAnswered(t)

Fairness ==
    /\ WF_vars(\E w \in Writers : Delivered(w) \/ Lost(w))
    /\ SF_vars(CallGoesOn)
    /\ SF_vars(NewCall \/ NewCallFails \/ NewCallCloses \/ RPCReports)
    /\ SF_vars(CloserReports \/ CloserDone)
    /\ \A t \in Transfers : SF_vars(TransferGoesOn(t))

(* The ticker of a call that is up, and an IO service that is not away for ever. *)
KeepAliveFairness == SF_vars(KeepAlive) /\ SF_vars(Delivered("call"))

FairSpec == Spec /\ Fairness /\ KeepAliveFairness

------------------------------------------------------------------------------
(* Properties                                                               *)

\* A report that is not dirty is what the IO service knows: Flush does not skip an update
\* that was written while another goroutine's request was under way, or whose request failed.
CleanIsDelivered == ~dirty => remote = info

\* The report as the IO service sees it.
Channel == INSTANCE Report WITH report <- info, known <- remote, unsent <- dirty

\* What the service learns is the report as it stands, in the order of its updates, and nobody
\* takes back an end or an error: the requests of the RPC, of the call's goroutine and of the
\* one that closes it leave one at a time, although each of them may be taken and not answered.
ImplementsReport == Channel!Spec

CallIsOver == pc["call"] \in {"end", "idle"} /\ pc["rpc"] \in {"end", "idle"}
                                             /\ pc["closer"] \in {"idle", "closed"}

\* When the goroutines of a call are gone and the last report got through, the IO service has
\* an end, or the error of a call that was never dialled, and no longer sees the call up; the
\* RPC and the closer may report after the goroutine that wrote the end.
EndIsReported ==
    CallIsOver /\ ~dirty => /\ remote.status \notin {"none", "incoming", "active"}
                            /\ remote.ended \/ (remote.error /\ pc["call"] = "idle")

\* A report that did not get through is repeated while the call is up.
KeepAliveRepairs == (pc["call"] = "loop" /\ dirty) ~> (pc["call"] # "loop" \/ ~dirty)

Panicked == pc["call"] = "panic"

\* s.mu is held over requests that may fail: a transfer whose start was announced gets its
\* entry and announces its end, and who closes a call does not stay behind the lock.
UpdatesReturn ==
    /\ \A t \in Transfers : (tpc[t] = "starting") ~> (tpc[t] = "done" \/ Panicked)
    /\ (pc["closer"] = "closing") ~> (pc["closer"] = "closed" \/ Panicked)
==============================================================================
