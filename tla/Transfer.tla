------------------------------ MODULE Transfer ------------------------------
(***************************************************************************)
(* Call transfers: Service.TransferSIPParticipant (src/pkg/sip/service.go), *)
(* which runs one attempt per call and target and lets repeated requests    *)
(* join it; transferCall of the call, which plays a dial tone and hangs up  *)
(* afterwards; the REFER of the leg; and the handlers of the peer's NOTIFYs,*)
(* which hand the outcome over on the unbuffered channel referDone while    *)
(* they hold the leg's lock for reading.                                    *)
(*                                                                          *)
(* One established call.  A request that is not joined to another is the    *)
(* name of the attempt it starts.  NOTIFY stands for the final one: 1xx     *)
(* NOTIFYs change nothing.                                                  *)
(***************************************************************************)
EXTENDS Naturals, FiniteSets

CONSTANTS
    Reqs,        \* the RPC requests
    Targets,     \* the values of TransferTo
    NoReq,       \* no request
    Outbound,    \* outboundCall.transferCall, else inboundCall.transferCall
    DialtoneReqs, \* the requests that ask for a dial tone, PlayDialtone
    Bare         \* the attempts whose NOTIFY does not carry the CSeq of its REFER

ASSUME TransferAssumption ==
    NoReq \notin Reqs /\ DialtoneReqs \subseteq Reqs /\ Outbound \in BOOLEAN /\ Bare \subseteq Reqs

VARIABLES
    rpc,        \* per request: TransferSIPParticipant
    target,     \* per request: TransferTo
    joined,     \* per request: the attempt whose done channel it waits on
    pending,    \* s.pendingTransfers, per target
    at,         \* per attempt: where its goroutine stands
    result,     \* per attempt: what transferCall returned
    saved,      \* per attempt: the writer SwapOutput returned for the dial tone
    referCseq,  \* the attempt whose REFER set the leg's referCseq last
    notify,     \* per attempt: its final NOTIFY and the handler of it
    outcome,    \* per attempt: the status in that NOTIFY
    legUp,      \* invite and inviteOk of the leg are set
    output,     \* the room's output to the SIP side: its writer, or none
    call,       \* the call and the progress of its close
    hangupDue,  \* the hang-up armed with time.AfterFunc
    panic       \* Close was called on a nil writer

rpcVars  == <<rpc, target, joined>>
callVars == <<legUp, call>>
notifyVars == <<referCseq, notify, outcome>>
vars == <<rpc, target, joined, pending, at, result, saved, referCseq, notify, outcome,
          legUp, output, call, hangupDue, panic>>

ReqOrNone == Reqs \cup {NoReq}

TypeOK ==
    /\ rpc \in [Reqs -> {"idle", "wait", "ok", "err", "cancelled"}]
    /\ target \in [Reqs -> Targets]
    /\ joined \in [Reqs -> ReqOrNone]
    /\ pending \in [Targets -> ReqOrNone]
    /\ at \in [Reqs -> {"none", "lookup", "tone", "refer", "sent", "await", "back", "restore",
                        "close", "delete", "end"}]
    /\ result \in [Reqs -> {"none", "ok", "err"}]
    /\ saved \in [Reqs -> {"unset", "room", "none"}]
    /\ referCseq \in ReqOrNone
    /\ notify \in [Reqs -> {"none", "due", "sent", "found", "held", "over"}]
    /\ outcome \in [Reqs -> {"none", "ok", "err"}]
    /\ output \in {"room", "none"}
    /\ call \in {"up", "mute", "leg", "unregister", "over"}
    /\ \A flag \in {legUp, hangupDue, panic} : flag \in BOOLEAN

Init ==
    /\ rpc = [r \in Reqs |-> "idle"] /\ target \in [Reqs -> Targets]
    /\ joined = [r \in Reqs |-> NoReq] /\ pending = [t \in Targets |-> NoReq]
    /\ at = [r \in Reqs |-> "none"] /\ result = [r \in Reqs |-> "none"]
    /\ saved = [r \in Reqs |-> "unset"] /\ referCseq = NoReq
    /\ notify = [r \in Reqs |-> "none"] /\ outcome = [r \in Reqs |-> "none"]
    /\ legUp = TRUE /\ output = "room" /\ call = "up"
    /\ hangupDue = FALSE /\ panic = FALSE

Stopped    == call # "up"                      \* c.stopped, c.done
Registered == call # "over"                    \* the client's or the server's maps
LegFree    == \A r \in Reqs : notify[r] # "held"   \* the leg's lock can be written

------------------------------------------------------------------------------
(* TransferSIPParticipant.                                                  *)

\* A bug: the entry of pendingTransfers is not looked up, so every request starts an attempt.
RequestNotJoined(r) ==
    /\ rpc[r] = "idle"
    /\ rpc' = [rpc EXCEPT ![r] = "wait"]
    /\ pending' = [pending EXCEPT ![target[r]] = r]
    /\ at' = [at EXCEPT ![r] = "lookup"]
    /\ joined' = [joined EXCEPT ![r] = r]
    /\ UNCHANGED <<target, result, saved, notifyVars, output, hangupDue, panic, callVars>>

\* A request joins the pending attempt for its call and target, or starts one.
Request(r) ==
    /\ rpc[r] = "idle"
    /\ rpc' = [rpc EXCEPT ![r] = "wait"]
    /\ LET k == target[r]
       IN  IF pending[k] # NoReq
           THEN joined' = [joined EXCEPT ![r] = pending[k]] /\ UNCHANGED <<pending, at>>
           ELSE /\ joined' = [joined EXCEPT ![r] = r]
                /\ pending' = [pending EXCEPT ![k] = r]
                /\ at' = [at EXCEPT ![r] = "lookup"]
    /\ UNCHANGED <<target, result, saved, notifyVars, output, hangupDue, panic, callVars>>

\* A bug: the outcome of the transfer is not stored before done is closed.
AnswerUnstored(r) ==
    /\ rpc[r] = "wait" /\ at[joined[r]] \in {"delete", "end"}
    /\ rpc' = [rpc EXCEPT ![r] = "ok"]
    /\ UNCHANGED <<target, joined, pending, at, result, saved, notifyVars, output, hangupDue,
                   panic, callVars>>

\* done is closed.  transferResult belongs to the request that made the attempt: a joined
\* request reads its own, which nobody stores to.
Answer(r) ==
    /\ rpc[r] = "wait" /\ at[joined[r]] \in {"delete", "end"}
    /\ rpc' = [rpc EXCEPT ![r] = IF joined[r] = r /\ result[r] = "err" THEN "err" ELSE "ok"]
    /\ UNCHANGED <<target, joined, pending, at, result, saved, notifyVars, output, hangupDue,
                   panic, callVars>>

\* The context of the RPC is done.  The attempt goes on without it.
Cancel(r) ==
    /\ rpc[r] = "wait"
    /\ rpc' = [rpc EXCEPT ![r] = "cancelled"]
    /\ UNCHANGED <<target, joined, pending, at, result, saved, notifyVars, output, hangupDue,
                   panic, callVars>>

------------------------------------------------------------------------------
(* The goroutine of an attempt: processParticipantTransfer and transferCall. *)

Goto(r, where) == at' = [at EXCEPT ![r] = where]
Return(r, res, where) == result' = [result EXCEPT ![r] = res] /\ Goto(r, where)

\* The call is looked up; a dial tone that was asked for is only played on a call that goes on.
Lookup(r) ==
    /\ at[r] = "lookup"
    /\ \/ ~Registered /\ Return(r, "err", "close")
       \/ /\ Registered /\ UNCHANGED result
          /\ Goto(r, IF r \in DialtoneReqs /\ ~Stopped THEN "tone" ELSE "refer")
    /\ UNCHANGED <<rpcVars, pending, saved, notifyVars, output, hangupDue, panic, callVars>>

\* SwapOutput(nil): the room is muted towards the SIP side.
Tone(r) ==
    /\ at[r] = "tone"
    /\ saved' = [saved EXCEPT ![r] = output] /\ output' = "none"
    /\ Goto(r, "refer")
    /\ UNCHANGED <<rpcVars, pending, result, notifyVars, hangupDue, panic, callVars>>

\* newReferReq, or the first half of sipOutbound.transferCall: under the leg's lock.  Only the
\* latter refuses because the Client is closing, which may begin at any time.
Refer(r) ==
    /\ at[r] = "refer" /\ LegFree
    /\ \/ /\ ~legUp \/ Outbound
          /\ Return(r, "err", "back") /\ UNCHANGED <<referCseq, notify>>
       \/ /\ legUp /\ referCseq' = r /\ notify' = [notify EXCEPT ![r] = "due"]
          /\ Goto(r, "sent") /\ UNCHANGED result
    /\ UNCHANGED <<rpcVars, pending, saved, outcome, output, hangupDue, panic, callVars>>

\* sendRefer: a 2xx, or another response, a dead transaction or a shutdown.  The deadline of
\* the transfer does not end it.
ReferAnswered(r) ==
    /\ at[r] = "sent"
    /\ \/ Goto(r, "await") /\ UNCHANGED result
       \/ Return(r, "err", "back")
    /\ UNCHANGED <<rpcVars, pending, saved, notifyVars, output, hangupDue, panic, callVars>>

\* The deadline of the transfer, RingingTimeout or 80 s.
Expire(r) ==
    /\ at[r] = "await" /\ Return(r, "err", "back")
    /\ UNCHANGED <<rpcVars, pending, saved, notifyVars, output, hangupDue, panic, callVars>>

\* A bug: the output is not given back after a failed transfer.
BackWithoutRestore(r) ==
    /\ at[r] = "back"
    /\ hangupDue' = (hangupDue \/ result[r] = "ok")
    /\ Goto(r, "close")
    /\ UNCHANGED <<rpcVars, pending, result, saved, notifyVars, output, panic, callVars>>

\* transferCall returns: after a success the hang-up is armed; the writer taken for the dial
\* tone goes back to a call that goes on, and is closed otherwise.
Back(r) ==
    /\ at[r] = "back"
    /\ hangupDue' = (hangupDue \/ result[r] = "ok")
    /\ \/ saved[r] = "unset" /\ Goto(r, "close") /\ UNCHANGED panic
       \/ /\ saved[r] # "unset" /\ result[r] = "err" /\ ~Stopped
          /\ Goto(r, "restore") /\ UNCHANGED panic
       \/ /\ saved[r] # "unset" /\ (result[r] = "ok" \/ Stopped)
          /\ panic' = (Outbound /\ saved[r] = "none")
          /\ Goto(r, "close")
    /\ UNCHANGED <<rpcVars, pending, result, saved, notifyVars, output, callVars>>

Restore(r) ==
    /\ at[r] = "restore"
    /\ output' = saved[r] /\ Goto(r, "close")
    /\ UNCHANGED <<rpcVars, pending, result, saved, notifyVars, hangupDue, panic, callVars>>

\* The outcome is stored and done is closed.
CloseDone(r) ==
    /\ at[r] = "close" /\ Goto(r, "delete")
    /\ UNCHANGED <<rpcVars, pending, result, saved, notifyVars, output, hangupDue, panic,
                   callVars>>

DeletePending(r) ==
    /\ at[r] = "delete" /\ Goto(r, "end")
    /\ pending' = [pending EXCEPT ![target[r]] = NoReq]
    /\ UNCHANGED <<rpcVars, result, saved, notifyVars, output, hangupDue, panic, callVars>>

------------------------------------------------------------------------------
(* NOTIFYs: handleNotify and handleReferNotify, in a goroutine per NOTIFY.  *)

\* The peer tells the outcome, at any time after it got the REFER.  RFC 3515 lets it leave the
\* id, the CSeq of the REFER, out.
PeerNotifies(r) ==
    /\ notify[r] = "due"
    /\ notify' = [notify EXCEPT ![r] = "sent"]
    /\ \E o \in {"ok", "err"} : outcome' = [outcome EXCEPT ![r] = o]
    /\ UNCHANGED <<rpcVars, pending, at, result, saved, referCseq, output, hangupDue, panic,
                   callVars>>

\* onNotify finds the call, or answers 481.
FindCall(r) ==
    /\ notify[r] = "sent"
    /\ notify' = [notify EXCEPT ![r] = IF Registered THEN "found" ELSE "over"]
    /\ UNCHANGED <<rpcVars, pending, at, result, saved, referCseq, outcome, output,
                   hangupDue, panic, callVars>>

\* A bug: referCseq is not compared.
TakeAny(r) ==
    /\ notify[r] = "found"
    /\ notify' = [notify EXCEPT ![r] = "held"]
    /\ UNCHANGED <<rpcVars, pending, at, result, saved, referCseq, outcome, output,
                   hangupDue, panic, callVars>>

\* The handler locks the leg for reading and compares the CSeq, if the NOTIFY has one.
Take(r) ==
    /\ notify[r] = "found"
    /\ notify' = [notify EXCEPT ![r] =
           IF r \notin Bare /\ referCseq # r THEN "over" ELSE "held"]
    /\ UNCHANGED <<rpcVars, pending, at, result, saved, referCseq, outcome, output,
                   hangupDue, panic, callVars>>

\* The outcome is handed over on referDone, to whichever attempt receives.
HandOver(n, r) ==
    /\ notify[n] = "held" /\ at[r] = "await"
    /\ notify' = [notify EXCEPT ![n] = "over"]
    /\ Return(r, outcome[n], "back")
    /\ UNCHANGED <<rpcVars, pending, saved, referCseq, outcome, output, hangupDue, panic,
                   callVars>>

\* A bug: without notifyAckTimeout the handler waits until an attempt receives.
HoldForEver(r) ==
    /\ notify[r] = "held" /\ \E q \in Reqs : at[q] = "await"
    /\ UNCHANGED vars

\* notifyAckTimeout, 5 s: no attempt is there to receive.
GiveUp(r) ==
    /\ notify[r] = "held" /\ \A q \in Reqs : at[q] # "await"
    /\ notify' = [notify EXCEPT ![r] = "over"]
    /\ UNCHANGED <<rpcVars, pending, at, result, saved, referCseq, outcome, output,
                   hangupDue, panic, callVars>>

------------------------------------------------------------------------------
(* The end of the call.                                                     *)

\* AcceptBye drops the leg under its lock, before the call is closed.
ByeDropsLeg ==
    /\ legUp /\ LegFree /\ legUp' = FALSE
    /\ UNCHANGED <<rpcVars, pending, at, result, saved, notifyVars, output, call, hangupDue,
                   panic>>

BeginClose ==
    /\ call = "up" /\ call' = "mute"
    /\ UNCHANGED <<rpcVars, pending, at, result, saved, notifyVars, output, hangupDue, legUp,
                   panic>>

\* referByeTimeout after a successful transfer.
TransferHangup == hangupDue /\ BeginClose

\* CloseOutput, the leg's Close under its lock, and the registry.
CloseStep ==
    /\ \/ call = "mute" /\ call' = "leg" /\ output' = "none" /\ UNCHANGED legUp
       \/ call = "leg" /\ LegFree /\ call' = "unregister" /\ legUp' = FALSE
          /\ UNCHANGED output
       \/ call = "unregister" /\ call' = "over" /\ UNCHANGED <<output, legUp>>
    /\ UNCHANGED <<rpcVars, pending, at, result, saved, notifyVars, hangupDue, panic>>

------------------------------------------------------------------------------
Attempt(r) ==
    \/ Lookup(r) \/ Tone(r) \/ Refer(r) \/ ReferAnswered(r) \/ Expire(r)
    \/ Back(r) \/ Restore(r) \/ CloseDone(r) \/ DeletePending(r)

Handler(n) == FindCall(n) \/ Take(n) \/ (\E r \in Reqs : HandOver(n, r)) \/ GiveUp(n)

Next ==
    /\ ~panic
    /\ \/ \E r \in Reqs : Request(r) \/ Answer(r) \/ Cancel(r) \/ Attempt(r)
                          \/ PeerNotifies(r) \/ Handler(r)
       \/ ByeDropsLeg \/ BeginClose \/ TransferHangup \/ CloseStep

Spec == Init /\ [][Next]_vars

\* Goroutines run, timers fire, and a client transaction ends (its timer F).  Nothing is
\* assumed of the clients of the RPC, of the peer's NOTIFYs or of its BYE.
Running == ~panic
FairSpec ==
    /\ Spec
    /\ \A r \in Reqs : /\ WF_vars(Running /\ Answer(r)) /\ WF_vars(Running /\ Attempt(r))
                       /\ WF_vars(Running /\ Handler(r))
    /\ WF_vars(Running /\ TransferHangup) /\ WF_vars(Running /\ CloseStep)

------------------------------------------------------------------------------
(* Properties.                                                              *)

Active(r) == at[r] \in {"lookup", "tone", "refer", "sent", "await", "back", "restore", "close"}

\* pendingTransfers deduplicates: for one target no second REFER is under way, whatever
\* requests are repeated, cancelled or come while an attempt ends.
OneAttemptPerTarget ==
    \A r, q \in Reqs : Active(r) /\ Active(q) /\ target[r] = target[q] => r = q

\* What can confuse the NOTIFY for n with the REFER of r: it carries no id, or it is for
\* another target, whose REFER replaced referCseq.
Confusable(n, r) == n \in Bare \/ target[n] # target[r]

\* "Do not buffer the channel to avoid reading a result for an old request": whatever the peer
\* delays, an attempt takes the outcome of another REFER only if the NOTIFY carries no id or
\* belongs to an attempt for another target whose REFER came later.
ReadsOwnResult ==
    [][\A n, r \in Reqs :
          (notify[n] = "held" /\ notify'[n] = "over" /\ at[r] = "await" /\ at'[r] = "back")
              => n = r \/ n \in Bare \/ (referCseq = n /\ target[n] # target[r])]_vars

\* No success is made up: the request that made an attempt answers without error only if the
\* peer's NOTIFY for it, or one that is confusable with it, said so; and no call is hung up as
\* transferred unless some NOTIFY said so.
SuccessIsNotified ==
    /\ \A r \in Reqs : rpc[r] = "ok" /\ joined[r] = r =>
          \E n \in Reqs : notify[n] = "over" /\ outcome[n] = "ok" /\ (n = r \/ Confusable(n, r))
    /\ hangupDue => \E n \in Reqs : notify[n] = "over" /\ outcome[n] = "ok"

\* Once no transfer that muted it is under way the room is audible again, however many
\* transfers played a dial tone, unless one of them began while the room was muted by another
\* and so has no writer to give back: restored last, it leaves the room mute.
RoomAudioRestored ==
    call = "up" /\ (\A r \in Reqs : saved[r] # "unset" => ~Active(r) \/ at[r] = "close")
        => output = "room" \/ hangupDue \/ (\E r \in Reqs : saved[r] = "none")

\* Every request is answered, every attempt ends, which empties the map, and a transferred call
\* is hung up: no handler, attempt or lock keeps another waiting for ever.
TransfersEnd ==
    /\ \A r \in Reqs : (rpc[r] = "wait") ~> (rpc[r] # "wait")
    /\ \A r \in Reqs : (at[r] # "none") ~> (at[r] = "end")
    /\ hangupDue ~> (call = "over")

\* "TransferSIPParticipant is synchronous": a request that is answered without an error has
\* had its transfer succeed.
AnsweredMeansTransferred ==
    \A r \in Reqs : rpc[r] = "ok" => result[joined[r]] = "ok"

\* The writer taken for the dial tone may be nil: it is not closed then.
WriterIsThere == ~panic
=============================================================================
