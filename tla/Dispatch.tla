------------------------------ MODULE Dispatch ------------------------------
(***************************************************************************)
(* The Server and the Client of one service (src/pkg/sip/service.go,        *)
(* client.go, outbound.go): one SIP port whose BYE and NOTIFY go to the     *)
(* inbound call with the sender's tag and, when the Server knows none, to   *)
(* Client.OnRequest, which has a map of its own; and Service.Stop, which    *)
(* closes the outbound calls one after the other before it stops the        *)
(* Server.  Calls of both kinds come and go meanwhile, and share tags: a    *)
(* callee's re-INVITE is a new inbound call with the callee's tag, to which *)
(* the Server then takes the BYE of the outbound one.                       *)
(*                                                                         *)
(* What an outbound call does is OutboundCall; here it is as far as the     *)
(* maps and the call's lock see it.  That a request of a client which is    *)
(* already nil panics is left to OutboundCall too.                          *)
(***************************************************************************)
EXTENDS ServerRegistry

CONSTANTS
    Callees,  \* the outbound calls, by their SIP call id
    Parties   \* the sets of calls, inbound and outbound, that may come up together

ASSUME DispatchAssumption ==
    /\ NoCall \notin Callees /\ Calls \cap Callees = {}
    /\ Callees \subseteq Tags
    /\ Parties \subseteq SUBSET (Calls \cup Callees)

VARIABLES
    party,         \* the calls of this behaviour
    dial,          \* per outbound call: newCall and Dial
    shut,          \* per outbound call: outboundCall.close
    mu,            \* the outbound calls whose c.mu is held
    tagged,        \* the outbound calls whose cc.Tag() is known
    outCalls,      \* Client.activeCalls
    byRemote,      \* Client.byRemote, by the callee's tag
    outBye,        \* per outbound call: the callee's BYE, once the Server has passed it on
    outFound,      \* per outbound call: the call that BYE found
    outStop,       \* Client.Stop
    outStopCalls,  \* the calls it has still to close
    stopsAt        \* the call whose Close it is in

dialVars == <<dial, shut, mu, tagged>>
mapVars == <<outCalls, byRemote>>
outByeVars == <<outBye, outFound>>
outStopVars == <<outStop, outStopCalls, stopsAt>>
clientVars == <<dialVars, mapVars, outByeVars, outStopVars>>
allVars == <<vars, party, clientVars>>

\* ConnectSIP, with c.mu held.
Connecting(c) == dial[c] \in {"invite", "answered", "indexed"}

ClientTypeOK ==
    /\ party \in Parties
    /\ dial \in [Callees -> {"none", "join", "dial", "invite", "answered", "indexed", "done"}]
    /\ shut \in [Callees -> {"open", "leg", "unregister", "closed"}]
    /\ mu \subseteq Callees /\ tagged \subseteq Callees /\ outCalls \subseteq Callees
    /\ byRemote \in [Tags -> Callees \cup {NoCall}]
    /\ outBye \in [Callees -> {"none", "found", "accepted", "done", "refused"}]
    /\ outFound \in [Callees -> Callees \cup {NoCall}]
    /\ outStop \in {"no", "close", "done"} /\ outStopCalls \subseteq Callees
    /\ stopsAt \in Callees \cup {NoCall}

\* The tag a callee answers with is random: no other callee has it.  A caller has it if the
\* callee sends a re-INVITE, which the Server takes for a new call.
CalleeTag(c) == c

DispatchInit ==
    /\ Init
    /\ party \in Parties
    /\ \A c \in Calls \ party : tag[c] = CHOOSE t \in Tags : TRUE
    /\ dial = [c \in Callees |-> "none"] /\ shut = [c \in Callees |-> "open"]
    /\ mu = {} /\ tagged = {} /\ outCalls = {}
    /\ byRemote = [t \in Tags |-> NoCall]
    /\ outBye = [c \in Callees |-> "none"] /\ outFound = [c \in Callees |-> NoCall]
    /\ outStop = "no" /\ outStopCalls = {} /\ stopsAt = NoCall

------------------------------------------------------------------------------
(* An outbound call.                                                        *)

\* createSIPParticipant: the monitor is shut down before Client.Stop is called.
NewCall(c) ==
    /\ dial[c] = "none" /\ c \in party /\ outStop = "no"
    /\ dial' = [dial EXCEPT ![c] = "join"]
    /\ UNCHANGED <<shut, mu, tagged, mapVars, outByeVars, outStopVars>>

\* connectToRoom, and the end of newCall: the call is registered, in whichever map is there,
\* or closed before anyone knows of it.
Join(c) ==
    /\ dial[c] = "join"
    /\ \/ /\ outCalls' = outCalls \cup {c}
          /\ dial' = [dial EXCEPT ![c] = "dial"]
          /\ UNCHANGED shut
       \/ /\ dial' = [dial EXCEPT ![c] = "done"]
          /\ shut' = [shut EXCEPT ![c] = "closed"]
          /\ UNCHANGED outCalls
    /\ UNCHANGED <<mu, tagged, byRemote, outByeVars, outStopVars>>

\* ConnectSIP takes c.mu; it does not look whether the call was closed meanwhile.
Dial(c) ==
    /\ dial[c] = "dial" /\ c \notin mu
    /\ dial' = [dial EXCEPT ![c] = "invite"]
    /\ mu' = mu \cup {c}
    /\ UNCHANGED <<shut, tagged, mapVars, outByeVars, outStopVars>>

\* Invite returns with the callee's tag.
Answered(c) ==
    /\ dial[c] = "invite"
    /\ dial' = [dial EXCEPT ![c] = "answered"]
    /\ tagged' = tagged \cup {c}
    /\ UNCHANGED <<shut, mu, mapVars, outByeVars, outStopVars>>

\* A bug: the call is indexed before it has a tag, so all share one key.
IndexUntagged(c) ==
    /\ dial[c] = "answered" /\ shut[c] = "open"
    /\ dial' = [dial EXCEPT ![c] = "indexed"]
    /\ byRemote' = [byRemote EXCEPT ![CHOOSE t \in Tags : TRUE] = c]
    /\ UNCHANGED <<shut, mu, tagged, outCalls, outByeVars, outStopVars>>

\* The media takes the answer, unless a close has closed it, and the call is found by its
\* callee's tag from here.
Index(c) ==
    /\ dial[c] = "answered" /\ shut[c] = "open"
    /\ dial' = [dial EXCEPT ![c] = "indexed"]
    /\ byRemote' = [byRemote EXCEPT ![CalleeTag(c)] = c]
    /\ UNCHANGED <<shut, mu, tagged, outCalls, outByeVars, outStopVars>>

\* The 200 is acknowledged and ConnectSIP returns.
Established(c) ==
    /\ dial[c] = "indexed"
    /\ dial' = [dial EXCEPT ![c] = "done"]
    /\ mu' = mu \ {c}
    /\ UNCHANGED <<shut, tagged, mapVars, outByeVars, outStopVars>>

\* ConnectSIP fails and closes the call, with the lock it holds.
DialFails(c) ==
    /\ Connecting(c)
    /\ dial' = [dial EXCEPT ![c] = "done"]
    /\ IF shut[c] = "open" THEN shut' = [shut EXCEPT ![c] = "leg"] /\ UNCHANGED mu
                           ELSE mu' = mu \ {c} /\ UNCHANGED shut
    /\ UNCHANGED <<tagged, mapVars, outByeVars, outStopVars>>

\* CloseWithReason, closeWithTimeout, Close: the first one closes the call.
TakeAndClose(c) ==
    /\ c \notin mu
    /\ IF shut[c] = "open" THEN mu' = mu \cup {c} /\ shut' = [shut EXCEPT ![c] = "leg"]
                           ELSE UNCHANGED <<mu, shut>>

\* The room or the media is lost, or the call was transferred.
CloseCall(c) ==
    /\ dial[c] = "done" /\ shut[c] = "open"
    /\ TakeAndClose(c)
    /\ UNCHANGED <<dial, tagged, mapVars, outByeVars, outStopVars>>

\* stopSIP: the BYE, if the leg is up, and the wait for its answer.
CloseOutLeg(c) ==
    /\ shut[c] = "leg"
    /\ shut' = [shut EXCEPT ![c] = "unregister"]
    /\ UNCHANGED <<dial, mu, tagged, mapVars, outByeVars, outStopVars>>

\* A bug: the entry of the callee's tag stays.
UnregisterId(c) ==
    /\ shut[c] = "unregister"
    /\ shut' = [shut EXCEPT ![c] = "closed"] /\ mu' = mu \ {c}
    /\ outCalls' = outCalls \ {c}
    /\ UNCHANGED <<dial, tagged, byRemote, outByeVars, outStopVars>>

\* The end of close: both entries are deleted and c.mu is given back.
UnregisterOut(c) ==
    /\ shut[c] = "unregister"
    /\ shut' = [shut EXCEPT ![c] = "closed"] /\ mu' = mu \ {c}
    /\ outCalls' = outCalls \ {c}
    /\ byRemote' = IF c \in tagged THEN [byRemote EXCEPT ![CalleeTag(c)] = NoCall] ELSE byRemote
    /\ UNCHANGED <<dial, tagged, outByeVars, outStopVars>>

------------------------------------------------------------------------------
(* The callee's BYE.                                                        *)

\* OnRequest, for a BYE that the Server found no call for: Client.onBye looks in byRemote, and
\* answers 481 when the tag is not there either.
OutBye(c) ==
    /\ bye[CalleeTag(c)] = "refused" /\ outBye[c] = "none"
    /\ outFound' = [outFound EXCEPT ![c] = byRemote[CalleeTag(c)]]
    /\ outBye' = [outBye EXCEPT ![c] =
           IF byRemote[CalleeTag(c)] = NoCall THEN "refused" ELSE "found"]
    /\ UNCHANGED <<dialVars, mapVars, outStopVars>>

\* AcceptBye in a goroutine of its own: the leg is dropped without the call's lock.
OutAcceptBye(c) ==
    /\ outBye[c] = "found"
    /\ outBye' = [outBye EXCEPT ![c] = "accepted"]
    /\ UNCHANGED <<dialVars, mapVars, outFound, outStopVars>>

\* CloseWithReason, once c.mu is free.
OutByeCloses(c) ==
    /\ outBye[c] = "accepted"
    /\ TakeAndClose(outFound[c])
    /\ outBye' = [outBye EXCEPT ![c] = "done"]
    /\ UNCHANGED <<dial, tagged, mapVars, outFound, outStopVars>>

------------------------------------------------------------------------------
(* Service.Stop: first Client.Stop, then Server.Stop.                        *)

\* The calls are listed and both maps replaced under one lock.
SwapOut ==
    /\ outStop = "no" /\ outStop' = "close"
    /\ outStopCalls' = outCalls
    /\ outCalls' = {} /\ byRemote' = [t \in Tags |-> NoCall]
    /\ UNCHANGED <<dialVars, outByeVars, stopsAt>>

\* The next call, in the order of a Go map.
StopNext(c) ==
    /\ outStop = "close" /\ stopsAt = NoCall /\ c \in outStopCalls
    /\ stopsAt' = c
    /\ UNCHANGED <<dialVars, mapVars, outByeVars, outStop, outStopCalls>>

\* A bug: Stop goes on without waiting for the call's lock.
StopTries(c) ==
    /\ stopsAt = c
    /\ IF c \in mu THEN UNCHANGED <<mu, shut>> ELSE TakeAndClose(c)
    /\ outStopCalls' = outStopCalls \ {c} /\ stopsAt' = NoCall
    /\ UNCHANGED <<dial, tagged, mapVars, outByeVars, outStop>>

\* call.Close takes c.mu and closes the call, or finds it closed and returns.
StopCloses(c) ==
    /\ stopsAt = c
    /\ TakeAndClose(c)
    /\ IF shut[c] = "open" THEN UNCHANGED <<outStopCalls, stopsAt>>
                           ELSE outStopCalls' = outStopCalls \ {c} /\ stopsAt' = NoCall
    /\ UNCHANGED <<dial, tagged, mapVars, outByeVars, outStop>>

\* The SIP client is closed.
StopReturns ==
    /\ outStop = "close" /\ outStopCalls = {}
    /\ outStop' = "done"
    /\ UNCHANGED <<dialVars, mapVars, outByeVars, outStopCalls, stopsAt>>

------------------------------------------------------------------------------

ClientStep ==
    \/ \E c \in Callees :
          \/ NewCall(c) \/ Join(c) \/ Dial(c) \/ Answered(c) \/ Index(c) \/ Established(c)
          \/ DialFails(c) \/ CloseCall(c) \/ CloseOutLeg(c) \/ UnregisterOut(c)
          \/ OutBye(c) \/ OutAcceptBye(c) \/ OutByeCloses(c)
          \/ StopNext(c) \/ StopCloses(c)
    \/ SwapOut \/ StopReturns

\* The Server's own steps; its Stop comes after the Client's, and a BYE from the peer of a call
\* that was answered.
Hangs(t) == t \in tagged \/ \E c \in Calls : tag[c] = t /\ phase[c] \notin {"none", "invite"}
ServerStep ==
    /\ Next
    /\ \A t \in Tags : bye[t] = "none" /\ bye'[t] # "none" => Hangs(t)
    /\ stop = "no" /\ stop' = "close" => outStop = "done"
    /\ \A c \in Calls : phase'[c] # "none" => c \in party

DispatchNext ==
    \/ ClientStep /\ UNCHANGED <<vars, party>>
    \/ ServerStep /\ UNCHANGED <<party, clientVars>>

DispatchSpec == DispatchInit /\ [][DispatchNext]_allVars

InStep(A) == A /\ UNCHANGED <<party, clientVars>>
OutStep(A) == A /\ UNCHANGED <<vars, party>>

\* A handler whose context is cancelled gets to its close (inbound_call shows it of one call);
\* a dialling call is answered, refused or given up, its own requests time out, and
\* Service.Stop goes from the Client to the Server.
DispatchFairSpec ==
    /\ DispatchSpec
    /\ \A c \in Calls :
          /\ WF_allVars(InStep(c \in cancelled /\ BeginClose(c)))
          /\ WF_allVars(InStep(CloseLeg(c) \/ Unregister(c)))
    /\ WF_allVars(InStep(outStop = "done" /\ (Swap \/ CloseCalls)))
    /\ \A t \in Tags : WF_allVars(InStep(AcceptBye(t) \/ ByeCancels(t)))
    /\ \A c \in Callees :
          /\ WF_allVars(OutStep(Answered(c) \/ Index(c) \/ Established(c) \/ DialFails(c)))
          /\ WF_allVars(OutStep(CloseOutLeg(c) \/ UnregisterOut(c)))
          /\ WF_allVars(OutStep(OutBye(c) \/ OutAcceptBye(c) \/ OutByeCloses(c)))
    /\ WF_allVars(OutStep(StopReturns \/ \E c \in Callees : StopNext(c) \/ StopCloses(c)))

------------------------------------------------------------------------------
(* Properties.                                                              *)

\* close holds c.mu from the first step to the last, so its entries are exact: until Client.Stop
\* a call that is up is found by its id and by its callee's tag, and no entry of byRemote
\* outlives its call or has another's tag.
CalleeIsFound ==
    /\ \A c \in Callees : (dial[c] = "done" /\ shut[c] = "open" /\ outStop = "no") =>
           c \in outCalls /\ byRemote[CalleeTag(c)] = c
    /\ \A c \in outCalls : shut[c] # "closed"
    /\ \A t \in Tags : byRemote[t] # NoCall =>
           CalleeTag(byRemote[t]) = t /\ shut[byRemote[t]] # "closed"

\* The two maps share one port: a BYE ends the inbound call it found and, if the Server knows no
\* call of its tag, the outbound call that is up under it, though the Client is being stopped or
\* another close of that call holds its lock.
ByeEnds ==
    /\ \A c \in Calls : (\E t \in Tags : bye[t] = "found" /\ found[t] = c) ~> (phase[c] = "ended")
    /\ \A c \in Callees :
          (/\ bye[CalleeTag(c)] = "refused" /\ outBye[c] = "none"
           /\ dial[c] = "done" /\ shut[c] = "open") ~> (shut[c] = "closed")

\* Service.Stop gets through the outbound calls, though each Close waits for a lock that a
\* dialling call holds: it closes every call it found, and then ends the inbound ones too.
ServiceStops ==
    /\ \A c \in Callees : (c \in outStopCalls) ~> (shut[c] = "closed")
    /\ (outStop = "close") ~> (stop = "done")
=============================================================================
