--------------------------- MODULE ServerRegistry ---------------------------
(***************************************************************************)
(* The registry of the Server (src/pkg/sip/server.go, inbound.go): the maps *)
(* activeCalls, by the caller's From tag, and byLocal, by our own, which    *)
(* processInvite fills, close empties and Stop swaps out, and by which ACK  *)
(* and BYE find their call.  What a call does in between is InboundCall;    *)
(* here it is admitted, answered, closed and unregistered, concurrently     *)
(* with the other calls, the requests of the peers and Stop.                *)
(*                                                                         *)
(* Nothing makes a tag the tag of one call: a re-INVITE in a dialog that is *)
(* up, ours or the Client's, comes with the tag of that dialog, and         *)
(* processInvite looks neither at its To tag nor at the entry that is there.*)
(***************************************************************************)
EXTENDS Naturals, FiniteSets

CONSTANTS
    Calls,     \* the calls, by their LocalTag
    Tags,      \* the From tags, RemoteTag
    NoCall     \* no call

ASSUME RegistryAssumption == NoCall \notin Calls

VARIABLES
    phase,        \* per call: its goroutine
    tag,          \* per call: c.cc.Tag()
    activeCalls,  \* by From tag: the call
    byLocal,      \* the calls registered by LocalTag
    cancelled,    \* the calls whose context is cancelled
    dropped,      \* the calls whose leg a BYE dropped
    acked,        \* the calls whose acked fuse is broken
    ack,          \* the calls whose 200 the peer has acknowledged
    bye,          \* per tag: the BYE that carries it
    found,        \* per tag: the call the handler of that BYE found
    stop,         \* Server.Stop
    stopCalls     \* the calls Stop has still to close

peerVars == <<ack, bye, found>>
stopVars == <<stop, stopCalls>>
vars == <<phase, tag, activeCalls, byLocal, cancelled, dropped, acked, ack, bye, found, stop,
          stopCalls>>

Phases == {"none", "invite", "answered", "close", "unregister", "ended"}

TypeOK ==
    /\ phase \in [Calls -> Phases]
    /\ tag \in [Calls -> Tags]
    /\ activeCalls \in [Tags -> Calls \cup {NoCall}]
    /\ byLocal \subseteq Calls /\ cancelled \subseteq Calls /\ dropped \subseteq Calls
    /\ acked \subseteq Calls /\ ack \subseteq Calls
    /\ bye \in [Tags -> {"none", "found", "accepted", "done", "refused"}]
    /\ found \in [Tags -> Calls \cup {NoCall}]
    /\ stop \in {"no", "close", "done"} /\ stopCalls \subseteq Calls

Init ==
    /\ phase = [c \in Calls |-> "none"] /\ tag \in [Calls -> Tags]
    /\ activeCalls = [t \in Tags |-> NoCall] /\ byLocal = {}
    /\ cancelled = {} /\ dropped = {} /\ acked = {} /\ ack = {}
    /\ bye = [t \in Tags |-> "none"] /\ found = [t \in Tags |-> NoCall]
    /\ stop = "no" /\ stopCalls = {}

Serving(c) == phase[c] \in {"invite", "answered"}
Present(c) == phase[c] \notin {"none", "ended"}
Sharing(c) == \E d \in Calls \ {c} : phase[d] # "none" /\ tag[d] = tag[c]

------------------------------------------------------------------------------
(* The goroutine of a call.                                                 *)

\* A bug: the call is registered by its From tag alone.
RegisterByTag(c) ==
    /\ activeCalls' = [activeCalls EXCEPT ![tag[c]] = c]
    /\ UNCHANGED byLocal

\* A bug: the From tag is not read before the call is registered, so all share one key.
RegisterUntagged(c) ==
    /\ activeCalls' = [activeCalls EXCEPT ![CHOOSE t \in {tag[d] : d \in Calls} : TRUE] = c]
    /\ byLocal' = byLocal \cup {c}

\* newInboundCall: whatever was registered for the tag is replaced.
Register(c) ==
    /\ activeCalls' = [activeCalls EXCEPT ![tag[c]] = c]
    /\ byLocal' = byLocal \cup {c}

\* An INVITE is admitted, whatever calls its tag has had.
Invite(c) ==
    /\ phase[c] = "none" /\ stop # "done"
    /\ Register(c)
    /\ phase' = [phase EXCEPT ![c] = "invite"]
    /\ UNCHANGED <<tag, cancelled, dropped, acked, peerVars, stopVars>>

\* handleInvite accepts the call.
Answer(c) ==
    /\ phase[c] = "invite"
    /\ phase' = [phase EXCEPT ![c] = "answered"]
    /\ UNCHANGED <<tag, activeCalls, byLocal, cancelled, dropped, acked, peerVars, stopVars>>

\* The handler finds its context cancelled, or ends the call for reasons of its own.
BeginClose(c) ==
    /\ Serving(c)
    /\ phase' = [phase EXCEPT ![c] = "close"]
    /\ UNCHANGED <<tag, activeCalls, byLocal, cancelled, dropped, acked, peerVars, stopVars>>

\* The leg is closed, with a BYE or a final response unless it was dropped.
CloseLeg(c) ==
    /\ phase[c] = "close"
    /\ phase' = [phase EXCEPT ![c] = "unregister"]
    /\ dropped' = dropped \cup {c}
    /\ UNCHANGED <<tag, activeCalls, byLocal, cancelled, acked, peerVars, stopVars>>

\* A bug: the call is not removed from byLocal.
UnregisterTag(c) ==
    /\ phase[c] = "unregister"
    /\ activeCalls' = [activeCalls EXCEPT ![tag[c]] = NoCall]
    /\ phase' = [phase EXCEPT ![c] = "ended"]
    /\ cancelled' = cancelled \cup {c}
    /\ UNCHANGED <<tag, byLocal, dropped, acked, peerVars, stopVars>>

\* The end of close: the entry of the tag is deleted, whichever call it names.
Unregister(c) ==
    /\ phase[c] = "unregister"
    /\ activeCalls' = [activeCalls EXCEPT ![tag[c]] = NoCall]
    /\ byLocal' = byLocal \ {c}
    /\ phase' = [phase EXCEPT ![c] = "ended"]
    /\ cancelled' = cancelled \cup {c}
    /\ UNCHANGED <<tag, dropped, acked, peerVars, stopVars>>

------------------------------------------------------------------------------
(* The requests of the peers.                                               *)

\* onAck: the ACK of the 200 for call c goes to the call registered for its tag.
Ack(c) ==
    /\ phase[c] # "none" /\ phase[c] # "invite" /\ c \notin ack /\ stop # "done"
    /\ ack' = ack \cup {c}
    /\ acked' = acked \cup ({activeCalls[tag[c]]} \ {NoCall})
    /\ UNCHANGED <<phase, tag, activeCalls, byLocal, cancelled, dropped, bye, found, stopVars>>

\* onBye looks the call up by the BYE's From tag; without one the Client is asked, and 481 is
\* "Call does not exist".
Bye(t) ==
    /\ bye[t] = "none" /\ stop # "done"
    /\ found' = [found EXCEPT ![t] = activeCalls[t]]
    /\ bye' = [bye EXCEPT ![t] = IF activeCalls[t] = NoCall THEN "refused" ELSE "found"]
    /\ UNCHANGED <<phase, tag, activeCalls, byLocal, cancelled, dropped, acked, ack, stopVars>>

\* AcceptBye drops the leg of the call that was found.
AcceptBye(t) ==
    /\ bye[t] = "found"
    /\ dropped' = dropped \cup {found[t]}
    /\ bye' = [bye EXCEPT ![t] = "accepted"]
    /\ UNCHANGED <<phase, tag, activeCalls, byLocal, cancelled, acked, ack, found, stopVars>>

\* inboundCall.Bye cancels the call's context.
ByeCancels(t) ==
    /\ bye[t] = "accepted"
    /\ cancelled' = cancelled \cup {found[t]}
    /\ bye' = [bye EXCEPT ![t] = "done"]
    /\ UNCHANGED <<phase, tag, activeCalls, byLocal, dropped, acked, ack, found, stopVars>>

------------------------------------------------------------------------------
(* Server.Stop.                                                             *)

\* A bug: the calls are listed after the map was replaced.
SwapFirst ==
    /\ stop = "no" /\ stop' = "close"
    /\ stopCalls' = {}
    /\ activeCalls' = [t \in Tags |-> NoCall]
    /\ UNCHANGED <<phase, tag, byLocal, cancelled, dropped, acked, peerVars>>

\* The calls are listed and the map replaced under one lock; byLocal stays.
Swap ==
    /\ stop = "no" /\ stop' = "close"
    /\ stopCalls' = {activeCalls[t] : t \in Tags} \ {NoCall}
    /\ activeCalls' = [t \in Tags |-> NoCall]
    /\ UNCHANGED <<phase, tag, byLocal, cancelled, dropped, acked, peerVars>>

\* c.Close cancels the contexts one by one; then the listeners are closed.
CloseCalls ==
    /\ stop = "close"
    /\ \/ /\ stopCalls = {} /\ stop' = "done" /\ UNCHANGED <<stopCalls, cancelled>>
       \/ \E c \in stopCalls : /\ stopCalls' = stopCalls \ {c}
                               /\ cancelled' = cancelled \cup {c} /\ UNCHANGED stop
    /\ UNCHANGED <<phase, tag, activeCalls, byLocal, dropped, acked, peerVars>>

Next ==
    \/ \E c \in Calls :
          \/ Invite(c) \/ Answer(c) \/ BeginClose(c) \/ CloseLeg(c) \/ Unregister(c)
          \/ Ack(c)
    \/ \E t \in Tags : Bye(t) \/ AcceptBye(t) \/ ByeCancels(t)
    \/ Swap \/ CloseCalls

Spec == Init /\ [][Next]_vars

------------------------------------------------------------------------------
(* Properties.                                                              *)

Stopped == stop # "no"

\* A transfer finds every call that is not over; and until Stop, ACK, BYE and NOTIFY find it and
\* no other unless another INVITE carried its tag: they find some call of that tag then, unless
\* one of the others has ended and taken the entry with it.
ServedIsRegistered ==
    \A c \in Calls : Present(c) =>
        /\ c \in byLocal
        /\ Stopped \/ activeCalls[tag[c]] = c \/ Sharing(c)
        /\ \/ Stopped \/ activeCalls[tag[c]] # NoCall
           \/ \E d \in Calls \ {c} : phase[d] = "ended" /\ tag[d] = tag[c]

\* No entry outlives its call: the drain of the process counts the entries of activeCalls,
\* and transfers look their call up in byLocal.
EntryIsLive ==
    /\ \A t \in Tags : activeCalls[t] # NoCall =>
           phase[activeCalls[t]] \notin {"none", "ended"} /\ tag[activeCalls[t]] = t
    /\ \A c \in byLocal : phase[c] \notin {"none", "ended"}

\* An ACK opens its call, unless that was over, Stop had taken the map or another INVITE carried
\* the tag; and even then no request acts on a call of another tag.
OwnRequests ==
    /\ \A c \in ack : c \in acked \/ phase[c] = "ended" \/ Stopped \/ Sharing(c)
    /\ \A d \in acked : \E c \in ack : tag[c] = tag[d]
    /\ \A t \in Tags : found[t] # NoCall => phase[found[t]] # "none" /\ tag[found[t]] = t

\* Stop ends every call it listed, and it listed every call that was up, unless another INVITE
\* carried its tag; a call registered after the swap is in the new map and stays.
StopEnds ==
    \A c \in Calls :
        (c \in stopCalls \/ (stop = "done" /\ Serving(c) /\ activeCalls[tag[c]] # c /\ ~Sharing(c)))
            ~> (phase[c] = "ended")
=============================================================================
