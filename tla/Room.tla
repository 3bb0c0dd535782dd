-------------------------------- MODULE Room --------------------------------
(***************************************************************************)
(* The room side of calls: Room of src/pkg/sip/room.go.  A call connects,   *)
(* publishes its track, and later, once the callee answered or the PIN was  *)
(* right, subscribes: Subscribe goes through the participants that are      *)
(* there, while the callbacks of the SDK report the ones that come.         *)
(*                                                                          *)
(* External: the LiveKit server and its SDK, which adds a participant or a  *)
(* track to its list before the callback runs, runs callbacks in any order  *)
(* and reports nothing that was there at the join.                          *)
(***************************************************************************)
EXTENDS FiniteSets

CONSTANTS
    Calls,     \* the calls of this node in the room
    Others,    \* participants from elsewhere
    SipOthers  \* the SIP participants of other nodes among them

ASSUME RoomAssumption == Calls \cap Others = {} /\ SipOthers \subseteq Others

Parts == Calls \cup Others

VARIABLES
    inRoom,      \* the participants in the room
    left,        \* the others that have left: who comes back is another participant
    tracks,      \* those whose audio track is published
    known,       \* per call: the SDK's list of remote participants
    pubs,        \* per call: those of them with a track in the list
    callbacks,   \* per call: the SDK's callbacks that have not run, <<kind, participant>>
    pc,          \* per call: its goroutine
    subscribe,   \* the calls whose flag r.subscribe is set
    todo,        \* per call: the participants Subscribe has still to go through
    subscribed,  \* the calls whose fuse r.subscribed is broken
    subs,        \* per call: the tracks it has subscribed to
    refused,     \* per call: the tracks SetSubscribed failed for, and no later call got
    mixed,       \* per call: the tracks that are inputs of its mixer
    undecoded,   \* per call: the tracks that got no decoder
    room,        \* the calls whose r.room is set
    using,       \* the calls with a SendData that has passed its checks
    nilRoom      \* the calls of which one then found r.room nil

serverVars == <<inRoom, tracks, left>>
sdkVars == <<known, pubs, callbacks>>
goroutineVars == <<pc, subscribe, todo>>
subVars == <<subscribed, subs, refused>>
mixVars == <<mixed, undecoded>>
useVars == <<using, nilRoom>>
roomVars == <<serverVars, sdkVars, goroutineVars, subVars, mixVars, room, useVars>>

RoomTypeOK ==
    /\ inRoom \subseteq Parts /\ left \subseteq Others
    /\ tracks \subseteq inRoom /\ room = Calls \cap inRoom
    /\ pc \in [Calls -> {"new", "publish", "joined", "list", "each", "live", "closing", "closed"}]
    /\ subscribe \cup subscribed \cup using \cup nilRoom \subseteq Calls
    /\ \A v \in Calls :
          /\ pubs[v] \subseteq known[v] /\ known[v] \subseteq Parts \ {v}
          /\ callbacks[v] \subseteq {"join", "track"} \X (Parts \ {v})
          /\ todo[v] \subseteq Parts \ {v}
          /\ mixed[v] \subseteq subs[v] /\ subs[v] \subseteq Parts \ {v}
          /\ undecoded[v] \subseteq subs[v] \ mixed[v] /\ refused[v] \subseteq Parts \ subs[v]

RoomInit ==
    /\ inRoom = {} /\ tracks = {} /\ left = {} /\ room = {} /\ using = {} /\ nilRoom = {}
    /\ pc = [v \in Calls |-> "new"] /\ subscribe = {} /\ subscribed = {}
    /\ known = [v \in Calls |-> {}] /\ pubs = [v \in Calls |-> {}]
    /\ callbacks = [v \in Calls |-> {}] /\ todo = [v \in Calls |-> {}]
    /\ subs = [v \in Calls |-> {}] /\ mixed = [v \in Calls |-> {}]
    /\ refused = [v \in Calls |-> {}] /\ undecoded = [v \in Calls |-> {}]

Goto(v, p, q) == pc[v] = p /\ pc' = [pc EXCEPT ![v] = q]
Grow(f, v, S) == f' = [f EXCEPT ![v] = @ \cup S]
Shrink(f, v, S) == f' = [f EXCEPT ![v] = @ \ S]

------------------------------------------------------------------------------
(* The server, and what it reports to a call that is connected.             *)

OtherMoves(p) ==
    /\ \/ /\ p \notin inRoom \cup left
          /\ inRoom' = inRoom \cup {p} /\ UNCHANGED <<tracks, left>>
       \/ /\ p \in inRoom
          /\ tracks' = tracks \cup {p} /\ UNCHANGED <<inRoom, left>>
       \/ /\ p \in inRoom
          /\ inRoom' = inRoom \ {p} /\ tracks' = tracks \ {p} /\ left' = left \cup {p}
    /\ UNCHANGED <<sdkVars, goroutineVars, subVars, mixVars, room, useVars>>

Report(v, p) ==
    /\ v \in room /\ p # v
    /\ \/ /\ p \in inRoom \ known[v]
          /\ Grow(known, v, {p}) /\ Grow(callbacks, v, {<<"join", p>>}) /\ UNCHANGED pubs
       \/ /\ p \in (tracks \cap known[v]) \ pubs[v]
          /\ Grow(pubs, v, {p}) /\ Grow(callbacks, v, {<<"track", p>>}) /\ UNCHANGED known
       \/ /\ p \in known[v] \ inRoom
          /\ Shrink(known, v, {p}) /\ Shrink(pubs, v, {p}) /\ UNCHANGED callbacks
    /\ UNCHANGED <<serverVars, goroutineVars, subVars, mixVars, room, useVars>>

------------------------------------------------------------------------------
(* The callbacks.                                                           *)

\* A bug: the join of a SIP participant does not unblock the call.
UnblocksNever(p) == FALSE

\* participantJoin: "we just assume SIP participants will eventually start speaking".
Unblocks(p) == p \in Calls \cup SipOthers

\* participantJoin, when the participant is one that unblocks, and subscribeTo for its tracks:
\* one that is gone cannot be subscribed to, and SetSubscribed may fail, which is only logged.
SubscribeTo(v, unblocks, P) ==
    \E done \in SUBSET (P \cap tracks) :
       /\ Grow(subs, v, done)
       /\ refused' = [refused EXCEPT ![v] = (@ \cup (P \cap tracks)) \ (subs[v] \cup done)]
       /\ subscribed' = IF unblocks \/ done # {} THEN subscribed \cup {v} ELSE subscribed

\* OnParticipantConnected
JoinCallback(v, p) ==
    /\ <<"join", p>> \in callbacks[v] /\ Shrink(callbacks, v, {<<"join", p>>})
    /\ subscribed' = IF v \in subscribe /\ Unblocks(p) THEN subscribed \cup {v} ELSE subscribed
    /\ UNCHANGED <<serverVars, known, pubs, goroutineVars, subs, refused, mixVars, room, useVars>>

\* A bug: the track is subscribed to whatever the flag says.
TrackCallbackAlways(v, p) ==
    /\ <<"track", p>> \in callbacks[v] /\ Shrink(callbacks, v, {<<"track", p>>})
    /\ SubscribeTo(v, FALSE, {p})
    /\ UNCHANGED <<serverVars, known, pubs, goroutineVars, mixVars, room, useVars>>

\* OnTrackPublished
TrackCallback(v, p) ==
    /\ <<"track", p>> \in callbacks[v] /\ Shrink(callbacks, v, {<<"track", p>>})
    /\ IF v \in subscribe THEN SubscribeTo(v, FALSE, {p}) ELSE UNCHANGED subVars
    /\ UNCHANGED <<serverVars, known, pubs, goroutineVars, mixVars, room, useVars>>

\* OnTrackSubscribed: a goroutine feeds the track to a new input of the mixer, or gives up on
\* it when there is no decoder.
MixTrack(v, p) ==
    /\ v \in room /\ p \in (tracks \cap subs[v]) \ (mixed[v] \cup undecoded[v])
    /\ \/ Grow(mixed, v, {p}) /\ UNCHANGED undecoded
       \/ Grow(undecoded, v, {p}) /\ UNCHANGED mixed
    /\ UNCHANGED <<serverVars, sdkVars, goroutineVars, subVars, room, useVars>>

\* Its reader ends when the track or the connection does.
TrackEnds(v, p) ==
    /\ p \in mixed[v] /\ (v \notin room \/ p \notin tracks)
    /\ Shrink(mixed, v, {p}) /\ UNCHANGED undecoded
    /\ UNCHANGED <<serverVars, sdkVars, goroutineVars, subVars, room, useVars>>

------------------------------------------------------------------------------
(* The goroutine of a call.                                                 *)

\* Connect joins without auto-subscription; what is in the room is in the SDK's list.
Connect(v) ==
    /\ Goto(v, "new", "publish")
    /\ inRoom' = inRoom \cup {v} /\ room' = room \cup {v}
    /\ known' = [known EXCEPT ![v] = inRoom] /\ pubs' = [pubs EXCEPT ![v] = tracks]
    /\ UNCHANGED <<tracks, left, callbacks, subscribe, todo, subVars, mixVars, useVars>>

\* NewParticipantTrack
Publish(v) ==
    /\ Goto(v, "publish", "joined")
    /\ tracks' = tracks \cup {v}
    /\ UNCHANGED <<inRoom, left, sdkVars, subscribe, todo, subVars, mixVars, room, useVars>>

\* A bug: Subscribe lists the participants before it sets the flag.
SubscribeListsFirst(v) ==
    /\ \/ Goto(v, "joined", "list") /\ todo' = [todo EXCEPT ![v] = known[v]] /\ UNCHANGED subscribe
       \/ Goto(v, "list", "each") /\ subscribe' = subscribe \cup {v} /\ UNCHANGED todo
    /\ UNCHANGED <<serverVars, sdkVars, subVars, mixVars, room, useVars>>

\* Subscribe sets the flag, lists the participants ...
Subscribe(v) ==
    /\ \/ Goto(v, "joined", "list") /\ subscribe' = subscribe \cup {v} /\ UNCHANGED todo
       \/ Goto(v, "list", "each") /\ todo' = [todo EXCEPT ![v] = known[v]] /\ UNCHANGED subscribe
    /\ UNCHANGED <<serverVars, sdkVars, subVars, mixVars, room, useVars>>

\* ... and goes through them and the tracks the SDK knows by then.
SubscribeEach(v) ==
    /\ pc[v] = "each"
    /\ \E p \in todo[v] :
          /\ Shrink(todo, v, {p})
          /\ SubscribeTo(v, Unblocks(p), {p} \cap pubs[v])
    /\ UNCHANGED <<serverVars, sdkVars, pc, subscribe, mixVars, room, useVars>>

SubscribeDone(v) ==
    /\ todo[v] = {} /\ Goto(v, "each", "live")
    /\ UNCHANGED <<serverVars, sdkVars, subscribe, todo, subVars, mixVars, room, useVars>>

\* SendData, for a DTMF event of the media, has seen the room ready and not closed.
SendData(v) ==
    /\ pc[v] = "live" /\ using' = using \cup {v}
    /\ UNCHANGED <<serverVars, sdkVars, goroutineVars, subVars, mixVars, room, nilRoom>>

SendDataGoesOn(v) ==
    /\ v \in using /\ using' = using \ {v}
    /\ nilRoom' = IF v \in room THEN nilRoom ELSE nilRoom \cup {v}
    /\ UNCHANGED <<serverVars, sdkVars, goroutineVars, subVars, mixVars, room>>

\* CloseWithReason, after a failure to publish, before the subscription or at the end of the
\* call: closed is broken and the flag reset ...
BeginClose(v) ==
    /\ pc[v] \in {"publish", "joined", "live"}
    /\ pc' = [pc EXCEPT ![v] = "closing"] /\ subscribe' = subscribe \ {v}
    /\ UNCHANGED <<serverVars, sdkVars, todo, subVars, mixVars, room, useVars>>

\* A bug: the room is forgotten but not disconnected.
DisconnectNever(v) ==
    /\ Goto(v, "closing", "closed")
    /\ UNCHANGED <<serverVars, sdkVars, subscribe, todo, subVars, mixVars, room, useVars>>

\* ... the room is disconnected and forgotten.
Disconnect(v) ==
    /\ Goto(v, "closing", "closed")
    /\ inRoom' = inRoom \ {v} /\ tracks' = tracks \ {v} /\ room' = room \ {v}
    /\ UNCHANGED <<left, sdkVars, subscribe, todo, subVars, mixVars, useVars>>

Callback(v) ==
    \E p \in Parts : JoinCallback(v, p) \/ TrackCallback(v, p) \/ MixTrack(v, p) \/ TrackEnds(v, p)

RoomNext ==
    \/ \E p \in Others : OtherMoves(p)
    \/ \E v \in Calls :
          \/ \E p \in Parts : Report(v, p)
          \/ Callback(v) \/ Connect(v) \/ Publish(v) \/ Subscribe(v) \/ SubscribeEach(v)
          \/ SubscribeDone(v) \/ SendData(v) \/ SendDataGoesOn(v) \/ BeginClose(v) \/ Disconnect(v)

RoomSpec == RoomInit /\ [][RoomNext]_roomVars

\* The server reports, callbacks run, and Subscribe and Close come to their ends.  When a
\* call subscribes or ends, and what the others do, is up to them.
FairRoomSpec ==
    /\ RoomSpec
    /\ \A v \in Calls :
          /\ \A p \in Parts : /\ WF_roomVars(Report(v, p)) /\ WF_roomVars(JoinCallback(v, p))
                              /\ WF_roomVars(TrackCallback(v, p)) /\ WF_roomVars(MixTrack(v, p))
                              /\ WF_roomVars(TrackEnds(v, p))
          /\ WF_roomVars(Subscribe(v)) /\ WF_roomVars(SubscribeEach(v))
          /\ WF_roomVars(SubscribeDone(v)) /\ WF_roomVars(Disconnect(v))

------------------------------------------------------------------------------
(* Properties.                                                              *)

Stays(v, p) == pc[v] = "live" /\ p \in tracks

\* "Not subscribing to any tracks just yet!": before Subscribe a call hears nobody and is not
\* unblocked, whatever the callbacks report meanwhile.
NothingEarly ==
    \A v \in Calls :
       pc[v] \in {"new", "publish", "joined"} => subs[v] = {} /\ v \notin subscribed

\* A call hears everybody: a track is mixed whether it was published before, while or after
\* the participants were listed, unless the track or the call ends, or every attempt to
\* subscribe to it or the decoder failed: neither is tried again.
TracksMixed ==
    \A v \in Calls : \A p \in Parts \ {v} :
       Stays(v, p) ~> (p \in mixed[v] \cup refused[v] \cup undecoded[v] \/ ~Stays(v, p))

\* "Avoid a deadlock where two SIP participant join a room and won't publish their track":
\* another SIP participant ends the wait for a subscription, with a track or without.
SipUnblocks ==
    \A v \in Calls : \A p \in (Calls \cup SipOthers) \ {v} :
       (pc[v] = "live" /\ p \in inRoom) ~> (v \in subscribed \/ pc[v] # "live" \/ p \notin inRoom)

\* A closed room feeds nothing to the mixer any more.
CloseSilences == \A v \in Calls : (pc[v] = "closed") ~> (mixed[v] = {})

\* SendData sends nothing when the room is closed: it does not use r.room once that is nil.
RoomIsThere == nilRoom = {}
=============================================================================
