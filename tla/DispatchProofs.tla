--------------------------- MODULE DispatchProofs ---------------------------
(***************************************************************************)
(* Theorems about Dispatch for any number of calls of both kinds, whatever  *)
(* the calls that come up together: first of its Server, then of the        *)
(* Client and of both behind one port.                                      *)
(*                                                                         *)
(* The invariant of the Client says that c.mu is held exactly while a call  *)
(* is being connected or closed, which is what makes the entries exact: no  *)
(* step of a close can come between two steps of ConnectSIP.                *)
(***************************************************************************)
EXTENDS Dispatch, TLAPS

------------------------------------------------------------------------------
(* The Server, for any number of calls and tags, whatever tags INVITEs      *)
(* share: the entry of a call can be replaced and deleted by another's.     *)

\* The handler of a BYE goes on with the call it found.
FoundCall == \A t \in Tags : bye[t] \in {"found", "accepted"} => found[t] # NoCall

IInv == TypeOK /\ FoundCall /\ ServedIsRegistered /\ EntryIsLive /\ OwnRequests

\* The invariant holds before the first INVITE.
LEMMA InitIInv == Init => IInv
<1> SUFFICES ASSUME Init PROVE IInv OBVIOUS
<1> USE RegistryAssumption DEF Init
<1>1. TypeOK BY DEF TypeOK, Phases
<1>2. FoundCall BY DEF FoundCall
<1>3. ServedIsRegistered BY DEF ServedIsRegistered, Present
<1>4. EntryIsLive BY DEF EntryIsLive
<1>5. OwnRequests BY DEF OwnRequests
<1> QED BY <1>1, <1>2, <1>3, <1>4, <1>5 DEF IInv

\* Tags do not change, and a call that was admitted never counts as not admitted again: a tag
\* that was shared stays so, an ended call stays ended and a stopped Server stopped.
LEMMA Kept ==
    ASSUME TypeOK, [Next]_vars, NEW c \in Calls
    PROVE  /\ tag' = tag
           /\ phase[c] # "none" => phase'[c] # "none"
           /\ phase[c] = "ended" => phase'[c] = "ended"
           /\ Sharing(c) => Sharing(c)'
           /\ Stopped => Stopped'
<1>1. /\ tag' = tag
      /\ \A d \in Calls : phase[d] # "none" => phase'[d] # "none"
      /\ \A d \in Calls : phase[d] = "ended" => phase'[d] = "ended"
      /\ Stopped => Stopped'
  <2> USE DEF TypeOK, Stopped, peerVars, stopVars
  <2>1. ASSUME NEW d \in Calls,
               Invite(d) \/ Answer(d) \/ BeginClose(d) \/ CloseLeg(d) \/ Unregister(d) \/ Ack(d)
        PROVE  <1>1!:
    BY <2>1 DEF Invite, Answer, BeginClose, CloseLeg, Unregister, Ack, Serving
  <2>2. ASSUME NEW t \in Tags, Bye(t) \/ AcceptBye(t) \/ ByeCancels(t) PROVE <1>1!:
    BY <2>2 DEF Bye, AcceptBye, ByeCancels
  <2>3. CASE Swap \/ CloseCalls
    BY <2>3 DEF Swap, CloseCalls
  <2>4. CASE UNCHANGED vars
    BY <2>4 DEF vars
  <2> QED BY <2>1, <2>2, <2>3, <2>4 DEF Next
<1>2. Sharing(c) => Sharing(c)'
  BY <1>1 DEF Sharing
<1> QED BY <1>1, <1>2

\* Whatever it replaces, an admitted call has the entry of its tag, and the others of that tag
\* have been joined by it.
LEMMA InviteIInv ==
    ASSUME IInv, NEW c \in Calls, Invite(c) PROVE IInv'
<1> USE RegistryAssumption DEF IInv, Invite, Register, peerVars, stopVars
<1>1. TypeOK' BY DEF TypeOK, Phases
<1>2. FoundCall' BY DEF FoundCall
<1>3. ServedIsRegistered'
  <2> SUFFICES ASSUME NEW d \in Calls, Present(d)'
               PROVE  /\ d \in byLocal'
                      /\ Stopped' \/ activeCalls'[tag'[d]] = d \/ Sharing(d)'
                      /\ \/ Stopped' \/ activeCalls'[tag'[d]] # NoCall
                         \/ \E e \in Calls \ {d} : phase'[e] = "ended" /\ tag'[e] = tag'[d]
    BY DEF ServedIsRegistered
  <2>1. CASE d = c
    BY <2>1 DEF TypeOK
  <2>2. CASE d # c /\ tag[d] = tag[c]
    <3>1. d \in byLocal' BY <2>2 DEF ServedIsRegistered, Present, TypeOK
    <3>2. Sharing(d)' BY <2>2 DEF Sharing, TypeOK
    <3>3. activeCalls'[tag'[d]] = c BY <2>2 DEF TypeOK
    <3> QED BY <3>1, <3>2, <3>3
  <2>3. CASE d # c /\ tag[d] # tag[c]
    <3>1. Present(d) /\ activeCalls'[tag'[d]] = activeCalls[tag[d]]
      BY <2>3 DEF Present, TypeOK
    <3>2. d \in byLocal' BY <3>1 DEF ServedIsRegistered
    <3>3. Sharing(d) => Sharing(d)' BY DEF Sharing, TypeOK
    <3>4. (\E e \in Calls \ {d} : phase[e] = "ended" /\ tag[e] = tag[d])
              => \E e \in Calls \ {d} : phase'[e] = "ended" /\ tag'[e] = tag'[d]
      BY <2>3 DEF TypeOK
    <3> QED BY <3>1, <3>2, <3>3, <3>4 DEF ServedIsRegistered, Stopped
  <2> QED BY <2>1, <2>2, <2>3
<1>4. EntryIsLive'
  <2>1. \A t \in Tags : activeCalls'[t] # NoCall =>
           phase'[activeCalls'[t]] \notin {"none", "ended"} /\ tag'[activeCalls'[t]] = t
    BY DEF EntryIsLive, TypeOK
  <2>2. \A d \in byLocal' : phase'[d] \notin {"none", "ended"} BY DEF EntryIsLive, TypeOK
  <2> QED BY <2>1, <2>2 DEF EntryIsLive
<1>5. OwnRequests'
  <2>1. \A d \in Calls : Sharing(d) => Sharing(d)' BY DEF Sharing, TypeOK
  <2> QED BY <2>1 DEF OwnRequests, Stopped, TypeOK
<1> QED BY <1>1, <1>2, <1>3, <1>4, <1>5

\* A call that leaves deletes the entry of its tag, whose call knows another that has ended.
LEMMA UnregisterIInv ==
    ASSUME IInv, NEW c \in Calls, Unregister(c) PROVE IInv'
<1> USE RegistryAssumption DEF IInv, Unregister, peerVars, stopVars
<1>1. TypeOK' BY DEF TypeOK, Phases
<1>2. FoundCall' BY DEF FoundCall
<1>3. \A d \in Calls : Sharing(d) => Sharing(d)' BY DEF Sharing, TypeOK
<1>4. ServedIsRegistered'
  <2> SUFFICES ASSUME NEW d \in Calls, Present(d)'
               PROVE  /\ d \in byLocal'
                      /\ Stopped' \/ activeCalls'[tag'[d]] = d \/ Sharing(d)'
                      /\ \/ Stopped' \/ activeCalls'[tag'[d]] # NoCall
                         \/ \E e \in Calls \ {d} : phase'[e] = "ended" /\ tag'[e] = tag'[d]
    BY DEF ServedIsRegistered
  <2>1. d # c /\ Present(d) /\ phase'[c] = "ended" BY DEF Present, TypeOK
  <2>2. d \in byLocal' BY <2>1 DEF ServedIsRegistered
  <2>3. CASE tag[d] = tag[c]
    BY <2>1, <2>2, <2>3 DEF Sharing
  <2>4. CASE tag[d] # tag[c]
    <3>1. activeCalls'[tag'[d]] = activeCalls[tag[d]] BY <2>4 DEF TypeOK
    <3>2. (\E e \in Calls \ {d} : phase[e] = "ended" /\ tag[e] = tag[d])
              => \E e \in Calls \ {d} : phase'[e] = "ended" /\ tag'[e] = tag'[d]
      BY DEF TypeOK
    <3> QED BY <1>3, <2>1, <2>2, <3>1, <3>2 DEF ServedIsRegistered, Stopped
  <2> QED BY <2>3, <2>4
<1>5. EntryIsLive'
  <2>1. \A t \in Tags : activeCalls'[t] # NoCall =>
           phase'[activeCalls'[t]] \notin {"none", "ended"} /\ tag'[activeCalls'[t]] = t
    BY DEF EntryIsLive, TypeOK
  <2>2. \A d \in byLocal' : phase'[d] \notin {"none", "ended"} BY DEF EntryIsLive, TypeOK
  <2> QED BY <2>1, <2>2 DEF EntryIsLive
<1>6. OwnRequests' BY <1>3 DEF OwnRequests, Stopped, TypeOK
<1> QED BY <1>1, <1>2, <1>4, <1>5, <1>6

\* The other steps of a call do not change its entry.
LEMMA PhaseIInv ==
    ASSUME IInv, NEW c \in Calls, Answer(c) \/ BeginClose(c) \/ CloseLeg(c) PROVE IInv'
<1> USE RegistryAssumption DEF IInv, Answer, BeginClose, CloseLeg, Serving, peerVars, stopVars
<1>1. TypeOK' BY DEF TypeOK, Phases
<1>2. FoundCall' BY DEF FoundCall
<1>3. \A d \in Calls : (Sharing(d) => Sharing(d)') /\ (Present(d)' => Present(d))
  BY DEF Sharing, Present, TypeOK
<1>4. \A d \in Calls : phase[d] = "ended" => phase'[d] = "ended"
  BY DEF TypeOK
<1>5. UNCHANGED <<tag, activeCalls, byLocal, stop, ack, acked, found>>
  OBVIOUS
<1>6. ServedIsRegistered' BY <1>3, <1>4, <1>5 DEF ServedIsRegistered, Stopped
<1>7. EntryIsLive' BY DEF EntryIsLive, TypeOK
<1>8. OwnRequests' BY <1>3, <1>4, <1>5 DEF OwnRequests, Stopped, TypeOK
<1> QED BY <1>1, <1>2, <1>6, <1>7, <1>8

\* An ACK or a BYE finds what is registered for its tag.
LEMMA RequestIInv ==
    ASSUME IInv,
           (\E c \in Calls : Ack(c)) \/ (\E t \in Tags : Bye(t) \/ AcceptBye(t) \/ ByeCancels(t))
    PROVE  IInv'
<1> USE RegistryAssumption DEF IInv, stopVars
<1>1. UNCHANGED <<phase, tag, activeCalls, byLocal, stop>>
  BY DEF Ack, Bye, AcceptBye, ByeCancels
<1>2. ServedIsRegistered' BY <1>1 DEF ServedIsRegistered, Present, Stopped, Sharing
<1>3. EntryIsLive' BY <1>1 DEF EntryIsLive
<1>4. ASSUME NEW c \in Calls, Ack(c) PROVE TypeOK' /\ FoundCall' /\ OwnRequests'
  <2>1. TypeOK' BY <1>4 DEF Ack, TypeOK
  <2>2. FoundCall' BY <1>4 DEF Ack, FoundCall
  <2>3. c \in acked' \/ phase[c] = "ended" \/ Stopped \/ Sharing(c)
    BY <1>4 DEF Ack, ServedIsRegistered, Present
  <2>4. \A d \in acked' : d \in acked \/ tag[d] = tag[c]
    BY <1>4 DEF Ack, EntryIsLive, TypeOK
  <2>5. ack' = ack \cup {c} /\ acked \subseteq acked' /\ found' = found
    BY <1>4 DEF Ack
  <2>6. OwnRequests' BY <1>1, <2>3, <2>4, <2>5 DEF OwnRequests, Stopped, Sharing, TypeOK
  <2> QED BY <2>1, <2>2, <2>6
<1>5. ASSUME NEW t \in Tags, Bye(t) \/ AcceptBye(t) \/ ByeCancels(t)
      PROVE  TypeOK' /\ FoundCall' /\ OwnRequests'
  <2>1. TypeOK' BY <1>5 DEF Bye, AcceptBye, ByeCancels, TypeOK, FoundCall
  <2>2. FoundCall' BY <1>5 DEF Bye, AcceptBye, ByeCancels, FoundCall, TypeOK
  <2>3. UNCHANGED <<ack, acked>> /\ \A u \in Tags : found'[u] \in {found[u], activeCalls[u]}
    BY <1>5 DEF Bye, AcceptBye, ByeCancels, TypeOK
  <2>4. \A u \in Tags : found'[u] # NoCall => phase'[found'[u]] # "none" /\ tag'[found'[u]] = u
    BY <1>1, <2>3 DEF OwnRequests, EntryIsLive, TypeOK
  <2>5. OwnRequests' BY <1>1, <2>3, <2>4 DEF OwnRequests, Stopped, Sharing
  <2> QED BY <2>1, <2>2, <2>5
<1> QED BY <1>2, <1>3, <1>4, <1>5

\* Stop empties the map of tags and cancels calls.
LEMMA StopIInv == ASSUME IInv, Swap \/ CloseCalls PROVE IInv'
<1> USE RegistryAssumption DEF IInv, Swap, CloseCalls, peerVars
<1>1. TypeOK' BY DEF TypeOK
<1>2. FoundCall' BY DEF FoundCall
<1>3. ServedIsRegistered' BY DEF ServedIsRegistered, Present, Stopped
<1>4. EntryIsLive' BY DEF EntryIsLive
<1>5. OwnRequests' BY DEF OwnRequests, Stopped
<1> QED BY <1>1, <1>2, <1>3, <1>4, <1>5

LEMMA NextIInv == ASSUME IInv, [Next]_vars PROVE IInv'
<1>1. CASE UNCHANGED vars
  BY <1>1 DEF IInv, vars, TypeOK, FoundCall, ServedIsRegistered, Present, Sharing, Stopped,
              EntryIsLive, OwnRequests
<1>2. CASE Next
  <2>1. ASSUME NEW c \in Calls, Invite(c) PROVE IInv' BY <2>1, InviteIInv
  <2>2. ASSUME NEW c \in Calls, Unregister(c) PROVE IInv' BY <2>2, UnregisterIInv
  <2>3. ASSUME NEW c \in Calls, Answer(c) \/ BeginClose(c) \/ CloseLeg(c) PROVE IInv'
    BY <2>3, PhaseIInv
  <2>4. ASSUME NEW c \in Calls, Ack(c) PROVE IInv' BY <2>4, RequestIInv
  <2>5. ASSUME NEW t \in Tags, Bye(t) \/ AcceptBye(t) \/ ByeCancels(t) PROVE IInv'
    BY <2>5, RequestIInv
  <2>6. CASE Swap \/ CloseCalls BY <2>6, StopIInv
  <2> QED BY <1>2, <2>1, <2>2, <2>3, <2>4, <2>5, <2>6 DEF Next
<1> QED BY <1>1, <1>2

LEMMA Invariance == Spec => []IInv
<1>1. Init => IInv BY InitIInv
<1>2. IInv /\ [Next]_vars => IInv' BY NextIInv
<1> QED BY <1>1, <1>2, PTL DEF Spec

\* The maps, the phases and the requests of the calls keep their types.
THEOREM TypeCorrect == Spec => []TypeOK
<1>1. IInv => TypeOK BY DEF IInv
<1> QED BY <1>1, Invariance, PTL

\* A call that is not over is found by its own tag, and until Stop by its From tag, unless
\* another INVITE carried that.
THEOREM Registered == Spec => []ServedIsRegistered
<1>1. IInv => ServedIsRegistered BY DEF IInv
<1> QED BY <1>1, Invariance, PTL

\* No entry of either map names a call that is over.
THEOREM Live == Spec => []EntryIsLive
<1>1. IInv => EntryIsLive BY DEF IInv
<1> QED BY <1>1, Invariance, PTL

\* An ACK opens its call unless its tag was shared, and no request acts on a call of another tag.
THEOREM Routed == Spec => []OwnRequests
<1>1. IInv => OwnRequests BY DEF IInv
<1> QED BY <1>1, Invariance, PTL

\* Server.Stop misses no call whose tag is its own: one that is served and not in the map has
\* been listed, and what was listed is cancelled, a call at a time.  An INVITE that comes after
\* the swap is in the new map.
Listed ==
    /\ \A c \in Calls : Stopped /\ Serving(c) /\ activeCalls[tag[c]] # c =>
           c \in cancelled \/ c \in stopCalls \/ Sharing(c)
    /\ stop = "done" => stopCalls = {}

StopReaches ==
    \A c \in Calls : stop = "done" /\ Serving(c) /\ activeCalls[tag[c]] # c =>
        c \in cancelled \/ Sharing(c)

LEMMA NextListed ==
    ASSUME IInv, Listed, [Next]_vars PROVE Listed'
<1> USE RegistryAssumption DEF Listed, Serving
<1>k. \A c \in Calls : Sharing(c) => Sharing(c)'
  BY Kept DEF IInv
<1>1. CASE UNCHANGED vars BY <1>1, <1>k DEF vars, Stopped
<1>2. ASSUME NEW c \in Calls, Invite(c) PROVE Listed'
  <2>1. \A d \in Calls \ {c} : phase'[d] = phase[d] BY <1>2 DEF Invite, IInv, TypeOK
  <2>2. \A d \in Calls \ {c} :
            Sharing(d)' \/ activeCalls'[tag'[d]] = activeCalls[tag[d]]
    BY <1>2 DEF Invite, Register, IInv, TypeOK, Sharing
  <2>3. activeCalls'[tag'[c]] = c BY <1>2 DEF Invite, Register, IInv, TypeOK
  <2>4. UNCHANGED <<stop, stopCalls, cancelled>> BY <1>2 DEF Invite, stopVars
  <2> QED BY <1>k, <2>1, <2>2, <2>3, <2>4 DEF Stopped
<1>3. ASSUME NEW c \in Calls, Unregister(c) PROVE Listed'
  <2>1. phase'[c] = "ended" /\ \A d \in Calls \ {c} : phase'[d] = phase[d]
    BY <1>3 DEF Unregister, IInv, TypeOK
  <2>2. \A d \in Calls \ {c} :
            Sharing(d)' \/ activeCalls'[tag'[d]] = activeCalls[tag[d]]
    BY <1>3, <2>1 DEF Unregister, IInv, TypeOK, Sharing
  <2>3. UNCHANGED <<stop, stopCalls>> /\ cancelled \subseteq cancelled'
    BY <1>3 DEF Unregister, stopVars
  <2> QED BY <1>k, <2>1, <2>2, <2>3 DEF Stopped
<1>4. ASSUME NEW c \in Calls, Answer(c) \/ BeginClose(c) \/ CloseLeg(c) PROVE Listed'
  <2>1. \A d \in Calls : Serving(d)' => Serving(d)
    BY <1>4 DEF Answer, BeginClose, CloseLeg, IInv, TypeOK
  <2>2. UNCHANGED <<tag, activeCalls, stop, stopCalls, cancelled>>
    BY <1>4 DEF Answer, BeginClose, CloseLeg, stopVars
  <2> QED BY <1>k, <2>1, <2>2 DEF Stopped
<1>5. ASSUME NEW c \in Calls, Ack(c) PROVE Listed'
  BY <1>5, <1>k DEF Ack, stopVars, Stopped
<1>6. ASSUME NEW t \in Tags, Bye(t) \/ AcceptBye(t) \/ ByeCancels(t) PROVE Listed'
  BY <1>6, <1>k DEF Bye, AcceptBye, ByeCancels, stopVars, Stopped
<1>7. CASE Swap
  <2>1. \A c \in Calls : Serving(c) => (activeCalls[tag[c]] = c \/ Sharing(c)) /\ tag[c] \in Tags
    BY <1>7 DEF Swap, IInv, ServedIsRegistered, Present, Stopped, TypeOK
  <2>2. \A c \in Calls : Serving(c) => c \in stopCalls' \/ Sharing(c) BY <1>7, <2>1 DEF Swap
  <2> QED BY <1>7, <1>k, <2>2 DEF Swap
<1>8. CASE CloseCalls BY <1>8, <1>k DEF CloseCalls, Stopped
<1> QED BY <1>1, <1>2, <1>3, <1>4, <1>5, <1>6, <1>7, <1>8 DEF Next

\* When Server.Stop returns, no served call is left that neither a cancelled context nor the
\* new map knows of, unless another INVITE carried its tag.
THEOREM StopReached == Spec => []StopReaches
<1>1. Init => Listed BY DEF Init, Listed, Stopped, Serving
<1>2. IInv /\ Listed /\ [Next]_vars => Listed' BY NextListed
<1>3. Listed => StopReaches BY DEF Listed, StopReaches, Stopped
<1> QED BY <1>1, <1>2, <1>3, Invariance, PTL DEF Spec

------------------------------------------------------------------------------
(* The Client, and both behind one port.                                    *)

\* The lock, and what is known of a call at each step of Dial.
Locked ==
    \A c \in Callees :
        /\ Connecting(c) => c \in mu /\ shut[c] \in {"open", "closed"}
        /\ shut[c] \in {"leg", "unregister"} => c \in mu
        /\ dial[c] \in {"none", "join"} => shut[c] = "open" /\ c \notin mu
        /\ dial[c] \in {"none", "join", "dial", "invite"} => c \notin tagged
        /\ dial[c] \in {"answered", "indexed"} => c \in tagged
        /\ dial[c] = "done" /\ shut[c] = "open" => c \in tagged

\* The entries of the Client's maps.
Entries ==
    /\ \A t \in Tags : byRemote[t] # NoCall =>
           /\ byRemote[t] = t /\ byRemote[t] \in tagged
           /\ shut[byRemote[t]] # "closed"
    /\ \A c \in outCalls : shut[c] # "closed" /\ dial[c] \notin {"none", "join"}
    /\ \A c \in Callees : outStop = "no" /\ shut[c] # "closed" =>
           /\ dial[c] \notin {"none", "join"} => c \in outCalls
           /\ dial[c] = "indexed" => byRemote[c] = c
           /\ dial[c] = "done" /\ shut[c] = "open" => byRemote[c] = c

\* The calls that a BYE or Client.Stop has found are dialled: newCall is over.
Known ==
    /\ \A c \in Callees : outFound[c] = c => c \in tagged
    /\ \A c \in outStopCalls : dial[c] \notin {"none", "join"}
    /\ stopsAt # NoCall => stopsAt \in outStopCalls /\ outStop # "no"

\* A BYE that the Client acts on acts on the call whose callee sent it.
OwnCallee ==
    \A c \in Callees : /\ outFound[c] \in {c, NoCall}
                       /\ outBye[c] \in {"found", "accepted"} => outFound[c] = c

DInv == ClientTypeOK /\ Locked /\ Entries /\ Known /\ OwnCallee

\* The invariant holds before the first call.
LEMMA InitDInv == DispatchInit => DInv
<1> SUFFICES ASSUME DispatchInit PROVE DInv OBVIOUS
<1> USE DispatchAssumption, RegistryAssumption DEF DispatchInit
<1>1. ClientTypeOK BY DEF ClientTypeOK
<1>2. Locked BY DEF Locked, Connecting
<1>3. Entries BY DEF Entries
<1>5. OwnCallee BY DEF OwnCallee
<1>6. Known BY DEF Known
<1> QED BY <1>1, <1>2, <1>3, <1>5, <1>6 DEF DInv

\* A step of the Server leaves the Client alone.
LEMMA ServerDInv == ASSUME DInv, UNCHANGED <<party, clientVars>> PROVE DInv'
<1> USE DEF DInv, clientVars, dialVars, mapVars, outByeVars, outStopVars
<1>1. ClientTypeOK' BY DEF ClientTypeOK
<1>2. Locked' BY DEF Locked, Connecting
<1>3. Entries' BY DEF Entries
<1>4. OwnCallee' BY DEF OwnCallee
<1>5. Known' BY DEF Known
<1> QED BY <1>1, <1>2, <1>3, <1>4, <1>5

\* One case per action of the Client.
LEMMA ClientDInv == ASSUME DInv, ClientStep, UNCHANGED <<vars, party>> PROVE DInv'
<1> USE DispatchAssumption, RegistryAssumption
    DEF DInv, ClientTypeOK, Connecting, vars, dialVars, mapVars, outByeVars, outStopVars
<1> HIDE DEF vars
<1>1. ASSUME NEW c \in Callees, NewCall(c) PROVE DInv'
  <2>1. ClientTypeOK' BY <1>1 DEF NewCall
  <2>2. Locked' BY <1>1 DEF NewCall, Locked
  <2>3. Entries' BY <1>1 DEF NewCall, Locked, Entries
  <2>4. OwnCallee' BY <1>1 DEF NewCall, Entries, OwnCallee
  <2>5. Known' BY <1>1 DEF NewCall, Entries, Known
  <2> QED BY <2>1, <2>2, <2>3, <2>4, <2>5
<1>2. ASSUME NEW c \in Callees, Join(c) PROVE DInv'
  <2>1. ClientTypeOK' BY <1>2 DEF Join
  <2>2. Locked' BY <1>2 DEF Join, Locked
  <2>3. Entries' BY <1>2 DEF Join, Locked, Entries
  <2>4. OwnCallee' BY <1>2 DEF Join, Entries, OwnCallee
  <2>5. Known' BY <1>2 DEF Join, Entries, Known
  <2> QED BY <2>1, <2>2, <2>3, <2>4, <2>5
<1>3. ASSUME NEW c \in Callees, Dial(c) PROVE DInv'
  <2>1. ClientTypeOK' BY <1>3 DEF Dial
  <2>2. Locked' BY <1>3 DEF Dial, Locked
  <2>3. Entries' BY <1>3 DEF Dial, Locked, Entries
  <2>4. OwnCallee' BY <1>3 DEF Dial, Entries, OwnCallee
  <2>5. Known' BY <1>3 DEF Dial, Entries, Known
  <2> QED BY <2>1, <2>2, <2>3, <2>4, <2>5
<1>4. ASSUME NEW c \in Callees, Answered(c) PROVE DInv'
  <2>1. ClientTypeOK' BY <1>4 DEF Answered
  <2>2. Locked' BY <1>4 DEF Answered, Locked
  <2>3. Entries' BY <1>4 DEF Answered, Locked, Entries
  <2>4. OwnCallee' BY <1>4 DEF Answered, Entries, OwnCallee
  <2>5. Known' BY <1>4 DEF Answered, Entries, Known
  <2> QED BY <2>1, <2>2, <2>3, <2>4, <2>5
<1>5. ASSUME NEW c \in Callees, Index(c) PROVE DInv'
  <2>1. ClientTypeOK' BY <1>5 DEF Index, CalleeTag
  <2>2. Locked' BY <1>5 DEF Index, CalleeTag, Locked
  <2>3. Entries' BY <1>5 DEF Index, CalleeTag, Locked, Entries
  <2>4. OwnCallee' BY <1>5 DEF Index, CalleeTag, Entries, OwnCallee
  <2>5. Known' BY <1>5 DEF Index, CalleeTag, Entries, Known
  <2> QED BY <2>1, <2>2, <2>3, <2>4, <2>5
<1>6. ASSUME NEW c \in Callees, Established(c) PROVE DInv'
  <2>1. ClientTypeOK' BY <1>6 DEF Established
  <2>2. Locked' BY <1>6 DEF Established, Locked
  <2>3. Entries' BY <1>6 DEF Established, Locked, Entries
  <2>4. OwnCallee' BY <1>6 DEF Established, Entries, OwnCallee
  <2>5. Known' BY <1>6 DEF Established, Entries, Known
  <2> QED BY <2>1, <2>2, <2>3, <2>4, <2>5
<1>7. ASSUME NEW c \in Callees, DialFails(c) PROVE DInv'
  <2>1. ClientTypeOK' BY <1>7 DEF DialFails
  <2>2. Locked' BY <1>7 DEF DialFails, Locked
  <2>3. Entries' BY <1>7 DEF DialFails, Locked, Entries
  <2>4. OwnCallee' BY <1>7 DEF DialFails, Entries, OwnCallee
  <2>5. Known' BY <1>7 DEF DialFails, Entries, Known
  <2> QED BY <2>1, <2>2, <2>3, <2>4, <2>5
<1>8. ASSUME NEW c \in Callees, CloseCall(c) PROVE DInv'
  <2>1. ClientTypeOK' BY <1>8 DEF CloseCall, TakeAndClose
  <2>2. Locked' BY <1>8 DEF CloseCall, TakeAndClose, Locked
  <2>3. Entries' BY <1>8 DEF CloseCall, TakeAndClose, Locked, Entries
  <2>4. OwnCallee' BY <1>8 DEF CloseCall, TakeAndClose, Entries, OwnCallee
  <2>5. Known' BY <1>8 DEF CloseCall, TakeAndClose, Entries, Known
  <2> QED BY <2>1, <2>2, <2>3, <2>4, <2>5
<1>9. ASSUME NEW c \in Callees, CloseOutLeg(c) PROVE DInv'
  <2>1. ClientTypeOK' BY <1>9 DEF CloseOutLeg
  <2>2. Locked' BY <1>9 DEF CloseOutLeg, Locked
  <2>3. Entries' BY <1>9 DEF CloseOutLeg, Locked, Entries
  <2>4. OwnCallee' BY <1>9 DEF CloseOutLeg, Entries, OwnCallee
  <2>5. Known' BY <1>9 DEF CloseOutLeg, Entries, Known
  <2> QED BY <2>1, <2>2, <2>3, <2>4, <2>5
<1>10. ASSUME NEW c \in Callees, UnregisterOut(c) PROVE DInv'
  <2>1. ClientTypeOK' BY <1>10 DEF UnregisterOut, CalleeTag
  <2>2. Locked' BY <1>10 DEF UnregisterOut, CalleeTag, Locked
  <2>3. Entries' BY <1>10 DEF UnregisterOut, CalleeTag, Locked, Entries
  <2>4. OwnCallee' BY <1>10 DEF UnregisterOut, CalleeTag, Entries, OwnCallee
  <2>5. Known' BY <1>10 DEF UnregisterOut, CalleeTag, Entries, Known
  <2> QED BY <2>1, <2>2, <2>3, <2>4, <2>5
<1>11. ASSUME NEW c \in Callees, OutBye(c) PROVE DInv'
  <2>1. ClientTypeOK' BY <1>11 DEF OutBye, CalleeTag
  <2>2. Locked' BY <1>11 DEF OutBye, CalleeTag, Locked
  <2>3. Entries' BY <1>11 DEF OutBye, CalleeTag, Locked, Entries
  <2>4. OwnCallee' BY <1>11 DEF OutBye, CalleeTag, Entries, OwnCallee
  <2>5. Known' BY <1>11 DEF OutBye, CalleeTag, Entries, Known
  <2> QED BY <2>1, <2>2, <2>3, <2>4, <2>5
<1>12. ASSUME NEW c \in Callees, OutAcceptBye(c) PROVE DInv'
  <2>1. ClientTypeOK' BY <1>12 DEF OutAcceptBye
  <2>2. Locked' BY <1>12 DEF OutAcceptBye, Locked
  <2>3. Entries' BY <1>12 DEF OutAcceptBye, Locked, Entries
  <2>4. OwnCallee' BY <1>12 DEF OutAcceptBye, Entries, OwnCallee
  <2>5. Known' BY <1>12 DEF OutAcceptBye, Entries, Known
  <2> QED BY <2>1, <2>2, <2>3, <2>4, <2>5
<1>13. ASSUME NEW c \in Callees, OutByeCloses(c) PROVE DInv'
  <2>1. ClientTypeOK' BY <1>13 DEF OutByeCloses, TakeAndClose, OwnCallee
  <2>c. ASSUME NEW d \in tagged, TakeAndClose(d), UNCHANGED <<dial, tagged>>
        PROVE  Locked'
    <3>1. CASE shut[d] = "open"
      BY <2>c, <3>1 DEF TakeAndClose, Locked
    <3>2. CASE shut[d] # "open"
      BY <2>c, <3>2 DEF TakeAndClose, Locked
    <3> QED BY <3>1, <3>2
  <2>d. outFound[c] \in tagged
    BY <1>13 DEF OutByeCloses, Known, OwnCallee
  <2>2. Locked' BY <1>13, <2>c, <2>d DEF OutByeCloses
  <2>3. Entries' BY <1>13 DEF OutByeCloses, TakeAndClose, Locked, Entries
  <2>4. OwnCallee' BY <1>13 DEF OutByeCloses, TakeAndClose, Entries, OwnCallee
  <2>5. Known' BY <1>13 DEF OutByeCloses, TakeAndClose, Entries, Known
  <2> QED BY <2>1, <2>2, <2>3, <2>4, <2>5
<1>14. ASSUME NEW c \in Callees, StopNext(c) PROVE DInv'
  <2>1. ClientTypeOK' BY <1>14 DEF StopNext
  <2>2. Locked' BY <1>14 DEF StopNext, Locked
  <2>3. Entries' BY <1>14 DEF StopNext, Locked, Entries
  <2>4. OwnCallee' BY <1>14 DEF StopNext, Entries, OwnCallee
  <2>5. Known' BY <1>14 DEF StopNext, Entries, Known
  <2> QED BY <2>1, <2>2, <2>3, <2>4, <2>5
<1>15. ASSUME NEW c \in Callees, StopCloses(c) PROVE DInv'
  <2>1. ClientTypeOK' BY <1>15 DEF StopCloses, TakeAndClose
  <2>c. ASSUME shut[c] = "open" PROVE Locked'
    BY <1>15, <2>c DEF StopCloses, TakeAndClose, Locked, Known
  <2>d. ASSUME shut[c] # "open" PROVE Locked'
    BY <1>15, <2>d DEF StopCloses, TakeAndClose, Locked
  <2>2. Locked' BY <2>c, <2>d
  <2>3. Entries' BY <1>15 DEF StopCloses, TakeAndClose, Locked, Entries
  <2>4. OwnCallee' BY <1>15 DEF StopCloses, TakeAndClose, Entries, OwnCallee
  <2>5. Known' BY <1>15 DEF StopCloses, TakeAndClose, Entries, Known
  <2> QED BY <2>1, <2>2, <2>3, <2>4, <2>5
<1>16. CASE SwapOut
  <2>1. ClientTypeOK' BY <1>16 DEF SwapOut
  <2>2. Locked' BY <1>16 DEF SwapOut, Locked
  <2>3. Entries' BY <1>16 DEF SwapOut, Entries
  <2>4. OwnCallee' BY <1>16 DEF SwapOut, OwnCallee
  <2>5. Known' BY <1>16 DEF SwapOut, Entries, Known
  <2> QED BY <2>1, <2>2, <2>3, <2>4, <2>5
<1>17. CASE StopReturns
  BY <1>17 DEF StopReturns, vars, Locked, Entries, Known, OwnCallee
<1> QED BY <1>1, <1>2, <1>3, <1>4, <1>5, <1>6, <1>7, <1>8, <1>9,
          <1>10, <1>11, <1>12, <1>13, <1>14, <1>15, <1>16, <1>17
    DEF ClientStep

\* The invariant is kept by every step of the two sides.
LEMMA StepDInv == DInv /\ [DispatchNext]_allVars => DInv'
<1> SUFFICES ASSUME DInv, [DispatchNext]_allVars PROVE DInv' OBVIOUS
<1>1. CASE ClientStep /\ UNCHANGED <<vars, party>>
  BY <1>1, ClientDInv
<1>2. CASE ServerStep /\ UNCHANGED <<party, clientVars>>
  BY <1>2, ServerDInv
<1>3. CASE UNCHANGED allVars
  BY <1>3 DEF allVars, vars, clientVars, dialVars, mapVars, outByeVars, outStopVars, DInv,
     ClientTypeOK, Locked, Connecting, Entries, Known, OwnCallee
<1> QED BY <1>1, <1>2, <1>3 DEF DispatchNext

\* What holds in every reachable state.
LEMMA DispatchInvariant == DispatchSpec => []DInv
BY InitDInv, StepDInv, PTL DEF DispatchSpec

\* The composition only adds to the Server: what is proved of ServerRegistry holds here.
THEOREM ServerIsKept == DispatchSpec => Spec
<1>1. DispatchInit => Init
  BY DEF DispatchInit
<1>2. [DispatchNext]_allVars => [Next]_vars
  BY DEF DispatchNext, ServerStep, allVars
<1> QED BY <1>1, <1>2, PTL DEF DispatchSpec, Spec

\* The state of the Client stays well typed.
THEOREM ClientTypeCorrect == DispatchSpec => []ClientTypeOK
<1>1. DInv => ClientTypeOK BY DEF DInv
<1> QED BY DispatchInvariant, <1>1, PTL

\* Until Client.Stop an outbound call that is up is found by its id and by its callee's tag,
\* and no entry outlives its call.
THEOREM CalleeFound == DispatchSpec => []CalleeIsFound
<1>1. DInv => CalleeIsFound
  BY DispatchAssumption DEF DInv, CalleeIsFound, ClientTypeOK, Locked, Entries, CalleeTag
<1> QED BY DispatchInvariant, <1>1, PTL

------------------------------------------------------------------------------
(* Service.Stop, through the Client's calls to the Server's.                *)

\* c.mu is never left behind: whoever waits for it, Client.Stop or the handler of a BYE, waits
\* for a call that is still being connected, or closed, and only for one of the two.
LockHasHolder ==
    \A c \in mu : Connecting(c) <=> shut[c] \notin {"leg", "unregister"}

\* Client.Stop has every dialled call in its list until it is closed, but the calls that were
\* registered after the swap; the Server is stopped after it.
OutListed ==
    /\ \A c \in Callees : outStop # "no" /\ dial[c] \notin {"none", "join"} =>
           c \in outCalls \/ c \in outStopCalls \/ shut[c] = "closed"
    /\ outStop = "done" => outStopCalls = {}
    /\ stop # "no" => outStop = "done"

\* When Service.Stop gets to the inbound calls, it has closed every outbound one it knew.
OutboundFirst ==
    stop # "no" =>
        \A c \in Callees : dial[c] \notin {"none", "join"} => c \in outCalls \/ shut[c] = "closed"

StopInv == LockHasHolder /\ OutListed

\* One case per group of actions.
LEMMA ClientStopInv == ASSUME DInv, StopInv, ClientStep, UNCHANGED <<vars, party>> PROVE StopInv'
<1> USE DEF DInv, ClientTypeOK, StopInv, Locked, Connecting, LockHasHolder, OutListed
<1> USE DEF dialVars, mapVars, outByeVars, outStopVars
<1>0. stop' = stop BY DEF vars
<1>1. ASSUME NEW c \in Callees, NewCall(c) \/ Join(c) PROVE StopInv'
  BY <1>0, <1>1 DEF NewCall, Join
<1>2. ASSUME NEW c \in Callees, Dial(c) \/ Answered(c) \/ Index(c) \/ Established(c) PROVE StopInv'
  BY <1>0, <1>2 DEF Dial, Answered, Index, Established
<1>3. ASSUME NEW c \in Callees, DialFails(c) PROVE StopInv'
  BY <1>0, <1>3 DEF DialFails
<1>4. ASSUME NEW c \in Callees, CloseCall(c) PROVE StopInv'
  BY <1>0, <1>4 DEF CloseCall, TakeAndClose
<1>5. ASSUME NEW c \in Callees, CloseOutLeg(c) PROVE StopInv'
  BY <1>0, <1>5 DEF CloseOutLeg
<1>6. ASSUME NEW c \in Callees, UnregisterOut(c) PROVE StopInv'
  BY <1>0, <1>6 DEF UnregisterOut
<1>7. ASSUME NEW c \in Callees, OutBye(c) \/ OutAcceptBye(c) PROVE StopInv'
  BY <1>0, <1>7 DEF OutBye, OutAcceptBye
<1>8. ASSUME NEW c \in Callees, OutByeCloses(c) PROVE StopInv'
  <2>1. outFound[c] = c
    BY <1>8 DEF OutByeCloses, OwnCallee
  <2> QED BY <1>0, <1>8, <2>1 DEF OutByeCloses, TakeAndClose
<1>9. ASSUME NEW c \in Callees, StopNext(c) PROVE StopInv'
  BY <1>0, <1>9 DEF StopNext
<1>10. ASSUME NEW c \in Callees, StopCloses(c) PROVE StopInv'
  BY <1>0, <1>10 DEF StopCloses, TakeAndClose
<1>11. CASE SwapOut BY <1>0, <1>11 DEF SwapOut, Entries
<1>12. CASE StopReturns BY <1>0, <1>12 DEF StopReturns
<1> QED BY <1>1, <1>2, <1>3, <1>4, <1>5, <1>6, <1>7, <1>8, <1>9, <1>10, <1>11, <1>12
    DEF ClientStep

LEMMA StopInvariant == DispatchSpec => []StopInv
<1>1. DispatchInit => StopInv
  BY DEF DispatchInit, Init, StopInv, LockHasHolder, OutListed
<1>2. DInv /\ StopInv /\ [DispatchNext]_allVars => StopInv'
  <2> SUFFICES ASSUME DInv, StopInv, [DispatchNext]_allVars PROVE StopInv' OBVIOUS
  <2>1. CASE ClientStep /\ UNCHANGED <<vars, party>> BY <2>1, ClientStopInv
  <2>2. CASE ServerStep /\ UNCHANGED <<party, clientVars>>
    <3>1. UNCHANGED <<dial, shut, mu, outCalls, outStop, outStopCalls>>
      BY <2>2 DEF clientVars, dialVars, mapVars, outStopVars
    <3>2. stop' # "no" => outStop = "done"
      BY <2>2 DEF ServerStep, Next, Invite, Answer, BeginClose, CloseLeg, Unregister, Ack, Bye,
                  AcceptBye, ByeCancels, Swap, CloseCalls, stopVars, StopInv, OutListed
    <3> QED BY <3>1, <3>2 DEF StopInv, LockHasHolder, Connecting, OutListed
  <2>3. CASE UNCHANGED allVars
    BY <2>3 DEF allVars, vars, clientVars, dialVars, mapVars, outStopVars, StopInv,
                LockHasHolder, Connecting, OutListed
  <2> QED BY <2>1, <2>2, <2>3 DEF DispatchNext
<1> QED BY <1>1, <1>2, DispatchInvariant, PTL DEF DispatchSpec

\* No Close waits for a lock that nobody will give back.
THEOREM LockReturned == DispatchSpec => []LockHasHolder
<1>1. StopInv => LockHasHolder BY DEF StopInv
<1> QED BY <1>1, StopInvariant, PTL

\* Service.Stop leaves no outbound call open that was registered when Client.Stop listed them.
THEOREM OutboundStopped == DispatchSpec => []OutboundFirst
<1>1. StopInv => OutboundFirst BY DEF StopInv, OutListed, OutboundFirst
<1> QED BY <1>1, StopInvariant, PTL

\* And with the Client behind the same port the inbound calls keep what the Server promises.
THEOREM ServerPromises ==
    DispatchSpec => [](ServedIsRegistered /\ EntryIsLive /\ OwnRequests /\ StopReaches)
BY ServerIsKept, Registered, Live, Routed, StopReached, PTL
=============================================================================
