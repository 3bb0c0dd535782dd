--------------------------- MODULE LifecycleProofs ---------------------------
(***************************************************************************)
(* Theorems about Lifecycle for any number of calls: what SIGTERM promises  *)
(* to the calls that are up when it comes, and what the outbound ones are   *)
(* promised whatever the signal.                                            *)
(***************************************************************************)
EXTENDS Lifecycle, TLAPS

\* Until its map is replaced, a call that has come up is in it until it has ended.
InMaps ==
    \A c \in Calls :
       phase[c] \in {"up", "bye", "unregister"} =>
           \/ c \in registered
           \/ c \in Out /\ run \in {"closeClient", "stopServer", "exit", "exited"}
           \/ c \in In /\ run \in {"exit", "exited"}

\* Nothing happens before a signal, and only SIGINT kills.
SignalFirst ==
    /\ first = "none" => run = "serve" /\ stopPc = "idle" /\ ~shutdown /\ before = {}
    /\ killed => first = "int"
    /\ shutdown \/ stopPc # "idle" => first # "none"

\* A call that was registered is past its setup.
BeforeIsPast == \A c \in before : phase[c] \notin {"none", "setup"}

\* What ActiveCalls has counted so far, and what the end of the drain knows.
Drained ==
    /\ (run = "countIn" /\ counted = {}) => \A c \in before \cap Out : phase[c] = "ended"
    /\ (first = "term" /\ Stopping) => \A c \in before : phase[c] = "ended"

\* The outbound calls that Stop has not closed yet are the listed ones.
Closed ==
    /\ run = "closeClient" => \A c \in before \cap Out : phase[c] = "ended" \/ c \in toClose
    /\ run \in {"stopServer", "exit", "exited"} => \A c \in before \cap Out : phase[c] = "ended"

\* The calls Stop has listed are in no map any more.
Listed == \A c \in toClose : c \notin registered /\ phase[c] \notin {"none", "setup"}

IInv == TypeOK /\ InMaps /\ SignalFirst /\ BeforeIsPast /\ Drained /\ Closed /\ Listed

\* The invariant holds when the process starts.
LEMMA InitIInv == Init => IInv
BY DEF Init, IInv, TypeOK, InMaps, SignalFirst, BeforeIsPast, Drained, Closed, Listed, Stopping

\* A call goes on: what has ended stays ended.
LEMMA CallIInv ==
    ASSUME IInv, NEW c \in Calls,
           \/ Invite(c) \/ Create(c) \/ Register(c) \/ SetupFails(c)
           \/ Hangup(c) \/ SendBye(c) \/ Unregister(c)
    PROVE IInv'
<1> USE DEF IInv, Move, Alive, stopVars, runVars
<1> USE DEF Invite, Create, Register, SetupFails, Hangup, SendBye, Unregister
<1>1. UNCHANGED <<stopVars, runVars>> OBVIOUS
<1>2. TypeOK'
  <2>1. phase' \in [Calls -> {"none", "setup", "up", "bye", "unregister", "ended"}] BY DEF TypeOK
  <2>2. registered' \subseteq {d \in Calls : phase'[d] \in {"up", "bye", "unregister"}}
    BY DEF TypeOK
  <2> QED BY <1>1, <2>1, <2>2 DEF TypeOK
<1>3. InMaps' BY DEF InMaps, TypeOK
<1>4. \A d \in Calls : phase[d] = "ended" => phase'[d] = "ended" BY DEF TypeOK
<1>5. \A d \in Calls : phase[d] \notin {"none", "setup"} => phase'[d] \notin {"none", "setup"}
  BY DEF TypeOK
<1>6. before \subseteq Calls BY DEF TypeOK
<1>7. SignalFirst' BY <1>1 DEF SignalFirst
<1>8. BeforeIsPast' BY <1>1, <1>5, <1>6 DEF BeforeIsPast
<1>9. Drained' BY <1>1, <1>4, <1>6 DEF Drained, Stopping
<1>10. Closed' BY <1>1, <1>4, <1>6 DEF Closed
<1>11. Listed'
  <2>1. \A d \in Calls : d \in registered' => d \in registered \/ phase[d] = "setup" OBVIOUS
  <2>2. toClose' = toClose /\ toClose \subseteq Calls BY <1>1 DEF TypeOK, Calls
  <2> QED BY <1>5, <2>1, <2>2 DEF Listed
<1> QED BY <1>2, <1>3, <1>7, <1>8, <1>9, <1>10, <1>11

\* A signal finds the process serving.
LEMMA SignalIInv ==
    ASSUME IInv, NEW s \in {"term", "int"}, Signal(s) PROVE IInv'
<1> USE DEF IInv, Signal, runVars, callVars
<1>1. run = "serve" BY DEF SignalFirst
<1>2. TypeOK' BY DEF TypeOK
<1>3. InMaps' BY DEF InMaps
<1>4. SignalFirst' BY <1>1 DEF SignalFirst
<1>5. BeforeIsPast' BY DEF BeforeIsPast, TypeOK
<1>6. Drained' BY <1>1 DEF Drained, Stopping
<1>7. Closed' BY <1>1 DEF Closed
<1>8. Listed' BY DEF Listed
<1> QED BY <1>2, <1>3, <1>4, <1>5, <1>6, <1>7, <1>8

\* The steps of Service.Stop.
LEMMA StopIInv ==
    ASSUME IInv, ShutdownHealth \/ BreakShutdown \/ StoreKilled PROVE IInv'
<1> USE DEF IInv, ShutdownHealth, BreakShutdown, StoreKilled, runVars, callVars
<1>1. TypeOK' BY DEF TypeOK
<1>2. InMaps' BY DEF InMaps
<1>3. first # "none" /\ first' = first BY DEF SignalFirst
<1>4. killed' => first = "int"
  <2>1. CASE StoreKilled BY <2>1
  <2>2. CASE ShutdownHealth \/ BreakShutdown BY <2>2 DEF SignalFirst
  <2> QED BY <2>1, <2>2
<1>5. SignalFirst' BY <1>3, <1>4 DEF SignalFirst
<1>6. BeforeIsPast' BY DEF BeforeIsPast
<1>7. Drained' BY DEF Drained, Stopping
<1>8. Closed' BY DEF Closed
<1>9. Listed' BY DEF Listed
<1> QED BY <1>1, <1>2, <1>5, <1>6, <1>7, <1>8, <1>9

\* The drain ends when a count of both maps finds nothing of before.
LEMMA DrainIInv ==
    ASSUME IInv, StartDrain \/ CheckKilled \/ CountOut \/ CountIn \/ Tick PROVE IInv'
<1> USE DEF IInv, RunTo, stopVars, callVars
<1> USE DEF StartDrain, CheckKilled, CountOut, CountIn, Tick
<1>1. UNCHANGED <<stopVars, callVars>> /\ toClose' = toClose OBVIOUS
<1>2. run' \in {"drain", "stopClient", "countOut", "countIn", "wait"} OBVIOUS
<1>3. first # "none" BY DEF SignalFirst
<1>4. TypeOK' BY <1>1, <1>2 DEF TypeOK
<1>5. InMaps' BY <1>1, <1>2 DEF InMaps
<1>6. SignalFirst' BY <1>1, <1>3 DEF SignalFirst
<1>7. BeforeIsPast' BY DEF BeforeIsPast
<1>8. Closed' BY <1>2 DEF Closed
<1>9. Drained'
  <2>1. ASSUME NEW c \in before, c \notin registered,
               run \in {"serve", "drain", "countOut", "countIn", "wait"}
        PROVE phase[c] = "ended"
    BY <2>1 DEF InMaps, BeforeIsPast, TypeOK
  <2>2. CASE CountOut BY <2>1, <2>2 DEF Drained, Stopping
  <2>3. CASE CountIn
    <3>1. ASSUME run' = "stopClient", NEW c \in before PROVE phase[c] = "ended"
      <4>1. counted = {} /\ registered \cap In = {} /\ run = "countIn" BY <2>3, <3>1
      <4>2. c \in In \/ c \in Out BY DEF TypeOK, Calls
      <4> QED BY <4>1, <4>2, <2>1 DEF Drained
    <3> QED BY <2>3, <3>1 DEF Drained, Stopping
  <2>4. CASE StartDrain \/ CheckKilled \/ Tick
    <3>1. run' = "stopClient" => first = "int" BY <2>4 DEF SignalFirst
    <3> QED BY <2>4, <3>1 DEF Drained, Stopping
  <2> QED BY <2>2, <2>3, <2>4
<1>10. Listed' BY <1>1 DEF Listed
<1> QED BY <1>4, <1>5, <1>6, <1>7, <1>8, <1>9, <1>10

\* Client.Stop lists the outbound calls that have not ended, and closes them all.
LEMMA CloseIInv ==
    ASSUME IInv, StopClient \/ (\E c \in Out : CloseOutbound(c)) \/ ClientStopped PROVE IInv'
<1> USE DEF IInv, RunTo, stopVars, callVars, Calls
<1>1. UNCHANGED stopVars BY DEF StopClient, CloseOutbound, ClientStopped
<1>2. run \in {"stopClient", "closeClient"} /\ run' \in {"closeClient", "stopServer"}
  BY DEF StopClient, CloseOutbound, ClientStopped, TypeOK
<1>3. \A d \in Calls : phase[d] = "ended" => phase'[d] = "ended"
  BY DEF StopClient, CloseOutbound, ClientStopped, TypeOK
<1>4. SignalFirst' BY <1>1, <1>2 DEF SignalFirst
<1>5. Drained'
  <2>1. Stopping BY <1>2 DEF Stopping
  <2> QED BY <1>1, <1>2, <1>3, <2>1 DEF Drained, TypeOK
<1>6. CASE StopClient
  <2> USE <1>6 DEF StopClient
  <2>1. TypeOK' BY DEF TypeOK
  <2>2. InMaps' BY LifecycleAssumption DEF InMaps
  <2>3. BeforeIsPast' BY DEF BeforeIsPast
  <2>4. Closed' BY DEF Closed, InMaps, BeforeIsPast, TypeOK, LifecycleAssumption
  <2>5. Listed' BY DEF Listed, TypeOK, BeforeIsPast
  <2> QED BY <1>4, <1>5, <2>1, <2>2, <2>3, <2>4, <2>5
<1>7. CASE \E c \in Out : CloseOutbound(c)
  <2> PICK c \in Out : CloseOutbound(c) BY <1>7
  <2> USE DEF CloseOutbound
  <2>1. TypeOK' BY DEF TypeOK, Listed
  <2>2. InMaps' BY DEF InMaps, TypeOK
  <2>3. BeforeIsPast' BY DEF BeforeIsPast, TypeOK
  <2>4. Closed' BY DEF Closed, TypeOK
  <2>5. Listed' BY DEF Listed, TypeOK
  <2> QED BY <1>4, <1>5, <2>1, <2>2, <2>3, <2>4, <2>5
<1>8. CASE ClientStopped
  <2> USE <1>8 DEF ClientStopped
  <2>1. TypeOK' BY DEF TypeOK
  <2>2. InMaps' BY DEF InMaps
  <2>3. BeforeIsPast' BY DEF BeforeIsPast
  <2>4. Closed' BY DEF Closed
  <2>5. Listed' BY DEF Listed
  <2> QED BY <1>4, <1>5, <2>1, <2>2, <2>3, <2>4, <2>5
<1> QED BY <1>6, <1>7, <1>8

\* Server.Stop and the exit.
LEMMA ExitIInv == ASSUME IInv, StopServer \/ Exit PROVE IInv'
<1> USE DEF IInv, StopServer, Exit, RunTo, stopVars, callVars
<1>1. run \in {"stopServer", "exit"} /\ run' \in {"exit", "exited"} OBVIOUS
<1>2. TypeOK' BY DEF TypeOK
<1>3. InMaps' BY DEF InMaps, Calls
<1>4. SignalFirst' BY <1>1 DEF SignalFirst
<1>5. BeforeIsPast' BY DEF BeforeIsPast
<1>6. Drained' BY <1>1 DEF Drained, Stopping
<1>7. Closed' BY <1>1 DEF Closed
<1>8. Listed' BY DEF Listed
<1> QED BY <1>2, <1>3, <1>4, <1>5, <1>6, <1>7, <1>8

\* Every step preserves the invariant.
LEMMA NextIInv == IInv /\ [Next]_vars => IInv'
<1> SUFFICES ASSUME IInv, [Next]_vars PROVE IInv' OBVIOUS
<1>1. CASE UNCHANGED vars
  BY <1>1 DEF IInv, TypeOK, InMaps, SignalFirst, BeforeIsPast, Drained, Closed, Listed, Stopping,
              vars, stopVars, runVars, callVars
<1>2. CASE Next
  BY <1>2, CallIInv, SignalIInv, StopIInv, DrainIInv, CloseIInv, ExitIInv DEF Next, RunStep
<1> QED BY <1>1, <1>2

LEMMA Invariance == Spec => []IInv
BY InitIInv, NextIInv, PTL DEF Spec

\* The program counters, flags and maps keep their types; only calls that are up are in a map.
THEOREM TypeCorrect == Spec => []TypeOK
<1>1. IInv => TypeOK BY DEF IInv
<1> QED BY <1>1, Invariance, PTL

\* SIGTERM cuts no call that was registered when it came, however many there are and
\* whatever they do while the drain counts them.
THEOREM Drain == Spec => []DrainSparesCalls
<1>1. IInv => DrainSparesCalls BY DEF IInv, Drained, DrainSparesCalls, Over
<1> QED BY <1>1, Invariance, PTL

\* No exit before the outbound calls of the signal's time have ended with a BYE.
THEOREM Outbound == Spec => []OutboundEnds
<1>1. IInv => OutboundEnds BY DEF IInv, Closed, OutboundEnds, Over
<1> QED BY <1>1, Invariance, PTL
=============================================================================
