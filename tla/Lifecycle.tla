------------------------------ MODULE Lifecycle ------------------------------
(***************************************************************************)
(* The life of the process: the signals of cmd/livekit-sip/main.go, Stop    *)
(* and Run of pkg/service/service.go with the drain of active calls, and    *)
(* Service.Stop of pkg/sip/service.go, which stops the Client and then the  *)
(* Server.  A call is what the drain can see of it: in setup it is in no    *)
(* map, it is registered once it is up, and its close sends the BYE and     *)
(* then unregisters it.  InboundCall, OutboundCall and ServerRegistry have  *)
(* the rest.  The process is gone after "exited": nothing moves.            *)
(***************************************************************************)
EXTENDS FiniteSets

CONSTANTS In, Out   \* the inbound and the outbound calls

ASSUME LifecycleAssumption == In \cap Out = {}

Calls == In \cup Out

VARIABLES
    first,       \* the signal that main's goroutine took; it takes one
    stopPc,      \* Service.Stop(kill), in that goroutine
    down,        \* mon.shutdown
    shutdown,    \* s.shutdown
    killed,      \* s.killed
    run,         \* Run, and the Stop of the SIP service it ends with
    counted,     \* the outbound calls that ActiveCalls counted
    toClose,     \* the calls Client.Stop has still to close
    phase,       \* per call
    registered,  \* the calls in one of the maps activeCalls
    before       \* history: the calls that were registered when the signal came

stopVars == <<first, stopPc, down, shutdown, killed, before>>
runVars == <<run, counted, toClose>>
callVars == <<phase, registered>>
vars == <<stopVars, runVars, callVars>>

TypeOK ==
    /\ first \in {"none", "term", "int"} /\ stopPc \in {"idle", "health", "break", "kill"}
    /\ down \in BOOLEAN /\ shutdown \in BOOLEAN /\ killed \in BOOLEAN
    /\ run \in {"serve", "drain", "countOut", "countIn", "wait", "stopClient", "closeClient",
                "stopServer", "exit", "exited"}
    /\ counted \subseteq Out /\ toClose \subseteq Out
    /\ phase \in [Calls -> {"none", "setup", "up", "bye", "unregister", "ended"}]
    /\ registered \subseteq {c \in Calls : phase[c] \in {"up", "bye", "unregister"}}
    /\ before \subseteq Calls

Init ==
    /\ first = "none" /\ stopPc = "idle"
    /\ down = FALSE /\ shutdown = FALSE /\ killed = FALSE
    /\ run = "serve" /\ counted = {} /\ toClose = {}
    /\ phase = [c \in Calls |-> "none"] /\ registered = {} /\ before = {}

Alive == run # "exited"
Move(c, p, q) == Alive /\ phase[c] = p /\ phase' = [phase EXCEPT ![c] = q]

------------------------------------------------------------------------------
(* The calls.                                                               *)

\* An INVITE is processed as long as the server listens: processInvite does not ask for
\* the health of the node.
Invite(c) ==
    /\ c \in In /\ run # "exit"
    /\ Move(c, "none", "setup")
    /\ UNCHANGED <<registered, runVars, stopVars>>

\* createSIPParticipant refuses calls once the monitor is shut down.
Create(c) ==
    /\ c \in Out /\ ~down
    /\ Move(c, "none", "setup")
    /\ UNCHANGED <<registered, runVars, stopVars>>

\* An INVITE has passed authentication; an outbound call has joined its room.
Register(c) ==
    /\ Move(c, "setup", "up")
    /\ registered' = registered \cup {c}
    /\ UNCHANGED <<runVars, stopVars>>

SetupFails(c) == Move(c, "setup", "ended") /\ UNCHANGED <<registered, runVars, stopVars>>

\* The call ends, for whatever reason.
Hangup(c) == Move(c, "up", "bye") /\ UNCHANGED <<registered, runVars, stopVars>>

\* A bug: close takes the call out of the map and then sends the BYE.
SendByeLast(c) ==
    /\ Move(c, "bye", "unregister")
    /\ registered' = registered \ {c}
    /\ UNCHANGED <<runVars, stopVars>>

SendBye(c) == Move(c, "bye", "unregister") /\ UNCHANGED <<registered, runVars, stopVars>>

\* A bug: the entry stays.
UnregisterLeaks(c) ==
    Move(c, "unregister", "ended") /\ UNCHANGED <<registered, runVars, stopVars>>

Unregister(c) ==
    /\ Move(c, "unregister", "ended")
    /\ registered' = registered \ {c}
    /\ UNCHANGED <<runVars, stopVars>>

------------------------------------------------------------------------------
(* The signal, and Service.Stop.                                            *)

\* One select over both channels: a later signal is never read.
Signal(s) ==
    /\ Alive /\ first = "none"
    /\ first' = s /\ stopPc' = "health" /\ before' = registered
    /\ UNCHANGED <<down, shutdown, killed, runVars, callVars>>

ShutdownHealth ==
    /\ Alive /\ stopPc = "health" /\ stopPc' = "break" /\ down' = TRUE
    /\ UNCHANGED <<first, shutdown, killed, before, runVars, callVars>>

BreakShutdown ==
    /\ Alive /\ stopPc = "break" /\ stopPc' = "kill" /\ shutdown' = TRUE
    /\ UNCHANGED <<first, down, killed, before, runVars, callVars>>

\* killed is stored after Run was woken up.
StoreKilled ==
    /\ Alive /\ stopPc = "kill" /\ stopPc' = "idle" /\ killed' = (first = "int")
    /\ UNCHANGED <<first, down, shutdown, before, runVars, callVars>>

------------------------------------------------------------------------------
(* Run.                                                                     *)

RunTo(p, q) == run = p /\ run' = q /\ UNCHANGED <<stopVars, callVars>>

\* The topic of CreateSIPParticipant is deregistered.
StartDrain == shutdown /\ RunTo("serve", "drain") /\ UNCHANGED <<counted, toClose>>

\* The condition of the loop, and of the if around it.
CheckKilled ==
    /\ IF killed THEN RunTo("drain", "stopClient") ELSE RunTo("drain", "countOut")
    /\ UNCHANGED <<counted, toClose>>

\* ActiveCalls counts the outbound calls and then, under the other lock, the inbound ones.
CountOut ==
    /\ RunTo("countOut", "countIn") /\ counted' = registered \cap Out
    /\ UNCHANGED toClose

CountIn ==
    /\ IF counted = {} /\ registered \cap In = {}
         THEN RunTo("countIn", "stopClient") ELSE RunTo("countIn", "wait")
    /\ UNCHANGED <<counted, toClose>>

\* The ticker, every five seconds.
Tick == RunTo("wait", "drain") /\ UNCHANGED <<counted, toClose>>

\* Client.Stop lists the calls and replaces the map ...
StopClient ==
    /\ run = "stopClient" /\ run' = "closeClient"
    /\ toClose' = registered \cap Out /\ registered' = registered \ Out
    /\ UNCHANGED <<counted, phase, stopVars>>

\* A bug: the calls are closed in goroutines of their own.
CloseOutboundAsync(c) ==
    /\ run = "closeClient" /\ c \in toClose
    /\ toClose' = toClose \ {c}
    /\ phase' = [phase EXCEPT ![c] = IF @ = "up" THEN "bye" ELSE @]
    /\ UNCHANGED <<run, counted, registered, stopVars>>

\* ... and closes them one by one, BYE included, waiting for the lock of a call that is
\* closing already.
CloseOutbound(c) ==
    /\ run = "closeClient" /\ c \in toClose
    /\ phase[c] \in {"up", "ended"}
    /\ toClose' = toClose \ {c} /\ phase' = [phase EXCEPT ![c] = "ended"]
    /\ UNCHANGED <<run, counted, registered, stopVars>>

ClientStopped ==
    /\ toClose = {} /\ RunTo("closeClient", "stopServer") /\ UNCHANGED <<counted, toClose>>

\* Server.Stop replaces its map, cancels the contexts of the calls and closes the listeners:
\* it waits for none of the calls.
StopServer ==
    /\ run = "stopServer" /\ run' = "exit"
    /\ registered' = registered \ In
    /\ UNCHANGED <<counted, toClose, phase, stopVars>>

\* Run returns, and main with it.
Exit == RunTo("exit", "exited") /\ UNCHANGED <<counted, toClose>>

RunStep ==
    \/ StartDrain \/ CheckKilled \/ CountOut \/ CountIn \/ Tick
    \/ StopClient \/ (\E c \in Out : CloseOutbound(c)) \/ ClientStopped \/ StopServer \/ Exit

Next ==
    \/ \E c \in Calls : \/ Invite(c) \/ Create(c) \/ Register(c) \/ SetupFails(c)
                        \/ Hangup(c) \/ SendBye(c) \/ Unregister(c)
    \/ \E s \in {"term", "int"} : Signal(s)
    \/ ShutdownHealth \/ BreakShutdown \/ StoreKilled \/ RunStep

Spec == Init /\ [][Next]_vars

\* Goroutines run, tickers fire and a close comes to its end.  That calls end is not assumed.
FairSpec ==
    /\ Spec
    /\ WF_vars(ShutdownHealth) /\ WF_vars(BreakShutdown) /\ WF_vars(StoreKilled)
    /\ WF_vars(RunStep)
    /\ \A c \in Calls : WF_vars(SendBye(c)) /\ WF_vars(Unregister(c))

------------------------------------------------------------------------------
(* Properties.                                                              *)

Stopping == run \in {"stopClient", "closeClient", "stopServer", "exit", "exited"}
Over(c) == phase[c] \in {"none", "ended"}

\* SIGTERM cuts no call that was registered when it came: the SIP service is stopped after
\* the last of them has ended, its BYE included, although calls keep coming and going
\* while ActiveCalls looks at one map after the other.
DrainSparesCalls == (first = "term" /\ Stopping) => \A c \in before : Over(c)

\* Killed or drained, the process does not exit before the outbound calls of that time have
\* ended with a BYE.
OutboundEnds == (run = "exited") => \A c \in before \cap Out : Over(c)

\* SIGINT ends the process whatever the calls do, also when Run looked at killed before it
\* was stored.  SIGTERM does if calls end.
CallsEnd == \A c \in Calls : (phase[c] = "up") ~> (phase[c] # "up")
ProcessExits ==
    /\ (first = "int") ~> (run = "exited")
    /\ CallsEnd => ((first = "term") ~> (run = "exited"))

\* "exit requested, finishing all SIP then shutting down": no call is left at the exit.
AllFinished == (first = "term" /\ run = "exited") => \A c \in Calls : Over(c)

\* "exit requested, stopping all SIP and shutting down": the calls of that time have ended.
AllStopped == (first = "int" /\ run = "exited") => \A c \in before : Over(c)
=============================================================================
