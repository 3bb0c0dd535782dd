---------------------------- MODULE MediaTimeout ----------------------------
(***************************************************************************)
(* The media timeout of pkg/sip/media_port.go: timeoutLoop, the goroutine  *)
(* that watches the packet counter, and enableTimeout, which the call's    *)
(* goroutine runs beside it in three separate stores.                      *)
(*                                                                         *)
(* Time is counted in units; the loop, the caller and the clock interleave *)
(* freely, and prompt records whether the clock has waited for the loop    *)
(* and the caller so far, as it does when the machine is not overloaded.   *)
(* Which of two ready channels the loop takes stays open, as in Go's       *)
(* select.                                                                 *)
(***************************************************************************)
EXTENDS Naturals

CONSTANTS
    ConfInitial, ConfGeneral,        \* conf.MediaTimeoutInitial, conf.MediaTimeout; 0: unset
    DefaultInitial, DefaultGeneral,  \* defaultMediaTimeoutInitial, defaultMediaTimeout
    LateACK,                         \* inviteOkAckLateTimeout
    MaxTime, MaxPackets              \* bounds of the model

ASSUME TimeoutAssumption ==
    /\ ConfInitial \in Nat /\ ConfGeneral \in Nat
    /\ DefaultInitial \in Nat \ {0} /\ DefaultGeneral \in Nat \ {0}
    /\ LateACK \in Nat \ {0}
    /\ MaxTime \in Nat /\ MaxPackets \in Nat

\* opts.MediaTimeoutInitial and opts.MediaTimeout, as NewMediaPortWith completes them
Initial == IF ConfInitial = 0 THEN DefaultInitial ELSE ConfInitial
General == IF ConfGeneral = 0 THEN DefaultGeneral ELSE ConfGeneral

VARIABLES
    now,                       \* time, from 1; 0 stands for nil or never
    prompt,                    \* history: the clock never ran ahead of the goroutines
    packets, lastPacketAt,     \* packetCount, and when it last grew
    \* shared between the loop and the caller
    start,                     \* timeoutStart
    initial, general,          \* timeoutInitial, timeoutGeneral
    reset,                     \* timeoutResetTick holds a value, general's at the time
    resetValue,
    \* the loop
    loop,                      \* "run", "fired" (the callback ran), "done" or "panic"
    next, period, tick,        \* the ticker: next tick, period, a tick is due
    lastPackets, startPackets, lastTime,
    firedAt,
    \* the call's goroutine
    caller,                    \* where it stands in enableTimeout
    enabledAt, lateAt          \* when EnableTimeout and SetTimeout were called

packetVars == <<packets, lastPacketAt>>
timeoutVars == <<initial, general>>
resetVars  == <<reset, resetValue>>
tickerVars == <<next, period, tick>>
countVars  == <<lastPackets, startPackets, lastTime>>
loopVars   == <<loop, firedAt>>
callVars   == <<caller, enabledAt, lateAt>>
vars == <<now, prompt, packetVars, start, timeoutVars, resetVars, loopVars, tickerVars, countVars,
          callVars>>

\* Types, and the bounds that a late loop could break: nothing is ahead of the clock or of
\* the packet counter.
NumbersOK ==
    /\ now \in Nat /\ packets \in Nat
    /\ lastPacketAt \in Nat /\ lastPacketAt <= now
    /\ start \in Nat /\ start <= now
    /\ lastTime \in Nat /\ lastTime <= now
    /\ lastPackets \in Nat /\ lastPackets <= packets
    /\ startPackets \in Nat /\ startPackets <= packets
    /\ initial \in Nat /\ general \in Nat /\ resetValue \in Nat
    /\ next \in Nat /\ period \in Nat /\ firedAt \in Nat
    /\ enabledAt \in Nat /\ lateAt \in Nat

FlagsOK ==
    /\ reset \in BOOLEAN /\ tick \in BOOLEAN /\ prompt \in BOOLEAN
    /\ loop \in {"run", "fired", "done", "panic"}
    /\ caller \in {"idle", "stored", "sent"}

TypeOK == NumbersOK /\ FlagsOK

\* NewMediaPortWith starts the loop; the call disables the timeout until it is answered.
Init ==
    /\ now = 1 /\ prompt = TRUE
    /\ packets = 0 /\ lastPacketAt = 0
    /\ start = 0 /\ initial = Initial /\ general = General
    /\ reset = FALSE /\ resetValue = 0
    /\ loop = "run" /\ firedAt = 0
    /\ next = 1 + General /\ period = General /\ tick = FALSE
    /\ lastPackets = 0 /\ startPackets = 0 /\ lastTime = 0
    /\ caller = "idle" /\ enabledAt = 0 /\ lateAt = 0

------------------------------------------------------------------------------
(* The environment.                                                         *)

Packet ==
    /\ packets < MaxPackets
    /\ packets' = packets + 1
    /\ lastPacketAt' = now
    /\ UNCHANGED <<now, prompt, start, timeoutVars, resetVars, loopVars, tickerVars,
                   countVars, callVars>>

\* Nothing is left to do for the loop and the caller.
Settled == caller = "idle" /\ (loop = "run" => ~tick /\ ~reset)

Advance ==
    /\ now < MaxTime
    /\ now' = now + 1
    /\ prompt' = (prompt /\ Settled)
    /\ IF now + 1 >= next THEN tick' = TRUE /\ next' = next + period
                          ELSE UNCHANGED <<tick, next>>
    /\ UNCHANGED <<packetVars, start, timeoutVars, resetVars, loopVars, period, countVars,
                   callVars>>

------------------------------------------------------------------------------
(* The call's goroutine: enableTimeout in its three stores.                 *)

\* SetTimeout with an initial timeout of 0 disables the timeout.
StoreTimeouts(i, g) ==
    IF i = 0
    THEN start' = 0 /\ UNCHANGED <<timeoutVars, caller>>
    ELSE initial' = i /\ general' = g /\ caller' = "stored" /\ UNCHANGED start

\* acceptCall and sipSignal: EnableTimeout(true).
Enable ==
    /\ caller = "idle" /\ enabledAt = 0
    /\ StoreTimeouts(Initial, General)
    /\ enabledAt' = now
    /\ UNCHANGED <<now, prompt, packetVars, resetVars, loopVars, tickerVars, countVars,
                   lateAt>>

\* The ACK has not come within inviteOkAckLateTimeout: SetTimeout with the values of the
\* configuration, which may be unset.
MissingAck ==
    /\ caller = "idle" /\ enabledAt > 0 /\ lateAt = 0
    /\ now >= enabledAt + LateACK
    /\ StoreTimeouts(IF ConfInitial < LateACK THEN ConfInitial ELSE LateACK, ConfGeneral)
    /\ lateAt' = now
    /\ UNCHANGED <<now, prompt, packetVars, resetVars, loopVars, tickerVars, countVars,
                   enabledAt>>

\* The send does not wait: a reset that is still in the channel is kept.
SendReset ==
    /\ caller = "stored"
    /\ caller' = "sent"
    /\ reset' = TRUE
    /\ resetValue' = IF reset THEN resetValue ELSE general
    /\ UNCHANGED <<now, prompt, packetVars, start, timeoutVars, loopVars, tickerVars,
                   countVars, enabledAt, lateAt>>

StoreStart ==
    /\ caller = "sent"
    /\ caller' = "idle"
    /\ start' = now
    /\ UNCHANGED <<now, prompt, packetVars, timeoutVars, resetVars, loopVars, tickerVars,
                   countVars, enabledAt, lateAt>>

------------------------------------------------------------------------------
(* timeoutLoop.                                                             *)

\* ticker.Reset panics on an interval of 0, and discards a tick that is due.
LoopReset ==
    /\ loop = "run"
    /\ reset
    /\ reset' = FALSE
    /\ IF resetValue = 0
       THEN loop' = "panic" /\ UNCHANGED <<tickerVars, countVars>>
       ELSE /\ period' = resetValue /\ next' = now + resetValue /\ tick' = FALSE
            /\ startPackets' = packets
            /\ lastTime' = now
            /\ UNCHANGED <<loop, lastPackets>>
    /\ UNCHANGED <<now, prompt, packetVars, start, timeoutVars, resetValue, firedAt,
                   callVars>>

\* Mutant of TickNotices: only the counter is kept.
NoticesLate ==
    /\ loop = "run" /\ tick
    /\ packets # lastPackets
    /\ tick' = FALSE
    /\ lastPackets' = packets
    /\ UNCHANGED <<lastTime, now, prompt, packetVars, start, timeoutVars, resetVars,
                   loopVars, next, period, startPackets, callVars>>

\* Packets came since the last tick.
TickNotices ==
    /\ loop = "run" /\ tick
    /\ packets # lastPackets
    /\ tick' = FALSE
    /\ lastPackets' = packets
    /\ lastTime' = now
    /\ UNCHANGED <<now, prompt, packetVars, start, timeoutVars, resetVars, loopVars, next,
                   period, startPackets, callVars>>

\* Mutant of Elapsed: a timeout that has just passed does not count.
ElapsedStrictly ==
    IF lastPackets = startPackets THEN now - start > initial ELSE now - lastTime > general

\* A full timeout has passed: since the start as long as no packet came, since the tick
\* that noticed the last packets afterwards.
Elapsed ==
    IF lastPackets = startPackets THEN now - start >= initial ELSE now - lastTime >= general

\* Disabled, or not a full timeout yet.
TickSkips ==
    /\ loop = "run" /\ tick
    /\ packets = lastPackets
    /\ start = 0 \/ ~Elapsed
    /\ tick' = FALSE
    /\ UNCHANGED <<now, prompt, packetVars, start, timeoutVars, resetVars, loopVars, next,
                   period, countVars, callVars>>

\* The callback closes the timeout channel and the loop returns.
TickFires ==
    /\ loop = "run" /\ tick
    /\ packets = lastPackets
    /\ start > 0 /\ Elapsed
    /\ tick' = FALSE
    /\ loop' = "fired" /\ firedAt' = now
    /\ UNCHANGED <<now, prompt, packetVars, start, timeoutVars, resetVars, next, period,
                   countVars, callVars>>

\* MediaPort.Close: the loop sees the fuse.
Close ==
    /\ loop = "run"
    /\ loop' = "done"
    /\ UNCHANGED <<now, prompt, packetVars, start, timeoutVars, resetVars, firedAt,
                   tickerVars, countVars, callVars>>

Next ==
    \/ Packet \/ Advance
    \/ Enable \/ MissingAck \/ SendReset \/ StoreStart
    \/ LoopReset \/ TickNotices \/ TickSkips \/ TickFires \/ Close

Spec == Init /\ [][Next]_vars

------------------------------------------------------------------------------
(* Properties.                                                              *)

Fires == loop = "run" /\ loop' = "fired"

\* A media timeout means silence, however the loop, the caller and the packets interleave:
\* when the callback runs, the call was accepted and no packet came for a full general
\* timeout; if none ever came, a full initial timeout has passed since the start in force.
TimeoutMeansSilence ==
    [][Fires => /\ enabledAt > 0
                /\ IF packets = 0 THEN now - start >= initial
                                  ELSE now - lastPacketAt >= general]_vars

\* The longest silence of an accepted call, on a machine that is not overloaded: two ticks
\* after the last packet, or the initial timeout rounded up to a tick.
Larger(m, n) == IF m > n THEN m ELSE n
Rounded == ((Initial + General - 1) \div General) * General
LongestSilence == Larger(2 * General, Rounded)
Since == Larger(lastPacketAt, Larger(enabledAt, lateAt))

\* With no initial timeout in the configuration a missing ACK turns the timeout off.
TurnedOff == lateAt > 0 /\ ConfInitial = 0

\* Silence is noticed in time unless the machine is overloaded or a missing ACK has turned the
\* timeout off: while the loop runs, the last packet, or the last of EnableTimeout and
\* SetTimeout if that is later, is not longer ago, whatever the configuration sets or leaves
\* unset.
SilenceIsNoticed ==
    prompt /\ loop = "run" /\ enabledAt > 0 /\ caller = "idle" /\ ~TurnedOff =>
        now - Since <= LongestSilence

\* "First timeout could be different.  Usually it's longer to allow for a call setup": an
\* acknowledged call without a packet since it was accepted is not closed within a shorter
\* time.
SetupIsAllowedFor ==
    [][Fires /\ prompt /\ lateAt = 0 /\ lastPacketAt <= enabledAt
          => now - enabledAt >= Initial]_vars

\* "We don't need to wait for a full media timeout initially, we already know something is
\* not quite right": after a missing ACK the timeout is still on.
MissingAckKeepsTimeout == lateAt > 0 /\ caller = "idle" => start > 0

\* "Only warn, the other side still thinks the call is active, media may be flowing": a
\* missing ACK by itself ends nothing.
MissingAckOnlyWarns == loop # "panic"
=============================================================================
