---------------------------- MODULE MediaProofs ----------------------------
(***************************************************************************)
(* Theorems about the media of a call.  The timeout: it means silence, for *)
(* every configuration and every schedule of the loop, the caller, the     *)
(* packets and the clock, and silence is noticed.  The room: nobody is     *)
(* subscribed to too early and nobody is lost, for any number of calls and *)
(* participants and any order of the callbacks.                            *)
(***************************************************************************)
EXTENDS MediaTimeout, Room, Integers, TLAPS

\* The general timeout that the caller hands over is the port's own, or 0, with which the
\* loop panics: a loop that runs has General for its period.
ValuesOK ==
    /\ general = General \/ general = 0
    /\ reset => resetValue = General \/ resetValue = 0
    /\ period = General

\* A count that the last tick has seen is not younger than lastTime.
SeenOK == (packets = lastPackets /\ packets > 0) => lastPacketAt <= lastTime

\* A count that the last reset has seen is a full period older than the next tick.
ResetOK ==
    (packets = startPackets /\ packets > 0) =>
        /\ lastPacketAt + General <= next
        /\ tick => lastPacketAt + General <= now

\* The timeout is only enabled for an accepted call.
EnabledOK == (start > 0 \/ caller # "idle") => enabledAt > 0

IInv == TypeOK /\ now > 0 /\ ValuesOK /\ SeenOK /\ ResetOK /\ EnabledOK

LEMMA ConstantTypes ==
    /\ Initial \in Nat /\ Initial > 0 /\ General \in Nat /\ General > 0
    /\ ConfInitial \in Nat /\ ConfGeneral \in Nat /\ LateACK \in Nat /\ LateACK > 0
    /\ ConfGeneral = General \/ ConfGeneral = 0
BY TimeoutAssumption DEF Initial, General

LEMMA InitIInv == Init => IInv
<1> SUFFICES ASSUME Init PROVE IInv
  OBVIOUS
<1>1. NumbersOK /\ now > 0
  BY ConstantTypes DEF Init, NumbersOK
<1>4. FlagsOK
  BY DEF Init, FlagsOK
<1>2. ValuesOK
  BY DEF Init, ValuesOK
<1>3. SeenOK /\ ResetOK /\ EnabledOK
  BY DEF Init, SeenOK, ResetOK, EnabledOK
<1> QED BY <1>1, <1>2, <1>3, <1>4 DEF IInv, TypeOK

\* Every action keeps the strengthened invariant.
LEMMA NextIInv == IInv /\ [Next]_vars => IInv'
<1> SUFFICES ASSUME IInv, [Next]_vars PROVE IInv'
  OBVIOUS
<1> USE ConstantTypes DEF IInv, TypeOK, NumbersOK, FlagsOK, ValuesOK, SeenOK, ResetOK, EnabledOK
<1>1. CASE Packet
  BY <1>1 DEF Packet, timeoutVars, resetVars, loopVars, tickerVars, countVars, callVars
<1>2. CASE Advance
  <2> USE <1>2 DEF Advance, packetVars, timeoutVars, resetVars, loopVars, countVars, callVars
  <2>1. CASE now + 1 >= next
    BY <2>1
  <2>2. CASE ~(now + 1 >= next)
    BY <2>2
  <2> QED BY <2>1, <2>2
<1>3. CASE Enable
  BY <1>3 DEF Enable, StoreTimeouts, packetVars, timeoutVars, resetVars, loopVars, tickerVars,
              countVars
<1>4. CASE MissingAck
  BY <1>4 DEF MissingAck, StoreTimeouts, packetVars, timeoutVars, resetVars, loopVars,
              tickerVars, countVars
<1>5. CASE SendReset
  BY <1>5 DEF SendReset, packetVars, timeoutVars, loopVars, tickerVars, countVars
<1>6. CASE StoreStart
  BY <1>6 DEF StoreStart, packetVars, timeoutVars, resetVars, loopVars, tickerVars, countVars
<1>7. CASE LoopReset
  <2>1. CASE resetValue = 0
    BY <1>7, <2>1 DEF LoopReset, packetVars, timeoutVars, tickerVars, countVars, callVars
  <2>2. CASE resetValue # 0
    <3> USE <1>7, <2>2 DEF LoopReset, packetVars, timeoutVars, callVars
    <3>1. NumbersOK' /\ now' > 0
      OBVIOUS
    <3>4. FlagsOK'
      OBVIOUS
    <3>2. ValuesOK'
      OBVIOUS
    <3>3. SeenOK' /\ ResetOK' /\ EnabledOK'
      OBVIOUS
    <3> QED BY <3>1, <3>2, <3>3, <3>4
  <2> QED BY <2>1, <2>2
<1>8. CASE TickNotices
  <2> USE <1>8 DEF TickNotices, packetVars, timeoutVars, resetVars, loopVars, callVars
  <2>1. NumbersOK' /\ now' > 0
    OBVIOUS
  <2>4. FlagsOK'
    OBVIOUS
  <2>2. ValuesOK' /\ EnabledOK'
    OBVIOUS
  <2>3. SeenOK' /\ ResetOK'
    OBVIOUS
  <2> QED BY <2>1, <2>2, <2>3, <2>4
<1>9. CASE TickSkips
  BY <1>9 DEF TickSkips, packetVars, timeoutVars, resetVars, loopVars, countVars, callVars
<1>10. CASE TickFires
  BY <1>10 DEF TickFires, packetVars, timeoutVars, resetVars, countVars, callVars
<1>11. CASE Close
  BY <1>11 DEF Close, packetVars, timeoutVars, resetVars, tickerVars, countVars, callVars
<1>12. CASE UNCHANGED vars
  BY <1>12 DEF vars, packetVars, timeoutVars, resetVars, loopVars, tickerVars, countVars,
               callVars
<1> QED
  BY <1>1, <1>2, <1>3, <1>4, <1>5, <1>6, <1>7, <1>8, <1>9, <1>10, <1>11, <1>12 DEF Next

LEMMA Invariance == Spec => []IInv
BY InitIInv, NextIInv, PTL DEF Spec

\* Nothing gets ahead of the clock or of the packet counter, and the types hold.
THEOREM TypeCorrect == Spec => []TypeOK
<1>1. IInv => TypeOK
  BY DEF IInv
<1> QED BY <1>1, Invariance, PTL

\* Only TickFires ends a running loop with the callback, and it does so in silence.
LEMMA FiresInSilence ==
    ASSUME IInv, [Next]_vars, Fires
    PROVE  /\ enabledAt > 0
           /\ IF packets = 0 THEN now - start >= initial ELSE now - lastPacketAt >= general
<1>1. TickFires
  BY DEF Fires, Next, vars, Packet, Advance, Enable, MissingAck, SendReset, StoreStart,
         LoopReset, TickNotices, TickSkips, Close, loopVars
<1> USE ConstantTypes DEF IInv, TypeOK, NumbersOK, ValuesOK
<1>2. enabledAt > 0
  BY <1>1 DEF TickFires, EnabledOK
<1>3. CASE packets = 0
  BY <1>1, <1>2, <1>3 DEF TickFires, Elapsed
<1>4. CASE packets > 0 /\ lastPackets = startPackets
  <2>1. lastPacketAt + General <= now
    BY <1>1, <1>4 DEF TickFires, ResetOK
  <2> QED BY <1>2, <1>4, <2>1
<1>5. CASE packets > 0 /\ lastPackets # startPackets
  <2>1. now - lastTime >= general /\ lastPacketAt <= lastTime
    BY <1>1, <1>5 DEF TickFires, Elapsed, SeenOK
  <2> QED BY <1>2, <1>5, <2>1
<1> QED BY <1>3, <1>4, <1>5

\* The callback of timeoutLoop runs only after a full timeout without a packet.
THEOREM SilenceOnly == Spec => TimeoutMeansSilence
<1>1. IInv /\ [Next]_vars =>
        [Fires => /\ enabledAt > 0
                  /\ IF packets = 0 THEN now - start >= initial
                                    ELSE now - lastPacketAt >= general]_vars
  BY FiresInSilence
<1> QED BY <1>1, Invariance, PTL DEF Spec, TimeoutMeansSilence

------------------------------------------------------------------------------
(* Silence is noticed in time, until a missing ACK turns off a timeout that *)
(* is unset.                                                                *)

\* The start in force, once the caller has stored it.
SetUpAt == Larger(enabledAt, lateAt)

\* The loop has taken the reset of the last EnableTimeout or SetTimeout.
Taken == enabledAt > 0 /\ ~reset /\ caller # "stored"

\* The ticker keeps up with the clock.
TickerOK ==
    /\ 0 < now /\ now < next /\ next <= now + General
    /\ tick => next = now + General

\* enableTimeout and the reset it sends take no time.
CallerOK ==
    /\ caller # "idle" \/ reset => SetUpAt = now /\ enabledAt > 0
    /\ caller = "idle" /\ enabledAt > 0 => start = SetUpAt
    /\ enabledAt = 0 => start = 0 /\ lateAt = 0
    /\ lateAt > 0 => enabledAt < lateAt
    /\ SetUpAt <= now
    /\ initial <= Initial /\ general = General

\* The ticks after a reset are whole periods from it.
TicksOK ==
    /\ \E k \in Nat : next = SetUpAt + k * General
    /\ next >= SetUpAt + General
    /\ caller = "sent" => ~tick /\ next = now + General

\* The last tick that the loop has taken.
LastTick == IF tick THEN next - 2 * General ELSE next - General

\* No packet since the reset: the first tick may have to notice earlier ones, and from then on
\* a tick a full initial timeout after the start fires.
NothingCame ==
    packets = startPackets =>
        /\ lastPacketAt <= SetUpAt
        /\ lastPackets # packets => LastTick = SetUpAt
        /\ lastPackets = packets =>
              LastTick < SetUpAt + initial \/ LastTick <= SetUpAt + General

\* Packets since the reset: the next tick notices the last of them, and the tick after it fires.
PacketsCame ==
    packets # startPackets =>
        /\ lastPackets # packets => LastTick <= lastPacketAt
        /\ lastPackets = packets => LastTick = lastTime /\ lastTime <= lastPacketAt + General

\* With no general timeout in the configuration, a missing ACK sends the loop a reset to 0,
\* with which it panics before time goes on.
Doomed == lateAt > 0 /\ ConfGeneral = 0

DoomedOK ==
    /\ general = 0 /\ enabledAt > 0
    /\ Since = now
    /\ IF reset THEN resetValue = 0 ELSE caller = "stored"

OnTime ==
    /\ TickerOK /\ CallerOK
    /\ Taken => TicksOK /\ NothingCame /\ PacketsCame

PromptInv ==
    prompt /\ loop = "run" /\ ~TurnedOff => IF Doomed THEN DoomedOK ELSE OnTime

LEMMA InitPromptInv == Init => PromptInv
  BY ConstantTypes DEF Init, PromptInv, Doomed, OnTime, TickerOK, CallerOK, Taken, SetUpAt,
                       Larger

\* A whole number of periods that begins before the initial timeout has passed ends before
\* that timeout rounded up.
LEMMA RoundedBound ==
    ASSUME NEW k \in Nat, k * General < Initial
    PROVE  (k + 1) * General <= Rounded
<1> DEFINE q == (Initial + General - 1) \div General
<1>1. q \in Nat
  BY ConstantTypes
<1>2. Initial + General - 1 < (q + 1) * General
  BY ConstantTypes
<1>3. (k + 1) * General = k * General + General
  BY ConstantTypes
<1>4. (k + 1) * General < (q + 1) * General
  BY <1>1, <1>2, <1>3, ConstantTypes
<1>5. k + 1 <= q
  <2>1. SUFFICES ASSUME k + 1 >= q + 1 PROVE FALSE
    BY <1>1
  <2>2. (k + 1) * General >= (q + 1) * General
    BY <2>1, <1>1, ConstantTypes
  <2> HIDE DEF q
  <2> QED BY <2>2, <1>1, <1>4, ConstantTypes
<1> HIDE DEF q
<1>6. (k + 1) * General <= q * General
  BY <1>1, <1>5, ConstantTypes
<1> QED BY <1>6 DEF Rounded, q

\* A loop that is on time was so before the step.
LEMMA Before ==
    ASSUME [Next]_vars, IInv, prompt', loop' = "run"
    PROVE  /\ prompt /\ loop = "run"
           /\ TurnedOff => TurnedOff'
           /\ Doomed => Doomed'
<1> USE TimeoutAssumption
    DEF IInv, TypeOK, NumbersOK, FlagsOK, vars, loopVars, callVars, TurnedOff, Doomed
<1>1. prompt /\ loop = "run"
  BY DEF Next, Packet, Advance, Enable, MissingAck, SendReset, StoreStart,
         LoopReset, TickNotices, TickSkips, TickFires, Close
<1>2. lateAt > 0 => lateAt' > 0
  BY DEF Next, Packet, Advance, Enable, MissingAck, SendReset, StoreStart,
         LoopReset, TickNotices, TickSkips, TickFires, Close
<1> QED BY <1>1, <1>2

\* A reset to 0 is taken before time goes on.
LEMMA DoomedStep ==
    ASSUME IInv, PromptInv, [Next]_vars, prompt', loop' = "run", ~TurnedOff', Doomed'
    PROVE  DoomedOK'
<1>r. prompt /\ loop = "run" /\ ~TurnedOff
  BY Before
<1>c. /\ General \in Nat \ {0} /\ LateACK \in Nat \ {0}
      /\ ConfInitial \in Nat /\ ConfGeneral \in Nat
  BY ConstantTypes, TimeoutAssumption
<1> HIDE DEF Initial, General
<1> USE <1>r, <1>c DEF IInv, TypeOK, NumbersOK, FlagsOK
<1>1. CASE Doomed
  <2> USE <1>1 DEF PromptInv, DoomedOK, Since, Larger
  <2>1. ~Advance /\ ~LoopReset /\ ~MissingAck /\ ~Enable
    <3>1. ~Advance
      BY DEF Advance, Settled
    <3>2. ~LoopReset
      BY DEF LoopReset
    <3>3. ~MissingAck /\ ~Enable
      BY DEF MissingAck, Enable, Doomed
    <3> QED BY <3>1, <3>2, <3>3
  <2>2. CASE Packet
    BY <2>2 DEF Packet, timeoutVars, resetVars, callVars
  <2>3. CASE SendReset
    BY <2>3 DEF SendReset, packetVars, timeoutVars
  <2>4. CASE StoreStart
    BY <2>4 DEF StoreStart, packetVars, timeoutVars, resetVars
  <2>5. CASE TickNotices \/ TickSkips
    BY <2>5 DEF TickNotices, TickSkips, packetVars, timeoutVars, resetVars, callVars
  <2>6. CASE TickFires \/ Close
    BY <2>6 DEF TickFires, Close
  <2>7. CASE UNCHANGED vars
    BY <2>7 DEF vars, packetVars, timeoutVars, resetVars, callVars
  <2> QED BY <2>1, <2>2, <2>3, <2>4, <2>5, <2>6, <2>7 DEF Next
<1>2. CASE ~Doomed
  <2>1. MissingAck
    BY <1>2 DEF Doomed, Next, Packet, Advance, Enable, SendReset, StoreStart, LoopReset,
                TickNotices, TickSkips, TickFires, Close, vars, callVars
  <2>2. ~reset /\ enabledAt > 0 /\ lateAt' = now
    BY <1>2, <2>1 DEF MissingAck, PromptInv, OnTime, CallerOK, SetUpAt, Larger
  <2>3. ConfInitial > 0 /\ ConfGeneral = 0
    BY <2>2 DEF TurnedOff, Doomed
  <2>4. general' = 0 /\ caller' = "stored"
    BY <2>1, <2>3 DEF MissingAck, StoreTimeouts
  <2> QED BY <2>1, <2>2, <2>4 DEF MissingAck, DoomedOK, Since, Larger, packetVars, resetVars
<1> QED BY <1>1, <1>2

\* One case per action that can disturb it; the others stop the loop.
LEMMA OnTimeStep ==
    ASSUME IInv, PromptInv, [Next]_vars, prompt', loop' = "run", ~TurnedOff', ~Doomed'
    PROVE  OnTime'
<1>c. /\ ConfInitial > 0 => Initial = ConfInitial
      /\ ConfGeneral > 0 => General = ConfGeneral
      /\ Initial \in Nat \ {0} /\ General \in Nat \ {0} /\ LateACK \in Nat \ {0}
      /\ ConfInitial \in Nat /\ ConfGeneral \in Nat
  BY ConstantTypes, TimeoutAssumption DEF Initial, General
<1>r. prompt /\ loop = "run"
  BY Before
<1>n. /\ TypeOK /\ ValuesOK
      /\ TickerOK /\ CallerOK
      /\ Taken => TicksOK /\ NothingCame /\ PacketsCame
  BY Before DEF IInv, PromptInv, OnTime
<1> HIDE DEF Initial, General
<1> USE <1>c, <1>r, <1>n DEF TypeOK, NumbersOK, FlagsOK
<1>1. CASE Packet
  <2> USE <1>1 DEF Packet, timeoutVars, resetVars, loopVars, tickerVars, countVars, callVars
  <2>1. TickerOK' /\ CallerOK'
    BY DEF TickerOK, CallerOK, SetUpAt, Larger
  <2>2. ASSUME Taken' PROVE (TicksOK /\ NothingCame /\ PacketsCame)'
    <3>1. Taken /\ LastTick' = LastTick /\ SetUpAt' = SetUpAt
      BY <2>2 DEF Taken, LastTick, SetUpAt, Larger
    <3>2. TicksOK'
      BY <3>1 DEF TicksOK
    <3>3. NothingCame'
      BY <3>1 DEF NothingCame
    <3>4. LastTick <= now
      BY DEF LastTick, TickerOK
    <3>5. PacketsCame'
      BY <3>1, <3>4 DEF PacketsCame
    <3> QED BY <3>2, <3>3, <3>5
  <2> QED BY <2>1, <2>2 DEF OnTime
<1>2. CASE Advance
  <2> USE <1>2 DEF Advance, packetVars, timeoutVars, resetVars, loopVars, countVars, callVars
  <2>0. caller = "idle" /\ ~tick /\ ~reset /\ period = General
    BY DEF Settled, ValuesOK
  <2>1. TickerOK' /\ CallerOK'
    <3>1. CASE now + 1 >= next
      BY <2>0, <3>1 DEF TickerOK, CallerOK, SetUpAt, Larger
    <3>2. CASE ~(now + 1 >= next)
      BY <2>0, <3>2 DEF TickerOK, CallerOK, SetUpAt, Larger
    <3> QED BY <3>1, <3>2
  <2>2. ASSUME Taken' PROVE (TicksOK /\ NothingCame /\ PacketsCame)'
    <3>1. Taken /\ SetUpAt' = SetUpAt
      BY <2>2 DEF Taken, SetUpAt, Larger
    <3>2. LastTick' = LastTick
      BY <2>0 DEF LastTick
    <3>3. TicksOK'
      <4>1. PICK k \in Nat : next = SetUpAt + k * General
        BY <3>1 DEF TicksOK
      <4>2. next' = next \/ next' = SetUpAt + (k + 1) * General
        <5>1. (k + 1) * General = k * General + General
          BY <1>c
        <5>2. SetUpAt \in Nat /\ k * General \in Nat
          BY DEF SetUpAt, Larger
        <5>3. next' = next \/ next' = next + General
          BY <2>0
        <5> HIDE DEF Advance, TypeOK, NumbersOK, FlagsOK
        <5> QED BY <1>c, <4>1, <5>1, <5>2, <5>3
      <4>3. \E j \in Nat : next' = SetUpAt + j * General
        <5>1. k \in Nat /\ k + 1 \in Nat
          OBVIOUS
        <5>2. CASE next' = next
          BY <4>1, <5>1, <5>2, Zenon
        <5>3. CASE next' = SetUpAt + (k + 1) * General
          BY <5>1, <5>3, Zenon
        <5> QED BY <4>2, <5>2, <5>3
      <4>4. next' >= SetUpAt + General
        BY <3>1 DEF TicksOK, SetUpAt, Larger
      <4> QED BY <2>0, <3>1, <4>3, <4>4 DEF TicksOK
    <3>4. NothingCame' /\ PacketsCame'
      BY <3>1, <3>2 DEF NothingCame, PacketsCame
    <3> QED BY <3>3, <3>4
  <2> QED BY <2>1, <2>2 DEF OnTime
<1>3. CASE Enable
  <2> USE <1>3 DEF Enable, packetVars, resetVars, loopVars, tickerVars, countVars
  <2>1. /\ caller' = "stored" /\ start' = start
        /\ initial' = Initial /\ general' = General
    BY DEF StoreTimeouts
  <2>2. lateAt = 0 /\ enabledAt' = now /\ lateAt' = 0 /\ now > 0
    BY DEF CallerOK, TickerOK
  <2>3. TickerOK' /\ CallerOK'
    BY <2>1, <2>2 DEF TickerOK, CallerOK, SetUpAt, Larger
  <2> QED BY <2>1, <2>3 DEF OnTime, Taken
<1>4. CASE MissingAck
  <2> USE <1>4 DEF MissingAck, packetVars, resetVars, loopVars, tickerVars, countVars
  <2>1. /\ caller' = "stored" /\ start' = start
        /\ initial' <= Initial /\ initial' \in Nat /\ general' = General
    <3>1. lateAt' > 0
      BY DEF TickerOK
    <3>2. ConfInitial > 0 /\ ConfGeneral > 0
      BY <3>1 DEF TurnedOff, Doomed
    <3> QED BY <3>2 DEF StoreTimeouts
  <2>2. TickerOK' /\ CallerOK'
    BY <2>1 DEF TickerOK, CallerOK, SetUpAt, Larger
  <2> QED BY <2>1, <2>2 DEF OnTime, Taken
<1>5. CASE SendReset
  BY <1>5 DEF SendReset, packetVars, timeoutVars, loopVars, tickerVars, countVars,
       OnTime, TickerOK, CallerOK, Taken, SetUpAt, Larger
<1>6. CASE StoreStart
  <2> USE <1>6 DEF StoreStart, packetVars, timeoutVars, resetVars, loopVars, tickerVars, countVars
  <2>1. TickerOK' /\ CallerOK'
    BY DEF TickerOK, CallerOK, SetUpAt, Larger
  <2>2. ASSUME Taken' PROVE (TicksOK /\ NothingCame /\ PacketsCame)'
    <3>1. Taken /\ LastTick' = LastTick /\ SetUpAt' = SetUpAt
      BY <2>2 DEF Taken, LastTick, SetUpAt, Larger
    <3> QED BY <3>1 DEF TicksOK, NothingCame, PacketsCame
  <2> QED BY <2>1, <2>2 DEF OnTime
<1>7. CASE LoopReset
  <2> USE <1>7 DEF LoopReset, packetVars, timeoutVars, callVars
  <2>0. resetValue = General
    BY DEF ValuesOK
  <2>1. /\ next' = now + General /\ ~tick' /\ startPackets' = packets /\ SetUpAt' = SetUpAt
        /\ lastPackets' = lastPackets /\ LastTick' = now
    BY <2>0 DEF SetUpAt, Larger, LastTick
  <2>2. TickerOK' /\ CallerOK'
    BY <2>1 DEF TickerOK, CallerOK, SetUpAt, Larger
  <2>3. SetUpAt = now
    BY DEF CallerOK
  <2>4. TicksOK'
    <3>1. next' = SetUpAt + 1 * General
      BY <2>1, <2>3
    <3> QED BY <2>1, <2>3, <3>1 DEF TicksOK
  <2>5. NothingCame' /\ PacketsCame'
    BY <2>1, <2>3 DEF NothingCame, PacketsCame
  <2> QED BY <2>2, <2>4, <2>5 DEF OnTime
<1>8. CASE TickNotices
  <2> USE <1>8 DEF TickNotices, packetVars, timeoutVars, resetVars, loopVars, callVars
  <2>1. TickerOK' /\ CallerOK'
    BY DEF TickerOK, CallerOK, SetUpAt, Larger
  <2>2. ASSUME Taken' PROVE (TicksOK /\ NothingCame /\ PacketsCame)'
    <3>1. Taken /\ SetUpAt' = SetUpAt /\ SetUpAt \in Nat
      BY <2>2 DEF Taken, SetUpAt, Larger
    <3>2. LastTick = now - General /\ LastTick' = now
      BY DEF LastTick, TickerOK
    <3>3. TicksOK'
      BY <3>1 DEF TicksOK
    <3>4. NothingCame'
      BY <3>1, <3>2 DEF NothingCame
    <3>5. PacketsCame'
      BY <3>1, <3>2 DEF PacketsCame
    <3> QED BY <3>3, <3>4, <3>5
  <2> QED BY <2>1, <2>2 DEF OnTime
<1>9. CASE TickSkips
  <2> USE <1>9 DEF TickSkips, packetVars, timeoutVars, resetVars, loopVars, countVars, callVars
  <2>1. TickerOK' /\ CallerOK'
    BY DEF TickerOK, CallerOK, SetUpAt, Larger
  <2>2. ASSUME Taken' PROVE (TicksOK /\ NothingCame /\ PacketsCame)'
    <3>1. Taken /\ SetUpAt' = SetUpAt /\ SetUpAt \in Nat
      BY <2>2 DEF Taken, SetUpAt, Larger
    <3>2. LastTick = now - General /\ LastTick' = now
      BY DEF LastTick, TickerOK
    <3>3. start = SetUpAt /\ SetUpAt > 0 /\ ~Elapsed
      BY <3>1 DEF Taken, TicksOK, CallerOK, SetUpAt, Larger
    <3>4. TicksOK'
      BY <3>1 DEF TicksOK
    <3>5. NothingCame'
      BY <3>1, <3>2, <3>3 DEF NothingCame, Elapsed
    <3>6. PacketsCame'
      BY <3>1, <3>2, <3>3 DEF PacketsCame, Elapsed, CallerOK
    <3> QED BY <3>4, <3>5, <3>6
  <2> QED BY <2>1, <2>2 DEF OnTime
<1>10. CASE TickFires \/ Close
  BY <1>10 DEF TickFires, Close
<1>11. CASE UNCHANGED vars
  BY <1>11 DEF vars, packetVars, timeoutVars, resetVars, loopVars, tickerVars, countVars,
       callVars, OnTime, TickerOK, CallerOK, Taken, TicksOK, NothingCame, PacketsCame,
       LastTick, SetUpAt, Larger
<1> QED
  BY <1>1, <1>2, <1>3, <1>4, <1>5, <1>6, <1>7, <1>8, <1>9, <1>10, <1>11 DEF Next

LEMMA NextPromptInv == IInv /\ PromptInv /\ [Next]_vars => PromptInv'
  BY DoomedStep, OnTimeStep DEF PromptInv

\* The last tick the loop has taken is a period ago at most, the next one a period ahead at most.
LEMMA Noticed ==
    ASSUME IInv, PromptInv
    PROVE  SilenceIsNoticed
<1> SUFFICES ASSUME prompt, loop = "run", enabledAt > 0, caller = "idle", ~TurnedOff
             PROVE  now - Since <= LongestSilence
  BY DEF SilenceIsNoticed
<1>c. General \in Nat /\ General > 0 /\ Initial \in Nat
  BY ConstantTypes
<1>l. /\ LongestSilence >= 2 * General /\ LongestSilence >= Rounded
      /\ Rounded \in Int /\ LongestSilence \in Int
  <2>1. Rounded \in Int
    BY <1>c DEF Rounded
  <2> QED BY <1>c, <2>1 DEF LongestSilence, Larger
<1>t. TypeOK
  BY DEF IInv
<1>d. CASE Doomed
  BY <1>c, <1>d, <1>l, <1>t DEF PromptInv, DoomedOK, TypeOK, NumbersOK
<1> SUFFICES ASSUME ~Doomed PROVE now - Since <= LongestSilence
  BY <1>d
<1>n. /\ TypeOK /\ TickerOK /\ CallerOK
      /\ Taken => TicksOK /\ NothingCame /\ PacketsCame
  BY DEF IInv, PromptInv, OnTime
<1>s. /\ Since >= lastPacketAt /\ Since >= SetUpAt /\ Since \in Nat
      /\ now \in Nat /\ lastPacketAt \in Nat /\ SetUpAt \in Nat
  BY <1>n DEF Since, SetUpAt, Larger, TypeOK, NumbersOK
<1>1. CASE reset
  BY <1>1, <1>c, <1>l, <1>n, <1>s DEF CallerOK
<1>2. CASE Taken
  <2>1. now <= LastTick + General /\ LastTick \in Int
    BY <1>c, <1>n DEF LastTick, TickerOK, TypeOK, NumbersOK, FlagsOK
  <2>2. CASE packets # startPackets
    BY <1>2, <1>c, <1>l, <1>n, <1>s, <2>1, <2>2 DEF PacketsCame, TypeOK, NumbersOK
  <2>3. CASE packets = startPackets /\ LastTick <= SetUpAt + General
    BY <1>c, <1>l, <1>s, <2>1, <2>3
  <2>4. CASE packets = startPackets /\ LastTick > SetUpAt + General
    <3>1. LastTick < SetUpAt + initial /\ initial <= Initial /\ initial \in Nat
      BY <1>2, <1>c, <1>n, <1>s, <2>1, <2>4 DEF NothingCame, CallerOK, TypeOK, NumbersOK
    <3>2. PICK j \in Nat : next = SetUpAt + j * General
      BY <1>2, <1>n DEF TicksOK
    <3>3. PICK k \in Nat : LastTick = SetUpAt + k * General
      <4>1. CASE tick
        <5>1. (j - 2) * General = j * General - 2 * General
          BY <1>c
        <5>2. j * General > 2 * General
          BY <1>c, <1>s, <2>4, <3>2, <4>1 DEF LastTick
        <5>3. j - 2 \in Nat
          BY <1>c, <5>2
        <5> QED BY <1>c, <1>s, <3>2, <4>1, <5>1, <5>3 DEF LastTick
      <4>2. CASE ~tick
        <5>1. (j - 1) * General = j * General - General
          BY <1>c
        <5>2. j * General > General
          BY <1>c, <1>s, <2>4, <3>2, <4>2 DEF LastTick
        <5>3. j - 1 \in Nat
          BY <1>c, <5>2
        <5> QED BY <1>c, <1>s, <3>2, <4>2, <5>1, <5>3 DEF LastTick
      <4> QED BY <4>1, <4>2
    <3>4. k * General \in Nat /\ (k + 1) * General = k * General + General
      BY <1>c
    <3>5. k * General < Initial
      BY <1>c, <1>s, <3>1, <3>3, <3>4
    <3>6. (k + 1) * General <= Rounded
      BY <3>5, RoundedBound
    <3> QED BY <1>c, <1>l, <1>s, <2>1, <3>3, <3>4, <3>6
  <2> QED BY <2>1, <1>s, <1>c, <2>2, <2>3, <2>4
<1> QED BY <1>1, <1>2 DEF Taken

\* Silence is noticed in time for any timeouts, configured or by default, unless the machine
\* is overloaded or a missing ACK has turned the timeout off: within two periods of the
\* ticker, or the initial timeout rounded up to one.
THEOREM SilenceNoticed == Spec => []SilenceIsNoticed
<1>1. IInv /\ PromptInv => SilenceIsNoticed
  BY Noticed
<1> QED BY <1>1, NextPromptInv, InitPromptInv, Invariance, PTL DEF Spec

------------------------------------------------------------------------------
(* The room, for any number of calls and of other participants.             *)

\* Where a call stands from Connect to its end.
InCall == {"publish", "joined", "list", "each", "live", "closing"}

\* Who has left does not come back.
Gone(p) == p \in left \/ (p \in Calls /\ pc[p] = "closed")

\* What the SDK of a call knows or has reported is there, or gone for good.
PresentInv ==
    /\ \A p \in left : p \notin inRoom
    /\ \A v \in Calls : v \in inRoom <=> pc[v] \in InCall
    /\ \A v \in Calls : v \in tracks => pc[v] \notin {"new", "publish"}
    /\ \A v \in Calls, p \in Parts :
          /\ p \in pubs[v] \/ <<"track", p>> \in callbacks[v] => p \in tracks \/ Gone(p)
          /\ p \in known[v] => p \in inRoom \/ Gone(p)

\* The flag is set from the first step of Subscribe to the close, and nothing comes before it.
FlagInv ==
    /\ \A v \in Calls : v \in subscribe <=> pc[v] \in {"list", "each", "live"}
    /\ NothingEarly
    /\ \A v \in Calls : pc[v] = "live" => todo[v] = {}

\* Who is still to come: the SDK does not know the track or the participant yet, the callback
\* has yet to run, or Subscribe has yet to go through the participant.
TrackComes(v, p) == p \notin pubs[v] \/ <<"track", p>> \in callbacks[v] \/ p \in todo[v]
JoinComes(v, p) == p \notin known[v] \/ <<"join", p>> \in callbacks[v] \/ p \in todo[v]

TrackCovered(v, p) == p \in tracks => p \in subs[v] \cup refused[v] \/ TrackComes(v, p)
JoinCovered(v, p) == p \in inRoom /\ Unblocks(p) => v \in subscribed \/ JoinComes(v, p)

\* Once the participants are listed, each of them is covered.
CoverInv ==
    \A v \in Calls : pc[v] \in {"each", "live"} =>
       \A p \in Parts \ {v} : TrackCovered(v, p) /\ JoinCovered(v, p)

SetsOK ==
    /\ known \in [Calls -> SUBSET Parts] /\ pubs \in [Calls -> SUBSET Parts]
    /\ todo \in [Calls -> SUBSET Parts] /\ subs \in [Calls -> SUBSET Parts]
    /\ mixed \in [Calls -> SUBSET Parts] /\ refused \in [Calls -> SUBSET Parts]
    /\ undecoded \in [Calls -> SUBSET Parts]
    /\ callbacks \in [Calls -> SUBSET ({"join", "track"} \X Parts)]

RoomInv == RoomTypeOK /\ SetsOK /\ PresentInv /\ FlagInv /\ CoverInv

\* An empty room satisfies the invariant.
LEMMA InitRoom == RoomInit => RoomInv
BY DEF RoomInit, RoomInv, RoomTypeOK, SetsOK, PresentInv, FlagInv, NothingEarly, CoverInv, InCall,
       Parts

\* Others come, publish and leave: none of them comes back.
LEMMA OtherMovesRoom ==
    ASSUME RoomInv, NEW p \in Others, OtherMoves(p)
    PROVE  RoomInv'
<1> USE RoomAssumption DEF RoomInv, Parts, serverVars, sdkVars, goroutineVars, subVars, mixVars, useVars
<1> USE DEF OtherMoves
<1>1. RoomTypeOK' BY DEF RoomTypeOK, SetsOK
<1>2. SetsOK' BY DEF RoomTypeOK, SetsOK
<1>3. PresentInv' BY DEF RoomTypeOK, SetsOK, PresentInv, InCall, Gone
<1>4. FlagInv' BY DEF RoomTypeOK, SetsOK, FlagInv, NothingEarly
<1>5. CoverInv'
  <2> SUFFICES ASSUME NEW w \in Calls, pc'[w] \in {"each", "live"}, NEW q \in Parts \ {w}
               PROVE  TrackCovered(w, q)' /\ JoinCovered(w, q)'
    BY DEF CoverInv
  <2>1. TrackCovered(w, q)'
    BY DEF SetsOK, CoverInv, PresentInv, Gone, TrackCovered, TrackComes
  <2>2. JoinCovered(w, q)'
    BY DEF SetsOK, CoverInv, PresentInv, Gone, JoinCovered, JoinComes, Unblocks
  <2> QED BY <2>1, <2>2
<1> QED BY <1>1, <1>2, <1>3, <1>4, <1>5

\* What is reported is not covered by a list any more, but by its callback.
LEMMA ReportRoom ==
    ASSUME RoomInv, NEW v \in Calls, NEW p \in Parts, Report(v, p)
    PROVE  RoomInv'
<1> USE RoomAssumption DEF RoomInv, Parts, serverVars, sdkVars, goroutineVars, subVars, mixVars, useVars
<1> USE DEF Report, Grow, Shrink
<1>1. RoomTypeOK' BY DEF RoomTypeOK, SetsOK
<1>2. SetsOK' BY DEF RoomTypeOK, SetsOK
<1>3. PresentInv' BY DEF RoomTypeOK, SetsOK, PresentInv, InCall, Gone
<1>4. FlagInv' BY DEF RoomTypeOK, SetsOK, FlagInv, NothingEarly
<1>5. CoverInv'
  <2> SUFFICES ASSUME NEW w \in Calls, pc'[w] \in {"each", "live"}, NEW q \in Parts \ {w}
               PROVE  TrackCovered(w, q)' /\ JoinCovered(w, q)'
    BY DEF CoverInv
  <2>1. TrackCovered(w, q)'
    BY DEF SetsOK, CoverInv, TrackCovered, TrackComes
  <2>2. JoinCovered(w, q)'
    BY DEF SetsOK, CoverInv, JoinCovered, JoinComes, Unblocks
  <2> QED BY <2>1, <2>2
<1> QED BY <1>1, <1>2, <1>3, <1>4, <1>5

\* The join of a SIP participant breaks the fuse: the flag is set once the list is read.
LEMMA JoinCallbackRoom ==
    ASSUME RoomInv, NEW v \in Calls, NEW p \in Parts, JoinCallback(v, p)
    PROVE  RoomInv'
<1> USE RoomAssumption DEF RoomInv, Parts, serverVars, sdkVars, goroutineVars, subVars, mixVars, useVars
<1> USE DEF JoinCallback, Shrink
<1>1. RoomTypeOK' BY DEF RoomTypeOK, SetsOK
<1>2. SetsOK' BY DEF RoomTypeOK, SetsOK
<1>3. PresentInv' BY DEF RoomTypeOK, SetsOK, PresentInv, InCall, Gone
<1>4. FlagInv' BY DEF RoomTypeOK, SetsOK, FlagInv, NothingEarly
<1>5. CoverInv'
  <2> SUFFICES ASSUME NEW w \in Calls, pc'[w] \in {"each", "live"}, NEW q \in Parts \ {w}
               PROVE  TrackCovered(w, q)' /\ JoinCovered(w, q)'
    BY DEF CoverInv
  <2>1. TrackCovered(w, q)'
    BY DEF SetsOK, CoverInv, TrackCovered, TrackComes
  <2>2. JoinCovered(w, q)'
    BY DEF SetsOK, CoverInv, FlagInv, JoinCovered, JoinComes, Unblocks
  <2> QED BY <2>1, <2>2
<1> QED BY <1>1, <1>2, <1>3, <1>4, <1>5

\* A track that is still there is subscribed to.
LEMMA TrackCallbackRoom ==
    ASSUME RoomInv, NEW v \in Calls, NEW p \in Parts, TrackCallback(v, p)
    PROVE  RoomInv'
<1> USE RoomAssumption DEF RoomInv, Parts, serverVars, sdkVars, goroutineVars, subVars, mixVars, useVars
<1> USE DEF TrackCallback, Shrink, Grow, SubscribeTo
<1>1. RoomTypeOK' BY DEF RoomTypeOK, SetsOK
<1>2. SetsOK' BY DEF RoomTypeOK, SetsOK
<1>3. PresentInv' BY DEF RoomTypeOK, SetsOK, PresentInv, InCall, Gone
<1>4. FlagInv' BY DEF RoomTypeOK, SetsOK, FlagInv, NothingEarly
<1>5. CoverInv'
  <2> SUFFICES ASSUME NEW w \in Calls, pc'[w] \in {"each", "live"}, NEW q \in Parts \ {w}
               PROVE  TrackCovered(w, q)' /\ JoinCovered(w, q)'
    BY DEF CoverInv
  <2>1. TrackCovered(w, q)'
    BY DEF SetsOK, CoverInv, FlagInv, TrackCovered, TrackComes
  <2>2. JoinCovered(w, q)'
    BY DEF SetsOK, CoverInv, JoinCovered, JoinComes, Unblocks
  <2> QED BY <2>1, <2>2
<1> QED BY <1>1, <1>2, <1>3, <1>4, <1>5

\* The mixer and SendData leave the subscription alone.
LEMMA AsideRoom ==
    ASSUME RoomInv, NEW v \in Calls, NEW p \in Parts, 
           MixTrack(v, p) \/ TrackEnds(v, p) \/ SendData(v) \/ SendDataGoesOn(v)
    PROVE  RoomInv'
<1> USE RoomAssumption DEF RoomInv, Parts, serverVars, sdkVars, goroutineVars, subVars, mixVars, useVars
<1> USE DEF MixTrack, TrackEnds, SendData, SendDataGoesOn, Grow,
           Shrink
<1>1. RoomTypeOK' BY DEF RoomTypeOK, SetsOK
<1>2. SetsOK' BY DEF RoomTypeOK, SetsOK
<1>3. PresentInv' BY DEF RoomTypeOK, SetsOK, PresentInv, InCall, Gone
<1>4. FlagInv' BY DEF RoomTypeOK, SetsOK, FlagInv, NothingEarly
<1>5. CoverInv'
  <2> SUFFICES ASSUME NEW w \in Calls, pc'[w] \in {"each", "live"}, NEW q \in Parts \ {w}
               PROVE  TrackCovered(w, q)' /\ JoinCovered(w, q)'
    BY DEF CoverInv
  <2>1. TrackCovered(w, q)'
    BY DEF SetsOK, CoverInv, TrackCovered, TrackComes
  <2>2. JoinCovered(w, q)'
    BY DEF SetsOK, CoverInv, JoinCovered, JoinComes, Unblocks
  <2> QED BY <2>1, <2>2
<1> QED BY <1>1, <1>2, <1>3, <1>4, <1>5

\* A call that joins is not known to the others yet.
LEMMA ConnectRoom ==
    ASSUME RoomInv, NEW v \in Calls, Connect(v)
    PROVE  RoomInv'
<1> USE RoomAssumption DEF RoomInv, Parts, serverVars, sdkVars, goroutineVars, subVars, mixVars, useVars
<1> USE DEF Connect, Goto
<1>0. v \notin left BY DEF RoomTypeOK
<1>1. RoomTypeOK'
  <2>1. inRoom' \subseteq Parts /\ tracks' \subseteq inRoom' /\ room' = Calls \cap inRoom'
    BY DEF RoomTypeOK, PresentInv, InCall
  <2>2. pc' \in [Calls -> {"new", "publish", "joined", "list", "each", "live", "closing", "closed"}]
    BY DEF RoomTypeOK
  <2>3. \A w \in Calls : pubs'[w] \subseteq known'[w] /\ known'[w] \subseteq Parts \ {w}
    BY DEF RoomTypeOK, SetsOK, PresentInv, InCall
  <2>4. UNCHANGED <<left, callbacks, subscribe, todo, subVars, mixVars, useVars>> OBVIOUS
  <2> QED BY <2>1, <2>2, <2>3, <2>4 DEF RoomTypeOK
<1>2. SetsOK' BY DEF RoomTypeOK, SetsOK
<1>3. PresentInv' BY DEF RoomTypeOK, SetsOK, PresentInv, InCall, Gone
<1>4. FlagInv' BY DEF RoomTypeOK, SetsOK, FlagInv, NothingEarly
<1>5. CoverInv'
  <2> SUFFICES ASSUME NEW w \in Calls, pc'[w] \in {"each", "live"}, NEW q \in Parts \ {w}
               PROVE  TrackCovered(w, q)' /\ JoinCovered(w, q)'
    BY DEF CoverInv
  <2>1. TrackCovered(w, q)'
    BY <1>0 DEF SetsOK, CoverInv, PresentInv, Gone, InCall, TrackCovered, TrackComes
  <2>2. JoinCovered(w, q)'
    <3>1. w # v /\ pc[w] = pc'[w] /\ known'[w] = known[w] /\ todo'[w] = todo[w]
      BY DEF SetsOK, RoomTypeOK
    <3>2. v \notin known[w] BY <1>0 DEF PresentInv, Gone, InCall
    <3>3. JoinCovered(w, q) BY <3>1 DEF CoverInv
    <3> QED BY <3>1, <3>2, <3>3 DEF JoinCovered, JoinComes, Unblocks
  <2> QED BY <2>1, <2>2
<1> QED BY <1>1, <1>2, <1>3, <1>4, <1>5

\* Nor is its track.
LEMMA PublishRoom ==
    ASSUME RoomInv, NEW v \in Calls, Publish(v)
    PROVE  RoomInv'
<1> USE RoomAssumption DEF RoomInv, Parts, serverVars, sdkVars, goroutineVars, subVars, mixVars, useVars
<1> USE DEF Publish, Goto
<1>0. v \notin left BY DEF RoomTypeOK
<1>1. RoomTypeOK'
  <2>1. inRoom' \subseteq Parts /\ tracks' \subseteq inRoom' /\ room' = Calls \cap inRoom'
    BY DEF RoomTypeOK, PresentInv, InCall
  <2>2. pc' \in [Calls -> {"new", "publish", "joined", "list", "each", "live", "closing", "closed"}]
    BY DEF RoomTypeOK
  <2>3. \A w \in Calls : pubs'[w] \subseteq known'[w] /\ known'[w] \subseteq Parts \ {w}
    BY DEF RoomTypeOK, SetsOK, PresentInv, InCall
  <2>4. UNCHANGED <<left, callbacks, subscribe, todo, subVars, mixVars, useVars>> OBVIOUS
  <2> QED BY <2>1, <2>2, <2>3, <2>4 DEF RoomTypeOK
<1>2. SetsOK' BY DEF RoomTypeOK, SetsOK
<1>3. PresentInv' BY DEF RoomTypeOK, SetsOK, PresentInv, InCall, Gone
<1>4. FlagInv' BY DEF RoomTypeOK, SetsOK, FlagInv, NothingEarly
<1>5. CoverInv'
  <2> SUFFICES ASSUME NEW w \in Calls, pc'[w] \in {"each", "live"}, NEW q \in Parts \ {w}
               PROVE  TrackCovered(w, q)' /\ JoinCovered(w, q)'
    BY DEF CoverInv
  <2>1. TrackCovered(w, q)'
    BY <1>0 DEF SetsOK, CoverInv, PresentInv, Gone, InCall, TrackCovered, TrackComes
  <2>2. JoinCovered(w, q)'
    BY <1>0 DEF SetsOK, CoverInv, JoinCovered, JoinComes, Unblocks
  <2> QED BY <2>1, <2>2
<1> QED BY <1>1, <1>2, <1>3, <1>4, <1>5

\* The list covers everybody the SDK knows; the flag was set before it.
LEMMA SubscribeRoom ==
    ASSUME RoomInv, NEW v \in Calls, Subscribe(v)
    PROVE  RoomInv'
<1> USE RoomAssumption DEF RoomInv, Parts, serverVars, sdkVars, goroutineVars, subVars, mixVars, useVars
<1> USE DEF Subscribe, Goto
<1>1. RoomTypeOK' BY DEF RoomTypeOK, SetsOK
<1>2. SetsOK' BY DEF RoomTypeOK, SetsOK
<1>3. PresentInv' BY DEF RoomTypeOK, SetsOK, PresentInv, InCall, Gone
<1>4. FlagInv' BY DEF RoomTypeOK, SetsOK, FlagInv, NothingEarly
<1>5. CoverInv'
  <2> SUFFICES ASSUME NEW w \in Calls, pc'[w] \in {"each", "live"}, NEW q \in Parts \ {w}
               PROVE  TrackCovered(w, q)' /\ JoinCovered(w, q)'
    BY DEF CoverInv
  <2>1. TrackCovered(w, q)'
    BY DEF SetsOK, CoverInv, RoomTypeOK, TrackCovered, TrackComes
  <2>2. JoinCovered(w, q)'
    BY DEF SetsOK, CoverInv, RoomTypeOK, JoinCovered, JoinComes, Unblocks
  <2> QED BY <2>1, <2>2
<1> QED BY <1>1, <1>2, <1>3, <1>4, <1>5

\* Who was listed is subscribed to, and unblocks the call.
LEMMA SubscribeEachRoom ==
    ASSUME RoomInv, NEW v \in Calls, SubscribeEach(v)
    PROVE  RoomInv'
<1> USE RoomAssumption DEF RoomInv, Parts, serverVars, sdkVars, goroutineVars, subVars, mixVars, useVars
<1> USE DEF SubscribeEach, SubscribeTo, Shrink, Grow
<1>1. RoomTypeOK' BY DEF RoomTypeOK, SetsOK
<1>2. SetsOK' BY DEF RoomTypeOK, SetsOK
<1>3. PresentInv' BY DEF RoomTypeOK, SetsOK, PresentInv, InCall, Gone
<1>4. FlagInv' BY DEF RoomTypeOK, SetsOK, FlagInv, NothingEarly
<1>5. CoverInv'
  <2> SUFFICES ASSUME NEW w \in Calls, pc'[w] \in {"each", "live"}, NEW q \in Parts \ {w}
               PROVE  TrackCovered(w, q)' /\ JoinCovered(w, q)'
    BY DEF CoverInv
  <2>1. TrackCovered(w, q)'
    BY DEF SetsOK, CoverInv, TrackCovered, TrackComes
  <2>2. JoinCovered(w, q)'
    BY DEF SetsOK, CoverInv, JoinCovered, JoinComes, Unblocks
  <2> QED BY <2>1, <2>2
<1> QED BY <1>1, <1>2, <1>3, <1>4, <1>5

\* The call is live when the list is empty, and covers nobody once it closes.
LEMMA SubscribeDoneRoom ==
    ASSUME RoomInv, NEW v \in Calls, SubscribeDone(v) \/ BeginClose(v)
    PROVE  RoomInv'
<1> USE RoomAssumption DEF RoomInv, Parts, serverVars, sdkVars, goroutineVars, subVars, mixVars, useVars
<1> USE DEF SubscribeDone, BeginClose, Goto
<1>1. RoomTypeOK' BY DEF RoomTypeOK, SetsOK
<1>2. SetsOK' BY DEF RoomTypeOK, SetsOK
<1>3. PresentInv' BY DEF RoomTypeOK, SetsOK, PresentInv, InCall, Gone
<1>4. FlagInv' BY DEF RoomTypeOK, SetsOK, FlagInv, NothingEarly
<1>5. CoverInv'
  <2> SUFFICES ASSUME NEW w \in Calls, pc'[w] \in {"each", "live"}, NEW q \in Parts \ {w}
               PROVE  TrackCovered(w, q)' /\ JoinCovered(w, q)'
    BY DEF CoverInv
  <2>1. TrackCovered(w, q)'
    BY DEF SetsOK, CoverInv, RoomTypeOK, TrackCovered, TrackComes
  <2>2. JoinCovered(w, q)'
    BY DEF SetsOK, CoverInv, RoomTypeOK, JoinCovered, JoinComes, Unblocks
  <2> QED BY <2>1, <2>2
<1> QED BY <1>1, <1>2, <1>3, <1>4, <1>5

\* A call that leaves does not come back.
LEMMA DisconnectRoom ==
    ASSUME RoomInv, NEW v \in Calls, Disconnect(v)
    PROVE  RoomInv'
<1> USE RoomAssumption DEF RoomInv, Parts, serverVars, sdkVars, goroutineVars, subVars, mixVars, useVars
<1> USE DEF Disconnect, Goto
<1>1. RoomTypeOK' BY DEF RoomTypeOK, SetsOK
<1>2. SetsOK' BY DEF RoomTypeOK, SetsOK
<1>3. PresentInv' BY DEF RoomTypeOK, SetsOK, PresentInv, InCall, Gone
<1>4. FlagInv' BY DEF RoomTypeOK, SetsOK, FlagInv, NothingEarly
<1>5. CoverInv'
  <2> SUFFICES ASSUME NEW w \in Calls, pc'[w] \in {"each", "live"}, NEW q \in Parts \ {w}
               PROVE  TrackCovered(w, q)' /\ JoinCovered(w, q)'
    BY DEF CoverInv
  <2>1. TrackCovered(w, q)'
    BY DEF SetsOK, CoverInv, PresentInv, Gone, TrackCovered, TrackComes
  <2>2. JoinCovered(w, q)'
    BY DEF SetsOK, CoverInv, JoinCovered, JoinComes, Unblocks
  <2> QED BY <2>1, <2>2
<1> QED BY <1>1, <1>2, <1>3, <1>4, <1>5

\* Every step preserves the invariant.
LEMMA NextRoom == RoomInv /\ [RoomNext]_roomVars => RoomInv'
<1> SUFFICES ASSUME RoomInv, [RoomNext]_roomVars PROVE RoomInv' OBVIOUS
<1>1. CASE UNCHANGED roomVars
  BY <1>1 DEF RoomInv, RoomTypeOK, SetsOK, PresentInv, FlagInv, NothingEarly, CoverInv,
              TrackCovered, JoinCovered, TrackComes, JoinComes, Gone, roomVars, serverVars,
              sdkVars, goroutineVars, subVars, mixVars, useVars
<1>2. CASE RoomNext
  BY <1>2, OtherMovesRoom, ReportRoom, JoinCallbackRoom, TrackCallbackRoom, AsideRoom, ConnectRoom,
     PublishRoom, SubscribeRoom, SubscribeEachRoom, SubscribeDoneRoom, DisconnectRoom
  DEF RoomNext, Callback, Parts
<1> QED BY <1>1, <1>2

LEMMA RoomInvariance == RoomSpec => []RoomInv
BY InitRoom, NextRoom, PTL DEF RoomSpec

\* The sets of the room, the SDK and the calls keep their types.
THEOREM RoomTypes == RoomSpec => []RoomTypeOK
<1>1. RoomInv => RoomTypeOK BY DEF RoomInv
<1> QED BY <1>1, RoomInvariance, PTL

\* "Not subscribing to any tracks just yet!": whatever the callbacks report before Subscribe,
\* the call hears nobody and is not unblocked.
THEOREM QuietBefore == RoomSpec => []NothingEarly
<1>1. RoomInv => NothingEarly BY DEF RoomInv, FlagInv
<1> QED BY <1>1, RoomInvariance, PTL

\* No track falls between the flag, the list and the callbacks: one that a live call has
\* neither subscribed to nor failed to is not in the SDK's list yet, or its callback is still
\* to run.
NoTrackLost ==
    \A v \in Calls : pc[v] = "live" =>
       \A p \in tracks \ {v} :
          \/ p \in subs[v] \cup refused[v]
          \/ p \notin pubs[v] \/ <<"track", p>> \in callbacks[v]

\* So every track of a live call is asked for, or about to be.
THEOREM TracksCovered == RoomSpec => []NoTrackLost
<1>1. RoomInv => NoTrackLost
  BY DEF RoomInv, RoomTypeOK, FlagInv, CoverInv, TrackCovered, TrackComes, NoTrackLost, Parts
<1> QED BY <1>1, RoomInvariance, PTL

\* Nor does a SIP participant: a live call that none has unblocked is yet to be told of each.
NoCallerMissed ==
    \A v \in Calls : pc[v] = "live" =>
       \A p \in inRoom \ {v} : Unblocks(p) =>
          v \in subscribed \/ p \notin known[v] \/ <<"join", p>> \in callbacks[v]

\* So every SIP participant unblocks the call, or is about to.
THEOREM CallersCovered == RoomSpec => []NoCallerMissed
<1>1. RoomInv => NoCallerMissed
  BY DEF RoomInv, RoomTypeOK, FlagInv, CoverInv, JoinCovered, JoinComes, NoCallerMissed, Parts
<1> QED BY <1>1, RoomInvariance, PTL

\* A closed room takes no track into the mixer any more and is not entered again, whatever
\* callbacks are still to run.
ClosedTakesNothing ==
    [][\A v \in Calls : pc[v] = "closed" =>
          pc'[v] = "closed" /\ v \notin room' /\ mixed'[v] \subseteq mixed[v]]_roomVars

\* A close is final for the mixer, the room and the goroutine.
THEOREM ClosedStaysClosed == RoomSpec => ClosedTakesNothing
<1>1. ASSUME RoomInv, [RoomNext]_roomVars, NEW v \in Calls, pc[v] = "closed"
      PROVE  pc'[v] = "closed" /\ v \notin room' /\ mixed'[v] \subseteq mixed[v]
  <2> USE <1>1 DEF RoomInv, RoomTypeOK, SetsOK, PresentInv, InCall
  <2>0. v \notin inRoom /\ v \notin room OBVIOUS
  <2>1. CASE UNCHANGED roomVars BY <2>0, <2>1 DEF roomVars, goroutineVars, mixVars
  <2>2. CASE \E p \in Others : OtherMoves(p)
    BY <2>0, <2>2 DEF OtherMoves, goroutineVars, mixVars
  <2>3. CASE \E w \in Calls, p \in Parts :
                Report(w, p) \/ JoinCallback(w, p) \/ TrackCallback(w, p)
    BY <2>0, <2>3 DEF Report, JoinCallback, TrackCallback, goroutineVars, mixVars
  <2>4. CASE \E w \in Calls, p \in Parts : MixTrack(w, p) \/ TrackEnds(w, p)
    BY <2>0, <2>4 DEF MixTrack, TrackEnds, Grow, Shrink, goroutineVars, mixVars
  <2>5. CASE \E w \in Calls :
                \/ Connect(w) \/ Publish(w) \/ Subscribe(w) \/ SubscribeEach(w)
                \/ SubscribeDone(w) \/ BeginClose(w) \/ Disconnect(w)
    BY <2>0, <2>5 DEF Connect, Publish, Subscribe, SubscribeEach, SubscribeDone,
                      BeginClose, Disconnect, Goto, mixVars
  <2>6. CASE \E w \in Calls : SendData(w) \/ SendDataGoesOn(w)
    BY <2>0, <2>6 DEF SendData, SendDataGoesOn, goroutineVars, mixVars
  <2> QED BY <2>1, <2>2, <2>3, <2>4, <2>5, <2>6 DEF RoomNext, Callback
<1>2. RoomInv /\ [RoomNext]_roomVars =>
        [\A v \in Calls : pc[v] = "closed" =>
            pc'[v] = "closed" /\ v \notin room' /\ mixed'[v] \subseteq mixed[v]]_roomVars
  BY <1>1
<1> QED BY <1>2, RoomInvariance, PTL DEF RoomSpec, ClosedTakesNothing
=============================================================================
