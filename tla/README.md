# Specification of the LiveKit SIP bridge

TLA+ models of this repository (`src/`), a Go service that bridges SIP calls and LiveKit
rooms: one process, many goroutines, calls in both directions. The models are about its
control: which goroutine may do what to a call, in which order, and what is left when a
call, a transfer or the process ends. Audio and SIP text are abstracted away.

`PROJECT.json` lists components, runs, mutants, findings, hazards and theorems, and maps
every definition to the lines it stands for.

## 1. The system

### Components

| component | state it keeps | operations | talks to |
|---|---|---|---|
| inbound call (`inbound.go`: `inboundCall`) | `done`, `closing`, `lkRoom`, `media`, call state, context | `handleInvite`, `pinPrompt`, `joinRoom`, `waitSubscribe`, `close*` | leg, registry, media port, room, RPCs |
| inbound leg (`inbound.go`: `sipInbound`) | `inviteTx`, `inviteOk`, `ringing`, `cancelled`, `acked`, all under `c.mu` | `StartRinging`, `RespondAndDrop`, `Accept`, `AcceptAck`, `AcceptBye`, `CloseWithStatus`, `sendBye` | peer |
| server registry (`server.go`, `inbound.go`) | `activeCalls` by From tag, `byLocal` by our tag | `processInvite`, `onAck`, `onBye`, `onNotify`, `Stop` | inbound calls |
| INVITE authentication (`inbound.go`) | `inProgressInvites`, at most `digestLimit` challenges | `handleInviteAuth`, `getInvite` | peer |
| outbound call (`outbound.go`: `outboundCall`) | `started`, `stopped`, `lkRoom`, `media`, call state, under `c.mu` | `newCall`, `Dial`, `ConnectSIP`, `WaitClose`, `close` | leg, client, media port, room, RPC |
| outbound leg (`outbound.go`: `sipOutbound`) | `invite`, `inviteOk`, `referCseq` | `Invite`, `AckInviteOK`, `AcceptBye`, `Close`, `sendBye` | peer |
| client registry (`client.go`) | `activeCalls`, `byRemote`, `closing` | `createSIPParticipant`, `OnRequest`, `onBye`, `Stop` | outbound calls |
| transfer (`service.go`, `protocol.go`, both calls) | `pendingTransfers`, `referCseq`, the channel `referDone` | `TransferSIPParticipant`, `processParticipantTransfer`, `transferCall`, `handleNotify` | both registries, leg, room |
| media timeout (`media_port.go`) | packet counter, `timeoutStart`, `timeoutInitial`, `timeoutGeneral`, reset channel | `EnableTimeout`, `SetTimeout`, `timeoutLoop` | both calls |
| media port and pipeline (`media_port.go`, `media*.go`) | connection, codecs, writers, jitter buffer | `NewOffer`, `SetOffer`, `SetAnswer`, `SetConfig`, `WriteAudioTo`, `Close` | both calls, room |
| room (`room.go`, `participant.go`) | SDK room, mixer, fuses, `subscribe` flag | `Connect`, `Subscribe`, callbacks, `SwapOutput`, `SendData`, `Close` | both calls, LiveKit |
| process lifecycle (`main.go`, `pkg/service`, `sip/service.go`) | `shutdown`, `killed`, the drain | `Run`, `Stop`, `ActiveCalls` | client, server, monitor |
| monitor (`stats/monitor.go`) | shutdown fuse, health, gauges | `Health`, `CallStart`, `CallEnd`, ... | everything |
| call state reports (`analytics.go`) | the report of a call, dirty flag | `Update`, `ForceFlush` | IO service |
| dispatch mapping (`psrpc.go`) | none | `GetAuthCredentials`, `DispatchCall` | RPCs |
| text (`types.go`, `config.go`, `tls.go`, parts of `protocol.go`) | none | parsing and formatting | all |
| codecs, resources, `rtpconn`, `config`, `errors`, test clients, deployment | none that the service's control reads | - | - |

### How they interact

An INVITE reaches `Server.onInvite`, which runs `processInvite` in its goroutine for the
whole life of the call: authentication, the admission hook, registration in the two maps,
provisional responses, dispatch, media, PIN prompt, room, answer, main loop, close. BYE,
ACK, CANCEL and NOTIFY come on goroutines of their own; they find the call through the
registry and meet the handler in the leg, under `c.mu`, and through contexts and
channels. Outbound, an RPC creates the call; `Dial` runs in the RPC or in a goroutine,
`WaitClose` then watches room, media and leg, and close is a `sync.Once` that BYE,
`Client.Stop`, the transfer's timer, and the dialling goroutine enter. Both kinds
of call own a `MediaPort`, whose timeout goroutine ends them by closing a channel, and a
`Room`, whose SDK callbacks run concurrently with everything. A transfer looks the call
up by its participant, sends a REFER and waits for the NOTIFY, which a handler passes on
over an unbuffered channel. `Service.Run` ends with a drain, which counts both registries.

### What is hard in it

- Several goroutines end one call. Final responses, BYEs, releases and session-end
  notices have to happen once each, whoever comes first.
- Locks are held across waits: `Accept` repeats the 200, `sendBye` waits for its answer,
  the NOTIFY handler holds the leg for reading while it waits for the transfer.
- State is read after its lock is gone: the outbound report, `SendData`, the dial tone.
- Timeouts race answers: ACK, dialling deadline, REFER, media.
- Registries are keyed by what the peer chooses (From tag, Call-ID) and bounded or swapped
  while in use; two of them share one port.
- Several goroutines update one report, over requests that fail before or after the other
  side took them.
- Shutdown has two speeds and counts calls that come and go meanwhile.

### What makes each part correct

- *inbound call*: one final response, no ringing after it; an answered call is hung up;
  ACTIVE means established; nothing is left behind; BYE, deadlines and Stop end it.
- *outbound call*: the same for the side that dials; a 200 is acknowledged before a BYE;
  errors are reported; a lost room or silent media end the call.
- *registries*: a call that is served is found by its tags, one that is over is not, no
  request acts on a call of another tag, of either side, and a BYE ends the call it finds;
  Stop reaches all calls it found. What calls that share a tag lose is named.
- *call state*: what counts as delivered is delivered, reports arrive in the order of the
  updates, and the end of a call is reported.
- *authentication*: the list is bounded, an honest caller gets in, an old challenge
  admits nobody.
- *transfer*: one attempt per target, an outcome read by the attempt it belongs to where a
  NOTIFY lets the two be told apart, success only if it was notified, the room's audio given
  back after a failure, no request left waiting.
- *media timeout*: fires only after a full silence, and within a bounded time after it.
- *room*: nothing is heard before Subscribe, everything afterwards, nothing after close.
- *lifecycle*: a drain cuts no registered call; a signal ends the process.

## 2. Modules

| module | models | abstract / proofs |
|---|---|---|
| `InboundCall` | one inbound call and its leg | implements `SipLeg`; `InboundCallProofs` |
| `OutboundCall` | one outbound call, its leg, its part of the client | implements `SipLeg`; `OutboundCallProofs` |
| `SipLeg` | what either call promises its peer and the session handler | abstract |
| `CallState` | the report of a call, its writers, an IO service that fails | implements `Report`; `CallStateProofs` |
| `Report` | what the IO service is promised of a call's report | abstract |
| `ServerRegistry` | the server's maps with several calls | extended by `Dispatch` |
| `Dispatch` | server and client maps behind one port, and `Service.Stop` | `DispatchProofs` |
| `Transfer` | transfer requests, attempts, NOTIFY handlers, dial tone | `TransferProofs` |
| `MediaTimeout` | `timeoutLoop` and its callers | `MediaProofs` |
| `InviteAuth` | the challenges in progress and the 407s under way | `InviteAuthProofs` |
| `Room` | rooms of the node's calls and the SDK's callbacks | `MediaProofs` |
| `Lifecycle` | signals, drain, stop, calls as the drain sees them | `LifecycleProofs` |

The specification modules have finite parameters and are their own model-checking modules:
a run is a `.cfg` that names its constants. Operators whose name says what a bug would do
(`UnregisterKeepsTopic`, `GetNewInvite`, `NoticesLate`, ...) stand before the definition they
vary; they are no part of the specifications, and `PROJECT.json` pairs each with the
property that finds it. `FairSpec` adds fairness to `Spec`.

### InboundCall

Three goroutines: the handler (`pc` walks `processInvite`, `handleInvite`, `close`), the
ringer of `StartRinging` (`ringer`), the one that serves a BYE (`bye`). `mu` is the owner of
`c.mu` where it is held across a wait (Accept, the BYE of close); other critical sections
are one step that requires `mu = "free"`. `leg` is the pair `inviteTx`/`inviteOk`.
`RejectInvite` and `AdmitInvite` stand for everything up to the registration;
`StartRinging`, `DispatchRoom`, `DispatchRefuse`, `RunMedia`, `ConnectRoom`, `PublishTrack`,
`WaitSubscribe`, `Accept`/`AcceptRetry`/`RetriesDone`, `WaitMedia`, `Pin*`, `Activate`,
`Loop*` are the stages; `CloseLeg`, `ByeDone`, `Unregister`, `Return` are `close`. The
results of RPCs and of sending are chosen freely. Retry delays are counted in quarters of
a second (`waited`), with the code's doubling and its cap; the caller's ACK may come at any
time, and its BYE from the registration on, since `onBye` looks at nothing but the From tag:
before `StartRinging` it leaves the transaction nil, and the process panics (`RingsOrEnds`,
section 6). Transport and `InboundWaitACK` are variables that never change, so one run has all four
configurations.

### OutboundCall

`pc` walks `newCall`, `Dial`, `ConnectSIP`, `WaitClose` (an answer is only taken into a media port
that is open); `closeAt` is the goroutine inside
`stopped.Once`, whichever of the five `Closers` it is; `rpc`, `bye`, `stop` and
`transferred` are the goroutines beside it. `mu` is `c.mu`, `ccmu` the leg's lock while a
BYE is answered. `rpc` starts as one that dials itself (`WaitUntilAnswered`) or not. A nil dereference is a step to `panic`, after which nothing moves. The
responses of the callee, the 401/407 loop included, are chosen freely. `ack` says whether the
ACK was sent or failed: `ConnectSIP` closes the call with a BYE then. `SetErrStatus` is the
`setErrStatus` that follows `closeWithTimeout` in `WaitClose` whoever closed the call, and
`timedOut` remembers it. `InviteCancelled` is an INVITE given up for the deadline or the
shutdown; a 200 that crosses its CANCEL sets `crossed` and nothing else, as nobody takes it.

### SipLeg

Setup, up, over; a BYE of ours only while up and once; the session's end is announced once
and never while the leg is up. Both calls state their mapping next to
`ImplementsSipLeg`: for the inbound call "setup" is the time before the 200, for the
outbound one before a 200 was stored.

### MediaTimeout

One step per atomic load or store where the order matters: `StoreTimeouts`, `SendReset`,
`StoreStart` for the caller, `LoopReset`, `TickNotices`, `TickSkips`, `TickFires` for the
loop. A tick that is due and a reset that waits are both there, and which one `select`
takes is open. `prompt` records that the clock has not run ahead of the goroutines, which is
when `SilenceIsNoticed` bounds the time.

### ServerRegistry and Dispatch

`activeCalls` is a function from From tags, `byLocal` a set, and the requests of peers read
them in one step and act later (`found`). `Stop` swaps the map and then cancels calls one
by one. An INVITE may carry any tag, one that is taken included, as nothing in
`processInvite` looks at the entries: `Sharing` are the calls whose tag another INVITE carried.

`Dispatch` extends it with the Client: `dial` is where `createSIPParticipant`, `ConnectSIP`
and `Dial` stand, `shut` where close does, `mu` the calls whose lock is held, `outCalls` and
`byRemote` the two maps. A BYE or NOTIFY is looked up in the Server's map first; when it is
not there, `Client.OnRequest` looks in the other one. `Service.Stop` closes the Client's calls
one at a time, waiting for each lock, and only then stops the Server. A callee's tag is the
name of its call, as tags that callees choose are random; an INVITE of that callee in the
dialog carries it too, and the Server then has the BYE of both. `Parties` names the sets of calls
that come up together. What a nil SIP client does after Stop is in `OutboundCall`, what a BYE does to a call that does
not ring yet in `InboundCall`.

### CallState

`info` is the report, with a `version` that counts its updates, `dirty` the flag, `mu` who
holds `s.mu` over a request; `remote` is what the IO service has. The writers are the RPC
(`createSIPParticipant`), the goroutine of the call (handler, or dialling and waiting) and
whoever closes an outbound call meanwhile; each walks the updates of its code, with
`Update`, `DeferUpdate`, `ForceFlush` as operators on report, flag and lock. `KeepAlive` is the ticker of both
kinds of call. A request is taken and answered, taken and not answered, or not taken: a
request that failed was taken before its failure or never. `TransferUpdate` runs beside the lock, as in the code.

### Report

One report, what the service knows of it, and whether it is still to be sent. A `Write` makes the report
newer and keeps an end and an error, a `Learn` gives the service the report as it stands. The
lock, the requests under way and the writers of `CallState` are gone; `Channel` is the
mapping, and a request that is sent, refused or lost a stutter.

### InviteAuth

The entries of the list are on a heap, so a handler can still hold one that was pushed out.
Nonces are numbers, in the order in which they are stored. The handler of an INVITE stores a challenge, reads it again for the 407
and sends it in separate steps, so two handlers of one Call-ID can both send the later
challenge, and 407s can overtake each other. The three fields are written in one step: realm and
algorithm never change after the first write, so a half-written challenge compares like the
old one, the new one or none. `alone` records the callers that never had two INVITEs in hand.

### Transfer

A request starts an attempt or joins one (`joined`); attempts walk `at` through lookup, dial
tone, REFER, waiting for the outcome, restoring the output, close and the removal of the
pending entry. A NOTIFY finds the call, takes the read lock, waits for a reader on the
unbuffered channel or gives up after `notifyAckTimeout`. The close of the call needs the
leg's lock. `Bare` are the attempts whose NOTIFY comes without an id, which the code accepts,
and `Confusable` says what such a NOTIFY, or a REFER for another target, can be taken for.

### Room

The SDK's list of participants and its callbacks are apart: `Report` puts something into
the list and leaves a callback to run, callbacks run in any order. `Subscribe` sets the
flag, lists the participants, and goes through them one at a time. `SetSubscribed` may fail
(`refused`) and a subscribed track may get no decoder (`undecoded`): both are logged and not
tried again. LiveKit and its SDK are external:
what they do is what `room.go` expects of them.

### Lifecycle

`Signal` is main's goroutine, `ShutdownHealth`, `BreakShutdown` and `StoreKilled` the three
steps of `Stop`, `RunStep` the loop of `Run` with the drain, the two counts, the ticker and the stop of client
and server. A call is in setup (in no map), up, closing, ended.

## 3. Runs

Bounds are named in the `.cfg` files; deadlock is not checked because calls, transfers and
the process end and then nothing moves (the room's and the registry's participants run out
as well).

| run | shows | expected |
|---|---|---|
| `inbound_call` | safety and liveness of one inbound call over both kinds of transport, with `InboundWaitACK` (ACTIVE then requires the ACK) and without; refinement of `SipLeg` | holds |
| `inbound_closed_cleanly` | divergence 1 | violated |
| `outbound_call` | safety and liveness of one outbound call, dialled by a goroutine or by the RPC; refinement of `SipLeg` | holds |
| `outbound_duration` | divergence 2 | violated |
| `media_timeout` | no early timeout, with arbitrary delays of both goroutines; silence is noticed in bounded time when they keep up | holds |
| `transfer` | two requests to one target, one with NOTIFYs without an id: one attempt at a time, own outcomes, audio restored, everybody answered, the call hung up | holds |
| `transfer_joined` | divergence 3 | violated |
| `registry` | the maps of both sides agree with the calls, with tags shared or not; a BYE ends the call it finds; `Service.Stop` gets through all of them | holds |
| `call_state` | refinement of `Report` (in order, nothing taken back); delivered means delivered, the end reported, failed reports repeated, nobody stuck behind the lock | holds |
| `lifecycle` | a drain spares registered calls; signals end the process | holds |
| `invite_auth` | honest callers admitted, replaced challenges refused | holds |
| `room` | nothing early, everything after Subscribe that did not fail, a SIP participant unblocks, silence after close | holds |

### Why the bounds are enough

- *Calls.* One call is explored whole, with the code's own retry limits (5, and 2 without
  `InboundWaitACK`; 5 INVITEs with credentials). The PIN has one digit: a second digit
  repeats the step of the first. A call without credentials takes the way of one that has
  used up its INVITEs. Calls share nothing but the maps, whose runs have two or three calls:
  a map is confused by two keys or by one key used twice, and the two maps of `Dispatch` by
  one call on each side. There are two tags, which are those of the two callees: two callers
  share one or do not, and a caller has the tag of the callee or has not.
- *Media timeout.* Configured values of 4 and 2 units keep the ratio of the defaults (30 s, 15 s);
  10 units of time hold an enabling, a late ACK, two general timeouts and the firing; two
  packets are one before and one after any of them.
- *Transfers.* Two requests to one target are all the ways to join, follow or overlap an
  attempt; both ask for a dial tone, and the NOTIFY of one carries no id. The properties name
  what two targets can confuse, and the theorems hold for any number of them; the run has one,
  as two make six million states, over which only the invariants were checked.
- *Call state.* One call of each kind, one transfer; the outcomes of requests are free, so any
  number of failures in a row is there.
- *Authentication.* Four INVITEs over a list of two: three Call-IDs push out an entry while a
  fourth INVITE answers it, or one Call-ID has three INVITEs in hand. The theorems have no
  bound.
- *Room.* The call, one participant that is SIP and one that is not, which leave at most
  once. A second call of the node looks to this one like the SIP participant.

## 4. Fairness

A goroutine that can run does, Go's timers fire, and transactions end (the SIP
stack times them out), hence weak fairness of:

- `InboundCall`: the handler, the BYE goroutine, the ringer's sends, the deadline of a call that has one. The
  ringer's stop gets strong fairness, since its `select` between a tick and the stop chooses
  uniformly and so cannot prefer the tick for ever. No fairness of the caller, the room, or the
  media: a caller without a deadline may stay at the PIN prompt (`PinPromptEnds`, section 6).
- `OutboundCall`: dialling, closing, serving a BYE, `Client.Stop`, the RPC, the dialling
  deadline. None of the callee's BYE, of losing the room or of silence.
- `Transfer`: every request that has its answer, every attempt and handler, the hang-up
  timer, close. A request's own cancellation is not fair.
- `Dispatch`: the handler of a BYE goes on, a cancelled call goes to its close (what `inbound_call` shows of one call), close
  goes on, a call that dials is answered, refused or given up (the dialling deadline), the
  requests of a close time out, and `Service.Stop` goes from call to call and from the Client
  to the Server. Calls are not obliged to end by themselves, and no BYE has to come.
- `CallState`: a request to the IO service ends, answered or not (psrpc has a timeout), and
  `dialSIP` ends one way or the other. Who waits for `s.mu` gets strong fairness: a
  `sync.Mutex` starves nobody. `KeepAliveRepairs` alone needs more, the ticker and an IO
  service that is not away for ever, both strongly fair, since the lock is taken and given
  back meanwhile and requests may fail in between.
- `Lifecycle`: the steps of Stop and Run (a ticker drives them), BYE and unregistration.
  `DrainExits` assumes in the property itself that calls end.
- `Room`: LiveKit reports what happened, the SDK runs callbacks, `Subscribe` and `Close` go on.

`InviteAuth` and `MediaTimeout` are checked for safety only: `SilenceIsNoticed` bounds the
time in a safety property.

## 5. Theorems

TLAPS checks all of them, for every value of the constants that satisfies the
module's assumption. Each follows from an inductive invariant, proved one action at
a time.

- **InboundCallProofs**. `IInv` = `TypeOK` and: who owns `c.mu` is the handler and it stands
  at a stage that holds it (`LockInv`); what `leg` says of the stage and of `answered`, `finals`
  and `byeSent` (`LegInv`); what each stage of the handler has done already (`PhaseInv`); what a dropped leg implies about who
  dropped it (`DropInv`); what close has released by each of its stages (`ReleaseInv`);
  what ACTIVE implies (`ActiveInv`). Without them the properties are not inductive: that an
  answered call is hung up, for example, needs that a leg is dropped only by a BYE, a
  CANCEL or close, whatever stage the handler is in. Proved: `TypeCorrect`, `OneFinal`,
  `NoLateRing` and their conjunction `LastIsFinal`, `HungUp`, `ByeInDialog`, `Released`, `ActiveEstablished`, and the action
  properties `DroppedForGood` and `NoCrossingBye`. `DroppedForGood` is what
  `ImplementsSipLeg` asks of a leg that is over; `ByeInDialog` and `NoCrossingBye` are proved
  without a run of their own. `Implements`: the call implements `SipLeg`; the initial state
  maps to its initial state, and each action, with the invariant, to one of its steps or to a
  stutter.
- **OutboundCallProofs**. `IInv` = `TypeOK` and: who holds `c.mu` and the leg's lock, at which
  stage of which goroutine; a call that is not registered is nobody's business yet; what close
  has released by each of its stages; whether the leg was acknowledged or the ACK failed, and
  how often a BYE was sent; what the status of the report says of the recorded error, and who
  recorded it. Proved: `TypeCorrect`, `HungUp`, `ByeOrdered`, `Released`, `ErrorReported`, and
  `Implements` for `SipLeg`. `ErrorReported` speaks of causes, a time-out that `WaitClose` saw
  and a call that could not be dialled, not of the field that `close` reads.
- **MediaProofs** is about two modules, whose names are disjoint so that one module can extend
  both (`Room` therefore has `RoomInit`, `RoomNext`, `RoomSpec`, `FairRoomSpec`).
  *Media timeout*: `IInv` = `TypeOK`, time has started, the values stored are the
  configured or the late-ACK ones, what the loop has seen is not newer than what arrived,
  what a reset implies, what being enabled implies. Proved: `TypeCorrect`, `SilenceOnly`:
  the timeout fires only after a full silence, for any durations and any interleaving.
  `SilenceNoticed` bounds the time in which a silence is noticed, whether the configuration
  sets the timeouts or not: an unset one has its default until a missing ACK stores the
  configured 0. The property excepts that one case, `TurnedOff` (`MissingAckKeepsTimeout`,
  section 6); a loop that panicked for it (`MissingAckOnlyWarns`) does not run. The proof
  needs a second invariant, `PromptInv`: the ticker is not behind the clock, ticks come at
  whole periods after the last reset, and the first tick that finds the initial timeout over
  is the one that a rounding lemma about `%` names.

  *Room*: `RoomInv` says who the SDK of a call may know of (`PresentInv`), that the flag is
  set from the first step of `Subscribe` to the close and nothing comes before it (`FlagInv`),
  and that of each participant `Subscribe` has listed the track and the presence are taken,
  or the SDK does not know them yet, or a callback is to come, or the pass of `Subscribe` is
  (`CoverInv`). Proved, for any calls and participants: `QuietBefore`, that nothing is heard
  before `Subscribe`; `TracksCovered` and `CallersCovered`, the safety halves of `TracksMixed`
  and `SipUnblocks`, that no track (one that could not be subscribed to aside) and no SIP
  participant falls between the flag, the list and the callbacks; and the action property `ClosedStaysClosed`, that a closed room mixes no new
  track and is not entered again, whatever callbacks are still to run.
- **DispatchProofs**, in two halves, both for any tags that INVITEs carry. The Server's maps:
  `IInv` = `TypeOK`, the handler of a BYE has a call, and the three properties, which are
  inductive together once what a shared tag takes away is named: a call is in `byLocal` whatever
  happens, in `activeCalls` unless its tag is shared, and under a shared tag some call is found
  until one of those calls has ended and deleted the entry; entries belong to calls that are
  not over and have the tag of the entry. Proved: `TypeCorrect`, `Registered`, `Live`,
  `Routed`, for any number of calls. `ServerIsKept`, that a step of the composition is a step
  of the Server or leaves it alone, carries them to `Dispatch`. The Client's half rests on
  more: `c.mu` is held exactly while a call connects or closes, so nobody indexes a call that a
  close has taken out, and a BYE the Client acts on is of that call's callee. Proved:
  `ClientTypeCorrect`, `CalleeFound`.
  What `Stop` promises is liveness, and its safety half is proved: a call that `Stop` may have to
  reach, if its tag is its own, is in a map, in the list it works through, cancelled or closed (`Listed` for the
  Server, `OutListed` for the Client). `StopReached`: when `Server.Stop` returns, the contexts
  of all calls it could find are cancelled, a call displaced by a shared tag being the exception; `OutboundStopped`: when the Server is stopped, all
  outbound calls that were registered are closed; `LockReturned`: a lock that a close waits for
  is held by a call that connects or closes, never left behind. `ServerPromises` gathers what
  the inbound calls keep in the composition.
- **TransferProofs**. `OneAttempt` holds for any targets and any NOTIFYs: the pending entry of a
  target and its attempt under way are the same thing. So do two more, from `AnyInv`: `PendingExact`, that
  `pendingTransfers` holds the attempts under way and nothing else, and that a request waits for
  one of its own target; and `SuccessSaid`, that no request succeeds and no call is hung up as transferred without a
  NOTIFY of a success, whichever attempt that was for. `OwnResult`, `SuccessNotified` and
  `AudioRestored` hold for any targets and any NOTIFYs as well (`OutcomeInv`): what is not an attempt's
  own is a NOTIFY without an id, one for another target whose REFER came later, or an output
  that another dial tone had muted already, and nothing else. The point is `Cseq`: `referCseq`
  names the REFER of the NOTIFY in hand, if that has an id, and the one that waits, or a later
  one for another target.
- **CallStateProofs**. `IInv` = `TypeOK`, who holds `s.mu` is the one with a request
  under way, which carries the report as it stands, the IO service has nothing newer, and a
  report that nobody has marked is the one it has. Proved: `TypeCorrect`, `Clean`.
  `EndReported` needs `EndInv` besides: once the goroutine of a call stands behind the update that writes the end,
  the report has it and no status of a call that is up, and a call that was never dialled
  has failed in `newCall`.
  `Implements`: the writers implement `Report`. Every action is one of five things for report
  and service (`StateStep`), each of which maps to a step or a stutter; an answer maps to `Learn` because
  a request carries the report as it stands (`LockInv`). Without a run of their own, and for a
  reader who does not want the mapping: `InOrder`; `NotTakenBack`, that an end or an error
  the IO service was told of is never taken back; and `TransfersReported`, that of a transfer it
  hears at most one start and one outcome, in that order, although they are sent outside the
  lock.
- **InviteAuthProofs**. `IInv` says that each Call-ID has one entry of the list and keeps it as long
  as no more Call-IDs came than the list holds, that an entry has the newest nonce of its
  Call-ID, and what a caller with one INVITE in hand knows. Proved: `TypeCorrect`,
  `StaleRefused`, `HonestAdmitted`, for any number of callers and INVITEs. `ListRecent` has no
  condition on the Call-IDs: the list is the newest entries in the order they were made, at most
  `digestLimit` and one of each Call-ID.
- **LifecycleProofs**. `IInv` = `TypeOK`, a call in a map is up or closing, the drain starts
  only after a signal, calls of the signal's time that are still in a map were there then, a count of zero means that
  they have left it, and what the stop of client and server has closed. The point is
  `Drained`: the two maps are counted one after the other, and no call that was there at the
  signal can come back between the counts. Proved: `TypeCorrect`, `Drain`, `Outbound`, for any sets
  of calls.

Only model-checked: liveness under fairness, which is beyond the provers (`CallEnds` of both
calls, `TransfersEnd`, `StopEnds`, `ServiceStops`, `ProcessExits`, `KeepAliveRepairs`,
`UpdatesReturn`, `ByeEnds`, `TracksMixed`, `SipUnblocks`, `CloseSilences`), and the refutations of section 6. Every
safety property of a run is a theorem.

## 6. Divergences

Where a comment, a log line or a test says otherwise than the code does. The first three
have a violation run of their own and are findings in `PROJECT.json`:

1. `ClosedCleanly` (`InboundCall`): a CANCEL that the ringer takes while Accept sends the 200
   drops the answered leg, and close then sends neither a BYE nor a final response.
2. `DurationIsLimited` (`OutboundCall`): the maximal call duration limits dialling only; an
   established outbound call is never ended by it.
3. `AnsweredMeansTransferred` (`Transfer`): a request that joined a transfer is answered with
   success whatever the outcome.

The rest are stated in the modules, after the properties that hold. TLC refutes each when it is
put into the `.cfg` named here, with the changes named here. The steps concerned are part
of the models: the properties of the runs hold in spite of them.

| definition | `.cfg` and changes | what happens |
|---|---|---|
| `NoAckMeansNoAck` | `InboundCall.cfg` | `noAck` is never cleared: a call whose ACK came late may be closed as no-ack (`inbound.go:843`) |
| `RetryWindow` | `InboundCall.cfg` | the limited retry of the 200 takes 1750 ms, not about 750 (`inbound.go:1568`, comment at 1540) |
| `RingsOrEnds` | `InboundCall.cfg` | a BYE between the registration and the ringing leaves a nil transaction, whose `Cancels` panics (`inbound.go:1461`, comment at 1592) |
| `PinPromptEnds` | `InboundCall.cfg` | the maximal call duration does not cover the PIN prompt (`inbound.go:769`) |
| `MediaFailureCloses` | `OutboundCall.cfg` | without a free RTP port `close` panics on the nil media port (`outbound.go:287`) |
| `ReportReadsRoom` | `OutboundCall.cfg` | a BYE between `ConnectSIP` and the ACTIVE report makes `Dial` read a nil room (`outbound.go:202`) |
| `EstablishedIsCounted` | `OutboundCall.cfg` | the active-calls gauge leaves established outbound calls out (`outbound.go:192`) |
| `SetupIsAllowedFor` | `MediaTimeout.cfg` | a tick that overtakes the reset applies the general timeout to the call's setup (`media_port.go:285`) |
| `MissingAckKeepsTimeout` | `MediaTimeout.cfg`, `ConfInitial = 0`, `ConfGeneral = 0` | a missing ACK disables the media timeout (`inbound.go:842`) |
| `MissingAckOnlyWarns` | `MediaTimeout.cfg`, `ConfGeneral = 0` | a missing ACK resets a ticker to zero, which panics (`media_port.go:271`) |
| `WriterIsThere` | `Transfer.cfg`, `Outbound = TRUE` | a close between the dial tone's check and `SwapOutput` leaves a nil writer, which is closed (`outbound.go:624`) |
| `AllFinished` | `Lifecycle.cfg` | SIGTERM does not finish calls that are in no map when the drain counts (`service.go:193`) |
| `AllStopped` | `Lifecycle.cfg` | SIGINT exits before inbound calls have sent their BYE (`server.go:321`) |
| `CallsDoNotInterfere` | `InviteAuth.cfg`, `Limit = 1` | more Call-IDs than the list holds make the right answer of a call fail (`inbound.go:146`, `service_test.go:277`) |
| `RoomIsThere` | `Room.cfg` | `SendData` uses `r.room` after close set it to nil (`room.go:429`) |

Others are part of the models and have no definition of their own:

- A live outbound call may be reported as ended: the deferred `ensureClosed` of `Dial`
  (`outbound.go:194`) sets DISCONNECTED and `EndedAtNs` when `Dial` returns, the call being up,
  and the keep-alives repeat it. The RPC's "participant joined" (`client.go:186`) may then overwrite
  the status. `EndIsReported` therefore asks only that what has ended is reported.
- An inbound call that fails with an error ends as DISCONNECTED (`inbound.go:282`), an outbound one
  as ERROR (`outbound.go:160`).
- A callee's BYE that comes before the call is in `byRemote` is refused (`outbound.go:573`). The
  call stays up until its media times out.
- `Client.Stop` can close a call that was created and has not begun to dial. It is dialled
  all the same, and a leg that is then answered is not hung up: `EstablishedIsHungUp` names
  the exception (`dialedClosed`).
- A 200 that crosses the CANCEL of a deadline or a shutdown is taken by nobody: the callee gets
  neither an ACK nor a BYE (`outbound.go:916`). `EstablishedIsHungUp` names the exception
  (`crossed`).
- An INVITE with a tag that is taken displaces the entry of the other call, and the first of
  the two to end deletes it: BYEs of the other are answered 481 and `Server.Stop` does not
  reach it (`inbound.go:602`, 1057). An INVITE with the tag of a callee takes the BYE of the
  outbound call. `ServedIsRegistered`, `OwnRequests` and `StopEnds` name the exception
  (`Sharing`); entries that outlive a call, and requests that reach another tag, have none.
- A late NOTIFY without an id ends the next transfer (`protocol.go:360`, comment at
  `outbound.go:673`); a REFER for a second target overwrites `referCseq`, and both attempts read
  one channel (`service.go:280`); a second dial tone takes the muted output for the one to give
  back (`outbound.go:618`). `ReadsOwnResult`, `SuccessIsNotified` and `RoomAudioRestored` name
  these exceptions.
- A track whose subscription or decoder fails stays unheard: nothing tries again (`room.go:173`,
  `room.go:230`). `TracksMixed` names the exception.
- What a property leaves open: `CallEnds` of the inbound call a call at the PIN prompt,
  `StopEnds` and `OutboundEnds` the calls that come after Stop has listed them, `ProcessExits`
  whether BYEs were sent, `EndIsReported` and `ImplementsReport` the status the RPC may write
  over an end, `HonestIsAdmitted` Call-IDs beyond the list.
- A BYE that neither side knows is answered twice with 481 (`client.go:294`, `inbound.go:495`).
- Two INVITEs of one Call-ID that are handled at the same time replace each other's
  challenge: `HonestIsAdmitted` speaks of callers that send one after the other (`alone`).

Outside the models: nothing stops the room's mixer after a failed `Connect` (`outbound.go:370`)
nor, ever, the port's mixer for DTMF audio (`media_port.go:566`), and the overflow warning of
`rtpReadLoop` (`media_port.go:501`) is behind a condition that is never true.

## 7. Not modelled

- *Media pipeline* (codec choice, writers, jitter buffer): `SetConfig`, `WriteAudioTo` and
  `Close` are called by the call's own goroutines, under its lock where there is one, which
  `OutboundCall.media` and `InboundCall.media` stand for. What runs beside them, the read
  loops, carries samples from one buffer to another and decides nothing; what it tells the
  rest, that a packet came, is in `MediaTimeout`.
- *Mixers and DTMF output*: nothing the service does later depends on them. *DTMF input* is
  in the model as PIN digits.
- *Digest computation, URIs, headers, SDP, TLS, configuration, RPC mapping*: translations
  without state.
- *Codecs, embedded audio, `rtpconn`, test clients, deployment*: no control of the service.
- *The session handler's reading of a report* (`outbound.go:312`) while others still update it:
  a race on a message that only the handler looks at.
- *Liveness of the peer, LiveKit and the network*: environment; nothing is assumed of them
  beyond section 4.

## 8. Plan

What would come next:

1. Several `InboundCall`s composed with the registry and the drain, replacing the fairness
   that `Dispatch` and `Lifecycle` take from the single call.
2. The mixers: who starts and who stops them, on both sides of a call.
