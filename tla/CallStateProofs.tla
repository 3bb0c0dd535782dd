---------------------------- MODULE CallStateProofs ----------------------------
(***************************************************************************)
(* Proofs about CallState, for every set of transfers.                     *)
(*                                                                         *)
(* What is delivered, in which order, and that nothing is taken back,      *)
(* follows from what the lock protects: a request under way holds s.mu and *)
(* carries the report as it stands, the report is only clean when the IO   *)
(* service has it, and is never behind the service.  That the end is       *)
(* reported needs besides where each goroutine stands; what is heard of a  *)
(* transfer needs no lock.                                                 *)
(***************************************************************************)
EXTENDS CallState, Integers, SequenceTheorems, TLAPS

LockInv ==
    \/ mu = "free" /\ sending = {}
    \/ mu \in Writers /\ sending = {mu} /\ sent[mu] = info

IInv == TypeOK /\ LockInv /\ CleanIsDelivered /\ remote.version <= info.version

\* Where the goroutine of a call stands when the end of an outbound call is in its report.
Ended == {"returned", "loop", "setError", "final", "end"}

UpStatus == {"none", "incoming", "active"}

\* Nobody takes the end out of a report: "active" is reported before it only, and what the
\* RPC writes later is another status.  A call that was never dialled failed in newCall.
EndInv ==
    /\ IF kind = "inbound"
         THEN /\ pc["rpc"] = "idle" /\ pc["closer"] = "idle"
              /\ pc["call"] \in {"new", "auth", "dispatch", "media", "setup", "loop", "final", "end"}
              /\ pc["call"] = "end" => info.ended /\ info.status \notin UpStatus
         ELSE /\ pc["rpc"] \in {"new", "newFails", "waiting", "report", "end"}
              /\ pc["call"] \in {"idle", "dial", "dialling", "refused", "failing", "connected",
                               "ensure", "panic"} \cup Ended
              /\ pc["rpc"] \in {"new", "newFails"} => pc["call"] = "idle"
              /\ pc["call"] \in Ended => info.ended /\ info.status \notin UpStatus
    /\ pc["call"] = "idle" =>
          /\ pc["rpc"] \in {"newFails", "report", "end"} => failed
          /\ pc["rpc"] = "end" => info.error /\ info.status = "error"

\* What the lock protects.
StateType ==
    /\ mu \in Writers \cup {"free"} /\ sending \subseteq Writers /\ dirty \in BOOLEAN
    /\ info \in Info /\ sent \in [Writers -> Info] /\ remote \in Info

StateInv == StateType /\ LockInv /\ CleanIsDelivered /\ remote.version <= info.version

\* Where a goroutine stands.
PCs == {"idle", "new", "newFails", "waiting", "report", "closing", "auth",
        "dispatch", "media", "setup", "dial", "dialling", "refused",
        "failing", "connected", "ensure", "returned", "loop", "setError",
        "final", "reported", "closed", "end", "panic"}

\* The goroutines and the transfers.
CallType ==
    /\ kind \in {"inbound", "async", "waits"}
    /\ pc \in [Writers -> PCs]
    /\ failed \in BOOLEAN /\ stopped \in BOOLEAN

TransferType ==
    /\ tpc \in [Transfers -> {"none", "starting", "store", "running", "success", "failed", "done"}]
    /\ heard \in [Transfers -> Seq(Reports)]

\* The only four things a step does to the report and to what the service has of it.
Idles == UNCHANGED <<stateVars, remote>>

Updates == \E w \in Writers, i \in Info :
              i.version >= info.version /\ Update(w, i) /\ UNCHANGED remote

Forces == \E w \in Writers : ForceFlush(w) /\ UNCHANGED remote

Defers == \E i \in Info : i.version >= info.version /\ DeferUpdate(i) /\ UNCHANGED remote

Answers == \E w \in Writers, taken, ok \in BOOLEAN : (ok => taken) /\ Answer(w, taken, ok)

StateStep == Idles \/ Updates \/ Forces \/ Defers \/ Answers

\* The parts are the type invariant.
LEMMA Parts == TypeOK <=> StateType /\ CallType /\ TransferType
BY DEF TypeOK, StateType, CallType, PCs, TransferType

\* The three writers.
LEMMA WritersAre == "rpc" \in Writers /\ "call" \in Writers /\ "closer" \in Writers
BY DEF Writers

\* A report with another status is a report, and a newer one.
LEMMA SetIsNewer ==
    ASSUME info \in Info,
           NEW s \in {"none", "incoming", "joined", "active", "disconnected", "error"},
           NEW e \in BOOLEAN, NEW f \in BOOLEAN
    PROVE  Set(s, e, f) \in Info /\ Set(s, e, f).version >= info.version
BY DEF Set, Info

\* So is one that only counts the update.
LEMMA TouchIsNewer ==
    ASSUME info \in Info
    PROVE  Touch \in Info /\ Touch.version >= info.version
<1>1. /\ info.status \in {"none", "incoming", "joined", "active", "disconnected", "error"}
      /\ info.error \in BOOLEAN /\ info.ended \in BOOLEAN
  BY DEF Info
<1> QED BY <1>1, SetIsNewer DEF Touch

\* What a step does to the report keeps the invariant, and never takes the service back.
LEMMA StateStepOK ==
    ASSUME StateInv, StateStep
    PROVE  StateInv' /\ remote'.version >= remote.version
<1> USE DEF StateInv
<1>0. \A i \in Info : i.version \in Nat
  BY DEF Info
<1>i. \A x, y, z \in Nat : (x <= y /\ z >= y) => (x <= z /\ x >= x)
  OBVIOUS
<1>n. info.version \in Nat /\ remote.version \in Nat
  BY <1>0 DEF StateType
<1>w. "free" \notin Writers
  BY DEF Writers
<1>1. CASE Idles
  <2>1. StateInv'
    BY <1>1 DEF Idles, stateVars, StateType, LockInv, CleanIsDelivered
  <2> QED BY <1>1, <2>1, <1>n DEF Idles
<1>2. CASE Updates
  <2>1. PICK w \in Writers, i \in Info : i.version >= info.version /\ Update(w, i) /\ UNCHANGED remote
    BY <1>2 DEF Updates
  <2>2. /\ mu = "free" /\ mu' = w /\ sending' = sending \cup {w}
        /\ sent' = [sent EXCEPT ![w] = i] /\ info' = i /\ dirty' = TRUE /\ remote' = remote
    BY <2>1 DEF Update, Send
  <2>3. sending = {}
    BY <2>2, <1>w DEF LockInv
  <2>4. StateType'
    BY <2>2 DEF StateType
  <2>5. LockInv'
    BY <2>2, <2>3 DEF LockInv, StateType
  <2>6. CleanIsDelivered'
    BY <2>2 DEF CleanIsDelivered
  <2>7. i.version \in Nat
    BY <1>0
  <2>8. remote.version <= i.version /\ remote.version >= remote.version
    BY <2>1, <2>7, <1>n
  <2> QED BY <2>2, <2>4, <2>5, <2>6, <2>8
<1>3. CASE Forces
  <2>1. PICK w \in Writers : ForceFlush(w) /\ UNCHANGED remote
    BY <1>3 DEF Forces
  <2>2. /\ mu = "free" /\ mu' = w /\ sending' = sending \cup {w}
        /\ sent' = [sent EXCEPT ![w] = info] /\ info' = info /\ dirty' = dirty /\ remote' = remote
    BY <2>1 DEF ForceFlush, Send
  <2>3. sending = {}
    BY <2>2, <1>w DEF LockInv
  <2>4. StateType'
    BY <2>2 DEF StateType
  <2>5. LockInv'
    BY <2>2, <2>3 DEF LockInv, StateType
  <2>6. CleanIsDelivered'
    BY <2>2 DEF CleanIsDelivered
  <2> QED BY <2>2, <2>4, <2>5, <2>6, <1>n
<1>4. CASE Defers
  <2>1. PICK i \in Info : i.version >= info.version /\ DeferUpdate(i) /\ UNCHANGED remote
    BY <1>4 DEF Defers
  <2>2. /\ mu = "free" /\ mu' = mu /\ sending' = sending /\ sent' = sent
        /\ info' = i /\ dirty' = TRUE /\ remote' = remote
    BY <2>1 DEF DeferUpdate
  <2>3. StateType' /\ LockInv' /\ CleanIsDelivered'
    BY <2>2, <1>w DEF StateType, LockInv, CleanIsDelivered
  <2>4. i.version \in Nat
    BY <1>0
  <2>5. remote.version <= i.version /\ remote.version >= remote.version
    BY <2>1, <2>4, <1>n
  <2> QED BY <2>2, <2>3, <2>5
<1>5. CASE Answers
  <2>1. PICK w \in Writers, taken \in BOOLEAN, ok \in BOOLEAN : (ok => taken) /\ Answer(w, taken, ok)
    BY <1>5 DEF Answers
  <2>2. /\ w \in sending /\ sending' = sending \ {w} /\ mu' = "free"
        /\ remote' = (IF taken THEN sent[w] ELSE remote)
        /\ dirty' = (IF ok THEN FALSE ELSE dirty) /\ info' = info /\ sent' = sent
    BY <2>1 DEF Answer, DirtyAfter
  <2>3. sending = {w} /\ sent[w] = info
    BY <2>2 DEF LockInv
  <2>4. remote' = info \/ (remote' = remote /\ ~ok)
    BY <2>1, <2>2, <2>3
  <2>5. StateType' /\ LockInv'
    BY <2>2, <2>3, <2>4 DEF StateType, LockInv
  <2>6. CleanIsDelivered'
    BY <2>2, <2>3, <2>4 DEF CleanIsDelivered
  <2>7. remote'.version <= info'.version /\ remote'.version >= remote.version
    BY <2>2, <2>4, <1>n
  <2> QED BY <2>5, <2>6, <2>7
<1> QED BY <1>1, <1>2, <1>3, <1>4, <1>5 DEF StateStep

\* The update of close, by whoever is first.
LEMMA CloseUpdateIs ==
    ASSUME info \in Info, NEW w \in Writers, NEW err \in BOOLEAN,
           CloseUpdate(w, err), UNCHANGED remote
    PROVE  (Idles \/ Updates) /\ stopped' \in {stopped, TRUE}
<1>1. CASE stopped
  BY <1>1 DEF CloseUpdate, Idles
<1>2. CASE ~stopped
  <2>1. stopped' = TRUE
        /\ Update(w, IF err /\ ~info.error THEN Set("error", TRUE, info.ended) ELSE Touch)
    BY <1>2 DEF CloseUpdate
  <2>2. info.ended \in BOOLEAN
    BY DEF Info
  <2>3. Set("error", TRUE, info.ended) \in Info /\ Set("error", TRUE, info.ended).version >= info.version
    BY <2>2, SetIsNewer
  <2>4. Touch \in Info /\ Touch.version >= info.version
    BY TouchIsNewer
  <2> QED BY <2>1, <2>3, <2>4 DEF Updates
<1> QED BY <1>1, <1>2

\* The handler of an inbound call.
LEMMA InboundStep ==
    ASSUME TypeOK, Inbound
    PROVE  StateStep /\ CallType' /\ TransferType'
<1> USE DEF StateType
<1>p. StateType /\ CallType /\ TransferType
  BY Parts
<1>i. /\ info \in Info /\ info.error \in BOOLEAN /\ info.ended \in BOOLEAN
      /\ info.status \in {"none", "incoming", "joined", "active", "disconnected", "error"}
  BY <1>p DEF Info
<1>v. info.version >= info.version
  BY <1>p DEF Info
<1>w. "rpc" \in Writers /\ "call" \in Writers /\ "closer" \in Writers
  BY WritersAre
<1> USE <1>p
<1>1. CASE InboundNew
  <2>1. StateStep
    BY <1>w, <1>1 DEF StateStep, InboundNew, Forces, Idles, Flush, frame, stateVars
  <2>2. CallType' /\ TransferType'
    BY <1>1 DEF InboundNew, CallType, PCs, TransferType, Goto, frame, transferVars, Writers
  <2> QED BY <2>1, <2>2
<1>2. CASE InboundAuth
  <2>1. StateStep
    BY <1>2 DEF StateStep, InboundAuth, Idles, frame, stateVars, transferVars
  <2>2. failed' \in BOOLEAN /\ kind' = kind /\ stopped' \in BOOLEAN
    BY <1>2 DEF InboundAuth, frame, CallType
  <2>3. PICK p, q \in PCs : Goto("call", p, q)
    BY <1>2 DEF InboundAuth, PCs
  <2>4. CallType' /\ TransferType'
    BY <2>2, <2>3, <1>2 DEF InboundAuth, CallType, PCs, TransferType, Goto, frame, transferVars, Writers
  <2> QED BY <2>1, <2>4
<1>3. CASE InboundDispatch
  <2>1. StateStep
    BY SetIsNewer, TouchIsNewer, <1>i, <1>v, <1>w, <1>3 DEF StateStep, InboundDispatch, Updates, frame
  <2>2. CallType' /\ TransferType'
    BY <1>3 DEF InboundDispatch, CallType, PCs, TransferType, Goto, frame, transferVars, Writers
  <2> QED BY <2>1, <2>2
<1>4. CASE InboundMedia
  <2>1. StateStep
    BY SetIsNewer, TouchIsNewer, <1>i, <1>4 DEF StateStep, InboundMedia, Defers, Idles, frame, stateVars
  <2>2. CallType' /\ TransferType'
    BY <1>4 DEF InboundMedia, CallType, PCs, TransferType, Goto, frame, transferVars, Writers
  <2> QED BY <2>1, <2>2
<1>5. CASE InboundFails
  <2>1. StateStep
    BY <1>5 DEF StateStep, InboundFails, Idles, frame, stateVars, transferVars
  <2>2. CallType' /\ TransferType'
    BY <1>5 DEF InboundFails, CallType, PCs, TransferType, Goto, frame, transferVars, Writers
  <2> QED BY <2>1, <2>2
<1>6. CASE InboundActive
  <2>1. StateStep
    BY SetIsNewer, TouchIsNewer, <1>i, <1>v, <1>w, <1>6 DEF StateStep, InboundActive, Updates, frame
  <2>2. CallType' /\ TransferType'
    BY <1>6 DEF InboundActive, CallType, PCs, TransferType, Goto, frame, transferVars, Writers
  <2> QED BY <2>1, <2>2
<1>7. CASE InboundHangup
  <2>1. StateStep
    BY SetIsNewer, TouchIsNewer, <1>i, <1>7 DEF StateStep, InboundHangup, Defers, Idles, frame, stateVars
  <2>2. CallType' /\ TransferType'
    BY <1>7 DEF InboundHangup, CallType, PCs, TransferType, Goto, frame, transferVars, Writers
  <2> QED BY <2>1, <2>2
<1>8. CASE InboundTimeout
  <2>1. StateStep
    BY <1>8 DEF StateStep, InboundTimeout, Idles, frame, stateVars, transferVars
  <2>2. CallType' /\ TransferType'
    BY <1>8 DEF InboundTimeout, CallType, PCs, TransferType, Goto, frame, transferVars, Writers
  <2> QED BY <2>1, <2>2
<1>9. CASE InboundFinal
  <2>1. StateStep
    BY SetIsNewer, TouchIsNewer, <1>i, <1>v, <1>w, <1>9 DEF StateStep, InboundFinal, Updates, frame
  <2>2. CallType' /\ TransferType'
    BY <1>9 DEF InboundFinal, CallType, PCs, TransferType, Goto, frame, transferVars, Writers
  <2> QED BY <2>1, <2>2
<1> QED BY <1>1, <1>2, <1>3, <1>4, <1>5, <1>6, <1>7, <1>8, <1>9 DEF Inbound

\* The RPC, the goroutine that dials, and the one that closes the call.
LEMMA OutboundStep ==
    ASSUME TypeOK, Outbound
    PROVE  StateStep /\ CallType' /\ TransferType'
<1> USE DEF StateType
<1>p. StateType /\ CallType /\ TransferType
  BY Parts
<1>i. /\ info \in Info /\ info.error \in BOOLEAN /\ info.ended \in BOOLEAN
      /\ info.status \in {"none", "incoming", "joined", "active", "disconnected", "error"}
  BY <1>p DEF Info
<1>v. info.version >= info.version
  BY <1>p DEF Info
<1>w. "rpc" \in Writers /\ "call" \in Writers /\ "closer" \in Writers
  BY WritersAre
<1> USE <1>p
<1>1. CASE NewCall
  <2>1. StateStep
    BY <1>1 DEF StateStep, NewCall, Idles, frame, stateVars, transferVars
  <2>2. CallType' /\ TransferType'
    BY <1>1 DEF NewCall, CallType, PCs, TransferType, Goto, frame, transferVars, Writers
  <2> QED BY <2>1, <2>2
<1>2. CASE NewCallFails
  <2>1. StateStep
    BY <1>2 DEF StateStep, NewCallFails, Idles, frame, stateVars, transferVars
  <2>2. CallType' /\ TransferType'
    BY <1>2 DEF NewCallFails, CallType, PCs, TransferType, Goto, frame, transferVars, Writers
  <2> QED BY <2>1, <2>2
<1>3. CASE NewCallCloses
  <2>1. StateStep
    BY CloseUpdateIs, <1>w, <1>i, <1>3 DEF StateStep, NewCallCloses, frame
  <2>2. stopped' \in BOOLEAN
    BY CloseUpdateIs, <1>w, <1>i, <1>3 DEF NewCallCloses, frame, CallType
  <2>3. CallType' /\ TransferType'
    BY <2>2, <1>3 DEF NewCallCloses, CallType, PCs, TransferType, Goto, frame, transferVars, Writers
  <2> QED BY <2>1, <2>3
<1>4. CASE RPCReports
  <2>1. StateStep
    BY SetIsNewer, TouchIsNewer, <1>i, <1>v, <1>w, <1>4 DEF StateStep, RPCReports, Updates, frame
  <2>2. CallType' /\ TransferType'
    BY <1>4 DEF RPCReports, CallType, PCs, TransferType, Goto, frame, transferVars, Writers
  <2> QED BY <2>1, <2>2
<1>5. CASE ConnectSIP
  <2>1. StateStep
    BY <1>5 DEF StateStep, ConnectSIP, Idles, frame, stateVars, transferVars
  <2>2. CallType' /\ TransferType'
    BY <1>5 DEF ConnectSIP, CallType, PCs, TransferType, Goto, frame, transferVars, Writers
  <2> QED BY <2>1, <2>2
<1>6. CASE DialFails
  <2>1. StateStep
    BY SetIsNewer, TouchIsNewer, <1>i, <1>6 DEF StateStep, DialFails, Defers, Idles, frame, stateVars
  <2>2. CallType' /\ TransferType'
    BY <1>6 DEF DialFails, CallType, PCs, TransferType, Goto, frame, transferVars, Writers
  <2> QED BY <2>1, <2>2
<1>7. CASE DialCloses
  <2>1. StateStep
    BY CloseUpdateIs, <1>w, <1>i, <1>7 DEF StateStep, DialCloses, frame
  <2>2. stopped' \in BOOLEAN
    BY CloseUpdateIs, <1>w, <1>i, <1>7 DEF DialCloses, frame, CallType
  <2>3. failed' \in BOOLEAN /\ kind' = kind
    BY <1>7 DEF DialCloses, frame, CallType
  <2>4. PICK p, q \in PCs : Goto("call", p, q)
    BY <1>7 DEF DialCloses, PCs
  <2>5. CallType' /\ TransferType'
    BY <2>2, <2>3, <2>4, <1>7 DEF DialCloses, CallType, PCs, TransferType, Goto, frame, transferVars, Writers
  <2> QED BY <2>1, <2>5
<1>8. CASE DialConnects
  <2>1. StateStep
    BY SetIsNewer, TouchIsNewer, <1>i, <1>8 DEF StateStep, DialConnects, Defers, Idles, frame, stateVars
  <2>2. CallType' /\ TransferType'
    BY <1>8 DEF DialConnects, CallType, PCs, TransferType, Goto, frame, transferVars, Writers
  <2> QED BY <2>1, <2>2
<1>9. CASE ReportActive
  <2>1. StateStep
    BY SetIsNewer, TouchIsNewer, <1>i, <1>v, <1>w, <1>9 DEF StateStep, ReportActive, Updates, frame, Idles, stateVars
  <2>2. CallType' /\ TransferType'
    BY <1>9 DEF ReportActive, CallType, PCs, TransferType, Goto, frame, transferVars, Writers, Idles, stateVars
  <2> QED BY <2>1, <2>2
<1>10. CASE DialEnsures
  <2>1. StateStep
    BY SetIsNewer, TouchIsNewer, <1>i, <1>v, <1>w, <1>10 DEF StateStep, DialEnsures, Updates, frame, Ensure
  <2>2. CallType' /\ TransferType'
    BY <1>10 DEF DialEnsures, CallType, PCs, TransferType, Goto, frame, transferVars, Writers, Ensure
  <2> QED BY <2>1, <2>2
<1>11. CASE DialReturns
  <2>1. StateStep
    BY <1>11 DEF StateStep, DialReturns, Idles, frame, stateVars, transferVars
  <2>2. CallType' /\ TransferType'
    BY <1>11 DEF DialReturns, CallType, PCs, TransferType, Goto, frame, transferVars, Writers
  <2> QED BY <2>1, <2>2
<1>12. CASE WaitClose
  <2>1. StateStep
    BY CloseUpdateIs, <1>w, <1>i, <1>12 DEF StateStep, WaitClose, frame, Idles, stateVars
  <2>2. stopped' \in BOOLEAN
    BY CloseUpdateIs, <1>w, <1>i, <1>12 DEF WaitClose, frame, CallType
  <2>3. failed' \in BOOLEAN /\ kind' = kind
    BY <1>12 DEF WaitClose, frame, CallType
  <2>4. PICK p, q \in PCs : Goto("call", p, q)
    BY <1>12 DEF WaitClose, PCs
  <2>5. CallType' /\ TransferType'
    BY <2>2, <2>3, <2>4, <1>12 DEF WaitClose, CallType, PCs, TransferType, Goto, frame, transferVars, Writers
  <2> QED BY <2>1, <2>5
<1>13. CASE SetErrStatus
  <2>1. StateStep
    BY SetIsNewer, TouchIsNewer, <1>i, <1>v, <1>w, <1>13 DEF StateStep, SetErrStatus, Updates, frame
  <2>2. CallType' /\ TransferType'
    BY <1>13 DEF SetErrStatus, CallType, PCs, TransferType, Goto, frame, transferVars, Writers
  <2> QED BY <2>1, <2>2
<1>14. CASE WaitEnsures
  <2>1. StateStep
    BY SetIsNewer, TouchIsNewer, <1>i, <1>v, <1>w, <1>14 DEF StateStep, WaitEnsures, Updates, frame, Ensure
  <2>2. CallType' /\ TransferType'
    BY <1>14 DEF WaitEnsures, CallType, PCs, TransferType, Goto, frame, transferVars, Writers, Ensure
  <2> QED BY <2>1, <2>2
<1>15. CASE CloserBegins
  <2>1. StateStep
    BY <1>15 DEF StateStep, CloserBegins, Idles, frame, stateVars, transferVars
  <2>2. CallType' /\ TransferType'
    BY <1>15 DEF CloserBegins, CallType, PCs, TransferType, Goto, frame, transferVars, Writers
  <2> QED BY <2>1, <2>2
<1>16. CASE CloserReports
  <2>1. StateStep
    BY SetIsNewer, TouchIsNewer, <1>i, <1>v, <1>w, <1>16 DEF StateStep, CloserReports, Updates, frame
  <2>2. CallType' /\ TransferType'
    BY <1>16 DEF CloserReports, CallType, PCs, TransferType, Goto, frame, transferVars, Writers
  <2> QED BY <2>1, <2>2
<1>17. CASE CloserDone
  <2>1. StateStep
    BY <1>17 DEF StateStep, CloserDone, Idles, frame, stateVars, transferVars
  <2>2. CallType' /\ TransferType'
    BY <1>17 DEF CloserDone, CallType, PCs, TransferType, Goto, frame, transferVars, Writers
  <2> QED BY <2>1, <2>2
<1> QED BY <1>1, <1>2, <1>3, <1>4, <1>5, <1>6, <1>7, <1>8, <1>9, <1>10, <1>11, <1>12, <1>13, <1>14, <1>15, <1>16, <1>17 DEF Outbound

\* The keep-alive and the answers of the IO service.
LEMMA RequestStep ==
    ASSUME TypeOK, KeepAlive \/ \E w \in Writers : Delivered(w) \/ Lost(w)
    PROVE  StateStep /\ CallType' /\ TransferType'
<1>p. StateType /\ CallType /\ TransferType
  BY Parts
<1>1. CASE KeepAlive
  <2>1. StateStep
    BY <1>1, WritersAre DEF StateStep, KeepAlive, Forces, frame
  <2>2. CallType' /\ TransferType'
    BY <1>1, <1>p DEF KeepAlive, CallType, PCs, TransferType, Goto, frame, transferVars, Writers
  <2> QED BY <2>1, <2>2
<1>2. CASE \E w \in Writers : Delivered(w) \/ Lost(w)
  <2>1. PICK w \in Writers, taken \in BOOLEAN, ok \in BOOLEAN : (ok => taken) /\ Answer(w, taken, ok)
    BY <1>2 DEF Delivered, Lost
  <2>2. StateStep
    BY <2>1 DEF StateStep, Answers
  <2>3. CallType' /\ TransferType'
    BY <2>1, <1>p DEF Answer, CallType, TransferType, callVars, transferVars
  <2> QED BY <2>2, <2>3
<1> QED BY <1>1, <1>2

\* A transfer writes neither the report nor what the service knows of the call.
LEMMA TransferStepOK ==
    ASSUME TypeOK, NEW t \in Transfers, Transfer(t)
    PROVE  StateStep /\ CallType' /\ TransferType'
<1>p. StateType /\ CallType /\ TransferType
  BY Parts
<1>s. \A s \in Reports : heard[t] \in Seq(Reports) => Append(heard[t], s) \in Seq(Reports)
  OBVIOUS
<1>h. ASSUME NEW s \in Reports, Hear(t, s)
      PROVE  heard' \in [Transfers -> Seq(Reports)]
  BY <1>p, <1>s, <1>h DEF Hear, TransferType
<1>r. "ongoing" \in Reports /\ "success" \in Reports /\ "failed" \in Reports
  BY DEF Reports
<1>1. CASE StartTransfer(t)
  <2>1. StateStep
    BY <1>1 DEF StateStep, Idles, StartTransfer, stateVars
  <2>2. CallType'
    BY <1>1, <1>p DEF StartTransfer, CallType, callVars
  <2>3. TransferType'
    BY <1>1, <1>p DEF StartTransfer, TransferType, TransferStep
  <2> QED BY <2>1, <2>2, <2>3
<1>2. CASE StartAnswered(t)
  <2>1. StateStep
    BY <1>2 DEF StateStep, Idles, StartAnswered, stateVars
  <2>2. CallType'
    BY <1>2, <1>p DEF StartAnswered, CallType, callVars
  <2>3. heard' \in [Transfers -> Seq(Reports)]
    BY <1>2, <1>h, <1>r DEF StartAnswered
  <2>4. TransferType'
    BY <1>2, <1>p, <2>3 DEF StartAnswered, TransferType, TransferStep
  <2> QED BY <2>1, <2>2, <2>4
<1>3. CASE StoreTransfer(t)
  <2>1. StateStep
    BY <1>3 DEF StateStep, Idles, StoreTransfer, stateVars
  <2>2. CallType'
    BY <1>3, <1>p DEF StoreTransfer, CallType, callVars
  <2>3. TransferType'
    BY <1>3, <1>p DEF StoreTransfer, TransferType, TransferStep
  <2> QED BY <2>1, <2>2, <2>3
<1>4. CASE EndTransfer(t)
  <2>1. StateStep
    BY <1>4 DEF StateStep, Idles, EndTransfer, stateVars
  <2>2. CallType'
    BY <1>4, <1>p DEF EndTransfer, CallType, callVars
  <2>3. TransferType'
    BY <1>4, <1>p DEF EndTransfer, TransferType, TransferStep
  <2> QED BY <2>1, <2>2, <2>3
<1>5. CASE EndAnswered(t)
  <2>1. StateStep
    BY <1>5 DEF StateStep, Idles, EndAnswered, stateVars
  <2>2. CallType'
    BY <1>5, <1>p DEF EndAnswered, CallType, callVars
  <2>3. heard' \in [Transfers -> Seq(Reports)]
    BY <1>5, <1>h, <1>r DEF EndAnswered
  <2>4. TransferType'
    BY <1>5, <1>p, <2>3 DEF EndAnswered, TransferType, TransferStep
  <2> QED BY <2>1, <2>2, <2>4
<1> QED BY <1>1, <1>2, <1>3, <1>4, <1>5 DEF Transfer

\* The invariant is inductive, and no step takes the service back.
LEMMA InvHolds == Init => IInv
<1> SUFFICES ASSUME Init PROVE IInv
  OBVIOUS
<1>1. NoInfo \in Info /\ [NoInfo EXCEPT !.status = "incoming"] \in Info
  BY DEF NoInfo, Info
<1>2. info \in Info /\ info.version = 0 /\ remote = NoInfo /\ remote.version = 0
  BY <1>1 DEF Init, NoInfo
<1>3. StateType
  BY <1>1, <1>2 DEF Init, StateType, Writers
<1>4. CallType
  BY DEF Init, CallType, PCs
<1>5. TransferType
  BY DEF Init, TransferType
<1>6. LockInv /\ CleanIsDelivered
  BY DEF Init, LockInv, CleanIsDelivered
<1> QED BY <1>2, <1>3, <1>4, <1>5, <1>6, Parts DEF IInv

LEMMA StepIs ==
    ASSUME TypeOK, [Next]_vars
    PROVE  StateStep /\ CallType' /\ TransferType'
<1>1. CASE UNCHANGED vars
  BY <1>1, Parts DEF vars, StateStep, Idles, callVars, transferVars, stateVars, CallType, TransferType
<1>2. CASE Next
  BY <1>2, InboundStep, OutboundStep, RequestStep, TransferStepOK DEF Next
<1> QED BY <1>1, <1>2

LEMMA InvKept == IInv /\ [Next]_vars => IInv' /\ remote'.version >= remote.version
<1> SUFFICES ASSUME IInv, [Next]_vars PROVE IInv' /\ remote'.version >= remote.version
  OBVIOUS
<1>1. TypeOK /\ StateInv
  BY Parts DEF IInv, StateInv
<1>2. StateStep /\ CallType' /\ TransferType'
  BY <1>1, StepIs
<1>3. StateInv' /\ remote'.version >= remote.version
  BY <1>1, <1>2, StateStepOK
<1>4. TypeOK'
  BY <1>2, <1>3 DEF StateInv, StateType, CallType, PCs, TransferType, TypeOK
<1> QED BY <1>3, <1>4 DEF IInv, StateInv

\* The state stays well typed, whatever the goroutines of a call do.
THEOREM TypeCorrect == Spec => []TypeOK
<1>1. IInv => TypeOK
  BY DEF IInv
<1> QED BY InvHolds, InvKept, <1>1, PTL DEF Spec

\* A report that is not dirty is what the IO service knows, for every interleaving of the
\* RPC, the call and who closes it, and whatever requests are lost.
THEOREM Clean == Spec => []CleanIsDelivered
<1>1. IInv => CleanIsDelivered
  BY DEF IInv
<1> QED BY InvHolds, InvKept, <1>1, PTL DEF Spec

\* The IO service never goes back to an older report: the requests of the RPC, of the call's
\* goroutine and of the one that closes it leave in the order of their updates.
ReportsInOrder == [][remote'.version >= remote.version]_vars

\* No request that was delayed or lost makes the service go back.
THEOREM InOrder == Spec => ReportsInOrder
<1>1. IInv /\ [Next]_vars => [remote'.version >= remote.version]_vars
  BY InvKept
<1> QED BY InvHolds, InvKept, <1>1, PTL DEF Spec, ReportsInOrder

------------------------------------------------------------------------------
(* The end of a call in its report.                                         *)

LEMMA InitEnd == Init => EndInv
BY DEF Init, EndInv, Ended, UpStatus, Writers

\* What the fields of an updated report are.
LEMMA SetIs ==
    ASSUME NEW s, NEW e, NEW f
    PROVE  Set(s, e, f).status = s /\ Set(s, e, f).error = e /\ Set(s, e, f).ended = f
BY DEF Set

LEMMA TouchIs ==
    /\ Touch.status = info.status /\ Touch.error = info.error /\ Touch.ended = info.ended
BY SetIs DEF Touch

\* close keeps the end, and the status unless it is an error.
LEMMA CloseUpdateKeeps ==
    ASSUME NEW err \in BOOLEAN, CloseUpdate("call", err)
    PROVE  info'.ended = info.ended /\ info'.status \in {info.status, "error"}
<1>1. CASE stopped
  BY <1>1 DEF CloseUpdate, stateVars
<1>2. CASE ~stopped
  <2>1. info' = IF err /\ ~info.error THEN Set("error", TRUE, info.ended) ELSE Touch
    BY <1>2 DEF CloseUpdate, Update, Send
  <2>2. CASE err /\ ~info.error
    BY <2>1, <2>2 DEF Set
  <2>3. CASE ~(err /\ ~info.error)
    BY <2>1, <2>3, TouchIs
  <2> QED BY <2>2, <2>3
<1> QED BY <1>1, <1>2

\* ensureClosed writes the end.
LEMMA EnsureEnds ==
    ASSUME NEW p, NEW q, Ensure(p, q)
    PROVE  info'.ended /\ info'.status \in {"error", "disconnected"}
<1>1. info' = Set(IF info.error THEN "error" ELSE "disconnected", info.error, TRUE)
  BY DEF Ensure, Update, Send
<1> QED BY <1>1 DEF Set

LEMMA EndKept == TypeOK /\ EndInv /\ [Next]_vars => EndInv'
<1> SUFFICES ASSUME TypeOK, EndInv, [Next]_vars PROVE EndInv'
  OBVIOUS
<1>p. CallType
  BY Parts
<1>w. "rpc" \in Writers /\ "call" \in Writers /\ "closer" \in Writers
  BY WritersAre
<1>f. info.error \in BOOLEAN /\ info.ended \in BOOLEAN
  BY Parts DEF StateType, Info
<1> USE <1>p, <1>w DEF EndInv, Ended, UpStatus, CallType, Goto, frame
<1>1. ASSUME UNCHANGED <<pc, callVars, info>> PROVE EndInv'
  BY <1>1 DEF callVars
<1>2. CASE Inbound
  <2> USE SetIs, TouchIs DEF Update, Send, DeferUpdate, stateVars
  <2>1. CASE InboundNew
    BY <2>1 DEF InboundNew, Flush, ForceFlush
  <2>2. CASE InboundAuth
    BY <2>2 DEF InboundAuth
  <2>3. CASE InboundDispatch
    BY <2>3 DEF InboundDispatch
  <2>4. CASE InboundMedia
    BY <2>4 DEF InboundMedia
  <2>5. CASE InboundFails
    BY <2>5 DEF InboundFails
  <2>6. CASE InboundActive
    BY <2>6 DEF InboundActive
  <2>7. CASE InboundHangup
    BY <2>7 DEF InboundHangup
  <2>8. CASE InboundTimeout
    BY <2>8 DEF InboundTimeout
  <2>9. CASE InboundFinal
    <3>1. \/ info' = Set("error", TRUE, TRUE)
          \/ info' = Set("disconnected", info.error, TRUE)
      BY <2>9 DEF InboundFinal
    <3>2. info'.ended /\ info'.status \notin UpStatus
      BY <3>1 DEF Set
    <3> QED BY <2>9, <3>2 DEF InboundFinal
  <2> QED BY <1>2, <2>1, <2>2, <2>3, <2>4, <2>5, <2>6, <2>7, <2>8, <2>9 DEF Inbound
<1>3. CASE Outbound
  <2> USE SetIs, TouchIs DEF Update, Send, DeferUpdate, stateVars
  <2>1. CASE NewCall
    BY <2>1 DEF NewCall
  <2>2. CASE NewCallFails
    BY <2>2 DEF NewCallFails
  <2>3. CASE NewCallCloses
    BY <2>3 DEF NewCallCloses
  <2>4. CASE RPCReports
    <3>1. \/ info' = Set("error", TRUE, info.ended)
          \/ info' = Set("joined", info.error, info.ended) /\ ~(failed /\ pc["call"] = "idle")
      BY <2>4 DEF RPCReports
    <3>2. /\ info'.ended = info.ended /\ info'.status \notin UpStatus
          /\ failed /\ pc["call"] = "idle" => info'.error /\ info'.status = "error"
      BY <3>1 DEF Set
    <3> QED BY <2>4, <3>2 DEF RPCReports
  <2>5. CASE ConnectSIP
    BY <2>5 DEF ConnectSIP
  <2>6. CASE DialFails
    BY <2>6 DEF DialFails
  <2>7. CASE DialCloses
    <3>1. /\ pc["call"] \in {"refused", "failing"} /\ pc' = [pc EXCEPT !["call"] = "ensure"]
          /\ UNCHANGED <<kind, failed>>
      BY <2>7 DEF DialCloses
    <3> QED BY <3>1
  <2>8. CASE DialConnects
    BY <2>8 DEF DialConnects
  <2>9. CASE ReportActive
    BY <2>9 DEF ReportActive
  <2>10. CASE DialEnsures
    <3>1. Ensure("ensure", "returned")
      BY <2>10 DEF DialEnsures
    <3>2. info'.ended /\ info'.status \notin UpStatus
      BY <3>1, EnsureEnds
    <3>3. /\ pc["call"] = "ensure" /\ pc' = [pc EXCEPT !["call"] = "returned"]
          /\ UNCHANGED <<kind, failed>>
      BY <2>10 DEF DialEnsures, Ensure
    <3> QED BY <3>2, <3>3
  <2>11. CASE DialReturns
    BY <2>11 DEF DialReturns
  <2>12. CASE WaitClose
    <3>1. /\ kind # "inbound" /\ pc["call"] = "loop"
          /\ pc' \in {[pc EXCEPT !["call"] = "final"], [pc EXCEPT !["call"] = "setError"]}
          /\ UNCHANGED <<kind, failed>>
      BY <2>12 DEF WaitClose
    <3>2. info' = info \/ \E err \in BOOLEAN : CloseUpdate("call", err)
      BY <2>12 DEF WaitClose
    <3>3. info'.ended = info.ended /\ info'.status \in {info.status, "error"}
      BY <3>2, CloseUpdateKeeps
    <3> QED BY <3>1, <3>3
  <2>13. CASE SetErrStatus
    <3>1. info' = info \/ info' = Set("error", TRUE, info.ended)
      BY <2>13 DEF SetErrStatus
    <3>2. info'.ended = info.ended /\ info'.status \in {info.status, "error"}
      BY <3>1 DEF Set
    <3> QED BY <2>13, <3>2 DEF SetErrStatus
  <2>14. CASE WaitEnsures
    <3>1. Ensure("final", "end")
      BY <2>14 DEF WaitEnsures
    <3>2. info'.ended /\ info'.status \notin UpStatus
      BY <3>1, EnsureEnds
    <3>3. /\ pc["call"] = "final" /\ pc' = [pc EXCEPT !["call"] = "end"]
          /\ UNCHANGED <<kind, failed>> /\ kind # "inbound"
      BY <2>14 DEF WaitEnsures, Ensure
    <3> QED BY <3>2, <3>3
  <2>15. CASE CloserBegins
    BY <2>15 DEF CloserBegins
  <2>16. CASE CloserReports
    BY <2>16 DEF CloserReports
  <2>17. CASE CloserDone
    BY <2>17 DEF CloserDone
  <2> QED BY <1>3, <2>1, <2>2, <2>3, <2>4, <2>5, <2>6, <2>7, <2>8, <2>9, <2>10, <2>11, <2>12,
             <2>13, <2>14, <2>15, <2>16, <2>17 DEF Outbound
<1>4. CASE KeepAlive
  BY <1>4 DEF KeepAlive, ForceFlush, Send
<1>5. ASSUME NEW w \in Writers, Delivered(w) \/ Lost(w) PROVE EndInv'
  BY <1>1, <1>5 DEF Delivered, Lost, Answer
<1>6. ASSUME NEW t \in Transfers, Transfer(t) PROVE EndInv'
  BY <1>1, <1>6 DEF Transfer, StartTransfer, StartAnswered, StoreTransfer, EndTransfer,
                    EndAnswered, stateVars
<1>7. CASE UNCHANGED vars
  BY <1>1, <1>7 DEF vars, stateVars
<1> QED BY <1>2, <1>3, <1>4, <1>5, <1>6, <1>7 DEF Next

\* When the goroutines of a call are gone and the last report got through, the IO service has
\* its end, or the error of a call that was never dialled, whoever wrote last.
THEOREM EndReported == Spec => []EndIsReported
<1>1. Init => EndInv /\ IInv
  BY InitEnd, InvHolds
<1>2. EndInv /\ IInv /\ [Next]_vars => (EndInv /\ IInv)'
  BY EndKept, InvKept DEF IInv
<1>3. EndInv /\ IInv => EndIsReported
  <2> SUFFICES ASSUME EndInv, IInv, CallIsOver, ~dirty
               PROVE  /\ remote.status \notin UpStatus
                      /\ remote.ended \/ (remote.error /\ pc["call"] = "idle")
    BY DEF EndIsReported, UpStatus
  <2>1. remote = info
    BY DEF IInv, CleanIsDelivered
  <2>2. info.status \notin UpStatus /\ (info.ended \/ (info.error /\ pc["call"] = "idle"))
    BY DEF EndInv, CallIsOver, Ended, UpStatus, IInv, TypeOK
  <2> QED BY <2>1, <2>2
<1> QED BY <1>1, <1>2, <1>3, PTL DEF Spec
------------------------------------------------------------------------------
(* What is reported once stays reported.                                    *)

\* An end and an error are for good: no later report of the RPC, of a keep-alive or of a
\* transfer's close takes them back, whichever requests the IO service took and whichever got
\* lost, although a status may be overwritten.
NothingIsTakenBack ==
    [][(remote.ended => remote'.ended) /\ (remote.error => remote'.error)]_vars

Keeps(old, new) == (old.ended => new.ended) /\ (old.error => new.error)

\* An update makes a newer report of the old one.
Renews(old, new) == Keeps(old, new) /\ (new = old \/ new.version > old.version)

\* The report is never behind what the service knows.
KnownInv == Keeps(remote, info)

\* close keeps what is there, whoever runs it.
LEMMA CloseRenews ==
    ASSUME info.version \in Nat, NEW w, NEW err \in BOOLEAN, CloseUpdate(w, err)
    PROVE  Renews(info, info')
<1>1. CASE stopped
  BY <1>1 DEF CloseUpdate, stateVars, Renews, Keeps
<1>2. CASE ~stopped
  <2>1. info' = IF err /\ ~info.error THEN Set("error", TRUE, info.ended) ELSE Touch
    BY <1>2 DEF CloseUpdate, Update, Send
  <2>2. CASE err /\ ~info.error
    BY <2>1, <2>2 DEF Renews, Keeps, Set
  <2>3. CASE ~(err /\ ~info.error)
    BY <2>1, <2>3 DEF Renews, Keeps, Touch, Set
  <2> QED BY <2>2, <2>3
<1> QED BY <1>1, <1>2

\* No step of a goroutine takes an end or an error out of the report.
LEMMA ReportRenews == ASSUME TypeOK, [Next]_vars PROVE Renews(info, info')
<1>n. info.version \in Nat /\ info.version + 1 > info.version
  BY DEF TypeOK, Info
<1>0. ASSUME info' = info PROVE Renews(info, info')
  BY <1>0 DEF Renews, Keeps
<1>s. ASSUME NEW s, NEW e, NEW f, info' = Set(s, e, f), info.error => e, info.ended => f
      PROVE  Renews(info, info')
  BY <1>s, <1>n DEF Renews, Keeps, Set
<1>t. ASSUME info' = Touch PROVE Renews(info, info')
  BY <1>t, <1>n, TouchIs DEF Renews, Keeps, Touch, Set
<1>1. CASE Inbound
  <2> USE DEF Update, Send, DeferUpdate, stateVars, frame
  <2>1. CASE InboundNew \/ InboundAuth \/ InboundFails \/ InboundTimeout
    BY <1>0, <2>1 DEF InboundNew, Flush, ForceFlush, InboundAuth, InboundFails, InboundTimeout
  <2>2. CASE InboundDispatch \/ InboundMedia
    BY <1>t, <2>2 DEF InboundDispatch, InboundMedia
  <2>3. CASE InboundActive
    BY <1>s, <2>3 DEF InboundActive
  <2>4. CASE InboundHangup
    <3>1. PICK abnormal \in BOOLEAN : info' = Set(info.status, info.error \/ abnormal, info.ended)
      BY <2>4 DEF InboundHangup
    <3> QED BY <1>s, <3>1
  <2>5. CASE InboundFinal
    <3>1. \/ info' = Set("error", TRUE, TRUE)
          \/ info' = Set("disconnected", info.error, TRUE)
      BY <2>5 DEF InboundFinal
    <3> QED BY <1>s, <3>1
  <2> QED BY <1>1, <2>1, <2>2, <2>3, <2>4, <2>5 DEF Inbound
<1>2. CASE Outbound
  <2> USE DEF Update, Send, DeferUpdate, stateVars, frame
  <2>1. CASE NewCall \/ NewCallFails \/ ConnectSIP \/ DialReturns \/ CloserBegins \/ CloserDone
    BY <1>0, <2>1 DEF NewCall, NewCallFails, ConnectSIP, DialReturns, CloserBegins, CloserDone
  <2>2. CASE NewCallCloses \/ DialCloses \/ WaitClose
    <3>1. info' = info \/ \E w \in Writers, err \in BOOLEAN : CloseUpdate(w, err)
      BY <2>2, WritersAre DEF NewCallCloses, DialCloses, WaitClose
    <3> QED BY <1>0, <1>n, <3>1, CloseRenews
  <2>3. CASE RPCReports
    <3>1. \/ info' = Set("error", TRUE, info.ended)
          \/ info' = Set("joined", info.error, info.ended)
      BY <2>3 DEF RPCReports
    <3> QED BY <1>s, <3>1
  <2>4. CASE DialFails \/ DialConnects \/ CloserReports
    BY <1>0, <1>t, <2>4 DEF DialFails, DialConnects, CloserReports
  <2>5. CASE ReportActive
    BY <1>0, <1>s, <2>5 DEF ReportActive
  <2>6. CASE DialEnsures \/ WaitEnsures
    <3>1. info' = Set(IF info.error THEN "error" ELSE "disconnected", info.error, TRUE)
      BY <2>6 DEF DialEnsures, WaitEnsures, Ensure
    <3> QED BY <1>s, <3>1
  <2>7. CASE SetErrStatus
    <3>1. info' = info \/ info' = Set("error", TRUE, info.ended)
      BY <2>7 DEF SetErrStatus
    <3> QED BY <1>0, <1>s, <3>1
  <2> QED BY <1>2, <2>1, <2>2, <2>3, <2>4, <2>5, <2>6, <2>7 DEF Outbound
<1>3. CASE KeepAlive
  BY <1>0, <1>3 DEF KeepAlive, ForceFlush, Send
<1>4. ASSUME NEW w \in Writers, Delivered(w) \/ Lost(w) PROVE Renews(info, info')
  BY <1>0, <1>4 DEF Delivered, Lost, Answer
<1>5. ASSUME NEW t \in Transfers, Transfer(t) PROVE Renews(info, info')
  BY <1>0, <1>5 DEF Transfer, StartTransfer, StartAnswered, StoreTransfer, EndTransfer,
                    EndAnswered, stateVars
<1>6. CASE UNCHANGED vars
  BY <1>0, <1>6 DEF vars, stateVars
<1> QED BY <1>1, <1>2, <1>3, <1>4, <1>5, <1>6 DEF Next

\* What the service gets is the report as it stands.
LEMMA ServiceGetsReport ==
    ASSUME IInv, [Next]_vars
    PROVE  remote' = remote \/ (remote' = info /\ info' = info)
<1>1. ASSUME NEW w \in Writers, Delivered(w) \/ Lost(w)
      PROVE  remote' = remote \/ (remote' = info /\ info' = info)
  <2>1. PICK taken \in BOOLEAN, ok \in BOOLEAN : Answer(w, taken, ok)
    BY <1>1 DEF Delivered, Lost
  <2>2. sent[w] = info
    BY <2>1 DEF IInv, LockInv, Answer
  <2> QED BY <2>1, <2>2 DEF Answer
<1>2. CASE Inbound
  BY <1>2 DEF Inbound, InboundNew, InboundAuth, InboundDispatch, InboundMedia, InboundFails,
      InboundActive, InboundHangup, InboundTimeout, InboundFinal, frame
<1>3. CASE Outbound
  BY <1>3 DEF Outbound, NewCall, NewCallFails, NewCallCloses, RPCReports, ConnectSIP, DialFails,
      DialCloses, DialConnects, ReportActive, DialEnsures, DialReturns, WaitClose, SetErrStatus,
      WaitEnsures, Ensure, CloserBegins, CloserReports, CloserDone, frame
<1>4. CASE KeepAlive
  BY <1>4 DEF KeepAlive, frame
<1>5. ASSUME NEW t \in Transfers, Transfer(t) PROVE remote' = remote
  BY <1>5 DEF Transfer, StartTransfer, StartAnswered, StoreTransfer, EndTransfer, EndAnswered
<1>6. CASE UNCHANGED vars
  BY <1>6 DEF vars
<1> QED BY <1>1, <1>2, <1>3, <1>4, <1>5, <1>6 DEF Next

\* The IO service that was told of a call's end or error is never told otherwise.
THEOREM NotTakenBack == Spec => NothingIsTakenBack
<1>1. Init => KnownInv
  BY DEF Init, KnownInv, Keeps, NoInfo
<1>2. ASSUME KnownInv, IInv, [Next]_vars PROVE KnownInv' /\ Keeps(remote, remote')
  <2>1. Keeps(info, info')
    BY <1>2, ReportRenews DEF IInv, Renews
  <2> QED BY <1>2, <2>1, ServiceGetsReport DEF KnownInv, Keeps
<1>3. KnownInv /\ IInv /\ [Next]_vars =>
         [(remote.ended => remote'.ended) /\ (remote.error => remote'.error)]_vars
  BY <1>2 DEF Keeps
<1> QED BY <1>1, <1>2, <1>3, InvHolds, InvKept, PTL DEF Spec, NothingIsTakenBack

------------------------------------------------------------------------------
(* CallState implements Report.                                             *)

LEMMA InitImplements == Init => Channel!Init
BY DEF Init, Channel!Init, NoInfo

\* Every update is a Write, an answer to a request that was taken a Learn; a request that is
\* sent, refused or lost changes nothing yet.
LEMMA StepImplements ==
    ASSUME IInv, [Next]_vars
    PROVE  [Channel!Next]_Channel!vars
<1>1. StateStep /\ Renews(info, info')
  BY StepIs, ReportRenews DEF IInv
<1> USE DEF Channel!Next, Channel!Write, Channel!Learn, Channel!vars
<1>2. CASE Idles
  BY <1>2 DEF Idles, stateVars
<1>3. CASE Updates
  BY <1>1, <1>3 DEF Updates, Update, Send, Renews, Keeps
<1>4. CASE Forces
  BY <1>4 DEF Forces, ForceFlush, Send
<1>5. CASE Defers
  BY <1>1, <1>5 DEF Defers, DeferUpdate, Renews, Keeps
<1>6. CASE Answers
  <2>1. PICK w \in Writers, taken \in BOOLEAN, ok \in BOOLEAN : (ok => taken) /\ Answer(w, taken, ok)
    BY <1>6 DEF Answers
  <2>2. sent[w] = info /\ info' = info
    BY <2>1 DEF Answer, IInv, LockInv
  <2>3. dirty' = IF ok THEN FALSE ELSE dirty
    BY <2>1 DEF Answer, DirtyAfter
  <2>4. CASE taken
    BY <2>1, <2>2, <2>3, <2>4 DEF Answer
  <2>5. CASE ~taken
    BY <2>1, <2>2, <2>3, <2>5 DEF Answer
  <2> QED BY <2>4, <2>5
<1> QED BY <1>1, <1>2, <1>3, <1>4, <1>5, <1>6 DEF StateStep

\* Whoever updates the report of a call, the IO service learns the report as it stands, in
\* the order of the updates, and an end or an error for good.
THEOREM Implements == Spec => ImplementsReport
<1>1. Init => Channel!Init
  BY InitImplements
<1>2. IInv /\ [Next]_vars => [Channel!Next]_Channel!vars
  BY StepImplements
<1> QED BY <1>1, <1>2, InvHolds, InvKept, PTL DEF Spec, ImplementsReport, Channel!Spec

------------------------------------------------------------------------------
(* The reports of a transfer.                                               *)

\* StartTransfer and EndTransfer report outside the lock: still nobody hears of an outcome
\* before the start, of two outcomes, or of a start after the outcome, whatever is lost.
TransfersInOrder ==
    \A t \in Transfers :
        \/ heard[t] \in {<< >>, <<"ongoing">>}
        \/ \E r \in {"success", "failed"} : heard[t] = <<r>> \/ heard[t] = <<"ongoing", r>>

\* Where the transfer stands when the service has heard what.
HeardInv ==
    \A t \in Transfers :
        /\ tpc[t] \in {"none", "starting"} => heard[t] = << >>
        /\ tpc[t] \in {"store", "running", "success", "failed"} =>
              heard[t] = << >> \/ heard[t] = <<"ongoing">>

\* Only an answer to a transfer's request adds something.
LEMMA HeardStep ==
    ASSUME TypeOK, HeardInv, TransfersInOrder, NEW t \in Transfers, Transfer(t)
    PROVE  HeardInv' /\ TransfersInOrder'
<1>1. /\ tpc \in [Transfers -> {"none", "starting", "store", "running", "success", "failed", "done"}]
      /\ heard \in [Transfers -> Seq(Reports)]
  BY DEF TypeOK
<1>2. CASE UNCHANGED heard /\ \/ TransferStep(t, "none", "starting")
                              \/ TransferStep(t, "store", "running")
                              \/ TransferStep(t, "running", "success")
                              \/ TransferStep(t, "running", "failed")
  BY <1>1, <1>2 DEF HeardInv, TransfersInOrder, TransferStep
<1>3. CASE StartAnswered(t)
  <2>1. heard[t] = << >> /\ tpc' = [tpc EXCEPT ![t] = "store"]
    BY <1>3 DEF StartAnswered, TransferStep, HeardInv
  <2>2. heard' = heard \/ heard' = [heard EXCEPT ![t] = <<"ongoing">>]
    BY <1>1, <1>3, <2>1 DEF StartAnswered, Hear
  <2> QED BY <1>1, <2>1, <2>2 DEF HeardInv, TransfersInOrder
<1>4. CASE EndAnswered(t)
  <2>1. PICK r \in {"success", "failed"} : TransferStep(t, r, "done") /\ Hear(t, r)
    BY <1>4 DEF EndAnswered
  <2>2. heard[t] = << >> \/ heard[t] = <<"ongoing">>
    BY <2>1 DEF TransferStep, HeardInv
  <2>3. \/ heard' = heard
        \/ heard' = [heard EXCEPT ![t] = <<r>>]
        \/ heard' = [heard EXCEPT ![t] = <<"ongoing", r>>]
    <3>1. heard' = heard \/ heard' = [heard EXCEPT ![t] = Append(heard[t], r)]
      BY <2>1 DEF Hear
    <3>2. Append(<< >>, r) = <<r>>
      OBVIOUS
    <3>3. Append(<<"ongoing">>, r) = <<"ongoing", r>>
      <4> DEFINE a == Append(<<"ongoing">>, r)
                 b == <<"ongoing", r>>
      <4>1. r \in Reports /\ <<"ongoing">> \in Seq(Reports) /\ Len(<<"ongoing">>) = 1
        BY DEF Reports
      <4>2. a \in Seq(Reports) /\ Len(a) = 2 /\ a[1] = "ongoing" /\ a[2] = r
        BY <4>1, AppendProperties
      <4>3. b \in Seq(Reports) /\ Len(b) = 2 /\ b[1] = "ongoing" /\ b[2] = r
        BY <4>1 DEF Reports
      <4> HIDE DEF a, b
      <4>4. \A i \in 1 .. 2 : a[i] = b[i]
        BY <4>2, <4>3
      <4>5. a = b
        BY <4>2, <4>3, <4>4, SeqEqual
      <4> QED BY <4>5 DEF a, b
    <3> QED BY <2>2, <3>1, <3>2, <3>3
  <2>4. tpc' = [tpc EXCEPT ![t] = "done"]
    BY <2>1 DEF TransferStep
  <2>5. HeardInv'
    BY <1>1, <2>3, <2>4 DEF HeardInv
  <2>6. TransfersInOrder'
    BY <1>1, <2>3 DEF TransfersInOrder
  <2> QED BY <2>5, <2>6
<1> QED BY <1>2, <1>3, <1>4 DEF Transfer, StartTransfer, StoreTransfer, EndTransfer

\* A transfer's start and its one outcome are heard in their order, if at all.
THEOREM TransfersReported == Spec => []TransfersInOrder
<1>1. Init => HeardInv /\ TransfersInOrder
  BY DEF Init, HeardInv, TransfersInOrder
<1>2. ASSUME TypeOK, HeardInv, TransfersInOrder, [Next]_vars
      PROVE  HeardInv' /\ TransfersInOrder'
  <2>1. CASE UNCHANGED transferVars
    BY <1>2, <2>1 DEF HeardInv, TransfersInOrder, transferVars
  <2>2. ASSUME NEW t \in Transfers, Transfer(t) PROVE HeardInv' /\ TransfersInOrder'
    BY <1>2, <2>2, HeardStep
  <2>3. CASE Inbound
    BY <2>1, <2>3 DEF Inbound, InboundNew, InboundAuth, InboundDispatch, InboundMedia,
        InboundFails, InboundActive, InboundHangup, InboundTimeout, InboundFinal, frame
  <2>4. CASE Outbound
    BY <2>1, <2>4 DEF Outbound, NewCall, NewCallFails, NewCallCloses, RPCReports, ConnectSIP,
        DialFails, DialCloses, DialConnects, ReportActive, DialEnsures, DialReturns, WaitClose,
        SetErrStatus, WaitEnsures, Ensure, CloserBegins, CloserReports, CloserDone, frame
  <2>5. CASE KeepAlive
    BY <2>1, <2>5 DEF KeepAlive, frame
  <2>6. ASSUME NEW w \in Writers, Delivered(w) \/ Lost(w) PROVE UNCHANGED transferVars
    BY <2>6 DEF Delivered, Lost, Answer
  <2>7. CASE UNCHANGED vars
    BY <2>1, <2>7 DEF vars
  <2> QED BY <1>2, <2>1, <2>2, <2>3, <2>4, <2>5, <2>6, <2>7 DEF Next
<1> QED BY <1>1, <1>2, TypeCorrect, PTL DEF Spec
===============================================================================
