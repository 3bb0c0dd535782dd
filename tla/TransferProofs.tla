--------------------------- MODULE TransferProofs ---------------------------
(***************************************************************************)
(* Theorems about Transfer, for any number of requests and targets, calls   *)
(* of both directions, and peers whose NOTIFYs carry an id, do not, or both. *)
(* What targets and missing ids can mix up is named by Confusable, in the   *)
(* properties; nothing is assumed of the peer or of the requests.           *)
(***************************************************************************)
EXTENDS Transfer, TLAPS

\* The entry of a target is its attempt's until it is deleted, and only a new request starts
\* one.
Pending ==
    \A r \in Reqs :
        /\ Active(r) \/ at[r] = "delete" => pending[target[r]] = r
        /\ rpc[r] = "idle" => at[r] = "none"
        /\ rpc[r] # "idle" => joined[r] \in Reqs
        /\ at[r] = "restore" => saved[r] # "unset"

DedupInv == TypeOK /\ Pending

\* referCseq names the REFER of the NOTIFY that a handler holds, if that NOTIFY has an id: Refer
\* needs the leg's lock.  It names the REFER that waits for its outcome, or a later one for
\* another target: for one target a second is not made.
Cseq ==
    \A r \in Reqs :
        /\ notify[r] = "held" /\ r \notin Bare => referCseq = r
        /\ at[r] \in {"sent", "await"} =>
              referCseq \in Reqs /\ (referCseq # r => target[referCseq] # target[r])

\* The peer said that r succeeded, as far as the handlers can tell.
Success(r) ==
    \E n \in Reqs : notify[n] = "over" /\ outcome[n] = "ok" /\ (n = r \/ Confusable(n, r))

\* How far an attempt is, its NOTIFY and its result.
Progress ==
    \A r \in Reqs :
        /\ at[r] \in {"none", "lookup", "tone", "refer"} => notify[r] = "none"
        /\ at[r] \in {"none", "lookup", "tone", "refer", "sent", "await"} => result[r] = "none"
        /\ at[r] \in {"back", "restore", "close", "delete", "end"} => result[r] # "none"
        /\ notify[r] \notin {"none", "due"} => outcome[r] # "none"
        /\ result[r] = "ok" => Success(r)
        /\ rpc[r] = "ok" /\ joined[r] = r => result[r] = "ok" /\ at[r] \in {"delete", "end"}

Hangup == hangupDue => \E r \in Reqs : result[r] = "ok"

\* Who has the output, if the room does not and no attempt began while it was muted.
Muted ==
    /\ call = "up" /\ output = "none" /\ ~hangupDue /\ (\A r \in Reqs : saved[r] # "none") =>
           \E r \in Reqs : /\ at[r] \in {"refer", "sent", "await", "back", "restore"}
                           /\ saved[r] = "room"
    /\ \A r \in Reqs : at[r] \in {"none", "lookup", "tone"} => saved[r] = "unset"

OutcomeInv == DedupInv /\ Cseq /\ Progress /\ Hangup /\ Muted

------------------------------------------------------------------------------
LEMMA InitDedup == Init => DedupInv
<1> SUFFICES ASSUME Init PROVE DedupInv OBVIOUS
<1>1. TypeOK BY TransferAssumption DEF Init, TypeOK, ReqOrNone
<1>2. Pending BY DEF Init, Pending, Active
<1> QED BY <1>1, <1>2 DEF DedupInv

\* One case per action.
LEMMA StepDedup == DedupInv /\ [Next]_vars => DedupInv'
<1> SUFFICES ASSUME DedupInv, [Next]_vars PROVE DedupInv' OBVIOUS
<1> USE TransferAssumption DEF DedupInv, Goto, Return, rpcVars, callVars, notifyVars, ReqOrNone
<1>1. ASSUME NEW r \in Reqs, Request(r) PROVE DedupInv'
  <2>1. TypeOK' BY <1>1 DEF Request, TypeOK, Pending
  <2>2. Pending' BY <1>1 DEF Request, TypeOK, Pending, Active
  <2> QED BY <2>1, <2>2
<1>2. ASSUME NEW r \in Reqs, Answer(r) PROVE DedupInv'
  <2>1. TypeOK' BY <1>2 DEF Answer, TypeOK, Pending
  <2>2. Pending' BY <1>2 DEF Answer, TypeOK, Pending, Active
  <2> QED BY <2>1, <2>2
<1>3. ASSUME NEW r \in Reqs, Cancel(r) PROVE DedupInv'
  <2>1. TypeOK' BY <1>3 DEF Cancel, TypeOK, Pending
  <2>2. Pending' BY <1>3 DEF Cancel, TypeOK, Pending, Active
  <2> QED BY <2>1, <2>2
<1>4. ASSUME NEW r \in Reqs, Lookup(r) PROVE DedupInv'
  <2>1. TypeOK' BY <1>4 DEF Lookup, TypeOK, Pending
  <2>2. Pending' BY <1>4 DEF Lookup, TypeOK, Pending, Active
  <2> QED BY <2>1, <2>2
<1>5. ASSUME NEW r \in Reqs, Tone(r) PROVE DedupInv'
  <2>1. TypeOK' BY <1>5 DEF Tone, TypeOK, Pending
  <2>2. Pending' BY <1>5 DEF Tone, TypeOK, Pending, Active
  <2> QED BY <2>1, <2>2
<1>6. ASSUME NEW r \in Reqs, Refer(r) PROVE DedupInv'
  <2>1. TypeOK' BY <1>6 DEF Refer, TypeOK, Pending
  <2>2. Pending' BY <1>6 DEF Refer, TypeOK, Pending, Active
  <2> QED BY <2>1, <2>2
<1>7. ASSUME NEW r \in Reqs, ReferAnswered(r) PROVE DedupInv'
  <2>1. TypeOK' BY <1>7 DEF ReferAnswered, TypeOK, Pending
  <2>2. Pending' BY <1>7 DEF ReferAnswered, TypeOK, Pending, Active
  <2> QED BY <2>1, <2>2
<1>8. ASSUME NEW r \in Reqs, Expire(r) PROVE DedupInv'
  <2>1. TypeOK' BY <1>8 DEF Expire, TypeOK, Pending
  <2>2. Pending' BY <1>8 DEF Expire, TypeOK, Pending, Active
  <2> QED BY <2>1, <2>2
<1>9. ASSUME NEW r \in Reqs, Back(r) PROVE DedupInv'
  <2>p. panic' \in BOOLEAN /\ hangupDue' \in BOOLEAN
    BY <1>9 DEF Back, TypeOK
  <2>a. /\ at' \in [Reqs -> {"none", "lookup", "tone", "refer", "sent", "await", "back", "restore",
                             "close", "delete", "end"}]
        /\ UNCHANGED <<rpcVars, pending, result, saved, notifyVars, output, callVars>>
    BY <1>9 DEF Back, TypeOK
  <2>1. TypeOK' BY <2>p, <2>a DEF TypeOK
  <2>2. Pending' BY <1>9 DEF Back, TypeOK, Pending, Active
  <2> QED BY <2>1, <2>2
<1>10. ASSUME NEW r \in Reqs, Restore(r) PROVE DedupInv'
  <2>1. TypeOK' BY <1>10 DEF Restore, TypeOK, Pending
  <2>2. Pending' BY <1>10 DEF Restore, TypeOK, Pending, Active
  <2> QED BY <2>1, <2>2
<1>11. ASSUME NEW r \in Reqs, CloseDone(r) PROVE DedupInv'
  <2>1. TypeOK' BY <1>11 DEF CloseDone, TypeOK, Pending
  <2>2. Pending' BY <1>11 DEF CloseDone, TypeOK, Pending, Active
  <2> QED BY <2>1, <2>2
<1>12. ASSUME NEW r \in Reqs, DeletePending(r) PROVE DedupInv'
  <2>1. TypeOK' BY <1>12 DEF DeletePending, TypeOK, Pending
  <2>2. Pending' BY <1>12 DEF DeletePending, TypeOK, Pending, Active
  <2> QED BY <2>1, <2>2
<1>13. ASSUME NEW r \in Reqs, PeerNotifies(r) PROVE DedupInv'
  <2>1. TypeOK' BY <1>13 DEF PeerNotifies, TypeOK, Pending
  <2>2. Pending' BY <1>13 DEF PeerNotifies, TypeOK, Pending, Active
  <2> QED BY <2>1, <2>2
<1>14. ASSUME NEW r \in Reqs, FindCall(r) PROVE DedupInv'
  <2>1. TypeOK' BY <1>14 DEF FindCall, TypeOK, Pending
  <2>2. Pending' BY <1>14 DEF FindCall, TypeOK, Pending, Active
  <2> QED BY <2>1, <2>2
<1>15. ASSUME NEW r \in Reqs, Take(r) PROVE DedupInv'
  <2>1. TypeOK' BY <1>15 DEF Take, TypeOK, Pending
  <2>2. Pending' BY <1>15 DEF Take, TypeOK, Pending, Active
  <2> QED BY <2>1, <2>2
<1>16. ASSUME NEW r \in Reqs, GiveUp(r) PROVE DedupInv'
  <2>1. TypeOK' BY <1>16 DEF GiveUp, TypeOK, Pending
  <2>2. Pending' BY <1>16 DEF GiveUp, TypeOK, Pending, Active
  <2> QED BY <2>1, <2>2
<1>17. ASSUME NEW m \in Reqs, NEW r \in Reqs, HandOver(m, r) PROVE DedupInv'
  <2>1. TypeOK' BY <1>17 DEF HandOver, TypeOK
  <2>2. Pending' BY <1>17 DEF HandOver, TypeOK, Pending, Active
  <2> QED BY <2>1, <2>2
<1>18. CASE ByeDropsLeg
  BY <1>18 DEF ByeDropsLeg, TypeOK, Pending, Active
<1>20. CASE BeginClose
  BY <1>20 DEF BeginClose, TypeOK, Pending, Active
<1>21. CASE TransferHangup
  BY <1>21 DEF TransferHangup, BeginClose, TypeOK, Pending, Active
<1>22. CASE CloseStep
  BY <1>22 DEF CloseStep, TypeOK, Pending, Active
<1>23. CASE UNCHANGED vars
  BY <1>23 DEF vars, TypeOK, Pending, Active
<1> QED BY <1>1, <1>2, <1>3, <1>4, <1>5, <1>6, <1>7, <1>8, <1>9, <1>10, <1>11, <1>12, <1>13,
          <1>14, <1>15, <1>16, <1>17, <1>18, <1>20, <1>21, <1>22, <1>23
    DEF Next, Attempt, Handler

LEMMA Dedup == Spec => []DedupInv
BY InitDedup, StepDedup, PTL DEF Spec

\* The state of the requests, the attempts and the NOTIFYs stays well typed.
THEOREM TypeCorrect == Spec => []TypeOK
<1>1. DedupInv => TypeOK BY DEF DedupInv
<1> QED BY Dedup, <1>1, PTL

\* No second attempt for a target is under way, whatever requests are repeated or cancelled.
THEOREM OneAttempt == Spec => []OneAttemptPerTarget
<1>1. DedupInv => OneAttemptPerTarget
  BY DEF DedupInv, Pending, OneAttemptPerTarget
<1> QED BY Dedup, <1>1, PTL

------------------------------------------------------------------------------
(* What holds with several targets and without ids too.                     *)

\* pendingTransfers holds exactly the attempts under way, each under its own target, and a
\* request waits for an attempt that was made, for the target it asked for: a stale entry
\* would have every later request wait for nothing.
PendingIsExact ==
    /\ \A t \in Targets, r \in Reqs :
          pending[t] = r <=> target[r] = t /\ (Active(r) \/ at[r] = "delete")
    /\ \A r \in Reqs : rpc[r] # "idle" =>
          at[joined[r]] # "none" /\ target[joined[r]] = target[r]

\* Whoever took the outcome, it is the peer's: no transfer succeeds, and no call is hung up as
\* transferred, without a NOTIFY of a success in the dialog.
SuccessIsSaid ==
    (hangupDue \/ \E r \in Reqs : rpc[r] = "ok" /\ joined[r] = r) =>
        \E n \in Reqs : outcome[n] = "ok" /\ notify[n] = "over"

Said == \E n \in Reqs : outcome[n] = "ok" /\ notify[n] = "over"

\* How far an attempt and its NOTIFY are; which attempt the NOTIFY went to is open.
Told ==
    /\ \A r \in Reqs :
          /\ at[r] \in {"none", "lookup", "tone", "refer"} => notify[r] = "none"
          /\ notify[r] \in {"none", "due"} <=> outcome[r] = "none"
          /\ at[r] \in {"back", "restore", "close", "delete", "end"} => result[r] # "none"
          /\ result[r] = "ok" => Said
          /\ rpc[r] = "ok" /\ joined[r] = r => result[r] = "ok" /\ at[r] \in {"delete", "end"}
    /\ hangupDue => Said

AnyInv == DedupInv /\ PendingIsExact /\ Told

LEMMA InitAny == Init => AnyInv
<1> SUFFICES ASSUME Init PROVE AnyInv OBVIOUS
<1>1. PendingIsExact BY TransferAssumption DEF Init, PendingIsExact, Active
<1>2. Told BY DEF Init, Told
<1> QED BY <1>1, <1>2, InitDedup DEF AnyInv

\* One case per action.
LEMMA StepAny == AnyInv /\ [Next]_vars => AnyInv'
<1> SUFFICES ASSUME AnyInv, [Next]_vars PROVE AnyInv' OBVIOUS
<1>d. DedupInv' BY StepDedup DEF AnyInv
<1> USE TransferAssumption, <1>d
    DEF AnyInv, DedupInv, TypeOK, Goto, Return, rpcVars, callVars, notifyVars, ReqOrNone
<1>1. ASSUME NEW r \in Reqs, Request(r) PROVE AnyInv'
  <2>1. PendingIsExact' BY <1>1 DEF Request, PendingIsExact, Pending, Active
  <2>2. Told' BY <1>1 DEF Request, Told, Said, Pending
  <2> QED BY <2>1, <2>2
<1>2. ASSUME NEW r \in Reqs, Answer(r) PROVE AnyInv'
  <2>1. PendingIsExact' BY <1>2 DEF Answer, PendingIsExact, Pending, Active
  <2>2. Told' BY <1>2 DEF Answer, Told, Said, Pending
  <2> QED BY <2>1, <2>2
<1>3. ASSUME NEW r \in Reqs, Cancel(r) PROVE AnyInv'
  <2>1. PendingIsExact' BY <1>3 DEF Cancel, PendingIsExact, Pending, Active
  <2>2. Told' BY <1>3 DEF Cancel, Told, Said, Pending
  <2> QED BY <2>1, <2>2
<1>4. ASSUME NEW r \in Reqs, Lookup(r) PROVE AnyInv'
  <2>1. PendingIsExact' BY <1>4 DEF Lookup, PendingIsExact, Pending, Active
  <2>2. Told' BY <1>4 DEF Lookup, Told, Said, Pending
  <2> QED BY <2>1, <2>2
<1>5. ASSUME NEW r \in Reqs, Tone(r) PROVE AnyInv'
  <2>1. PendingIsExact' BY <1>5 DEF Tone, PendingIsExact, Pending, Active
  <2>2. Told' BY <1>5 DEF Tone, Told, Said, Pending
  <2> QED BY <2>1, <2>2
<1>6. ASSUME NEW r \in Reqs, Refer(r) PROVE AnyInv'
  <2>1. PendingIsExact' BY <1>6 DEF Refer, PendingIsExact, Pending, Active
  <2>2. Told' BY <1>6 DEF Refer, Told, Said, Pending
  <2> QED BY <2>1, <2>2
<1>7. ASSUME NEW r \in Reqs, ReferAnswered(r) PROVE AnyInv'
  <2>1. PendingIsExact' BY <1>7 DEF ReferAnswered, PendingIsExact, Pending, Active
  <2>2. Told' BY <1>7 DEF ReferAnswered, Told, Said, Pending
  <2> QED BY <2>1, <2>2
<1>8. ASSUME NEW r \in Reqs, Expire(r) PROVE AnyInv'
  <2>1. PendingIsExact' BY <1>8 DEF Expire, PendingIsExact, Pending, Active
  <2>2. Told' BY <1>8 DEF Expire, Told, Said, Pending
  <2> QED BY <2>1, <2>2
<1>9. ASSUME NEW r \in Reqs, Back(r) PROVE AnyInv'
  <2>1. PendingIsExact' BY <1>9 DEF Back, PendingIsExact, Pending, Active
  <2>2. Told' BY <1>9 DEF Back, Told, Said, Pending
  <2> QED BY <2>1, <2>2
<1>10. ASSUME NEW r \in Reqs, Restore(r) PROVE AnyInv'
  <2>1. PendingIsExact' BY <1>10 DEF Restore, PendingIsExact, Pending, Active
  <2>2. Told' BY <1>10 DEF Restore, Told, Said, Pending
  <2> QED BY <2>1, <2>2
<1>11. ASSUME NEW r \in Reqs, CloseDone(r) PROVE AnyInv'
  <2>1. PendingIsExact' BY <1>11 DEF CloseDone, PendingIsExact, Pending, Active
  <2>2. Told' BY <1>11 DEF CloseDone, Told, Said, Pending
  <2> QED BY <2>1, <2>2
<1>12. ASSUME NEW r \in Reqs, DeletePending(r) PROVE AnyInv'
  <2>1. PendingIsExact' BY <1>12 DEF DeletePending, PendingIsExact, Pending, Active
  <2>2. Told' BY <1>12 DEF DeletePending, Told, Said, Pending
  <2> QED BY <2>1, <2>2
<1>13. ASSUME NEW r \in Reqs, PeerNotifies(r) PROVE AnyInv'
  <2>1. PendingIsExact' BY <1>13 DEF PeerNotifies, PendingIsExact, Pending, Active
  <2>2. Told' BY <1>13 DEF PeerNotifies, Told, Said, Pending
  <2> QED BY <2>1, <2>2
<1>14. ASSUME NEW r \in Reqs, FindCall(r) PROVE AnyInv'
  <2>1. PendingIsExact' BY <1>14 DEF FindCall, PendingIsExact, Pending, Active
  <2>2. Told' BY <1>14 DEF FindCall, Told, Said, Pending
  <2> QED BY <2>1, <2>2
<1>15. ASSUME NEW r \in Reqs, Take(r) PROVE AnyInv'
  <2>1. PendingIsExact' BY <1>15 DEF Take, PendingIsExact, Pending, Active
  <2>2. Told' BY <1>15 DEF Take, Told, Said, Pending
  <2> QED BY <2>1, <2>2
<1>16. ASSUME NEW r \in Reqs, GiveUp(r) PROVE AnyInv'
  <2>1. PendingIsExact' BY <1>16 DEF GiveUp, PendingIsExact, Pending, Active
  <2>2. Told' BY <1>16 DEF GiveUp, Told, Said, Pending
  <2> QED BY <2>1, <2>2
<1>17. ASSUME NEW m \in Reqs, NEW r \in Reqs, HandOver(m, r) PROVE AnyInv'
  <2>1. PendingIsExact' BY <1>17 DEF HandOver, PendingIsExact, Pending, Active
  <2>2. Told' BY <1>17 DEF HandOver, Told, Said, Pending
  <2> QED BY <2>1, <2>2
<1>18. CASE ByeDropsLeg
  BY <1>18 DEF ByeDropsLeg, PendingIsExact, Active, Told, Said
<1>20. CASE BeginClose
  BY <1>20 DEF BeginClose, PendingIsExact, Active, Told, Said
<1>21. CASE TransferHangup
  BY <1>21 DEF TransferHangup, BeginClose, PendingIsExact, Active, Told, Said
<1>22. CASE CloseStep
  BY <1>22 DEF CloseStep, PendingIsExact, Active, Told, Said
<1>23. CASE UNCHANGED vars
  BY <1>23 DEF vars, PendingIsExact, Active, Told, Said
<1> QED BY <1>1, <1>2, <1>3, <1>4, <1>5, <1>6, <1>7, <1>8, <1>9, <1>10, <1>11, <1>12, <1>13,
          <1>14, <1>15, <1>16, <1>17, <1>18, <1>20, <1>21, <1>22, <1>23
    DEF Next, Attempt, Handler

LEMMA Anywhere == Spec => []AnyInv
BY InitAny, StepAny, PTL DEF Spec

\* The map of pending transfers holds the attempts under way and no other, and every request
\* waits for one that was made.
THEOREM PendingExact == Spec => []PendingIsExact
<1>1. AnyInv => PendingIsExact BY DEF AnyInv
<1> QED BY Anywhere, <1>1, PTL

\* No transfer succeeds that the peer has not called a success in some NOTIFY.
THEOREM SuccessSaid == Spec => []SuccessIsSaid
<1>1. AnyInv => SuccessIsSaid BY DEF AnyInv, Told, Said, SuccessIsSaid
<1> QED BY Anywhere, <1>1, PTL

------------------------------------------------------------------------------
LEMMA InitOutcome == Init => OutcomeInv
<1> SUFFICES ASSUME Init PROVE OutcomeInv OBVIOUS
<1>1. Cseq /\ Progress BY DEF Init, Cseq, Progress
<1>2. Hangup /\ Muted BY DEF Init, Hangup, Muted
<1> QED BY <1>1, <1>2, InitDedup DEF OutcomeInv

\* The outcome that is handed over is the receiver's own, or confusable with it.
LEMMA OwnOutcome ==
    ASSUME OutcomeInv, NEW m \in Reqs, NEW r \in Reqs, HandOver(m, r)
    PROVE  m = r \/ m \in Bare \/ (referCseq = m /\ target[m] # target[r])
BY DEF OutcomeInv, Cseq, HandOver

\* A NOTIFY that is over stays what it was, and nobody changes the target of a request.
LEMMA NotifyKept ==
    ASSUME OutcomeInv, [Next]_vars, NEW n \in Reqs
    PROVE  /\ notify[n] = "over" => notify'[n] = "over" /\ outcome'[n] = outcome[n]
           /\ target' = target
<1> USE DEF OutcomeInv, DedupInv, TypeOK, Goto, Return, rpcVars, callVars, notifyVars
<1>1. ASSUME NEW r \in Reqs, Request(r) \/ Answer(r) \/ Cancel(r)
      PROVE  UNCHANGED <<notify, outcome, target>>
  BY <1>1 DEF Request, Answer, Cancel
<1>2. ASSUME NEW r \in Reqs,
             Lookup(r) \/ Tone(r) \/ ReferAnswered(r) \/ Expire(r) \/ Back(r) \/ Restore(r)
             \/ CloseDone(r) \/ DeletePending(r)
      PROVE  UNCHANGED <<notify, outcome, target>>
  BY <1>2 DEF Lookup, Tone, ReferAnswered, Expire, Back, Restore, CloseDone, DeletePending
<1>3. ASSUME NEW r \in Reqs, Refer(r), notify[r] = "none"
      PROVE  /\ notify[n] = "over" => notify'[n] = "over" /\ outcome'[n] = outcome[n]
             /\ target' = target
  BY <1>3 DEF Refer
<1>4. ASSUME NEW r \in Reqs, PeerNotifies(r) \/ FindCall(r) \/ Take(r) \/ GiveUp(r)
      PROVE  /\ notify[n] = "over" => notify'[n] = "over" /\ outcome'[n] = outcome[n]
             /\ target' = target
  BY <1>4 DEF PeerNotifies, FindCall, Take, GiveUp
<1>5. ASSUME NEW m \in Reqs, NEW r \in Reqs, HandOver(m, r)
      PROVE  /\ notify[n] = "over" => notify'[n] = "over" /\ outcome'[n] = outcome[n]
             /\ target' = target
  BY <1>5 DEF HandOver
<1>6. ByeDropsLeg \/ BeginClose \/ TransferHangup \/ CloseStep \/ UNCHANGED vars
          => UNCHANGED <<notify, outcome, target>>
  BY DEF ByeDropsLeg, BeginClose, TransferHangup, CloseStep, vars
<1> QED
  BY <1>1, <1>2, <1>3, <1>4, <1>5, <1>6 DEF Next, Attempt, Handler, OutcomeInv, Progress, Refer

\* What the handlers took for a success stays one.
LEMMA SuccessKept ==
    ASSUME OutcomeInv, [Next]_vars, NEW r \in Reqs, Success(r) PROVE Success(r)'
<1>1. PICK n \in Reqs : notify[n] = "over" /\ outcome[n] = "ok" /\ (n = r \/ Confusable(n, r))
  BY DEF Success
<1>2. notify'[n] = "over" /\ outcome'[n] = "ok" /\ target' = target
  BY <1>1, NotifyKept DEF OutcomeInv, DedupInv, TypeOK
<1>3. n = r \/ Confusable(n, r)'
  BY <1>1, <1>2 DEF Confusable
<1> QED BY <1>2, <1>3 DEF Success

LEMMA StepOutcome ==
    ASSUME OutcomeInv, [Next]_vars PROVE OutcomeInv'
<1>d. DedupInv'
  BY StepDedup DEF OutcomeInv
<1>k. \A r \in Reqs : Success(r) => Success(r)'
  BY SuccessKept
<1> USE TransferAssumption, <1>d, <1>k
    DEF OutcomeInv, Goto, Return, rpcVars, callVars, notifyVars, ReqOrNone, Stopped, LegFree
<1>1. ASSUME NEW r \in Reqs, Request(r) PROVE OutcomeInv'
  <2>1. Cseq' BY <1>1 DEF Request, Cseq, TypeOK, DedupInv
  <2>2. Progress' BY <1>1 DEF Request, Progress, Cseq, DedupInv, Pending, TypeOK
  <2>3. Hangup' BY <1>1 DEF Request, Hangup, Progress, TypeOK, DedupInv
  <2>4. Muted' BY <1>1 DEF Request, Muted, Progress, Pending, TypeOK, DedupInv
  <2> QED BY <2>1, <2>2, <2>3, <2>4
<1>2. ASSUME NEW r \in Reqs, Answer(r) PROVE OutcomeInv'
  <2>1. Cseq' BY <1>2 DEF Answer, Cseq, TypeOK, DedupInv
  <2>2. Progress' BY <1>2 DEF Answer, Progress, Cseq, DedupInv, Pending, TypeOK
  <2>3. Hangup' BY <1>2 DEF Answer, Hangup, Progress, TypeOK, DedupInv
  <2>4. Muted' BY <1>2 DEF Answer, Muted, Progress, Pending, TypeOK, DedupInv
  <2> QED BY <2>1, <2>2, <2>3, <2>4
<1>3. ASSUME NEW r \in Reqs, Cancel(r) PROVE OutcomeInv'
  <2>1. Cseq' BY <1>3 DEF Cancel, Cseq, TypeOK, DedupInv
  <2>2. Progress' BY <1>3 DEF Cancel, Progress, Cseq, DedupInv, Pending, TypeOK
  <2>3. Hangup' BY <1>3 DEF Cancel, Hangup, Progress, TypeOK, DedupInv
  <2>4. Muted' BY <1>3 DEF Cancel, Muted, Progress, Pending, TypeOK, DedupInv
  <2> QED BY <2>1, <2>2, <2>3, <2>4
<1>4. ASSUME NEW r \in Reqs, Lookup(r) PROVE OutcomeInv'
  <2>1. Cseq' BY <1>4 DEF Lookup, Cseq, TypeOK, DedupInv
  <2>2. Progress' BY <1>4 DEF Lookup, Progress, Cseq, DedupInv, Pending, TypeOK
  <2>3. Hangup' BY <1>4 DEF Lookup, Hangup, Progress, TypeOK, DedupInv
  <2>4. Muted' BY <1>4 DEF Lookup, Muted, Progress, Pending, TypeOK, DedupInv
  <2> QED BY <2>1, <2>2, <2>3, <2>4
<1>5. ASSUME NEW r \in Reqs, Tone(r) PROVE OutcomeInv'
  <2>1. Cseq' BY <1>5 DEF Tone, Cseq, TypeOK, DedupInv
  <2>2. Progress' BY <1>5 DEF Tone, Progress, Cseq, DedupInv, Pending, TypeOK
  <2>3. Hangup' BY <1>5 DEF Tone, Hangup, Progress, TypeOK, DedupInv
  <2>4. Muted' BY <1>5 DEF Tone, Muted, Progress, Pending, TypeOK, DedupInv
  <2> QED BY <2>1, <2>2, <2>3, <2>4
<1>6. ASSUME NEW r \in Reqs, Refer(r) PROVE OutcomeInv'
  <2>s. \A q \in Reqs : at[q] \in {"sent", "await"} => target[q] # target[r] /\ q # r
    BY <1>6 DEF Refer, DedupInv, Pending, Active, TypeOK
  <2>1. Cseq' BY <1>6, <2>s DEF Refer, Cseq, TypeOK, DedupInv
  <2>2. Progress' BY <1>6 DEF Refer, Progress, Cseq, DedupInv, Pending, TypeOK
  <2>3. Hangup' BY <1>6 DEF Refer, Hangup, Progress, TypeOK, DedupInv
  <2>4. Muted' BY <1>6 DEF Refer, Muted, Progress, Pending, TypeOK, DedupInv
  <2> QED BY <2>1, <2>2, <2>3, <2>4
<1>7. ASSUME NEW r \in Reqs, ReferAnswered(r) PROVE OutcomeInv'
  <2>1. Cseq' BY <1>7 DEF ReferAnswered, Cseq, TypeOK, DedupInv
  <2>2. Progress' BY <1>7 DEF ReferAnswered, Progress, Cseq, DedupInv, Pending, TypeOK
  <2>3. Hangup' BY <1>7 DEF ReferAnswered, Hangup, Progress, TypeOK, DedupInv
  <2>4. Muted' BY <1>7 DEF ReferAnswered, Muted, Progress, Pending, TypeOK, DedupInv
  <2> QED BY <2>1, <2>2, <2>3, <2>4
<1>8. ASSUME NEW r \in Reqs, Expire(r) PROVE OutcomeInv'
  <2>1. Cseq' BY <1>8 DEF Expire, Cseq, TypeOK, DedupInv
  <2>2. Progress' BY <1>8 DEF Expire, Progress, Cseq, DedupInv, Pending, TypeOK
  <2>3. Hangup' BY <1>8 DEF Expire, Hangup, Progress, TypeOK, DedupInv
  <2>4. Muted' BY <1>8 DEF Expire, Muted, Progress, Pending, TypeOK, DedupInv
  <2> QED BY <2>1, <2>2, <2>3, <2>4
<1>9. ASSUME NEW r \in Reqs, Back(r) PROVE OutcomeInv'
  <2>1. Cseq' BY <1>9 DEF Back, Cseq, TypeOK, DedupInv
  <2>2. Progress' BY <1>9 DEF Back, Progress, Cseq, DedupInv, Pending, TypeOK
  <2>3. Hangup' BY <1>9 DEF Back, Hangup, Progress, TypeOK, DedupInv
  <2>4. Muted'
    <3>1. CASE saved[r] = "unset"
      BY <1>9, <3>1 DEF Back, Active, Muted, DedupInv, TypeOK
    <3>2. CASE saved[r] # "unset" /\ result[r] = "err" /\ ~Stopped
      <4>1. at' = [at EXCEPT ![r] = "restore"] /\ (hangupDue' <=> hangupDue)
        BY <1>9, <3>2 DEF Back
      <4>2. UNCHANGED <<call, output, saved>>
        BY <1>9 DEF Back
      <4> QED BY <3>2, <4>1, <4>2 DEF Muted, DedupInv, TypeOK
    <3>3. CASE saved[r] # "unset" /\ (result[r] = "ok" \/ Stopped)
      <4>1. at' = [at EXCEPT ![r] = "close"] /\ (hangupDue' \/ call # "up")
        BY <1>9, <3>3 DEF Back
      <4>2. UNCHANGED <<call, output, saved>> /\ (hangupDue => hangupDue')
        BY <1>9 DEF Back
      <4> QED BY <3>3, <4>1, <4>2 DEF Muted, DedupInv, TypeOK
    <3> QED BY <1>9, <3>1, <3>2, <3>3 DEF Back
  <2> QED BY <2>1, <2>2, <2>3, <2>4
<1>10. ASSUME NEW r \in Reqs, Restore(r) PROVE OutcomeInv'
  <2>1. Cseq' BY <1>10 DEF Restore, Cseq, TypeOK, DedupInv
  <2>2. Progress' BY <1>10 DEF Restore, Progress, Cseq, DedupInv, Pending, TypeOK
  <2>3. Hangup' BY <1>10 DEF Restore, Hangup, Progress, TypeOK, DedupInv
  <2>4. Muted' BY <1>10 DEF Restore, Muted, Progress, Pending, TypeOK, DedupInv
  <2> QED BY <2>1, <2>2, <2>3, <2>4
<1>11. ASSUME NEW r \in Reqs, CloseDone(r) PROVE OutcomeInv'
  <2>1. Cseq' BY <1>11 DEF CloseDone, Cseq, TypeOK, DedupInv
  <2>2. Progress' BY <1>11 DEF CloseDone, Progress, Cseq, DedupInv, Pending, TypeOK
  <2>3. Hangup' BY <1>11 DEF CloseDone, Hangup, Progress, TypeOK, DedupInv
  <2>4. Muted' BY <1>11 DEF CloseDone, Muted, Progress, Pending, TypeOK, DedupInv
  <2> QED BY <2>1, <2>2, <2>3, <2>4
<1>12. ASSUME NEW r \in Reqs, DeletePending(r) PROVE OutcomeInv'
  <2>1. Cseq' BY <1>12 DEF DeletePending, Cseq, TypeOK, DedupInv
  <2>2. Progress' BY <1>12 DEF DeletePending, Progress, Cseq, DedupInv, Pending, TypeOK
  <2>3. Hangup' BY <1>12 DEF DeletePending, Hangup, Progress, TypeOK, DedupInv
  <2>4. Muted' BY <1>12 DEF DeletePending, Muted, Progress, Pending, TypeOK, DedupInv
  <2> QED BY <2>1, <2>2, <2>3, <2>4
<1>13. ASSUME NEW r \in Reqs, PeerNotifies(r) PROVE OutcomeInv'
  <2>1. Cseq' BY <1>13 DEF PeerNotifies, Cseq, TypeOK, DedupInv
  <2>2. Progress' BY <1>13 DEF PeerNotifies, Progress, Cseq, DedupInv, Pending, TypeOK
  <2>3. Hangup' BY <1>13 DEF PeerNotifies, Hangup, Progress, TypeOK, DedupInv
  <2>4. Muted' BY <1>13 DEF PeerNotifies, Muted, Progress, Pending, TypeOK, DedupInv
  <2> QED BY <2>1, <2>2, <2>3, <2>4
<1>14. ASSUME NEW r \in Reqs, FindCall(r) PROVE OutcomeInv'
  <2>1. Cseq' BY <1>14 DEF FindCall, Cseq, TypeOK, DedupInv
  <2>2. Progress' BY <1>14 DEF FindCall, Progress, Cseq, DedupInv, Pending, TypeOK
  <2>3. Hangup' BY <1>14 DEF FindCall, Hangup, Progress, TypeOK, DedupInv
  <2>4. Muted' BY <1>14 DEF FindCall, Muted, Progress, Pending, TypeOK, DedupInv
  <2> QED BY <2>1, <2>2, <2>3, <2>4
<1>15. ASSUME NEW r \in Reqs, Take(r) PROVE OutcomeInv'
  <2>1. Cseq' BY <1>15 DEF Take, Cseq, TypeOK, DedupInv
  <2>2. Progress' BY <1>15 DEF Take, Progress, Cseq, DedupInv, Pending, TypeOK
  <2>3. Hangup' BY <1>15 DEF Take, Hangup, Progress, TypeOK, DedupInv
  <2>4. Muted' BY <1>15 DEF Take, Muted, Progress, Pending, TypeOK, DedupInv
  <2> QED BY <2>1, <2>2, <2>3, <2>4
<1>16. ASSUME NEW r \in Reqs, GiveUp(r) PROVE OutcomeInv'
  <2>1. Cseq' BY <1>16 DEF GiveUp, Cseq, TypeOK, DedupInv
  <2>2. Progress' BY <1>16 DEF GiveUp, Progress, Cseq, DedupInv, Pending, TypeOK
  <2>3. Hangup' BY <1>16 DEF GiveUp, Hangup, Progress, TypeOK, DedupInv
  <2>4. Muted' BY <1>16 DEF GiveUp, Muted, Progress, Pending, TypeOK, DedupInv
  <2> QED BY <2>1, <2>2, <2>3, <2>4
<1>17. ASSUME NEW m \in Reqs, NEW r \in Reqs, HandOver(m, r) PROVE OutcomeInv'
  <2>o. m = r \/ Confusable(m, r)
    BY <1>17, OwnOutcome DEF Confusable
  <2>s. outcome[m] = "ok" => Success(r)'
    BY <1>17, <2>o DEF HandOver, Success, Confusable, TypeOK, DedupInv
  <2>1. Cseq' BY <1>17 DEF HandOver, Cseq, TypeOK, DedupInv
  <2>2. Progress' BY <1>17, <2>s DEF HandOver, Progress, Cseq, DedupInv, Pending, TypeOK
  <2>3. Hangup' BY <1>17 DEF HandOver, Hangup, Progress, TypeOK, DedupInv
  <2>4. Muted' BY <1>17 DEF HandOver, Muted, Progress, Pending, TypeOK, DedupInv
  <2> QED BY <2>1, <2>2, <2>3, <2>4
<1>18. CASE ByeDropsLeg
  BY <1>18 DEF ByeDropsLeg, Cseq, Progress, Hangup, Muted
<1>20. CASE BeginClose
  BY <1>20 DEF BeginClose, Cseq, Progress, Hangup, Muted
<1>21. CASE TransferHangup
  BY <1>21 DEF TransferHangup, BeginClose, Cseq, Progress, Hangup, Muted
<1>22. CASE CloseStep
  BY <1>22 DEF CloseStep, Cseq, Progress, Hangup, Muted
<1>23. CASE UNCHANGED vars
  BY <1>23 DEF vars, Cseq, Progress, Hangup, Muted
<1> QED BY <1>1, <1>2, <1>3, <1>4, <1>5, <1>6, <1>7, <1>8, <1>9, <1>10, <1>11, <1>12, <1>13,
          <1>14, <1>15, <1>16, <1>17, <1>18, <1>20, <1>21, <1>22, <1>23
    DEF Next, Attempt, Handler

LEMMA Outcome == Spec => []OutcomeInv
<1>1. OutcomeInv /\ [Next]_vars => OutcomeInv' BY StepOutcome
<1> QED BY InitOutcome, <1>1, PTL DEF Spec

\* An attempt takes the outcome of its own REFER only.
THEOREM OwnResult == Spec => ReadsOwnResult
<1> DEFINE Own == \A n, r \in Reqs :
                (notify[n] = "held" /\ notify'[n] = "over" /\ at[r] = "await" /\ at'[r] = "back")
                    => n = r \/ n \in Bare \/ (referCseq = n /\ target[n] # target[r])
<1>1. ASSUME OutcomeInv, [Next]_vars PROVE [Own]_vars
  BY <1>1 DEF OutcomeInv, Cseq
<1> HIDE DEF Own
<1>2. [][Own]_vars => ReadsOwnResult
  BY DEF Own, ReadsOwnResult
<1> QED BY Outcome, <1>1, <1>2, PTL DEF Spec

\* A request that made an attempt and answered without error had a NOTIFY of success, and so
\* has a call that is hung up as transferred.
THEOREM SuccessNotified == Spec => []SuccessIsNotified
<1>1. OutcomeInv => SuccessIsNotified
  BY DEF OutcomeInv, Progress, Hangup, SuccessIsNotified, Success
<1> QED BY Outcome, <1>1, PTL

\* The room is heard again once no attempt that muted it is under way.
THEOREM AudioRestored == Spec => []RoomAudioRestored
<1>1. OutcomeInv => RoomAudioRestored
  BY DEF OutcomeInv, DedupInv, TypeOK, Muted, Active, RoomAudioRestored
<1> QED BY Outcome, <1>1, PTL
=============================================================================
