------------------------------- MODULE SipLeg -------------------------------
(***************************************************************************)
(* What a call promises to its peer and to the session handler, whichever  *)
(* side dialled: the dialog is answered at most once, it never comes back  *)
(* once it is over, a BYE is sent only while it is up and at most once,    *)
(* and OnSessionEnd is called once, never while the dialog is up.          *)
(*                                                                         *)
(* InboundCall and OutboundCall implement this specification.              *)
(***************************************************************************)

VARIABLES
    phase,   \* "setup", "up" (a 200 was sent or taken) or "over"
    hungUp,  \* a BYE was sent from this side
    ended    \* OnSessionEnd was called

vars == <<phase, hungUp, ended>>

Init ==
    /\ phase = "setup"
    /\ hungUp = FALSE
    /\ ended = FALSE

Answer ==
    /\ phase = "setup"
    /\ phase' = "up"
    /\ UNCHANGED <<hungUp, ended>>

HangUp ==
    /\ phase = "up"
    /\ phase' = "over"
    /\ hungUp' = TRUE
    /\ UNCHANGED ended

\* The peer's BYE or CANCEL, a refusal, a failure of the transaction.
Leave ==
    /\ phase \in {"setup", "up"}
    /\ phase' = "over"
    /\ UNCHANGED <<hungUp, ended>>

EndSession ==
    /\ phase # "up"
    /\ ~ended
    /\ ended' = TRUE
    /\ UNCHANGED <<phase, hungUp>>

Next == Answer \/ HangUp \/ Leave \/ EndSession

Spec == Init /\ [][Next]_vars

=============================================================================
