-------------------------------- MODULE Report --------------------------------
(***************************************************************************)
(* What CallState promises the IO service, whoever updates the report of a *)
(* call: the service learns the report as it stands, so never an older one *)
(* after a newer one; only an update it has learned of is not sent again;  *)
(* and no update takes back the end of the call or its error.              *)
(*                                                                         *)
(* CallState implements this specification.                                *)
(***************************************************************************)
EXTENDS Naturals

VARIABLES
    report,  \* the report, with its number
    known,   \* what the service knows
    unsent   \* whether the report is still to be sent

vars == <<report, known, unsent>>

Init ==
    /\ report.version = 0 /\ known.version = 0
    /\ ~known.ended /\ ~known.error
    /\ unsent = TRUE

\* Somebody updates the report.
Write ==
    /\ report' = report \/ report'.version > report.version
    /\ report.ended => report'.ended
    /\ report.error => report'.error
    /\ unsent' = TRUE
    /\ UNCHANGED known

\* The service learns it; whether it could say so is open.
Learn ==
    /\ known' = report
    /\ unsent' \in {unsent, FALSE}
    /\ UNCHANGED report

Next == Write \/ Learn

Spec == Init /\ [][Next]_vars

===============================================================================
