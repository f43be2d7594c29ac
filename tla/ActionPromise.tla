---------------------------- MODULE ActionPromise ----------------------------
(***************************************************************************)
(* What a ManagedClusterAction promises to who created it: it is done only *)
(* after its effect; a failure may be reported and be followed by success, *)
(* but success is final; and it is collected only after a report.  The     *)
(* effect itself may happen more than once, and after the report.          *)
(***************************************************************************)
VARIABLES status, performed

vars == <<status, performed>>

Init == status = "pending" /\ performed = FALSE

Perform == performed' = TRUE /\ UNCHANGED status

ReportFailure ==
    /\ status = "pending"
    /\ status' = "failed"
    /\ UNCHANGED performed

ReportSuccess ==
    /\ status \in {"pending", "failed"}
    /\ performed
    /\ status' = "done"
    /\ UNCHANGED performed

Collect ==
    /\ status \in {"failed", "done"}
    /\ status' = "collected"
    /\ UNCHANGED performed

Next == Perform \/ ReportFailure \/ ReportSuccess \/ Collect

Spec == Init /\ [][Next]_vars
=============================================================================
