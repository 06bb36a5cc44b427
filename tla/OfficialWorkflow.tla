-------------------------- MODULE OfficialWorkflow --------------------------
(***************************************************************************)
(* What one official Tail Radar workflow row promises while its             *)
(* orchestrators take turns: it is claimed once; a partial or failed one    *)
(* may be reopened and a succeeded one never is; it ends well only with its  *)
(* official snapshot linked, and that link is never taken back.             *)
(***************************************************************************)
VARIABLES
    lifecycle,   \* "none", "running", "failed", "partial_success" or "succeeded"
    linked       \* is the official snapshot linked?

Init == lifecycle = "none" /\ linked = FALSE

Claim  == lifecycle = "none" /\ lifecycle' = "running" /\ UNCHANGED linked
Reopen == lifecycle \in {"failed", "partial_success"} /\ lifecycle' = "running" /\ UNCHANGED linked
Link   == lifecycle = "running" /\ linked' = TRUE /\ UNCHANGED lifecycle
End    == /\ lifecycle = "running" /\ linked
          /\ lifecycle' \in {"succeeded", "partial_success"}
          /\ UNCHANGED linked
\* A retry that cannot even reopen a partial workflow leaves it failed.
Fail   == /\ lifecycle \in {"running", "partial_success"}
          /\ lifecycle' = "failed"
          /\ UNCHANGED linked

Next == Claim \/ Reopen \/ Link \/ End \/ Fail

Spec == Init /\ [][Next]_<<lifecycle, linked>>

=============================================================================
