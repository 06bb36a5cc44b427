-------------------------- MODULE OfficialSnapshot --------------------------
(***************************************************************************)
(* What the snapshot engine promises of the one official run of a logical   *)
(* key (docs/adr/0007): it is claimed once, it ends once, an end is final,  *)
(* and the artifact of a run that succeeded is there and stays there.       *)
(* While the run is unfinished its file may come and go.                    *)
(***************************************************************************)
VARIABLES
    slot,      \* "none", "running", "succeeded" or "failed"
    artifact   \* is the run's Parquet file present?

Init == slot = "none" /\ artifact = FALSE

Claim   == slot = "none" /\ slot' = "running" /\ UNCHANGED artifact
Write   == slot = "running" /\ artifact' \in BOOLEAN /\ UNCHANGED slot
Capture == slot = "running" /\ slot' = "succeeded" /\ artifact' = TRUE
Fail    == slot = "running" /\ slot' = "failed" /\ UNCHANGED artifact

Next == Claim \/ Write \/ Capture \/ Fail

Spec == Init /\ [][Next]_<<slot, artifact>>

=============================================================================
