------------------------ MODULE MCSnapshotExecution ------------------------
(***************************************************************************)
(* Two callers and two rows: a race for the official run, replays of it, a   *)
(* forced rerun before, during and after it.                                *)
(***************************************************************************)
EXTENDS SnapshotExecution, TLC

CONSTANTS c1, c2, x1, x2

\* One event of each kind.
AnyFaults == [k \in FaultKinds |-> 1]

=============================================================================
