------------------------ MODULE MCTailRadarWorkflow ------------------------
(***************************************************************************)
(* Values for the constants of TailRadarWorkflow: more candidates than       *)
(* threads.                                                                  *)
(***************************************************************************)
EXTENDS TailRadarWorkflow, TLC

CONSTANTS c1, c2

Faults(crash, error, provider, uncertain) ==
    [k \in FaultKinds |->
        CASE k = "crash" -> crash
          [] k = "error" -> error
          [] k = "provider" -> provider
          [] k = "uncertain" -> uncertain]

\* Calls one after another.
TurnFaults == Faults(2, 1, 2, 1)
\* Calls that overlap.
OverlapFaults == Faults(1, 1, 1, 1)
CallerSymmetry == Permutations({c1, c2})
\* One restart and nothing else.
RestartFaults == Faults(1, 0, 0, 0)

=============================================================================
