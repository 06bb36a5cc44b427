------------------------ MODULE MCTailRadarSchedule ------------------------
(***************************************************************************)
(* Values for the constants of TailRadarSchedule.  The clock has one step   *)
(* before the preflight, one before 14:30, one inside the start window and  *)
(* one after it.  MaxFaults is given per run.                               *)
(***************************************************************************)
EXTENDS TailRadarSchedule

CONSTANTS w1, w2, r1, op1

Faults(crash, error, uncertain, lockLoss, retry, operator) ==
    [k \in FaultKinds |->
        CASE k = "crash" -> crash
          [] k = "error" -> error
          [] k = "uncertain" -> uncertain
          [] k = "lockLoss" -> lockLoss
          [] k = "retry" -> retry
          [] k = "operator" -> operator]

\* Two workers and a retry under the lock.
LockedFaults == Faults(2, 1, 1, 0, 2, 0)
\* Everything that gets round the lock.
BypassFaults == Faults(1, 1, 0, 1, 1, 1)
\* One restart and nothing else.
RestartFaults == Faults(1, 0, 0, 0, 0, 0)

=============================================================================
