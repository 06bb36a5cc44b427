----------------------- MODULE TailRadarSchedule_proofs -----------------------
(***************************************************************************)
(* Proofs for TailRadarSchedule, for any number of workers, retries and     *)
(* commands, any deadlines and any number of environment events.            *)
(*                                                                         *)
(* The inductive invariant has three parts besides the types: who is inside *)
(* the `with execution_lock` block holds the lock (LockHeld); how far the   *)
(* official snapshot run is decides what any process may still do with it   *)
(* (SnapshotChain); and a retry starts from a linked snapshot and so never  *)
(* leaves the analysis part of the workflow (RetryOnlyAnalyses).            *)
(*                                                                         *)
(* On top of it, AgreesInv relates the schedule to the workflow row while   *)
(* the lock is honoured, and MissedInv to a missed capture with one worker; *)
(* SmoothInv says what a process finds while no fault has happened.         *)
(***************************************************************************)
EXTENDS TailRadarSchedule, TLAPS

\* A session that is inside the lock's block still owns the lock.
LockHeld ==
    used["lockLoss"] = 0 =>
        \A p \in Workers \cup Retriers : pc[p] \in LockedSteps => lock = p

\* The one run goes none -> running -> succeeded | failed, fetched at most once,
\* by the one process that claimed it; links and results rest on its success.
SnapshotChain ==
    /\ fetches <= 1
    /\ snap = "none" => fetches = 0
    /\ snap = "succeeded" => fetches = 1
    /\ wf.snapshot => snap = "succeeded"
    /\ wf.lifecycle \in Completed => wf.snapshot
    /\ \A p \in Processes :
          /\ pc[p] = "fetch" => snap = "running" /\ fetches = 0
          /\ pc[p] = "publish" => snap = "running" /\ fetches = 1
          /\ pc[p] = "attach" => snap = "succeeded"
          /\ pc[p] \in {"analyse", "finish"} => wf.snapshot
    /\ \A p, q \in Processes :
          pc[p] \in {"fetch", "publish"} /\ pc[q] \in {"fetch", "publish"} => p = q

\* A retry works on a workflow that exists and has its snapshot.
RetryOnlyAnalyses ==
    /\ wf.snapshot => wf.lifecycle # "none"
    /\ \A p \in Processes : pc[p] \in SnapshotSteps \ {"open"} => wf.lifecycle # "none"
    /\ \A p \in Retriers :
          /\ pc[p] \notin TickSteps \cup {"recheck", "adopt", "execute"} \cup SnapshotSteps
          /\ pc[p] \in {"retryLock", "mark"} => seen[p] # "none"
          /\ pc[p] \in {"retryLock", "mark", "resume"} => wf.snapshot

\* A commit moves its process to the next location or to the handler of an unknown
\* outcome, and spends no lost lock.
LEMMA CommitMoves ==
    ASSUME TypeOK, NEW p \in Processes, NEW next \in Locations, Commit(p, next)
    PROVE  /\ \/ pc' = [pc EXCEPT ![p] = next]
              \/ pc' = [pc EXCEPT ![p] = UncertainHandler(p, pc[p])]
           /\ UncertainHandler(p, pc[p]) \in {"raised", "leave"}
           /\ pc[p] \notin LockedSteps => UncertainHandler(p, pc[p]) = "leave"
           /\ pc' \in [Processes -> Locations]
           /\ used' \in [FaultKinds -> Nat]
           /\ used'["lockLoss"] = used["lockLoss"]
<1> USE DEF TypeOK, FaultKinds
<1>1. /\ UncertainHandler(p, pc[p]) \in {"raised", "leave"}
      /\ pc[p] \notin LockedSteps => UncertainHandler(p, pc[p]) = "leave"
  BY DEF UncertainHandler, Handler, LockedSteps, WorkflowSteps, SnapshotSteps
<1>2. "raised" \in Locations /\ "leave" \in Locations
  BY DEF Locations, LockedSteps
<1>3. CASE Goto(p, next) /\ UNCHANGED used
  BY <1>1, <1>3 DEF Goto
<1>4. CASE Spend("uncertain") /\ Goto(p, UncertainHandler(p, pc[p]))
  BY <1>1, <1>2, <1>4 DEF Goto, Spend
<1>5. QED
  BY <1>3, <1>4 DEF Commit

\* A schedule update with a status and a reference keeps the row well typed.
LEMMA SetScheduleType ==
    ASSUME TypeOK, NEW status \in Statuses, NEW references \in BOOLEAN,
           SetSchedule(status, references)
    PROVE  /\ sched' \in [status : Statuses, wf : BOOLEAN, preflight : BOOLEAN]
           /\ sched'.status = status
BY DEF TypeOK, SetSchedule

\* The initial states are well typed.
LEMMA TypeInit == Init => TypeOK
  BY TimeAssumption DEF Init, TypeOK, Statuses, Pending, Terminal, Completed, Lifecycles,
     SnapStates, Locations

\* Every step keeps the types.
LEMMA TypeStep ==
    ASSUME TypeOK, [Next]_vars PROVE TypeOK'
<1> USE DEF TypeOK, rows, Statuses, Pending, Terminal, Completed, Lifecycles, SnapStates, Locations,
      TickSteps, LockedSteps, WorkflowSteps, SnapshotSteps, FaultKinds
<1>1. ASSUME NEW p \in Processes, ReadSchedule(p) PROVE TypeOK'
  BY <1>1 DEF ReadSchedule, Goto, At
<1>2. ASSUME NEW p \in Processes, EnsureSchedule(p) PROVE TypeOK'
  <2>1. sched' \in [status : Statuses, wf : BOOLEAN, preflight : BOOLEAN]
    BY <1>2 DEF EnsureSchedule, EnsuredRow
  <2>2. PICK next \in Locations : Commit(p, next)
    BY <1>2 DEF EnsureSchedule, EnsuredRow
  <2>3. QED
    BY <1>2, <2>1, <2>2, CommitMoves DEF EnsureSchedule, EnsuredRow
<1>3. ASSUME NEW p \in Processes, RecordPreflight(p) PROVE TypeOK'
  <2>1. sched' \in [status : Statuses, wf : BOOLEAN, preflight : BOOLEAN]
    BY <1>3 DEF RecordPreflight, PreflightRow
  <2>2. PICK next \in Locations : Commit(p, next)
    BY <1>3 DEF RecordPreflight, PreflightRow
  <2>3. QED
    BY <1>3, <2>1, <2>2, CommitMoves DEF RecordPreflight, PreflightRow
<1>4. ASSUME NEW p \in Processes, CheckWorkflow(p) PROVE TypeOK'
  BY <1>4 DEF CheckWorkflow, Goto, At
<1>5. ASSUME NEW p \in Processes, WriteMissed(p) PROVE TypeOK'
  <2>1. CASE SetSchedule("missed", FALSE) /\ Commit(p, "leave")
    BY ZenonT(60), <1>5, <2>1, CommitMoves, SetScheduleType DEF WriteMissed
  <2>2. CASE Goto(p, "leave") /\ UNCHANGED <<sched, used>>
    BY <1>5, <2>2 DEF WriteMissed, Goto
  <2>3. QED
    BY <1>5, <2>1, <2>2 DEF WriteMissed
<1>6. ASSUME NEW p \in Processes, Recheck(p) PROVE TypeOK'
  BY <1>6 DEF Recheck, Goto, At
<1>7. ASSUME NEW p \in Processes, Adopt(p) PROVE TypeOK'
  <2>1. SetSchedule(ResultStatus(p), TRUE) /\ Commit(p, "leave")
    BY <1>7 DEF Adopt
  <2>2. ResultStatus(p) \in Statuses /\ TRUE \in BOOLEAN /\ "leave" \in Locations
    BY DEF ResultStatus
  <2>3. QED
    BY ZenonT(60), <1>7, <2>1, <2>2, CommitMoves, SetScheduleType DEF Adopt
<1>8. ASSUME NEW p \in Processes, TryLock(p) PROVE TypeOK'
  BY <1>8 DEF TryLock, Goto, At
<1>9. ASSUME NEW p \in Processes, MarkExecuting(p) PROVE TypeOK'
  <2>1. /\ SetSchedule("executing", seen[p] # "none")
        /\ Commit(p, (IF seen[p] = "none" THEN "execute" ELSE "resume"))
    BY <1>9 DEF MarkExecuting
  <2>2. /\ "executing" \in Statuses /\ (seen[p] # "none") \in BOOLEAN
        /\ (IF seen[p] = "none" THEN "execute" ELSE "resume") \in Locations
    BY DEF At
  <2>3. QED
    BY ZenonT(60), <1>9, <2>1, <2>2, CommitMoves, SetScheduleType DEF MarkExecuting
<1>10. ASSUME NEW p \in Processes, ExecuteClaim(p) PROVE TypeOK'
  BY <1>10 DEF ExecuteClaim, Goto, At, Commit, Spend, UncertainHandler, Handler, AfterResult
<1>11. ASSUME NEW p \in Processes, Resume(p) PROVE TypeOK'
  BY <1>11 DEF Resume, Goto, At, AfterResult
<1>12. ASSUME NEW p \in Processes, SetLifecycle(p) PROVE TypeOK'
  BY <1>12 DEF SetLifecycle, Goto, At, Commit, Spend, UncertainHandler, Handler
<1>13. ASSUME NEW p \in Processes, ClaimSnapshot(p) PROVE TypeOK'
  BY <1>13 DEF ClaimSnapshot, Goto, At, Spend
<1>14. ASSUME NEW p \in Processes, Fetch(p) PROVE TypeOK'
  BY <1>14 DEF Fetch, Goto, At
<1>15. ASSUME NEW p \in Processes, Publish(p) PROVE TypeOK'
  BY <1>15 DEF Publish, Goto, At, Spend
<1>16. ASSUME NEW p \in Processes, AttachSnapshot(p) PROVE TypeOK'
  <2>1. wf' \in [lifecycle : Lifecycles, snapshot : BOOLEAN]
    BY <1>16 DEF AttachSnapshot
  <2>2. Commit(p, "analyse")
    BY <1>16 DEF AttachSnapshot
  <2>3. QED
    BY <1>16, <2>1, <2>2, CommitMoves DEF AttachSnapshot
<1>17. ASSUME NEW p \in Processes, Finish(p) PROVE TypeOK'
  BY <1>17 DEF Finish, Goto, At, Commit, Spend, UncertainHandler, Handler, AfterResult
<1>18. ASSUME NEW p \in Processes, FailWorkflow(p) PROVE TypeOK'
  BY <1>18 DEF FailWorkflow, Goto, At
<1>19. ASSUME NEW p \in Processes, Record(p) PROVE TypeOK'
  <2>1. SetSchedule(ResultStatus(p), TRUE) /\ Commit(p, "leave")
    BY <1>19 DEF Record
  <2>2. ResultStatus(p) \in Statuses /\ TRUE \in BOOLEAN /\ "leave" \in Locations
    BY DEF ResultStatus
  <2>3. QED
    BY ZenonT(60), <1>19, <2>1, <2>2, CommitMoves, SetScheduleType DEF Record
<1>20. ASSUME NEW p \in Processes, Raised(p) PROVE TypeOK'
  BY <1>20 DEF Raised, Goto, At
<1>21. ASSUME NEW p \in Processes, RecordFailure(p) PROVE TypeOK'
  <2>1. SetSchedule("failed", seen[p] # "none") /\ Commit(p, "leave")
    BY <1>21 DEF RecordFailure
  <2>2. "failed" \in Statuses /\ (seen[p] # "none") \in BOOLEAN /\ "leave" \in Locations
    BY DEF At
  <2>3. QED
    BY ZenonT(60), <1>21, <2>1, <2>2, CommitMoves, SetScheduleType DEF RecordFailure
<1>22. ASSUME NEW p \in Processes, Leave(p) PROVE TypeOK'
  BY <1>22, TimeAssumption DEF Leave, Goto, At
<1>23. ASSUME NEW p \in Processes, RetryStart(p) PROVE TypeOK'
  BY <1>23 DEF RetryStart, Goto, At, Spend
<1>24. ASSUME NEW p \in Processes, OperatorStart(p) PROVE TypeOK'
  BY <1>24 DEF OperatorStart, Goto, At, Spend
<1>25. ASSUME NEW p \in Processes, CallFails(p) PROVE TypeOK'
  BY <1>25 DEF CallFails, Goto, At, Spend, Handler
<1>26. ASSUME NEW p \in Processes, CommitLost(p) PROVE TypeOK'
  BY <1>26 DEF CommitLost, Goto, At, Spend
<1>27. ASSUME NEW p \in Processes, Crash(p) PROVE TypeOK'
  BY <1>27, TimeAssumption DEF Crash, Goto, Spend
<1>28. ASSUME LoseLock PROVE TypeOK'
  BY <1>28 DEF LoseLock, Spend
<1>29. ASSUME Tick PROVE TypeOK'
  BY <1>29, TimeAssumption DEF Tick
<1>30. ASSUME UNCHANGED vars PROVE TypeOK'
  BY <1>30 DEF vars
<1>31. QED
  BY <1>1, <1>2, <1>3, <1>4, <1>5, <1>6, <1>7, <1>8, <1>9, <1>10, <1>11, <1>12, <1>13, <1>14,
     <1>15, <1>16, <1>17, <1>18, <1>19, <1>20, <1>21, <1>22, <1>23, <1>24, <1>25, <1>26, <1>27,
     <1>28, <1>29, <1>30 DEF Next, TickStep, Continue, Environment, ReturnTerminal, Processes

\* Every variable keeps its type in every behaviour of the schedule.
THEOREM ScheduleTypeCorrect == Spec => []TypeOK
BY TypeInit, TypeStep, PTL DEF Spec

-----------------------------------------------------------------------------
\* No step lets a process into the lock's block without the lock, or takes the lock
\* from one inside it, unless the session is lost.
LEMMA LockHeldStep ==
    ASSUME TypeOK, LockHeld, [Next]_vars PROVE LockHeld'
<1> USE DEF LockHeld, Processes, TypeOK, rows, Locations, TickSteps, LockedSteps,
     WorkflowSteps, SnapshotSteps, FaultKinds
<1>1. ASSUME NEW p \in Workers, ReadSchedule(p) PROVE LockHeld'
  BY <1>1, ProcessAssumption DEF ReadSchedule, Goto, At, Processes
<1>2. ASSUME NEW p \in Workers, EnsureSchedule(p) PROVE LockHeld'
  BY <1>2, CommitMoves, ProcessAssumption DEF EnsureSchedule, EnsuredRow, Goto, At, Processes
<1>3. ASSUME NEW p \in Workers, RecordPreflight(p) PROVE LockHeld'
  BY <1>3, CommitMoves, ProcessAssumption DEF RecordPreflight, PreflightRow, Goto, At, Processes
<1>4. ASSUME NEW p \in Workers, CheckWorkflow(p) PROVE LockHeld'
  BY <1>4, ProcessAssumption DEF CheckWorkflow, Goto, At, Processes
<1>5. ASSUME NEW p \in Workers, WriteMissed(p) PROVE LockHeld'
  <2>1. CASE Commit(p, "leave")
    BY <1>5, <2>1, CommitMoves DEF WriteMissed, At, Processes
  <2>2. CASE Goto(p, "leave") /\ UNCHANGED used
    BY <1>5, <2>2 DEF WriteMissed, Goto, At, Processes
  <2>3. QED
    BY <1>5, <2>1, <2>2 DEF WriteMissed
<1>6. ASSUME NEW p \in Workers, Recheck(p) PROVE LockHeld'
  BY <1>6, ProcessAssumption DEF Recheck, Goto, At, Processes
<1>7. ASSUME NEW p \in Workers, Adopt(p) PROVE LockHeld'
  BY <1>7, CommitMoves, ProcessAssumption DEF Adopt, Goto, At, Processes
<1>8. ASSUME NEW p \in Processes, TryLock(p) PROVE LockHeld'
  BY <1>8, ProcessAssumption DEF TryLock, Goto, At
<1>9. ASSUME NEW p \in Processes, MarkExecuting(p) PROVE LockHeld'
  BY <1>9, CommitMoves DEF MarkExecuting, Goto, At
<1>10. ASSUME NEW p \in Processes, ExecuteClaim(p) PROVE LockHeld'
  BY <1>10, CommitMoves DEF ExecuteClaim, Goto, At, AfterResult
<1>11. ASSUME NEW p \in Processes, Resume(p) PROVE LockHeld'
  BY <1>11 DEF Resume, Goto, At, AfterResult
<1>12. ASSUME NEW p \in Processes, SetLifecycle(p) PROVE LockHeld'
  BY <1>12, CommitMoves DEF SetLifecycle, Goto, At
<1>13. ASSUME NEW p \in Processes, ClaimSnapshot(p) PROVE LockHeld'
  BY <1>13 DEF ClaimSnapshot, Goto, At, Spend
<1>14. ASSUME NEW p \in Processes, Fetch(p) PROVE LockHeld'
  BY <1>14 DEF Fetch, Goto, At
<1>15. ASSUME NEW p \in Processes, Publish(p) PROVE LockHeld'
  BY <1>15 DEF Publish, Goto, At, Spend
<1>16. ASSUME NEW p \in Processes, AttachSnapshot(p) PROVE LockHeld'
  BY <1>16, CommitMoves DEF AttachSnapshot, Goto, At
<1>17. ASSUME NEW p \in Processes, Finish(p) PROVE LockHeld'
  BY <1>17, CommitMoves DEF Finish, Goto, At, AfterResult
<1>18. ASSUME NEW p \in Processes, FailWorkflow(p) PROVE LockHeld'
  BY <1>18 DEF FailWorkflow, Goto, At
<1>19. ASSUME NEW p \in Processes, Record(p) PROVE LockHeld'
  BY <1>19, CommitMoves DEF Record, Goto, At
<1>20. ASSUME NEW p \in Processes, Raised(p) PROVE LockHeld'
  BY <1>20 DEF Raised, Goto, At
<1>21. ASSUME NEW p \in Processes, RecordFailure(p) PROVE LockHeld'
  BY <1>21, CommitMoves DEF RecordFailure, Goto, At
<1>22. ASSUME NEW p \in Processes, Leave(p) PROVE LockHeld'
  BY <1>22 DEF Leave, Goto, At
<1>23. ASSUME NEW p \in Retriers, RetryStart(p) PROVE LockHeld'
  BY <1>23, ProcessAssumption DEF RetryStart, Goto, At, Spend, Processes
<1>24. ASSUME NEW p \in Operators, OperatorStart(p) PROVE LockHeld'
  BY <1>24, ProcessAssumption DEF OperatorStart, Goto, At, Spend, Processes
<1>25. ASSUME NEW p \in Processes, CallFails(p) PROVE LockHeld'
  BY <1>25 DEF CallFails, Goto, At, Handler, Spend
<1>26. ASSUME NEW p \in Processes, CommitLost(p) PROVE LockHeld'
  BY <1>26 DEF CommitLost, Goto, At, Spend
<1>27. ASSUME NEW p \in Processes, Crash(p) PROVE LockHeld'
  BY <1>27 DEF Crash, Goto, At, Spend
<1>28. ASSUME LoseLock PROVE LockHeld'
  BY <1>28 DEF LoseLock, Spend
<1>29. ASSUME Tick PROVE LockHeld'
  BY <1>29 DEF Tick
<1>30. ASSUME UNCHANGED vars PROVE LockHeld'
  BY <1>30 DEF vars
<1>31. QED
  BY <1>1, <1>2, <1>3, <1>4, <1>5, <1>6, <1>7, <1>8, <1>9, <1>10, <1>11, <1>12,
     <1>13, <1>14, <1>15, <1>16, <1>17, <1>18, <1>19, <1>20, <1>21, <1>22, <1>23, <1>24,
     <1>25, <1>26, <1>27, <1>28, <1>29, <1>30
  DEF Next, TickStep, Continue, Environment, ReturnTerminal, Processes

\* No step breaks the chain from claim over fetch and publication to the link.
LEMMA SnapshotChainStep ==
    ASSUME TypeOK, SnapshotChain, [Next]_vars PROVE SnapshotChain'
<1> USE DEF SnapshotChain, TypeOK, rows, Locations, TickSteps, LockedSteps, WorkflowSteps,
     SnapshotSteps, FaultKinds, Completed, SnapStates, Lifecycles
<1>1. ASSUME NEW p \in Workers, ReadSchedule(p) PROVE SnapshotChain'
  BY <1>1, ProcessAssumption DEF ReadSchedule, Goto, At, Processes
<1>2. ASSUME NEW p \in Workers, EnsureSchedule(p) PROVE SnapshotChain'
  BY <1>2, CommitMoves, ProcessAssumption DEF EnsureSchedule, EnsuredRow, Goto, At, Processes
<1>3. ASSUME NEW p \in Workers, RecordPreflight(p) PROVE SnapshotChain'
  BY <1>3, CommitMoves, ProcessAssumption DEF RecordPreflight, PreflightRow, Goto, At, Processes
<1>4. ASSUME NEW p \in Workers, CheckWorkflow(p) PROVE SnapshotChain'
  BY <1>4, ProcessAssumption DEF CheckWorkflow, Goto, At, Processes
<1>5. ASSUME NEW p \in Workers, WriteMissed(p) PROVE SnapshotChain'
  <2>1. CASE Commit(p, "leave")
    BY <1>5, <2>1, CommitMoves DEF WriteMissed, At, Processes
  <2>2. CASE Goto(p, "leave") /\ UNCHANGED used
    BY <1>5, <2>2 DEF WriteMissed, Goto, At, Processes
  <2>3. QED
    BY <1>5, <2>1, <2>2 DEF WriteMissed
<1>6. ASSUME NEW p \in Workers, Recheck(p) PROVE SnapshotChain'
  BY <1>6, ProcessAssumption DEF Recheck, Goto, At, Processes
<1>7. ASSUME NEW p \in Workers, Adopt(p) PROVE SnapshotChain'
  BY <1>7, CommitMoves, ProcessAssumption DEF Adopt, Goto, At, Processes
<1>8. ASSUME NEW p \in Processes, TryLock(p) PROVE SnapshotChain'
  BY <1>8 DEF TryLock, Goto, At
<1>9. ASSUME NEW p \in Processes, MarkExecuting(p) PROVE SnapshotChain'
  BY <1>9, CommitMoves DEF MarkExecuting, Goto, At
<1>10. ASSUME NEW p \in Processes, ExecuteClaim(p) PROVE SnapshotChain'
  BY <1>10, CommitMoves DEF ExecuteClaim, Goto, At, AfterResult
<1>11. ASSUME NEW p \in Processes, Resume(p) PROVE SnapshotChain'
  BY <1>11 DEF Resume, Goto, At, AfterResult
<1>12. ASSUME NEW p \in Processes, SetLifecycle(p) PROVE SnapshotChain'
  BY <1>12, CommitMoves DEF SetLifecycle, Goto, At
<1>13. ASSUME NEW p \in Processes, ClaimSnapshot(p) PROVE SnapshotChain'
  BY <1>13 DEF ClaimSnapshot, Goto, At, Spend
<1>14. ASSUME NEW p \in Processes, Fetch(p) PROVE SnapshotChain'
  BY <1>14 DEF Fetch, Goto, At
<1>15. ASSUME NEW p \in Processes, Publish(p) PROVE SnapshotChain'
  BY <1>15 DEF Publish, Goto, At, Spend
<1>16. ASSUME NEW p \in Processes, AttachSnapshot(p) PROVE SnapshotChain'
  BY <1>16, CommitMoves DEF AttachSnapshot, Goto, At
<1>17. ASSUME NEW p \in Processes, Finish(p) PROVE SnapshotChain'
  BY <1>17, CommitMoves DEF Finish, Goto, At, AfterResult
<1>18. ASSUME NEW p \in Processes, FailWorkflow(p) PROVE SnapshotChain'
  BY <1>18 DEF FailWorkflow, Goto, At
<1>19. ASSUME NEW p \in Processes, Record(p) PROVE SnapshotChain'
  BY <1>19, CommitMoves DEF Record, Goto, At
<1>20. ASSUME NEW p \in Processes, Raised(p) PROVE SnapshotChain'
  BY <1>20 DEF Raised, Goto, At
<1>21. ASSUME NEW p \in Processes, RecordFailure(p) PROVE SnapshotChain'
  BY <1>21, CommitMoves DEF RecordFailure, Goto, At
<1>22. ASSUME NEW p \in Processes, Leave(p) PROVE SnapshotChain'
  BY <1>22 DEF Leave, Goto, At
<1>23. ASSUME NEW p \in Retriers, RetryStart(p) PROVE SnapshotChain'
  BY <1>23, ProcessAssumption DEF RetryStart, Goto, At, Spend, Processes
<1>24. ASSUME NEW p \in Operators, OperatorStart(p) PROVE SnapshotChain'
  BY <1>24, ProcessAssumption DEF OperatorStart, Goto, At, Spend, Processes
<1>25. ASSUME NEW p \in Processes, CallFails(p) PROVE SnapshotChain'
  BY <1>25 DEF CallFails, Goto, At, Handler, Spend
<1>26. ASSUME NEW p \in Processes, CommitLost(p) PROVE SnapshotChain'
  BY <1>26 DEF CommitLost, Goto, At, Spend
<1>27. ASSUME NEW p \in Processes, Crash(p) PROVE SnapshotChain'
  BY <1>27 DEF Crash, Goto, At, Spend
<1>28. ASSUME LoseLock PROVE SnapshotChain'
  BY <1>28 DEF LoseLock, Spend
<1>29. ASSUME Tick PROVE SnapshotChain'
  BY <1>29 DEF Tick
<1>30. ASSUME UNCHANGED vars PROVE SnapshotChain'
  BY <1>30 DEF vars
<1>31. QED
  BY <1>1, <1>2, <1>3, <1>4, <1>5, <1>6, <1>7, <1>8, <1>9, <1>10, <1>11, <1>12,
     <1>13, <1>14, <1>15, <1>16, <1>17, <1>18, <1>19, <1>20, <1>21, <1>22, <1>23, <1>24,
     <1>25, <1>26, <1>27, <1>28, <1>29, <1>30
  DEF Next, TickStep, Continue, Environment, ReturnTerminal, Processes

\* No step lets a retry begin without a linked snapshot or unlinks one.
LEMMA RetryOnlyAnalysesStep ==
    ASSUME TypeOK, RetryOnlyAnalyses, [Next]_vars PROVE RetryOnlyAnalyses'
<1> USE ProcessAssumption DEF RetryOnlyAnalyses, Processes, TypeOK, rows, Locations,
     TickSteps, LockedSteps, WorkflowSteps, SnapshotSteps, FaultKinds, Completed, Lifecycles
<1>1. ASSUME NEW p \in Workers, ReadSchedule(p) PROVE RetryOnlyAnalyses'
  BY <1>1, ProcessAssumption DEF ReadSchedule, Goto, At, Processes
<1>2. ASSUME NEW p \in Workers, EnsureSchedule(p) PROVE RetryOnlyAnalyses'
  BY <1>2, CommitMoves, ProcessAssumption DEF EnsureSchedule, EnsuredRow, Goto, At, Processes
<1>3. ASSUME NEW p \in Workers, RecordPreflight(p) PROVE RetryOnlyAnalyses'
  BY <1>3, CommitMoves, ProcessAssumption DEF RecordPreflight, PreflightRow, Goto, At, Processes
<1>4. ASSUME NEW p \in Workers, CheckWorkflow(p) PROVE RetryOnlyAnalyses'
  BY <1>4, ProcessAssumption DEF CheckWorkflow, Goto, At, Processes
<1>5. ASSUME NEW p \in Workers, WriteMissed(p) PROVE RetryOnlyAnalyses'
  <2>1. CASE Commit(p, "leave")
    BY <1>5, <2>1, CommitMoves DEF WriteMissed, At, Processes
  <2>2. CASE Goto(p, "leave") /\ UNCHANGED used
    BY <1>5, <2>2 DEF WriteMissed, Goto, At, Processes
  <2>3. QED
    BY <1>5, <2>1, <2>2 DEF WriteMissed
<1>6. ASSUME NEW p \in Workers, Recheck(p) PROVE RetryOnlyAnalyses'
  BY <1>6, ProcessAssumption DEF Recheck, Goto, At, Processes
<1>7. ASSUME NEW p \in Workers, Adopt(p) PROVE RetryOnlyAnalyses'
  BY <1>7, CommitMoves, ProcessAssumption DEF Adopt, Goto, At, Processes
<1>8. ASSUME NEW p \in Processes, TryLock(p) PROVE RetryOnlyAnalyses'
  BY <1>8 DEF TryLock, Goto, At
<1>9. ASSUME NEW p \in Processes, MarkExecuting(p) PROVE RetryOnlyAnalyses'
  BY <1>9, CommitMoves DEF MarkExecuting, Goto, At
<1>10. ASSUME NEW p \in Processes, ExecuteClaim(p) PROVE RetryOnlyAnalyses'
  BY <1>10, CommitMoves DEF ExecuteClaim, Goto, At, AfterResult
<1>11. ASSUME NEW p \in Processes, Resume(p) PROVE RetryOnlyAnalyses'
  BY <1>11 DEF Resume, Goto, At, AfterResult
<1>12. ASSUME NEW p \in Processes, SetLifecycle(p) PROVE RetryOnlyAnalyses'
  BY <1>12, CommitMoves DEF SetLifecycle, Goto, At
<1>13. ASSUME NEW p \in Processes, ClaimSnapshot(p) PROVE RetryOnlyAnalyses'
  BY <1>13 DEF ClaimSnapshot, Goto, At, Spend
<1>14. ASSUME NEW p \in Processes, Fetch(p) PROVE RetryOnlyAnalyses'
  BY <1>14 DEF Fetch, Goto, At
<1>15. ASSUME NEW p \in Processes, Publish(p) PROVE RetryOnlyAnalyses'
  BY <1>15 DEF Publish, Goto, At, Spend
<1>16. ASSUME NEW p \in Processes, AttachSnapshot(p) PROVE RetryOnlyAnalyses'
  BY <1>16, CommitMoves DEF AttachSnapshot, Goto, At
<1>17. ASSUME NEW p \in Processes, Finish(p) PROVE RetryOnlyAnalyses'
  BY <1>17, CommitMoves DEF Finish, Goto, At, AfterResult
<1>18. ASSUME NEW p \in Processes, FailWorkflow(p) PROVE RetryOnlyAnalyses'
  BY <1>18 DEF FailWorkflow, Goto, At
<1>19. ASSUME NEW p \in Processes, Record(p) PROVE RetryOnlyAnalyses'
  BY <1>19, CommitMoves DEF Record, Goto, At
<1>20. ASSUME NEW p \in Processes, Raised(p) PROVE RetryOnlyAnalyses'
  BY <1>20 DEF Raised, Goto, At
<1>21. ASSUME NEW p \in Processes, RecordFailure(p) PROVE RetryOnlyAnalyses'
  BY <1>21, CommitMoves DEF RecordFailure, Goto, At
<1>22. ASSUME NEW p \in Processes, Leave(p) PROVE RetryOnlyAnalyses'
  BY <1>22 DEF Leave, Goto, At
<1>23. ASSUME NEW p \in Retriers, RetryStart(p) PROVE RetryOnlyAnalyses'
  BY <1>23, ProcessAssumption DEF RetryStart, Goto, At, Spend, Processes
<1>24. ASSUME NEW p \in Operators, OperatorStart(p) PROVE RetryOnlyAnalyses'
  BY <1>24, ProcessAssumption DEF OperatorStart, Goto, At, Spend, Processes
<1>25. ASSUME NEW p \in Processes, CallFails(p) PROVE RetryOnlyAnalyses'
  BY <1>25 DEF CallFails, Goto, At, Handler, Spend
<1>26. ASSUME NEW p \in Processes, CommitLost(p) PROVE RetryOnlyAnalyses'
  BY <1>26 DEF CommitLost, Goto, At, Spend
<1>27. ASSUME NEW p \in Processes, Crash(p) PROVE RetryOnlyAnalyses'
  BY <1>27 DEF Crash, Goto, At, Spend
<1>28. ASSUME LoseLock PROVE RetryOnlyAnalyses'
  BY <1>28 DEF LoseLock, Spend
<1>29. ASSUME Tick PROVE RetryOnlyAnalyses'
  BY <1>29 DEF Tick
<1>30. ASSUME UNCHANGED vars PROVE RetryOnlyAnalyses'
  BY <1>30 DEF vars
<1>31. QED
  BY <1>1, <1>2, <1>3, <1>4, <1>5, <1>6, <1>7, <1>8, <1>9, <1>10, <1>11, <1>12,
     <1>13, <1>14, <1>15, <1>16, <1>17, <1>18, <1>19, <1>20, <1>21, <1>22, <1>23, <1>24,
     <1>25, <1>26, <1>27, <1>28, <1>29, <1>30
  DEF Next, TickStep, Continue, Environment, ReturnTerminal, Processes

-----------------------------------------------------------------------------
ScheduleInv == TypeOK /\ LockHeld /\ SnapshotChain /\ RetryOnlyAnalyses

\* The invariant holds at first.
LEMMA ScheduleInvInit == Init => ScheduleInv
BY TypeInit DEF Init, ScheduleInv, LockHeld, SnapshotChain, RetryOnlyAnalyses, Completed,
   LockedSteps, WorkflowSteps, SnapshotSteps, TickSteps, Processes

\* Every step preserves the invariant.
LEMMA ScheduleInvStep == ScheduleInv /\ [Next]_vars => ScheduleInv'
BY TypeStep, LockHeldStep, SnapshotChainStep, RetryOnlyAnalysesStep DEF ScheduleInv

\* The invariant holds in every behaviour.
LEMMA ScheduleInvariant == Spec => []ScheduleInv
BY ScheduleInvInit, ScheduleInvStep, PTL DEF Spec

\* As long as no session loses the advisory lock, one worker or retry at a
\* time orchestrates the official workflow, whatever the number of workers.
THEOREM ScheduleOneOrchestrator == Spec => []OneOrchestrator
<1>1. ScheduleInv => OneOrchestrator
  BY DEF ScheduleInv, LockHeld, OneOrchestrator
<1>2. QED
  BY <1>1, ScheduleInvariant, PTL

\* The official snapshot is fetched from the live provider at most once, with
\* or without the lock, across crashes, retries and lost acknowledgements.
THEOREM ScheduleFetchesOnce == Spec => []OfficialFetchOnce
<1>1. ScheduleInv => OfficialFetchOnce
  BY DEF ScheduleInv, SnapshotChain, OfficialFetchOnce
<1>2. QED
  BY <1>1, ScheduleInvariant, PTL

\* Analysis-only recovery never enters the snapshot stage.
THEOREM ScheduleRetryNeverFetches == Spec => []RetryNeverFetches
<1>1. ScheduleInv => RetryNeverFetches
  BY DEF ScheduleInv, RetryOnlyAnalyses, RetryNeverFetches
<1>2. QED
  BY <1>1, ScheduleInvariant, PTL

\* A workflow that ended well rests on the one captured, linked snapshot.
THEOREM ScheduleCompletedHasSnapshot == Spec => []CompletedHasSnapshot
<1>1. ScheduleInv => CompletedHasSnapshot
  BY DEF ScheduleInv, SnapshotChain, CompletedHasSnapshot
<1>2. QED
  BY <1>1, ScheduleInvariant, PTL

\* What any step does to the official snapshot run, the engine's specification
\* allows: only the process that claimed the run ends it.
LEMMA SnapshotStepImplements ==
    ASSUME ScheduleInv, [Next]_vars PROVE [Official!Next]_<<snap, snap = "succeeded">>
<1> USE DEF ScheduleInv, TypeOK, SnapshotChain, SnapStates
<1>1. ASSUME NEW p \in Processes, ClaimSnapshot(p)
      PROVE  Official!Claim \/ UNCHANGED snap
  BY <1>1 DEF ClaimSnapshot, Official!Claim
<1>2. ASSUME NEW p \in Processes, Fetch(p) PROVE Official!Fail \/ UNCHANGED snap
  BY <1>2 DEF Fetch, At, Official!Fail
<1>3. ASSUME NEW p \in Processes, Publish(p) PROVE Official!Capture
  BY <1>3 DEF Publish, At, Official!Capture
<1>4. ASSUME NEW p \in Processes, CallFails(p) PROVE Official!Fail \/ UNCHANGED snap
  BY <1>4 DEF CallFails, Official!Fail
<1>5. ASSUME NEW p \in Processes,
             \/ TickStep(p) \/ ReturnTerminal(p) \/ RetryStart(p) \/ OperatorStart(p)
             \/ CommitLost(p) \/ Crash(p)
      PROVE  UNCHANGED snap
  BY <1>5 DEF TickStep, ReadSchedule, EnsureSchedule, RecordPreflight, CheckWorkflow, WriteMissed,
     Recheck, Adopt, ReturnTerminal, RetryStart, OperatorStart, CommitLost, Crash, rows, vars
<1>6. ASSUME NEW p \in Processes,
             \/ TryLock(p) \/ MarkExecuting(p) \/ ExecuteClaim(p) \/ Resume(p)
             \/ SetLifecycle(p) \/ AttachSnapshot(p) \/ Finish(p) \/ FailWorkflow(p)
             \/ Record(p) \/ Raised(p) \/ RecordFailure(p) \/ Leave(p)
      PROVE  UNCHANGED snap
  BY <1>6 DEF TryLock, MarkExecuting, ExecuteClaim, Resume, SetLifecycle, AttachSnapshot, Finish,
     FailWorkflow, Record, Raised, RecordFailure, Leave, rows
<1>7. ASSUME LoseLock \/ Tick \/ UNCHANGED vars PROVE UNCHANGED snap
  BY <1>7 DEF LoseLock, Tick, rows, vars
<1>8. Official!Next \/ UNCHANGED snap
  BY <1>1, <1>2, <1>3, <1>4, <1>5, <1>6, <1>7
  DEF Next, Continue, Environment, Processes, Official!Next
<1>9. QED
  BY <1>8

\* Seen at its official snapshot run, the schedule with all its processes is an
\* implementation of the engine's promise: one claim, one end, an end is final.
THEOREM ScheduleImplementsSnapshot == Spec => OfficialSlot
<1>1. Init => Official!Init
  BY DEF Init, Official!Init
<1>2. ScheduleInv /\ [Next]_vars => [Official!Next]_<<snap, snap = "succeeded">>
  BY SnapshotStepImplements
<1>3. QED
  BY <1>1, <1>2, ScheduleInvariant, PTL DEF Spec, OfficialSlot, Official!Spec

-----------------------------------------------------------------------------
\* A commit arrives at its next location, or its acknowledgement is lost; it counts
\* as nothing else.
LEMMA CommitOutcome ==
    ASSUME TypeOK, NEW p \in Processes, NEW next \in Locations, Commit(p, next)
    PROVE  /\ \E l \in Locations :
                 /\ pc' = [pc EXCEPT ![p] = l]
                 /\ l = next \/ (l \in {"raised", "leave"} /\ used'["uncertain"] # 0)
           /\ used'["operator"] = used["operator"] /\ used'["lockLoss"] = used["lockLoss"]
           /\ used["uncertain"] \in Nat /\ used'["uncertain"] \in Nat
           /\ used'["uncertain"] >= used["uncertain"]
<1>1. "raised" \in Locations /\ "leave" \in Locations
  BY DEF Locations, LockedSteps
<1>2. UncertainHandler(p, pc[p]) \in {"raised", "leave"}
  BY DEF UncertainHandler, Handler, WorkflowSteps, SnapshotSteps
<1>3. used \in [FaultKinds -> Nat] /\ FaultKinds = DOMAIN used
  BY DEF TypeOK
<1>4. CASE Goto(p, next) /\ UNCHANGED used
  <2>1. used' = used /\ used["uncertain"] \in Nat
    BY <1>3, <1>4 DEF FaultKinds
  <2>2. pc' = [pc EXCEPT ![p] = next]
    BY <1>4 DEF Goto
  <2>3. /\ used'["operator"] = used["operator"] /\ used'["lockLoss"] = used["lockLoss"]
        /\ used'["uncertain"] \in Nat /\ used'["uncertain"] >= used["uncertain"]
    BY <2>1
  <2>4. \E l \in Locations :
           /\ pc' = [pc EXCEPT ![p] = l]
           /\ l = next \/ (l \in {"raised", "leave"} /\ used'["uncertain"] # 0)
    <3> WITNESS next \in Locations
    <3> QED
      BY <2>2
  <2>5. QED
    BY <2>1, <2>3, <2>4
<1>5. CASE Spend("uncertain") /\ Goto(p, UncertainHandler(p, pc[p]))
  <2>1. /\ used'["uncertain"] = used["uncertain"] + 1
        /\ used'["operator"] = used["operator"] /\ used'["lockLoss"] = used["lockLoss"]
    BY <1>3, <1>5 DEF Spend, FaultKinds
  <2>2. used["uncertain"] \in Nat
    BY <1>3 DEF FaultKinds
  <2>3. pc' = [pc EXCEPT ![p] = UncertainHandler(p, pc[p])]
    BY <1>5 DEF Goto
  <2>4. UncertainHandler(p, pc[p]) \in Locations
    BY <1>1, <1>2
  <2>5. used'["uncertain"] # 0 /\ used'["uncertain"] \in Nat /\ used'["uncertain"] >= used["uncertain"]
    BY <2>1, <2>2
  <2>6. QED
    BY <1>2, <2>1, <2>2, <2>3, <2>4, <2>5
<1>6. QED
  BY <1>4, <1>5 DEF Commit

\* The lock is honoured so far, and no command has gone round it.
Honest == used["lockLoss"] = 0 /\ used["operator"] = 0

\* Whoever works on the workflow row has marked the schedule first; the one
\* inside the lock knows the lifecycle it is about to record.
AgreesInv ==
    /\ sched.status \in Completed => sched.wf
    /\ \A p \in Workers : pc[p] # "retryLock"
    /\ Honest =>
        /\ \A p \in Operators : pc[p] = "idle"
        /\ sched.status \in Completed => wf.lifecycle = sched.status
        /\ \A p \in Workers \cup Retriers :
              /\ pc[p] \in {"execute", "resume", "record", "failing"} \cup WorkflowSteps
                     => sched.status \notin Completed
              /\ p \in Workers /\ pc[p] = "mark" => sched.status \notin Completed
              /\ used["uncertain"] = 0 /\ pc[p] \in {"raised", "recordFailure"}
                     => sched.status \notin Completed
              /\ pc[p] \in {"adopt", "record"} => seen[p] = wf.lifecycle
              /\ pc[p] \in {"snapshot", "fetch", "publish", "attach", "finish"}
                     => wf.lifecycle = "running"
              /\ pc[p] \in {"open", "analyse", "failing"}
                     => wf.lifecycle \in {"running", "failed", "partial_success"}

\* No step lets the schedule and the workflow row drift apart under the lock.
LEMMA AgreesInvStep ==
    ASSUME TypeOK, LockHeld, AgreesInv, [Next]_vars PROVE AgreesInv'
<1> USE ProcessAssumption DEF AgreesInv, Honest, LockHeld, Processes, TypeOK, rows, Locations,
     TickSteps, LockedSteps, WorkflowSteps, SnapshotSteps, FaultKinds, Completed, Lifecycles
<1>1. ASSUME NEW p \in Workers, ReadSchedule(p) PROVE AgreesInv'
  BY <1>1, ProcessAssumption DEF ReadSchedule, Goto, At, Processes
<1>2. ASSUME NEW p \in Workers, EnsureSchedule(p) PROVE AgreesInv'
  <2>1. PICK next \in {"leave", "preflight", "check"} : Commit(p, next)
    BY <1>2 DEF EnsureSchedule, EnsuredRow, At
  <2>2. next \in Locations /\ p \in Processes
    BY <2>1
  <2>3. PICK l \in Locations :
           /\ pc' = [pc EXCEPT ![p] = l]
           /\ l = next \/ (l \in {"raised", "leave"} /\ used'["uncertain"] # 0)
           /\ used'["operator"] = used["operator"] /\ used'["lockLoss"] = used["lockLoss"]
           /\ used["uncertain"] \in Nat /\ used'["uncertain"] \in Nat
           /\ used'["uncertain"] >= used["uncertain"]
    BY <2>1, <2>2, CommitOutcome
  <2>4. QED
    BY SMTT(60), <1>2, <2>1, <2>2, <2>3 DEF EnsureSchedule, EnsuredRow, At
<1>3. ASSUME NEW p \in Workers, RecordPreflight(p) PROVE AgreesInv'
  <2>1. PICK next \in {"leave", "check"} : Commit(p, next)
    BY <1>3 DEF RecordPreflight, PreflightRow, At, Terminal
  <2>2. next \in Locations /\ p \in Processes
    BY <2>1
  <2>3. PICK l \in Locations :
           /\ pc' = [pc EXCEPT ![p] = l]
           /\ l = next \/ (l \in {"raised", "leave"} /\ used'["uncertain"] # 0)
           /\ used'["operator"] = used["operator"] /\ used'["lockLoss"] = used["lockLoss"]
           /\ used["uncertain"] \in Nat /\ used'["uncertain"] \in Nat
           /\ used'["uncertain"] >= used["uncertain"]
    BY <2>1, <2>2, CommitOutcome
  <2>4. QED
    BY SMTT(60), <1>3, <2>1, <2>2, <2>3 DEF RecordPreflight, PreflightRow, At, Terminal
<1>4. ASSUME NEW p \in Workers, CheckWorkflow(p) PROVE AgreesInv'
  BY <1>4, ProcessAssumption DEF CheckWorkflow, Goto, At, Processes
<1>5. ASSUME NEW p \in Workers, WriteMissed(p) PROVE AgreesInv'
  <2>1. CASE Coherent("missed") /\ SetSchedule("missed", FALSE) /\ Commit(p, "leave")
    <3>1. PICK next \in {"leave"} : Commit(p, next)
      BY <2>1 DEF AfterResult
    <3>2. next \in Locations /\ p \in Processes
      BY <3>1
    <3>3. PICK l \in Locations :
             /\ pc' = [pc EXCEPT ![p] = l]
             /\ l = next \/ (l \in {"raised", "leave"} /\ used'["uncertain"] # 0)
             /\ used'["operator"] = used["operator"] /\ used'["lockLoss"] = used["lockLoss"]
             /\ used["uncertain"] \in Nat /\ used'["uncertain"] \in Nat
             /\ used'["uncertain"] >= used["uncertain"]
      BY <3>1, <3>2, CommitOutcome
    <3>4. QED
      BY SMTT(60), <1>5, <2>1, <3>1, <3>2, <3>3 DEF WriteMissed, SetSchedule, Coherent, At
  <2>2. CASE Goto(p, "leave") /\ UNCHANGED <<sched, used>>
    BY SMTT(60), <1>5, <2>2 DEF WriteMissed, Goto, At
  <2>3. QED
    BY <1>5, <2>1, <2>2 DEF WriteMissed
<1>6. ASSUME NEW p \in Workers, Recheck(p) PROVE AgreesInv'
  BY <1>6, ProcessAssumption DEF Recheck, Goto, At, Processes
<1>7. ASSUME NEW p \in Workers, Adopt(p) PROVE AgreesInv'
  <2>1. PICK next \in {"leave"} : Commit(p, next)
    BY <1>7 DEF Adopt, SetSchedule, ResultStatus, At
  <2>2. next \in Locations /\ p \in Processes
    BY <2>1
  <2>3. PICK l \in Locations :
           /\ pc' = [pc EXCEPT ![p] = l]
           /\ l = next \/ (l \in {"raised", "leave"} /\ used'["uncertain"] # 0)
           /\ used'["operator"] = used["operator"] /\ used'["lockLoss"] = used["lockLoss"]
           /\ used["uncertain"] \in Nat /\ used'["uncertain"] \in Nat
           /\ used'["uncertain"] >= used["uncertain"]
    BY <2>1, <2>2, CommitOutcome
  <2>4. Honest' => Honest
    BY <2>3
  <2>5. Honest => \A q \in Workers \cup Retriers : q # p => pc[q] \notin LockedSteps
    BY <1>7 DEF Adopt, At
  <2>6. CASE Honest'
    <3>1. Honest /\ p \in Workers \cup Retriers /\ seen[p] = wf.lifecycle
      BY <1>7, <2>4, <2>6 DEF Adopt, At
    <3>2. sched'.wf /\ sched'.status = ResultStatus(p) /\ wf' = wf /\ seen' = seen
      BY <1>7 DEF Adopt, SetSchedule
    <3>3. sched'.status \in Completed => wf'.lifecycle = sched'.status
      BY <3>1, <3>2 DEF ResultStatus
    <3>4. pc'[p] \in {"leave", "raised"} /\ (pc'[p] = "leave" \/ used'["uncertain"] # 0)
      BY <2>1, <2>3
    <3>5. \A q \in Workers \cup Retriers : q # p => pc'[q] = pc[q] /\ pc[q] \notin LockedSteps
      BY <2>3, <2>5, <3>1
    <3>6. \A q \in Operators : pc'[q] = "idle"
      BY <2>3, <3>1
    <3>7. \A q \in Workers : pc'[q] # "retryLock"
      BY <2>3, <3>4
    <3>8. QED
      BY SMTT(60), <3>2, <3>3, <3>4, <3>5, <3>6, <3>7
  <2>7. CASE ~Honest'
    <3>1. sched'.wf
      BY <1>7 DEF Adopt, SetSchedule
    <3>2. \A q \in Workers : pc'[q] # "retryLock"
      BY <2>1, <2>3
    <3>3. QED
      BY <2>7, <3>1, <3>2
  <2>8. QED
    BY <2>6, <2>7
<1>8. ASSUME NEW p \in Processes, TryLock(p) PROVE AgreesInv'
  BY <1>8 DEF TryLock, Goto, At
<1>9. ASSUME NEW p \in Processes, MarkExecuting(p) PROVE AgreesInv'
  <2>1. PICK next \in {"execute", "resume"} : Commit(p, next)
    BY <1>9 DEF MarkExecuting, SetSchedule, At
  <2>2. next \in Locations /\ p \in Processes
    BY <2>1
  <2>3. PICK l \in Locations :
           /\ pc' = [pc EXCEPT ![p] = l]
           /\ l = next \/ (l \in {"raised", "leave"} /\ used'["uncertain"] # 0)
           /\ used'["operator"] = used["operator"] /\ used'["lockLoss"] = used["lockLoss"]
           /\ used["uncertain"] \in Nat /\ used'["uncertain"] \in Nat
           /\ used'["uncertain"] >= used["uncertain"]
    BY <2>1, <2>2, CommitOutcome
  <2>4. QED
    BY SMTT(60), <1>9, <2>1, <2>2, <2>3 DEF MarkExecuting, SetSchedule, At
<1>10. ASSUME NEW p \in Processes, ExecuteClaim(p) PROVE AgreesInv'
  <2>1. CASE /\ wf.lifecycle = "none"
              /\ wf' = [wf EXCEPT !.lifecycle = "running"]
              /\ Commit(p, "open")
              /\ UNCHANGED seen
    <3>1. PICK next \in {"open"} : Commit(p, next)
      BY <2>1 DEF AfterResult
    <3>2. next \in Locations /\ p \in Processes
      BY <3>1
    <3>3. PICK l \in Locations :
             /\ pc' = [pc EXCEPT ![p] = l]
             /\ l = next \/ (l \in {"raised", "leave"} /\ used'["uncertain"] # 0)
             /\ used'["operator"] = used["operator"] /\ used'["lockLoss"] = used["lockLoss"]
             /\ used["uncertain"] \in Nat /\ used'["uncertain"] \in Nat
             /\ used'["uncertain"] >= used["uncertain"]
      BY <3>1, <3>2, CommitOutcome
    <3>4. QED
      BY SMTT(60), <1>10, <2>1, <3>1, <3>2, <3>3 DEF ExecuteClaim, At
  <2>2. CASE /\ wf.lifecycle # "none"
              /\ seen' = [seen EXCEPT ![p] = wf.lifecycle]
              /\ Goto(p, IF p \in Operators \/ wf.lifecycle \in Completed THEN AfterResult(p)
                         ELSE "resume")
              /\ UNCHANGED <<wf, used>>
    BY SMTT(60), <1>10, <2>2 DEF ExecuteClaim, Goto, At, AfterResult
  <2>3. QED
    BY <1>10, <2>1, <2>2 DEF ExecuteClaim
<1>11. ASSUME NEW p \in Processes, Resume(p) PROVE AgreesInv'
  BY <1>11 DEF Resume, Goto, At, AfterResult
<1>12. ASSUME NEW p \in Processes, SetLifecycle(p) PROVE AgreesInv'
  <2>1. PICK next \in {"snapshot", "finish"} : Commit(p, next)
    BY <1>12 DEF SetLifecycle, At
  <2>2. next \in Locations /\ p \in Processes
    BY <2>1
  <2>3. PICK l \in Locations :
           /\ pc' = [pc EXCEPT ![p] = l]
           /\ l = next \/ (l \in {"raised", "leave"} /\ used'["uncertain"] # 0)
           /\ used'["operator"] = used["operator"] /\ used'["lockLoss"] = used["lockLoss"]
           /\ used["uncertain"] \in Nat /\ used'["uncertain"] \in Nat
           /\ used'["uncertain"] >= used["uncertain"]
    BY <2>1, <2>2, CommitOutcome
  <2>4. QED
    BY SMTT(60), <1>12, <2>1, <2>2, <2>3 DEF SetLifecycle, At
<1>13. ASSUME NEW p \in Processes, ClaimSnapshot(p) PROVE AgreesInv'
  BY <1>13 DEF ClaimSnapshot, Goto, At, Spend
<1>14. ASSUME NEW p \in Processes, Fetch(p) PROVE AgreesInv'
  BY <1>14 DEF Fetch, Goto, At
<1>15. ASSUME NEW p \in Processes, Publish(p) PROVE AgreesInv'
  BY <1>15 DEF Publish, Goto, At, Spend
<1>16. ASSUME NEW p \in Processes, AttachSnapshot(p) PROVE AgreesInv'
  <2>1. PICK next \in {"analyse"} : Commit(p, next)
    BY <1>16 DEF AttachSnapshot, At
  <2>2. next \in Locations /\ p \in Processes
    BY <2>1
  <2>3. PICK l \in Locations :
           /\ pc' = [pc EXCEPT ![p] = l]
           /\ l = next \/ (l \in {"raised", "leave"} /\ used'["uncertain"] # 0)
           /\ used'["operator"] = used["operator"] /\ used'["lockLoss"] = used["lockLoss"]
           /\ used["uncertain"] \in Nat /\ used'["uncertain"] \in Nat
           /\ used'["uncertain"] >= used["uncertain"]
    BY <2>1, <2>2, CommitOutcome
  <2>4. QED
    BY SMTT(60), <1>16, <2>1, <2>2, <2>3 DEF AttachSnapshot, At
<1>17. ASSUME NEW p \in Processes, Finish(p) PROVE AgreesInv'
  <2>1. CASE /\ \E outcome \in Completed :
                 /\ wf' = [wf EXCEPT !.lifecycle = outcome]
                 /\ seen' = [seen EXCEPT ![p] = outcome]
              /\ Commit(p, AfterResult(p))
    <3>1. PICK next \in {"leave", "record"} : Commit(p, next)
      BY <2>1 DEF AfterResult
    <3>2. next \in Locations /\ p \in Processes
      BY <3>1
    <3>3. PICK l \in Locations :
             /\ pc' = [pc EXCEPT ![p] = l]
             /\ l = next \/ (l \in {"raised", "leave"} /\ used'["uncertain"] # 0)
             /\ used'["operator"] = used["operator"] /\ used'["lockLoss"] = used["lockLoss"]
             /\ used["uncertain"] \in Nat /\ used'["uncertain"] \in Nat
             /\ used'["uncertain"] >= used["uncertain"]
      BY <3>1, <3>2, CommitOutcome
    <3>4. QED
      BY SMTT(60), <1>17, <2>1, <3>1, <3>2, <3>3 DEF Finish, AfterResult, At
  <2>2. CASE Goto(p, "failing") /\ UNCHANGED <<wf, seen, used>>
    BY SMTT(60), <1>17, <2>2 DEF Finish, Goto, At
  <2>3. QED
    BY <1>17, <2>1, <2>2 DEF Finish
<1>18. ASSUME NEW p \in Processes, FailWorkflow(p) PROVE AgreesInv'
  BY <1>18 DEF FailWorkflow, Goto, At
<1>19. ASSUME NEW p \in Processes, Record(p) PROVE AgreesInv'
  <2>1. PICK next \in {"leave"} : Commit(p, next)
    BY <1>19 DEF Record, SetSchedule, ResultStatus, At
  <2>2. next \in Locations /\ p \in Processes
    BY <2>1
  <2>3. PICK l \in Locations :
           /\ pc' = [pc EXCEPT ![p] = l]
           /\ l = next \/ (l \in {"raised", "leave"} /\ used'["uncertain"] # 0)
           /\ used'["operator"] = used["operator"] /\ used'["lockLoss"] = used["lockLoss"]
           /\ used["uncertain"] \in Nat /\ used'["uncertain"] \in Nat
           /\ used'["uncertain"] >= used["uncertain"]
    BY <2>1, <2>2, CommitOutcome
  <2>4. Honest' => Honest
    BY <2>3
  <2>5. Honest => \A q \in Workers \cup Retriers : q # p => pc[q] \notin LockedSteps
    BY <1>19 DEF Record, At
  <2>6. CASE Honest'
    <3>1. Honest /\ p \in Workers \cup Retriers /\ seen[p] = wf.lifecycle
      BY <1>19, <2>4, <2>6 DEF Record, At
    <3>2. sched'.wf /\ sched'.status = ResultStatus(p) /\ wf' = wf /\ seen' = seen
      BY <1>19 DEF Record, SetSchedule
    <3>3. sched'.status \in Completed => wf'.lifecycle = sched'.status
      BY <3>1, <3>2 DEF ResultStatus
    <3>4. pc'[p] \in {"leave", "raised"} /\ (pc'[p] = "leave" \/ used'["uncertain"] # 0)
      BY <2>1, <2>3
    <3>5. \A q \in Workers \cup Retriers : q # p => pc'[q] = pc[q] /\ pc[q] \notin LockedSteps
      BY <2>3, <2>5, <3>1
    <3>6. \A q \in Operators : pc'[q] = "idle"
      BY <2>3, <3>1
    <3>7. \A q \in Workers : pc'[q] # "retryLock"
      BY <2>3, <3>4
    <3>8. QED
      BY SMTT(60), <3>2, <3>3, <3>4, <3>5, <3>6, <3>7
  <2>7. CASE ~Honest'
    <3>1. sched'.wf
      BY <1>19 DEF Record, SetSchedule
    <3>2. \A q \in Workers : pc'[q] # "retryLock"
      BY <2>1, <2>3
    <3>3. QED
      BY <2>7, <3>1, <3>2
  <2>8. QED
    BY <2>6, <2>7
<1>20. ASSUME NEW p \in Processes, Raised(p) PROVE AgreesInv'
  BY <1>20 DEF Raised, Goto, At
<1>21. ASSUME NEW p \in Processes, RecordFailure(p) PROVE AgreesInv'
  <2>1. PICK next \in {"leave"} : Commit(p, next)
    BY <1>21 DEF RecordFailure, SetSchedule, At
  <2>2. next \in Locations /\ p \in Processes
    BY <2>1
  <2>3. PICK l \in Locations :
           /\ pc' = [pc EXCEPT ![p] = l]
           /\ l = next \/ (l \in {"raised", "leave"} /\ used'["uncertain"] # 0)
           /\ used'["operator"] = used["operator"] /\ used'["lockLoss"] = used["lockLoss"]
           /\ used["uncertain"] \in Nat /\ used'["uncertain"] \in Nat
           /\ used'["uncertain"] >= used["uncertain"]
    BY <2>1, <2>2, CommitOutcome
  <2>4. QED
    BY SMTT(60), <1>21, <2>1, <2>2, <2>3 DEF RecordFailure, SetSchedule, At
<1>22. ASSUME NEW p \in Processes, Leave(p) PROVE AgreesInv'
  BY <1>22 DEF Leave, Goto, At
<1>23. ASSUME NEW p \in Retriers, RetryStart(p) PROVE AgreesInv'
  BY <1>23, ProcessAssumption DEF RetryStart, Goto, At, Spend, Processes
<1>24. ASSUME NEW p \in Operators, OperatorStart(p) PROVE AgreesInv'
  BY <1>24, ProcessAssumption DEF OperatorStart, Goto, At, Spend, Processes
<1>25. ASSUME NEW p \in Processes, CallFails(p) PROVE AgreesInv'
  BY <1>25 DEF CallFails, Goto, At, Handler, Spend
<1>26. ASSUME NEW p \in Processes, CommitLost(p) PROVE AgreesInv'
  BY <1>26 DEF CommitLost, Goto, At, Spend
<1>27. ASSUME NEW p \in Processes, Crash(p) PROVE AgreesInv'
  BY <1>27 DEF Crash, Goto, At, Spend
<1>28. ASSUME LoseLock PROVE AgreesInv'
  BY <1>28 DEF LoseLock, Spend
<1>29. ASSUME Tick PROVE AgreesInv'
  BY <1>29 DEF Tick
<1>30. ASSUME UNCHANGED vars PROVE AgreesInv'
  BY <1>30 DEF vars
<1>31. QED
  BY <1>1, <1>2, <1>3, <1>4, <1>5, <1>6, <1>7, <1>8, <1>9, <1>10, <1>11, <1>12,
     <1>13, <1>14, <1>15, <1>16, <1>17, <1>18, <1>19, <1>20, <1>21, <1>22, <1>23, <1>24,
     <1>25, <1>26, <1>27, <1>28, <1>29, <1>30
  DEF Next, TickStep, Continue, Environment, ReturnTerminal, Processes


\* There is one scheduling worker (compose.yaml starts one container).
OneWorker == \A p, q \in Workers : p = q

\* Until a command goes round the lock: whoever decides that the capture was
\* missed knows that there is no workflow, and afterwards the worker is done.
MissedInv ==
    /\ wf.lifecycle = "none" => fetches = 0
    /\ \A p \in Processes : pc[p] \in {"open", "failing"} => wf.lifecycle # "none"
    /\ used["operator"] = 0 =>
        /\ \A p \in Operators : pc[p] = "idle"
        /\ \A p \in Workers : pc[p] = "missed" => wf.lifecycle = "none"
        /\ sched.status = "missed" =>
              /\ wf.lifecycle = "none"
              /\ \A p \in Workers : pc[p] \in {"idle", "leave"}

\* No step creates a workflow behind a missed capture.
LEMMA MissedInvStep ==
    ASSUME OneWorker, TypeOK, SnapshotChain, RetryOnlyAnalyses, MissedInv, [Next]_vars PROVE MissedInv'
<1> USE ProcessAssumption DEF MissedInv, OneWorker, Processes, TypeOK, rows, Locations, SnapshotChain,
     RetryOnlyAnalyses, TickSteps, LockedSteps, WorkflowSteps, SnapshotSteps, FaultKinds, Completed,
     Lifecycles, Terminal
<1>1. ASSUME NEW p \in Workers, ReadSchedule(p) PROVE MissedInv'
  BY <1>1, ProcessAssumption DEF ReadSchedule, Goto, At, Processes
<1>2. ASSUME NEW p \in Workers, EnsureSchedule(p) PROVE MissedInv'
  <2>1. PICK next \in {"leave", "preflight", "check"} : Commit(p, next)
    BY <1>2 DEF EnsureSchedule, EnsuredRow, At
  <2>2. next \in Locations /\ p \in Processes
    BY <2>1
  <2>3. PICK l \in Locations :
           /\ pc' = [pc EXCEPT ![p] = l]
           /\ l = next \/ (l \in {"raised", "leave"} /\ used'["uncertain"] # 0)
           /\ used'["operator"] = used["operator"] /\ used'["lockLoss"] = used["lockLoss"]
           /\ used["uncertain"] \in Nat /\ used'["uncertain"] \in Nat
           /\ used'["uncertain"] >= used["uncertain"]
    BY <2>1, <2>2, CommitOutcome
  <2>4. QED
    BY SMTT(60), <1>2, <2>1, <2>2, <2>3 DEF EnsureSchedule, EnsuredRow, At
<1>3. ASSUME NEW p \in Workers, RecordPreflight(p) PROVE MissedInv'
  <2>1. PICK next \in {"leave", "check"} : Commit(p, next)
    BY <1>3 DEF RecordPreflight, PreflightRow, At
  <2>2. next \in Locations /\ p \in Processes
    BY <2>1
  <2>3. PICK l \in Locations :
           /\ pc' = [pc EXCEPT ![p] = l]
           /\ l = next \/ (l \in {"raised", "leave"} /\ used'["uncertain"] # 0)
           /\ used'["operator"] = used["operator"] /\ used'["lockLoss"] = used["lockLoss"]
           /\ used["uncertain"] \in Nat /\ used'["uncertain"] \in Nat
           /\ used'["uncertain"] >= used["uncertain"]
    BY <2>1, <2>2, CommitOutcome
  <2>4. QED
    BY SMTT(60), <1>3, <2>1, <2>2, <2>3 DEF RecordPreflight, PreflightRow, At
<1>4. ASSUME NEW p \in Workers, CheckWorkflow(p) PROVE MissedInv'
  BY <1>4, ProcessAssumption DEF CheckWorkflow, Goto, At, Processes
<1>5. ASSUME NEW p \in Workers, WriteMissed(p) PROVE MissedInv'
  <2>1. CASE Coherent("missed") /\ SetSchedule("missed", FALSE) /\ Commit(p, "leave")
    <3>1. PICK next \in {"leave"} : Commit(p, next)
      BY <2>1 DEF AfterResult
    <3>2. next \in Locations /\ p \in Processes
      BY <3>1
    <3>3. PICK l \in Locations :
             /\ pc' = [pc EXCEPT ![p] = l]
             /\ l = next \/ (l \in {"raised", "leave"} /\ used'["uncertain"] # 0)
             /\ used'["operator"] = used["operator"] /\ used'["lockLoss"] = used["lockLoss"]
             /\ used["uncertain"] \in Nat /\ used'["uncertain"] \in Nat
             /\ used'["uncertain"] >= used["uncertain"]
      BY <3>1, <3>2, CommitOutcome
    <3>4. pc'[p] = "leave"
      BY <1>5, <2>1, <3>2, CommitMoves DEF WriteMissed, At
    <3>5. QED
      BY SMTT(60), <1>5, <2>1, <3>3, <3>4 DEF WriteMissed, SetSchedule, Coherent, At
  <2>2. CASE Goto(p, "leave") /\ UNCHANGED <<sched, used>>
    BY SMTT(60), <1>5, <2>2 DEF WriteMissed, Goto, At
  <2>3. QED
    BY <1>5, <2>1, <2>2 DEF WriteMissed
<1>6. ASSUME NEW p \in Workers, Recheck(p) PROVE MissedInv'
  BY <1>6, ProcessAssumption DEF Recheck, Goto, At, Processes
<1>7. ASSUME NEW p \in Workers, Adopt(p) PROVE MissedInv'
  <2>1. PICK next \in {"leave"} : Commit(p, next)
    BY <1>7 DEF Adopt, SetSchedule, ResultStatus, At
  <2>2. next \in Locations /\ p \in Processes
    BY <2>1
  <2>3. PICK l \in Locations :
           /\ pc' = [pc EXCEPT ![p] = l]
           /\ l = next \/ (l \in {"raised", "leave"} /\ used'["uncertain"] # 0)
           /\ used'["operator"] = used["operator"] /\ used'["lockLoss"] = used["lockLoss"]
           /\ used["uncertain"] \in Nat /\ used'["uncertain"] \in Nat
           /\ used'["uncertain"] >= used["uncertain"]
    BY <2>1, <2>2, CommitOutcome
  <2>4. QED
    BY SMTT(60), <1>7, <2>1, <2>2, <2>3 DEF Adopt, SetSchedule, ResultStatus, At
<1>8. ASSUME NEW p \in Processes, TryLock(p) PROVE MissedInv'
  BY <1>8 DEF TryLock, Goto, At
<1>9. ASSUME NEW p \in Processes, MarkExecuting(p) PROVE MissedInv'
  <2>1. PICK next \in {"execute", "resume"} : Commit(p, next)
    BY <1>9 DEF MarkExecuting, SetSchedule, At
  <2>2. next \in Locations /\ p \in Processes
    BY <2>1
  <2>3. PICK l \in Locations :
           /\ pc' = [pc EXCEPT ![p] = l]
           /\ l = next \/ (l \in {"raised", "leave"} /\ used'["uncertain"] # 0)
           /\ used'["operator"] = used["operator"] /\ used'["lockLoss"] = used["lockLoss"]
           /\ used["uncertain"] \in Nat /\ used'["uncertain"] \in Nat
           /\ used'["uncertain"] >= used["uncertain"]
    BY <2>1, <2>2, CommitOutcome
  <2>4. QED
    BY SMTT(60), <1>9, <2>1, <2>2, <2>3 DEF MarkExecuting, SetSchedule, At
<1>10. ASSUME NEW p \in Processes, ExecuteClaim(p) PROVE MissedInv'
  <2>1. CASE /\ wf.lifecycle = "none"
              /\ wf' = [wf EXCEPT !.lifecycle = "running"]
              /\ Commit(p, "open")
              /\ UNCHANGED seen
    <3>1. PICK next \in {"open"} : Commit(p, next)
      BY <2>1 DEF AfterResult
    <3>2. next \in Locations /\ p \in Processes
      BY <3>1
    <3>3. PICK l \in Locations :
             /\ pc' = [pc EXCEPT ![p] = l]
             /\ l = next \/ (l \in {"raised", "leave"} /\ used'["uncertain"] # 0)
             /\ used'["operator"] = used["operator"] /\ used'["lockLoss"] = used["lockLoss"]
             /\ used["uncertain"] \in Nat /\ used'["uncertain"] \in Nat
             /\ used'["uncertain"] >= used["uncertain"]
      BY <3>1, <3>2, CommitOutcome
    <3>4. QED
      BY SMTT(60), <1>10, <2>1, <3>1, <3>2, <3>3 DEF ExecuteClaim, At
  <2>2. CASE /\ wf.lifecycle # "none"
              /\ seen' = [seen EXCEPT ![p] = wf.lifecycle]
              /\ Goto(p, IF p \in Operators \/ wf.lifecycle \in Completed THEN AfterResult(p)
                         ELSE "resume")
              /\ UNCHANGED <<wf, used>>
    BY SMTT(60), <1>10, <2>2 DEF ExecuteClaim, Goto, At, AfterResult
  <2>3. QED
    BY <1>10, <2>1, <2>2 DEF ExecuteClaim
<1>11. ASSUME NEW p \in Processes, Resume(p) PROVE MissedInv'
  BY <1>11 DEF Resume, Goto, At, AfterResult
<1>12. ASSUME NEW p \in Processes, SetLifecycle(p) PROVE MissedInv'
  <2>1. PICK next \in {"snapshot", "finish"} : Commit(p, next)
    BY <1>12 DEF SetLifecycle, At
  <2>2. next \in Locations /\ p \in Processes
    BY <2>1
  <2>3. PICK l \in Locations :
           /\ pc' = [pc EXCEPT ![p] = l]
           /\ l = next \/ (l \in {"raised", "leave"} /\ used'["uncertain"] # 0)
           /\ used'["operator"] = used["operator"] /\ used'["lockLoss"] = used["lockLoss"]
           /\ used["uncertain"] \in Nat /\ used'["uncertain"] \in Nat
           /\ used'["uncertain"] >= used["uncertain"]
    BY <2>1, <2>2, CommitOutcome
  <2>4. QED
    BY SMTT(60), <1>12, <2>1, <2>2, <2>3 DEF SetLifecycle, At
<1>13. ASSUME NEW p \in Processes, ClaimSnapshot(p) PROVE MissedInv'
  BY <1>13 DEF ClaimSnapshot, Goto, At, Spend
<1>14. ASSUME NEW p \in Processes, Fetch(p) PROVE MissedInv'
  BY <1>14 DEF Fetch, Goto, At
<1>15. ASSUME NEW p \in Processes, Publish(p) PROVE MissedInv'
  BY <1>15 DEF Publish, Goto, At, Spend
<1>16. ASSUME NEW p \in Processes, AttachSnapshot(p) PROVE MissedInv'
  <2>1. PICK next \in {"analyse"} : Commit(p, next)
    BY <1>16 DEF AttachSnapshot, At
  <2>2. next \in Locations /\ p \in Processes
    BY <2>1
  <2>3. PICK l \in Locations :
           /\ pc' = [pc EXCEPT ![p] = l]
           /\ l = next \/ (l \in {"raised", "leave"} /\ used'["uncertain"] # 0)
           /\ used'["operator"] = used["operator"] /\ used'["lockLoss"] = used["lockLoss"]
           /\ used["uncertain"] \in Nat /\ used'["uncertain"] \in Nat
           /\ used'["uncertain"] >= used["uncertain"]
    BY <2>1, <2>2, CommitOutcome
  <2>4. QED
    BY SMTT(60), <1>16, <2>1, <2>2, <2>3 DEF AttachSnapshot, At
<1>17. ASSUME NEW p \in Processes, Finish(p) PROVE MissedInv'
  <2>1. CASE /\ \E outcome \in Completed :
                 /\ wf' = [wf EXCEPT !.lifecycle = outcome]
                 /\ seen' = [seen EXCEPT ![p] = outcome]
              /\ Commit(p, AfterResult(p))
    <3>1. PICK next \in {"leave", "record"} : Commit(p, next)
      BY <2>1 DEF AfterResult
    <3>2. next \in Locations /\ p \in Processes
      BY <3>1
    <3>3. PICK l \in Locations :
             /\ pc' = [pc EXCEPT ![p] = l]
             /\ l = next \/ (l \in {"raised", "leave"} /\ used'["uncertain"] # 0)
             /\ used'["operator"] = used["operator"] /\ used'["lockLoss"] = used["lockLoss"]
             /\ used["uncertain"] \in Nat /\ used'["uncertain"] \in Nat
             /\ used'["uncertain"] >= used["uncertain"]
      BY <3>1, <3>2, CommitOutcome
    <3>4. QED
      BY SMTT(60), <1>17, <2>1, <3>1, <3>2, <3>3 DEF Finish, AfterResult, At
  <2>2. CASE Goto(p, "failing") /\ UNCHANGED <<wf, seen, used>>
    BY SMTT(60), <1>17, <2>2 DEF Finish, Goto, At
  <2>3. QED
    BY <1>17, <2>1, <2>2 DEF Finish
<1>18. ASSUME NEW p \in Processes, FailWorkflow(p) PROVE MissedInv'
  BY <1>18 DEF FailWorkflow, Goto, At
<1>19. ASSUME NEW p \in Processes, Record(p) PROVE MissedInv'
  <2>1. PICK next \in {"leave"} : Commit(p, next)
    BY <1>19 DEF Record, SetSchedule, ResultStatus, At
  <2>2. next \in Locations /\ p \in Processes
    BY <2>1
  <2>3. PICK l \in Locations :
           /\ pc' = [pc EXCEPT ![p] = l]
           /\ l = next \/ (l \in {"raised", "leave"} /\ used'["uncertain"] # 0)
           /\ used'["operator"] = used["operator"] /\ used'["lockLoss"] = used["lockLoss"]
           /\ used["uncertain"] \in Nat /\ used'["uncertain"] \in Nat
           /\ used'["uncertain"] >= used["uncertain"]
    BY <2>1, <2>2, CommitOutcome
  <2>4. QED
    BY SMTT(60), <1>19, <2>1, <2>2, <2>3 DEF Record, SetSchedule, ResultStatus, At
<1>20. ASSUME NEW p \in Processes, Raised(p) PROVE MissedInv'
  BY <1>20 DEF Raised, Goto, At
<1>21. ASSUME NEW p \in Processes, RecordFailure(p) PROVE MissedInv'
  <2>1. PICK next \in {"leave"} : Commit(p, next)
    BY <1>21 DEF RecordFailure, SetSchedule, At
  <2>2. next \in Locations /\ p \in Processes
    BY <2>1
  <2>3. PICK l \in Locations :
           /\ pc' = [pc EXCEPT ![p] = l]
           /\ l = next \/ (l \in {"raised", "leave"} /\ used'["uncertain"] # 0)
           /\ used'["operator"] = used["operator"] /\ used'["lockLoss"] = used["lockLoss"]
           /\ used["uncertain"] \in Nat /\ used'["uncertain"] \in Nat
           /\ used'["uncertain"] >= used["uncertain"]
    BY <2>1, <2>2, CommitOutcome
  <2>4. QED
    BY SMTT(60), <1>21, <2>1, <2>2, <2>3 DEF RecordFailure, SetSchedule, At
<1>22. ASSUME NEW p \in Processes, Leave(p) PROVE MissedInv'
  BY <1>22 DEF Leave, Goto, At
<1>23. ASSUME NEW p \in Retriers, RetryStart(p) PROVE MissedInv'
  BY <1>23, ProcessAssumption DEF RetryStart, Goto, At, Spend, Processes
<1>24. ASSUME NEW p \in Operators, OperatorStart(p) PROVE MissedInv'
  BY <1>24, ProcessAssumption DEF OperatorStart, Goto, At, Spend, Processes
<1>25. ASSUME NEW p \in Processes, CallFails(p) PROVE MissedInv'
  BY <1>25 DEF CallFails, Goto, At, Handler, Spend
<1>26. ASSUME NEW p \in Processes, CommitLost(p) PROVE MissedInv'
  BY <1>26 DEF CommitLost, Goto, At, Spend
<1>27. ASSUME NEW p \in Processes, Crash(p) PROVE MissedInv'
  BY <1>27 DEF Crash, Goto, At, Spend
<1>28. ASSUME LoseLock PROVE MissedInv'
  BY <1>28 DEF LoseLock, Spend
<1>29. ASSUME Tick PROVE MissedInv'
  BY <1>29 DEF Tick
<1>30. ASSUME UNCHANGED vars PROVE MissedInv'
  BY <1>30 DEF vars
<1>31. QED
  BY <1>1, <1>2, <1>3, <1>4, <1>5, <1>6, <1>7, <1>8, <1>9, <1>10, <1>11, <1>12,
     <1>13, <1>14, <1>15, <1>16, <1>17, <1>18, <1>19, <1>20, <1>21, <1>22, <1>23, <1>24,
     <1>25, <1>26, <1>27, <1>28, <1>29, <1>30
  DEF Next, TickStep, Continue, Environment, ReturnTerminal, Processes


-----------------------------------------------------------------------------
\* A step spends at most one event of the environment.
LEMMA StepSpends ==
    ASSUME [Next]_vars PROVE used' = used \/ \E j : Spend(j)
<1>3. ASSUME NEW p, NEW next, Commit(p, next) PROVE used' = used \/ \E j : Spend(j)
  BY <1>3 DEF Commit
<1>4. ASSUME NEW p \in Processes,
             \/ TickStep(p) \/ ReturnTerminal(p) \/ RetryStart(p) \/ OperatorStart(p)
             \/ CallFails(p) \/ CommitLost(p) \/ Crash(p)
      PROVE  used' = used \/ \E j : Spend(j)
  BY <1>3, <1>4 DEF TickStep, ReadSchedule, EnsureSchedule, RecordPreflight, CheckWorkflow,
     WriteMissed, Recheck, Adopt, ReturnTerminal, RetryStart, OperatorStart, CallFails, CommitLost,
     Crash, vars
<1>5. ASSUME NEW p \in Processes,
             \/ TryLock(p) \/ MarkExecuting(p) \/ ExecuteClaim(p) \/ Resume(p) \/ SetLifecycle(p)
             \/ ClaimSnapshot(p) \/ Fetch(p) \/ Publish(p)
      PROVE  used' = used \/ \E j : Spend(j)
  BY <1>3, <1>5 DEF TryLock, MarkExecuting, ExecuteClaim, Resume, SetLifecycle, ClaimSnapshot, Fetch,
     Publish
<1>6. ASSUME NEW p \in Processes,
             \/ AttachSnapshot(p) \/ Finish(p) \/ FailWorkflow(p)
             \/ Record(p) \/ Raised(p) \/ RecordFailure(p) \/ Leave(p)
      PROVE  used' = used \/ \E j : Spend(j)
  BY <1>3, <1>6 DEF AttachSnapshot, Finish, FailWorkflow, Record, Raised, RecordFailure, Leave
<1>7. ASSUME LoseLock \/ Tick \/ UNCHANGED vars PROVE used' = used \/ \E j : Spend(j)
  BY <1>7 DEF LoseLock, Tick, vars
<1>8. used' = used \/ \E j : Spend(j)
  BY <1>4, <1>5, <1>6, <1>7 DEF Next, Continue, Environment, Processes
<1>9. QED
  BY <1>8

\* Events are only added, and only within their bounds.
LEMMA BoundsStep ==
    ASSUME TypeOK, [Next]_vars, NEW k \in FaultKinds
    PROVE  /\ used[k] <= used'[k]
           /\ used[k] <= MaxFaults[k] => used'[k] <= MaxFaults[k]
<1>1. used[k] \in Nat /\ MaxFaults[k] \in Nat /\ used \in [FaultKinds -> Nat]
  BY EnvironmentAssumption DEF TypeOK
<1>2. CASE used' = used
  BY <1>1, <1>2
<1>3. ASSUME NEW j, Spend(j)
      PROVE  used[k] <= used'[k] /\ (used[k] <= MaxFaults[k] => used'[k] <= MaxFaults[k])
  <2>1. used[j] < MaxFaults[j] /\ used' = [used EXCEPT ![j] = @ + 1]
    BY <1>3 DEF Spend
  <2>2. CASE j = k
    BY <1>1, <2>1, <2>2
  <2>3. CASE j # k
    BY <1>1, <2>1, <2>3
  <2>4. QED
    BY <2>2, <2>3
<1>4. QED
  BY <1>2, <1>3, StepSpends

\* No kind of event has happened more often than its bound.
WithinBounds == \A k \in FaultKinds : used[k] <= MaxFaults[k]

\* The invariants hold at first.
LEMMA AgreesInit == Init => AgreesInv /\ MissedInv /\ WithinBounds
  BY EnvironmentAssumption DEF Init, WithinBounds, AgreesInv, MissedInv, Honest, Completed, WorkflowSteps,
     SnapshotSteps, Processes

\* Agreement holds in every behaviour.
LEMMA AgreesInvariant == Spec => [](ScheduleInv /\ AgreesInv)
<1>1. ScheduleInv /\ AgreesInv /\ [Next]_vars => ScheduleInv' /\ AgreesInv'
  BY ScheduleInvStep, AgreesInvStep DEF ScheduleInv
<1>2. QED
  BY <1>1, ScheduleInvInit, AgreesInit, PTL DEF Spec

\* The bounds hold in every behaviour.
LEMMA BoundsInvariant == Spec => []WithinBounds
<1>1. TypeOK /\ WithinBounds /\ [Next]_vars => WithinBounds'
  BY BoundsStep DEF WithinBounds
<1>2. QED
  BY <1>1, AgreesInit, ScheduleTypeCorrect, PTL DEF Spec

\* Unless a session loses the lock or a command goes round it, a completed
\* schedule tells what the workflow row tells.
THEOREM ScheduleCompletedAgrees == Spec => []CompletedAgrees
<1>1. ScheduleInv /\ AgreesInv => CompletedAgrees
  BY DEF AgreesInv, Honest, CompletedAgrees
<1>2. QED
  BY <1>1, AgreesInvariant, PTL

\* With one worker, a missed capture has no workflow behind it and no live data,
\* unless a command went round the lock.
THEOREM ScheduleMissedMeansNoWorkflow == OneWorker => (Spec => []MissedMeansNoWorkflow)
<1> SUFFICES ASSUME OneWorker PROVE Spec => []MissedMeansNoWorkflow
  OBVIOUS
<1>1. ScheduleInv /\ MissedInv /\ [Next]_vars => ScheduleInv' /\ MissedInv'
  BY ScheduleInvStep, MissedInvStep DEF ScheduleInv
<1>2. MissedInv => MissedMeansNoWorkflow
  BY DEF MissedInv, MissedMeansNoWorkflow
<1>3. QED
  BY <1>1, <1>2, ScheduleInvInit, AgreesInit, PTL DEF Spec

\* While nothing goes round the lock and every commit is acknowledged, only a retry
\* that marks the schedule takes a completed status back.
LEMMA CompletedIsFinalStep ==
    ASSUME ScheduleInv, AgreesInv, used["operator"] = 0, [Next]_vars,
           used'["lockLoss"] = 0, used'["uncertain"] = 0,
           used["lockLoss"] = 0, used["uncertain"] = 0,
           sched.status \in Completed, sched'.status # sched.status
    PROVE  \E p \in Retriers : At(p, "mark")
<1> USE DEF ScheduleInv, TypeOK, AgreesInv, Honest, LockHeld
<1>1. ASSUME NEW p \in Workers, EnsureSchedule(p) PROVE FALSE
  BY <1>1 DEF EnsureSchedule, EnsuredRow, Completed
<1>2. ASSUME NEW p \in Workers, RecordPreflight(p) PROVE FALSE
  BY <1>2 DEF RecordPreflight, PreflightRow, Terminal
<1>3. ASSUME NEW p \in Workers, WriteMissed(p) PROVE FALSE
  BY <1>3 DEF WriteMissed, Coherent, SetSchedule
<1>4. ASSUME NEW p \in Workers, Adopt(p) PROVE FALSE
  BY <1>4 DEF Adopt, At, SetSchedule, ResultStatus
<1>5. ASSUME NEW p \in Processes, MarkExecuting(p) PROVE \E q \in Retriers : At(q, "mark")
  BY <1>5 DEF MarkExecuting, At, Processes
<1>6. ASSUME NEW p \in Processes, Record(p) \/ RecordFailure(p) PROVE FALSE
  BY <1>6 DEF Record, RecordFailure, At, Processes
<1>7. ASSUME NEW p \in Processes,
             \/ ReadSchedule(p) \/ CheckWorkflow(p) \/ Recheck(p) \/ ReturnTerminal(p)
             \/ RetryStart(p) \/ OperatorStart(p) \/ CallFails(p) \/ CommitLost(p) \/ Crash(p)
      PROVE  UNCHANGED sched
  BY <1>7 DEF ReadSchedule, CheckWorkflow, Recheck, ReturnTerminal, RetryStart, OperatorStart,
     CallFails, CommitLost, Crash, rows, vars
<1>8. ASSUME NEW p \in Processes,
             \/ TryLock(p) \/ ExecuteClaim(p) \/ Resume(p) \/ SetLifecycle(p)
             \/ ClaimSnapshot(p) \/ Fetch(p) \/ Publish(p) \/ AttachSnapshot(p) \/ Finish(p)
             \/ FailWorkflow(p) \/ Raised(p) \/ Leave(p)
      PROVE  UNCHANGED sched
  BY <1>8 DEF TryLock, ExecuteClaim, Resume, SetLifecycle, ClaimSnapshot, Fetch, Publish,
     AttachSnapshot, Finish, FailWorkflow, Raised, Leave, rows
<1>9. ASSUME LoseLock \/ Tick \/ UNCHANGED vars PROVE UNCHANGED sched
  BY <1>9 DEF LoseLock, Tick, rows, vars
<1>10. QED
  BY <1>1, <1>2, <1>3, <1>4, <1>5, <1>6, <1>7, <1>8, <1>9
  DEF Next, TickStep, Continue, Environment, Processes

\* A completed schedule stays as it is, however stale the row another worker
\* decided on; explicit retries, lost locks and unknown outcomes excepted.
THEOREM ScheduleCompletedIsFinal == MaxFaults["operator"] = 0 => (Spec => CompletedIsFinal)
<1> SUFFICES ASSUME MaxFaults["operator"] = 0 PROVE Spec => CompletedIsFinal
  OBVIOUS
<1> DEFINE Final ==
      used'["lockLoss"] = 0 /\ used'["uncertain"] = 0
      /\ sched.status \in Completed /\ sched'.status # sched.status
      => \E p \in Retriers : At(p, "mark")
<1>1. ASSUME ScheduleInv, AgreesInv, WithinBounds, [Next]_vars PROVE [Final]_vars
  <2>1. used["operator"] = 0
    BY <1>1 DEF ScheduleInv, TypeOK, FaultKinds, WithinBounds
  <2>2. \A k \in FaultKinds : used'[k] = 0 => used[k] = 0
    BY <1>1, BoundsStep DEF ScheduleInv, TypeOK
  <2>3. Final
    BY <1>1, <2>1, <2>2, CompletedIsFinalStep DEF FaultKinds
  <2>4. QED
    BY <2>3
<1>2. QED
  BY <1>1, AgreesInvariant, BoundsInvariant, PTL DEF Spec, CompletedIsFinal

-----------------------------------------------------------------------------
(* Without a fault nothing fails.                                           *)

\* Nothing but retries has happened so far.
Calm == \A k \in FaultKinds \ {"retry"} : used[k] = 0

\* While all is calm, a workflow that is running has somebody at work on it, who finds
\* what it needs: the window open, the snapshot run not begun, the calendar agreeing.
SmoothInv ==
    Calm =>
        /\ sched.status # "failed" /\ wf.lifecycle # "failed"
        /\ wf.lifecycle = "none" => snap = "none"
        /\ wf.lifecycle = "running" =>
              \E p \in Workers \cup Retriers : pc[p] \in WorkflowSteps
        /\ \A p \in Workers \cup Retriers :
              /\ pc[p] \notin {"failing", "raised", "recordFailure"}
              /\ pc[p] \in {"adopt", "record"} => seen[p] \in Completed
        /\ \A p \in Workers :
              /\ obs[p] <= now
              /\ pc[p] = "preflight" => trading
              /\ pc[p] \in {"check", "lock"} \cup LockedSteps => trading /\ now >= Intended
              /\ pc[p] = "mark" => seen[p] = "none"
              /\ pc[p] \in {"mark", "execute"} => wf.lifecycle = "none"
              /\ pc[p] \in {"open", "snapshot"} => snap = "none"
              /\ pc[p] # "resume"

\* A step that leaves all calm has spent no fault, and was calm before.
LEMMA CalmStep ==
    ASSUME TypeOK, [Next]_vars, Calm'
    PROVE  /\ Calm
           /\ \A p, next : Commit(p, next) => Goto(p, next) /\ UNCHANGED used
           /\ \A k \in FaultKinds \ {"retry"} : ~Spend(k)
<1>1. used \in [FaultKinds -> Nat]
  BY DEF TypeOK
<1>2. ASSUME NEW k \in FaultKinds \ {"retry"}, Spend(k) PROVE FALSE
  <2>1. used'[k] = used[k] + 1 /\ used[k] \in Nat
    BY <1>1, <1>2 DEF Spend
  <2>2. QED
    BY <2>1 DEF Calm
<1>3. \A p, next : Commit(p, next) => Goto(p, next) /\ UNCHANGED used
  BY <1>2 DEF Commit, FaultKinds
<1>4. \A k \in FaultKinds : used[k] <= used'[k]
  BY BoundsStep
<1>5. Calm
  BY <1>1, <1>4 DEF Calm
<1>6. QED
  BY <1>2, <1>3, <1>5

\* Without a fault no step fails, and none begins what it cannot end.
LEMMA SmoothInvStep ==
    ASSUME ScheduleInv, AgreesInv, SmoothInv, [Next]_vars PROVE SmoothInv'
<1> SUFFICES ASSUME Calm' PROVE SmoothInv'
  BY DEF SmoothInv
<1> USE TimeAssumption, ProcessAssumption
    DEF TypeOK, Locations, TickSteps, LockedSteps, WorkflowSteps, SnapshotSteps, Completed,
        Lifecycles, SnapStates, rows
<1>0. /\ TypeOK /\ Calm /\ Honest
      /\ \A k \in FaultKinds \ {"retry"} : ~Spend(k)
      /\ \A p, next : Commit(p, next) => Goto(p, next) /\ UNCHANGED used
  BY CalmStep DEF ScheduleInv, Calm, Honest, FaultKinds
<1> HIDE DEF TypeOK
<1>t. /\ now \in 0..MaxTime /\ sched.status \in Statuses /\ wf.lifecycle \in Lifecycles
      /\ pc \in [Processes -> Locations] /\ obs \in [Processes -> 0..MaxTime]
      /\ seen \in [Processes -> Lifecycles] /\ trading \in BOOLEAN
      /\ sched \in [status : Statuses, wf : BOOLEAN, preflight : BOOLEAN]
      /\ wf \in [lifecycle : Lifecycles, snapshot : BOOLEAN]
  BY <1>0 DEF TypeOK
\* One process is inside the lock, and no command is running.
<1>a. /\ \A p, q \in Workers \cup Retriers : pc[p] \in LockedSteps /\ pc[q] \in LockedSteps => p = q
      /\ \A p \in Operators : pc[p] = "idle"
      /\ \A p \in Workers \cup Retriers : pc[p] \in {"snapshot", "finish"} => wf.lifecycle = "running"
  BY <1>0 DEF ScheduleInv, LockHeld, AgreesInv, Honest
\* A retry has its snapshot and never enters the stage.
<1>r. \A p \in Retriers :
         /\ pc[p] \notin TickSteps \cup {"recheck", "adopt", "execute"} \cup SnapshotSteps
         /\ pc[p] \in {"retryLock", "mark"} => seen[p] # "none"
         /\ pc[p] \in {"retryLock", "mark", "resume"} => wf.snapshot /\ wf.lifecycle # "none"
  BY DEF ScheduleInv, RetryOnlyAnalyses
<1>s. /\ sched.status # "failed" /\ wf.lifecycle # "failed"
      /\ wf.lifecycle = "none" => snap = "none"
      /\ wf.lifecycle = "running" =>
            \E p \in Workers \cup Retriers : pc[p] \in WorkflowSteps
      /\ \A p \in Workers \cup Retriers :
            /\ pc[p] \notin {"failing", "raised", "recordFailure"}
            /\ pc[p] \in {"adopt", "record"} => seen[p] \in Completed
      /\ \A p \in Workers :
            /\ obs[p] <= now
            /\ pc[p] = "preflight" => trading
            /\ pc[p] \in {"check", "lock"} \cup LockedSteps => trading /\ now >= Intended
            /\ pc[p] = "mark" => seen[p] = "none"
            /\ pc[p] \in {"mark", "execute"} => wf.lifecycle = "none"
            /\ pc[p] \in {"open", "snapshot"} => snap = "none"
            /\ pc[p] # "resume"
  BY <1>0 DEF SmoothInv
<1> USE <1>t, <1>s
<1> USE DEF Goto, At, Processes
<1>1. ASSUME NEW p \in Workers, ReadSchedule(p) PROVE SmoothInv'
  BY <1>0, <1>a, <1>r, <1>1 DEF SmoothInv, ReadSchedule
<1>2. ASSUME NEW p \in Workers, EnsureSchedule(p) PROVE SmoothInv'
  BY <1>0, <1>a, <1>r, <1>2 DEF SmoothInv, EnsureSchedule, EnsuredRow, Statuses
<1>3. ASSUME NEW p \in Workers, RecordPreflight(p) PROVE SmoothInv'
  BY <1>0, <1>a, <1>r, <1>3 DEF SmoothInv, RecordPreflight, PreflightRow
<1>4. ASSUME NEW p \in Workers, CheckWorkflow(p) PROVE SmoothInv'
  BY <1>0, <1>a, <1>r, <1>4 DEF SmoothInv, CheckWorkflow
<1>5. ASSUME NEW p \in Workers, WriteMissed(p) PROVE SmoothInv'
  <2>1. /\ pc[p] = "missed" /\ Goto(p, "leave") /\ sched'.status \in {"missed", sched.status}
        /\ UNCHANGED <<now, trading, wf, snap, obs, seen>>
    <3>1. CASE Coherent("missed") /\ SetSchedule("missed", FALSE) /\ Commit(p, "leave")
      <4>1. Goto(p, "leave")
        BY <1>0, <3>1
      <4>2. sched'.status = "missed"
        BY <3>1 DEF SetSchedule
      <4>3. QED
        BY <1>5, <4>1, <4>2 DEF WriteMissed
    <3>2. CASE ~Coherent("missed") /\ Goto(p, "leave") /\ UNCHANGED <<sched, used>>
      BY <1>5, <3>2 DEF WriteMissed
    <3>3. QED
      BY <1>5, <3>1, <3>2 DEF WriteMissed
  <2>2. QED
    BY <1>0, <2>1 DEF SmoothInv
<1>6. ASSUME NEW p \in Workers, Recheck(p) PROVE SmoothInv'
  BY <1>0, <1>a, <1>r, <1>6 DEF SmoothInv, Recheck
<1>7. ASSUME NEW p \in Workers, Adopt(p) PROVE SmoothInv'
  BY <1>0, <1>a, <1>r, <1>7 DEF SmoothInv, Adopt, SetSchedule, ResultStatus
<1>8. ASSUME NEW p \in Processes, TryLock(p) PROVE SmoothInv'
  <2>1. /\ pc[p] \in {"lock", "retryLock"}
        /\ \/ Goto(p, "leave")
           \/ Goto(p, "recheck") /\ pc[p] = "lock"
           \/ Goto(p, "mark") /\ pc[p] = "retryLock"
        /\ UNCHANGED <<now, trading, sched, wf, snap, obs, seen>>
    BY <1>8 DEF TryLock
  <2>2. pc[p] = "retryLock" => p \notin Workers
    BY <1>0, <2>1 DEF AgreesInv
  <2>3. QED
    BY <1>0, <1>a, <1>r, <2>1, <2>2 DEF SmoothInv
<1>9. ASSUME NEW p \in Processes, MarkExecuting(p) PROVE SmoothInv'
  <2>1. /\ pc[p] = "mark" /\ sched'.status = "executing"
        /\ \/ Goto(p, "execute") /\ seen[p] = "none"
           \/ Goto(p, "resume") /\ seen[p] # "none"
        /\ UNCHANGED <<now, trading, wf, snap, obs, seen>>
    BY <1>0, <1>9 DEF MarkExecuting, SetSchedule
  <2>2. QED
    BY <1>0, <1>a, <1>r, <2>1 DEF SmoothInv
<1>10. ASSUME NEW p \in Processes, ExecuteClaim(p) PROVE SmoothInv'
  BY <1>0, <1>a, <1>r, <1>10 DEF SmoothInv, ExecuteClaim, AfterResult
<1>11. ASSUME NEW p \in Processes, Resume(p) PROVE SmoothInv'
  BY <1>0, <1>a, <1>r, <1>11 DEF SmoothInv, Resume, AfterResult
<1>12. ASSUME NEW p \in Processes, SetLifecycle(p) PROVE SmoothInv'
  BY <1>0, <1>a, <1>r, <1>12 DEF SmoothInv, SetLifecycle
<1>13. ASSUME NEW p \in Processes, ClaimSnapshot(p) PROVE SmoothInv'
  BY <1>0, <1>a, <1>r, <1>13 DEF SmoothInv, ClaimSnapshot, FaultKinds
<1>14. ASSUME NEW p \in Processes, Fetch(p) PROVE SmoothInv'
  BY <1>0, <1>a, <1>r, <1>14 DEF SmoothInv, Fetch
<1>15. ASSUME NEW p \in Processes, Publish(p) PROVE SmoothInv'
  <2>1. /\ pc[p] = "publish" /\ Goto(p, "attach") /\ snap' = "succeeded"
        /\ UNCHANGED <<now, trading, sched, wf, obs, seen>>
    BY <1>0, <1>15 DEF Publish, FaultKinds
  <2>2. p \in Workers \cup Retriers /\ p \notin Retriers
    BY <1>a, <1>r, <2>1
  <2>3. snap # "none"
    BY <1>0, <2>1 DEF ScheduleInv, SnapshotChain
  <2>4. QED
    BY <1>0, <1>a, <1>r, <2>1, <2>2, <2>3 DEF SmoothInv
<1>16. ASSUME NEW p \in Processes, AttachSnapshot(p) PROVE SmoothInv'
  BY <1>0, <1>a, <1>r, <1>16 DEF SmoothInv, AttachSnapshot
<1>17. ASSUME NEW p \in Processes, Finish(p) PROVE SmoothInv'
  BY <1>0, <1>a, <1>r, <1>17 DEF SmoothInv, Finish, AfterResult, Calm, FaultKinds
<1>18. ASSUME NEW p \in Processes, FailWorkflow(p) PROVE SmoothInv'
  BY <1>0, <1>a, <1>r, <1>18 DEF SmoothInv, FailWorkflow
<1>19. ASSUME NEW p \in Processes, Record(p) PROVE SmoothInv'
  BY <1>0, <1>a, <1>r, <1>19 DEF SmoothInv, Record, SetSchedule, ResultStatus
<1>20. ASSUME NEW p \in Processes, Raised(p) PROVE SmoothInv'
  BY <1>0, <1>a, <1>r, <1>20 DEF SmoothInv, Raised
<1>21. ASSUME NEW p \in Processes, RecordFailure(p) PROVE SmoothInv'
  BY <1>0, <1>a, <1>r, <1>21 DEF SmoothInv, RecordFailure
<1>22. ASSUME NEW p \in Processes, Leave(p) PROVE SmoothInv'
  BY <1>0, <1>a, <1>r, <1>22 DEF SmoothInv, Leave
<1>23. ASSUME NEW p \in Retriers, RetryStart(p) PROVE SmoothInv'
  BY <1>0, <1>a, <1>r, <1>23 DEF SmoothInv, RetryStart
<1>24. ASSUME NEW p \in Processes, OperatorStart(p) \/ CallFails(p) \/ CommitLost(p) \/ Crash(p)
       PROVE  FALSE
  BY <1>0, <1>24 DEF OperatorStart, CallFails, CommitLost, Crash, FaultKinds
<1>25. ASSUME LoseLock PROVE FALSE
  BY <1>0, <1>25 DEF LoseLock, FaultKinds
<1>26. ASSUME Tick PROVE SmoothInv'
  BY <1>26 DEF Tick, SmoothInv
<1>27. ASSUME UNCHANGED vars PROVE SmoothInv'
  BY <1>27 DEF vars, SmoothInv
<1>28. QED
  BY <1>1, <1>2, <1>3, <1>4, <1>5, <1>6, <1>7, <1>8, <1>9, <1>10, <1>11, <1>12,
     <1>13, <1>14, <1>15, <1>16, <1>17, <1>18, <1>19, <1>20, <1>21, <1>22, <1>23, <1>24,
     <1>25, <1>26, <1>27
  DEF Next, TickStep, Continue, Environment, ReturnTerminal

\* Neither a schedule nor its workflow fails without a fault behind it, however many
\* workers and retries overlap and however late they come.
THEOREM ScheduleFailureHasCause == Spec => []FailureHasCause
<1>1. Init => SmoothInv
  BY TimeAssumption DEF Init, SmoothInv, Processes, LockedSteps, WorkflowSteps, SnapshotSteps
<1>2. ScheduleInv /\ AgreesInv /\ SmoothInv /\ [Next]_vars => SmoothInv'
  BY SmoothInvStep
<1>3. SmoothInv => FailureHasCause
  BY DEF SmoothInv, Calm, FailureHasCause
<1>4. QED
  BY <1>1, <1>2, <1>3, AgreesInvariant, PTL DEF Spec

\* What a schedule says of its end is so: a completed one tells what the workflow row
\* tells, while the lock is honoured, and a failed one had a fault.
THEOREM ScheduleStatusIsTrue == Spec => []StatusIsTrue
<1>1. CompletedAgrees /\ FailureHasCause => StatusIsTrue
  BY DEF StatusIsTrue
<1>2. QED
  BY <1>1, ScheduleCompletedAgrees, ScheduleFailureHasCause, PTL

\* A completed workflow has the one capture behind it; with one scheduling worker and
\* until a command goes round the lock, a missed one has neither workflow nor data.
THEOREM ScheduleStatusHasCapture == OneWorker => (Spec => []StatusHasCapture)
<1> SUFFICES ASSUME OneWorker PROVE Spec => []StatusHasCapture
  OBVIOUS
<1>1. CompletedHasSnapshot /\ MissedMeansNoWorkflow => StatusHasCapture
  BY DEF StatusHasCapture
<1>2. Spec => []MissedMeansNoWorkflow
  BY ScheduleMissedMeansNoWorkflow
<1>3. QED
  BY <1>1, <1>2, ScheduleCompletedHasSnapshot, PTL

-----------------------------------------------------------------------------
\* What any step does to the workflow row under the lock, OfficialWorkflow allows.
LEMMA RowStep ==
    ASSUME ScheduleInv, AgreesInv, Honest, [Next]_vars
    PROVE  [Row!Next]_<<wf.lifecycle, wf.snapshot>>
<1> USE DEF ScheduleInv, TypeOK, AgreesInv, SnapshotChain, RetryOnlyAnalyses, Processes, WorkflowSteps,
        SnapshotSteps
<1>1. ASSUME NEW p \in Processes, ExecuteClaim(p) PROVE Row!Claim \/ UNCHANGED wf
  BY <1>1 DEF ExecuteClaim, Row!Claim
<1>2. ASSUME NEW p \in Processes, SetLifecycle(p)
      PROVE  Row!Reopen \/ UNCHANGED <<wf.lifecycle, wf.snapshot>>
  BY <1>2 DEF SetLifecycle, Row!Reopen
<1>3. ASSUME NEW p \in Processes, AttachSnapshot(p) PROVE Row!Link
  BY <1>3 DEF AttachSnapshot, At, Row!Link
<1>4. ASSUME NEW p \in Processes, Finish(p) PROVE Row!End \/ UNCHANGED wf
  BY <1>4 DEF Finish, At, Completed, Row!End
<1>5. ASSUME NEW p \in Processes, FailWorkflow(p)
      PROVE  Row!Fail \/ UNCHANGED <<wf.lifecycle, wf.snapshot>>
  BY <1>5 DEF FailWorkflow, At, Row!Fail
<1>6. ASSUME NEW p \in Processes,
             \/ TickStep(p) \/ ReturnTerminal(p) \/ RetryStart(p) \/ OperatorStart(p)
             \/ CallFails(p) \/ CommitLost(p) \/ Crash(p)
      PROVE  UNCHANGED wf
  BY <1>6 DEF TickStep, ReadSchedule, EnsureSchedule, RecordPreflight, CheckWorkflow, WriteMissed,
     Recheck, Adopt, ReturnTerminal, RetryStart, OperatorStart, CallFails, CommitLost, Crash, rows, vars
<1>7. ASSUME NEW p \in Processes,
             \/ TryLock(p) \/ MarkExecuting(p) \/ Resume(p) \/ ClaimSnapshot(p) \/ Fetch(p)
             \/ Publish(p) \/ Record(p) \/ Raised(p) \/ RecordFailure(p) \/ Leave(p)
      PROVE  UNCHANGED wf
  BY <1>7 DEF TryLock, MarkExecuting, Resume, ClaimSnapshot, Fetch, Publish, Record, Raised,
     RecordFailure, Leave, rows
<1>8. ASSUME LoseLock \/ Tick \/ UNCHANGED vars PROVE UNCHANGED wf
  BY <1>8 DEF LoseLock, Tick, rows, vars
<1>9. Row!Next \/ UNCHANGED <<wf.lifecycle, wf.snapshot>>
  BY <1>1, <1>2, <1>3, <1>4, <1>5, <1>6, <1>7, <1>8
  DEF Next, Continue, Environment, Row!Next
<1>10. QED
  BY <1>9

\* While every session keeps the lock and no command goes round it, the schedule with
\* all its workers and retries implements OfficialWorkflow: nobody reopens a
\* succeeded workflow or takes its snapshot back.
THEOREM ScheduleImplementsRow ==
    MaxFaults["lockLoss"] = 0 /\ MaxFaults["operator"] = 0 => (Spec => RowSpec)
<1> SUFFICES ASSUME MaxFaults["lockLoss"] = 0, MaxFaults["operator"] = 0 PROVE Spec => RowSpec
  OBVIOUS
<1>1. ScheduleInv /\ WithinBounds => Honest
  BY DEF ScheduleInv, TypeOK, FaultKinds, WithinBounds, Honest
<1>2. ScheduleInv /\ AgreesInv /\ Honest /\ [Next]_vars => [Row!Next]_<<wf.lifecycle, wf.snapshot>>
  BY RowStep
<1>3. Init => Row!Init
  BY DEF Init, Row!Init
<1>4. QED
  BY <1>1, <1>2, <1>3, AgreesInvariant, BoundsInvariant, PTL DEF Spec, RowSpec, Row!Spec

=============================================================================
