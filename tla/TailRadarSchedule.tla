------------------------- MODULE TailRadarSchedule -------------------------
(***************************************************************************)
(* One trade date of the official 14:30 Tail Radar capture.                 *)
(*                                                                         *)
(* Workers poll a persisted schedule row, hold a PostgreSQL advisory lock   *)
(* while they orchestrate, create or resume the one official workflow row,  *)
(* and record its result in the schedule.  Retriers are the command         *)
(* `scheduled-retry` (analysis-only recovery); Operators are the commands   *)
(* `workflow` and `resume`, which take no lock and write no schedule.       *)
(* Several processes, crashes, failed calls, commits whose outcome is       *)
(* unknown and a database session that silently loses the lock interleave.  *)
(*                                                                         *)
(* The stages of a workflow after the snapshot are one step here; the       *)
(* snapshot run is the row that SnapshotExecution models in detail.         *)
(***************************************************************************)
EXTENDS Naturals

CONSTANTS
    Workers, Retriers, Operators,      \* processes of the three kinds
    NoProcess,                         \* the lock's value when nobody holds it
    PreflightAt, Intended, LatestStart, \* the deadlines of the trade date
    MaxTime,                           \* bound on the clock
    ProviderReady,                     \* do the provider's capabilities pass preflight?
    MaxFaults,                         \* bound on each kind of environment event
    MaxEvents                          \* bound on all of them together

FaultKinds == {"crash", "error", "uncertain", "lockLoss", "retry", "operator"}

Processes == Workers \cup Retriers \cup Operators

ASSUME ProcessAssumption ==
    /\ Workers \cap Retriers = {}
    /\ Workers \cap Operators = {}
    /\ Retriers \cap Operators = {}
    /\ NoProcess \notin Processes

ASSUME TimeAssumption ==
    /\ PreflightAt \in Nat /\ Intended \in Nat /\ LatestStart \in Nat /\ MaxTime \in Nat
    /\ PreflightAt <= Intended /\ Intended <= LatestStart /\ LatestStart < MaxTime

ASSUME EnvironmentAssumption ==
    /\ ProviderReady \in BOOLEAN
    /\ MaxFaults \in [FaultKinds -> Nat]
    /\ MaxEvents \in Nat

VARIABLES
    now,       \* the market clock, in steps
    trading,   \* is the date an A-share trading day?  (calendar evidence)
    sched,     \* the schedule row: status, workflow reference, preflight report
    lock,      \* the holder of the advisory lock
    wf,        \* the official workflow row: lifecycle, snapshot link
    snap,      \* status of the official full-market snapshot run
    fetches,   \* history: live provider fetches for the official snapshot
    pc,        \* where each process is
    obs,       \* the time a worker's tick observed when it began
    seen,      \* the workflow lifecycle a process last read or was returned
    used       \* environment events so far, by kind

rows  == <<sched, wf, snap, fetches>>
vars  == <<now, trading, sched, lock, wf, snap, fetches, pc, obs, seen, used>>

-----------------------------------------------------------------------------
(* Values *)

Pending   == {"scheduled", "preflight_ready", "preflight_degraded", "executing"}
Completed == {"succeeded", "partial_success"}
Terminal  == Completed \cup {"failed", "missed", "not_trading_day"}
Statuses  == Pending \cup Terminal \cup {"absent"}

Lifecycles == {"none", "running", "failed"} \cup Completed
SnapStates == {"none", "running", "succeeded", "failed"}

TickSteps     == {"ensure", "preflight", "check", "missed", "lock"}
SnapshotSteps == {"open", "snapshot", "fetch", "publish", "attach"}
WorkflowSteps == SnapshotSteps \cup {"analyse", "finish"}
LockedSteps   == {"recheck", "adopt", "mark", "execute", "resume", "failing", "record",
                  "raised", "recordFailure"} \cup WorkflowSteps
Locations     == {"idle", "retryLock", "leave"} \cup TickSteps \cup LockedSteps

-----------------------------------------------------------------------------
(* Moves of one process.                                                    *)

At(p, l)   == pc[p] = l
Goto(p, l) == pc' = [pc EXCEPT ![p] = l]

Events ==
    used["crash"] + used["error"] + used["uncertain"] + used["lockLoss"] + used["retry"]
        + used["operator"]

Spend(kind) ==
    /\ used[kind] < MaxFaults[kind]
    /\ Events < MaxEvents
    /\ used' = [used EXCEPT ![kind] = @ + 1]

\* Where an ordinary exception raised by the call at l is handled: inside
\* _continue_workflow by fail_workflow, inside the try of tick or of
\* retry_incomplete by its except clause, elsewhere by nobody, so that the
\* `with execution_lock` block is left and the tick or the command ends.
Handler(p, l) ==
    IF l \in WorkflowSteps THEN "failing"
    ELSE IF \/ l \in {"execute", "resume", "failing"}
            \/ l = "record" /\ p \in Workers
    THEN "raised"
    ELSE "leave"

\* A commit whose acknowledgement is lost.  TailRadarCommitUncertainError is
\* re-raised by _continue_workflow without fail_workflow.
UncertainHandler(p, l) ==
    IF l \in WorkflowSteps THEN "raised" ELSE Handler(p, l)

\* A call that commits: it returns, or it took effect and raises all the same.
Commit(p, next) ==
    \/ Goto(p, next) /\ UNCHANGED used
    \/ Spend("uncertain") /\ Goto(p, UncertainHandler(p, pc[p]))

\* Operators print a result; workers and retriers record it in the schedule.
AfterResult(p) == IF p \in Operators THEN "leave" ELSE "record"

SetSchedule(status, references) ==
    sched' = [sched EXCEPT !.status = status, !.wf = @ \/ references]

\* TailRadarScheduleData.schedule_is_coherent, the part the callers can break.  That an
\* end must not be earlier than the start (scheduling_models.py:94-96) can only refuse a worker
\* whose lock was lost between its clock and its write: CallFails covers it.
Coherent(status) == status = "missed" => ~sched.wf

-----------------------------------------------------------------------------
(* A worker's tick, before the lock.                                        *)

\* The tick of a worker that reads a terminal status returns it.
ReturnTerminal(p) ==
    /\ At(p, "idle")
    /\ sched.status \in Terminal
    /\ UNCHANGED vars

\* Mutation: a row left `executing` by a dead worker counts as finished.
ReadScheduleSkipsExecuting(p) ==
    /\ At(p, "idle")
    /\ IF sched.status \in Terminal \cup {"executing"} THEN UNCHANGED vars
       ELSE /\ obs' = [obs EXCEPT ![p] = now]
            /\ Goto(p, "ensure")
            /\ UNCHANGED <<now, trading, rows, lock, seen, used>>

ReadSchedule(p) ==
    /\ At(p, "idle")
    /\ sched.status \notin Terminal
    /\ obs' = [obs EXCEPT ![p] = now]
    /\ Goto(p, "ensure")
    /\ UNCHANGED <<now, trading, rows, lock, seen, used>>

\* ensure_schedule finds the row or inserts it; a lost race finds it too.
EnsuredRow ==
    IF sched.status # "absent" THEN sched
    ELSE [sched EXCEPT !.status = IF trading THEN "scheduled" ELSE "not_trading_day"]

\* Find or insert the row; then decide, from the tick's own observation of
\* the clock and the row just returned, whether to return, preflight or go on.
EnsureSchedule(p) ==
    /\ At(p, "ensure")
    /\ sched' = EnsuredRow
    /\ Commit(p, IF ~trading \/ obs[p] < PreflightAt THEN "leave"
                 ELSE IF ~sched.preflight THEN "preflight"
                 ELSE IF obs[p] < Intended THEN "leave"
                 ELSE "check")
    /\ UNCHANGED <<now, trading, lock, wf, snap, fetches, obs, seen>>

\* record_preflight leaves a terminal row alone and overwrites any other status.
PreflightRow ==
    IF sched.status \in Terminal THEN sched
    ELSE [sched EXCEPT !.status = IF ProviderReady THEN "preflight_ready"
                                  ELSE "preflight_degraded",
                       !.preflight = TRUE]

\* Mutation: the tick goes on to the capture whatever the time is.
RecordPreflightGoesOn(p) ==
    /\ At(p, "preflight")
    /\ sched' = PreflightRow
    /\ Commit(p, "check")
    /\ UNCHANGED <<now, trading, lock, wf, snap, fetches, obs, seen>>

RecordPreflight(p) ==
    /\ At(p, "preflight")
    /\ sched' = PreflightRow
    /\ Commit(p, IF obs[p] < Intended THEN "leave" ELSE "check")
    /\ UNCHANGED <<now, trading, lock, wf, snap, fetches, obs, seen>>

\* Mutation: the window alone decides, an existing workflow is forgotten.
CheckWindowOnly(p) ==
    /\ At(p, "check")
    /\ Goto(p, IF obs[p] > LatestStart THEN "missed" ELSE "lock")
    /\ UNCHANGED <<now, trading, rows, lock, obs, seen, used>>

\* The unlocked read of the workflow, judged by the observed time.
CheckWorkflow(p) ==
    /\ At(p, "check")
    /\ Goto(p, IF wf.lifecycle = "none" /\ obs[p] > LatestStart THEN "missed" ELSE "lock")
    /\ UNCHANGED <<now, trading, rows, lock, obs, seen, used>>

WriteMissed(p) ==
    /\ At(p, "missed")
    /\ \/ Coherent("missed") /\ SetSchedule("missed", FALSE) /\ Commit(p, "leave")
       \/ ~Coherent("missed") /\ Goto(p, "leave") /\ UNCHANGED <<sched, used>>
    /\ UNCHANGED <<now, trading, lock, wf, snap, fetches, obs, seen>>

-----------------------------------------------------------------------------
(* Under the lock.                                                          *)

\* Mutation: the answer of pg_try_advisory_lock is not looked at.
TryLockUnchecked(p) ==
    /\ pc[p] \in {"lock", "retryLock"}
    /\ lock' = IF lock = NoProcess THEN p ELSE lock
    /\ Goto(p, IF At(p, "lock") THEN "recheck" ELSE "mark")
    /\ UNCHANGED <<now, trading, rows, obs, seen, used>>

\* pg_try_advisory_lock never waits.
TryLock(p) ==
    /\ pc[p] \in {"lock", "retryLock"}
    /\ \/ /\ lock = NoProcess
          /\ lock' = p
          /\ Goto(p, IF At(p, "lock") THEN "recheck" ELSE "mark")
       \/ /\ lock # NoProcess
          /\ Goto(p, "leave")
          /\ UNCHANGED lock
    /\ UNCHANGED <<now, trading, rows, obs, seen, used>>

\* Mutation: a workflow that ended meanwhile is executed, not adopted.
RecheckWithoutAdopt(p) ==
    /\ At(p, "recheck")
    /\ seen' = [seen EXCEPT ![p] = wf.lifecycle]
    /\ Goto(p, IF wf.lifecycle = "none" /\ now > LatestStart THEN "missed" ELSE "mark")
    /\ UNCHANGED <<now, trading, rows, lock, obs, used>>

\* The workflow is read again and the clock with it.
Recheck(p) ==
    /\ At(p, "recheck")
    /\ seen' = [seen EXCEPT ![p] = wf.lifecycle]
    /\ Goto(p, IF wf.lifecycle = "none" /\ now > LatestStart THEN "missed"
               ELSE IF wf.lifecycle \in Completed \cup {"failed"} THEN "adopt"
               ELSE "mark")
    /\ UNCHANGED <<now, trading, rows, lock, obs, used>>

\* _record_workflow_result: a lifecycle that is not an end is a failure.
ResultStatus(p) == IF seen[p] \in Completed THEN seen[p] ELSE "failed"

Adopt(p) ==
    /\ At(p, "adopt")
    /\ SetSchedule(ResultStatus(p), TRUE)
    /\ Commit(p, "leave")
    /\ UNCHANGED <<now, trading, lock, wf, snap, fetches, obs, seen>>

MarkExecuting(p) ==
    /\ At(p, "mark")
    /\ SetSchedule("executing", seen[p] # "none")
    /\ Commit(p, IF seen[p] = "none" THEN "execute" ELSE "resume")
    /\ UNCHANGED <<now, trading, lock, wf, snap, fetches, obs, seen>>

Record(p) ==
    /\ At(p, "record")
    /\ SetSchedule(ResultStatus(p), TRUE)
    /\ Commit(p, "leave")
    /\ UNCHANGED <<now, trading, lock, wf, snap, fetches, obs, seen>>

\* The except clauses.  The worker reads the workflow again to reference it;
\* the retry already has it; a command without a schedule prints the error.
Raised(p) ==
    /\ At(p, "raised")
    /\ seen' = IF p \in Workers THEN [seen EXCEPT ![p] = wf.lifecycle] ELSE seen
    /\ Goto(p, IF p \in Operators THEN "leave" ELSE "recordFailure")
    /\ UNCHANGED <<now, trading, rows, lock, obs, used>>

\* Mutation: the workflow's lifecycle is copied into the schedule's status.
RecordFailureCopies(p) ==
    /\ At(p, "recordFailure")
    /\ SetSchedule(seen[p], seen[p] # "none")
    /\ Commit(p, "leave")
    /\ UNCHANGED <<now, trading, lock, wf, snap, fetches, obs, seen>>

RecordFailure(p) ==
    /\ At(p, "recordFailure")
    /\ SetSchedule("failed", seen[p] # "none")
    /\ Commit(p, "leave")
    /\ UNCHANGED <<now, trading, lock, wf, snap, fetches, obs, seen>>

\* Mutation: the finally clause that unlocks is missing.
LeaveLocked(p) ==
    /\ At(p, "leave")
    /\ Goto(p, "idle")
    /\ obs' = [obs EXCEPT ![p] = 0]
    /\ seen' = [seen EXCEPT ![p] = "none"]
    /\ UNCHANGED <<now, trading, rows, lock, used>>

\* pg_advisory_unlock: it releases what this session still holds.
Leave(p) ==
    /\ At(p, "leave")
    /\ lock' = IF lock = p THEN NoProcess ELSE lock
    /\ Goto(p, "idle")
    /\ obs' = [obs EXCEPT ![p] = 0]
    /\ seen' = [seen EXCEPT ![p] = "none"]
    /\ UNCHANGED <<now, trading, rows, used>>

-----------------------------------------------------------------------------
(* The workflow orchestrator.                                               *)

\* claim_workflow: the unique official identity creates at most one row; a
\* replay is returned as it stands, and the worker resumes what is not complete.
ExecuteClaim(p) ==
    /\ At(p, "execute")
    /\ \/ /\ wf.lifecycle = "none"
          /\ wf' = [wf EXCEPT !.lifecycle = "running"]
          /\ Commit(p, "open")
          /\ UNCHANGED seen
       \/ /\ wf.lifecycle # "none"
          /\ seen' = [seen EXCEPT ![p] = wf.lifecycle]
          /\ Goto(p, IF p \in Operators \/ wf.lifecycle \in Completed THEN AfterResult(p)
                     ELSE "resume")
          /\ UNCHANGED <<wf, used>>
    /\ UNCHANGED <<now, trading, sched, lock, snap, fetches, obs>>

\* Mutation: a succeeded workflow is continued like any other.
ResumeSucceeded(p) ==
    /\ At(p, "resume")
    /\ wf.lifecycle # "none"
    /\ Goto(p, IF wf.snapshot THEN "analyse" ELSE "open")
    /\ UNCHANGED <<now, trading, rows, lock, obs, seen, used>>

\* A succeeded workflow is returned; any other, partial and failed ones
\* included, continues from the first stage whose result is not linked.
Resume(p) ==
    /\ At(p, "resume")
    /\ wf.lifecycle # "none"
    /\ seen' = [seen EXCEPT ![p] = wf.lifecycle]
    /\ Goto(p, IF wf.lifecycle = "succeeded" THEN AfterResult(p)
               ELSE IF wf.snapshot THEN "analyse" ELSE "open")
    /\ UNCHANGED <<now, trading, rows, lock, obs, used>>

\* set_workflow_lifecycle reopens the row whatever its lifecycle is.
SetLifecycle(p) ==
    /\ pc[p] \in {"open", "analyse"}
    /\ wf' = [wf EXCEPT !.lifecycle = "running"]
    /\ Commit(p, IF At(p, "open") THEN "snapshot" ELSE "finish")
    /\ UNCHANGED <<now, trading, sched, lock, snap, fetches, obs, seen>>

\* Mutation: a run that is not succeeded is claimed again.
ClaimSnapshotAgain(p) ==
    /\ At(p, "snapshot")
    /\ \/ now >= Intended /\ snap # "succeeded" /\ snap' = "running" /\ Goto(p, "fetch")
       \/ now >= Intended /\ snap = "succeeded" /\ Goto(p, "attach") /\ UNCHANGED snap
    /\ UNCHANGED <<now, trading, sched, lock, wf, fetches, obs, seen, used>>

\* Mutation: any replayed run is linked, whatever its status.
ClaimSnapshotAnyReplay(p) ==
    /\ At(p, "snapshot")
    /\ now >= Intended
    /\ \/ snap = "none" /\ snap' = "running" /\ Goto(p, "fetch")
       \/ snap # "none" /\ Goto(p, "attach") /\ UNCHANGED snap
    /\ UNCHANGED <<now, trading, sched, lock, wf, fetches, obs, seen, used>>

\* The snapshot engine: a future time is refused, the official run is claimed
\* once, a replay is used only when it succeeded.  claim_run reports a commit
\* it cannot confirm as a plain failure, so a written claim may raise.
ClaimSnapshot(p) ==
    /\ At(p, "snapshot")
    /\ \/ /\ now >= Intended /\ snap = "none"
          /\ snap' = "running"
          /\ \/ Goto(p, "fetch") /\ UNCHANGED used
             \/ Goto(p, "failing") /\ Spend("uncertain")
       \/ /\ now < Intended \/ snap # "none"
          /\ Goto(p, IF now >= Intended /\ snap = "succeeded" THEN "attach" ELSE "failing")
          /\ UNCHANGED <<snap, used>>
    /\ UNCHANGED <<now, trading, sched, lock, wf, fetches, obs, seen>>

\* The calendar refuses a closed market before the live provider is called.
Fetch(p) ==
    /\ At(p, "fetch")
    /\ \/ /\ trading
          /\ fetches' = fetches + 1
          /\ Goto(p, "publish")
          /\ UNCHANGED snap
       \/ /\ ~trading
          /\ snap' = "failed"
          /\ Goto(p, "failing")
          /\ UNCHANGED fetches
    /\ UNCHANGED <<now, trading, sched, lock, wf, obs, seen, used>>

\* complete_run: manifest and SUCCEEDED commit together; when the
\* acknowledgement is lost fail_run finds the run finished and raises.
Publish(p) ==
    /\ At(p, "publish")
    /\ snap' = "succeeded"
    /\ \/ Goto(p, "attach") /\ UNCHANGED used
       \/ Goto(p, "failing") /\ Spend("uncertain")
    /\ UNCHANGED <<now, trading, sched, lock, wf, fetches, obs, seen>>

AttachSnapshot(p) ==
    /\ At(p, "attach")
    /\ wf' = [wf EXCEPT !.snapshot = TRUE]
    /\ Commit(p, "analyse")
    /\ UNCHANGED <<now, trading, sched, lock, snap, fetches, obs, seen>>

\* Screening, the candidates and complete_workflow, whose counts decide.  What an
\* earlier failure left of the screening run may refuse every resume, and a caller
\* beside this one, without the lock, may take a stage from under it; see
\* TailRadarWorkflow.
Finish(p) ==
    /\ At(p, "finish")
    /\ \/ /\ \E outcome \in Completed :
                /\ wf' = [wf EXCEPT !.lifecycle = outcome]
                /\ seen' = [seen EXCEPT ![p] = outcome]
          /\ Commit(p, AfterResult(p))
       \/ /\ \E kind \in FaultKinds \ {"retry"} : used[kind] > 0
          /\ Goto(p, "failing")
          /\ UNCHANGED <<wf, seen, used>>
    /\ UNCHANGED <<now, trading, sched, lock, snap, fetches, obs>>

\* fail_workflow, and the exception goes on to the caller.
FailWorkflow(p) ==
    /\ At(p, "failing")
    /\ wf' = [wf EXCEPT !.lifecycle = "failed"]
    /\ Goto(p, "raised")
    /\ UNCHANGED <<now, trading, sched, lock, snap, fetches, obs, seen, used>>

-----------------------------------------------------------------------------
(* Commands.                                                                *)

\* Mutation: the captured snapshot is not asked for.
RetryStartUncaptured(p) ==
    /\ At(p, "idle")
    /\ sched.status \notin {"absent", "missed", "not_trading_day"}
    /\ sched.wf
    /\ Spend("retry")
    /\ seen' = [seen EXCEPT ![p] = wf.lifecycle]
    /\ Goto(p, "retryLock")
    /\ UNCHANGED <<now, trading, rows, lock, obs>>

\* Mutation: the workflow is resumed without the lock and without `executing`.
RetryStartUnmarked(p) ==
    /\ At(p, "idle")
    /\ sched.status \notin {"absent", "missed", "not_trading_day"}
    /\ sched.wf /\ wf.snapshot
    /\ Spend("retry")
    /\ seen' = [seen EXCEPT ![p] = wf.lifecycle]
    /\ Goto(p, "resume")
    /\ UNCHANGED <<now, trading, rows, lock, obs>>

\* retry_incomplete up to the lock: not missed, not closed, snapshot captured.
RetryStart(p) ==
    /\ At(p, "idle")
    /\ sched.status \notin {"absent", "missed", "not_trading_day"}
    /\ sched.wf /\ wf.snapshot
    /\ Spend("retry")
    /\ seen' = [seen EXCEPT ![p] = wf.lifecycle]
    /\ Goto(p, "retryLock")
    /\ UNCHANGED <<now, trading, rows, lock, obs>>

OperatorStart(p) ==
    /\ At(p, "idle")
    /\ Spend("operator")
    /\ \/ Goto(p, "execute")
       \/ wf.lifecycle # "none" /\ Goto(p, "resume")
    /\ UNCHANGED <<now, trading, rows, lock, obs, seen>>

-----------------------------------------------------------------------------
(* The environment.                                                         *)

\* A call fails before it takes effect: a read, a write that is rolled back,
\* the provider, the application factory.  A snapshot run whose fetch or
\* publication failed is recorded failed, unless that write fails too.
CallFails(p) ==
    /\ pc[p] \in Locations \ {"idle", "leave"}
    /\ At(p, "raised") => p \in Workers
    /\ Spend("error")
    /\ Goto(p, Handler(p, pc[p]))
    /\ IF pc[p] \in {"fetch", "publish"} THEN snap' \in {"failed", snap} ELSE UNCHANGED snap
    /\ fetches' = IF At(p, "fetch") /\ trading THEN fetches + 1 ELSE fetches
    /\ UNCHANGED <<now, trading, sched, lock, wf, obs, seen>>

\* A commit of the workflow repository that did not take effect and whose
\* outcome the caller cannot know.
CommitLost(p) ==
    /\ pc[p] \in (WorkflowSteps \ {"snapshot", "fetch", "publish"}) \cup {"execute", "failing"}
    /\ At(p, "execute") => wf.lifecycle = "none"
    /\ Spend("uncertain")
    /\ Goto(p, "raised")
    /\ UNCHANGED <<now, trading, rows, lock, obs, seen>>

\* The process dies; its session and the lock go with it; the container
\* restarts it.
Crash(p) ==
    /\ pc[p] # "idle"
    /\ Spend("crash")
    /\ lock' = IF lock = p THEN NoProcess ELSE lock
    /\ Goto(p, "idle")
    /\ obs' = [obs EXCEPT ![p] = 0]
    /\ seen' = [seen EXCEPT ![p] = "none"]
    /\ UNCHANGED <<now, trading, rows>>

\* The connection that holds the lock dies while its process goes on.
LoseLock ==
    /\ lock # NoProcess
    /\ Spend("lockLoss")
    /\ lock' = NoProcess
    /\ UNCHANGED <<now, trading, rows, pc, obs, seen>>

Tick ==
    /\ now < MaxTime
    /\ now' = now + 1
    /\ UNCHANGED <<trading, rows, lock, pc, obs, seen, used>>

-----------------------------------------------------------------------------
Init ==
    /\ now = 0
    /\ trading \in BOOLEAN
    /\ sched = [status |-> "absent", wf |-> FALSE, preflight |-> FALSE]
    /\ lock = NoProcess
    /\ wf = [lifecycle |-> "none", snapshot |-> FALSE]
    /\ snap = "none"
    /\ fetches = 0
    /\ pc = [p \in Processes |-> "idle"]
    /\ obs = [p \in Processes |-> 0]
    /\ seen = [p \in Processes |-> "none"]
    /\ used = [k \in FaultKinds |-> 0]

TickStep(p) ==
    \/ ReadSchedule(p) \/ EnsureSchedule(p) \/ RecordPreflight(p)
    \/ CheckWorkflow(p) \/ WriteMissed(p) \/ Recheck(p) \/ Adopt(p)

\* Every step a process in the middle of its work is bound to take.
Continue(p) ==
    \/ TryLock(p) \/ MarkExecuting(p) \/ ExecuteClaim(p) \/ Resume(p)
    \/ SetLifecycle(p) \/ ClaimSnapshot(p) \/ Fetch(p) \/ Publish(p)
    \/ AttachSnapshot(p) \/ Finish(p) \/ FailWorkflow(p)
    \/ Record(p) \/ Raised(p) \/ RecordFailure(p) \/ Leave(p)

Environment ==
    \/ \E p \in Processes : CallFails(p) \/ CommitLost(p) \/ Crash(p)
    \/ LoseLock
    \/ Tick

Next ==
    \/ \E p \in Workers : TickStep(p) \/ ReturnTerminal(p)
    \/ \E p \in Retriers : RetryStart(p)
    \/ \E p \in Operators : OperatorStart(p)
    \/ \E p \in Processes : Continue(p)
    \/ Environment

Spec == Init /\ [][Next]_vars

\* Workers poll forever and a process that is running goes on running; nobody
\* has to start a command.  The clock passes.
Fairness ==
    /\ \A p \in Workers : WF_vars(TickStep(p))
    /\ \A p \in Processes : WF_vars(Continue(p))
    /\ WF_vars(Tick)

FairSpec == Spec /\ Fairness

-----------------------------------------------------------------------------
(* Properties.                                                              *)

\* Every variable keeps its type.
TypeOK ==
    /\ now \in 0..MaxTime
    /\ trading \in BOOLEAN
    /\ sched \in [status : Statuses, wf : BOOLEAN, preflight : BOOLEAN]
    /\ lock \in Processes \cup {NoProcess}
    /\ wf \in [lifecycle : Lifecycles, snapshot : BOOLEAN]
    /\ snap \in SnapStates
    /\ fetches \in Nat
    /\ pc \in [Processes -> Locations]
    /\ obs \in [Processes -> 0..MaxTime]
    /\ seen \in [Processes -> Lifecycles]
    /\ used \in [FaultKinds -> Nat]

\* While no session has silently lost the advisory lock, at most one worker or
\* retry is between taking the lock and recording its result.
OneOrchestrator ==
    used["lockLoss"] = 0 =>
        \A p, q \in Workers \cup Retriers :
            pc[p] \in LockedSteps /\ pc[q] \in LockedSteps => p = q

\* The live provider is called at most once for the official snapshot of the
\* date: by whatever workers, retries, commands without the lock, restarts and
\* lost locks, the unique official run is claimed by one of them only.
OfficialFetchOnce == fetches <= 1

\* Analysis-only recovery never reaches the snapshot engine: it needs a linked
\* snapshot to start, and a link is never taken back.
RetryNeverFetches ==
    \A p \in Retriers : pc[p] \notin SnapshotSteps \cup {"execute"}

\* Whoever calls it, by the lock or round it, the official snapshot run behaves
\* as the engine promises: claimed once, ended once, an end is final.
Official == INSTANCE OfficialSnapshot WITH slot <- snap, artifact <- (snap = "succeeded")

OfficialSlot == Official!Spec

\* Under the lock the workflow row behaves as OfficialWorkflow promises: nobody
\* reopens a succeeded workflow, whatever became of it while they waited.
Row == INSTANCE OfficialWorkflow WITH lifecycle <- wf.lifecycle, linked <- wf.snapshot

RowSpec == Row!Spec

\* A workflow that ended well rests on the one official capture, linked to it.
CompletedHasSnapshot ==
    wf.lifecycle \in Completed => snap = "succeeded" /\ wf.snapshot /\ fetches = 1

\* A completed schedule tells what the workflow row tells, also while retries
\* reopen partial workflows; only commands without the lock can come between.
CompletedAgrees ==
    used["lockLoss"] = 0 /\ used["operator"] = 0 =>
        (sched.status \in Completed => wf.lifecycle = sched.status /\ sched.wf)

\* Neither a schedule nor its workflow fails because workers and retries overlap or
\* come late: a failure has a crash, a failed call, a commit of unknown outcome, a
\* lost lock or a command without the lock behind it.
FailureHasCause ==
    (\A k \in FaultKinds \ {"retry"} : used[k] = 0)
        => sched.status # "failed" /\ wf.lifecycle # "failed"

\* What the status of a schedule says is so: a success and a failure.
StatusIsTrue == CompletedAgrees /\ FailureHasCause

\* Nobody but an explicit retry takes a completed schedule out of its status,
\* however stale the row that a waiting worker decided on; lost locks and
\* commits of unknown outcome excepted.
CompletedIsFinal ==
    [][ used'["lockLoss"] = 0 /\ used'["uncertain"] = 0
        /\ sched.status \in Completed /\ sched'.status # sched.status
        => \E p \in Retriers : At(p, "mark") ]_vars

\* With one worker, and unless a command without the lock made one, a missed
\* capture has no official workflow behind it and no live data.
MissedMeansNoWorkflow ==
    used["operator"] = 0 =>
        (sched.status = "missed" => wf.lifecycle = "none" /\ fetches = 0)

\* Behind a completed workflow is the one capture, behind a missed one is none.
StatusHasCapture == CompletedHasSnapshot /\ MissedMeansNoWorkflow

\* The schedule never rests for ever in a status the worker still acts on:
\* crashes, failed calls, a busy lock and interrupted retries are overcome.
Settles == (sched.status \notin Terminal) ~> (sched.status \in Terminal)

\* The live provider is not called once the schedule says the start window was
\* missed (docs/tail-radar.md, "will not call a live provider later").
NoFetchAfterMissed ==
    [][ sched.status = "missed" => fetches' = fetches ]_vars

\* An interrupted workflow is resumed after the restart and ends: only a failed
\* call, a commit of unknown outcome or the race that NoFetchAfterMissed tells of
\* can leave it open (docs/adr/0012, "a worker with an existing nonterminal
\* workflow resumes it").
RestartResumes ==
    (wf.lifecycle = "running") ~>
        \/ wf.lifecycle # "running"
        \/ used["error"] + used["uncertain"] > 0
        \/ sched.status = "missed"

\* What the worker owes the date: an end of the schedule and of its workflow.
Recovers == Settles /\ RestartResumes

=============================================================================
