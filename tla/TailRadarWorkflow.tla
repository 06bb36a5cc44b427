------------------------- MODULE TailRadarWorkflow -------------------------
(***************************************************************************)
(* The resumable workflow over one official snapshot: snapshot, screening,  *)
(* and the analysis of every candidate in a bounded thread pool, each step  *)
(* a commit of its own.  A caller (the worker, a retry, a command) executes *)
(* or resumes it, dies, loses acknowledgements, and somebody resumes it     *)
(* again.  One caller makes its calls one after another, as the advisory    *)
(* lock arranges; several overlap, as the commands that take no lock may.   *)
(* The snapshot engine is used through OfficialSnapshot, which it           *)
(* implements.                                                             *)
(*                                                                         *)
(* Candidates are numbered in the order their futures are submitted and     *)
(* awaited.  analysis_as_of is fixed once, at the screening linkage; an      *)
(* instant is named by the caller that read it from its clock.              *)
(***************************************************************************)
EXTENDS Naturals, FiniteSets

CONSTANTS
    Callers,
    CandidateCount,   \* candidates the screening selects
    PoolSize,         \* intraday_workers
    MaxFaults         \* bound on each kind of environment event

FaultKinds == {"crash", "error", "provider", "uncertain"}

ASSUME WorkflowAssumption ==
    /\ "none" \notin Callers
    /\ CandidateCount \in Nat
    /\ PoolSize \in 1..8
    /\ MaxFaults \in [FaultKinds -> Nat]

Candidates == 1..CandidateCount

\* The instants an analysis may be made at: each caller's clock, once it reads it.
Instants == Callers \cup {"none"}

VARIABLES
    wf,        \* tail_radar_workflows: lifecycle, links, analysis_as_of
    slot, artifact,   \* the official snapshot run (OfficialSnapshot)
    screen,    \* status of the official screening run of the snapshot
    tech,      \* tail_radar_workflow_candidates: technical status
    counts,    \* the stored technical counts of the workflow row
    saved,     \* persisted intraday analyses: candidate and instant
    pc,        \* where each caller is
    held,      \* analysis_as_of of the workflow a caller holds
    task,      \* the futures of each caller's batch
    raising,   \* the kind of exception a caller's batch is raising
    used       \* environment events so far, by kind

snapshotRun == <<slot, artifact>>
rows == <<wf, snapshotRun, screen, tech, counts, saved>>
vars == <<rows, pc, held, task, raising, used>>

Engine == INSTANCE OfficialSnapshot

-----------------------------------------------------------------------------
Completed  == {"succeeded", "partial_success"}
Active     == {"claimed", "snapshot_running", "screening_running", "candidate_analysis_running"}
Lifecycles == {"none", "failed"} \cup Completed \cup Active
RunStates  == {"none", "running", "succeeded", "failed"}
StageStates == {"absent", "pending", "running", "succeeded", "failed"}

Steps == {"openSnapshot", "capture", "fetch", "attachSnapshot", "openScreening", "claimScreening",
          "screen", "attachScreening", "openAnalysis", "submit", "batch", "join", "complete"}
Locations == {"idle", "execute", "resume", "fail"} \cup Steps

ThreadSteps == {"mark", "analyse", "storeSuccess", "storeFailure"}
TaskStates  == {"none", "queued", "done", "error", "uncertain"} \cup ThreadSteps

Goto(o, l) == pc' = [pc EXCEPT ![o] = l]

Spend(kind) ==
    /\ used[kind] < MaxFaults[kind]
    /\ used' = [used EXCEPT ![kind] = @ + 1]

NoTasks == [c \in Candidates |-> "none"]

\* The call of the workflow service is over: it returned or raised.  Threads
\* of its pool that are at work are not stopped by that.
Leave(o) ==
    /\ Goto(o, "idle")
    /\ held' = [held EXCEPT ![o] = "none"]
    /\ task' = [task EXCEPT ![o] =
                  [c \in Candidates |-> IF task[o][c] \in ThreadSteps THEN task[o][c] ELSE "none"]]
    /\ raising' = [raising EXCEPT ![o] = "none"]

\* Inside the call only the control moves on.
GoOn(o, l) == Goto(o, l) /\ UNCHANGED <<held, task, raising>>

\* A commit of the workflow repository: acknowledged, or of unknown outcome
\* after it took effect, which is raised past fail_workflow.  (Of unknown
\* outcome and without effect, it leaves what Crash leaves.)
Commit(o, next) ==
    \/ GoOn(o, next) /\ UNCHANGED used
    \/ Leave(o) /\ Spend("uncertain")

\* _refresh_workflow_counts.
CountsOf(t) ==
    LET Number(states) == Cardinality({c \in Candidates : t[c] \in states})
    IN [succeeded |-> Number({"succeeded"}), failed |-> Number({"failed"}),
        pending |-> Number({"pending", "running"})]

\* Where _continue_workflow goes with a workflow row it was given.
NextStage(row) ==
    IF ~row.snapshot THEN "openSnapshot"
    ELSE IF ~row.screening THEN "openScreening" ELSE "openAnalysis"

-----------------------------------------------------------------------------
(* The caller's thread.                                                     *)

\* A worker, a retry or a command calls the service.
Start(o) ==
    /\ pc[o] = "idle"
    /\ GoOn(o, IF wf.lifecycle = "none" THEN "execute" ELSE "resume")
    /\ UNCHANGED <<rows, used>>

\* claim_workflow, for a caller that saw no workflow; a replay is returned.
Execute(o) ==
    /\ pc[o] = "execute"
    /\ \/ /\ wf.lifecycle = "none"
          /\ wf' = [wf EXCEPT !.lifecycle = "claimed"]
          /\ Commit(o, "openSnapshot")
       \/ wf.lifecycle # "none" /\ Leave(o) /\ UNCHANGED <<wf, used>>
    /\ UNCHANGED <<snapshotRun, screen, tech, counts, saved>>

\* Mutation: a succeeded workflow is continued like any other.
ResumeAlways(o) ==
    /\ pc[o] = "resume"
    /\ GoOn(o, NextStage(wf))
    /\ UNCHANGED <<rows, used>>

\* A succeeded workflow is returned; any other continues from its first stage
\* whose result is not linked.
Resume(o) ==
    /\ pc[o] = "resume"
    /\ \/ wf.lifecycle = "succeeded" /\ Leave(o)
       \/ wf.lifecycle # "succeeded" /\ GoOn(o, NextStage(wf))
    /\ UNCHANGED <<rows, used>>

\* set_workflow_lifecycle reopens the row whatever its lifecycle is, and
\* returns the row as it now stands, with or without an analysis_as_of.
SetLifecycle(o, l, next) ==
    /\ wf' = [wf EXCEPT !.lifecycle = l]
    /\ \/ /\ Goto(o, next)
          /\ held' = [held EXCEPT ![o] = wf.asOf]
          /\ UNCHANGED <<task, raising, used>>
       \/ Leave(o) /\ Spend("uncertain")
    /\ UNCHANGED <<snapshotRun, screen, tech, counts, saved>>

OpenStage(o) ==
    \/ pc[o] = "openSnapshot" /\ SetLifecycle(o, "snapshot_running", "capture")
    \/ pc[o] = "openScreening" /\ SetLifecycle(o, "screening_running", "claimScreening")
    \/ pc[o] = "openAnalysis" /\ SetLifecycle(o, "candidate_analysis_running", "submit")

\* Mutation: a run that another caller has claimed is fetched beside it.
CaptureSnapshotBeside(o) ==
    /\ pc[o] = "capture"
    /\ \/ Engine!Claim /\ GoOn(o, "fetch")
       \/ slot = "running" /\ GoOn(o, "fetch") /\ UNCHANGED snapshotRun
       \/ slot = "succeeded" /\ GoOn(o, "attachSnapshot") /\ UNCHANGED snapshotRun
    /\ UNCHANGED <<wf, screen, tech, counts, saved, used>>

\* The engine is called.  It claims the official run, reporting a commit it
\* cannot confirm as a plain failure, or replays it.
CaptureSnapshot(o) ==
    /\ pc[o] = "capture"
    /\ \/ Engine!Claim /\ GoOn(o, "fetch") /\ UNCHANGED used
       \/ Engine!Claim /\ GoOn(o, "fail") /\ Spend("uncertain")
       \/ /\ slot # "none"
          /\ GoOn(o, IF slot = "succeeded" THEN "attachSnapshot" ELSE "fail")
          /\ UNCHANGED <<snapshotRun, used>>
    /\ UNCHANGED <<wf, screen, tech, counts, saved>>

\* ... and fetches, when the claim was its own.  An unknown outcome of the
\* manifest's commit is an ordinary failure here.
FetchSnapshot(o) ==
    /\ pc[o] = "fetch"
    /\ \/ Engine!Capture /\ GoOn(o, "attachSnapshot") /\ UNCHANGED used
       \/ Engine!Capture /\ GoOn(o, "fail") /\ Spend("uncertain")
       \/ Engine!Fail /\ GoOn(o, "fail") /\ Spend("provider")
       \/ UNCHANGED snapshotRun /\ GoOn(o, "fail") /\ Spend("error")
    /\ UNCHANGED <<wf, screen, tech, counts, saved>>

AttachSnapshot(o) ==
    /\ pc[o] = "attachSnapshot"
    /\ wf' = [wf EXCEPT !.snapshot = TRUE]
    /\ Commit(o, NextStage([wf EXCEPT !.snapshot = TRUE]))
    /\ UNCHANGED <<snapshotRun, screen, tech, counts, saved>>

\* Mutation: a screening run that another caller is at work on is used as it is.
ClaimScreeningAnyReplay(o) ==
    /\ pc[o] = "claimScreening"
    /\ \/ screen = "none" /\ screen' = "running" /\ GoOn(o, "screen")
       \/ screen # "none" /\ UNCHANGED screen /\ GoOn(o, "attachScreening")
    /\ UNCHANGED <<wf, snapshotRun, tech, counts, saved, used>>

\* The screening run has one official identity per snapshot and rule, claimed
\* like the snapshot's; only a replay that succeeded is used.
ClaimScreening(o) ==
    /\ pc[o] = "claimScreening"
    /\ \/ /\ screen = "none" /\ screen' = "running"
          /\ \/ GoOn(o, "screen") /\ UNCHANGED used
             \/ GoOn(o, "fail") /\ Spend("uncertain")
       \/ /\ screen # "none"
          /\ GoOn(o, IF screen = "succeeded" THEN "attachScreening" ELSE "fail")
          /\ UNCHANGED <<screen, used>>
    /\ UNCHANGED <<wf, snapshotRun, tech, counts, saved>>

\* complete_run and fail_run end a screening run only while it is running.
EndScreening(s) == screen = "running" /\ screen' = s

\* Read the artifact, evaluate the rule, commit candidates and success at once.
\* A failure is recorded in the run, unless that write fails too.
Screen(o) ==
    /\ pc[o] = "screen"
    /\ \/ EndScreening("succeeded") /\ Commit(o, "attachScreening")
       \/ EndScreening("failed") /\ GoOn(o, "fail") /\ Spend("error")
       \/ UNCHANGED screen /\ GoOn(o, "fail") /\ Spend("error")
    /\ UNCHANGED <<wf, snapshotRun, tech, counts, saved>>

\* The instant a caller analyses at: that of the workflow it holds, or its clock.
Instant(o) == IF held[o] = "none" THEN o ELSE held[o]

\* Mutation: the instant of the caller that links last is taken.
AttachScreeningOverwrites(o) ==
    /\ pc[o] = "attachScreening"
    /\ wf' = [wf EXCEPT !.screening = TRUE, !.asOf = Instant(o)]
    /\ tech' = [c \in Candidates |-> IF tech[c] = "absent" THEN "pending" ELSE tech[c]]
    /\ counts' = CountsOf(tech')
    /\ Commit(o, "openAnalysis")
    /\ UNCHANGED <<snapshotRun, screen, saved>>

\* Link the run, fix the instant, add the candidates that are not there yet, count.
\* analysis_as_of is immutable: a caller that read its clock because it opened the
\* stage before another made the link is refused.
AttachScreening(o) ==
    /\ pc[o] = "attachScreening"
    /\ \/ /\ wf.asOf \in {"none", Instant(o)}
          /\ wf' = [wf EXCEPT !.screening = TRUE, !.asOf = Instant(o)]
          /\ tech' = [c \in Candidates |-> IF tech[c] = "absent" THEN "pending" ELSE tech[c]]
          /\ counts' = CountsOf(tech')
          /\ Commit(o, "openAnalysis")
       \/ /\ wf.asOf \notin {"none", Instant(o)}
          /\ GoOn(o, "fail")
          /\ UNCHANGED <<wf, tech, counts, used>>
    /\ UNCHANGED <<snapshotRun, screen, saved>>

\* Mutation: every candidate is submitted.
SubmitAll(o) ==
    /\ pc[o] = "submit"
    /\ task' = [task EXCEPT ![o] = [c \in Candidates |-> "queued"]]
    /\ Goto(o, "batch")
    /\ UNCHANGED <<rows, held, raising, used>>

\* Mutation: candidates a dead caller left `running` are not submitted again.
SubmitSettled(o) ==
    /\ pc[o] = "submit"
    /\ task' = [task EXCEPT ![o] =
                  [c \in Candidates |-> IF tech[c] \in {"pending", "failed"} THEN "queued"
                                        ELSE "none"]]
    /\ Goto(o, "batch")
    /\ UNCHANGED <<rows, held, raising, used>>

\* The candidates whose technical status is not succeeded when it is read.
Submit(o) ==
    /\ pc[o] = "submit"
    /\ task' = [task EXCEPT ![o] =
                  [c \in Candidates |-> IF tech[c] = "succeeded" THEN "none" ELSE "queued"]]
    /\ Goto(o, "batch")
    /\ UNCHANGED <<rows, held, raising, used>>

Raised(o, c) == task[o][c] \in {"error", "uncertain"}

\* The futures are awaited in order.  The first that raised cancels those that
\* no thread has begun; the pool is left when every begun one has finished.
Await(o) ==
    /\ pc[o] = "batch"
    /\ \/ /\ \A c \in Candidates : task[o][c] \in {"none", "done"}
          /\ Goto(o, "complete")
          /\ UNCHANGED <<task, raising>>
       \/ \E c \in Candidates :
             /\ Raised(o, c)
             /\ \A d \in Candidates : d < c => task[o][d] \in {"none", "done"}
             /\ task' = [task EXCEPT ![o] =
                           [d \in Candidates |-> IF task[o][d] = "queued" THEN "none"
                                                 ELSE task[o][d]]]
             /\ raising' = [raising EXCEPT ![o] = task[o][c]]
             /\ Goto(o, "join")
    /\ UNCHANGED <<rows, held, used>>

\* Mutation: a batch that failed is taken up again in the same call.
ReraiseAgain(o) ==
    \/ raising[o] = "error" /\ GoOn(o, "resume")
    \/ raising[o] = "uncertain" /\ Leave(o)

\* Where the exception of a batch goes.
Reraise(o) ==
    \/ raising[o] = "error" /\ GoOn(o, "fail")
    \/ raising[o] = "uncertain" /\ Leave(o)

\* Mutation: the exception leaves the pool without waiting for its threads.
JoinAtOnce(o) ==
    /\ pc[o] = "join"
    /\ Reraise(o)
    /\ UNCHANGED <<rows, used>>

\* Mutation: the pool is left when every future has a result.
JoinForResults(o) ==
    /\ pc[o] = "join"
    /\ \A c \in Candidates : task[o][c] \in {"none", "done"}
    /\ Reraise(o)
    /\ UNCHANGED <<rows, used>>

Join(o) ==
    /\ pc[o] = "join"
    /\ \A c \in Candidates : task[o][c] \notin ThreadSteps
    /\ Reraise(o)
    /\ UNCHANGED <<rows, used>>

\* Mutation: what no thread is working on any more does not count as missing.
CompleteIfNonePending(o) ==
    /\ pc[o] = "complete"
    /\ counts' = CountsOf(tech)
    /\ wf' = [wf EXCEPT !.lifecycle =
                IF counts'.pending > 0 THEN "partial_success" ELSE "succeeded"]
    /\ Leave(o)
    /\ UNCHANGED <<snapshotRun, screen, tech, saved, used>>

\* Mutation: a candidate that another caller is still at work on is not missed.
CompleteIfNoneFailed(o) ==
    /\ pc[o] = "complete"
    /\ counts' = CountsOf(tech)
    /\ wf' = [wf EXCEPT !.lifecycle =
                IF counts'.failed > 0 THEN "partial_success" ELSE "succeeded"]
    /\ Leave(o)
    /\ UNCHANGED <<snapshotRun, screen, tech, saved, used>>

\* complete_workflow: the counts, refreshed under the row lock, decide.
Complete(o) ==
    /\ pc[o] = "complete"
    /\ counts' = CountsOf(tech)
    /\ wf' = [wf EXCEPT !.lifecycle =
                IF counts'.failed > 0 \/ counts'.pending > 0 THEN "partial_success"
                ELSE "succeeded"]
    /\ Leave(o)
    /\ UNCHANGED <<snapshotRun, screen, tech, saved, used>>

FailWorkflow(o) ==
    /\ pc[o] = "fail"
    /\ \/ /\ wf' = [wf EXCEPT !.lifecycle = "failed"]
          /\ counts' = CountsOf(tech)
          /\ UNCHANGED used
       \/ Spend("error") /\ UNCHANGED <<wf, counts>>
    /\ Leave(o)
    /\ UNCHANGED <<snapshotRun, screen, tech, saved>>

-----------------------------------------------------------------------------
(* The threads of the pool.                                                 *)

SetTask(o, c, t) == task' = [task EXCEPT ![o][c] = t]

Busy(o) == Cardinality({c \in Candidates : task[o][c] \in ThreadSteps})

\* A free thread takes the first queued future.
BeginTask(o, c) ==
    /\ task[o][c] = "queued"
    /\ \A d \in Candidates : d < c => task[o][d] # "queued"
    /\ Busy(o) < PoolSize
    /\ SetTask(o, c, "mark")
    /\ UNCHANGED <<rows, pc, held, raising, used>>

\* Mutation: the count of what is left goes down instead of being taken anew.
SetStageCountsDown(o, c, s, next) ==
    /\ tech' = [tech EXCEPT ![c] = s]
    /\ counts' = [CountsOf(tech') EXCEPT !.pending =
                    IF s = "running" THEN counts.pending ELSE counts.pending - 1]
    /\ SetTask(o, c, next)
    /\ UNCHANGED <<wf, snapshotRun, screen, saved, pc, held, raising, used>>

\* Mutation: the candidate's row changes and the counts are left for later.
SetStageUncounted(o, c, s, next) ==
    /\ tech' = [tech EXCEPT ![c] = s]
    /\ \/ SetTask(o, c, next) /\ UNCHANGED used
       \/ SetTask(o, c, "uncertain") /\ Spend("uncertain")
    /\ UNCHANGED <<wf, snapshotRun, screen, counts, saved, pc, held, raising>>

\* _set_candidate_stage under the workflow's row lock.
SetStage(o, c, s, next) ==
    /\ tech' = [tech EXCEPT ![c] = s]
    /\ counts' = CountsOf(tech')
    /\ \/ SetTask(o, c, next) /\ UNCHANGED used
       \/ SetTask(o, c, "uncertain") /\ Spend("uncertain")
    /\ UNCHANGED <<wf, snapshotRun, screen, saved, pc, held, raising>>

\* Mutation: an analysis whose commit is not confirmed is linked all the same.
AnalyseUnconfirmed(o, c) ==
    /\ task[o][c] = "analyse"
    /\ saved' \in {saved, saved \cup {<<c, held[o]>>}}
    /\ SetTask(o, c, "storeSuccess")
    /\ UNCHANGED <<wf, snapshotRun, screen, tech, counts, pc, held, raising, used>>

\* save_intraday_analysis: inserted, or found under its unique identity.
Save(o, c) == saved' = saved \cup {<<c, held[o]>>}

\* The intraday service: a persisted analysis is returned, else bars are
\* fetched and the result is saved.  A read may fail before it is known whether there
\* is one; only a commit of unknown outcome escapes the candidate's own error handling.
Analyse(o, c) ==
    /\ task[o][c] = "analyse"
    /\ \/ Save(o, c) /\ SetTask(o, c, "storeSuccess") /\ UNCHANGED used
       \/ /\ UNCHANGED saved
          /\ SetTask(o, c, "storeFailure")
          /\ Spend("error") \/ (<<c, held[o]>> \notin saved /\ Spend("provider"))
       \/ /\ <<c, held[o]>> \notin saved
          /\ Save(o, c) \/ UNCHANGED saved
          /\ SetTask(o, c, "uncertain") /\ Spend("uncertain")
    /\ UNCHANGED <<wf, snapshotRun, screen, tech, counts, pc, held, raising>>

RunTask(o, c) ==
    \/ task[o][c] = "mark" /\ SetStage(o, c, "running", "analyse")
    \/ Analyse(o, c)
    \/ task[o][c] = "storeSuccess" /\ SetStage(o, c, "succeeded", "done")
    \/ task[o][c] = "storeFailure" /\ SetStage(o, c, "failed", "done")

-----------------------------------------------------------------------------
(* The environment.                                                         *)

\* A call of the caller's thread fails and took no effect.
CallFails(o) ==
    /\ pc[o] \in Locations \ {"idle", "fail", "batch", "join", "screen", "fetch"}
    /\ Spend("error")
    /\ IF pc[o] \in {"execute", "resume"} THEN Leave(o) ELSE GoOn(o, "fail")
    /\ UNCHANGED rows

\* A stage update of a pool thread fails and took no effect.
TaskFails(o, c) ==
    /\ task[o][c] \in {"mark", "storeSuccess", "storeFailure"}
    /\ \/ SetTask(o, c, "error") /\ Spend("error")
       \/ SetTask(o, c, "uncertain") /\ Spend("uncertain")
    /\ UNCHANGED <<rows, pc, held, raising>>

\* The process dies with its threads.
Crash(o) ==
    /\ pc[o] # "idle"
    /\ Spend("crash")
    /\ Goto(o, "idle")
    /\ held' = [held EXCEPT ![o] = "none"]
    /\ task' = [task EXCEPT ![o] = NoTasks]
    /\ raising' = [raising EXCEPT ![o] = "none"]
    /\ UNCHANGED rows

-----------------------------------------------------------------------------
Init ==
    /\ wf = [lifecycle |-> "none", snapshot |-> FALSE, screening |-> FALSE, asOf |-> "none"]
    /\ Engine!Init
    /\ screen = "none"
    /\ tech = [c \in Candidates |-> "absent"]
    /\ counts = [succeeded |-> 0, failed |-> 0, pending |-> 0]
    /\ saved = {}
    /\ pc = [o \in Callers |-> "idle"]
    /\ held = [o \in Callers |-> "none"]
    /\ task = [o \in Callers |-> NoTasks]
    /\ raising = [o \in Callers |-> "none"]
    /\ used = [k \in FaultKinds |-> 0]

Step(o) ==
    \/ Execute(o) \/ Resume(o) \/ OpenStage(o)
    \/ CaptureSnapshot(o) \/ FetchSnapshot(o) \/ AttachSnapshot(o)
    \/ ClaimScreening(o) \/ Screen(o) \/ AttachScreening(o)
    \/ Submit(o) \/ Await(o) \/ Join(o) \/ Complete(o) \/ FailWorkflow(o)
    \/ \E c \in Candidates : BeginTask(o, c) \/ RunTask(o, c)

Next ==
    \/ \E o \in Callers : Start(o) \/ Step(o) \/ CallFails(o) \/ Crash(o)
    \/ \E o \in Callers, c \in Candidates : TaskFails(o, c)

Spec == Init /\ [][Next]_vars

\* A call goes on until it returns; the pool's threads are scheduled.
FairSpec == Spec /\ \A o \in Callers : WF_vars(Step(o))

\* ... and, as the recovery documentation asks of workers and operators,
\* somebody calls again.
RetriedSpec == FairSpec /\ \A o \in Callers : WF_vars(Start(o))

-----------------------------------------------------------------------------
(* Properties.                                                              *)

\* Every variable keeps its type.
TypeOK ==
    /\ wf \in [lifecycle : Lifecycles, snapshot : BOOLEAN, screening : BOOLEAN, asOf : Instants]
    /\ slot \in RunStates /\ artifact \in BOOLEAN
    /\ screen \in RunStates
    /\ tech \in [Candidates -> StageStates]
    /\ counts \in [succeeded : 0..CandidateCount, failed : 0..CandidateCount,
                   pending : 0..CandidateCount]
    /\ saved \subseteq Candidates \X Instants
    /\ pc \in [Callers -> Locations]
    /\ held \in [Callers -> Instants]
    /\ task \in [Callers -> [Candidates -> TaskStates]]
    /\ raising \in [Callers -> {"none", "error", "uncertain"}]
    /\ used \in [FaultKinds -> Nat]

\* A succeeded workflow has a saved analysis linked for every candidate, and a
\* partial one misses some: no crash, cancelled future or lost acknowledgement
\* makes the row say more than the candidates do.
OutcomeIsCounted ==
    /\ wf.lifecycle = "succeeded" => \A c \in Candidates : tech[c] = "succeeded"
    /\ wf.lifecycle = "partial_success" => \E c \in Candidates : tech[c] # "succeeded"

\* A candidate is linked only to an analysis that is persisted, and that is of the
\* workflow's one instant, however many callers analyse it at once.
LinkedIsSaved ==
    \A c \in Candidates : tech[c] = "succeeded" => wf.asOf # "none" /\ <<c, wf.asOf>> \in saved

\* An analysis that a thread is about to link is the one _validate_workflow_stage_link
\* asks for, so that check, which is not modelled, refuses none.
LinksAreAccepted ==
    \A o \in Callers, c \in Candidates : task[o][c] = "storeSuccess" =>
        wf.screening /\ wf.asOf # "none" /\ held[o] = wf.asOf /\ <<c, wf.asOf>> \in saved

\* The stored counts cover every candidate of a screened workflow, also while
\* several threads update their candidates.
CountsAgree == wf.screening => counts = CountsOf(tech)

\* The stored candidates tell the same as their analyses and as the counts.
StoredAgrees == LinkedIsSaved /\ LinksAreAccepted /\ CountsAgree

\* A resumed workflow does not touch a candidate that succeeded.
SucceededIsKept == [][\A c \in Candidates : tech[c] = "succeeded" => tech'[c] = "succeeded"]_vars

\* When the row says that the workflow is over, no thread of an abandoned batch
\* is still at work for it, so nothing changes its candidates behind the result.
NoWorkAfterEnd ==
    wf.lifecycle \in Completed \cup {"failed"} =>
        \A o \in Callers, c \in Candidates : task[o][c] \notin ThreadSteps

\* A result that is written stands: it counts right, and nothing that works on or
\* starts again after it takes a success back.
ResultIsFinal == []OutcomeIsCounted /\ []NoWorkAfterEnd /\ SucceededIsKept

\* Every call of the service returns: the pool never waits for itself.
CallsReturn == \A o \in Callers : (pc[o] # "idle") ~> (pc[o] = "idle")

\* Once the screening is linked, a workflow that is called again until it is done
\* succeeds: crashes at any step, cancelled futures, lost acknowledgements and
\* failed providers leave nothing behind that a resume cannot overcome.
LinkedWorkflowSucceeds == wf.screening ~> (wf.lifecycle = "succeeded")

\* What the retries of a workflow come to: every call ends, the workflow succeeds.
RetriesSucceed == CallsReturn /\ LinkedWorkflowSucceeds

\* What follows holds for callers that overlap, as commands without the lock do.

\* A result rests on a screening that succeeded, and that on the captured snapshot:
\* no caller links what another has only begun, or failed.
ResultHasEvidence ==
    /\ wf.lifecycle \in Completed => wf.screening
    /\ wf.screening => /\ wf.snapshot /\ screen = "succeeded"
                       /\ \A c \in Candidates : tech[c] # "absent"
    /\ wf.snapshot => slot = "succeeded" /\ artifact

\* The workflow row, the candidates' rows, the screening and the snapshot tell the same.
RowsAgree == StoredAgrees /\ ResultHasEvidence

\* An outcome that is written is that of the candidates at that moment, also while
\* the threads of another caller change them.
OutcomeIsTrueWhenWritten ==
    [][wf'.lifecycle \in Completed /\ wf'.lifecycle # wf.lifecycle
          => (wf'.lifecycle = "succeeded" <=> \A c \in Candidates : tech'[c] = "succeeded")]_vars

\* No thread outlives the call that began it.
ThreadsEndWithCall ==
    \A o \in Callers, c \in Candidates : task[o][c] \in ThreadSteps => pc[o] \in {"batch", "join"}

\* A thread of o is at work, or one is free for the first queued candidate.
ThreadCanGoOn(o) ==
    \E c \in Candidates :
        \/ task[o][c] \in ThreadSteps
        \/ /\ task[o][c] = "queued" /\ Busy(o) < PoolSize
           /\ \A d \in Candidates : d < c => task[o][d] # "queued"

\* What the step at each place of a call asks for is there: an engine or a screening
\* that was claimed is still this caller's to end, and the pool never waits for itself.
CallsCanGoOn ==
    \A o \in Callers :
        /\ pc[o] = "fetch" => slot = "running"
        /\ pc[o] = "screen" => screen = "running"
        /\ pc[o] = "batch" =>
              \/ \A c \in Candidates : task[o][c] \in {"none", "done"}
              \/ \E c \in Candidates :
                    /\ Raised(o, c)
                    /\ \A d \in Candidates : d < c => task[o][d] \in {"none", "done"}
              \/ ThreadCanGoOn(o)
        /\ pc[o] = "join" =>
              \/ raising[o] # "none" /\ \A c \in Candidates : task[o][c] \notin ThreadSteps
              \/ ThreadCanGoOn(o)

\* A call never waits in vain and leaves nobody at work behind it.
CallsAreServed == ThreadsEndWithCall /\ CallsCanGoOn

\* How far a call, and a future of its batch, is from the end.
Left ==
    [execute |-> 16, resume |-> 15, openSnapshot |-> 14, capture |-> 13, fetch |-> 12,
     attachSnapshot |-> 11, openScreening |-> 10, claimScreening |-> 9, screen |-> 8,
     attachScreening |-> 7, openAnalysis |-> 6, submit |-> 5, batch |-> 4, join |-> 3,
     complete |-> 2, fail |-> 1, idle |-> 0]
TaskLeft ==
    [queued |-> 4, mark |-> 3, analyse |-> 2, storeSuccess |-> 1, storeFailure |-> 1,
     done |-> 0, error |-> 0, uncertain |-> 0, none |-> 0]

Nearer(o) ==
    \/ Left[pc'[o]] < Left[pc[o]]
    \/ /\ pc'[o] = pc[o]
       /\ \A c \in Candidates : TaskLeft[task'[o][c]] <= TaskLeft[task[o][c]]
       /\ \E c \in Candidates : TaskLeft[task'[o][c]] < TaskLeft[task[o][c]]

\* Every step of a call brings it nearer to its end, and no other step takes it
\* further away.  With CallsCanGoOn, a call that is not interrupted returns.
StepsRunOut ==
    [][\A o \in Callers : pc[o] # "idle" =>
          /\ Step(o) => Nearer(o)
          /\ Nearer(o) \/ (pc'[o] = pc[o] /\ task'[o] = task[o])]_vars

\* The row behaves as OfficialWorkflow promises.
Row == INSTANCE OfficialWorkflow WITH
    lifecycle <- IF wf.lifecycle \in Active THEN "running" ELSE wf.lifecycle,
    linked <- wf.snapshot

RowSpec == Row!Spec

\* A workflow whose official snapshot was captured and that is resumed again
\* after an interruption completes (README.md, "A restart resumes nonterminal
\* deterministic work").
InterruptedIsResumable == wf.snapshot ~> (wf.lifecycle \in Completed)

=============================================================================
