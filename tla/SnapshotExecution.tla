------------------------- MODULE SnapshotExecution -------------------------
(***************************************************************************)
(* The point-in-time snapshot engine for one logical key: run rows claimed  *)
(* in PostgreSQL, a Parquet file published on disk, and a manifest that      *)
(* commits together with the run's success.  The two stores share no        *)
(* transaction, several callers run at once, and callers die.               *)
(*                                                                         *)
(* Calls outside the key's trade date, or before its time, are refused      *)
(* before anything is read or written and are not modelled here; see        *)
(* ClaimSnapshot in TailRadarSchedule for the early one.                    *)
(***************************************************************************)
EXTENDS Naturals, FiniteSets

CONSTANTS
    Callers,    \* threads or processes that call the engine
    RunIds,     \* execution_runs rows that can be inserted
    NoRun,
    MaxFaults   \* bound on each kind of environment event

FaultKinds == {"crash", "provider", "disk", "cleanup", "database", "uncertain"}

ASSUME SnapshotAssumption ==
    /\ NoRun \notin RunIds
    /\ MaxFaults \in [FaultKinds -> Nat]

VARIABLES
    trading,    \* the trading calendar's answer for the key's date
    runs,       \* execution_runs: status, official flag, rerun_of link
    manifests,  \* runs that have a manifest row
    stored,     \* runs whose Parquet file is on disk
    pc,         \* where each caller is
    mine,       \* the run a caller has claimed or is shown as a replay
    force,      \* was the call forced?
    status,     \* the status of `mine` when it was read for a replay
    used        \* environment events so far, by kind

rows  == <<runs, manifests, stored>>
local == <<mine, force, status>>
vars  == <<trading, rows, pc, local, used>>

Ended     == {"succeeded", "failed"}
RunStates == {"absent", "running"} \cup Ended
Locations == {"idle", "find", "insert", "replay", "calendar", "write", "complete",
              "cleanup", "fail", "inconsistent", "incoherent"}

Rows == [status : RunStates, official : BOOLEAN, rerunOf : RunIds \cup {NoRun}]

-----------------------------------------------------------------------------
Goto(c, l) == pc' = [pc EXCEPT ![c] = l]

Spend(kind) ==
    /\ used[kind] < MaxFaults[kind]
    /\ used' = [used EXCEPT ![kind] = @ + 1]

Exists(r) == runs[r].status # "absent"

\* _find_official: the rows the partial unique index ranges over.
Officials == {r \in RunIds : Exists(r) /\ runs[r].official}

SetStatus(r, s) == runs' = [runs EXCEPT ![r].status = s]

\* The call returns or raises: its local variables are gone.
Return(c) ==
    /\ Goto(c, "idle")
    /\ mine' = [mine EXCEPT ![c] = NoRun]
    /\ force' = [force EXCEPT ![c] = FALSE]
    /\ status' = [status EXCEPT ![c] = "absent"]

\* The move of a caller that goes on inside the call.
GoOn(c, l) == Goto(c, l) /\ UNCHANGED local

\* Bound of the model: a call starts only while a row is left for it to insert.
RoomForRun ==
    Cardinality({c \in Callers : pc[c] \in {"find", "insert"}})
        < Cardinality({r \in RunIds : ~Exists(r)})

-----------------------------------------------------------------------------
(* The call.                                                                *)

Call(c) ==
    /\ pc[c] = "idle"
    /\ RoomForRun
    /\ \E f \in BOOLEAN : force' = [force EXCEPT ![c] = f]
    /\ Goto(c, "find")
    /\ UNCHANGED <<trading, rows, mine, status, used>>

\* The first read of claim_run.  An unforced call with an official run is a
\* replay of it; a forced one remembers it as the run it repeats.
FindOfficial(c) ==
    /\ pc[c] = "find"
    /\ \/ \E r \in Officials :
             /\ mine' = [mine EXCEPT ![c] = r]
             /\ status' = [status EXCEPT ![c] = runs[r].status]
             /\ Goto(c, IF force[c] THEN "insert" ELSE "replay")
       \/ Officials = {} /\ Goto(c, "insert") /\ UNCHANGED <<mine, status>>
    /\ UNCHANGED <<trading, rows, force, used>>

NewRun(c) ==
    [status |-> "running", official |-> ~force[c],
     rerunOf |-> IF force[c] THEN mine[c] ELSE NoRun]

\* Mutation: a forced rerun takes the official place of the run it repeats.
InsertRunReplaces(c) ==
    /\ pc[c] = "insert"
    /\ force[c] \/ Officials = {}
    /\ \E r \in RunIds :
          /\ ~Exists(r)
          /\ runs' = [s \in RunIds |->
                        IF s = r THEN [NewRun(c) EXCEPT !.official = TRUE]
                        ELSE [runs[s] EXCEPT !.official = FALSE]]
          /\ mine' = [mine EXCEPT ![c] = r]
    /\ Goto(c, "calendar")
    /\ UNCHANGED <<trading, manifests, stored, force, status, used>>

\* The insert that the partial unique index guards: a conflict is a replay of
\* the winner's row.  When the commit is not acknowledged the caller gets an
\* error and the row stays as it is; the insert may also fail.
InsertRun(c) ==
    /\ pc[c] = "insert"
    /\ \/ /\ force[c] \/ Officials = {}
          /\ \E r \in RunIds :
                /\ ~Exists(r)
                /\ runs' = [runs EXCEPT ![r] = NewRun(c)]
                /\ \/ /\ Goto(c, "calendar")
                      /\ mine' = [mine EXCEPT ![c] = r]
                      /\ UNCHANGED <<force, status, used>>
                   \/ Return(c) /\ Spend("uncertain")
       \/ /\ ~force[c]
          /\ \E r \in Officials :
                /\ mine' = [mine EXCEPT ![c] = r]
                /\ status' = [status EXCEPT ![c] = runs[r].status]
          /\ Goto(c, "replay")
          /\ UNCHANGED <<runs, force, used>>
       \/ Return(c) /\ Spend("database") /\ UNCHANGED runs
    /\ UNCHANGED <<trading, manifests, stored>>

\* The manifest of a replay is read after the run, in another session.  A run
\* read as succeeded must have one; SnapshotExecutionResult refuses one for a
\* run read in any other status.
Replay(c) ==
    /\ pc[c] = "replay"
    /\ IF (status[c] = "succeeded") = (mine[c] \in manifests) THEN Return(c)
       ELSE GoOn(c, IF status[c] = "succeeded" THEN "inconsistent" ELSE "incoherent")
    /\ UNCHANGED <<trading, rows, used>>

\* Calendar and live fetch: a closed market or a failing provider ends the run.
Fetch(c) ==
    /\ pc[c] = "calendar"
    /\ \/ trading /\ GoOn(c, "write") /\ UNCHANGED used
       \/ ~trading /\ GoOn(c, "fail") /\ UNCHANGED used
       \/ GoOn(c, "fail") /\ Spend("provider")
    /\ UNCHANGED <<trading, rows>>

\* Mutation: the file is published under its writer's name, not the snapshot's.
WriteArtifactUnkeyed(c) ==
    /\ pc[c] = "write"
    /\ stored' = stored \cup {c}
    /\ GoOn(c, "complete")
    /\ UNCHANGED <<trading, runs, manifests, used>>

\* A temporary file linked to its final name: all of it or nothing.
WriteArtifact(c) ==
    /\ pc[c] = "write"
    /\ \/ stored' = stored \cup {mine[c]} /\ GoOn(c, "complete") /\ UNCHANGED used
       \/ GoOn(c, "fail") /\ Spend("disk") /\ UNCHANGED stored
    /\ UNCHANGED <<trading, runs, manifests>>

\* The run's success and its manifest, in one transaction.
Registered(c) ==
    /\ runs[mine[c]].status = "running"
    /\ SetStatus(mine[c], "succeeded")
    /\ manifests' = manifests \cup {mine[c]}

\* Mutation: a commit of unknown outcome is treated like a definite failure.
CompleteRunCleansUp(c) ==
    /\ pc[c] = "complete"
    /\ \/ /\ Registered(c)
          /\ \/ Return(c) /\ UNCHANGED used
             \/ GoOn(c, "cleanup") /\ Spend("uncertain")
       \/ GoOn(c, "cleanup") /\ Spend("database") /\ UNCHANGED <<runs, manifests>>
    /\ UNCHANGED <<trading, stored>>

\* Mutation: the artifact of a definitely failed registration is left behind.
CompleteRunLeaves(c) ==
    /\ pc[c] = "complete"
    /\ \/ Registered(c) /\ Return(c) /\ UNCHANGED used
       \/ GoOn(c, "fail") /\ Spend("database") /\ UNCHANGED <<runs, manifests>>
    /\ UNCHANGED <<trading, stored>>

\* Mutation: the run is committed before its manifest.
CompleteRunTwice(c) ==
    /\ pc[c] = "complete"
    /\ \/ Registered(c) /\ Return(c) /\ UNCHANGED used
       \/ /\ SetStatus(mine[c], "succeeded") /\ UNCHANGED manifests
          /\ GoOn(c, "fail") /\ Spend("uncertain")
    /\ UNCHANGED <<trading, stored>>

\* complete_run.  It may fail definitely, and the artifact is then removed, or
\* with an unknown outcome, after or without taking effect, and it is kept.
CompleteRun(c) ==
    /\ pc[c] = "complete"
    /\ \/ /\ Registered(c)
          /\ \/ Return(c) /\ UNCHANGED used
             \/ GoOn(c, "fail") /\ Spend("uncertain")
       \/ /\ UNCHANGED <<runs, manifests>>
          /\ \/ runs[mine[c]].status # "running" /\ GoOn(c, "cleanup") /\ UNCHANGED used
             \/ GoOn(c, "cleanup") /\ Spend("database")
             \/ GoOn(c, "fail") /\ Spend("uncertain")
    /\ UNCHANGED <<trading, stored>>

\* The except clause, first part: remove the unregistered artifact; when that
\* fails the run is recorded failed with a cleanup error instead.
Cleanup(c) ==
    /\ pc[c] = "cleanup"
    /\ GoOn(c, "fail")
    /\ \/ stored' = stored \ {mine[c]} /\ UNCHANGED used
       \/ Spend("cleanup") /\ UNCHANGED stored
    /\ UNCHANGED <<trading, runs, manifests>>

\* Mutation: the run's status is not checked before it is set.
FailRunUnchecked(c) ==
    /\ pc[c] = "fail"
    /\ SetStatus(mine[c], "failed")
    /\ Return(c)
    /\ UNCHANGED <<trading, manifests, stored, used>>

\* Mutation: the error is raised and not recorded.
FailRunForgotten(c) ==
    /\ pc[c] = "fail"
    /\ Return(c)
    /\ UNCHANGED <<trading, rows, used>>

\* The except clause, second part: fail_run touches only a running row; when
\* it cannot be recorded the row stays as it is.  The error is raised.
FailRun(c) ==
    /\ pc[c] = "fail"
    /\ \/ runs[mine[c]].status = "running" /\ SetStatus(mine[c], "failed") /\ UNCHANGED used
       \/ runs[mine[c]].status # "running" /\ UNCHANGED <<runs, used>>
       \/ Spend("database") /\ UNCHANGED runs
    /\ Return(c)
    /\ UNCHANGED <<trading, manifests, stored>>

\* A replay that cannot be represented is an error for its caller.
RaiseReplay(c) ==
    /\ pc[c] \in {"inconsistent", "incoherent"}
    /\ Return(c)
    /\ UNCHANGED <<trading, rows, used>>

\* The caller dies between two steps; nothing resumes its run.
Crash(c) ==
    /\ pc[c] # "idle"
    /\ Spend("crash")
    /\ Return(c)
    /\ UNCHANGED <<trading, rows>>

\* Nobody calls.
Quiet == (\A c \in Callers : pc[c] = "idle") /\ UNCHANGED vars

-----------------------------------------------------------------------------
Init ==
    /\ trading \in BOOLEAN
    /\ runs = [r \in RunIds |-> [status |-> "absent", official |-> FALSE, rerunOf |-> NoRun]]
    /\ manifests = {}
    /\ stored = {}
    /\ pc = [c \in Callers |-> "idle"]
    /\ mine = [c \in Callers |-> NoRun]
    /\ force = [c \in Callers |-> FALSE]
    /\ status = [c \in Callers |-> "absent"]
    /\ used = [k \in FaultKinds |-> 0]

Step(c) ==
    \/ FindOfficial(c) \/ InsertRun(c) \/ Replay(c) \/ RaiseReplay(c) \/ Fetch(c)
    \/ WriteArtifact(c) \/ CompleteRun(c) \/ Cleanup(c) \/ FailRun(c)

Next ==
    \/ \E c \in Callers : Call(c) \/ Step(c) \/ Crash(c)
    \/ Quiet

Spec == Init /\ [][Next]_vars

\* A call that is running goes on running until it returns.
FairSpec == Spec /\ \A c \in Callers : WF_vars(Step(c))

-----------------------------------------------------------------------------
(* Properties.                                                              *)

\* Every variable keeps its type.
TypeOK ==
    /\ trading \in BOOLEAN
    /\ runs \in [RunIds -> Rows]
    /\ manifests \subseteq RunIds
    /\ stored \subseteq RunIds
    /\ pc \in [Callers -> Locations]
    /\ mine \in [Callers -> RunIds \cup {NoRun}]
    /\ force \in [Callers -> BOOLEAN]
    /\ status \in [Callers -> RunStates]
    /\ used \in [FaultKinds -> Nat]

\* A registered manifest never points at a file that is not there, whatever
\* the caller believed about the commit that registered it.
ManifestNeverDangles == manifests \subseteq stored

\* The run row and the manifest row agree on success in every state, so also
\* in every state a crash can leave.
SucceededIffManifest == \A r \in RunIds : r \in manifests <=> runs[r].status = "succeeded"

\* A run is replayed as succeeded only with its manifest: the two reads of a
\* replay, in two sessions, never straddle the success.
ReplayNeverInconsistent == \A c \in Callers : pc[c] # "inconsistent"

\* A run that was recorded failed leaves no file behind, unless the outcome of
\* its registration was unknown or the removal itself failed.
NoOrphanAfterFailure ==
    used["uncertain"] = 0 /\ used["cleanup"] = 0 =>
        \A r \in RunIds : runs[r].status = "failed" => r \notin stored

\* Between the claim and the return: the run row is the caller's own.
Working == {"calendar", "write", "complete", "cleanup", "fail"}

\* Runs that are running and that no caller is at work on: nothing ends them.
Orphans ==
    {r \in RunIds : runs[r].status = "running"
                     /\ \A c \in Callers : ~(mine[c] = r /\ pc[c] \in Working)}

\* Each crash, failed write and unknown outcome leaves at most one run running for
\* ever; a closed market, the provider and the disk leave none.
OrphansHaveCause ==
    Cardinality(Orphans) <= used["crash"] + used["database"] + used["uncertain"]

\* Rows, manifests and files tell the same to every caller, and no more runs are left
\* over than there were faults.
StoreConsistent ==
    /\ ManifestNeverDangles /\ SucceededIffManifest /\ ReplayNeverInconsistent
    /\ NoOrphanAfterFailure /\ OrphansHaveCause

\* A claimed run ends, unless its caller died or a write to the database was
\* lost: nothing else leaves an official run running for ever.
RunsEnd ==
    \A r \in RunIds :
        (runs[r].status = "running") ~>
            (\/ runs[r].status \in Ended
             \/ used["crash"] + used["database"] + used["uncertain"] > 0)

\* The official run, whatever forced reruns and repeated calls do, behaves as
\* OfficialSnapshot promises.
OfficialStatus == IF Officials = {} THEN "none" ELSE runs[CHOOSE r \in Officials : TRUE].status

Official == INSTANCE OfficialSnapshot WITH
    slot <- OfficialStatus, artifact <- Officials # {} /\ Officials \subseteq stored

OfficialSpec == Official!Spec

=============================================================================
