----------------------- MODULE TailRadarWorkflow_proofs -----------------------
(***************************************************************************)
(* Proofs for TailRadarWorkflow, for any number of candidates, threads and   *)
(* environment events.  The types and counts come first.  What holds when    *)
(* the callers take turns, as the advisory lock arranges, is proved for one  *)
(* caller that makes its calls one after another; what holds of a result, of *)
(* the links and of the progress of calls for any number of overlapping      *)
(* callers is last.                                                         *)
(***************************************************************************)
EXTENDS TailRadarWorkflow, FiniteSetTheorems, NaturalsInduction, WellFoundedInduction, TLAPS

-----------------------------------------------------------------------------
(* Steps of the control.                                                    *)

\* The control of o goes to l; its futures stay, or are forgotten.
Moved(o, l) ==
    /\ pc' = [pc EXCEPT ![o] = l]
    /\ held' \in [Callers -> Instants]
    /\ task' \in [Callers -> [Candidates -> TaskStates]]
    /\ \A p \in Callers, c \in Candidates : task'[p][c] \in {task[p][c], "none"}
    /\ raising' \in [Callers -> {"none", "error", "uncertain"}]

\* A caller that leaves is idle and its futures are forgotten.
LEMMA LeaveMoves ==
    ASSUME TypeOK, NEW o \in Callers, Leave(o) PROVE Moved(o, "idle")
<1> USE DEF TypeOK, Leave, TaskStates, ThreadSteps
<1>1. task' \in [Callers -> [Candidates -> TaskStates]]
  OBVIOUS
<1>2. \A p \in Callers, c \in Candidates : task'[p][c] \in {task[p][c], "none"}
  OBVIOUS
<1>3. QED
  BY <1>1, <1>2 DEF Moved, Goto, Instants

\* A caller that goes on keeps its futures.
LEMMA GoOnMoves ==
    ASSUME TypeOK, NEW o \in Callers, NEW l, GoOn(o, l) PROVE Moved(o, l)
BY DEF TypeOK, GoOn, Goto, Moved

\* An event keeps the counters natural numbers.
LEMMA SpendKeepsType ==
    ASSUME TypeOK, NEW kind \in FaultKinds, Spend(kind) PROVE used' \in [FaultKinds -> Nat]
BY DEF TypeOK, Spend

\* A commit moves its caller to the next place, or out when it is not acknowledged.
LEMMA CommitMoves ==
    ASSUME TypeOK, NEW o \in Callers, NEW next, Commit(o, next)
    PROVE  /\ Moved(o, next) \/ Moved(o, "idle")
           /\ used' \in [FaultKinds -> Nat]
BY LeaveMoves, GoOnMoves, SpendKeepsType DEF Commit, TypeOK, FaultKinds

\* A counted set of candidates is finite and no larger than all of them.
LEMMA NumberOf ==
    ASSUME NEW S \in SUBSET Candidates
    PROVE  /\ Cardinality(S) \in 0..CandidateCount
           /\ Cardinality(S) = 0 <=> S = {}
<1>1. IsFiniteSet(Candidates) /\ Cardinality(Candidates) = CandidateCount
  BY WorkflowAssumption, FS_Interval DEF Candidates
<1>2. IsFiniteSet(S) /\ Cardinality(S) <= CandidateCount
  BY <1>1, FS_Subset
<1>3. Cardinality(S) \in Nat /\ (Cardinality(S) = 0 <=> S = {})
  BY <1>2, FS_CardinalityType, FS_EmptySet
<1>4. QED
  BY <1>2, <1>3, WorkflowAssumption

CountsType == [succeeded : 0..CandidateCount, failed : 0..CandidateCount,
               pending : 0..CandidateCount]

\* Counts of candidates are at most the number of candidates.
LEMMA CountsOfType == ASSUME NEW t PROVE CountsOf(t) \in CountsType
<1>1. /\ {c \in Candidates : t[c] \in {"succeeded"}} \in SUBSET Candidates
      /\ {c \in Candidates : t[c] \in {"failed"}} \in SUBSET Candidates
      /\ {c \in Candidates : t[c] \in {"pending", "running"}} \in SUBSET Candidates
  OBVIOUS
<1>2. QED
  BY <1>1, NumberOf DEF CountsOf, CountsType

\* Nothing failed and nothing pending, of candidates that are all there.
LEMMA CountsTell ==
    ASSUME NEW t \in [Candidates -> StageStates]
    PROVE  /\ CountsOf(t).failed = 0 <=> \A c \in Candidates : t[c] # "failed"
           /\ CountsOf(t).pending = 0 <=> \A c \in Candidates : t[c] \notin {"pending", "running"}
           /\ CountsOf(t).failed \in Nat /\ CountsOf(t).pending \in Nat
<1>1. /\ CountsOf(t).failed = Cardinality({c \in Candidates : t[c] \in {"failed"}})
      /\ CountsOf(t).pending = Cardinality({c \in Candidates : t[c] \in {"pending", "running"}})
  BY DEF CountsOf
<1>2. /\ {c \in Candidates : t[c] \in {"failed"}} \in SUBSET Candidates
      /\ {c \in Candidates : t[c] \in {"pending", "running"}} \in SUBSET Candidates
  OBVIOUS
<1>3. QED
  BY <1>1, <1>2, NumberOf, WorkflowAssumption

-----------------------------------------------------------------------------
(* Types, for any number of overlapping callers.                            *)

\* A step of a caller's thread that leaves candidates, counts and analyses alone.
Quiet(o) ==
    /\ \E l \in Locations : Moved(o, l)
    /\ wf' \in [lifecycle : Lifecycles, snapshot : BOOLEAN, screening : BOOLEAN, asOf : Instants]
    /\ wf'.screening = wf.screening
    /\ slot' \in RunStates /\ artifact' \in BOOLEAN /\ screen' \in RunStates
    /\ used' \in [FaultKinds -> Nat]
    /\ UNCHANGED <<tech, counts, saved>>

\* A step that touches neither candidates nor analyses keeps the types and the counts.
LEMMA QuietKeeps ==
    ASSUME TypeOK, NEW o \in Callers, Quiet(o) PROVE TypeOK' /\ (CountsAgree => CountsAgree')
<1>1. PICK l \in Locations : Moved(o, l)
  BY DEF Quiet
<1>2. TypeOK'
  BY <1>1 DEF TypeOK, Quiet, Moved
<1>3. CountsAgree => CountsAgree'
  BY DEF Quiet, CountsAgree
<1>4. QED
  BY <1>2, <1>3

\* The stage a resume continues with is one of the three.
LEMMA NextStageIsStep ==
    ASSUME NEW row PROVE NextStage(row) \in {"openSnapshot", "openScreening", "openAnalysis"}
BY DEF NextStage

\* The steps of a caller's thread up to the linkage of the screening.
LEMMA QuietSteps ==
    ASSUME TypeOK, NEW o \in Callers,
           \/ Start(o) \/ Execute(o) \/ Resume(o) \/ OpenStage(o) \/ CaptureSnapshot(o)
           \/ FetchSnapshot(o) \/ AttachSnapshot(o) \/ ClaimScreening(o) \/ Screen(o) \/ Join(o)
           \/ CallFails(o)
    PROVE  Quiet(o)
<1> USE DEF rows, snapshotRun, Locations, Steps, FaultKinds
<1>0. /\ "idle" \in Locations /\ "fail" \in Locations
      /\ UNCHANGED used => used' \in [FaultKinds -> Nat]
      /\ UNCHANGED wf => /\ wf' \in [lifecycle : Lifecycles, snapshot : BOOLEAN, screening : BOOLEAN, asOf : Instants]
                         /\ wf'.screening = wf.screening
      /\ UNCHANGED <<slot, artifact>> => slot' \in RunStates /\ artifact' \in BOOLEAN
      /\ UNCHANGED screen => screen' \in RunStates
  BY DEF TypeOK
<1>1. CASE Start(o)
  BY <1>0, <1>1, GoOnMoves DEF Start, Quiet
<1>2. CASE Execute(o)
  <2>1. CASE wf' = [wf EXCEPT !.lifecycle = "claimed"] /\ Commit(o, "openSnapshot")
    <3>1. /\ wf' \in [lifecycle : Lifecycles, snapshot : BOOLEAN, screening : BOOLEAN, asOf : Instants]
          /\ wf'.screening = wf.screening
      BY <2>1 DEF TypeOK, Lifecycles, Active
    <3>2. QED
      BY <1>0, <1>2, <2>1, <3>1, CommitMoves DEF Execute, Quiet
  <2>2. CASE Leave(o) /\ UNCHANGED <<wf, used>>
    BY <1>0, <1>2, <2>2, LeaveMoves DEF Execute, Quiet
  <2>3. QED
    BY <1>2, <2>1, <2>2 DEF Execute
<1>3. CASE Resume(o)
  BY <1>0, <1>3, GoOnMoves, LeaveMoves, NextStageIsStep DEF Resume, Quiet
<1>4. CASE OpenStage(o)
  <2>1. PICK l \in Active, next \in {"capture", "claimScreening", "submit"} :
            SetLifecycle(o, l, next)
    BY <1>4 DEF OpenStage, Active
  <2>2. /\ wf' \in [lifecycle : Lifecycles, snapshot : BOOLEAN, screening : BOOLEAN, asOf : Instants]
        /\ wf'.screening = wf.screening
    BY <2>1 DEF TypeOK, Lifecycles, SetLifecycle
  <2>3. UNCHANGED <<slot, artifact, screen, tech, counts, saved>>
    BY <2>1 DEF SetLifecycle
  <2>4. CASE Goto(o, next) /\ held' = [held EXCEPT ![o] = wf.asOf]
             /\ UNCHANGED <<task, raising, used>>
    <3>1. wf.screening \in BOOLEAN
      BY DEF TypeOK
    <3>2. Moved(o, next)
      BY <2>4, <3>1 DEF Moved, Goto, TypeOK
    <3>3. QED
      BY <1>0, <2>2, <2>3, <2>4, <3>2 DEF Quiet
  <2>5. CASE Leave(o) /\ Spend("uncertain")
    BY <1>0, <2>2, <2>3, <2>5, LeaveMoves, SpendKeepsType DEF Quiet
  <2>6. QED
    BY <2>1, <2>4, <2>5 DEF SetLifecycle
<1>5. CASE CaptureSnapshot(o)
  <2>1. slot' \in RunStates /\ artifact' \in BOOLEAN
    BY <1>5 DEF CaptureSnapshot, Engine!Claim, TypeOK, RunStates
  <2>2. \E l \in {"fetch", "fail", "attachSnapshot"} : GoOn(o, l)
    BY <1>5 DEF CaptureSnapshot
  <2>3. used' \in [FaultKinds -> Nat]
    BY <1>0, <1>5, SpendKeepsType DEF CaptureSnapshot
  <2>4. QED
    BY <1>0, <1>5, <2>1, <2>2, <2>3, GoOnMoves DEF CaptureSnapshot, Quiet
<1>6. CASE FetchSnapshot(o)
  <2>1. slot' \in RunStates /\ artifact' \in BOOLEAN
    BY <1>6 DEF FetchSnapshot, Engine!Capture, Engine!Fail, TypeOK, RunStates
  <2>2. \E l \in {"fail", "attachSnapshot"} : GoOn(o, l)
    BY <1>6 DEF FetchSnapshot
  <2>3. used' \in [FaultKinds -> Nat]
    BY <1>0, <1>6, SpendKeepsType DEF FetchSnapshot
  <2>4. QED
    BY <1>0, <1>6, <2>1, <2>2, <2>3, GoOnMoves DEF FetchSnapshot, Quiet
<1>7. CASE AttachSnapshot(o)
  <2>1. /\ wf' \in [lifecycle : Lifecycles, snapshot : BOOLEAN, screening : BOOLEAN, asOf : Instants]
        /\ wf'.screening = wf.screening
    BY <1>7 DEF AttachSnapshot, TypeOK
  <2>2. PICK next \in {"openSnapshot", "openScreening", "openAnalysis"} : Commit(o, next)
    BY <1>7, NextStageIsStep DEF AttachSnapshot
  <2>3. QED
    BY <1>0, <1>7, <2>1, <2>2, CommitMoves DEF AttachSnapshot, Quiet
<1>8. CASE ClaimScreening(o)
  <2>1. screen' \in RunStates
    BY <1>8 DEF ClaimScreening, TypeOK, RunStates
  <2>2. \E l \in {"screen", "fail", "attachScreening"} : GoOn(o, l)
    BY <1>8 DEF ClaimScreening
  <2>3. used' \in [FaultKinds -> Nat]
    BY <1>0, <1>8, SpendKeepsType DEF ClaimScreening
  <2>4. QED
    BY <1>0, <1>8, <2>1, <2>2, <2>3, GoOnMoves DEF ClaimScreening, Quiet
<1>9. CASE Screen(o)
  <2>1. screen' \in RunStates
    BY <1>9 DEF Screen, EndScreening, TypeOK, RunStates
  <2>2. /\ Moved(o, "attachScreening") \/ Moved(o, "fail") \/ Moved(o, "idle")
        /\ used' \in [FaultKinds -> Nat]
    BY <1>9, CommitMoves, GoOnMoves, SpendKeepsType DEF Screen
  <2>3. QED
    BY <1>0, <1>9, <2>1, <2>2 DEF Screen, Quiet
<1>10. CASE Join(o)
  BY <1>0, <1>10, GoOnMoves, LeaveMoves DEF Join, Reraise, Quiet
<1>11. CASE CallFails(o)
  <2>1. Moved(o, "idle") \/ Moved(o, "fail")
    BY <1>11, GoOnMoves, LeaveMoves DEF CallFails
  <2>2. used' \in [FaultKinds -> Nat]
    BY <1>11, SpendKeepsType DEF CallFails
  <2>3. QED
    BY <1>0, <1>11, <2>1, <2>2 DEF CallFails, Quiet
<1>12. QED
  BY <1>1, <1>2, <1>3, <1>4, <1>5, <1>6, <1>7, <1>8, <1>9, <1>10, <1>11

\* The other steps of a caller's thread.
LEMMA ResultSteps ==
    ASSUME TypeOK, NEW o \in Callers,
           \/ AttachScreening(o) \/ Submit(o) \/ Await(o) \/ Complete(o) \/ FailWorkflow(o)
           \/ Crash(o)
    PROVE  TypeOK' /\ (CountsAgree => CountsAgree')
<1> USE DEF rows, snapshotRun, Locations, Steps, FaultKinds
<1>1. CASE AttachScreening(o)
  <2>1. CASE /\ wf' = [wf EXCEPT !.screening = TRUE, !.asOf = Instant(o)]
             /\ tech' = [c \in Candidates |-> IF tech[c] = "absent" THEN "pending" ELSE tech[c]]
             /\ counts' = CountsOf(tech')
             /\ Commit(o, "openAnalysis")
    <3>1. PICK l \in Locations : Moved(o, l)
      BY <2>1, CommitMoves
    <3>2. used' \in [FaultKinds -> Nat]
      BY <2>1, CommitMoves
    <3>3. /\ wf' \in [lifecycle : Lifecycles, snapshot : BOOLEAN, screening : BOOLEAN, asOf : Instants]
          /\ tech' \in [Candidates -> StageStates]
      BY <2>1 DEF TypeOK, StageStates, Instant, Instants
    <3>4. counts' \in CountsType
      BY <2>1, CountsOfType
    <3>5. UNCHANGED <<slot, artifact, screen, saved>>
      BY <1>1 DEF AttachScreening
    <3>6. TypeOK'
      BY <3>1, <3>2, <3>3, <3>4, <3>5 DEF TypeOK, Moved, CountsType
    <3>7. CountsAgree'
      BY <2>1 DEF CountsAgree
    <3>8. QED
      BY <3>6, <3>7
  <2>2. CASE GoOn(o, "fail") /\ UNCHANGED <<wf, tech, counts, used>>
    <3>1. Quiet(o)
      BY <1>1, <2>2, GoOnMoves DEF AttachScreening, Quiet, TypeOK
    <3>2. QED
      BY <3>1, QuietKeeps
  <2>3. QED
    BY <1>1, <2>1, <2>2 DEF AttachScreening
<1>2. CASE Submit(o)
  <2>1. TypeOK'
    BY <1>2 DEF Submit, Goto, TypeOK, TaskStates
  <2>2. CountsAgree => CountsAgree'
    BY <1>2 DEF Submit, CountsAgree
  <2>3. QED
    BY <2>1, <2>2
<1>3. CASE Await(o)
  <2>1. Quiet(o)
    <3>1. \E l \in Locations : Moved(o, l)
      <4>1. CASE Goto(o, "complete") /\ UNCHANGED <<task, raising, held>>
        BY <4>1 DEF Goto, Moved, TypeOK
      <4>2. CASE \E c \in Candidates :
             /\ Raised(o, c)
             /\ task' = [task EXCEPT ![o] =
                           [d \in Candidates |-> IF task[o][d] = "queued" THEN "none"
                                                 ELSE task[o][d]]]
             /\ raising' = [raising EXCEPT ![o] = task[o][c]]
             /\ Goto(o, "join") /\ UNCHANGED held
        BY <4>2 DEF Goto, Moved, TypeOK, Raised, TaskStates
      <4>3. QED
        BY <1>3, <4>1, <4>2 DEF Await
    <3>2. QED
      BY <1>3, <3>1 DEF Await, Quiet, TypeOK
  <2>2. QED
    BY <2>1, QuietKeeps
<1>4. CASE Complete(o) \/ FailWorkflow(o)
  <2>1. Moved(o, "idle")
    BY <1>4, LeaveMoves DEF Complete, FailWorkflow
  <2>2. /\ wf' \in [lifecycle : Lifecycles, snapshot : BOOLEAN, screening : BOOLEAN, asOf : Instants]
        /\ wf'.screening = wf.screening
    BY <1>4 DEF Complete, FailWorkflow, TypeOK, Lifecycles, Completed
  <2>3. counts' = CountsOf(tech) \/ counts' = counts
    BY <1>4 DEF Complete, FailWorkflow
  <2>4. used' \in [FaultKinds -> Nat]
    BY <1>4, SpendKeepsType DEF Complete, FailWorkflow, TypeOK
  <2>5. UNCHANGED <<slot, artifact, screen, tech, saved>>
    BY <1>4 DEF Complete, FailWorkflow
  <2>6. TypeOK'
    <3>1. counts' \in CountsType
      BY <2>3, CountsOfType DEF TypeOK, CountsType
    <3>2. /\ pc' \in [Callers -> Locations] /\ held' \in [Callers -> Instants]
          /\ task' \in [Callers -> [Candidates -> TaskStates]]
          /\ raising' \in [Callers -> {"none", "error", "uncertain"}]
      BY <2>1 DEF TypeOK, Moved
    <3>3. /\ slot' \in RunStates /\ artifact' \in BOOLEAN /\ screen' \in RunStates
          /\ tech' \in [Candidates -> StageStates] /\ saved' \subseteq Candidates \X Instants
      BY <2>5 DEF TypeOK
    <3>4. QED
      BY <2>2, <2>4, <3>1, <3>2, <3>3 DEF TypeOK, CountsType
  <2>7. CountsAgree => CountsAgree'
    BY <2>2, <2>3, <2>5 DEF CountsAgree
  <2>8. QED
    BY <2>6, <2>7
<1>5. CASE Crash(o)
  <2>1. Moved(o, "idle")
    BY <1>5 DEF Crash, Goto, Moved, NoTasks, TypeOK, TaskStates, Instants
  <2>2. Quiet(o)
    BY <1>5, <2>1, SpendKeepsType DEF Crash, Quiet, TypeOK
  <2>3. QED
    BY <2>2, QuietKeeps
<1>6. QED
  BY <1>1, <1>2, <1>3, <1>4, <1>5

\* One future of o is at t afterwards.
LEMMA SetTaskMoves ==
    ASSUME TypeOK, NEW o \in Callers, NEW c \in Candidates, NEW t \in TaskStates, SetTask(o, c, t)
    PROVE  /\ task' \in [Callers -> [Candidates -> TaskStates]]
           /\ task'[o][c] = t
           /\ \A p \in Callers, d \in Candidates :
                 ~(p = o /\ d = c) => task'[p][d] = task[p][d]
BY DEF TypeOK, SetTask

\* The steps of a thread.
LEMMA ThreadKeeps ==
    ASSUME TypeOK, NEW o \in Callers, NEW c \in Candidates,
           BeginTask(o, c) \/ RunTask(o, c) \/ TaskFails(o, c)
    PROVE  TypeOK' /\ (CountsAgree => CountsAgree')
<1> USE DEF rows, snapshotRun, FaultKinds
<1>0. {"mark", "analyse", "storeSuccess", "storeFailure", "error", "uncertain", "done"} \subseteq TaskStates
  BY DEF TaskStates, ThreadSteps
<1>1. CASE BeginTask(o, c) \/ TaskFails(o, c)
  <2>1. PICK t \in {"mark", "error", "uncertain"} : SetTask(o, c, t)
    BY <1>1 DEF BeginTask, TaskFails
  <2>2. used' \in [FaultKinds -> Nat]
    BY <1>1, SpendKeepsType DEF BeginTask, TaskFails, TypeOK
  <2>3. UNCHANGED <<rows, pc, held, raising>>
    BY <1>1 DEF BeginTask, TaskFails
  <2>4. t \in TaskStates
    BY <1>0, <2>1
  <2>5. TypeOK'
    BY <2>1, <2>2, <2>3, <2>4, SetTaskMoves DEF TypeOK
  <2>6. CountsAgree => CountsAgree'
    BY <2>3 DEF CountsAgree
  <2>7. QED
    BY <2>5, <2>6
<1>2. CASE Analyse(o, c)
  <2>1. PICK t \in {"storeSuccess", "storeFailure", "uncertain"} : SetTask(o, c, t)
    BY <1>2 DEF Analyse
  <2>2. used' \in [FaultKinds -> Nat]
    BY <1>2, SpendKeepsType DEF Analyse, TypeOK
  <2>3. saved' \subseteq Candidates \X Instants
    BY <1>2 DEF Analyse, Save, TypeOK
  <2>4. UNCHANGED <<wf, slot, artifact, screen, tech, counts, pc, held, raising>>
    BY <1>2 DEF Analyse
  <2>5. TypeOK'
    BY <1>0, <2>1, <2>2, <2>3, <2>4, SetTaskMoves DEF TypeOK
  <2>6. CountsAgree => CountsAgree'
    BY <2>4 DEF CountsAgree
  <2>7. QED
    BY <2>5, <2>6
<1>3. ASSUME NEW s \in {"running", "succeeded", "failed"}, NEW next \in {"analyse", "done"},
             SetStage(o, c, s, next)
      PROVE  TypeOK' /\ (CountsAgree => CountsAgree')
  <2>1. PICK t \in {"analyse", "done", "uncertain"} : SetTask(o, c, t)
    BY <1>3 DEF SetStage
  <2>2. used' \in [FaultKinds -> Nat]
    BY <1>3, SpendKeepsType DEF SetStage, TypeOK
  <2>3. tech' = [tech EXCEPT ![c] = s] /\ tech' \in [Candidates -> StageStates]
    BY <1>3 DEF SetStage, TypeOK, StageStates
  <2>4. counts' = CountsOf(tech') /\ counts' \in CountsType
    BY <1>3, CountsOfType DEF SetStage
  <2>5. UNCHANGED <<wf, slot, artifact, screen, saved, pc, held, raising>>
    BY <1>3 DEF SetStage
  <2>6. TypeOK'
    BY <1>0, <2>1, <2>2, <2>3, <2>4, <2>5, SetTaskMoves DEF TypeOK, CountsType
  <2>7. CountsAgree'
    BY <2>4 DEF CountsAgree
  <2>8. QED
    BY <2>6, <2>7
<1>4. QED
  BY <1>1, <1>2, <1>3 DEF RunTask

\* The initial state is well typed and its counts agree.
LEMMA InitHolds == Init => TypeOK /\ CountsAgree
<1> SUFFICES ASSUME Init PROVE TypeOK /\ CountsAgree
  OBVIOUS
<1>1. TypeOK
  <2>1. 0 \in 0..CandidateCount
    BY WorkflowAssumption
  <2>2. counts \in [succeeded : 0..CandidateCount, failed : 0..CandidateCount,
                   pending : 0..CandidateCount]
    BY <2>1 DEF Init
  <2>3. wf \in [lifecycle : Lifecycles, snapshot : BOOLEAN, screening : BOOLEAN, asOf : Instants]
    BY DEF Init, Lifecycles, Instants
  <2>4. slot \in RunStates /\ artifact \in BOOLEAN /\ screen \in RunStates
    BY DEF Init, Engine!Init, RunStates
  <2>5. tech \in [Candidates -> StageStates] /\ saved \subseteq Candidates \X Instants
    BY DEF Init, StageStates
  <2>6. /\ pc \in [Callers -> Locations] /\ held \in [Callers -> Instants]
        /\ raising \in [Callers -> {"none", "error", "uncertain"}]
        /\ task \in [Callers -> [Candidates -> TaskStates]]
    BY DEF Init, NoTasks, Locations, TaskStates, Instants
  <2>7. used \in [FaultKinds -> Nat]
    BY DEF Init
  <2>8. QED
    BY <2>2, <2>3, <2>4, <2>5, <2>6, <2>7 DEF TypeOK
<1>2. CountsAgree
  BY DEF Init, CountsAgree
<1>3. QED
  BY <1>1, <1>2

\* Every step keeps the types, and the counts those of the candidates.
LEMMA StepKeeps ==
    ASSUME TypeOK, [Next]_vars PROVE TypeOK' /\ (CountsAgree => CountsAgree')
<1>1. CASE UNCHANGED vars
  BY <1>1 DEF vars, rows, snapshotRun, TypeOK, CountsAgree
<1>2. CASE Next
  <2>1. ASSUME NEW o \in Callers, Start(o) \/ Step(o) \/ CallFails(o) \/ Crash(o)
        PROVE  TypeOK' /\ (CountsAgree => CountsAgree')
    BY <2>1, QuietSteps, QuietKeeps, ResultSteps, ThreadKeeps DEF Step
  <2>2. ASSUME NEW o \in Callers, NEW c \in Candidates, TaskFails(o, c)
        PROVE  TypeOK' /\ (CountsAgree => CountsAgree')
    BY <2>2, ThreadKeeps
  <2>3. QED
    BY <1>2, <2>1, <2>2 DEF Next
<1>3. QED
  BY <1>1, <1>2

\* The types of the workflow's rows, callers, futures and counts are kept by any
\* number of overlapping callers.
THEOREM WorkflowTypeCorrect == Spec => []TypeOK
<1>1. Init => TypeOK
  BY InitHolds
<1>2. TypeOK /\ [Next]_vars => TypeOK'
  BY StepKeeps
<1>3. QED
  BY <1>1, <1>2, PTL DEF Spec

-----------------------------------------------------------------------------
(* Calls one after another.  Where the caller is bounds what the row says       *)
(* (Placed), its futures are at work only inside a batch and only on            *)
(* candidates that have not succeeded (Futures), and a linked screening has a   *)
(* row for every candidate (Screened).                                       *)

OneCaller == \A o, p \in Callers : o = p

InStage == {"capture", "fetch", "attachSnapshot", "claimScreening", "screen", "attachScreening",
            "submit", "batch", "join", "complete"}

\* What the workflow's row says while its caller is at l.
Placed(l, row) ==
    /\ l \in InStage => row.lifecycle \in Active
    /\ l \in Steps \cup {"fail", "resume"} => row.lifecycle # "none"
    /\ l \in Steps \cup {"fail"} => row.lifecycle # "succeeded"
    /\ l \in {"openScreening", "claimScreening", "screen", "attachScreening"} => row.snapshot
    /\ l \in {"openAnalysis", "submit", "batch", "join", "complete"} => row.screening

AtWork == ThreadSteps \cup {"queued"}

NoFutures(o) == \A c \in Candidates : task[o][c] \notin AtWork

Futures(o) ==
    /\ pc[o] \notin {"batch", "join"} => NoFutures(o)
    /\ pc[o] = "join" => \A c \in Candidates : task[o][c] # "queued"
    /\ \A c \in Candidates : task[o][c] \in AtWork => tech[c] # "succeeded"

Screened == wf.screening => wf.snapshot /\ \A c \in Candidates : tech[c] # "absent"

Turn(o) == Placed(pc[o], wf) /\ Futures(o) /\ Screened /\ OutcomeIsCounted

\* What every step of a turn does.
Kept == \A c \in Candidates : tech[c] = "succeeded" => tech'[c] = "succeeded"

RowStep ==
    \/ Row!Next
    \/ UNCHANGED <<(IF wf.lifecycle \in Active THEN "running" ELSE wf.lifecycle), wf.snapshot>>

Good(o) == Turn(o)' /\ Kept /\ RowStep

\* A caller without a batch at work moves to l.
LEMMA TurnMoves ==
    ASSUME TypeOK, NEW o \in Callers, NEW l, Moved(o, l), NoFutures(o), Placed(l, wf'),
           Screened', OutcomeIsCounted'
    PROVE  Turn(o)'
<1>1. pc'[o] = l
  BY DEF TypeOK, Moved
<1>2. NoFutures(o)'
  BY DEF Moved, NoFutures, AtWork, ThreadSteps
<1>3. Futures(o)'
  BY <1>2 DEF Futures, NoFutures, AtWork
<1>4. QED
  BY <1>1, <1>3 DEF Turn

\* ... and leaves the workflow's row and its candidates alone.
LEMMA RowRests ==
    ASSUME TypeOK, NEW o \in Callers, Turn(o), NEW l, Moved(o, l), NoFutures(o), Placed(l, wf),
           UNCHANGED <<wf, tech>>
    PROVE  Good(o)
<1>1. Screened' /\ OutcomeIsCounted' /\ Placed(l, wf')
  BY DEF Turn, Screened, OutcomeIsCounted
<1>2. Kept /\ RowStep
  BY DEF Kept, RowStep
<1>3. QED
  BY <1>1, <1>2, TurnMoves DEF Good

\* Outside a batch nothing is at work, and a commit goes on or leaves.
LEMMA OutsideBatch ==
    ASSUME NEW o \in Callers, Turn(o), pc[o] \notin {"batch", "join"} PROVE NoFutures(o)
BY DEF Turn, Futures

\* The places outside a stage ask nothing, or little, of the row.
LEMMA PlacedAnywhere ==
    ASSUME NEW row
    PROVE  /\ Placed("idle", row) /\ Placed("execute", row)
           /\ row.lifecycle \notin {"none", "succeeded"} =>
                Placed("fail", row) /\ Placed("openSnapshot", row) /\ Placed(NextStage(row), row)
BY DEF Placed, InStage, Steps, NextStage

\* Steps of the control, the snapshot and the screening keep the turn's invariant.
LEMMA TurnControl ==
    ASSUME TypeOK, NEW o \in Callers, Turn(o),
           \/ Start(o) \/ Resume(o) \/ CaptureSnapshot(o) \/ FetchSnapshot(o)
           \/ ClaimScreening(o) \/ Screen(o) \/ CallFails(o)
    PROVE  Good(o)
<1> USE DEF rows
<1>0. Placed(pc[o], wf)
  BY DEF Turn
<1>1. CASE Start(o)
  <2>1. NoFutures(o) /\ UNCHANGED <<wf, tech>>
    BY <1>1, OutsideBatch DEF Start
  <2>2. PICK l : GoOn(o, l) /\ Placed(l, wf)
    BY <1>1, PlacedAnywhere DEF Start, Placed, InStage, Steps
  <2>3. QED
    BY <2>1, <2>2, GoOnMoves, RowRests
<1>2. CASE Resume(o)
  <2>1. NoFutures(o) /\ UNCHANGED <<wf, tech>>
    BY <1>2, OutsideBatch DEF Resume
  <2>2. CASE Leave(o)
    BY <2>1, <2>2, LeaveMoves, RowRests, PlacedAnywhere
  <2>3. CASE wf.lifecycle # "succeeded" /\ GoOn(o, NextStage(wf))
    <3>1. wf.lifecycle # "none"
      BY <1>0, <1>2 DEF Placed, Resume
    <3>2. Placed(NextStage(wf), wf)
      BY <2>3, <3>1, PlacedAnywhere
    <3>3. QED
      BY <2>1, <2>3, <3>2, GoOnMoves, RowRests
  <2>4. QED
    BY <1>2, <2>2, <2>3 DEF Resume
<1>3. CASE CaptureSnapshot(o) \/ FetchSnapshot(o)
  <2>1. pc[o] \in {"capture", "fetch"} /\ UNCHANGED <<wf, tech>>
    BY <1>3 DEF CaptureSnapshot, FetchSnapshot
  <2>2. PICK l \in {"fetch", "attachSnapshot", "fail"} : GoOn(o, l)
    BY <1>3 DEF CaptureSnapshot, FetchSnapshot
  <2>3. Placed(l, wf)
    BY <1>0, <2>1 DEF Placed, InStage, Steps, Active
  <2>4. QED
    BY <2>1, <2>2, <2>3, OutsideBatch, GoOnMoves, RowRests
<1>4. CASE ClaimScreening(o)
  <2>1. pc[o] = "claimScreening" /\ UNCHANGED <<wf, tech>>
    BY <1>4 DEF ClaimScreening
  <2>2. PICK l \in {"screen", "attachScreening", "fail"} : GoOn(o, l)
    BY <1>4 DEF ClaimScreening
  <2>3. Placed(l, wf)
    BY <1>0, <2>1 DEF Placed, InStage, Steps, Active
  <2>4. QED
    BY <2>1, <2>2, <2>3, OutsideBatch, GoOnMoves, RowRests
<1>5. CASE Screen(o)
  <2>1. pc[o] = "screen" /\ UNCHANGED <<wf, tech>>
    BY <1>5 DEF Screen
  <2>2. PICK l \in {"attachScreening", "fail", "idle"} : Moved(o, l)
    BY <1>5, CommitMoves, GoOnMoves DEF Screen
  <2>3. Placed(l, wf)
    BY <1>0, <2>1 DEF Placed, InStage, Steps, Active
  <2>4. QED
    BY <2>1, <2>2, <2>3, OutsideBatch, RowRests
<1>6. CASE CallFails(o)
  <2>1. pc[o] \notin {"batch", "join"} /\ UNCHANGED <<wf, tech>>
    BY <1>6 DEF CallFails
  <2>2. CASE Leave(o)
    BY <2>1, <2>2, OutsideBatch, LeaveMoves, RowRests, PlacedAnywhere
  <2>3. CASE pc[o] \notin {"execute", "resume"} /\ GoOn(o, "fail")
    <3>1. pc[o] \in Steps
      BY <1>6, <2>3 DEF CallFails, Locations
    <3>2. Placed("fail", wf)
      BY <1>0, <3>1 DEF Placed, InStage, Steps
    <3>3. QED
      BY <2>1, <2>3, <3>2, OutsideBatch, GoOnMoves, RowRests
  <2>4. QED
    BY <1>6, <2>2, <2>3 DEF CallFails
<1>7. QED
  BY <1>1, <1>2, <1>3, <1>4, <1>5, <1>6

\* So do the steps that claim, reopen or link the row.
LEMMA TurnRow ==
    ASSUME TypeOK, NEW o \in Callers, Turn(o), Execute(o) \/ OpenStage(o) \/ AttachSnapshot(o)
    PROVE  Good(o)
<1> USE DEF snapshotRun
<1>0. /\ Placed(pc[o], wf) /\ NoFutures(o) /\ Screened /\ OutcomeIsCounted
      /\ UNCHANGED tech
  BY OutsideBatch DEF Turn, Execute, OpenStage, SetLifecycle, AttachSnapshot
<1>1. Kept
  BY <1>0 DEF Kept
<1>2. CASE Execute(o)
  <2>1. CASE /\ wf.lifecycle = "none"
             /\ wf' = [wf EXCEPT !.lifecycle = "claimed"]
             /\ Commit(o, "openSnapshot")
    <3>1. /\ wf'.lifecycle = "claimed" /\ wf'.snapshot = wf.snapshot
          /\ wf'.screening = wf.screening
      BY <2>1 DEF TypeOK
    <3>2. Screened' /\ OutcomeIsCounted'
      BY <1>0, <3>1 DEF Screened, OutcomeIsCounted
    <3>3. Placed("idle", wf') /\ Placed("openSnapshot", wf')
      BY <3>1, PlacedAnywhere
    <3>4. RowStep
      BY <2>1, <3>1 DEF RowStep, Row!Next, Row!Claim, Active
    <3>5. QED
      BY <1>0, <1>1, <2>1, <3>2, <3>3, <3>4, CommitMoves, TurnMoves DEF Good
  <2>2. CASE Leave(o) /\ UNCHANGED wf
    BY <1>0, <2>2, LeaveMoves, RowRests, PlacedAnywhere
  <2>3. QED
    BY <1>2, <2>1, <2>2 DEF Execute
<1>3. CASE OpenStage(o)
  <2>1. PICK l \in Active, next \in {"capture", "claimScreening", "submit"} :
            /\ SetLifecycle(o, l, next)
            /\ next = "capture" => pc[o] = "openSnapshot"
            /\ next = "claimScreening" => pc[o] = "openScreening"
            /\ next = "submit" => pc[o] = "openAnalysis"
    BY <1>3 DEF OpenStage, Active
  <2>2. wf'.lifecycle = l /\ wf'.snapshot = wf.snapshot /\ wf'.screening = wf.screening
    BY <2>1 DEF SetLifecycle, TypeOK
  <2>3. l \notin Completed /\ l # "none"
    BY DEF Active, Completed
  <2>4. Screened' /\ OutcomeIsCounted'
    BY <1>0, <2>2, <2>3 DEF Screened, OutcomeIsCounted, Completed
  <2>5. Moved(o, next) \/ Moved(o, "idle")
    <3>1. CASE Leave(o)
      BY <3>1, LeaveMoves
    <3>2. CASE Goto(o, next) /\ held' = [held EXCEPT ![o] = wf.asOf]
               /\ UNCHANGED <<task, raising>>
      <4>1. wf.screening \in BOOLEAN
        BY DEF TypeOK
      <4>2. QED
        BY <3>2, <4>1 DEF Moved, Goto, TypeOK
    <3>3. QED
      BY <2>1, <3>1, <3>2 DEF SetLifecycle
  <2>6. Placed("idle", wf') /\ Placed(next, wf')
    <3>1. Placed("idle", wf')
      BY PlacedAnywhere
    <3>2. Placed(next, wf')
      BY <1>0, <2>1, <2>2, <2>3 DEF Placed, Steps, Completed
    <3>3. QED
      BY <3>1, <3>2
  <2>7. RowStep
    <3>1. wf.lifecycle \notin {"none", "succeeded"}
      BY <1>0, <2>1 DEF Placed, Steps
    <3>2. wf.lifecycle \in Active \cup {"failed", "partial_success"}
      BY <3>1 DEF TypeOK, Lifecycles, Completed
    <3>3. CASE wf.lifecycle \in Active
      BY <2>2, <3>3 DEF RowStep
    <3>4. CASE wf.lifecycle \in {"failed", "partial_success"}
      BY <2>2, <3>4 DEF RowStep, Row!Next, Row!Reopen, Active
    <3>5. QED
      BY <3>2, <3>3, <3>4
  <2>8. QED
    BY <1>0, <1>1, <2>4, <2>5, <2>6, <2>7, TurnMoves DEF Good
<1>4. CASE AttachSnapshot(o)
  <2>1. pc[o] = "attachSnapshot" /\ wf.lifecycle \in Active
    BY <1>0, <1>4 DEF AttachSnapshot, Placed, InStage
  <2>2. /\ wf' = [wf EXCEPT !.snapshot = TRUE] /\ wf'.snapshot
        /\ wf'.lifecycle = wf.lifecycle /\ wf'.screening = wf.screening
    BY <1>4 DEF AttachSnapshot, TypeOK
  <2>3. Screened' /\ OutcomeIsCounted'
    BY <1>0, <2>2 DEF Screened, OutcomeIsCounted
  <2>4. wf'.lifecycle \notin {"none", "succeeded"}
    BY <2>1, <2>2 DEF Active
  <2>5. Placed("idle", wf') /\ Placed(NextStage(wf'), wf')
    BY <2>4, PlacedAnywhere
  <2>6. Moved(o, NextStage(wf')) \/ Moved(o, "idle")
    BY <1>4, <2>2, CommitMoves DEF AttachSnapshot
  <2>7. RowStep
    BY <2>1, <2>2 DEF RowStep, Row!Next, Row!Link
  <2>8. QED
    BY <1>0, <1>1, <2>3, <2>5, <2>6, <2>7, TurnMoves DEF Good
<1>5. QED
  BY <1>2, <1>3, <1>4

\* So do the steps that end the workflow or the call.
LEMMA TurnResult ==
    ASSUME TypeOK, NEW o \in Callers, Turn(o),
           AttachScreening(o) \/ Complete(o) \/ FailWorkflow(o) \/ Crash(o)
    PROVE  Good(o)
<1> USE DEF snapshotRun, rows
<1>0. Placed(pc[o], wf) /\ Screened /\ OutcomeIsCounted
  BY DEF Turn
<1>1. CASE AttachScreening(o)
  <2>1. pc[o] = "attachScreening" /\ NoFutures(o)
    BY <1>1, OutsideBatch DEF AttachScreening
  <2>2. wf.lifecycle \in Active /\ wf.snapshot
    BY <1>0, <2>1 DEF Placed, InStage
  <2>3. wf.lifecycle \notin {"none", "succeeded", "partial_success"}
    BY <2>2 DEF Active
  <2>4. CASE /\ wf' = [wf EXCEPT !.screening = TRUE, !.asOf = Instant(o)]
             /\ tech' = [c \in Candidates |-> IF tech[c] = "absent" THEN "pending" ELSE tech[c]]
             /\ Commit(o, "openAnalysis")
    <3>1. wf'.lifecycle = wf.lifecycle /\ wf'.snapshot = wf.snapshot /\ wf'.screening
      BY <2>4 DEF TypeOK
    <3>2. Screened'
      BY <2>2, <2>4, <3>1 DEF Screened
    <3>3. OutcomeIsCounted'
      BY <2>3, <3>1 DEF OutcomeIsCounted
    <3>4. Kept
      BY <2>4 DEF Kept
    <3>5. Placed("idle", wf') /\ Placed("openAnalysis", wf')
      BY <2>3, <3>1 DEF Placed, InStage, Steps
    <3>6. RowStep
      BY <3>1 DEF RowStep
    <3>7. Moved(o, "openAnalysis") \/ Moved(o, "idle")
      BY <2>4, CommitMoves
    <3>8. QED
      BY <2>1, <3>2, <3>3, <3>4, <3>5, <3>6, <3>7, TurnMoves DEF Good
  <2>5. CASE GoOn(o, "fail") /\ UNCHANGED <<wf, tech>>
    BY <2>1, <2>3, <2>5, GoOnMoves, RowRests, PlacedAnywhere
  <2>6. QED
    BY <1>1, <2>4, <2>5 DEF AttachScreening
<1>2. CASE Complete(o)
  <2>1. pc[o] = "complete" /\ NoFutures(o) /\ UNCHANGED tech
    BY <1>2, OutsideBatch DEF Complete
  <2>2. wf.lifecycle \in Active /\ wf.screening /\ wf.snapshot
        /\ \A c \in Candidates : tech[c] # "absent"
    BY <1>0, <2>1 DEF Placed, InStage, Screened
  <2>3. /\ wf'.lifecycle = IF CountsOf(tech).failed > 0 \/ CountsOf(tech).pending > 0
                           THEN "partial_success" ELSE "succeeded"
        /\ wf'.snapshot = wf.snapshot /\ wf'.screening = wf.screening
    BY <1>2 DEF Complete, TypeOK
  <2>4. tech \in [Candidates -> StageStates]
    BY DEF TypeOK
  <2>5. OutcomeIsCounted'
    <3>1. CASE CountsOf(tech).failed = 0 /\ CountsOf(tech).pending = 0
      <4>1. wf'.lifecycle = "succeeded"
        BY <2>3, <3>1
      <4>2. \A c \in Candidates : tech[c] \notin {"failed", "pending", "running"}
        BY <2>4, <3>1, CountsTell
      <4>3. \A c \in Candidates : tech[c] = "succeeded"
        BY <2>2, <2>4, <4>2 DEF StageStates
      <4>4. QED
        BY <2>1, <4>1, <4>3 DEF OutcomeIsCounted
    <3>2. CASE ~(CountsOf(tech).failed = 0 /\ CountsOf(tech).pending = 0)
      <4>1. CountsOf(tech).failed > 0 \/ CountsOf(tech).pending > 0
        BY <2>4, <3>2, CountsTell
      <4>2. wf'.lifecycle = "partial_success"
        BY <2>3, <4>1
      <4>3. \E c \in Candidates : tech[c] # "succeeded"
        BY <2>4, <3>2, CountsTell
      <4>4. QED
        BY <2>1, <4>2, <4>3 DEF OutcomeIsCounted
    <3>3. QED
      BY <3>1, <3>2
  <2>6. Screened' /\ Kept
    BY <1>0, <2>1, <2>3 DEF Screened, Kept
  <2>7. RowStep
    BY <2>2, <2>3 DEF RowStep, Row!Next, Row!End, Active
  <2>8. QED
    BY <1>2, <2>1, <2>5, <2>6, <2>7, LeaveMoves, PlacedAnywhere, TurnMoves DEF Complete, Good
<1>3. CASE FailWorkflow(o)
  <2>1. pc[o] = "fail" /\ NoFutures(o) /\ UNCHANGED tech
    BY <1>3, OutsideBatch DEF FailWorkflow
  <2>2. CASE wf' = [wf EXCEPT !.lifecycle = "failed"]
    <3>1. wf'.lifecycle = "failed" /\ wf'.snapshot = wf.snapshot /\ wf'.screening = wf.screening
      BY <2>2 DEF TypeOK
    <3>2. Screened' /\ OutcomeIsCounted' /\ Kept
      BY <1>0, <2>1, <3>1 DEF Screened, OutcomeIsCounted, Kept
    <3>3. wf.lifecycle \in Active \cup {"failed", "partial_success"}
      BY <1>0, <2>1 DEF Placed, TypeOK, Lifecycles, Completed
    <3>4. RowStep
      BY <3>1, <3>3 DEF RowStep, Row!Next, Row!Fail, Active
    <3>5. QED
      BY <1>3, <2>1, <3>2, <3>4, LeaveMoves, PlacedAnywhere, TurnMoves DEF FailWorkflow, Good
  <2>3. CASE UNCHANGED wf
    BY <1>3, <2>1, <2>3, LeaveMoves, RowRests, PlacedAnywhere DEF FailWorkflow
  <2>4. QED
    BY <1>3, <2>2, <2>3 DEF FailWorkflow
<1>4. CASE Crash(o)
  <2>1. pc'[o] = "idle" /\ NoFutures(o)' /\ UNCHANGED <<wf, tech>>
    BY <1>4 DEF Crash, Goto, NoFutures, NoTasks, AtWork, ThreadSteps, TypeOK
  <2>2. Futures(o)'
    BY <2>1 DEF Futures, NoFutures, AtWork
  <2>3. Screened' /\ OutcomeIsCounted' /\ Kept /\ RowStep
    BY <1>0, <2>1 DEF Screened, OutcomeIsCounted, Kept, RowStep
  <2>4. QED
    BY <2>1, <2>2, <2>3, PlacedAnywhere DEF Turn, Good
<1>5. QED
  BY <1>1, <1>2, <1>3, <1>4

\* Inside a batch the caller moves to l and the futures go on as they may.
LEMMA BatchMoves ==
    ASSUME TypeOK, NEW o \in Callers, Turn(o), NEW l \in {"batch", "join", "complete"},
           pc' = [pc EXCEPT ![o] = l], wf.lifecycle \in Active, wf.screening, UNCHANGED <<wf, tech>>,
           l # "batch" => \A c \in Candidates : task'[o][c] # "queued",
           l = "complete" => NoFutures(o)',
           \A c \in Candidates : task'[o][c] \in AtWork => tech[c] # "succeeded"
    PROVE  Good(o)
<1>1. pc'[o] = l
  BY DEF TypeOK
<1>2. Futures(o)'
  BY <1>1 DEF Futures
<1>3. wf.lifecycle \notin {"none", "succeeded"}
  BY DEF Active
<1>4. Placed(l, wf')
  BY <1>3 DEF Placed, InStage, Steps
<1>5. Screened' /\ OutcomeIsCounted' /\ Kept /\ RowStep
  BY DEF Turn, Screened, OutcomeIsCounted, Kept, RowStep
<1>6. QED
  BY <1>1, <1>2, <1>4, <1>5 DEF Turn, Good

\* So do the main thread's steps on a batch.
LEMMA TurnBatch ==
    ASSUME TypeOK, NEW o \in Callers, Turn(o), Submit(o) \/ Await(o) \/ Join(o)
    PROVE  Good(o)
<1> USE DEF rows
<1>0. /\ pc[o] \in {"submit", "batch", "join"} /\ UNCHANGED <<wf, tech>>
      /\ Placed(pc[o], wf) /\ Futures(o)
  BY DEF Submit, Await, Join, Turn
<1>1. wf.lifecycle \in Active /\ wf.screening
  BY <1>0 DEF Placed, InStage
<1>2. CASE Submit(o)
  <2>1. /\ task' = [task EXCEPT ![o] =
                      [c \in Candidates |-> IF tech[c] = "succeeded" THEN "none" ELSE "queued"]]
        /\ pc' = [pc EXCEPT ![o] = "batch"]
    BY <1>2 DEF Submit, Goto
  <2>2. \A c \in Candidates : task'[o][c] \in AtWork => tech[c] # "succeeded"
    BY <2>1 DEF TypeOK, AtWork, ThreadSteps
  <2>3. QED
    BY <1>0, <1>1, <2>1, <2>2, BatchMoves
<1>3. CASE Await(o)
  <2>1. CASE /\ \A c \in Candidates : task[o][c] \in {"none", "done"}
             /\ Goto(o, "complete")
             /\ UNCHANGED task
    <3>1. NoFutures(o)' /\ \A c \in Candidates : task'[o][c] # "queued"
      BY <2>1 DEF NoFutures, AtWork, ThreadSteps
    <3>2. \A c \in Candidates : task'[o][c] \in AtWork => tech[c] # "succeeded"
      BY <3>1 DEF NoFutures
    <3>3. QED
      BY <1>0, <1>1, <2>1, <3>1, <3>2, BatchMoves DEF Goto
  <2>2. CASE /\ task' = [task EXCEPT ![o] =
                           [d \in Candidates |-> IF task[o][d] = "queued" THEN "none"
                                                 ELSE task[o][d]]]
             /\ Goto(o, "join")
    <3>1. \A d \in Candidates :
             task'[o][d] = IF task[o][d] = "queued" THEN "none" ELSE task[o][d]
      BY <2>2 DEF TypeOK
    <3>2. \A d \in Candidates : task'[o][d] \in AtWork => tech[d] # "succeeded"
      BY <1>0, <3>1 DEF Futures, AtWork, ThreadSteps
    <3>3. \A d \in Candidates : task'[o][d] # "queued"
      BY <3>1
    <3>4. QED
      BY <1>0, <1>1, <2>2, <3>2, <3>3, BatchMoves DEF Goto
  <2>3. QED
    BY <1>3, <2>1, <2>2 DEF Await
<1>4. CASE Join(o)
  <2>1. NoFutures(o)
    BY <1>0, <1>4 DEF Join, Futures, NoFutures, AtWork
  <2>2. PICK l \in {"fail", "idle"} : Moved(o, l)
    BY <1>4, GoOnMoves, LeaveMoves DEF Join, Reraise
  <2>3. wf.lifecycle \notin {"none", "succeeded"}
    BY <1>1 DEF Active
  <2>4. Placed(l, wf)
    BY <2>3, PlacedAnywhere
  <2>5. QED
    BY <1>0, <2>1, <2>2, <2>4, RowRests
<1>5. QED
  BY <1>2, <1>3, <1>4

\* A thread works for a caller that waits for it.
LEMMA TurnThread ==
    ASSUME TypeOK, NEW o \in Callers, Turn(o), NEW c \in Candidates,
           BeginTask(o, c) \/ RunTask(o, c) \/ TaskFails(o, c)
    PROVE  Good(o)
<1> USE DEF rows, snapshotRun
<1>1. /\ task[o][c] \in AtWork
      /\ task[o][c] = "queued" => BeginTask(o, c)
      /\ UNCHANGED <<wf, pc>>
  BY DEF BeginTask, RunTask, Analyse, SetStage, TaskFails, AtWork, ThreadSteps
<1>2. Futures(o) /\ Placed(pc[o], wf) /\ Screened /\ OutcomeIsCounted
  BY DEF Turn
<1>3. pc[o] \in {"batch", "join"} /\ tech[c] # "succeeded"
  BY <1>1, <1>2 DEF Futures, NoFutures
<1>4. wf.lifecycle \in Active /\ wf.lifecycle \notin Completed
  BY <1>2, <1>3 DEF Placed, InStage, Active, Completed
<1>5. PICK t \in TaskStates \ {"none", "queued"} :
          SetTask(o, c, t) /\ (tech'[c] = "succeeded" => t \notin ThreadSteps)
  <2>1. CASE BeginTask(o, c)
    BY <1>3, <2>1 DEF BeginTask, TaskStates, ThreadSteps
  <2>2. CASE TaskFails(o, c)
    BY <1>3, <2>2 DEF TaskFails, TaskStates, ThreadSteps
  <2>3. CASE Analyse(o, c)
    BY <1>3, <2>3 DEF Analyse, TaskStates, ThreadSteps
  <2>4. ASSUME NEW s \in {"running", "succeeded", "failed"}, NEW next \in {"analyse", "done"},
               SetStage(o, c, s, next), s = "succeeded" => next = "done"
        PROVE  \E t \in TaskStates \ {"none", "queued"} :
                  SetTask(o, c, t) /\ (tech'[c] = "succeeded" => t \notin ThreadSteps)
    <3>1. tech'[c] = s
      BY <2>4 DEF SetStage, TypeOK
    <3>2. PICK t \in {next, "uncertain"} : SetTask(o, c, t)
      BY <2>4 DEF SetStage
    <3>3. t \in TaskStates \ {"none", "queued"} /\ (s = "succeeded" => t \notin ThreadSteps)
      BY <2>4, <3>2 DEF TaskStates, ThreadSteps
    <3>4. QED
      BY <3>1, <3>2, <3>3
  <2>5. QED
    BY <2>1, <2>2, <2>3, <2>4 DEF RunTask
<1>6. \A d \in Candidates : d # c => tech'[d] = tech[d] /\ task'[o][d] = task[o][d]
  BY <1>5, SetTaskMoves DEF BeginTask, RunTask, Analyse, SetStage, TaskFails, TypeOK
<1>7. task'[o][c] = t
  BY <1>5, SetTaskMoves
<1>8. Futures(o)'
  <2>1. ASSUME NEW d \in Candidates, task'[o][d] \in AtWork PROVE tech'[d] # "succeeded"
    BY <1>2, <1>5, <1>6, <1>7, <2>1 DEF Futures, AtWork
  <2>2. pc'[o] = pc[o]
    BY <1>1
  <2>3. pc[o] = "join" => \A d \in Candidates : task'[o][d] # "queued"
    BY <1>2, <1>5, <1>6, <1>7 DEF Futures
  <2>4. QED
    BY <1>3, <2>1, <2>2, <2>3 DEF Futures
<1>9. Screened'
  <2>1. tech'[c] # "absent" \/ UNCHANGED tech
    BY DEF BeginTask, RunTask, Analyse, SetStage, TaskFails, TypeOK
  <2>2. QED
    BY <1>1, <1>2, <1>6, <2>1 DEF Screened
<1>10. OutcomeIsCounted' /\ Placed(pc'[o], wf')
  BY <1>1, <1>2, <1>4 DEF OutcomeIsCounted, Completed
<1>11. Kept /\ RowStep
  BY <1>1, <1>3, <1>6 DEF Kept, RowStep
<1>12. QED
  BY <1>8, <1>9, <1>10, <1>11 DEF Turn, Good

\* What holds whenever the caller is the only one.
TurnsInv == TypeOK /\ OutcomeIsCounted /\ \A o \in Callers : Turn(o)

\* The initial state satisfies the invariant of turns.
LEMMA TurnsInit == Init => TurnsInv
<1> SUFFICES ASSUME Init PROVE TurnsInv
  OBVIOUS
<1>1. TypeOK
  BY InitHolds
<1>2. ASSUME NEW o \in Callers PROVE Turn(o)
  <2>1. pc[o] = "idle" /\ NoFutures(o)
    BY DEF Init, NoTasks, NoFutures, AtWork, ThreadSteps
  <2>2. Futures(o)
    BY <2>1 DEF Futures, NoFutures, AtWork
  <2>3. Screened /\ OutcomeIsCounted
    BY DEF Init, Screened, OutcomeIsCounted
  <2>4. QED
    BY <2>1, <2>2, <2>3, PlacedAnywhere DEF Turn
<1>3. QED
  BY <1>1, <1>2 DEF TurnsInv, Init, OutcomeIsCounted

\* With one caller every step keeps it, keeps what succeeded and is a step of the row's promise.
LEMMA TurnsStep ==
    ASSUME OneCaller, TurnsInv, [Next]_vars PROVE TurnsInv' /\ Kept /\ RowStep
<1>0. TypeOK /\ TypeOK'
  BY StepKeeps DEF TurnsInv
<1>1. CASE UNCHANGED vars
  <2>1. UNCHANGED <<wf, tech, pc, task>>
    BY <1>1 DEF vars, rows
  <2>2. Kept /\ RowStep /\ OutcomeIsCounted'
    BY <2>1 DEF Kept, RowStep, TurnsInv, OutcomeIsCounted
  <2>3. ASSUME NEW o \in Callers PROVE Turn(o)'
    BY <2>1 DEF TurnsInv, Turn, Futures, NoFutures, Screened, OutcomeIsCounted
  <2>4. QED
    BY <1>0, <2>2, <2>3 DEF TurnsInv
<1>2. CASE Next
  <2>1. PICK o \in Callers : Good(o)
    <3>1. ASSUME NEW o \in Callers, Start(o) \/ Step(o) \/ CallFails(o) \/ Crash(o) PROVE Good(o)
      BY <1>0, <3>1, TurnControl, TurnRow, TurnResult, TurnBatch, TurnThread DEF Step, TurnsInv
    <3>2. ASSUME NEW o \in Callers, NEW c \in Candidates, TaskFails(o, c) PROVE Good(o)
      BY <1>0, <3>2, TurnThread DEF TurnsInv
    <3>3. QED
      BY <1>2, <3>1, <3>2 DEF Next
  <2>2. ASSUME NEW p \in Callers PROVE Turn(p)'
    <3>1. p = o
      BY DEF OneCaller
    <3>2. QED
      BY <2>1, <3>1 DEF Good
  <2>3. QED
    BY <1>0, <2>1, <2>2 DEF TurnsInv, Good, Turn
<1>3. QED
  BY <1>1, <1>2

\* The invariant of turns holds in every behaviour of one caller.
LEMMA TurnsInvariant == ASSUME OneCaller PROVE Spec => []TurnsInv
<1>1. Init => TurnsInv
  BY TurnsInit
<1>2. TurnsInv /\ [Next]_vars => TurnsInv'
  BY TurnsStep
<1>3. QED
  BY <1>1, <1>2, PTL DEF Spec

\* While calls are made one after another, crashes, cancelled futures and lost
\* acknowledgements never make a succeeded workflow miss a candidate's analysis,
\* nor a partial one have them all.
THEOREM WorkflowOutcomeIsCounted == OneCaller => (Spec => []OutcomeIsCounted)
<1> SUFFICES ASSUME OneCaller PROVE Spec => []OutcomeIsCounted
  OBVIOUS
<1>1. TurnsInv => OutcomeIsCounted
  BY DEF TurnsInv
<1>2. QED
  BY <1>1, TurnsInvariant, PTL

\* A workflow whose row says that it is over has no thread of an abandoned batch at
\* work: the pool is left only when its threads have finished.
THEOREM WorkflowNoWorkAfterEnd == OneCaller => (Spec => []NoWorkAfterEnd)
<1> SUFFICES ASSUME OneCaller PROVE Spec => []NoWorkAfterEnd
  OBVIOUS
<1>1. TurnsInv => NoWorkAfterEnd
  <2> SUFFICES ASSUME TurnsInv, NEW o \in Callers, NEW c \in Candidates, task[o][c] \in ThreadSteps
               PROVE  wf.lifecycle \notin Completed \cup {"failed"}
    BY DEF NoWorkAfterEnd
  <2>1. pc[o] \in {"batch", "join"}
    BY DEF TurnsInv, Turn, Futures, NoFutures, AtWork
  <2>2. wf.lifecycle \in Active
    BY <2>1 DEF TurnsInv, Turn, Placed, InStage
  <2>3. QED
    BY <2>2 DEF Active, Completed
<1>2. QED
  BY <1>1, TurnsInvariant, PTL

\* A resumed workflow never touches a candidate that succeeded, whatever interrupts it.
THEOREM WorkflowKeepsSuccess == OneCaller => (Spec => SucceededIsKept)
<1> SUFFICES ASSUME OneCaller PROVE Spec => SucceededIsKept
  OBVIOUS
<1>1. TurnsInv /\ [Next]_vars
          => [\A c \in Candidates : tech[c] = "succeeded" => tech'[c] = "succeeded"]_vars
  BY TurnsStep DEF Kept
<1>2. QED
  BY <1>1, TurnsInvariant, PTL DEF Spec, SucceededIsKept

\* The result of a workflow that is called by one caller after another stands.
THEOREM WorkflowResultIsFinal == OneCaller => (Spec => ResultIsFinal)
<1> SUFFICES ASSUME OneCaller PROVE Spec => ResultIsFinal
  OBVIOUS
<1>1. Spec => []OutcomeIsCounted /\ []NoWorkAfterEnd /\ SucceededIsKept
  BY WorkflowOutcomeIsCounted, WorkflowNoWorkAfterEnd, WorkflowKeepsSuccess
<1>2. QED
  BY <1>1 DEF ResultIsFinal

\* The row of a workflow called by one caller after another behaves as
\* OfficialWorkflow promises: claimed once, never reopened after success, ended
\* well only with its snapshot linked, and the link never taken back.
THEOREM WorkflowImplementsRow == OneCaller => (Spec => RowSpec)
<1> SUFFICES ASSUME OneCaller PROVE Spec => RowSpec
  OBVIOUS
<1>1. Init => Row!Init
  BY DEF Init, Row!Init, Active
<1>2. TurnsInv /\ [Next]_vars
          => [Row!Next]_<<(IF wf.lifecycle \in Active THEN "running" ELSE wf.lifecycle), wf.snapshot>>
  BY TurnsStep DEF RowStep
<1>3. QED
  BY <1>1, <1>2, TurnsInvariant, PTL DEF Spec, RowSpec, Row!Spec

-----------------------------------------------------------------------------
(* Callers that overlap.  What a caller has claimed is its own until it ends it  *)
(* (Backed, Alone), its futures are alive only inside its batch (Pooled), and    *)
(* what is linked has succeeded (ResultHasEvidence).                             *)

\* What the rows say while a caller is at l.
Backed(l) ==
    /\ l = "fetch" => slot = "running"
    /\ l = "screen" => screen = "running"
    /\ l = "attachSnapshot" => slot = "succeeded"
    /\ l \in {"openScreening", "claimScreening", "screen", "attachScreening"} => wf.snapshot
    /\ l = "attachScreening" => screen = "succeeded"
    /\ l \in {"openAnalysis", "submit", "batch", "join", "complete"} => wf.screening

Pooled(o) ==
    /\ pc[o] \notin {"batch", "join"} => NoFutures(o)
    /\ pc[o] = "join" => raising[o] # "none" /\ \A c \in Candidates : task[o][c] # "queued"

\* One caller at a time is between the claim of a run and its end.
Alone == \A o, p \in Callers : pc[o] = pc[p] /\ pc[o] \in {"fetch", "screen"} => o = p

OverlapInv ==
    /\ TypeOK /\ ResultHasEvidence /\ Alone
    /\ slot = "succeeded" => artifact
    /\ \A o \in Callers : Backed(pc[o]) /\ Pooled(o)

\* What every step of o does to the rows: a link stays, an end is final, and what is
\* running is ended by the caller that claimed it.
RowsGrow(o) ==
    /\ wf.snapshot => wf'.snapshot
    /\ wf.screening => wf'.screening
    /\ slot = "succeeded" => slot' = "succeeded" /\ artifact' = artifact
    /\ slot # "succeeded" /\ slot' = "succeeded" => artifact'
    /\ screen = "succeeded" => screen' = "succeeded"
    /\ slot = "running" => slot' = "running" \/ pc[o] = "fetch"
    /\ screen = "running" => screen' = "running" \/ pc[o] = "screen"

OthersRest(o) ==
    \A p \in Callers : p # o => pc'[p] = pc[p] /\ raising'[p] = raising[p] /\ task'[p] = task[p]

\* The control of o goes to l; its futures stay, or are forgotten.
Goes(o, l) ==
    /\ OthersRest(o)
    /\ pc'[o] = l
    /\ \A c \in Candidates : task'[o][c] \in {task[o][c], "none"}

\* A caller that goes on keeps its futures, one that leaves forgets them.
LEMMA ControlGoes ==
    ASSUME TypeOK, NEW o \in Callers
    PROVE  /\ Leave(o) => Goes(o, "idle")
           /\ \A l : GoOn(o, l) => Goes(o, l)
           /\ \A l : Commit(o, l) => Goes(o, l) \/ Goes(o, "idle")
<1>1. ASSUME Leave(o) PROVE Goes(o, "idle")
  BY <1>1 DEF Leave, Goto, Goes, OthersRest, TypeOK
<1>2. ASSUME NEW l, GoOn(o, l) PROVE Goes(o, l)
  BY <1>2 DEF GoOn, Goto, Goes, OthersRest, TypeOK
<1>3. QED
  BY <1>1, <1>2 DEF Commit

\* Whatever o does, the others stand where they stood.
LEMMA OthersStay ==
    ASSUME OverlapInv, TypeOK', NEW o \in Callers, OthersRest(o), RowsGrow(o), ResultHasEvidence',
           Backed(pc[o])', Pooled(o)',
           pc'[o] = "fetch" => slot = "none", pc'[o] = "screen" => screen = "none"
    PROVE  OverlapInv'
<1>1. ASSUME NEW p \in Callers, p # o PROVE Backed(pc[p])' /\ Pooled(p)'
  <2>1. /\ pc'[p] = pc[p] /\ raising'[p] = raising[p] /\ task'[p] = task[p]
        /\ Backed(pc[p]) /\ Pooled(p)
    BY <1>1 DEF OthersRest, OverlapInv
  <2>2. Pooled(p)'
    BY <2>1 DEF Pooled, NoFutures
  <2>3. pc[p] \in {"fetch", "screen"} => pc[o] # pc[p]
    BY <1>1 DEF OverlapInv, Alone
  <2>4. Backed(pc[p])'
    BY <2>1, <2>3 DEF Backed, RowsGrow
  <2>5. QED
    BY <2>2, <2>4
<1>2. ASSUME NEW p \in Callers, p # o, pc'[o] = pc'[p] PROVE pc'[o] \notin {"fetch", "screen"}
  BY <1>2 DEF OthersRest, OverlapInv, Backed
<1>3. Alone'
  <2>1. SUFFICES ASSUME NEW p \in Callers, NEW q \in Callers, p # q, pc'[p] = pc'[q],
                        pc'[p] \in {"fetch", "screen"}
                 PROVE  FALSE
    BY DEF Alone
  <2>2. p # o /\ q # o
    BY <1>2, <2>1
  <2>3. pc[p] = pc[q] /\ pc[p] \in {"fetch", "screen"}
    BY <2>1, <2>2 DEF OthersRest
  <2>4. QED
    BY <2>1, <2>3 DEF OverlapInv, Alone
<1>4. ASSUME NEW p \in Callers PROVE Backed(pc[p])' /\ Pooled(p)'
  <2>1. CASE p = o
    BY <2>1
  <2>2. CASE p # o
    BY <1>1, <2>2
  <2>3. QED
    BY <2>1, <2>2
<1>5. slot' = "succeeded" => artifact'
  BY DEF OverlapInv, RowsGrow
<1>6. QED
  BY <1>3, <1>4, <1>5 DEF OverlapInv

\* Outside a batch the control goes on without futures.
LEMMA StillNoFutures ==
    ASSUME OverlapInv, NEW o \in Callers, pc[o] \notin {"batch", "join"}, NEW l, Goes(o, l)
    PROVE  NoFutures(o)'
BY DEF OverlapInv, Pooled, Goes, NoFutures, AtWork, ThreadSteps

\* A caller whose futures are over moves to l.
LEMMA CallerMoves ==
    ASSUME OverlapInv, TypeOK', NEW o \in Callers, NEW l, Goes(o, l), RowsGrow(o),
           ResultHasEvidence', NoFutures(o)', l # "join", Backed(l)',
           l = "fetch" => slot = "none", l = "screen" => screen = "none"
    PROVE  OverlapInv'
<1>1. Pooled(o)' /\ pc'[o] = l /\ OthersRest(o)
  BY DEF Pooled, Goes
<1>2. Backed(pc[o])'
  BY <1>1 DEF Backed
<1>3. QED
  BY <1>1, <1>2, OthersStay

\* ... and leaves the rows alone.
LEMMA CallerMovesOnly ==
    ASSUME OverlapInv, TypeOK', NEW o \in Callers, NEW l, Goes(o, l), NoFutures(o)',
           UNCHANGED <<wf, slot, artifact, screen, tech>>, Backed(l), l \notin {"fetch", "screen", "join"}
    PROVE  OverlapInv'
<1>1. RowsGrow(o)
  BY DEF RowsGrow
<1>2. ResultHasEvidence'
  BY DEF OverlapInv, ResultHasEvidence
<1>3. Backed(l)'
  BY DEF Backed
<1>4. QED
  BY <1>1, <1>2, <1>3, CallerMoves

\* Steps that leave the rows alone.
LEMMA OverlapControl ==
    ASSUME OverlapInv, TypeOK', NEW o \in Callers,
           Start(o) \/ Resume(o) \/ Join(o) \/ CallFails(o) \/ Crash(o)
    PROVE  OverlapInv'
<1> USE DEF rows, snapshotRun
<1>0. TypeOK /\ Backed("idle") /\ Backed("fail") /\ Backed("execute") /\ Backed("resume")
      /\ Backed(NextStage(wf))
  BY DEF OverlapInv, Backed, NextStage
<1>1. CASE Start(o)
  <2>1. PICK l \in {"execute", "resume"} : Goes(o, l)
    BY <1>0, <1>1, ControlGoes DEF Start
  <2>2. NoFutures(o)' /\ UNCHANGED <<wf, slot, artifact, screen, tech>>
    BY <1>1, <2>1, StillNoFutures DEF Start
  <2>3. QED
    BY <1>0, <2>1, <2>2, CallerMovesOnly
<1>2. CASE Resume(o)
  <2>1. PICK l \in {"idle", NextStage(wf)} : Goes(o, l)
    BY <1>0, <1>2, ControlGoes DEF Resume
  <2>2. NoFutures(o)' /\ UNCHANGED <<wf, slot, artifact, screen, tech>>
    BY <1>2, <2>1, StillNoFutures DEF Resume
  <2>3. Backed(l) /\ l \notin {"fetch", "screen", "join"}
    BY <1>0, <2>1, NextStageIsStep
  <2>4. QED
    BY <2>1, <2>2, <2>3, CallerMovesOnly
<1>3. CASE Join(o)
  <2>1. PICK l \in {"idle", "fail"} : Goes(o, l)
    BY <1>0, <1>3, ControlGoes DEF Join, Reraise
  <2>2. NoFutures(o)' /\ UNCHANGED <<wf, slot, artifact, screen, tech>>
    <3>1. NoFutures(o)
      BY <1>3 DEF Join, OverlapInv, Pooled, NoFutures, AtWork
    <3>2. QED
      BY <1>3, <2>1, <3>1 DEF Join, Goes, NoFutures, AtWork, ThreadSteps
  <2>3. QED
    BY <1>0, <2>1, <2>2, CallerMovesOnly
<1>4. CASE CallFails(o)
  <2>1. PICK l \in {"idle", "fail"} : Goes(o, l)
    BY <1>0, <1>4, ControlGoes DEF CallFails
  <2>2. NoFutures(o)' /\ UNCHANGED <<wf, slot, artifact, screen, tech>>
    BY <1>4, <2>1, StillNoFutures DEF CallFails
  <2>3. QED
    BY <1>0, <2>1, <2>2, CallerMovesOnly
<1>5. CASE Crash(o)
  <2>1. Goes(o, "idle") /\ NoFutures(o)'
    BY <1>0, <1>5 DEF Crash, Goto, Goes, OthersRest, NoTasks, NoFutures, AtWork, ThreadSteps, TypeOK
  <2>2. UNCHANGED <<wf, slot, artifact, screen, tech>>
    BY <1>5 DEF Crash
  <2>3. QED
    BY <1>0, <2>1, <2>2, CallerMovesOnly
<1>6. QED
  BY <1>1, <1>2, <1>3, <1>4, <1>5

\* Steps that claim the row or reopen it.
LEMMA OverlapOpen ==
    ASSUME OverlapInv, TypeOK', NEW o \in Callers, Execute(o) \/ OpenStage(o)
    PROVE  OverlapInv'
<1> USE DEF snapshotRun
<1>0. TypeOK /\ Backed(pc[o])
  BY DEF OverlapInv
<1>1. PICK l \in {"idle", "openSnapshot", "capture", "claimScreening", "submit"} :
          /\ Goes(o, l)
          /\ l = "claimScreening" => pc[o] = "openScreening"
          /\ l = "submit" => pc[o] = "openAnalysis"
  <2>1. CASE Execute(o)
    BY <1>0, <2>1, ControlGoes DEF Execute
  <2>2. CASE OpenStage(o)
    <3>1. PICK k \in Active, next \in {"capture", "claimScreening", "submit"} :
              /\ SetLifecycle(o, k, next)
              /\ next = "claimScreening" => pc[o] = "openScreening"
              /\ next = "submit" => pc[o] = "openAnalysis"
      BY <2>2 DEF OpenStage, Active
    <3>2. Goes(o, next) \/ Goes(o, "idle")
      BY <1>0, <3>1, ControlGoes DEF SetLifecycle, Goto, Goes, OthersRest, TypeOK
    <3>3. QED
      BY <3>1, <3>2
  <2>3. QED
    BY <2>1, <2>2
<1>2. /\ UNCHANGED <<slot, artifact, screen, tech>>
      /\ wf'.snapshot = wf.snapshot /\ wf'.screening = wf.screening
      /\ wf'.lifecycle = wf.lifecycle \/ wf'.lifecycle \in Active
  BY <1>0 DEF Execute, OpenStage, SetLifecycle, Active, TypeOK
<1>3. RowsGrow(o)
  BY <1>2 DEF RowsGrow
<1>4. ResultHasEvidence'
  BY <1>2 DEF OverlapInv, ResultHasEvidence, Active, Completed
<1>5. Backed(l)'
  BY <1>0, <1>1, <1>2 DEF Backed
<1>6. pc[o] \notin {"batch", "join"}
  BY DEF Execute, OpenStage
<1>7. QED
  BY <1>1, <1>3, <1>4, <1>5, <1>6, StillNoFutures, CallerMoves

\* Steps that claim, capture or link the snapshot.
LEMMA OverlapSnapshot ==
    ASSUME OverlapInv, TypeOK', NEW o \in Callers,
           CaptureSnapshot(o) \/ FetchSnapshot(o) \/ AttachSnapshot(o)
    PROVE  OverlapInv'
<1> USE DEF snapshotRun
<1>0. TypeOK /\ Backed(pc[o]) /\ ResultHasEvidence /\ (slot = "succeeded" => artifact)
  BY DEF OverlapInv
<1>1. CASE CaptureSnapshot(o)
  <2>1. /\ pc[o] = "capture" /\ UNCHANGED <<wf, screen, tech>>
        /\ Engine!Claim \/ (slot # "none" /\ UNCHANGED <<slot, artifact>>)
    BY <1>1 DEF CaptureSnapshot
  <2>2. PICK l \in {"fetch", "attachSnapshot", "fail"} :
            /\ Goes(o, l)
            /\ l = "fetch" => Engine!Claim
            /\ l = "attachSnapshot" => slot = "succeeded" /\ UNCHANGED slot
    <3>1. \/ GoOn(o, "fetch") /\ Engine!Claim
          \/ GoOn(o, "fail")
          \/ GoOn(o, "attachSnapshot") /\ slot = "succeeded" /\ UNCHANGED slot
      BY <1>1 DEF CaptureSnapshot
    <3>2. QED
      BY <1>0, <3>1, ControlGoes
  <2>3. RowsGrow(o) /\ ResultHasEvidence'
    BY <1>0, <2>1 DEF RowsGrow, ResultHasEvidence, Engine!Claim
  <2>4. Backed(l)' /\ (l = "fetch" => slot = "none")
    BY <2>2 DEF Backed, Engine!Claim
  <2>5. QED
    BY <2>1, <2>2, <2>3, <2>4, StillNoFutures, CallerMoves
<1>2. CASE FetchSnapshot(o)
  <2>1. /\ pc[o] = "fetch" /\ UNCHANGED <<wf, screen, tech>>
        /\ Engine!Capture \/ Engine!Fail \/ UNCHANGED <<slot, artifact>>
    BY <1>2 DEF FetchSnapshot
  <2>2. PICK l \in {"attachSnapshot", "fail"} :
            Goes(o, l) /\ (l = "attachSnapshot" => Engine!Capture)
    <3>1. GoOn(o, "fail") \/ (GoOn(o, "attachSnapshot") /\ Engine!Capture)
      BY <1>2 DEF FetchSnapshot
    <3>2. QED
      BY <1>0, <3>1, ControlGoes
  <2>3. RowsGrow(o) /\ ResultHasEvidence'
    BY <1>0, <2>1 DEF RowsGrow, ResultHasEvidence, Backed, Engine!Capture, Engine!Fail
  <2>4. Backed(l)'
    BY <2>2 DEF Backed, Engine!Capture
  <2>5. QED
    BY <2>1, <2>2, <2>3, <2>4, StillNoFutures, CallerMoves
<1>3. CASE AttachSnapshot(o)
  <2>1. pc[o] = "attachSnapshot" /\ slot = "succeeded" /\ UNCHANGED <<slot, artifact, screen, tech>>
    BY <1>0, <1>3 DEF AttachSnapshot, Backed
  <2>2. /\ wf' = [wf EXCEPT !.snapshot = TRUE] /\ wf'.snapshot
        /\ wf'.lifecycle = wf.lifecycle /\ wf'.screening = wf.screening
    BY <1>0, <1>3 DEF AttachSnapshot, TypeOK
  <2>3. PICK l \in {NextStage(wf'), "idle"} : Goes(o, l)
    BY <1>0, <1>3, <2>2, ControlGoes DEF AttachSnapshot
  <2>4. RowsGrow(o)
    BY <2>1, <2>2 DEF RowsGrow
  <2>5. ResultHasEvidence'
    BY <1>0, <2>1, <2>2 DEF ResultHasEvidence
  <2>6. Backed(l)' /\ l \notin {"fetch", "screen", "join"}
    BY <2>2, <2>3, NextStageIsStep DEF Backed, NextStage
  <2>7. QED
    BY <2>1, <2>3, <2>4, <2>5, <2>6, StillNoFutures, CallerMoves
<1>4. QED
  BY <1>1, <1>2, <1>3

\* Steps that claim, end or link the screening.
LEMMA OverlapScreening ==
    ASSUME OverlapInv, TypeOK', NEW o \in Callers,
           ClaimScreening(o) \/ Screen(o) \/ AttachScreening(o)
    PROVE  OverlapInv'
<1> USE DEF snapshotRun
<1>0. TypeOK /\ Backed(pc[o]) /\ ResultHasEvidence
  BY DEF OverlapInv
<1>1. CASE ClaimScreening(o)
  <2>1. /\ pc[o] = "claimScreening" /\ UNCHANGED <<wf, slot, artifact, tech>>
        /\ (screen = "none" /\ screen' = "running") \/ UNCHANGED screen
    BY <1>1 DEF ClaimScreening
  <2>2. PICK l \in {"screen", "attachScreening", "fail"} :
            /\ Goes(o, l)
            /\ l = "screen" => screen = "none" /\ screen' = "running"
            /\ l = "attachScreening" => screen = "succeeded" /\ UNCHANGED screen
    <3>1. \/ GoOn(o, "screen") /\ screen = "none" /\ screen' = "running"
          \/ GoOn(o, "fail")
          \/ GoOn(o, "attachScreening") /\ screen = "succeeded" /\ UNCHANGED screen
      BY <1>1 DEF ClaimScreening
    <3>2. QED
      BY <1>0, <3>1, ControlGoes
  <2>3. RowsGrow(o) /\ ResultHasEvidence'
    BY <1>0, <2>1 DEF RowsGrow, ResultHasEvidence
  <2>4. Backed(l)'
    BY <1>0, <2>1, <2>2 DEF Backed
  <2>5. QED
    BY <2>1, <2>2, <2>3, <2>4, StillNoFutures, CallerMoves
<1>2. CASE Screen(o)
  <2>1. /\ pc[o] = "screen" /\ UNCHANGED <<wf, slot, artifact, tech>>
        /\ screen \in {"running"} \/ UNCHANGED screen
    BY <1>2 DEF Screen, EndScreening
  <2>2. PICK l \in {"attachScreening", "idle", "fail"} :
            Goes(o, l) /\ (l = "attachScreening" => screen' = "succeeded")
    <3>1. \/ GoOn(o, "fail")
          \/ Commit(o, "attachScreening") /\ screen' = "succeeded"
      BY <1>2 DEF Screen, EndScreening
    <3>2. QED
      BY <1>0, <3>1, ControlGoes
  <2>3. RowsGrow(o) /\ ResultHasEvidence'
    BY <1>0, <2>1 DEF RowsGrow, ResultHasEvidence, Backed
  <2>4. Backed(l)'
    BY <1>0, <2>1, <2>2 DEF Backed
  <2>5. QED
    BY <2>1, <2>2, <2>3, <2>4, StillNoFutures, CallerMoves
<1>3. CASE AttachScreening(o)
  <2>1. /\ pc[o] = "attachScreening" /\ wf.snapshot /\ screen = "succeeded"
        /\ UNCHANGED <<slot, artifact, screen>>
    BY <1>0, <1>3 DEF AttachScreening, Backed
  <2>2. CASE /\ wf' = [wf EXCEPT !.screening = TRUE, !.asOf = Instant(o)]
             /\ tech' = [c \in Candidates |-> IF tech[c] = "absent" THEN "pending" ELSE tech[c]]
             /\ Commit(o, "openAnalysis")
    <3>1. wf'.lifecycle = wf.lifecycle /\ wf'.snapshot = wf.snapshot /\ wf'.screening
      BY <1>0, <2>2 DEF TypeOK
    <3>2. PICK l \in {"openAnalysis", "idle"} : Goes(o, l)
      BY <1>0, <2>2, ControlGoes
    <3>3. RowsGrow(o) /\ Backed(l)'
      BY <2>1, <3>1, <3>2 DEF RowsGrow, Backed
    <3>4. \A c \in Candidates : tech'[c] # "absent"
      BY <2>2
    <3>5. ResultHasEvidence'
      BY <1>0, <2>1, <3>1, <3>4 DEF ResultHasEvidence
    <3>6. QED
      BY <2>1, <3>2, <3>3, <3>5, StillNoFutures, CallerMoves
  <2>3. CASE GoOn(o, "fail") /\ UNCHANGED <<wf, tech>>
    <3>1. Goes(o, "fail") /\ Backed("fail")
      BY <1>0, <2>3, ControlGoes DEF Backed
    <3>2. QED
      BY <2>1, <2>3, <3>1, StillNoFutures, CallerMovesOnly
  <2>4. QED
    BY <1>3, <2>2, <2>3 DEF AttachScreening
<1>4. QED
  BY <1>1, <1>2, <1>3

\* Steps that end the workflow.
LEMMA OverlapEnd ==
    ASSUME OverlapInv, TypeOK', NEW o \in Callers, Complete(o) \/ FailWorkflow(o)
    PROVE  OverlapInv'
<1> USE DEF snapshotRun
<1>0. TypeOK /\ Backed(pc[o]) /\ ResultHasEvidence
  BY DEF OverlapInv
<1>1. Goes(o, "idle") /\ pc[o] \in {"complete", "fail"} /\ UNCHANGED <<slot, artifact, screen, tech>>
  BY <1>0, ControlGoes DEF Complete, FailWorkflow
<1>2. /\ wf'.snapshot = wf.snapshot /\ wf'.screening = wf.screening
      /\ wf'.lifecycle \in Completed => wf.lifecycle \in Completed \/ pc[o] = "complete"
  BY <1>0 DEF Complete, FailWorkflow, TypeOK, Completed
<1>3. RowsGrow(o) /\ Backed("idle")'
  BY <1>1, <1>2 DEF RowsGrow, Backed
<1>4. ResultHasEvidence'
  BY <1>0, <1>1, <1>2 DEF ResultHasEvidence, Backed
<1>5. QED
  BY <1>1, <1>3, <1>4, StillNoFutures, CallerMoves

\* The main thread's steps on a batch.
LEMMA OverlapBatch ==
    ASSUME OverlapInv, TypeOK', NEW o \in Callers, Submit(o) \/ Await(o)
    PROVE  OverlapInv'
<1> USE DEF rows, snapshotRun
<1>0. TypeOK /\ Backed(pc[o]) /\ wf.screening /\ UNCHANGED <<wf, slot, artifact, screen, tech>>
  BY DEF OverlapInv, Submit, Await, Backed
<1>1. RowsGrow(o) /\ ResultHasEvidence'
  BY <1>0 DEF OverlapInv, RowsGrow, ResultHasEvidence
<1>2. OthersRest(o)
  BY <1>0 DEF Submit, Await, Goto, OthersRest, TypeOK
<1>3. pc'[o] \in {"batch", "join", "complete"}
  BY <1>0 DEF Submit, Await, Goto, TypeOK
<1>4. Backed(pc[o])'
  BY <1>0, <1>3 DEF Backed
<1>5. Pooled(o)'
  <2>1. CASE Submit(o)
    <3>1. pc'[o] = "batch"
      BY <1>0, <2>1 DEF Submit, Goto, TypeOK
    <3>2. QED
      BY <3>1 DEF Pooled
  <2>2. CASE (\A c \in Candidates : task[o][c] \in {"none", "done"}) /\ Goto(o, "complete")
             /\ UNCHANGED task
    <3>1. pc'[o] = "complete" /\ NoFutures(o)'
      BY <1>0, <2>2 DEF Goto, TypeOK, NoFutures, AtWork, ThreadSteps
    <3>2. QED
      BY <3>1 DEF Pooled
  <2>3. CASE \E c \in Candidates :
             /\ Raised(o, c)
             /\ task' = [task EXCEPT ![o] =
                           [d \in Candidates |-> IF task[o][d] = "queued" THEN "none"
                                                 ELSE task[o][d]]]
             /\ raising' = [raising EXCEPT ![o] = task[o][c]]
             /\ Goto(o, "join")
    <3>1. pc'[o] = "join" /\ \A d \in Candidates : task'[o][d] # "queued"
      BY <1>0, <2>3 DEF Goto, TypeOK
    <3>2. raising'[o] # "none"
      BY <1>0, <2>3 DEF Raised, TypeOK
    <3>3. QED
      BY <3>1, <3>2 DEF Pooled
  <2>4. QED
    BY <2>1, <2>2, <2>3 DEF Await
<1>6. QED
  BY <1>1, <1>2, <1>3, <1>4, <1>5, OthersStay

\* A thread works for a caller that waits for it.
LEMMA OverlapThread ==
    ASSUME OverlapInv, TypeOK', NEW o \in Callers, NEW c \in Candidates,
           BeginTask(o, c) \/ RunTask(o, c) \/ TaskFails(o, c)
    PROVE  OverlapInv'
<1> USE DEF rows, snapshotRun
<1>0. TypeOK /\ Backed(pc[o]) /\ Pooled(o)
  BY DEF OverlapInv
<1>1. /\ task[o][c] \in AtWork
      /\ UNCHANGED <<wf, slot, artifact, screen, pc, raising>>
  BY DEF BeginTask, RunTask, Analyse, SetStage, TaskFails, AtWork, ThreadSteps
<1>2. PICK t : SetTask(o, c, t) /\ t # "queued"
  BY DEF BeginTask, RunTask, Analyse, SetStage, TaskFails
<1>3. /\ \A p \in Callers : p # o => task'[p] = task[p]
      /\ task'[o][c] = t
      /\ \A d \in Candidates : d # c => task'[o][d] = task[o][d]
  BY <1>0, <1>2 DEF SetTask, TypeOK
<1>4. OthersRest(o) /\ RowsGrow(o)
  BY <1>1, <1>3 DEF OthersRest, RowsGrow
<1>5. \/ UNCHANGED tech
      \/ tech'[c] # "absent" /\ \A d \in Candidates : d # c => tech'[d] = tech[d]
  BY <1>0 DEF BeginTask, RunTask, Analyse, SetStage, TaskFails, TypeOK
<1>6. ResultHasEvidence'
  BY <1>1, <1>5 DEF OverlapInv, ResultHasEvidence
<1>7. pc[o] \in {"batch", "join"}
  BY <1>0, <1>1 DEF Pooled, NoFutures
<1>8. Pooled(o)'
  <2>1. CASE pc[o] = "join"
    BY <1>0, <1>1, <1>2, <1>3, <2>1 DEF Pooled
  <2>2. CASE pc[o] = "batch"
    BY <1>1, <2>2 DEF Pooled
  <2>3. QED
    BY <1>7, <2>1, <2>2
<1>9. Backed(pc[o])'
  BY <1>0, <1>1, <1>7 DEF Backed
<1>10. QED
  BY <1>1, <1>4, <1>6, <1>7, <1>8, <1>9, OthersStay

\* No caller has done anything in the initial state.
LEMMA OverlapInit == Init => OverlapInv
<1> SUFFICES ASSUME Init PROVE OverlapInv
  OBVIOUS
<1>1. TypeOK
  BY InitHolds
<1>2. ResultHasEvidence
  BY DEF Init, ResultHasEvidence, Completed
<1>3. slot = "succeeded" => artifact
  BY DEF Init, Engine!Init
<1>4. Alone /\ \A o \in Callers : Backed(pc[o]) /\ Pooled(o)
  BY DEF Init, Alone, Backed, Pooled, NoFutures, NoTasks, AtWork, ThreadSteps
<1>5. QED
  BY <1>1, <1>2, <1>3, <1>4 DEF OverlapInv

\* Every step of every caller keeps what the callers share.
LEMMA OverlapStep == ASSUME OverlapInv, [Next]_vars PROVE OverlapInv'
<1>1. TypeOK'
  BY StepKeeps DEF OverlapInv
<1>2. CASE UNCHANGED vars
  BY <1>1, <1>2 DEF vars, rows, snapshotRun, OverlapInv, ResultHasEvidence, Alone, Backed, Pooled, NoFutures
<1>3. CASE Next
  <2>1. ASSUME NEW o \in Callers, Start(o) \/ Step(o) \/ CallFails(o) \/ Crash(o) PROVE OverlapInv'
    BY <1>1, <2>1, OverlapControl, OverlapOpen, OverlapSnapshot, OverlapScreening, OverlapEnd,
       OverlapBatch, OverlapThread DEF Step
  <2>2. ASSUME NEW o \in Callers, NEW c \in Candidates, TaskFails(o, c) PROVE OverlapInv'
    BY <1>1, <2>2, OverlapThread
  <2>3. QED
    BY <1>3, <2>1, <2>2 DEF Next
<1>4. QED
  BY <1>2, <1>3

\* The invariant of overlapping callers holds in every behaviour.
LEMMA OverlapInvariant == Spec => []OverlapInv
<1>1. Init => OverlapInv
  BY OverlapInit
<1>2. OverlapInv /\ [Next]_vars => OverlapInv'
  BY OverlapStep
<1>3. QED
  BY <1>1, <1>2, PTL DEF Spec

\* However many callers execute and resume the workflow at once, a result rests on a
\* screening that succeeded, and that on a captured snapshot.
THEOREM WorkflowResultHasEvidence == Spec => []ResultHasEvidence
<1>1. OverlapInv => ResultHasEvidence
  BY DEF OverlapInv
<1>2. QED
  BY <1>1, OverlapInvariant, PTL

\* No thread of a pool outlives the call that began it.
THEOREM WorkflowThreadsEndWithCall == Spec => []ThreadsEndWithCall
<1>1. OverlapInv => ThreadsEndWithCall
  BY DEF OverlapInv, Pooled, NoFutures, AtWork, ThreadsEndWithCall
<1>2. QED
  BY <1>1, OverlapInvariant, PTL

\* An outcome that a caller writes is that of the candidates' rows at that moment,
\* also while the threads of other callers change them.
THEOREM WorkflowOutcomeIsTrueWhenWritten == Spec => OutcomeIsTrueWhenWritten
<1>1. ASSUME OverlapInv, [Next]_vars
      PROVE  [wf'.lifecycle \in Completed /\ wf'.lifecycle # wf.lifecycle
                => (wf'.lifecycle = "succeeded" <=> \A c \in Candidates : tech'[c] = "succeeded")]_vars
  <2>1. SUFFICES ASSUME Next, wf'.lifecycle \in Completed, wf'.lifecycle # wf.lifecycle
                 PROVE  wf'.lifecycle = "succeeded" <=> \A c \in Candidates : tech'[c] = "succeeded"
    BY <1>1 DEF vars, rows
  <2>2. PICK o \in Callers : Complete(o)
    <3>1. ASSUME NEW o \in Callers, Start(o) \/ Step(o) \/ CallFails(o) \/ Crash(o) PROVE Complete(o)
      BY <1>1, <2>1, <3>1
      DEF OverlapInv, TypeOK, Completed, Active, rows, Step, Start, Execute, Resume, OpenStage, SetLifecycle,
          CaptureSnapshot, FetchSnapshot, AttachSnapshot, ClaimScreening, Screen, AttachScreening,
          Submit, Await, Join, FailWorkflow, BeginTask, RunTask, Analyse, SetStage, CallFails, Crash
    <3>2. ASSUME NEW o \in Callers, NEW c \in Candidates PROVE ~ TaskFails(o, c)
      BY <2>1 DEF TaskFails, rows
    <3>3. QED
      BY <2>1, <3>1, <3>2 DEF Next
  <2>3. /\ tech \in [Candidates -> StageStates] /\ UNCHANGED tech
        /\ \A c \in Candidates : tech[c] # "absent"
    BY <1>1, <2>2 DEF OverlapInv, Backed, ResultHasEvidence, TypeOK, Complete
  <2>4. wf'.lifecycle = IF CountsOf(tech).failed > 0 \/ CountsOf(tech).pending > 0
                        THEN "partial_success" ELSE "succeeded"
    BY <1>1, <2>2 DEF Complete, OverlapInv, TypeOK
  <2>5. wf'.lifecycle = "succeeded"
           <=> \A c \in Candidates : tech[c] \notin {"failed", "pending", "running"}
    BY <2>3, <2>4, CountsTell
  <2>6. QED
    BY <2>3, <2>5 DEF StageStates
<1>2. QED
  BY <1>1, OverlapInvariant, PTL DEF Spec, OutcomeIsTrueWhenWritten

\* Of some candidates one comes first.
LEMMA FirstCandidate ==
    ASSUME NEW S \in SUBSET Candidates, S # {}
    PROVE  \E m \in S : \A d \in Candidates : d < m => d \notin S
<1> DEFINE Less == {p \in Nat \X Nat : p[1] < p[2]}
<1>1. IsWellFoundedOn(Less, Nat) /\ S \subseteq Nat
  BY NatLessThanWellFounded, WorkflowAssumption DEF OpToRel, Candidates
<1> HIDE DEF Less
<1>2. PICK m \in S : \A d \in S : ~ (<<d, m>> \in Less)
  BY <1>1, WFMin
<1>3. ASSUME NEW d \in S, d < m PROVE FALSE
  <2>1. <<d, m>>[1] < <<d, m>>[2] /\ <<d, m>> \in Nat \X Nat
    BY <1>1, <1>3
  <2>2. QED
    BY <1>2, <1>3, <2>1 DEF Less
<1>4. QED
  BY <1>3

\* What a call waits for is there: a run that it claimed is still its own to end, and a
\* batch has a thread at work, a free thread for the next candidate, or its result.
THEOREM WorkflowCallsCanGoOn == Spec => []CallsCanGoOn
<1>1. ASSUME OverlapInv, NEW o \in Callers, pc[o] = "batch"
      PROVE  \/ \A c \in Candidates : task[o][c] \in {"none", "done"}
             \/ \E c \in Candidates :
                   /\ Raised(o, c)
                   /\ \A d \in Candidates : d < c => task[o][d] \in {"none", "done"}
             \/ ThreadCanGoOn(o)
  <2> DEFINE Open == {c \in Candidates : task[o][c] \notin {"none", "done"}}
  <2>1. SUFFICES ASSUME Open # {}, ~ ThreadCanGoOn(o)
                 PROVE  \E c \in Candidates :
                           /\ Raised(o, c)
                           /\ \A d \in Candidates : d < c => task[o][d] \in {"none", "done"}
    OBVIOUS
  <2>2. PICK m \in Open : \A d \in Candidates : d < m => d \notin Open
    BY <2>1, FirstCandidate
  <2>3. \A d \in Candidates : task[o][d] \notin ThreadSteps
    BY <2>1 DEF ThreadCanGoOn
  <2>4. Busy(o) = 0
    <3>1. {c \in Candidates : task[o][c] \in ThreadSteps} = {}
      BY <2>3
    <3>2. QED
      BY <3>1, FS_EmptySet DEF Busy
  <2>5. task[o][m] # "queued"
    BY <2>1, <2>2, <2>4, WorkflowAssumption DEF ThreadCanGoOn
  <2>6. Raised(o, m)
    BY <1>1, <2>2, <2>3, <2>5 DEF Raised, OverlapInv, TypeOK, TaskStates
  <2>7. QED
    BY <2>2, <2>6
<1>2. OverlapInv => CallsCanGoOn
  <2> SUFFICES ASSUME OverlapInv, NEW o \in Callers
               PROVE  /\ pc[o] = "fetch" => slot = "running"
                      /\ pc[o] = "screen" => screen = "running"
                      /\ pc[o] = "join" =>
                            \/ raising[o] # "none" /\ \A c \in Candidates : task[o][c] \notin ThreadSteps
                            \/ ThreadCanGoOn(o)
    BY <1>1 DEF CallsCanGoOn
  <2>1. Backed(pc[o]) /\ Pooled(o)
    BY DEF OverlapInv
  <2>2. QED
    BY <2>1 DEF Backed, Pooled, ThreadCanGoOn
<1>3. QED
  BY <1>2, OverlapInvariant, PTL

\* A call never waits in vain, and no thread is at work for one that has ended, however
\* many callers overlap.
THEOREM WorkflowCallsAreServed == Spec => []CallsAreServed
<1>1. ThreadsEndWithCall /\ CallsCanGoOn => CallsAreServed
  BY DEF CallsAreServed
<1>2. QED
  BY <1>1, WorkflowThreadsEndWithCall, WorkflowCallsCanGoOn, PTL

-----------------------------------------------------------------------------
(* One instant.  Once it is fixed it stays, and a caller that analyses holds it   *)
(* (Instanced), so every analysis that is linked is of that instant.              *)

Analysing == {"submit", "batch", "join"}

Instanced ==
    /\ wf.screening => wf.asOf # "none"
    /\ \A o \in Callers : pc[o] \in Analysing => wf.asOf # "none" /\ held[o] = wf.asOf

\* What every step does to the row's instant and to those that hold it.
InstantStep ==
    /\ wf.asOf # "none" => wf'.asOf = wf.asOf
    /\ wf'.screening => wf.screening \/ wf'.asOf # "none"
    /\ wf.screening => wf'.screening
    /\ \A o \in Callers : pc'[o] \in Analysing =>
           \/ pc[o] \in Analysing /\ held'[o] = held[o]
           \/ wf.screening /\ held'[o] = wf.asOf

\* A step that leaves the row's instant alone and brings nobody to an analysis.
LEMMA InstantRests ==
    ASSUME TypeOK, NEW o \in Callers, NEW l, pc' = [pc EXCEPT ![o] = l], l \notin Analysing,
           \A p \in Callers : p # o => held'[p] = held[p],
           wf'.asOf = wf.asOf, wf'.screening = wf.screening
    PROVE  InstantStep
BY DEF InstantStep, TypeOK

\* Every step keeps the instant.
LEMMA InstantIsKept ==
    ASSUME OverlapInv, [Next]_vars PROVE InstantStep
<1> USE DEF rows, snapshotRun
<1>0. TypeOK /\ "none" \notin Callers
  BY WorkflowAssumption DEF OverlapInv
<1>1. CASE UNCHANGED vars
  BY <1>1 DEF vars, InstantStep
<1>2. ASSUME NEW o \in Callers, NEW l, l \notin Analysing, wf'.asOf = wf.asOf,
             wf'.screening = wf.screening,
             \/ GoOn(o, l) \/ Commit(o, l) \/ Leave(o)
      PROVE  InstantStep
  <2>1. CASE GoOn(o, l)
    BY <1>0, <1>2, <2>1, InstantRests DEF GoOn, Goto
  <2>2. CASE Leave(o)
    <3>1. pc' = [pc EXCEPT ![o] = "idle"] /\ \A p \in Callers : p # o => held'[p] = held[p]
      BY <1>0, <2>2 DEF Leave, Goto, TypeOK
    <3>2. QED
      BY <1>0, <1>2, <3>1, InstantRests DEF Analysing
  <2>3. QED
    BY <1>2, <2>1, <2>2 DEF Commit
<1>3. ASSUME NEW o \in Callers,
             \/ Start(o) \/ Execute(o) \/ Resume(o) \/ CaptureSnapshot(o) \/ FetchSnapshot(o)
             \/ AttachSnapshot(o) \/ ClaimScreening(o) \/ Screen(o) \/ Join(o) \/ Complete(o)
             \/ FailWorkflow(o) \/ CallFails(o)
      PROVE  InstantStep
  <2>1. wf'.asOf = wf.asOf /\ wf'.screening = wf.screening
    BY <1>0, <1>3 DEF TypeOK, Start, Execute, Resume, CaptureSnapshot, FetchSnapshot,
       AttachSnapshot, ClaimScreening, Screen, Join, Complete, FailWorkflow, CallFails
  <2>2. \E l : l \notin Analysing /\ (GoOn(o, l) \/ Commit(o, l) \/ Leave(o))
    <3>1. CASE Start(o) \/ Execute(o) \/ Join(o) \/ Complete(o) \/ FailWorkflow(o) \/ CallFails(o)
      BY <3>1 DEF Start, Execute, Join, Reraise, Complete, FailWorkflow, CallFails, Analysing
    <3>2. CASE Resume(o) \/ AttachSnapshot(o)
      BY <3>2, NextStageIsStep DEF Resume, AttachSnapshot, Analysing
    <3>3. CASE CaptureSnapshot(o) \/ FetchSnapshot(o) \/ ClaimScreening(o) \/ Screen(o)
      BY <3>3 DEF CaptureSnapshot, FetchSnapshot, ClaimScreening, Screen, Analysing
    <3>4. QED
      BY <1>3, <3>1, <3>2, <3>3
  <2>3. QED
    BY <1>2, <2>1, <2>2
<1>4. ASSUME NEW o \in Callers, OpenStage(o) PROVE InstantStep
  <2>1. PICK k \in Active, next \in {"capture", "claimScreening", "submit"} :
            /\ SetLifecycle(o, k, next)
            /\ next = "submit" => pc[o] = "openAnalysis"
    BY <1>4 DEF OpenStage, Active
  <2>2. wf'.asOf = wf.asOf /\ wf'.screening = wf.screening
    BY <1>0, <2>1 DEF SetLifecycle, TypeOK
  <2>3. CASE Leave(o)
    BY <1>2, <2>2, <2>3 DEF Analysing
  <2>4. CASE Goto(o, next) /\ held' = [held EXCEPT ![o] = wf.asOf]
    <3>1. next = "submit" => wf.screening
      BY <2>1 DEF OverlapInv, Backed
    <3>2. \A p \in Callers : p # o => held'[p] = held[p] /\ pc'[p] = pc[p]
      BY <1>0, <2>4 DEF Goto, TypeOK
    <3>3. held'[o] = wf.asOf /\ pc'[o] = next
      BY <1>0, <2>4 DEF Goto, TypeOK
    <3>4. QED
      BY <2>2, <3>1, <3>2, <3>3 DEF InstantStep, Analysing
  <2>5. QED
    BY <2>1, <2>3, <2>4 DEF SetLifecycle
<1>5. ASSUME NEW o \in Callers, AttachScreening(o) PROVE InstantStep
  <2>1. Instant(o) # "none"
    BY <1>0 DEF Instant
  <2>2. CASE /\ wf.asOf \in {"none", Instant(o)}
             /\ wf' = [wf EXCEPT !.screening = TRUE, !.asOf = Instant(o)]
             /\ Commit(o, "openAnalysis")
    <3>1. wf'.asOf = Instant(o) /\ wf'.screening
      BY <1>0, <2>2 DEF TypeOK
    <3>2. PICK l \in {"openAnalysis", "idle"} : pc' = [pc EXCEPT ![o] = l]
      BY <2>2 DEF Commit, GoOn, Leave, Goto
    <3>3. \A p \in Callers : p # o => held'[p] = held[p] /\ pc'[p] = pc[p]
      BY <1>0, <2>2 DEF Commit, GoOn, Leave, Goto, TypeOK
    <3>4. pc'[o] \notin Analysing
      BY <1>0, <3>2 DEF TypeOK, Analysing
    <3>5. QED
      BY <2>1, <2>2, <3>1, <3>3, <3>4 DEF InstantStep
  <2>3. CASE GoOn(o, "fail") /\ UNCHANGED wf
    BY <1>2, <2>3 DEF Analysing
  <2>4. QED
    BY <1>5, <2>2, <2>3 DEF AttachScreening
<1>6. ASSUME NEW o \in Callers, Submit(o) \/ Await(o) PROVE InstantStep
  <2>1. pc[o] \in Analysing /\ UNCHANGED <<wf, held>>
    BY <1>6 DEF Submit, Await, Analysing
  <2>2. \A p \in Callers : p # o => pc'[p] = pc[p]
    BY <1>0, <1>6 DEF Submit, Await, Goto, TypeOK
  <2>3. QED
    BY <2>1, <2>2 DEF InstantStep
<1>7. ASSUME NEW o \in Callers, NEW c \in Candidates,
             BeginTask(o, c) \/ RunTask(o, c) \/ TaskFails(o, c)
      PROVE  InstantStep
  <2>1. UNCHANGED <<wf, pc, held>>
    BY <1>7 DEF BeginTask, RunTask, Analyse, SetStage, TaskFails
  <2>2. QED
    BY <2>1 DEF InstantStep
<1>8. ASSUME NEW o \in Callers, Crash(o) PROVE InstantStep
  <2>1. /\ pc' = [pc EXCEPT ![o] = "idle"] /\ UNCHANGED wf
        /\ \A p \in Callers : p # o => held'[p] = held[p]
    BY <1>0, <1>8 DEF Crash, Goto, TypeOK
  <2>2. QED
    BY <1>0, <2>1, InstantRests DEF Analysing
<1>9. CASE Next
  BY <1>9, <1>3, <1>4, <1>5, <1>6, <1>7, <1>8 DEF Next, Step
<1>10. QED
  BY <1>1, <1>9

\* What is saved stays, and a success is stored, or is about to be, only for an analysis
\* that is.
LinkStep ==
    /\ saved \subseteq saved'
    /\ \A o \in Callers, c \in Candidates : task'[o][c] = "storeSuccess" =>
           task[o][c] = "storeSuccess" \/ (task[o][c] = "analyse" /\ <<c, held[o]>> \in saved')
    /\ \A c \in Candidates : tech'[c] = "succeeded" =>
           tech[c] = "succeeded" \/ \E o \in Callers : task[o][c] = "storeSuccess"

\* Every step does.
LEMMA LinksGrow ==
    ASSUME OverlapInv, [Next]_vars PROVE LinkStep
<1> USE DEF rows, snapshotRun
<1>0. TypeOK
  BY DEF OverlapInv
<1>2. CASE UNCHANGED vars
  BY <1>2 DEF vars, LinkStep
<1>3. ASSUME NEW o \in Callers, Quiet(o) PROVE LinkStep
  BY <1>3 DEF Quiet, Moved, LinkStep
<1>4. ASSUME NEW o \in Callers, Submit(o) \/ Await(o) \/ Complete(o) \/ FailWorkflow(o) \/ Crash(o)
      PROVE  LinkStep
  <2>1. UNCHANGED <<tech, saved>>
    BY <1>4 DEF Submit, Await, Complete, FailWorkflow, Crash
  <2>2. \A p \in Callers, c \in Candidates :
            task'[p][c] = "storeSuccess" => task[p][c] = "storeSuccess"
    BY <1>0, <1>4 DEF Submit, Await, Complete, FailWorkflow, Leave, Crash, NoTasks, TypeOK
  <2>3. QED
    BY <2>1, <2>2 DEF LinkStep
<1>5. ASSUME NEW o \in Callers, AttachScreening(o) PROVE LinkStep
  <2>1. \A p \in Callers, c \in Candidates :
            task'[p][c] = "storeSuccess" => task[p][c] = "storeSuccess"
    BY <1>0, <1>5 DEF AttachScreening, Commit, GoOn, Leave, TypeOK
  <2>2. UNCHANGED saved /\ \A c \in Candidates : tech'[c] = "succeeded" => tech[c] = "succeeded"
    BY <1>5 DEF AttachScreening
  <2>3. QED
    BY <2>1, <2>2 DEF LinkStep
<1>6. ASSUME NEW o \in Callers, NEW c \in Candidates,
             BeginTask(o, c) \/ RunTask(o, c) \/ TaskFails(o, c)
      PROVE  LinkStep
  <2>1. CASE BeginTask(o, c) \/ TaskFails(o, c)
    <3>1. PICK t \in {"mark", "error", "uncertain"} : SetTask(o, c, t)
      BY <2>1 DEF BeginTask, TaskFails
    <3>2. UNCHANGED <<tech, saved>>
      BY <2>1 DEF BeginTask, TaskFails
    <3>3. QED
      BY <1>0, <3>1, <3>2 DEF SetTask, TypeOK, LinkStep
  <2>2. CASE Analyse(o, c)
    <3>1. PICK t \in {"storeSuccess", "storeFailure", "uncertain"} :
              SetTask(o, c, t) /\ (t = "storeSuccess" => <<c, held[o]>> \in saved')
      BY <2>2 DEF Analyse, Save
    <3>2. task[o][c] = "analyse" /\ UNCHANGED tech /\ saved \subseteq saved'
      BY <2>2 DEF Analyse, Save
    <3>3. \A p \in Callers, d \in Candidates : ~(p = o /\ d = c) => task'[p][d] = task[p][d]
      BY <1>0, <3>1 DEF SetTask, TypeOK
    <3>4. task'[o][c] = t
      BY <1>0, <3>1 DEF SetTask, TypeOK
    <3>5. QED
      BY <3>1, <3>2, <3>3, <3>4 DEF LinkStep
  <2>3. ASSUME NEW s \in {"running", "succeeded", "failed"}, NEW next \in {"analyse", "done"},
               SetStage(o, c, s, next), s = "succeeded" => task[o][c] = "storeSuccess"
        PROVE  LinkStep
    <3>1. PICK t \in {"analyse", "done", "uncertain"} : SetTask(o, c, t)
      BY <2>3 DEF SetStage
    <3>2. UNCHANGED saved /\ tech' = [tech EXCEPT ![c] = s]
      BY <2>3 DEF SetStage
    <3>3. \A p \in Callers, d \in Candidates :
              task'[p][d] = "storeSuccess" => task[p][d] = "storeSuccess"
      BY <1>0, <3>1 DEF SetTask, TypeOK
    <3>4. \A d \in Candidates : tech'[d] = "succeeded" =>
              tech[d] = "succeeded" \/ task[o][d] = "storeSuccess"
      BY <1>0, <2>3, <3>2 DEF TypeOK
    <3>5. QED
      BY <3>2, <3>3, <3>4 DEF LinkStep
  <2>4. QED
    BY <1>6, <2>1, <2>2, <2>3 DEF RunTask
<1>7. CASE Next
  <2>1. ASSUME NEW o \in Callers, Start(o) \/ Step(o) \/ CallFails(o) \/ Crash(o) PROVE LinkStep
    BY <1>0, <1>3, <1>4, <1>5, <1>6, <2>1, QuietSteps DEF Step
  <2>2. QED
    BY <1>6, <1>7, <2>1 DEF Next
<1>8. QED
  BY <1>2, <1>7

LinksInv == OverlapInv /\ Instanced /\ LinkedIsSaved /\ LinksAreAccepted

\* Nothing is linked in the initial state.
LEMMA LinksInit == Init => LinksInv
<1> SUFFICES ASSUME Init PROVE LinksInv
  OBVIOUS
<1>1. OverlapInv
  BY OverlapInit
<1>2. Instanced /\ LinkedIsSaved /\ LinksAreAccepted
  BY DEF Init, Instanced, Analysing, LinkedIsSaved, LinksAreAccepted, NoTasks
<1>3. QED
  BY <1>1, <1>2 DEF LinksInv

\* Every step keeps the instant with those that work at it, and the links with it.
LEMMA LinksStep == LinksInv /\ [Next]_vars => LinksInv'
<1> SUFFICES ASSUME LinksInv, [Next]_vars PROVE LinksInv'
  OBVIOUS
<1>1. OverlapInv /\ OverlapInv' /\ InstantStep /\ LinkStep
  BY OverlapStep, InstantIsKept, LinksGrow DEF LinksInv
<1>2. Instanced'
  <2>1. wf'.screening => wf'.asOf # "none"
    BY <1>1 DEF LinksInv, Instanced, InstantStep
  <2>2. ASSUME NEW o \in Callers, pc'[o] \in Analysing
        PROVE  wf'.asOf # "none" /\ held'[o] = wf'.asOf
    BY <1>1, <2>2 DEF LinksInv, Instanced, InstantStep
  <2>3. QED
    BY <2>1, <2>2 DEF Instanced
\* A thread at work has a caller that waits for it and holds the fixed instant.
<1>3. ASSUME NEW o \in Callers, NEW c \in Candidates, task[o][c] \in ThreadSteps
      PROVE  wf.screening /\ wf.asOf # "none" /\ held[o] = wf.asOf /\ wf'.asOf = wf.asOf
  <2>1. pc[o] \in {"batch", "join"}
    BY <1>1, <1>3 DEF OverlapInv, Pooled, NoFutures, AtWork
  <2>2. QED
    BY <1>1, <2>1 DEF LinksInv, OverlapInv, Backed, Instanced, Analysing, InstantStep
<1>4. LinkedIsSaved'
  <2>1. SUFFICES ASSUME NEW c \in Candidates, tech'[c] = "succeeded"
                 PROVE  wf'.asOf # "none" /\ <<c, wf'.asOf>> \in saved'
    BY DEF LinkedIsSaved
  <2>2. CASE tech[c] = "succeeded"
    BY <1>1, <2>2 DEF LinksInv, LinkedIsSaved, InstantStep, LinkStep
  <2>3. CASE \E o \in Callers : task[o][c] = "storeSuccess"
    <3>1. PICK o \in Callers : task[o][c] = "storeSuccess"
      BY <2>3
    <3>2. wf.asOf # "none" /\ wf'.asOf = wf.asOf
      BY <1>3, <3>1 DEF ThreadSteps
    <3>3. <<c, wf.asOf>> \in saved
      BY <3>1 DEF LinksInv, LinksAreAccepted
    <3>4. QED
      BY <1>1, <3>2, <3>3 DEF LinkStep
  <2>4. QED
    BY <1>1, <2>1, <2>2, <2>3 DEF LinkStep
<1>5. LinksAreAccepted'
  <2>1. SUFFICES ASSUME NEW o \in Callers, NEW c \in Candidates, task'[o][c] = "storeSuccess"
                 PROVE  /\ wf'.screening /\ wf'.asOf # "none" /\ held'[o] = wf'.asOf
                        /\ <<c, wf'.asOf>> \in saved'
    BY DEF LinksAreAccepted
  <2>2. task[o][c] \in {"analyse", "storeSuccess"} /\ task[o][c] \in ThreadSteps
    BY <1>1, <2>1 DEF LinkStep, ThreadSteps
  <2>3. wf.screening /\ wf.asOf # "none" /\ held[o] = wf.asOf /\ wf'.asOf = wf.asOf
    BY <1>3, <2>2
  <2>4. wf'.screening
    BY <1>1, <2>3 DEF InstantStep
  <2>5. held'[o] = wf'.asOf
    <3>1. pc'[o] \in Analysing
      BY <1>1, <2>1 DEF OverlapInv, Pooled, NoFutures, AtWork, ThreadSteps, Analysing
    <3>2. QED
      BY <1>2, <3>1 DEF Instanced
  <2>6. <<c, wf.asOf>> \in saved'
    BY <1>1, <2>1, <2>3 DEF LinksInv, LinksAreAccepted, LinkStep
  <2>7. QED
    BY <2>3, <2>4, <2>5, <2>6
<1>6. QED
  BY <1>1, <1>2, <1>4, <1>5 DEF LinksInv

\* However many callers resume the workflow at once and wherever they are interrupted,
\* a candidate is linked only to a persisted analysis of the workflow's one instant, the
\* store refuses no analysis that a thread links, and the stored counts are those of the
\* candidates' rows.
THEOREM WorkflowStoredAgrees == Spec => []StoredAgrees
<1>1. Init => LinksInv /\ CountsAgree
  BY LinksInit, InitHolds
<1>2. LinksInv /\ CountsAgree /\ [Next]_vars => (LinksInv /\ CountsAgree)'
  BY LinksStep, StepKeeps DEF LinksInv, OverlapInv
<1>3. LinksInv /\ CountsAgree => StoredAgrees
  BY DEF LinksInv, StoredAgrees
<1>4. QED
  BY <1>1, <1>2, <1>3, PTL DEF Spec

\* Links, counts, results and what they rest on tell the same, however many callers
\* overlap and wherever they are interrupted.
THEOREM WorkflowRowsAgree == Spec => []RowsAgree
<1>1. StoredAgrees /\ ResultHasEvidence => RowsAgree
  BY DEF RowsAgree
<1>2. QED
  BY <1>1, WorkflowStoredAgrees, WorkflowResultHasEvidence, PTL

-----------------------------------------------------------------------------
(* Every step brings its call nearer to the end.                             *)

\* The measure, place by place.
LEMMA LeftIs ==
    /\ Left["execute"] = 16 /\ Left["resume"] = 15 /\ Left["openSnapshot"] = 14
    /\ Left["capture"] = 13 /\ Left["fetch"] = 12 /\ Left["attachSnapshot"] = 11
    /\ Left["openScreening"] = 10 /\ Left["claimScreening"] = 9 /\ Left["screen"] = 8
    /\ Left["attachScreening"] = 7 /\ Left["openAnalysis"] = 6 /\ Left["submit"] = 5
    /\ Left["batch"] = 4 /\ Left["join"] = 3 /\ Left["complete"] = 2 /\ Left["fail"] = 1
    /\ Left["idle"] = 0
BY DEF Left

\* ... and a future's.
LEMMA TaskLeftIs ==
    /\ TaskLeft["queued"] = 4 /\ TaskLeft["mark"] = 3 /\ TaskLeft["analyse"] = 2
    /\ TaskLeft["storeSuccess"] = 1 /\ TaskLeft["storeFailure"] = 1 /\ TaskLeft["done"] = 0
    /\ TaskLeft["error"] = 0 /\ TaskLeft["uncertain"] = 0 /\ TaskLeft["none"] = 0
BY DEF TaskLeft

\* A caller that moves on, or out, is nearer.
LEMMA CallerNearer ==
    ASSUME TypeOK, NEW o \in Callers, pc[o] # "idle",
           \/ Execute(o) \/ Resume(o) \/ OpenStage(o) \/ CaptureSnapshot(o) \/ FetchSnapshot(o)
           \/ AttachSnapshot(o) \/ ClaimScreening(o) \/ Screen(o) \/ AttachScreening(o)
           \/ Submit(o) \/ Await(o) \/ Join(o) \/ Complete(o) \/ FailWorkflow(o)
           \/ CallFails(o) \/ Crash(o)
    PROVE  Nearer(o) /\ OthersRest(o)
<1>1. PICK l : pc'[o] = l /\ Left[l] < Left[pc[o]]
  <2>0. /\ Leave(o) => pc'[o] = "idle"
        /\ \A l : GoOn(o, l) \/ Goto(o, l) => pc'[o] = l
        /\ \A l : Commit(o, l) => pc'[o] = l \/ pc'[o] = "idle"
    BY DEF Leave, GoOn, Goto, Commit, TypeOK
  <2>1. CASE Execute(o)
    BY <2>0, <2>1, LeftIs DEF Execute
  <2>2. CASE Resume(o)
    BY <2>0, <2>2, LeftIs, NextStageIsStep DEF Resume
  <2>3. CASE OpenStage(o)
    BY <2>0, <2>3, LeftIs DEF OpenStage, SetLifecycle
  <2>4. CASE CaptureSnapshot(o)
    BY <2>0, <2>4, LeftIs DEF CaptureSnapshot
  <2>5. CASE FetchSnapshot(o)
    BY <2>0, <2>5, LeftIs DEF FetchSnapshot
  <2>6. CASE AttachSnapshot(o)
    <3>1. NextStage([wf EXCEPT !.snapshot = TRUE]) \in {"openScreening", "openAnalysis"}
      BY DEF NextStage, TypeOK
    <3>2. QED
      BY <2>0, <2>6, <3>1, LeftIs DEF AttachSnapshot
  <2>7. CASE ClaimScreening(o)
    BY <2>0, <2>7, LeftIs DEF ClaimScreening
  <2>8. CASE Screen(o)
    BY <2>0, <2>8, LeftIs DEF Screen
  <2>9. CASE AttachScreening(o)
    BY <2>0, <2>9, LeftIs DEF AttachScreening
  <2>10. CASE Submit(o) \/ Await(o)
    BY <2>0, <2>10, LeftIs DEF Submit, Await
  <2>11. CASE Join(o)
    BY <2>0, <2>11, LeftIs DEF Join, Reraise
  <2>12. CASE Complete(o) \/ FailWorkflow(o)
    BY <2>0, <2>12, LeftIs DEF Complete, FailWorkflow
  <2>13. CASE CallFails(o)
    BY <2>0, <2>13, LeftIs DEF CallFails, Locations, Steps
  <2>14. CASE Crash(o)
    BY <2>0, <2>14, LeftIs DEF Crash, TypeOK, Locations, Steps
  <2>15. QED
    BY <2>1, <2>2, <2>3, <2>4, <2>5, <2>6, <2>7, <2>8, <2>9, <2>10, <2>11, <2>12, <2>13, <2>14
<1>2. OthersRest(o)
  BY DEF OthersRest, TypeOK, Leave, GoOn, Goto, Commit, Execute, Resume, OpenStage, SetLifecycle,
         CaptureSnapshot, FetchSnapshot, AttachSnapshot, ClaimScreening, Screen, AttachScreening,
         Submit, Await, Join, Reraise, Complete, FailWorkflow, CallFails, Crash
<1>3. QED
  BY <1>1, <1>2 DEF Nearer

\* Every step of a thread brings its future nearer.
LEMMA ThreadNearer ==
    ASSUME TypeOK, NEW o \in Callers, NEW c \in Candidates,
           BeginTask(o, c) \/ RunTask(o, c) \/ TaskFails(o, c)
    PROVE  Nearer(o) /\ OthersRest(o)
<1>1. UNCHANGED <<pc, raising>>
  BY DEF BeginTask, RunTask, Analyse, SetStage, TaskFails
<1>2. PICK t \in TaskStates : SetTask(o, c, t) /\ TaskLeft[t] < TaskLeft[task[o][c]]
  <2>0. ThreadSteps \cup {"error", "uncertain", "done"} \subseteq TaskStates
    BY DEF TaskStates
  <2>1. CASE BeginTask(o, c) \/ TaskFails(o, c)
    BY <2>0, <2>1, TaskLeftIs DEF BeginTask, TaskFails, ThreadSteps
  <2>2. CASE Analyse(o, c)
    BY <2>0, <2>2, TaskLeftIs DEF Analyse, ThreadSteps
  <2>3. CASE RunTask(o, c) /\ ~ Analyse(o, c)
    BY <2>0, <2>3, TaskLeftIs DEF RunTask, SetStage, ThreadSteps
  <2>4. QED
    BY <2>1, <2>2, <2>3 DEF RunTask
<1>3. /\ task'[o][c] = t
      /\ \A p \in Callers : p # o => task'[p] = task[p]
      /\ \A d \in Candidates : d # c => task'[o][d] = task[o][d]
  BY <1>2 DEF SetTask, TypeOK
<1>4. \A d \in Candidates : TaskLeft[task[o][d]] \in Nat
  <2>1. \A d \in Candidates : task[o][d] \in TaskStates
    BY DEF TypeOK
  <2>2. QED
    BY <2>1, TaskLeftIs DEF TaskStates, ThreadSteps
<1>5. TaskLeft[t] \in Nat
  BY TaskLeftIs DEF TaskStates, ThreadSteps
<1>6. ASSUME NEW d \in Candidates PROVE TaskLeft[task'[o][d]] <= TaskLeft[task[o][d]]
  <2>1. CASE d = c
    BY <1>2, <1>3, <1>4, <1>5, <2>1
  <2>2. CASE d # c
    BY <1>3, <1>4, <2>2
  <2>3. QED
    BY <2>1, <2>2
<1>7. Nearer(o)
  BY <1>1, <1>2, <1>3, <1>6 DEF Nearer
<1>8. QED
  BY <1>1, <1>3, <1>7 DEF OthersRest

\* Every step of a call, also its interruption, brings it nearer to its end, and no step
\* of another caller takes it further away.  With WorkflowCallsCanGoOn: a call that is
\* scheduled returns, however many callers overlap.
THEOREM WorkflowStepsRunOut == Spec => StepsRunOut
<1> DEFINE Runs == \A o \in Callers : pc[o] # "idle" =>
                      /\ Step(o) => Nearer(o)
                      /\ Nearer(o) \/ (pc'[o] = pc[o] /\ task'[o] = task[o])
<1>1. ASSUME TypeOK, Next PROVE Runs
  <2>1. ASSUME NEW o \in Callers, pc[o] # "idle", Step(o) \/ CallFails(o) \/ Crash(o)
        PROVE  Nearer(o) /\ OthersRest(o)
    BY <1>1, <2>1, CallerNearer, ThreadNearer DEF Step
  <2>2. ASSUME NEW o \in Callers, NEW c \in Candidates, TaskFails(o, c)
        PROVE  Nearer(o) /\ OthersRest(o)
    BY <1>1, <2>2, ThreadNearer
  <2>3. ASSUME NEW o \in Callers, Start(o) PROVE pc[o] = "idle" /\ OthersRest(o)
    BY <1>1, <2>3 DEF Start, GoOn, Goto, OthersRest, TypeOK
  <2>4. ASSUME NEW o \in Callers, pc[o] = "idle", Step(o) \/ CallFails(o) \/ Crash(o)
        PROVE  OthersRest(o)
    <3>1. PICK c \in Candidates : BeginTask(o, c) \/ RunTask(o, c)
      BY <2>4 DEF Step, CallFails, Crash, Execute, Resume, OpenStage, CaptureSnapshot, FetchSnapshot,
                  AttachSnapshot, ClaimScreening, Screen, AttachScreening, Submit, Await, Join,
                  Complete, FailWorkflow
    <3>2. QED
      BY <1>1, <3>1, ThreadNearer
  <2>5. PICK o \in Callers : (pc[o] # "idle" => Nearer(o)) /\ OthersRest(o)
    BY <1>1, <2>1, <2>2, <2>3, <2>4 DEF Next
  <2>6. ASSUME NEW p \in Callers, pc[p] # "idle"
        PROVE  Nearer(p) \/ (pc'[p] = pc[p] /\ task'[p] = task[p])
    BY <2>5, <2>6 DEF OthersRest
  <2>7. QED
    BY <2>1, <2>6
<1>2. TypeOK /\ [Next]_vars => [Runs]_vars
  BY <1>1
<1>3. QED
  BY <1>2, WorkflowTypeCorrect, PTL DEF Spec, StepsRunOut

=============================================================================
