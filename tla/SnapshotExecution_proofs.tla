----------------------- MODULE SnapshotExecution_proofs -----------------------
(***************************************************************************)
(* Proofs for SnapshotExecution, for any number of callers, rows and        *)
(* environment events.                                                     *)
(*                                                                         *)
(* None of the properties is inductive alone: that the manifest, the        *)
(* success and the file agree rests on one caller at a time working on a    *)
(* row (Claims), on what that caller has done to the disk so far (Files),   *)
(* and on a success being final while a replay looks for its manifest       *)
(* (Replays).                                                              *)
(***************************************************************************)
EXTENDS SnapshotExecution, FiniteSetTheorems, TLAPS

\* A working caller has a row that nobody else works on, running until that
\* caller registers it.
Claims ==
    /\ \A c \in Callers : pc[c] \in Working => mine[c] \in RunIds /\ Exists(mine[c])
    /\ \A c \in Callers : pc[c] \in Working \ {"fail"} => runs[mine[c]].status = "running"
    /\ \A c, d \in Callers :
          pc[c] \in Working /\ pc[d] \in Working /\ mine[c] = mine[d] => c = d

\* At most one row is official.
OneOfficial == \A r, s \in Officials : r = s

\* Files belong to rows; a file is there when its run is registered, and not
\* there before it is written or after a definite failure removed it.
Files ==
    /\ \A r \in stored : Exists(r)
    /\ manifests \subseteq stored
    /\ \A c \in Callers :
          /\ pc[c] \in {"calendar", "write"} => mine[c] \notin stored
          /\ pc[c] = "complete" => mine[c] \in stored
          /\ pc[c] = "fail" /\ used["uncertain"] = 0 /\ used["cleanup"] = 0 =>
                mine[c] \notin stored
    /\ NoOrphanAfterFailure

\* A replay that read a success finds it unchanged.
Replays ==
    \A c \in Callers :
       /\ pc[c] = "replay" => mine[c] \in RunIds
       /\ pc[c] = "replay" /\ status[c] = "succeeded" => runs[mine[c]].status = "succeeded"
       /\ pc[c] # "inconsistent"

SnapshotInv ==
    /\ TypeOK /\ Claims /\ OneOfficial /\ SucceededIffManifest
    /\ Files /\ Replays

-----------------------------------------------------------------------------
\* The initial states satisfy every part of the invariant.
LEMMA SnapshotInvInit == Init => SnapshotInv
  BY SnapshotAssumption DEF Init, SnapshotInv, TypeOK, Claims, OneOfficial, Files, Replays,
     Working, Rows, RunStates,
     Ended, Locations, FaultKinds, Exists, Officials, SucceededIffManifest, NoOrphanAfterFailure

\* A caller that returns or goes on touches nobody else's place.
LEMMA CallerMoves ==
    ASSUME TypeOK, NEW c \in Callers, NEW l \in Locations, Return(c) \/ GoOn(c, l)
    PROVE  /\ pc' \in [Callers -> Locations]
           /\ mine' \in [Callers -> RunIds \cup {NoRun}]
           /\ force' \in [Callers -> BOOLEAN]
           /\ status' \in [Callers -> RunStates]
           /\ \A d \in Callers \ {c} :
                 pc'[d] = pc[d] /\ mine'[d] = mine[d] /\ status'[d] = status[d]
           /\ pc'[c] = "idle" \/ (GoOn(c, l) /\ pc'[c] = l /\ mine'[c] = mine[c])
<1> USE DEF TypeOK, Goto, RunStates, Locations
<1>1. CASE Return(c)
  BY <1>1 DEF Return
<1>2. CASE GoOn(c, l)
  BY <1>2 DEF GoOn, local
<1>3. QED
  BY <1>1, <1>2

\* Counting an event forgets no other.
LEMMA FaultCounted ==
    ASSUME TypeOK, NEW kind \in FaultKinds, UNCHANGED used \/ Spend(kind)
    PROVE  /\ used' \in [FaultKinds -> Nat]
           /\ \A k \in FaultKinds : used'[k] = 0 => used[k] = 0
           /\ Spend(kind) => used'[kind] # 0
BY DEF TypeOK, Spend

\* The ways a registration can end for a caller that owns its row.
LEMMA RegistrationEnds ==
    ASSUME TypeOK, Claims, NEW c \in Callers, CompleteRun(c)
    PROVE  /\ pc[c] = "complete" /\ mine[c] \in RunIds
           /\ runs[mine[c]].status = "running"
           /\ UNCHANGED <<trading, stored>>
           /\ \/ Registered(c) /\ Return(c) /\ UNCHANGED used
              \/ Registered(c) /\ GoOn(c, "fail") /\ Spend("uncertain")
              \/ UNCHANGED <<runs, manifests>> /\ GoOn(c, "cleanup") /\ Spend("database")
              \/ UNCHANGED <<runs, manifests>> /\ GoOn(c, "fail") /\ Spend("uncertain")
BY DEF CompleteRun, Claims, Working

\* The insert of a new row, as far as the tables and the caller's own row go.
Inserted(c, r) ==
    /\ ~Exists(r)
    /\ force[c] \/ Officials = {}
    /\ runs' = [runs EXCEPT ![r] = NewRun(c)]
    /\ \/ /\ Goto(c, "calendar")
          /\ mine' = [mine EXCEPT ![c] = r]
          /\ UNCHANGED <<force, status, used>>
       \/ Return(c) /\ Spend("uncertain")

Conflict(c, r) ==
    /\ mine' = [mine EXCEPT ![c] = r]
    /\ status' = [status EXCEPT ![c] = runs[r].status]
    /\ Goto(c, "replay")
    /\ UNCHANGED <<runs, force, used>>

\* The ways an insert can end.
LEMMA InsertEnds ==
    ASSUME NEW c \in Callers, InsertRun(c)
    PROVE  /\ UNCHANGED <<trading, manifests, stored>>
           /\ \/ \E r \in RunIds : Inserted(c, r)
              \/ \E r \in Officials : Conflict(c, r)
              \/ Return(c) /\ Spend("database") /\ UNCHANGED runs
BY DEF InsertRun, Inserted, Conflict

\* Every step keeps the types.
LEMMA TypeStep ==
    ASSUME TypeOK, Claims, Replays, [Next]_vars PROVE TypeOK'
<1> USE DEF TypeOK, Claims, Replays, Working, Rows, RunStates, Ended, Locations, FaultKinds,
     Exists, Officials
<1>1. ASSUME NEW c \in Callers, Call(c) PROVE TypeOK'
  BY <1>1 DEF Call, Goto, rows
<1>2. ASSUME NEW c \in Callers, FindOfficial(c) PROVE TypeOK'
  BY <1>2 DEF FindOfficial, Goto, rows, Officials
<1>3. ASSUME NEW c \in Callers, InsertRun(c) PROVE TypeOK'
  <2>1. UNCHANGED <<trading, manifests, stored>>
    BY <1>3, InsertEnds
  <2>2. ASSUME NEW r \in RunIds, Inserted(c, r) PROVE TypeOK'
    <3>1. CASE /\ Goto(c, "calendar")
               /\ mine' = [mine EXCEPT ![c] = r]
               /\ UNCHANGED <<force, status, used>>
      BY <2>1, <2>2, <3>1 DEF Inserted, NewRun, Goto
    <3>2. CASE Return(c) /\ Spend("uncertain")
      BY <2>1, <2>2, <3>2, FaultCounted DEF Inserted, NewRun, Return, Goto
    <3>3. QED
      BY <2>2, <3>1, <3>2 DEF Inserted
  <2>3. ASSUME NEW r \in Officials, Conflict(c, r) PROVE TypeOK'
    BY <2>1, <2>3 DEF Conflict, Goto, Officials
  <2>4. CASE Return(c) /\ Spend("database") /\ UNCHANGED runs
    BY <2>1, <2>4, FaultCounted DEF Return, Goto, Officials
  <2>5. QED
    BY <1>3, <2>2, <2>3, <2>4, InsertEnds
<1>4. ASSUME NEW c \in Callers, Replay(c) PROVE TypeOK'
  <2>1. CASE Return(c)
    BY <1>4, <2>1 DEF Replay, Goto, Return, rows
  <2>2. CASE GoOn(c, IF status[c] = "succeeded" THEN "inconsistent" ELSE "incoherent")
    BY <1>4, <2>2 DEF Replay, Goto, GoOn, local, rows
  <2>3. QED
    BY <1>4, <2>1, <2>2 DEF Replay
<1>5. ASSUME NEW c \in Callers, RaiseReplay(c) PROVE TypeOK'
  BY <1>5 DEF RaiseReplay, Return, Goto, rows
<1>6. ASSUME NEW c \in Callers, Fetch(c) PROVE TypeOK'
  BY <1>6 DEF Fetch, GoOn, Goto, local, rows, Spend
<1>7. ASSUME NEW c \in Callers, WriteArtifact(c) PROVE TypeOK'
  BY <1>7 DEF WriteArtifact, GoOn, Goto, local, Spend
<1>8. ASSUME NEW c \in Callers, CompleteRun(c) PROVE TypeOK'
  <2>1. /\ pc[c] = "complete" /\ mine[c] \in RunIds
        /\ runs[mine[c]].status = "running"
        /\ UNCHANGED <<trading, stored>>
    BY <1>8, RegistrationEnds
  <2>2. CASE Registered(c) /\ Return(c) /\ UNCHANGED used
    BY <2>1, <2>2, CallerMoves, FaultCounted DEF Registered, SetStatus
  <2>3. CASE Registered(c) /\ GoOn(c, "fail") /\ Spend("uncertain")
    <3>1. runs' \in [RunIds -> Rows] /\ manifests' \subseteq RunIds
      BY <2>1, <2>3 DEF Registered, SetStatus
    <3>2. QED
      BY <2>1, <2>3, <3>1, CallerMoves, FaultCounted
  <2>4. CASE UNCHANGED <<runs, manifests>> /\ GoOn(c, "cleanup") /\ Spend("database")
    BY <2>1, <2>4, CallerMoves, FaultCounted
  <2>5. CASE UNCHANGED <<runs, manifests>> /\ GoOn(c, "fail") /\ Spend("uncertain")
    BY <2>1, <2>5, CallerMoves, FaultCounted
  <2>6. QED
    BY <1>8, <2>2, <2>3, <2>4, <2>5, RegistrationEnds
<1>9. ASSUME NEW c \in Callers, Cleanup(c) PROVE TypeOK'
  BY <1>9 DEF Cleanup, GoOn, Goto, local, Spend
<1>10. ASSUME NEW c \in Callers, FailRun(c) PROVE TypeOK'
  BY SMTT(30), <1>10 DEF FailRun, Return, Goto, Spend, SetStatus
<1>11. ASSUME NEW c \in Callers, Crash(c) PROVE TypeOK'
  BY <1>11 DEF Crash, Return, Goto, rows, Spend
<1>12. ASSUME UNCHANGED vars PROVE TypeOK'
  BY <1>12 DEF vars, local, rows
<1>13. QED
  BY <1>1, <1>2, <1>3, <1>4, <1>5, <1>6, <1>7, <1>8, <1>9, <1>10, <1>11, <1>12 DEF Next, Step, Quiet

\* Every step keeps a row with one working caller.
LEMMA ClaimsStep ==
    ASSUME TypeOK, Claims, [Next]_vars PROVE Claims'
<1> USE DEF TypeOK, Claims, Working, Rows, RunStates, Ended, Locations, FaultKinds, Exists
<1>1. ASSUME NEW c \in Callers, Call(c) PROVE Claims'
  BY <1>1 DEF Call, Goto, rows
<1>2. ASSUME NEW c \in Callers, FindOfficial(c) PROVE Claims'
  BY <1>2 DEF FindOfficial, Goto, rows, Officials
<1>3. ASSUME NEW c \in Callers, InsertRun(c) PROVE Claims'
  <2>1. UNCHANGED <<trading, manifests, stored>>
    BY <1>3, InsertEnds
  <2>2. ASSUME NEW r \in RunIds, Inserted(c, r) PROVE Claims'
    <3>1. CASE /\ Goto(c, "calendar")
               /\ mine' = [mine EXCEPT ![c] = r]
               /\ UNCHANGED <<force, status, used>>
      BY <2>1, <2>2, <3>1 DEF Inserted, NewRun, Goto
    <3>2. CASE Return(c) /\ Spend("uncertain")
      BY <2>1, <2>2, <3>2, FaultCounted DEF Inserted, NewRun, Return, Goto
    <3>3. QED
      BY <2>2, <3>1, <3>2 DEF Inserted
  <2>3. ASSUME NEW r \in Officials, Conflict(c, r) PROVE Claims'
    BY <2>1, <2>3 DEF Conflict, Goto, Officials
  <2>4. CASE Return(c) /\ Spend("database") /\ UNCHANGED runs
    BY <2>1, <2>4, FaultCounted DEF Return, Goto, Officials
  <2>5. QED
    BY <1>3, <2>2, <2>3, <2>4, InsertEnds
<1>4. ASSUME NEW c \in Callers, Replay(c) PROVE Claims'
  BY <1>4 DEF Replay, Return, GoOn, Goto, local, rows
<1>5. ASSUME NEW c \in Callers, RaiseReplay(c) PROVE Claims'
  BY <1>5 DEF RaiseReplay, Return, Goto, rows
<1>6. ASSUME NEW c \in Callers, Fetch(c) PROVE Claims'
  BY <1>6 DEF Fetch, GoOn, Goto, local, rows, Spend
<1>7. ASSUME NEW c \in Callers, WriteArtifact(c) PROVE Claims'
  BY <1>7 DEF WriteArtifact, GoOn, Goto, local, Spend
<1>8. ASSUME NEW c \in Callers, CompleteRun(c) PROVE Claims'
  <2>1. /\ pc[c] = "complete" /\ mine[c] \in RunIds
        /\ runs[mine[c]].status = "running"
        /\ UNCHANGED <<trading, stored>>
    BY <1>8, RegistrationEnds
  <2>2. CASE Registered(c) /\ Return(c) /\ UNCHANGED used
    BY <2>1, <2>2, CallerMoves, FaultCounted DEF Registered, SetStatus
  <2>3. CASE Registered(c) /\ GoOn(c, "fail") /\ Spend("uncertain")
    BY SMTT(30), <2>1, <2>3, CallerMoves, FaultCounted DEF Registered, SetStatus
  <2>4. CASE UNCHANGED <<runs, manifests>> /\ GoOn(c, "cleanup") /\ Spend("database")
    BY <2>1, <2>4, CallerMoves, FaultCounted
  <2>5. CASE UNCHANGED <<runs, manifests>> /\ GoOn(c, "fail") /\ Spend("uncertain")
    BY SMTT(30), <2>1, <2>5, CallerMoves, FaultCounted
  <2>6. QED
    BY <1>8, <2>2, <2>3, <2>4, <2>5, RegistrationEnds
<1>9. ASSUME NEW c \in Callers, Cleanup(c) PROVE Claims'
  BY <1>9 DEF Cleanup, GoOn, Goto, local, Spend
<1>10. ASSUME NEW c \in Callers, FailRun(c) PROVE Claims'
  <2>1. Return(c) /\ UNCHANGED manifests /\ mine[c] \in RunIds
    BY <1>10 DEF FailRun
  <2>2. CASE runs[mine[c]].status = "running" /\ SetStatus(mine[c], "failed")
    <3>1. /\ \A r \in RunIds : Exists(r) => runs'[r].status # "absent"
          /\ \A r \in RunIds \ {mine[c]} : runs'[r] = runs[r]
      BY <2>1, <2>2 DEF SetStatus
    <3>2. /\ pc'[c] = "idle"
          /\ \A d \in Callers \ {c} : pc'[d] = pc[d] /\ mine'[d] = mine[d]
      BY <2>1 DEF Return, Goto
    <3>3. QED
      BY <1>10, <3>1, <3>2 DEF FailRun
  <2>3. CASE UNCHANGED runs
    BY <2>1, <2>3 DEF Return, Goto
  <2>4. QED
    BY <1>10, <2>2, <2>3 DEF FailRun
<1>11. ASSUME NEW c \in Callers, Crash(c) PROVE Claims'
  BY <1>11 DEF Crash, Return, Goto, rows, Spend
<1>12. ASSUME UNCHANGED vars PROVE Claims'
  BY <1>12 DEF vars, local, rows
<1>13. QED
  BY <1>1, <1>2, <1>3, <1>4, <1>5, <1>6, <1>7, <1>8, <1>9, <1>10, <1>11, <1>12 DEF Next, Step, Quiet

\* Only an insert that finds no official row makes one.
LEMMA OneOfficialStep ==
    ASSUME TypeOK, Claims, OneOfficial, [Next]_vars PROVE OneOfficial'
<1> USE DEF TypeOK, Claims, Working, OneOfficial, Rows, RunStates, Ended, Exists, Officials
<1>1. ASSUME NEW c \in Callers, Call(c) PROVE OneOfficial'
  BY <1>1 DEF Call, Goto, rows
<1>2. ASSUME NEW c \in Callers, FindOfficial(c) PROVE OneOfficial'
  BY <1>2 DEF FindOfficial, Goto, rows, Officials
<1>3. ASSUME NEW c \in Callers, InsertRun(c) PROVE OneOfficial'
  <2>1. UNCHANGED <<trading, manifests, stored>>
    BY <1>3, InsertEnds
  <2>2. ASSUME NEW r \in RunIds, Inserted(c, r) PROVE OneOfficial'
    <3>1. runs' = [runs EXCEPT ![r] = NewRun(c)]
      BY <2>2 DEF Inserted
    <3>2. CASE force[c]
      <4>1. runs'[r].official = FALSE
        BY <3>1, <3>2 DEF NewRun
      <4>2. \A q \in RunIds \ {r} : runs'[q] = runs[q]
        BY <3>1
      <4>3. \A q \in Officials' : q \in Officials
        BY <4>1, <4>2
      <4>4. QED
        BY <4>3
    <3>3. CASE ~force[c]
      <4>1. Officials = {}
        BY <2>2, <3>3 DEF Inserted
      <4>2. \A q \in Officials' : q = r
        BY <3>1, <4>1 DEF NewRun
      <4>3. QED
        BY <4>2
    <3>4. QED
      BY <3>2, <3>3
  <2>3. ASSUME NEW r \in Officials, Conflict(c, r) PROVE OneOfficial'
    BY <2>1, <2>3 DEF Conflict, Goto, Officials
  <2>4. CASE Return(c) /\ Spend("database") /\ UNCHANGED runs
    BY <2>1, <2>4, FaultCounted DEF Return, Goto, Officials
  <2>5. QED
    BY <1>3, <2>2, <2>3, <2>4, InsertEnds
<1>4. ASSUME NEW c \in Callers, Replay(c) PROVE OneOfficial'
  BY <1>4 DEF Replay, Return, GoOn, Goto, local, rows
<1>5. ASSUME NEW c \in Callers, RaiseReplay(c) PROVE OneOfficial'
  BY <1>5 DEF RaiseReplay, Return, Goto, rows
<1>6. ASSUME NEW c \in Callers, Fetch(c) PROVE OneOfficial'
  BY <1>6 DEF Fetch, GoOn, Goto, local, rows, Spend
<1>7. ASSUME NEW c \in Callers, WriteArtifact(c) PROVE OneOfficial'
  BY <1>7 DEF WriteArtifact, GoOn, Goto, local, Spend
<1>8. ASSUME NEW c \in Callers, CompleteRun(c) PROVE OneOfficial'
  BY <1>8 DEF CompleteRun, GoOn, Return, Goto, local, Spend, Registered, SetStatus
<1>9. ASSUME NEW c \in Callers, Cleanup(c) PROVE OneOfficial'
  BY <1>9 DEF Cleanup, GoOn, Goto, local, Spend
<1>10. ASSUME NEW c \in Callers, FailRun(c) PROVE OneOfficial'
  BY <1>10 DEF FailRun, Return, Goto, Spend, SetStatus
<1>11. ASSUME NEW c \in Callers, Crash(c) PROVE OneOfficial'
  BY <1>11 DEF Crash, Return, Goto, rows, Spend
<1>12. ASSUME UNCHANGED vars PROVE OneOfficial'
  BY <1>12 DEF vars, local, rows
<1>13. QED
  BY <1>1, <1>2, <1>3, <1>4, <1>5, <1>6, <1>7, <1>8, <1>9, <1>10, <1>11, <1>12 DEF Next, Step, Quiet

\* Success and manifest are written together and never taken back.
LEMMA ManifestStep ==
    ASSUME TypeOK, Claims, SucceededIffManifest, [Next]_vars PROVE SucceededIffManifest'
<1> USE DEF TypeOK, Claims, Working, SucceededIffManifest, Rows, RunStates, Ended, Exists
<1>1. ASSUME NEW c \in Callers, Call(c) PROVE SucceededIffManifest'
  BY <1>1 DEF Call, Goto, rows
<1>2. ASSUME NEW c \in Callers, FindOfficial(c) PROVE SucceededIffManifest'
  BY <1>2 DEF FindOfficial, Goto, rows, Officials
<1>3. ASSUME NEW c \in Callers, InsertRun(c) PROVE SucceededIffManifest'
  BY <1>3 DEF InsertRun, Return, Goto, NewRun, Spend, Officials
<1>4. ASSUME NEW c \in Callers, Replay(c) PROVE SucceededIffManifest'
  BY <1>4 DEF Replay, Return, GoOn, Goto, local, rows
<1>5. ASSUME NEW c \in Callers, RaiseReplay(c) PROVE SucceededIffManifest'
  BY <1>5 DEF RaiseReplay, Return, Goto, rows
<1>6. ASSUME NEW c \in Callers, Fetch(c) PROVE SucceededIffManifest'
  BY <1>6 DEF Fetch, GoOn, Goto, local, rows, Spend
<1>7. ASSUME NEW c \in Callers, WriteArtifact(c) PROVE SucceededIffManifest'
  BY <1>7 DEF WriteArtifact, GoOn, Goto, local, Spend
<1>8. ASSUME NEW c \in Callers, CompleteRun(c) PROVE SucceededIffManifest'
  BY <1>8 DEF CompleteRun, GoOn, Return, Goto, local, Spend, Registered, SetStatus
<1>9. ASSUME NEW c \in Callers, Cleanup(c) PROVE SucceededIffManifest'
  BY <1>9 DEF Cleanup, GoOn, Goto, local, Spend
<1>10. ASSUME NEW c \in Callers, FailRun(c) PROVE SucceededIffManifest'
  BY <1>10 DEF FailRun, Return, Goto, Spend, SetStatus
<1>11. ASSUME NEW c \in Callers, Crash(c) PROVE SucceededIffManifest'
  BY <1>11 DEF Crash, Return, Goto, rows, Spend
<1>12. ASSUME UNCHANGED vars PROVE SucceededIffManifest'
  BY <1>12 DEF vars, local, rows
<1>13. QED
  BY <1>1, <1>2, <1>3, <1>4, <1>5, <1>6, <1>7, <1>8, <1>9, <1>10, <1>11, <1>12 DEF Next, Step, Quiet

\* Every step keeps the files in step with the rows.
LEMMA FilesStep ==
    ASSUME TypeOK, Claims, SucceededIffManifest, Files, [Next]_vars PROVE Files'
<1> USE DEF TypeOK, Claims, Files, Working, Rows, RunStates, Ended, Locations, FaultKinds,
     Exists, SucceededIffManifest, NoOrphanAfterFailure
<1>1. ASSUME NEW c \in Callers, Call(c) PROVE Files'
  BY <1>1 DEF Call, Goto, rows
<1>2. ASSUME NEW c \in Callers, FindOfficial(c) PROVE Files'
  BY <1>2 DEF FindOfficial, Goto, rows, Officials
<1>3. ASSUME NEW c \in Callers, InsertRun(c) PROVE Files'
  <2>1. UNCHANGED <<trading, manifests, stored>>
    BY <1>3, InsertEnds
  <2>2. ASSUME NEW r \in RunIds, Inserted(c, r) PROVE Files'
    <3>1. CASE /\ Goto(c, "calendar")
               /\ mine' = [mine EXCEPT ![c] = r]
               /\ UNCHANGED <<force, status, used>>
      BY <2>1, <2>2, <3>1 DEF Inserted, NewRun, Goto
    <3>2. CASE Return(c) /\ Spend("uncertain")
      BY <2>1, <2>2, <3>2, FaultCounted DEF Inserted, NewRun, Return, Goto
    <3>3. QED
      BY <2>2, <3>1, <3>2 DEF Inserted
  <2>3. ASSUME NEW r \in Officials, Conflict(c, r) PROVE Files'
    BY <2>1, <2>3 DEF Conflict, Goto, Officials
  <2>4. CASE Return(c) /\ Spend("database") /\ UNCHANGED runs
    BY <2>1, <2>4, FaultCounted DEF Return, Goto, Officials
  <2>5. QED
    BY <1>3, <2>2, <2>3, <2>4, InsertEnds
<1>4. ASSUME NEW c \in Callers, Replay(c) PROVE Files'
  BY <1>4 DEF Replay, Return, GoOn, Goto, local, rows
<1>5. ASSUME NEW c \in Callers, RaiseReplay(c) PROVE Files'
  BY <1>5 DEF RaiseReplay, Return, Goto, rows
<1>6. ASSUME NEW c \in Callers, Fetch(c) PROVE Files'
  BY <1>6 DEF Fetch, GoOn, Goto, local, rows, Spend
<1>7. ASSUME NEW c \in Callers, WriteArtifact(c) PROVE Files'
  BY <1>7 DEF WriteArtifact, GoOn, Goto, local, Spend
<1>8. ASSUME NEW c \in Callers, CompleteRun(c) PROVE Files'
  <2>1. /\ pc[c] = "complete" /\ mine[c] \in RunIds
        /\ runs[mine[c]].status = "running"
        /\ UNCHANGED <<trading, stored>>
    BY <1>8, RegistrationEnds
  <2>2. CASE Registered(c) /\ Return(c) /\ UNCHANGED used
    BY <2>1, <2>2, CallerMoves, FaultCounted DEF Registered, SetStatus
  <2>3. CASE Registered(c) /\ GoOn(c, "fail") /\ Spend("uncertain")
    BY <2>1, <2>3, CallerMoves, FaultCounted DEF Registered, SetStatus
  <2>4. CASE UNCHANGED <<runs, manifests>> /\ GoOn(c, "cleanup") /\ Spend("database")
    BY <2>1, <2>4, CallerMoves, FaultCounted
  <2>5. CASE UNCHANGED <<runs, manifests>> /\ GoOn(c, "fail") /\ Spend("uncertain")
    BY <2>1, <2>5, CallerMoves, FaultCounted
  <2>6. QED
    BY <1>8, <2>2, <2>3, <2>4, <2>5, RegistrationEnds
<1>9. ASSUME NEW c \in Callers, Cleanup(c) PROVE Files'
  BY <1>9 DEF Cleanup, GoOn, Goto, local, Spend
<1>10. ASSUME NEW c \in Callers, FailRun(c) PROVE Files'
  BY <1>10 DEF FailRun, Return, Goto, Spend, SetStatus
<1>11. ASSUME NEW c \in Callers, Crash(c) PROVE Files'
  BY <1>11 DEF Crash, Return, Goto, rows, Spend
<1>12. ASSUME UNCHANGED vars PROVE Files'
  BY <1>12 DEF vars, local, rows
<1>13. QED
  BY <1>1, <1>2, <1>3, <1>4, <1>5, <1>6, <1>7, <1>8, <1>9, <1>10, <1>11, <1>12 DEF Next, Step, Quiet

\* Every step leaves a replay what it read of a success.
LEMMA ReplaysStep ==
    ASSUME TypeOK, Claims, SucceededIffManifest, Replays, [Next]_vars PROVE Replays'
<1> USE DEF TypeOK, Claims, Replays, Working, Rows, RunStates, Ended, Locations, FaultKinds,
     Exists, SucceededIffManifest
<1>1. ASSUME NEW c \in Callers, Call(c) PROVE Replays'
  BY <1>1 DEF Call, Goto, rows
<1>2. ASSUME NEW c \in Callers, FindOfficial(c) PROVE Replays'
  BY <1>2 DEF FindOfficial, Goto, rows, Officials
<1>3. ASSUME NEW c \in Callers, InsertRun(c) PROVE Replays'
  BY <1>3 DEF InsertRun, Return, Goto, NewRun, Spend, Officials
<1>4. ASSUME NEW c \in Callers, Replay(c) PROVE Replays'
  BY <1>4 DEF Replay, Return, GoOn, Goto, local, rows
<1>5. ASSUME NEW c \in Callers, RaiseReplay(c) PROVE Replays'
  BY <1>5 DEF RaiseReplay, Return, Goto, rows
<1>6. ASSUME NEW c \in Callers, Fetch(c) PROVE Replays'
  BY <1>6 DEF Fetch, GoOn, Goto, local, rows, Spend
<1>7. ASSUME NEW c \in Callers, WriteArtifact(c) PROVE Replays'
  BY <1>7 DEF WriteArtifact, GoOn, Goto, local, Spend
<1>8. ASSUME NEW c \in Callers, CompleteRun(c) PROVE Replays'
  BY <1>8 DEF CompleteRun, GoOn, Return, Goto, local, Spend, Registered, SetStatus
<1>9. ASSUME NEW c \in Callers, Cleanup(c) PROVE Replays'
  BY <1>9 DEF Cleanup, GoOn, Goto, local, Spend
<1>10. ASSUME NEW c \in Callers, FailRun(c) PROVE Replays'
  BY <1>10 DEF FailRun, Return, Goto, Spend, SetStatus
<1>11. ASSUME NEW c \in Callers, Crash(c) PROVE Replays'
  BY <1>11 DEF Crash, Return, Goto, rows, Spend
<1>12. ASSUME UNCHANGED vars PROVE Replays'
  BY <1>12 DEF vars, local, rows
<1>13. QED
  BY <1>1, <1>2, <1>3, <1>4, <1>5, <1>6, <1>7, <1>8, <1>9, <1>10, <1>11, <1>12 DEF Next, Step, Quiet

-----------------------------------------------------------------------------
\* Every step preserves the invariant.
LEMMA SnapshotInvStep == SnapshotInv /\ [Next]_vars => SnapshotInv'
BY TypeStep, ClaimsStep, OneOfficialStep, ManifestStep, FilesStep, ReplaysStep DEF SnapshotInv

\* The invariant holds in every behaviour.
LEMMA SnapshotInvariant == Spec => []SnapshotInv
BY SnapshotInvInit, SnapshotInvStep, PTL DEF Spec

\* Rows, files and callers keep their types.
THEOREM SnapshotTypeCorrect == Spec => []TypeOK
<1>1. SnapshotInv => TypeOK
  BY DEF SnapshotInv
<1>2. QED
  BY <1>1, SnapshotInvariant, PTL

\* A registered manifest always has its file, although the two stores share no
\* transaction and the acknowledgement of a registration may be lost.
THEOREM SnapshotManifestNeverDangles == Spec => []ManifestNeverDangles
<1>1. SnapshotInv => ManifestNeverDangles
  BY DEF SnapshotInv, Files, ManifestNeverDangles
<1>2. QED
  BY <1>1, SnapshotInvariant, PTL

\* In every state a crash can leave, a run is succeeded when it has a manifest.
THEOREM SnapshotSucceededIffManifest == Spec => []SucceededIffManifest
<1>1. SnapshotInv => SucceededIffManifest
  BY DEF SnapshotInv
<1>2. QED
  BY <1>1, SnapshotInvariant, PTL

\* A replay that read a success always finds the manifest in its second session.
THEOREM SnapshotReplayNeverInconsistent == Spec => []ReplayNeverInconsistent
<1>1. SnapshotInv => ReplayNeverInconsistent
  BY DEF SnapshotInv, Replays, ReplayNeverInconsistent
<1>2. QED
  BY <1>1, SnapshotInvariant, PTL

\* A run that was recorded failed has no file, but for unknown outcomes and
\* removals that fail.
THEOREM SnapshotNoOrphanAfterFailure == Spec => []NoOrphanAfterFailure
<1>1. SnapshotInv => NoOrphanAfterFailure
  BY DEF SnapshotInv, Files, NoOrphanAfterFailure
<1>2. QED
  BY <1>1, SnapshotInvariant, PTL

-----------------------------------------------------------------------------
(* What is left running.                                                    *)

Faults == used["crash"] + used["database"] + used["uncertain"]

\* The faults that leave a run behind are counted, the others do not count.
LEMMA FaultsAreCounted ==
    ASSUME TypeOK
    PROVE  /\ Faults \in Nat
           /\ UNCHANGED used => Faults' = Faults
           /\ \A kind \in {"crash", "database", "uncertain"} : Spend(kind) => Faults' = Faults + 1
           /\ \A kind \in FaultKinds \ {"crash", "database", "uncertain"} :
                 Spend(kind) => Faults' = Faults
<1>1. used \in [FaultKinds -> Nat]
  BY DEF TypeOK
<1>2. used["crash"] \in Nat /\ used["database"] \in Nat /\ used["uncertain"] \in Nat
  BY <1>1 DEF FaultKinds
<1>3. ASSUME NEW kind \in FaultKinds, Spend(kind)
      PROVE  \A k \in FaultKinds : used'[k] = IF k = kind THEN used[k] + 1 ELSE used[k]
  BY <1>1, <1>3 DEF Spend
<1>4. QED
  BY <1>2, <1>3 DEF Faults, FaultKinds

\* One caller moves.  It leaves no more behind than it had, or its own run, for a fault.
Leaves(c) ==
    \/ Orphans' \subseteq Orphans /\ Faults' >= Faults
    \/ \E r \in RunIds : Orphans' \subseteq Orphans \cup {r} /\ Faults' = Faults + 1

\* A caller that was at work on nothing leaves nothing, while no row begins to run.
LEMMA IdleLeavesNothing ==
    ASSUME NEW c \in Callers, pc[c] \notin Working,
           \A d \in Callers \ {c} : pc'[d] = pc[d] /\ mine'[d] = mine[d],
           \A r \in RunIds : runs'[r].status = "running" => runs[r].status = "running"
    PROVE  Orphans' \subseteq Orphans
BY DEF Orphans

\* A caller that goes on with its run leaves nothing.
LEMMA WorkLeavesNothing ==
    ASSUME NEW c \in Callers, pc'[c] \in Working, mine'[c] = mine[c],
           \A d \in Callers \ {c} : pc'[d] = pc[d] /\ mine'[d] = mine[d],
           \A r \in RunIds : runs'[r].status = "running" => runs[r].status = "running"
    PROVE  Orphans' \subseteq Orphans
BY DEF Orphans

\* A caller that stops leaves its own run at most, and none if that runs no more.
LEMMA StopLeavesOne ==
    ASSUME NEW c \in Callers,
           \A d \in Callers \ {c} : pc'[d] = pc[d] /\ mine'[d] = mine[d],
           \A r \in RunIds : runs'[r].status = "running" => runs[r].status = "running"
    PROVE  /\ Orphans' \subseteq Orphans \cup {mine[c]}
           /\ mine[c] \in RunIds /\ runs'[mine[c]].status # "running" => Orphans' \subseteq Orphans
BY DEF Orphans

\* Every step leaves at most one run behind, and that for a fault of its own.
LEMMA StepLeaves ==
    ASSUME SnapshotInv, NEW c \in Callers, Call(c) \/ Step(c) \/ Crash(c) PROVE Leaves(c)
<1> USE DEF SnapshotInv
<1>0. /\ \A l \in Locations : GoOn(c, l) =>
            /\ pc'[c] = l /\ mine' = mine
            /\ \A d \in Callers \ {c} : pc'[d] = pc[d] /\ mine'[d] = mine[d]
      /\ Return(c) =>
            /\ pc'[c] = "idle"
            /\ \A d \in Callers \ {c} : pc'[d] = pc[d] /\ mine'[d] = mine[d]
      /\ Faults \in Nat
      /\ \A kind \in FaultKinds : Spend(kind) => Faults' >= Faults
      /\ UNCHANGED used => Faults' >= Faults
  BY FaultsAreCounted DEF GoOn, Goto, Return, local, TypeOK
<1>1. CASE Call(c) \/ FindOfficial(c)
  BY <1>0, <1>1, IdleLeavesNothing
  DEF Call, FindOfficial, Goto, rows, Leaves, Working, TypeOK
<1>2. CASE Replay(c) \/ RaiseReplay(c)
  BY <1>0, <1>2, IdleLeavesNothing
  DEF Replay, RaiseReplay, rows, Leaves, Working, Locations
<1>3. CASE InsertRun(c)
  <2>1. pc[c] \notin Working
    BY <1>3 DEF InsertRun, Working
  <2>2. ASSUME NEW r \in RunIds, Inserted(c, r) PROVE Leaves(c)
    <3>1. /\ \A q \in RunIds \ {r} : runs'[q] = runs[q]
          /\ \A d \in Callers \ {c} : pc'[d] = pc[d] /\ mine'[d] = mine[d]
      BY <1>0, <2>2 DEF Inserted, TypeOK, Goto
    <3>2. Orphans' \subseteq Orphans \cup {r}
      BY <2>1, <3>1 DEF Orphans
    <3>3. CASE /\ Goto(c, "calendar")
               /\ mine' = [mine EXCEPT ![c] = r]
               /\ UNCHANGED <<force, status, used>>
      <4>1. pc'[c] \in Working /\ mine'[c] = r
        BY <3>3 DEF Goto, TypeOK, Working
      <4>2. r \notin Orphans'
        BY <4>1 DEF Orphans
      <4>3. QED
        BY <1>0, <3>2, <3>3, <4>2 DEF Leaves
    <3>4. CASE Return(c) /\ Spend("uncertain")
      BY <3>2, <3>4, FaultsAreCounted DEF Leaves
    <3>5. QED
      BY <2>2, <3>3, <3>4 DEF Inserted
  <2>3. ASSUME NEW r \in Officials, Conflict(c, r) PROVE Leaves(c)
    BY <1>0, <2>1, <2>3, IdleLeavesNothing DEF Conflict, Goto, Leaves, TypeOK
  <2>4. CASE Return(c) /\ Spend("database") /\ UNCHANGED runs
    BY <1>0, <2>1, <2>4, IdleLeavesNothing DEF Leaves, FaultKinds
  <2>5. QED
    BY <1>3, <2>2, <2>3, <2>4, InsertEnds
<1>4. CASE Fetch(c) \/ WriteArtifact(c) \/ Cleanup(c)
  <2>1. /\ UNCHANGED runs /\ \E l \in {"write", "complete", "fail"} : GoOn(c, l)
        /\ UNCHANGED used \/ \E kind \in FaultKinds : Spend(kind)
    BY <1>4 DEF Fetch, WriteArtifact, Cleanup, rows, FaultKinds
  <2>2. QED
    BY <1>0, <2>1, WorkLeavesNothing DEF Leaves, Working, Locations
<1>5. CASE CompleteRun(c)
  <2>1. mine[c] \in RunIds /\ (Registered(c) \/ UNCHANGED runs)
        /\ ((Registered(c) /\ Return(c)) \/ \E l \in {"fail", "cleanup"} : GoOn(c, l))
        /\ (UNCHANGED used \/ \E kind \in FaultKinds : Spend(kind))
    BY <1>5, RegistrationEnds DEF FaultKinds
  <2>2. \A r \in RunIds : runs'[r].status = "running" => runs[r].status = "running"
    BY <2>1 DEF Registered, SetStatus, TypeOK, Rows
  <2>3. CASE Registered(c) /\ Return(c)
    <3>1. runs'[mine[c]].status # "running"
      BY <2>1, <2>3 DEF Registered, SetStatus, TypeOK, Rows
    <3>2. QED
      BY <1>0, <2>1, <2>2, <2>3, <3>1, StopLeavesOne DEF Leaves
  <2>4. CASE \E l \in {"fail", "cleanup"} : GoOn(c, l)
    BY <1>0, <2>1, <2>2, <2>4, WorkLeavesNothing DEF Leaves, Working, Locations
  <2>5. QED
    BY <2>1, <2>3, <2>4
<1>6. CASE FailRun(c)
  <2>1. mine[c] \in RunIds /\ Return(c)
    BY <1>6 DEF FailRun, Claims, Working
  <2>2. \A r \in RunIds : runs'[r].status = "running" => runs[r].status = "running"
    BY <1>6, <2>1 DEF FailRun, SetStatus, TypeOK, Rows
  <2>3. CASE runs'[mine[c]].status # "running" /\ UNCHANGED used
    BY <1>0, <2>1, <2>2, <2>3, StopLeavesOne DEF Leaves
  <2>4. CASE Spend("database")
    BY <1>0, <2>1, <2>2, <2>4, StopLeavesOne, FaultsAreCounted DEF Leaves
  <2>5. QED
    BY <1>6, <2>1, <2>3, <2>4 DEF FailRun, SetStatus, TypeOK, Rows
<1>7. CASE Crash(c)
  <2>1. Return(c) /\ UNCHANGED runs /\ Spend("crash")
    BY <1>7 DEF Crash, rows
  <2>2. CASE mine[c] \in RunIds
    BY <1>0, <2>1, <2>2, StopLeavesOne, FaultsAreCounted DEF Leaves
  <2>3. CASE mine[c] \notin RunIds
    <3>1. Orphans' \subseteq Orphans
      BY <1>0, <2>1, <2>3, StopLeavesOne DEF Orphans
    <3>2. QED
      BY <1>0, <2>1, <3>1 DEF Leaves, FaultKinds
  <2>4. QED
    BY <2>2, <2>3
<1>8. QED
  BY <1>1, <1>2, <1>3, <1>4, <1>5, <1>6, <1>7 DEF Step

\* The runs that are left running are counted by the faults.
OrphanInv == IsFiniteSet(Orphans) /\ Cardinality(Orphans) <= Faults

\* No step leaves more behind than it spends.
LEMMA OrphanInvStep ==
    ASSUME SnapshotInv, OrphanInv, [Next]_vars PROVE OrphanInv'
<1>1. Faults \in Nat /\ Cardinality(Orphans) \in Nat
  BY FaultsAreCounted, FS_CardinalityType DEF SnapshotInv, OrphanInv
<1>2. ASSUME NEW c \in Callers, Leaves(c) PROVE OrphanInv'
  <2>1. CASE Orphans' \subseteq Orphans /\ Faults' >= Faults
    <3>1. Orphans' \in SUBSET Orphans /\ IsFiniteSet(Orphans)
      BY <2>1 DEF OrphanInv
    <3>2. IsFiniteSet(Orphans') /\ Cardinality(Orphans') <= Cardinality(Orphans)
      BY <3>1, FS_Subset
    <3>3. Cardinality(Orphans') \in Nat
      BY <3>2, FS_CardinalityType
    <3>4. TypeOK'
      BY SnapshotInvStep DEF SnapshotInv
    <3>5. Faults' \in Nat
      BY <3>4 DEF TypeOK, Faults, FaultKinds
    <3>6. QED
      BY <1>1, <2>1, <3>2, <3>3, <3>5 DEF OrphanInv
  <2>2. ASSUME NEW r \in RunIds, Orphans' \subseteq Orphans \cup {r}, Faults' = Faults + 1
        PROVE  OrphanInv'
    <3>1. IsFiniteSet(Orphans)
      BY DEF OrphanInv
    <3>2. /\ IsFiniteSet(Orphans \cup {r})
          /\ Cardinality(Orphans \cup {r}) <= Cardinality(Orphans) + 1
          /\ Cardinality(Orphans \cup {r}) \in Nat
      BY <1>1, <3>1, FS_AddElement
    <3>3. Orphans' \in SUBSET (Orphans \cup {r})
      BY <2>2
    <3>4. IsFiniteSet(Orphans') /\ Cardinality(Orphans') <= Cardinality(Orphans \cup {r})
      BY <3>2, <3>3, FS_Subset
    <3>5. Cardinality(Orphans') \in Nat
      BY <3>4, FS_CardinalityType
    <3>6. QED
      BY <1>1, <2>2, <3>2, <3>4, <3>5 DEF OrphanInv
  <2>3. QED
    BY <1>2, <2>1, <2>2 DEF Leaves
<1>3. CASE UNCHANGED vars
  <2>1. Orphans' = Orphans /\ Faults' = Faults
    BY <1>3 DEF vars, rows, local, Orphans, Faults
  <2>2. QED
    BY <2>1 DEF OrphanInv
<1>4. QED
  BY <1>2, <1>3, StepLeaves DEF Next, Quiet

\* Each crash, failed write and unknown outcome leaves at most one run running for ever,
\* and nothing else leaves one, for any number of callers and runs.
THEOREM SnapshotOrphansHaveCause == Spec => []OrphansHaveCause
<1>1. Init => OrphanInv
  <2>1. SUFFICES ASSUME Init PROVE OrphanInv
    OBVIOUS
  <2>2. Orphans = {} /\ Faults = 0
    BY <2>1 DEF Init, Orphans, Faults, FaultKinds
  <2>3. QED
    BY <2>2, FS_EmptySet DEF OrphanInv
<1>2. SnapshotInv /\ OrphanInv /\ [Next]_vars => OrphanInv'
  BY OrphanInvStep
<1>3. OrphanInv => OrphansHaveCause
  BY DEF OrphanInv, OrphansHaveCause, Faults
<1>4. QED
  BY <1>1, <1>2, <1>3, SnapshotInvariant, PTL DEF Spec

\* The five together: what the database and the storage tell is one story, and it
\* leaves no more runs unfinished than there were faults.
THEOREM SnapshotStoreConsistent == Spec => []StoreConsistent
<1>1. ManifestNeverDangles /\ SucceededIffManifest /\ ReplayNeverInconsistent
        /\ NoOrphanAfterFailure /\ OrphansHaveCause => StoreConsistent
  BY DEF StoreConsistent
<1>2. QED
  BY <1>1, SnapshotManifestNeverDangles, SnapshotSucceededIffManifest,
     SnapshotReplayNeverInconsistent, SnapshotNoOrphanAfterFailure,
     SnapshotOrphansHaveCause, PTL

-----------------------------------------------------------------------------
(* The engine implements the promise.                                       *)

Artifact == Officials # {} /\ Officials \subseteq stored

SlotVars == <<OfficialStatus, Artifact>>

\* What there is only one of is what is chosen.
LEMMA ChooseOnly ==
    ASSUME NEW S, NEW r \in S, \A s \in S : s = r
    PROVE  (CHOOSE s \in S : TRUE) = r
<1>1. (CHOOSE s \in S : TRUE) \in S
  OBVIOUS
<1>2. QED
  BY <1>1

\* The one official row is the slot and its file the artifact, before and after
\* a step; without an official row the slot is free.
LEMMA SlotValues ==
    ASSUME OneOfficial, OneOfficial'
    PROVE  /\ \A r \in Officials : OfficialStatus = runs[r].status /\ Artifact = (r \in stored)
           /\ \A r \in Officials' :
                 OfficialStatus' = runs'[r].status /\ Artifact' = (r \in stored')
           /\ Officials = {} => OfficialStatus = "none" /\ Artifact = FALSE
           /\ Officials' = {} => OfficialStatus' = "none" /\ Artifact' = FALSE
<1>1. ASSUME NEW r \in Officials
      PROVE  OfficialStatus = runs[r].status /\ Artifact = (r \in stored)
  <2>1. \A s \in Officials : s = r
    BY DEF OneOfficial
  <2>2. (CHOOSE s \in Officials : TRUE) = r
    BY <2>1, ChooseOnly
  <2>3. QED
    BY <2>1, <2>2 DEF OfficialStatus, Artifact
<1>2. ASSUME NEW r \in Officials'
      PROVE  OfficialStatus' = runs'[r].status /\ Artifact' = (r \in stored')
  <2>1. \A s \in Officials' : s = r
    BY DEF OneOfficial
  <2>2. (CHOOSE s \in Officials' : TRUE) = r
    BY <2>1, ChooseOnly
  <2>3. QED
    BY <2>1, <2>2 DEF OfficialStatus, Artifact
<1>3. QED
  BY <1>1, <1>2 DEF OfficialStatus, Artifact

\* A step that works on one running row is a write, a capture or a failure when
\* that row is the official one, and invisible otherwise.
LEMMA RowStep ==
    ASSUME OneOfficial, OneOfficial', NEW m \in RunIds,
           Officials' = Officials,
           \A r \in RunIds \ {m} : runs'[r] = runs[r] /\ (r \in stored') = (r \in stored),
           runs[m].status = "running",
           \/ runs'[m].status = "running"
           \/ runs'[m].status = "succeeded" /\ m \in stored'
           \/ runs'[m].status = "failed" /\ (m \in stored') = (m \in stored)
    PROVE  [Official!Next]_SlotVars
<1>1. CASE Officials = {}
  BY <1>1, SlotValues DEF SlotVars
<1>2. ASSUME NEW r \in Officials, r # m PROVE UNCHANGED SlotVars
  <2>1. r \in RunIds \ {m}
    BY <1>2 DEF Officials
  <2>2. QED
    BY <2>1, SlotValues DEF SlotVars
<1>3. CASE m \in Officials
  <2>1. /\ OfficialStatus = "running" /\ OfficialStatus' = runs'[m].status
        /\ Artifact = (m \in stored) /\ Artifact' = (m \in stored')
    BY <1>3, SlotValues
  <2>2. QED
    BY <2>1 DEF Official!Next, Official!Write, Official!Capture, Official!Fail, Artifact
<1>4. QED
  BY <1>1, <1>2, <1>3

\* A step that touches neither rows nor files is invisible.
LEMMA SlotKept ==
    ASSUME UNCHANGED <<runs, stored>> PROVE UNCHANGED SlotVars
BY DEF SlotVars, OfficialStatus, Artifact, Officials, Exists

\* Only an unforced insert that finds no official row claims the slot.
LEMMA InsertStep ==
    ASSUME SnapshotInv, OneOfficial', NEW c \in Callers, InsertRun(c)
    PROVE  [Official!Next]_SlotVars
<1> USE DEF SnapshotInv, TypeOK, Rows
<1>1. UNCHANGED <<trading, manifests, stored>>
  BY InsertEnds
<1>2. ASSUME NEW r \in RunIds, Inserted(c, r), force[c] PROVE UNCHANGED SlotVars
  <2>1. \A q \in RunIds \ {r} : runs'[q] = runs[q]
    BY <1>2 DEF Inserted
  <2>2. runs'[r].official = FALSE /\ r \notin Officials
    BY <1>2 DEF Inserted, NewRun, Officials
  <2>3. Officials' = Officials
    BY <2>1, <2>2 DEF Officials, Exists
  <2>4. CASE Officials = {}
    BY <2>3, <2>4, SlotValues DEF SlotVars
  <2>5. ASSUME NEW q \in Officials PROVE UNCHANGED SlotVars
    <3>1. runs'[q] = runs[q]
      BY <2>1, <2>2 DEF Officials
    <3>2. QED
      BY <1>1, <2>3, <3>1, SlotValues DEF SlotVars
  <2>6. QED
    BY <2>4, <2>5
<1>3. ASSUME NEW r \in RunIds, Inserted(c, r), ~force[c] PROVE Official!Claim
  <2>1. Officials = {} /\ r \notin stored
    BY <1>3 DEF Inserted, Files
  <2>2. r \in Officials' /\ runs'[r].status = "running"
    BY <1>3 DEF Inserted, NewRun, Officials, Exists
  <2>3. OfficialStatus = "none" /\ Artifact = FALSE
    BY <2>1, SlotValues
  <2>4. OfficialStatus' = "running" /\ Artifact' = FALSE
    <3>1. OfficialStatus' = runs'[r].status
      BY <2>2, SlotValues
    <3>2. ~(r \in stored')
      BY <1>1, <2>1
    <3>3. OfficialStatus' = "running"
      BY <2>2, <3>1
    <3>4. Artifact' = FALSE
      BY <2>2, <3>2 DEF Artifact
    <3>5. QED
      BY <3>3, <3>4
  <2>5. QED
    BY <2>3, <2>4 DEF Official!Claim, Artifact
<1>4. CASE UNCHANGED runs
  BY <1>1, <1>4, SlotKept
<1>5. QED
  BY <1>2, <1>3, <1>4, InsertEnds DEF Conflict, Official!Next

\* What any step does to the official run, the promise allows.
LEMMA SlotStep ==
    ASSUME SnapshotInv, SnapshotInv', [Next]_vars PROVE [Official!Next]_SlotVars
<1> USE DEF SnapshotInv
<1>1. ASSUME NEW c \in Callers,
             Call(c) \/ FindOfficial(c) \/ Replay(c) \/ RaiseReplay(c) \/ Fetch(c) \/ Crash(c)
      PROVE  UNCHANGED <<runs, stored>>
  BY <1>1 DEF Call, FindOfficial, Replay, RaiseReplay, Fetch, Crash, rows
<1>2. ASSUME NEW c \in Callers, InsertRun(c) PROVE [Official!Next]_SlotVars
  BY <1>2, InsertStep
<1>3. ASSUME NEW c \in Callers, WriteArtifact(c) PROVE [Official!Next]_SlotVars
  <2>1. mine[c] \in RunIds /\ runs[mine[c]].status = "running"
    BY <1>3 DEF WriteArtifact, Claims, Working
  <2>2. UNCHANGED runs /\ \A r \in RunIds \ {mine[c]} : (r \in stored') = (r \in stored)
    BY <1>3 DEF WriteArtifact
  <2>3. QED
    BY <2>1, <2>2, RowStep DEF Officials, Exists
<1>4. ASSUME NEW c \in Callers, CompleteRun(c) PROVE [Official!Next]_SlotVars
  <2>1. /\ mine[c] \in RunIds /\ runs[mine[c]].status = "running"
        /\ mine[c] \in stored /\ UNCHANGED stored
    BY <1>4, RegistrationEnds DEF Files
  <2>2. CASE Registered(c)
    <3>1. /\ \A r \in RunIds \ {mine[c]} : runs'[r] = runs[r]
          /\ runs'[mine[c]].status = "succeeded"
          /\ \A r \in RunIds : runs'[r].official = runs[r].official
      BY <2>1, <2>2 DEF Registered, SetStatus, TypeOK, Rows
    <3>2. Officials' = Officials
      BY <2>1, <3>1 DEF Officials, Exists
    <3>3. QED
      BY <2>1, <3>1, <3>2, RowStep
  <2>3. CASE UNCHANGED runs
    BY <2>1, <2>3, SlotKept
  <2>4. QED
    BY <1>4, <2>2, <2>3, RegistrationEnds
<1>5. ASSUME NEW c \in Callers, Cleanup(c) PROVE [Official!Next]_SlotVars
  <2>1. mine[c] \in RunIds /\ runs[mine[c]].status = "running"
    BY <1>5 DEF Cleanup, Claims, Working
  <2>2. UNCHANGED runs /\ \A r \in RunIds \ {mine[c]} : (r \in stored') = (r \in stored)
    BY <1>5 DEF Cleanup
  <2>3. QED
    BY <2>1, <2>2, RowStep DEF Officials, Exists
<1>6. ASSUME NEW c \in Callers, FailRun(c) PROVE [Official!Next]_SlotVars
  <2>1. mine[c] \in RunIds /\ UNCHANGED stored
    BY <1>6 DEF FailRun, Claims, Working
  <2>2. CASE runs[mine[c]].status = "running" /\ SetStatus(mine[c], "failed")
    <3>1. /\ \A r \in RunIds \ {mine[c]} : runs'[r] = runs[r]
          /\ runs'[mine[c]].status = "failed"
          /\ \A r \in RunIds : runs'[r].official = runs[r].official
      BY <2>1, <2>2 DEF SetStatus, TypeOK, Rows
    <3>2. Officials' = Officials
      BY <2>1, <2>2, <3>1 DEF Officials, Exists
    <3>3. QED
      BY <2>1, <2>2, <3>1, <3>2, RowStep
  <2>3. CASE UNCHANGED runs
    BY <2>1, <2>3, SlotKept
  <2>4. QED
    BY <1>6, <2>2, <2>3 DEF FailRun
<1>7. ASSUME UNCHANGED vars PROVE UNCHANGED <<runs, stored>>
  BY <1>7 DEF vars, rows
<1>8. QED
  BY <1>1, <1>2, <1>3, <1>4, <1>5, <1>6, <1>7, SlotKept DEF Next, Step, Quiet

\* The official run, whatever races, repeats and forced reruns there are, is
\* claimed once, ends once, and keeps its file when it succeeded.
THEOREM SnapshotImplementsOfficial == Spec => OfficialSpec
<1>1. Init => Official!Init
  <2>1. Init => Officials = {}
    BY DEF Init, Officials, Exists
  <2>2. QED
    BY <2>1 DEF Official!Init, OfficialStatus
<1>2. SnapshotInv /\ SnapshotInv' /\ [Next]_vars => [Official!Next]_SlotVars
  BY SlotStep
<1>3. QED
  BY <1>1, <1>2, SnapshotInvariant, PTL DEF Spec, OfficialSpec, Official!Spec, SlotVars, Artifact

=============================================================================
