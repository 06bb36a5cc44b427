------------------------ MODULE OnDemandResearch_proofs ------------------------
(***************************************************************************)
(* Proofs for OnDemandResearch, for any number of readers and commands and  *)
(* any number of requests and faults.                                       *)
(***************************************************************************)
EXTENDS OnDemandResearch, SequenceTheorems, FiniteSetTheorems, TLAPS

-----------------------------------------------------------------------------
(* Types.                                                                   *)

\* What a caller holds, by where it is.
Held ==
    /\ \A c \in Callers : pc[c] \in {"call", "end", "link"} => mine[c] \in DOMAIN rows
    /\ \A c \in Callers : pc[c] = "end" => verdict[c] \in Served \cup {"failed"}
    /\ \A c \in Callers : pc[c] \in {"link", "lookup"} => verdict[c] \in Served
    /\ \A c \in Callers : pc[c] \in StageSteps => c \in Readers

Typed == TypeOK /\ Held

\* A claimed attempt is the newest row; the others stay as they are.
Inserted(f) ==
    /\ rows' \in Seq(Attempt)
    /\ DOMAIN rows = 1..Len(rows) /\ DOMAIN rows' = 1..(Len(rows) + 1)
    /\ Len(rows) \in Nat
    /\ \A i \in DOMAIN rows : rows'[i] = rows[i]
    /\ rows'[Len(rows) + 1] = [status |-> "running", forced |-> f]

\* A claim appends one running attempt and leaves the others as they are.
LEMMA InsertedRow ==
    ASSUME rows \in Seq(Attempt), NEW f \in BOOLEAN,
           rows' = Append(rows, [status |-> "running", forced |-> f])
    PROVE  Inserted(f)
<1> DEFINE e == [status |-> "running", forced |-> f]
<1>1. e \in Attempt
  BY DEF Attempt, Statuses
<1> HIDE DEF e
<1>2. rows' = Append(rows, e)
  BY DEF e
<1>3. /\ rows' \in Seq(Attempt) /\ Len(rows') = Len(rows) + 1
      /\ \A i \in 1..Len(rows) : rows'[i] = rows[i]
      /\ rows'[Len(rows) + 1] = e
  BY <1>1, <1>2, AppendProperties
<1>4. Len(rows) \in Nat /\ DOMAIN rows = 1..Len(rows) /\ DOMAIN rows' = 1..Len(rows')
  BY <1>3, LenProperties
<1>5. QED
  BY <1>3, <1>4 DEF Inserted, e

\* A sequence of attempts is indexed from one, and its elements are attempts.
LEMMA Domains ==
    ASSUME rows \in Seq(Attempt)
    PROVE  Len(rows) \in Nat /\ DOMAIN rows = 1..Len(rows)
           /\ \A i \in DOMAIN rows : rows[i] \in Attempt
BY LenProperties, ElementOfSeq

\* An attempt that ends keeps its place and its kind.
LEMMA EndedRow ==
    ASSUME rows \in Seq(Attempt), NEW i \in DOMAIN rows, NEW v \in Statuses,
           rows' = [rows EXCEPT ![i].status = v]
    PROVE  /\ rows' \in Seq(Attempt) /\ DOMAIN rows' = DOMAIN rows
           /\ rows'[i].status = v
           /\ \A j \in DOMAIN rows : rows'[j].forced = rows[j].forced
           /\ \A j \in DOMAIN rows : j # i => rows'[j] = rows[j]
<1> DEFINE e == [rows[i] EXCEPT !.status = v]
<1>0. rows[i] \in Attempt
  BY Domains
<1>1. e \in Attempt /\ e.status = v /\ e.forced = rows[i].forced
  BY <1>0 DEF Attempt
<1>2. rows' = [rows EXCEPT ![i] = e]
  OBVIOUS
<1> HIDE DEF e
<1>3. rows' \in Seq(Attempt)
  BY <1>1, <1>2, ExceptSeq
<1>4. QED
  BY <1>1, <1>2, <1>3

\* The initial state is well typed.
LEMMA TypedInit == Init => Typed
BY DEF Init, Typed, TypeOK, Held, Callers, Stages, Statuses, Served, Locations, AttemptSteps,
   StageSteps, Kinds

\* An event keeps the counters natural numbers.
LEMMA Spent ==
    ASSUME TypeOK, NEW kind \in Kinds, Spend(kind)
    PROVE  used' \in [Kinds -> Nat]
BY DEF TypeOK, Spend

\* A caller that leaves is idle; the other callers are untouched.
LEMMA LeaveType ==
    ASSUME Typed, NEW c \in Callers, Leave(c)
    PROVE  /\ pc' \in [Callers -> Locations] /\ force' \in [Callers -> BOOLEAN]
           /\ mine' \in [Callers -> Nat] /\ verdict' \in [Callers -> Stages \cup {"none"}]
           /\ pc'[c] = "idle"
           /\ \A d \in Callers : d # c => pc'[d] = pc[d] /\ mine'[d] = mine[d]
                                          /\ verdict'[d] = verdict[d]
BY DEF Typed, TypeOK, Leave, Goto, Locations

\* A caller that goes on is at its next place; the other callers are untouched.
LEMMA GoOnType ==
    ASSUME Typed, NEW c \in Callers, NEW l \in Locations, GoOn(c, l)
    PROVE  /\ pc' \in [Callers -> Locations] /\ force' \in [Callers -> BOOLEAN]
           /\ mine' \in [Callers -> Nat] /\ verdict' \in [Callers -> Stages \cup {"none"}]
           /\ pc'[c] = l /\ \A d \in Callers : d # c => pc'[d] = pc[d]
           /\ mine' = mine /\ verdict' = verdict
BY DEF Typed, TypeOK, GoOn, Goto

\* A caller leaves, or a reader moves to a step for which it holds nothing.
LEMMA LeaveHeld ==
    ASSUME Typed, NEW c \in Callers, Leave(c), DOMAIN rows \subseteq DOMAIN rows'
    PROVE  Held'
BY LeaveType DEF Typed, Held, StageSteps

\* A request that holds no row keeps what every request holds.
LEMMA MovedHeld ==
    ASSUME Typed, NEW c \in Readers, GoOn(c, "claim") \/ GoOn(c, "failStage") \/ Leave(c),
           DOMAIN rows \subseteq DOMAIN rows'
    PROVE  Held'
<1> c \in Callers
  BY DEF Callers
<1>1. CASE Leave(c)
  BY <1>1, LeaveHeld
<1>2. CASE GoOn(c, "claim")
  <2>1. "claim" \in Locations
    BY DEF Locations, AttemptSteps
  <2>2. QED
    BY <1>2, <2>1, GoOnType DEF Typed, Held, StageSteps
<1>3. CASE GoOn(c, "failStage")
  <2>1. "failStage" \in Locations
    BY DEF Locations, StageSteps
  <2>2. QED
    BY <1>3, <2>1, GoOnType DEF Typed, Held, StageSteps
<1>4. QED
  BY <1>1, <1>2, <1>3

\* Every step keeps the types and what each caller holds.
LEMMA TypedStep == ASSUME Typed, [Next]_vars PROVE Typed'
<1> USE DEF Kinds
<1>0. rows \in Seq(Attempt) /\ Len(rows) \in Nat /\ DOMAIN rows = 1..Len(rows)
      /\ \A i \in DOMAIN rows : rows[i] \in Attempt
  BY Domains DEF Typed, TypeOK
<1>1. ASSUME NEW c \in Readers, Refused(c) PROVE Typed'
  BY <1>1 DEF Refused, vars, attempts, Typed, TypeOK, Held, Callers
<1>2. ASSUME NEW c \in Readers, ReadStage(c) PROVE Typed'
  <2>1. c \in Callers
    BY DEF Callers
  <2>2. used' \in [Kinds -> Nat]
    BY <1>2, Spent DEF ReadStage, Typed
  <2>3. TypeOK'
    BY <1>2, <2>1, <2>2 DEF ReadStage, Goto, Typed, TypeOK, attempts, Locations, StageSteps,
       Stages, Statuses, Served
  <2>4. Held'
    BY <1>2, <2>1, <2>3 DEF ReadStage, Goto, Typed, TypeOK, Held, attempts, StageSteps, Served
  <2>5. QED
    BY <2>3, <2>4 DEF Typed
<1>3. ASSUME NEW c \in Readers, Lookup(c) PROVE Typed'
  <2>1. c \in Callers
    BY DEF Callers
  <2>2. TypeOK'
    BY <1>3, <2>1, LeaveType DEF Lookup, Typed, TypeOK, attempts
  <2>3. Held'
    BY <1>3, <2>1, MovedHeld DEF Lookup, attempts
  <2>4. QED
    BY <2>2, <2>3 DEF Typed
<1>4. ASSUME NEW c \in Readers, Mark(c) PROVE Typed'
  <2>1. c \in Callers /\ "claim" \in Locations
    BY DEF Callers, Locations, AttemptSteps
  <2>2. TypeOK'
    BY <1>4, <2>1, LeaveType, GoOnType, Spent
       DEF Mark, Acknowledged, Unacknowledged, Typed, TypeOK, attempts, Stages, Statuses
  <2>3. Held'
    BY <1>4, <2>1, MovedHeld DEF Mark, Acknowledged, Unacknowledged, attempts
  <2>4. QED
    BY <2>2, <2>3 DEF Typed
<1>5. ASSUME NEW c \in Readers, Link(c) PROVE Typed'
  <2>1. c \in Callers /\ verdict[c] \in Served /\ mine[c] \in Nat
    BY <1>5 DEF Callers, Link, Typed, TypeOK, Held
  <2>2. Leave(c) /\ DOMAIN rows' = DOMAIN rows /\ attempts' = attempts
    BY <1>5 DEF Link, Acknowledged, Unacknowledged, attempts
  <2>3. used' \in [Kinds -> Nat]
    BY <1>5, Spent DEF Link, Acknowledged, Unacknowledged, Typed, TypeOK
  <2>4. stage' \in Stages /\ link' \in Nat
    BY <1>5, <2>1 DEF Link, Typed, TypeOK, Stages, Statuses
  <2>5. TypeOK'
    BY <2>1, <2>2, <2>3, <2>4, LeaveType DEF Typed, TypeOK, attempts
  <2>6. Held'
    BY <2>1, <2>2, MovedHeld
  <2>7. QED
    BY <2>5, <2>6 DEF Typed
<1>6. ASSUME NEW c \in Readers, FailStage(c) PROVE Typed'
  <2>1. c \in Callers
    BY DEF Callers
  <2>2. TypeOK'
    BY <1>6, <2>1, LeaveType, Spent
       DEF FailStage, Acknowledged, Unacknowledged, Typed, TypeOK, attempts, Stages, Statuses
  <2>3. Held'
    BY <1>6, <2>1, MovedHeld DEF FailStage, Acknowledged, Unacknowledged, attempts
  <2>4. QED
    BY <2>2, <2>3 DEF Typed
<1>7. ASSUME NEW c \in Commands, Command(c) PROVE Typed'
  <2>1. c \in Callers
    BY DEF Callers
  <2>2. used' \in [Kinds -> Nat]
    BY <1>7, Spent DEF Command, Typed
  <2>3. TypeOK'
    BY <1>7, <2>1, <2>2 DEF Command, Goto, Typed, TypeOK, attempts, Locations, AttemptSteps
  <2>4. Held'
    BY <1>7, <2>1, <2>3 DEF Command, Goto, Typed, TypeOK, Held, attempts, StageSteps
  <2>5. QED
    BY <2>3, <2>4 DEF Typed
<1>8. ASSUME NEW c \in Callers, Claim(c) PROVE Typed'
  <2>0. stage' = stage /\ link' = link /\ called' = called /\ pc[c] = "claim"
    BY <1>8 DEF Claim
  <2>1. ASSUME NEW i \in Ordinary, ~force[c],
               IF AfterAttempt(c, rows[i].status) = "idle" THEN Leave(c)
               ELSE /\ Goto(c, AfterAttempt(c, rows[i].status))
                    /\ mine' = [mine EXCEPT ![c] = i]
                    /\ verdict' = [verdict EXCEPT ![c] = rows[i].status]
                    /\ UNCHANGED force,
               UNCHANGED <<rows, used>>
        PROVE Typed'
    <3>0. i \in DOMAIN rows /\ i \in Nat /\ rows[i].status \in Statuses
      BY <1>0, <2>1 DEF Ordinary, Attempt
    <3>1. CASE AfterAttempt(c, rows[i].status) = "idle"
      <4>1. Leave(c)
        BY <2>1, <3>1
      <4>2. TypeOK'
        BY <2>0, <2>1, <4>1, LeaveType DEF Typed, TypeOK
      <4>3. Held'
        BY <2>1, <4>1, LeaveHeld
      <4>4. QED
        BY <4>2, <4>3 DEF Typed
    <3>2. CASE AfterAttempt(c, rows[i].status) # "idle"
      <4> DEFINE l == AfterAttempt(c, rows[i].status)
      <4>1. /\ c \in Readers /\ l \in {"link", "failStage"}
            /\ l = "link" => rows[i].status \in Served
        BY <3>2 DEF AfterAttempt, Callers
      <4> HIDE DEF l
      <4>2. /\ Goto(c, l) /\ mine' = [mine EXCEPT ![c] = i]
            /\ verdict' = [verdict EXCEPT ![c] = rows[i].status] /\ UNCHANGED force
        BY <2>1, <3>2 DEF l
      <4>3. TypeOK'
        BY <2>0, <2>1, <3>0, <4>1, <4>2 DEF Goto, Typed, TypeOK, Stages, Locations, StageSteps
      <4>4. Held'
        BY <2>0, <2>1, <3>0, <4>1, <4>2, <4>3 DEF Goto, Typed, TypeOK, Held, StageSteps
      <4>5. QED
        BY <4>3, <4>4 DEF Typed
    <3>3. QED
      BY <3>1, <3>2
  <2>2. CASE /\ rows' = Append(rows, [status |-> "running", forced |-> force[c]])
             /\ \/ /\ Goto(c, "call")
                   /\ mine' = [mine EXCEPT ![c] = Len(rows) + 1]
                   /\ UNCHANGED <<force, verdict, used>>
                \/ Unacknowledged(c)
    <3>0. force[c] \in BOOLEAN
      BY DEF Typed, TypeOK
    <3>1. Inserted(force[c])
      BY <1>0, <2>2, <3>0, InsertedRow
    <3>2. DOMAIN rows \subseteq DOMAIN rows' /\ Len(rows) + 1 \in DOMAIN rows'
      BY <3>1 DEF Inserted
    <3>3. CASE Unacknowledged(c)
      <4>1. Leave(c) /\ used' \in [Kinds -> Nat]
        BY <3>3, Spent DEF Unacknowledged, Typed
      <4>2. called' \subseteq DOMAIN rows' /\ rows' \in Seq(Attempt)
        BY <2>0, <3>1, <3>2 DEF Inserted, Typed, TypeOK
      <4>3. TypeOK'
        BY <2>0, <4>1, <4>2, LeaveType DEF Typed, TypeOK
      <4>4. Held'
        BY <3>2, <4>1, LeaveHeld
      <4>5. QED
        BY <4>3, <4>4 DEF Typed
    <3>4. CASE /\ Goto(c, "call")
               /\ mine' = [mine EXCEPT ![c] = Len(rows) + 1]
               /\ UNCHANGED <<force, verdict, used>>
      <4>1. TypeOK'
        BY <1>0, <2>0, <3>1, <3>2, <3>4
           DEF Goto, Typed, TypeOK, Inserted, Locations, AttemptSteps
      <4>2. Held'
        BY <2>0, <3>2, <3>4, <4>1 DEF Goto, Typed, TypeOK, Held, StageSteps
      <4>3. QED
        BY <4>1, <4>2 DEF Typed
    <3>5. QED
      BY <2>2, <3>3, <3>4
  <2>3. QED
    BY <1>8, <2>1, <2>2 DEF Claim
<1>9. ASSUME NEW c \in Callers, Call(c) PROVE Typed'
  <2>1. mine[c] \in DOMAIN rows
    BY <1>9 DEF Call, Typed, Held
  <2>2. TypeOK'
    BY <1>9, <2>1 DEF Call, Goto, Typed, TypeOK, Locations, AttemptSteps, Served, Stages,
       Statuses
  <2>3. Held'
    BY <1>9, <2>2 DEF Call, Goto, Typed, TypeOK, Held, StageSteps
  <2>4. QED
    BY <2>2, <2>3 DEF Typed
<1>10. ASSUME NEW c \in Callers, End(c) PROVE Typed'
  <2>1. mine[c] \in DOMAIN rows /\ verdict[c] \in Served \cup {"failed"}
        /\ stage' = stage /\ link' = link /\ called' = called
    BY <1>10 DEF End, Typed, Held
  <2>2. rows' \in Seq(Attempt) /\ DOMAIN rows' = DOMAIN rows
    BY <1>0, <1>10, <2>1, EndedRow DEF End, Statuses
  <2>3. CASE Leave(c) /\ used' \in [Kinds -> Nat]
    <3>1. TypeOK'
      BY <2>1, <2>2, <2>3, LeaveType DEF Typed, TypeOK
    <3>2. Held'
      BY <2>2, <2>3, LeaveHeld
    <3>3. QED
      BY <3>1, <3>2 DEF Typed
  <2>4. CASE c \notin Commands /\ UNCHANGED used /\ GoOn(c, AfterAttempt(c, verdict[c]))
    <3> DEFINE l == AfterAttempt(c, verdict[c])
    <3>1. /\ c \in Readers /\ l \in {"link", "failStage"} /\ l \in Locations
          /\ l = "link" => verdict[c] \in Served
      BY <2>1, <2>4 DEF AfterAttempt, Callers, Served, Locations, StageSteps
    <3>2. GoOn(c, l)
      BY <2>4
    <3> HIDE DEF l
    <3>3. TypeOK'
      BY <2>1, <2>2, <2>4, <3>1, <3>2, GoOnType DEF Typed, TypeOK
    <3>4. Held'
      BY <2>1, <2>2, <3>1, <3>2, GoOnType DEF Typed, Held, StageSteps
    <3>5. QED
      BY <3>3, <3>4 DEF Typed
  <2>5. QED
    BY <1>10, <2>3, <2>4, Spent DEF End, Unacknowledged, Typed, TypeOK
<1>11. ASSUME NEW c \in Callers, CallFails(c) PROVE Typed'
  <2>1. used' \in [Kinds -> Nat] /\ stage' = stage /\ link' = link /\ rows' = rows
    BY <1>11, Spent DEF CallFails, Typed
  <2>2. called' \subseteq DOMAIN rows
    BY <1>11 DEF CallFails, Typed, TypeOK, Held
  <2>3. "failStage" \in Locations
    BY DEF Locations, StageSteps
  <2>4. (GoOn(c, "failStage") /\ c \in Readers) \/ Leave(c)
    BY <1>11 DEF CallFails
  <2>5. TypeOK'
    BY <2>1, <2>2, <2>3, <2>4, LeaveType, GoOnType DEF Typed, TypeOK
  <2>6. Held'
    <3>1. CASE Leave(c)
      BY <2>1, <3>1, LeaveType DEF Typed, Held, StageSteps
    <3>2. CASE GoOn(c, "failStage") /\ c \in Readers
      BY <2>1, <3>2, MovedHeld
    <3>3. QED
      BY <2>4, <3>1, <3>2
  <2>7. QED
    BY <2>5, <2>6 DEF Typed
<1>12. ASSUME NEW c \in Callers, Crash(c) PROVE Typed'
  <2>1. used' \in [Kinds -> Nat] /\ stage' = stage /\ link' = link /\ rows' = rows /\ Leave(c)
    BY <1>12, Spent DEF Crash, Typed
  <2>2. called' \subseteq DOMAIN rows
    BY <1>12 DEF Crash, Typed, TypeOK, Held
  <2>3. TypeOK'
    BY <2>1, <2>2, LeaveType DEF Typed, TypeOK
  <2>4. Held'
    BY <2>1, LeaveType DEF Typed, Held, StageSteps
  <2>5. QED
    BY <2>3, <2>4 DEF Typed
<1>13. CASE UNCHANGED vars
  BY <1>13 DEF vars, attempts, Typed, TypeOK, Held
<1>14. QED
  BY <1>1, <1>2, <1>3, <1>4, <1>5, <1>6, <1>7, <1>8, <1>9, <1>10, <1>11, <1>12, <1>13 DEF Next

\* Every variable keeps its type: the row that a caller is at work on exists,
\* and what it is about to write is a status.
THEOREM ResearchTypeCorrect == Spec => []TypeOK
<1>1. Init => Typed
  BY TypedInit
<1>2. Typed /\ [Next]_vars => Typed'
  BY TypedStep
<1>3. Typed => TypeOK
  BY DEF Typed
<1>4. QED
  BY <1>1, <1>2, <1>3, PTL DEF Spec

-----------------------------------------------------------------------------
(* The attempts: one more row, or the end of one, or nothing.               *)

Inserts(c) ==
    /\ pc[c] = "claim" /\ force[c] \in BOOLEAN /\ (force[c] \/ Ordinary = {})
    /\ Inserted(force[c])

Ends(c) ==
    /\ pc[c] = "end" /\ mine[c] \in DOMAIN rows /\ rows[mine[c]].status = "running"
    /\ verdict[c] \in Served \cup {"failed"}
    /\ rows' \in Seq(Attempt) /\ DOMAIN rows' = DOMAIN rows
    /\ rows'[mine[c]].status = verdict[c]
    /\ \A j \in DOMAIN rows : rows'[j].forced = rows[j].forced
    /\ \A j \in DOMAIN rows : j # mine[c] => rows'[j] = rows[j]

\* The attempts change only by a claim or by an end.
LEMMA RowsStep ==
    ASSUME Typed, [Next]_vars
    PROVE  \/ rows' = rows
           \/ \E c \in Callers : Claim(c) /\ Inserts(c)
           \/ \E c \in Callers : End(c) /\ Ends(c)
<1>0. rows \in Seq(Attempt) /\ DOMAIN rows = 1..Len(rows)
  BY Domains DEF Typed, TypeOK
<1>1. ASSUME NEW c \in Callers, Claim(c) PROVE rows' = rows \/ Inserts(c)
  <2>1. force[c] \in BOOLEAN /\ pc[c] = "claim"
    BY <1>1 DEF Claim, Typed, TypeOK
  <2>2. CASE /\ force[c] \/ Ordinary = {}
             /\ rows' = Append(rows, [status |-> "running", forced |-> force[c]])
    BY <1>0, <2>1, <2>2, InsertedRow DEF Inserts
  <2>3. QED
    BY <1>1, <2>2 DEF Claim
<1>2. ASSUME NEW c \in Callers, End(c) PROVE Ends(c)
  <2>1. mine[c] \in DOMAIN rows /\ verdict[c] \in Served \cup {"failed"} /\ pc[c] = "end"
    BY <1>2 DEF End, Typed, Held
  <2>2. rows[mine[c]].status = "running" /\ rows' = [rows EXCEPT ![mine[c]].status = verdict[c]]
    BY <1>2 DEF End
  <2>3. verdict[c] \in Statuses
    BY <2>1 DEF Statuses
  <2>4. QED
    BY <1>0, <2>1, <2>2, <2>3, EndedRow DEF Ends
<1>3. ASSUME NEW c \in Callers, CallFails(c) \/ Crash(c) \/ Call(c) PROVE rows' = rows
  BY <1>3 DEF CallFails, Crash, Call
<1>4. ASSUME NEW c \in Readers,
             Refused(c) \/ ReadStage(c) \/ Lookup(c) \/ Mark(c) \/ Link(c) \/ FailStage(c)
      PROVE rows' = rows
  BY <1>4 DEF Refused, ReadStage, Lookup, Mark, Link, FailStage, vars, attempts
<1>5. ASSUME NEW c \in Commands, Command(c) PROVE rows' = rows
  BY <1>5 DEF Command, attempts
<1>6. CASE UNCHANGED vars
  BY <1>6 DEF vars, attempts
<1>7. QED
  BY <1>1, <1>2, <1>3, <1>4, <1>5, <1>6 DEF Next

\* What has ended stays as it is, and no attempt changes its kind.
LEMMA RowsKept ==
    ASSUME Typed, [Next]_vars
    PROVE  /\ DOMAIN rows \subseteq DOMAIN rows'
           /\ \A i \in DOMAIN rows : /\ rows'[i].forced = rows[i].forced
                                     /\ rows[i].status # "running" => rows'[i] = rows[i]
<1>1. ASSUME NEW c \in Callers, Inserts(c)
      PROVE DOMAIN rows \subseteq DOMAIN rows' /\ \A i \in DOMAIN rows : rows'[i] = rows[i]
  BY <1>1 DEF Inserts, Inserted
<1>2. ASSUME NEW c \in Callers, Ends(c)
      PROVE  /\ DOMAIN rows \subseteq DOMAIN rows'
             /\ \A i \in DOMAIN rows : /\ rows'[i].forced = rows[i].forced
                                       /\ rows[i].status # "running" => rows'[i] = rows[i]
  BY <1>2 DEF Ends
<1>3. QED
  BY <1>1, <1>2, RowsStep

-----------------------------------------------------------------------------
(* One ordinary attempt.                                                    *)

OneOrdinary == \A i, j \in DOMAIN rows : ~rows[i].forced /\ ~rows[j].forced => i = j

\* No step makes a second ordinary attempt: the unique key refuses it.
LEMMA OneOrdinaryStep == ASSUME Typed, OneOrdinary, [Next]_vars PROVE OneOrdinary'
<1>1. CASE rows' = rows
  BY <1>1 DEF OneOrdinary
<1>2. ASSUME NEW c \in Callers, Inserts(c) PROVE OneOrdinary'
  <2>1. CASE force[c]
    <3>1. \A i \in DOMAIN rows' : ~rows'[i].forced => i \in DOMAIN rows /\ ~rows[i].forced
      BY <1>2, <2>1 DEF Inserts, Inserted
    <3>2. QED
      BY <3>1 DEF OneOrdinary
  <2>2. CASE Ordinary = {}
    <3>1. \A i \in DOMAIN rows' : ~rows'[i].forced => i = Len(rows) + 1
      BY <1>2, <2>2 DEF Inserts, Inserted, Ordinary
    <3>2. QED
      BY <3>1 DEF OneOrdinary
  <2>3. QED
    BY <1>2, <2>1, <2>2 DEF Inserts
<1>3. ASSUME NEW c \in Callers, Ends(c) PROVE OneOrdinary'
  BY <1>3 DEF Ends, OneOrdinary
<1>4. QED
  BY <1>1, <1>2, <1>3, RowsStep

OnceInv == Typed /\ OneOrdinary

\* At most one ordinary paid call is made for the candidate, for any number of
\* readers and commands and whatever fails: a second claim finds the row.
THEOREM ResearchOrdinaryOnce == Spec => []OrdinaryCallOnce
<1>1. Init => OnceInv
  BY TypedInit DEF OnceInv, OneOrdinary, Init
<1>2. OnceInv /\ [Next]_vars => OnceInv'
  BY TypedStep, OneOrdinaryStep DEF OnceInv
<1>3. OnceInv => OrdinaryCallOnce
  BY DEF OnceInv, OneOrdinary, OrdinaryCallOnce, Typed, TypeOK
<1>4. QED
  BY <1>1, <1>2, <1>3, PTL DEF Spec

-----------------------------------------------------------------------------
(* The stage and the attempt it names.                                      *)

\* A request that found the stage done, and the stage itself, have an attempt
\* that ended so.
Known == \A c \in Callers : pc[c] = "lookup" => \E i \in DOMAIN rows : rows[i].status = verdict[c]

BackedInv == Typed /\ StageIsBacked /\ Known

\* The statuses that serve a result are none of the others.
LEMMA ServedNotRunning ==
    /\ "running" \notin Served /\ "pending" \notin Served /\ "failed" \notin Served
BY DEF Served

\* A stage gets a link only to an attempt that ended with the status it is given.
LEMMA LinkBy ==
    ASSUME Typed, NEW c \in Readers, Link(c)
    PROVE  \/ /\ mine[c] \in DOMAIN rows /\ rows[mine[c]].status = verdict[c]
              /\ verdict[c] \in Served /\ stage' = verdict[c] /\ link' = mine[c]
           \/ stage' = stage /\ link' = link
BY DEF Link, Typed, Held, Callers

\* How the stage and its link change.
LEMMA StageStep ==
    ASSUME Typed, [Next]_vars
    PROVE  \/ stage' = stage /\ link' = link
           \/ stage' \in {"running", "failed"} /\ link' = 0
           \/ /\ stage' \in Served /\ link' \in DOMAIN rows /\ rows[link'].status = stage'
<1>1. ASSUME NEW c \in Readers, Mark(c) \/ FailStage(c)
      PROVE stage' \in {"running", "failed"} /\ link' = 0
  BY <1>1 DEF Mark, FailStage
<1>2. ASSUME NEW c \in Readers, Link(c)
      PROVE  \/ stage' = stage /\ link' = link
             \/ /\ stage' \in Served /\ link' \in DOMAIN rows /\ rows[link'].status = stage'
  BY <1>2, LinkBy
<1>3. ASSUME NEW c \in Readers, Refused(c) \/ ReadStage(c) \/ Lookup(c)
      PROVE stage' = stage /\ link' = link
  BY <1>3 DEF Refused, ReadStage, Lookup, vars
<1>4. ASSUME NEW c \in Commands, Command(c) PROVE stage' = stage /\ link' = link
  BY <1>4 DEF Command
<1>5. ASSUME NEW c \in Callers, Claim(c) \/ Call(c) \/ End(c) \/ CallFails(c) \/ Crash(c)
      PROVE stage' = stage /\ link' = link
  BY <1>5 DEF Claim, Call, End, CallFails, Crash
<1>6. CASE UNCHANGED vars
  BY <1>6 DEF vars
<1>7. QED
  BY <1>1, <1>2, <1>3, <1>4, <1>5, <1>6 DEF Next

\* No step leaves a served stage without the attempt it links.
LEMMA BackedStep == ASSUME BackedInv, [Next]_vars PROVE StageIsBacked'
<1> USE DEF BackedInv
<1>1. \A i \in DOMAIN rows : rows[i].status \in Served =>
          i \in DOMAIN rows' /\ rows'[i].status = rows[i].status
  BY RowsKept, ServedNotRunning
<1>2. CASE stage' = stage /\ link' = link
  BY <1>1, <1>2 DEF StageIsBacked
<1>3. CASE stage' \in {"running", "failed"} /\ link' = 0
  BY <1>3, ServedNotRunning DEF StageIsBacked
<1>4. CASE stage' \in Served /\ link' \in DOMAIN rows /\ rows[link'].status = stage'
  BY <1>1, <1>4 DEF StageIsBacked
<1>5. QED
  BY <1>2, <1>3, <1>4, StageStep

\* Who is at the lookup just read the stage, or was there before.
LEMMA LookupFrom ==
    ASSUME Typed, [Next]_vars, NEW d \in Callers, pc'[d] = "lookup"
    PROVE  \/ pc[d] = "lookup" /\ verdict'[d] = verdict[d]
           \/ stage \in Served /\ verdict'[d] = stage
<1> USE DEF Typed, TypeOK
<1> \A c \in Readers : c \in Callers
  BY DEF Callers
<1> \A c \in Commands : c \in Callers
  BY DEF Callers
<1>1. ASSUME NEW c \in Readers, ReadStage(c)
      PROVE  \/ pc[d] = "lookup" /\ verdict'[d] = verdict[d]
             \/ stage \in Served /\ verdict'[d] = stage
  BY <1>1 DEF ReadStage, Goto
<1>2. ASSUME NEW c \in Callers, Leave(c) PROVE pc[d] = "lookup" /\ verdict'[d] = verdict[d]
  BY <1>2, LeaveType
<1>3. ASSUME NEW c \in Callers, NEW l \in Locations, l # "lookup", GoOn(c, l)
      PROVE pc[d] = "lookup" /\ verdict'[d] = verdict[d]
  BY <1>3, GoOnType
<1>4. {"claim", "link", "failStage", "call", "end"} \subseteq Locations
  BY DEF Locations, AttemptSteps, StageSteps
<1>5. ASSUME NEW c \in Readers, Refused(c) PROVE pc[d] = "lookup" /\ verdict'[d] = verdict[d]
  BY <1>5 DEF Refused, vars
<1>6. ASSUME NEW c \in Readers, Lookup(c) \/ Link(c) \/ FailStage(c)
      PROVE pc[d] = "lookup" /\ verdict'[d] = verdict[d]
  BY <1>2, <1>6 DEF Lookup, Link, FailStage, Acknowledged, Unacknowledged
<1>7. ASSUME NEW c \in Readers, Mark(c) PROVE pc[d] = "lookup" /\ verdict'[d] = verdict[d]
  BY <1>2, <1>3, <1>4, <1>7 DEF Mark, Acknowledged, Unacknowledged
<1>8. ASSUME NEW c \in Commands, Command(c) PROVE pc[d] = "lookup" /\ verdict'[d] = verdict[d]
  BY <1>8 DEF Command, Goto
<1>9. ASSUME NEW c \in Callers, Claim(c) PROVE pc[d] = "lookup" /\ verdict'[d] = verdict[d]
  <2>1. ASSUME NEW s PROVE AfterAttempt(c, s) \in {"idle", "link", "failStage"}
    BY DEF AfterAttempt
  <2>2. ASSUME NEW i \in Ordinary, Goto(c, AfterAttempt(c, rows[i].status)),
               verdict' = [verdict EXCEPT ![c] = rows[i].status]
        PROVE pc[d] = "lookup" /\ verdict'[d] = verdict[d]
    <3> DEFINE l == AfterAttempt(c, rows[i].status)
    <3>1. l # "lookup" /\ Goto(c, l)
      BY <2>1, <2>2
    <3> HIDE DEF l
    <3>2. d # c
      BY <3>1 DEF Goto
    <3>3. QED
      BY <2>2, <3>1, <3>2 DEF Goto
  <2>3. CASE Goto(c, "call") /\ UNCHANGED verdict
    BY <2>3 DEF Goto
  <2>4. QED
    BY <1>2, <1>9, <2>2, <2>3 DEF Claim, Unacknowledged
<1>10. ASSUME NEW c \in Callers, Call(c) PROVE pc[d] = "lookup" /\ verdict'[d] = verdict[d]
  BY <1>10 DEF Call, Goto
<1>11. ASSUME NEW c \in Callers, End(c) PROVE pc[d] = "lookup" /\ verdict'[d] = verdict[d]
  <2>1. CASE GoOn(c, AfterAttempt(c, verdict[c])) /\ c \notin Commands
    <3> DEFINE l == AfterAttempt(c, verdict[c])
    <3>1. l \in {"link", "failStage", "idle"} /\ GoOn(c, l)
      BY <2>1 DEF AfterAttempt
    <3>2. l \in Locations /\ l # "lookup"
      BY <3>1 DEF Locations, StageSteps
    <3> HIDE DEF l
    <3>3. QED
      BY <1>3, <3>1, <3>2
  <2>2. QED
    BY <1>2, <1>11, <2>1 DEF End, Unacknowledged
<1>12. ASSUME NEW c \in Callers, CallFails(c) \/ Crash(c)
       PROVE pc[d] = "lookup" /\ verdict'[d] = verdict[d]
  BY <1>2, <1>3, <1>4, <1>12 DEF CallFails, Crash
<1>13. CASE UNCHANGED vars
  BY <1>13 DEF vars
<1>14. QED
  BY <1>1, <1>5, <1>6, <1>7, <1>8, <1>9, <1>10, <1>11, <1>12, <1>13 DEF Next

\* What a request read of a served stage stays backed by an attempt.
LEMMA KnownStep == ASSUME BackedInv, [Next]_vars PROVE Known'
<1> USE DEF BackedInv
<1>1. ASSUME NEW d \in Callers, pc'[d] = "lookup"
      PROVE  \E i \in DOMAIN rows' : rows'[i].status = verdict'[d]
  <2>1. PICK i \in DOMAIN rows : rows[i].status \in Served /\ verdict'[d] = rows[i].status
    <3>1. CASE pc[d] = "lookup" /\ verdict'[d] = verdict[d]
      BY <3>1 DEF Known, Typed, Held
    <3>2. CASE stage \in Served /\ verdict'[d] = stage
      BY <3>2 DEF StageIsBacked
    <3>3. QED
      BY <1>1, <3>1, <3>2, LookupFrom
  <2>2. i \in DOMAIN rows' /\ rows'[i] = rows[i]
    BY <2>1, RowsKept, ServedNotRunning
  <2>3. QED
    BY <2>1, <2>2
<1>2. QED
  BY <1>1 DEF Known

\* With one artifact there is one to be the newest.
LEMMA FoundIsIt ==
    ASSUME rows \in Seq(Attempt), NEW i \in ServedRows, Cardinality(ServedRows) < 2
    PROVE  LatestServed = i
<1>1. IsFiniteSet(ServedRows)
  <2>1. ServedRows \subseteq 1..Len(rows) /\ Len(rows) \in Nat
    BY Domains DEF ServedRows
  <2>2. IsFiniteSet(1..Len(rows))
    BY <2>1, FS_Interval
  <2>3. QED
    BY <2>1, <2>2, FS_Subset
<1>2. ASSUME NEW j \in ServedRows, j # i PROVE FALSE
  <2>1. IsFiniteSet({i, j}) /\ Cardinality({i, j}) = 2
    <3>1. IsFiniteSet({i}) /\ Cardinality({i}) = 1
      BY FS_Singleton
    <3>2. {i, j} = {i} \cup {j} /\ j \notin {i}
      BY <1>2
    <3>3. IsFiniteSet({i} \cup {j}) /\ Cardinality({i} \cup {j}) = Cardinality({i}) + 1
      BY <3>1, <3>2, FS_AddElement
    <3>4. Cardinality({i} \cup {j}) = 1 + 1
      BY <3>1, <3>3
    <3>5. {i, j} = {i} \cup {j} /\ 1 + 1 = 2
      BY <3>2
    <3>6. QED
      BY <3>3, <3>4, <3>5
  <2>2. {i, j} \subseteq ServedRows
    BY <1>2
  <2>3. Cardinality({i, j}) <= Cardinality(ServedRows)
    BY <1>1, <2>2, FS_Subset
  <2>4. Cardinality(ServedRows) \in Nat
    BY <1>1, FS_CardinalityType
  <2>5. QED
    BY <2>1, <2>3, <2>4
<1>3. ServedRows = {i}
  BY <1>2
<1>4. i \in Nat
  BY Domains DEF ServedRows
<1>5. QED
  BY <1>3, <1>4 DEF LatestServed

\* The invariant gives the property: a served stage is backed and found.
LEMMA FoundFromInv == BackedInv => StageIsTrue
<1> SUFFICES ASSUME BackedInv PROVE ServedIsFound
  BY DEF BackedInv, StageIsTrue
<1>1. ASSUME NEW c \in Readers, pc[c] = "lookup", Cardinality(ServedRows) < 2
      PROVE ServedRows # {} /\ rows[LatestServed].status = verdict[c]
  <2>1. c \in Callers
    BY DEF Callers
  <2>2. PICK i \in DOMAIN rows : rows[i].status = verdict[c]
    BY <1>1, <2>1 DEF BackedInv, Known
  <2>3. verdict[c] \in Served
    BY <1>1, <2>1 DEF BackedInv, Typed, Held
  <2>4. i \in ServedRows
    BY <2>2, <2>3 DEF ServedRows
  <2>5. LatestServed = i
    BY <1>1, <2>4, FoundIsIt DEF BackedInv, Typed, TypeOK
  <2>6. QED
    BY <2>2, <2>4, <2>5
<1>2. QED
  BY <1>1 DEF ServedIsFound

\* What the stage says is there: a stage that is done names an attempt that ended
\* so, and a request that reads it finds that attempt as long as forced attempts
\* gave no second result.
THEOREM ResearchStageIsTrue == Spec => []StageIsTrue
<1>1. Init => BackedInv
  BY TypedInit, ServedNotRunning DEF BackedInv, Init, StageIsBacked, Known
<1>2. BackedInv /\ [Next]_vars => BackedInv'
  BY TypedStep, BackedStep, KnownStep DEF BackedInv
<1>3. QED
  BY <1>1, <1>2, FoundFromInv, PTL DEF Spec

-----------------------------------------------------------------------------
(* A stage that stays running.                                              *)

Undisturbed ==
    used["crash"] = 0 /\ used["error"] = 0 /\ used["uncertain"] = 0 /\ used["command"] = 0

\* Without faults and commands, a reader is at work on a running stage, and one
\* has each running attempt in its hands.
Attended ==
    Undisturbed =>
        /\ \A c \in Commands : pc[c] = "idle"
        /\ stage = "running" => \E c \in Readers : pc[c] \in Working
        /\ \A i \in DOMAIN rows : rows[i].status = "running" =>
               \E c \in Readers : pc[c] \in {"call", "end"} /\ mine[c] = i
        /\ \A c \in Readers : pc[c] = "link" => rows[mine[c]].status = verdict[c]

AttendedInv == Typed /\ Attended

\* Events are never taken back, so an undisturbed state had undisturbed predecessors.
LEMMA UsedGrows ==
    ASSUME Typed, [Next]_vars
    PROVE  Undisturbed' => Undisturbed
<1> USE DEF Typed, TypeOK, Undisturbed, Kinds
<1>1. ASSUME NEW kind \in Kinds, Spend(kind) PROVE Undisturbed' => Undisturbed
  BY <1>1 DEF Spend
<1>2. ASSUME UNCHANGED used PROVE Undisturbed' => Undisturbed
  BY <1>2
<1>3. ASSUME NEW c \in Readers,
             Refused(c) \/ ReadStage(c) \/ Lookup(c) \/ Mark(c) \/ Link(c) \/ FailStage(c)
      PROVE Undisturbed' => Undisturbed
  <2>1. UNCHANGED used \/ Spend("request") \/ Spend("uncertain")
    BY <1>3 DEF Refused, ReadStage, Lookup, Mark, Link, FailStage, Acknowledged,
       Unacknowledged, vars
  <2>2. QED
    BY <1>1, <1>2, <2>1
<1>4. ASSUME NEW c \in Commands, Command(c) PROVE Undisturbed' => Undisturbed
  BY <1>1, <1>4 DEF Command
<1>5. ASSUME NEW c \in Callers, Claim(c) \/ Call(c) \/ End(c) \/ CallFails(c) \/ Crash(c)
      PROVE Undisturbed' => Undisturbed
  <2>1. UNCHANGED used \/ Spend("error") \/ Spend("crash") \/ Spend("uncertain")
    BY <1>5 DEF Claim, Call, End, CallFails, Crash, Unacknowledged
  <2>2. QED
    BY <1>1, <1>2, <2>1
<1>6. CASE UNCHANGED vars
  BY <1>2, <1>6 DEF vars
<1>7. QED
  BY <1>3, <1>4, <1>5, <1>6 DEF Next

\* A fault, or a command, ends the undisturbed part of a behaviour.
LEMMA FaultDisturbs ==
    ASSUME Typed, NEW kind \in {"crash", "error", "uncertain", "command"}, Spend(kind)
    PROVE  ~Undisturbed'
BY DEF Spend, Undisturbed, Typed, TypeOK, Kinds

\* A reader that does not leave while the stage is running and whose step leaves the
\* rows alone keeps what Attended says.
LEMMA AttendedStep == ASSUME AttendedInv, [Next]_vars PROVE Attended'
<1> SUFFICES ASSUME Undisturbed' PROVE Attended'
  BY DEF Attended
<1>0. Typed /\ Undisturbed
  BY UsedGrows DEF AttendedInv
<1>1. /\ \A c \in Commands : pc[c] = "idle"
      /\ stage = "running" => \E c \in Readers : pc[c] \in Working
      /\ \A i \in DOMAIN rows : rows[i].status = "running" =>
             \E c \in Readers : pc[c] \in {"call", "end"} /\ mine[c] = i
      /\ \A c \in Readers : pc[c] = "link" => rows[mine[c]].status = verdict[c]
  BY <1>0 DEF AttendedInv, Attended
<1>2. pc \in [Callers -> Locations] /\ mine \in [Callers -> Nat]
      /\ verdict \in [Callers -> Stages \cup {"none"}]
  BY <1>0 DEF Typed, TypeOK
<1>3. ~Spend("crash") /\ ~Spend("error") /\ ~Spend("uncertain") /\ ~Spend("command")
  BY <1>0, FaultDisturbs
<1>4. Readers \subseteq Callers /\ Commands \subseteq Callers
      /\ \A c \in Readers : c \notin Commands
  BY CallerAssumption DEF Callers
<1>5. \A c \in Readers : /\ pc[c] \in {"call", "end", "link"} => mine[c] \in DOMAIN rows
                         /\ pc[c] = "link" => verdict[c] \in Served
                         /\ pc[c] = "end" => verdict[c] \in Served \cup {"failed"}
  BY <1>0, <1>4 DEF Typed, Held
<1>6. \A i \in DOMAIN rows : rows[i].status # "running" => i \in DOMAIN rows' /\ rows'[i] = rows[i]
  BY <1>0, RowsKept
<1> USE DEF Attended, Working, AttemptSteps
<1>7. ASSUME NEW c \in Readers, Refused(c) PROVE Attended'
  BY <1>1, <1>7 DEF Refused, vars, attempts
<1>8. ASSUME NEW c \in Readers, ReadStage(c) PROVE Attended'
  <2>1. /\ rows' = rows /\ stage' = stage /\ mine' = mine /\ pc[c] = "idle"
        /\ pc'[c] \in {"lookup", "mark"}
        /\ \A d \in Callers : d # c => pc'[d] = pc[d] /\ verdict'[d] = verdict[d]
    BY <1>2, <1>4, <1>8 DEF ReadStage, Goto, attempts
  <2>2. QED
    BY <1>1, <1>4, <2>1
<1>9. ASSUME NEW c \in Readers, Lookup(c) PROVE Attended'
  <2>1. /\ rows' = rows /\ stage' = stage /\ pc[c] = "lookup" /\ pc'[c] = "idle"
        /\ \A d \in Callers : d # c => pc'[d] = pc[d] /\ verdict'[d] = verdict[d]
                                       /\ mine'[d] = mine[d]
    BY <1>0, <1>4, <1>9, LeaveType DEF Lookup, attempts
  <2>2. QED
    BY <1>1, <1>4, <2>1
<1>10. ASSUME NEW c \in Readers, Mark(c) PROVE Attended'
  <2>0. "claim" \in Locations
    BY DEF Locations
  <2>1. /\ rows' = rows /\ pc[c] = "mark" /\ pc'[c] = "claim" /\ mine' = mine
        /\ verdict' = verdict /\ \A d \in Callers : d # c => pc'[d] = pc[d]
    BY <1>0, <1>3, <1>4, <1>10, <2>0, GoOnType DEF Mark, Acknowledged, Unacknowledged, attempts
  <2>2. QED
    BY <1>1, <1>4, <2>1
<1>11. ASSUME NEW c \in Readers, Link(c) PROVE Attended'
  <2>1. pc[c] = "link" /\ rows[mine[c]].status = verdict[c] /\ verdict[c] \in Served
    BY <1>1, <1>5, <1>11 DEF Link
  <2>2. rows' = rows /\ stage' = verdict[c] /\ Leave(c)
    BY <1>3, <1>11, <2>1 DEF Link, Acknowledged, Unacknowledged, attempts
  <2>3. /\ pc'[c] = "idle"
        /\ \A d \in Callers : d # c => pc'[d] = pc[d] /\ verdict'[d] = verdict[d]
                                       /\ mine'[d] = mine[d]
    BY <1>0, <1>4, <2>2, LeaveType
  <2>4. stage' # "running"
    BY <2>1, <2>2, ServedNotRunning
  <2>5. QED
    BY <1>1, <1>4, <2>1, <2>2, <2>3, <2>4
<1>12. ASSUME NEW c \in Readers, FailStage(c) PROVE Attended'
  <2>1. pc[c] = "failStage" /\ rows' = rows /\ stage' = "failed" /\ Leave(c)
    BY <1>3, <1>12 DEF FailStage, Acknowledged, Unacknowledged, attempts
  <2>2. /\ pc'[c] = "idle"
        /\ \A d \in Callers : d # c => pc'[d] = pc[d] /\ verdict'[d] = verdict[d]
                                       /\ mine'[d] = mine[d]
    BY <1>0, <1>4, <2>1, LeaveType
  <2>3. QED
    BY <1>1, <1>4, <2>1, <2>2
<1>13. ASSUME NEW c \in Commands, Command(c) PROVE Attended'
  BY <1>3, <1>13 DEF Command
<1>14. ASSUME NEW c \in Callers, Claim(c) PROVE Attended'
  <2>0. c \in Readers /\ pc[c] = "claim" /\ stage' = stage
    BY <1>1, <1>14 DEF Callers, Claim
  <2>1. ASSUME NEW i \in Ordinary, rows' = rows,
               AfterAttempt(c, rows[i].status) = "idle", Leave(c)
        PROVE Attended'
    <3>1. /\ pc'[c] = "idle"
          /\ \A d \in Callers : d # c => pc'[d] = pc[d] /\ verdict'[d] = verdict[d]
                                         /\ mine'[d] = mine[d]
      BY <1>0, <1>4, <2>1, LeaveType
    <3>2. i \in DOMAIN rows /\ rows[i].status = "running"
      BY <1>4, <2>0, <2>1 DEF AfterAttempt, Ordinary
    <3>3. PICK d \in Readers : pc[d] \in {"call", "end"} /\ mine[d] = i
      BY <1>1, <3>2
    <3>4. d # c /\ pc'[d] \in {"call", "end"}
      BY <1>4, <2>0, <3>1, <3>3
    <3>5. QED
      BY <1>1, <1>4, <2>0, <2>1, <3>1, <3>4
  <2>2. ASSUME NEW i \in Ordinary, rows' = rows,
               AfterAttempt(c, rows[i].status) # "idle",
               Goto(c, AfterAttempt(c, rows[i].status)),
               mine' = [mine EXCEPT ![c] = i],
               verdict' = [verdict EXCEPT ![c] = rows[i].status]
        PROVE Attended'
    <3> DEFINE l == AfterAttempt(c, rows[i].status)
    <3>1. l \in {"link", "failStage"} /\ Goto(c, l)
      BY <2>2 DEF AfterAttempt
    <3> HIDE DEF l
    <3>2. /\ pc'[c] = l /\ mine'[c] = i /\ verdict'[c] = rows[i].status
          /\ \A d \in Callers : d # c => pc'[d] = pc[d] /\ verdict'[d] = verdict[d]
                                         /\ mine'[d] = mine[d]
      BY <1>2, <1>4, <2>2, <3>1 DEF Goto
    <3>3. QED
      BY <1>1, <1>4, <2>0, <2>2, <3>1, <3>2
  <2>3. ASSUME Inserted(force[c]), Goto(c, "call"), mine' = [mine EXCEPT ![c] = Len(rows) + 1],
               UNCHANGED verdict
        PROVE Attended'
    <3>1. /\ pc'[c] = "call" /\ mine'[c] = Len(rows) + 1
          /\ \A d \in Callers : d # c => pc'[d] = pc[d] /\ verdict'[d] = verdict[d]
                                         /\ mine'[d] = mine[d]
      BY <1>2, <1>4, <2>3 DEF Goto
    <3>2. /\ \A i \in DOMAIN rows' : i \in DOMAIN rows \/ i = Len(rows) + 1
          /\ \A i \in DOMAIN rows : rows'[i] = rows[i]
      BY <2>3 DEF Inserted
    <3>3. \A i \in DOMAIN rows' : rows'[i].status = "running" =>
              \E d \in Readers : pc'[d] \in {"call", "end"} /\ mine'[d] = i
      <4>1. ASSUME NEW i \in DOMAIN rows, rows'[i].status = "running"
            PROVE \E d \in Readers : pc'[d] \in {"call", "end"} /\ mine'[d] = i
        <5>1. PICK d \in Readers : pc[d] \in {"call", "end"} /\ mine[d] = i
          BY <1>1, <3>2, <4>1
        <5>2. d # c
          BY <2>0, <5>1
        <5>3. QED
          BY <1>4, <3>1, <5>1, <5>2
      <4>2. QED
        BY <2>0, <3>1, <3>2, <4>1
    <3>4. \A d \in Readers : pc'[d] = "link" => rows'[mine'[d]].status = verdict'[d]
      BY <1>1, <1>4, <1>5, <3>1, <3>2
    <3>5. QED
      BY <1>1, <1>4, <2>0, <3>1, <3>3, <3>4
  <2>4. CASE rows' = Append(rows, [status |-> "running", forced |-> force[c]])
    <3>1. force[c] \in BOOLEAN /\ rows \in Seq(Attempt)
      BY <1>0 DEF Typed, TypeOK
    <3>2. Inserted(force[c])
      BY <2>4, <3>1, InsertedRow
    <3>3. rows' # rows
      BY <3>2 DEF Inserted
    <3>4. QED
      BY <1>3, <1>14, <2>3, <3>2, <3>3 DEF Claim, Unacknowledged
  <2>5. QED
    BY <1>14, <2>1, <2>2, <2>4 DEF Claim
<1>15. ASSUME NEW c \in Callers, Call(c) PROVE Attended'
  <2>0. c \in Readers /\ pc[c] = "call" /\ stage' = stage /\ rows' = rows /\ mine' = mine
    BY <1>1, <1>15 DEF Callers, Call
  <2>1. /\ pc'[c] = "end"
        /\ \A d \in Callers : d # c => pc'[d] = pc[d] /\ verdict'[d] = verdict[d]
    BY <1>2, <1>15 DEF Call, Goto
  <2>2. QED
    BY <1>1, <1>4, <2>0, <2>1
<1>16. ASSUME NEW c \in Callers, End(c) PROVE Attended'
  <2>0. c \in Readers /\ pc[c] = "end" /\ stage' = stage
    BY <1>1, <1>16 DEF Callers, End
  <2> DEFINE l == AfterAttempt(c, verdict[c])
  <2>1. /\ l \in {"link", "failStage"} /\ GoOn(c, l) /\ l \in Locations
    BY <1>3, <1>4, <1>5, <1>16, <2>0
       DEF End, Unacknowledged, AfterAttempt, Served, Locations, StageSteps
  <2> HIDE DEF l
  <2>2. /\ pc'[c] = l /\ mine' = mine /\ verdict' = verdict
        /\ \A d \in Callers : d # c => pc'[d] = pc[d]
    BY <1>0, <2>1, GoOnType
  <2>3. verdict[c] \in Statuses /\ mine[c] \in DOMAIN rows /\ verdict[c] # "running"
    BY <1>5, <2>0, ServedNotRunning DEF Statuses
  <2>4. rows' = [rows EXCEPT ![mine[c]].status = verdict[c]] /\ rows \in Seq(Attempt)
    BY <1>0, <1>16 DEF End, Typed, TypeOK
  <2>5. /\ DOMAIN rows' = DOMAIN rows /\ rows'[mine[c]].status = verdict[c]
        /\ \A j \in DOMAIN rows : j # mine[c] => rows'[j] = rows[j]
    BY <2>3, <2>4, EndedRow
  <2>6. \A i \in DOMAIN rows' : rows'[i].status = "running" =>
            \E d \in Readers : pc'[d] \in {"call", "end"} /\ mine'[d] = i
    <3>1. ASSUME NEW i \in DOMAIN rows, rows'[i].status = "running"
          PROVE \E d \in Readers : pc'[d] \in {"call", "end"} /\ mine'[d] = i
      <4>1. i # mine[c] /\ rows[i].status = "running"
        BY <2>3, <2>5, <3>1
      <4>2. PICK d \in Readers : pc[d] \in {"call", "end"} /\ mine[d] = i
        BY <1>1, <4>1
      <4>3. QED
        BY <1>4, <2>2, <4>1, <4>2
    <3>2. QED
      BY <2>5, <3>1
  <2>7. \A d \in Readers : pc'[d] = "link" => rows'[mine'[d]].status = verdict'[d]
    <3>1. ASSUME NEW d \in Readers, d # c, pc[d] = "link"
          PROVE rows'[mine[d]].status = verdict[d]
      BY <1>1, <1>5, <1>6, <3>1, ServedNotRunning
    <3>2. QED
      BY <1>4, <2>2, <2>5, <3>1
  <2>8. stage' = "running" => \E d \in Readers : pc'[d] \in Working
    BY <2>0, <2>1, <2>2
  <2>9. QED
    BY <1>1, <1>4, <2>0, <2>2, <2>6, <2>7, <2>8
<1>17. ASSUME NEW c \in Callers, CallFails(c) \/ Crash(c) PROVE Attended'
  BY <1>3, <1>17 DEF CallFails, Crash
<1>18. CASE UNCHANGED vars
  BY <1>1, <1>18 DEF vars, attempts
<1>19. QED
  BY <1>7, <1>8, <1>9, <1>10, <1>11, <1>12, <1>13, <1>14, <1>15, <1>16, <1>17, <1>18 DEF Next

\* As long as nothing dies, fails or is left unacknowledged and no command takes the
\* attempt, a stage that says running has a request at work on it, so it is not
\* left running: with any number of requests at a time.
THEOREM ResearchStuckOnlyByFault == Spec => []StuckOnlyByFault
<1>1. Init => AttendedInv
  BY TypedInit, ServedNotRunning DEF AttendedInv, Attended, Init, Callers
<1>2. AttendedInv /\ [Next]_vars => AttendedInv'
  BY TypedStep, AttendedStep DEF AttendedInv
<1>3. AttendedInv => StuckOnlyByFault
  <2>1. ASSUME AttendedInv, used["crash"] + used["error"] + used["uncertain"] + used["command"] = 0
        PROVE Undisturbed
    BY <2>1 DEF AttendedInv, Typed, TypeOK, Undisturbed, Kinds
  <2>2. QED
    BY <2>1 DEF AttendedInv, Attended, StuckOnlyByFault
<1>4. QED
  BY <1>1, <1>2, <1>3, PTL DEF Spec

\* What the stage says of the research is so, for any number of requests and commands.
THEOREM ResearchStageCanBeTrusted == Spec => []StageCanBeTrusted
<1>1. StageIsTrue /\ StuckOnlyByFault => StageCanBeTrusted
  BY DEF StageCanBeTrusted
<1>2. QED
  BY <1>1, ResearchStageIsTrue, ResearchStuckOnlyByFault, PTL

-----------------------------------------------------------------------------
(* What is paid was asked for.                                              *)

Budget == used["request"] + used["command"]

\* Who was let in and may still claim an attempt.
Pending == {c \in Callers : pc[c] \in {"mark", "claim"}}

Asked == IsFiniteSet(Pending) /\ Len(rows) + Cardinality(Pending) <= Budget

\* Faults ask for nothing.
LEMMA FaultAsksNothing ==
    ASSUME Typed
    PROVE  \A kind \in {"crash", "error", "uncertain"} : Spend(kind) => Budget' = Budget
BY DEF Typed, TypeOK, Spend, Kinds, Budget

\* A step that asks lets one caller in, one that claims an attempt takes one out, and
\* no other adds to either.
LEMMA AskedBy ==
    ASSUME Typed, [Next]_vars
    PROVE  \/ Len(rows') = Len(rows) /\ Pending' \subseteq Pending /\ Budget' = Budget
           \/ \E c \in Callers : Len(rows') = Len(rows) /\ Pending' \subseteq Pending \cup {c}
                                 /\ Budget' = Budget + 1
           \/ \E c \in Pending : Len(rows') = Len(rows) + 1 /\ Pending' \subseteq Pending \ {c}
                                 /\ Budget' = Budget
<1>0. /\ pc \in [Callers -> Locations] /\ \A i \in DOMAIN rows : rows[i] \in Attempt
      /\ Len(rows) \in Nat
  BY Domains DEF Typed, TypeOK
<1>1. Readers \subseteq Callers /\ Commands \subseteq Callers
  BY DEF Callers
<1>2. UNCHANGED used => Budget' = Budget
  BY DEF Budget
<1>3. \A c \in Callers : /\ Leave(c) => pc'[c] = "idle" /\ Pending' \subseteq Pending \ {c}
                         /\ \A l : Goto(c, l) /\ l \notin {"mark", "claim"}
                               => Pending' \subseteq Pending \ {c}
  BY <1>0 DEF Leave, Goto, Pending
<1>4. \A c \in Callers, l \in {"mark", "claim"} :
          Goto(c, l) => Pending' \subseteq Pending \cup {c}
  BY <1>0 DEF Goto, Pending
<1>5. ASSUME NEW c \in Readers, ReadStage(c) \/ Refused(c)
      PROVE  \/ rows' = rows /\ Pending' \subseteq Pending /\ Budget' = Budget
             \/ rows' = rows /\ Pending' \subseteq Pending \cup {c} /\ Budget' = Budget + 1
  <2>1. CASE Refused(c)
    BY <2>1 DEF Refused, vars, attempts, Pending, Budget
  <2>2. CASE ReadStage(c)
    <3>1. rows' = rows /\ Pending' \subseteq Pending \cup {c}
      BY <1>1, <1>3, <1>4, <2>2 DEF ReadStage, attempts
    <3>2. Budget' = Budget + 1
      BY <2>2 DEF ReadStage, Spend, Budget, Kinds, Typed, TypeOK
    <3>3. QED
      BY <3>1, <3>2
  <2>3. QED
    BY <1>5, <2>1, <2>2
<1>6. ASSUME NEW c \in Commands, Command(c)
      PROVE  rows' = rows /\ Pending' \subseteq Pending \cup {c} /\ Budget' = Budget + 1
  <2>1. rows' = rows /\ Pending' \subseteq Pending \cup {c}
    BY <1>1, <1>4, <1>6 DEF Command, attempts
  <2>2. Budget' = Budget + 1
    BY <1>6 DEF Command, Spend, Budget, Kinds, Typed, TypeOK
  <2>3. QED
    BY <2>1, <2>2
<1>7. ASSUME NEW c \in Readers, Lookup(c) \/ Mark(c) \/ Link(c) \/ FailStage(c)
      PROVE  rows' = rows /\ Pending' \subseteq Pending /\ Budget' = Budget
  <2>1. Budget' = Budget /\ rows' = rows
    BY <1>2, <1>7, FaultAsksNothing
       DEF Lookup, Mark, Link, FailStage, Acknowledged, Unacknowledged, attempts
  <2>2. CASE Leave(c)
    BY <1>1, <1>3, <2>1, <2>2
  <2>3. CASE Mark(c) /\ ~ Leave(c)
    BY <1>0, <1>1, <2>1, <2>3 DEF Mark, Acknowledged, Unacknowledged, GoOn, Goto, Pending
  <2>4. QED
    BY <1>7, <2>2, <2>3 DEF Lookup, Link, FailStage, Acknowledged, Unacknowledged
<1>8. ASSUME NEW c \in Callers, Call(c) \/ End(c) \/ CallFails(c) \/ Crash(c)
      PROVE  Pending' \subseteq Pending /\ Budget' = Budget
  <2>1. Budget' = Budget
    BY <1>2, <1>8, FaultAsksNothing DEF Call, End, CallFails, Crash, Unacknowledged
  <2>2. Leave(c) \/ \E l : Goto(c, l) /\ l \notin {"mark", "claim"}
    BY <1>8 DEF Call, End, CallFails, Crash, Unacknowledged, GoOn, AfterAttempt
  <2>3. QED
    BY <1>3, <2>1, <2>2
<1>9. ASSUME NEW c \in Callers, Claim(c)
      PROVE  c \in Pending /\ Pending' \subseteq Pending \ {c} /\ Budget' = Budget
  <2>1. Budget' = Budget
    BY <1>2, <1>9, FaultAsksNothing DEF Claim, Unacknowledged
  <2>2. Leave(c) \/ \E l : Goto(c, l) /\ l \notin {"mark", "claim"}
    BY <1>9 DEF Claim, Unacknowledged, AfterAttempt
  <2>3. QED
    BY <1>3, <1>9, <2>1, <2>2 DEF Claim, Pending
<1>10. ASSUME NEW c \in Callers, Inserts(c) PROVE Len(rows') = Len(rows) + 1
  BY <1>0, <1>10, LenProperties DEF Inserts, Inserted
<1>11. ASSUME NEW c \in Callers, Ends(c) PROVE Len(rows') = Len(rows)
  BY <1>11, LenProperties DEF Ends, Typed, TypeOK
<1>12. CASE UNCHANGED vars
  BY <1>12 DEF vars, attempts, Pending, Budget
<1>13. ASSUME NEW c \in Callers, Claim(c)
       PROVE  \/ rows' = rows /\ Pending' \subseteq Pending /\ Budget' = Budget
              \/ c \in Pending /\ Len(rows') = Len(rows) + 1 /\ Pending' \subseteq Pending \ {c}
                 /\ Budget' = Budget
  <2>1. CASE rows' = rows
    BY <1>9, <1>13, <2>1
  <2>2. CASE rows' = Append(rows, [status |-> "running", forced |-> force[c]])
             /\ (force[c] \/ Ordinary = {})
    <3>1. Inserts(c)
      BY <1>13, <2>2, InsertedRow DEF Inserts, Claim, Typed, TypeOK
    <3>2. QED
      BY <1>9, <1>10, <1>13, <3>1
  <2>3. QED
    BY <1>13, <2>1, <2>2 DEF Claim
<1>14. ASSUME NEW c \in Callers, Call(c) \/ End(c) \/ CallFails(c) \/ Crash(c)
       PROVE  Len(rows') = Len(rows) /\ Pending' \subseteq Pending /\ Budget' = Budget
  <2>1. CASE End(c)
    <3>1. /\ mine[c] \in DOMAIN rows /\ verdict[c] \in Statuses
          /\ rows' = [rows EXCEPT ![mine[c]].status = verdict[c]]
      BY <2>1 DEF End, Typed, Held, Statuses
    <3>2. rows' \in Seq(Attempt) /\ DOMAIN rows' = DOMAIN rows
      BY <3>1, EndedRow DEF Typed, TypeOK
    <3>3. QED
      BY <1>8, <1>14, <3>2, LenProperties DEF Typed, TypeOK
  <2>2. CASE rows' = rows
    BY <1>8, <1>14, <2>2
  <2>3. QED
    BY <1>14, <2>1, <2>2 DEF Call, CallFails, Crash
<1>15. QED
  BY <1>1, <1>5, <1>6, <1>7, <1>12, <1>13, <1>14 DEF Next

\* There is never more claimed, or about to be, than was asked for.
LEMMA AskedStep == ASSUME Typed, Typed', Asked, [Next]_vars PROVE Asked'
<1>1. /\ Budget \in Nat /\ Budget' \in Nat /\ Len(rows) \in Nat /\ Len(rows') \in Nat
      /\ IsFiniteSet(Pending) /\ Cardinality(Pending) \in Nat
      /\ Len(rows) + Cardinality(Pending) <= Budget
  BY FS_CardinalityType, LenProperties DEF Asked, Typed, TypeOK, Budget, Kinds
<1>2. CASE Len(rows') = Len(rows) /\ Pending' \subseteq Pending /\ Budget' = Budget
  <2>1. IsFiniteSet(Pending') /\ Cardinality(Pending') \in Nat
        /\ Cardinality(Pending') <= Cardinality(Pending)
    BY <1>1, <1>2, FS_Subset, FS_CardinalityType
  <2>2. QED
    BY <1>1, <1>2, <2>1 DEF Asked
<1>3. ASSUME NEW c \in Callers, Len(rows') = Len(rows), Pending' \subseteq Pending \cup {c},
             Budget' = Budget + 1
      PROVE  Asked'
  <2>1. IsFiniteSet(Pending \cup {c}) /\ Cardinality(Pending \cup {c}) \in Nat
        /\ Cardinality(Pending \cup {c}) <= Cardinality(Pending) + 1
    <3>1. /\ IsFiniteSet(Pending \cup {c})
          /\ Cardinality(Pending \cup {c})
                = IF c \in Pending THEN Cardinality(Pending) ELSE Cardinality(Pending) + 1
      BY <1>1, FS_AddElement
    <3>2. QED
      BY <1>1, <3>1
  <2>2. IsFiniteSet(Pending') /\ Cardinality(Pending') \in Nat
        /\ Cardinality(Pending') <= Cardinality(Pending \cup {c})
    BY <1>3, <2>1, FS_Subset, FS_CardinalityType
  <2>3. QED
    BY <1>1, <1>3, <2>1, <2>2 DEF Asked
<1>4. ASSUME NEW c \in Pending, Len(rows') = Len(rows) + 1, Pending' \subseteq Pending \ {c},
             Budget' = Budget
      PROVE  Asked'
  <2>1. IsFiniteSet(Pending \ {c}) /\ Cardinality(Pending \ {c}) = Cardinality(Pending) - 1
    BY <1>1, <1>4, FS_RemoveElement
  <2>2. IsFiniteSet(Pending') /\ Cardinality(Pending') \in Nat
        /\ Cardinality(Pending') <= Cardinality(Pending \ {c})
    BY <1>4, <2>1, FS_Subset, FS_CardinalityType
  <2>3. QED
    BY <1>1, <1>4, <2>1, <2>2 DEF Asked
<1>5. QED
  BY <1>2, <1>3, <1>4, AskedBy

\* An attempt has failed.
SomeFailed == \E i \in DOMAIN rows : rows[i].status = "failed"

\* Somebody knows of a failure: the stage says so, or a caller acts on it.
Asking == stage = "failed" \/ \E c \in Callers : force[c] \/ pc[c] = "failStage"

Unforced == used["command"] = 0 /\ used["error"] = 0

RetriesAfterFailure ==
    \A i \in DOMAIN rows : rows[i].forced => \E j \in 1..(i - 1) : rows[j].status = "failed"

Confirmed == Unforced => /\ \A c \in Commands : pc[c] = "idle"
                         /\ Asking => SomeFailed
                         /\ RetriesAfterFailure

\* Events are never taken back.
LEMMA UnforcedGrows ==
    ASSUME Typed, [Next]_vars, Unforced'
    PROVE  Unforced /\ ~ Spend("error") /\ ~ Spend("command")
<1> USE DEF Typed, TypeOK, Unforced, Kinds
<1>1. ~ Spend("error") /\ ~ Spend("command")
  BY DEF Spend
<1>2. ASSUME NEW kind \in Kinds, Spend(kind) PROVE Unforced
  BY <1>2 DEF Spend
<1>3. UNCHANGED used \/ \E kind \in Kinds : Spend(kind)
  BY DEF Next, Refused, ReadStage, Lookup, Mark, Link, FailStage, Command, Claim, Call, End,
     CallFails, Crash, Acknowledged, Unacknowledged, vars
<1>4. QED
  BY <1>1, <1>2, <1>3

\* Whoever acts on a failure acts on an attempt that failed.
LEMMA AskingStep ==
    ASSUME Typed, [Next]_vars, Unforced', Asking => SomeFailed, Asking' PROVE SomeFailed'
<1>0. /\ Unforced /\ ~ Spend("error") /\ ~ Spend("command")
      /\ pc \in [Callers -> Locations] /\ force \in [Callers -> BOOLEAN]
      /\ \A i \in DOMAIN rows : rows[i] \in Attempt
  BY UnforcedGrows, Domains DEF Typed, TypeOK
<1>1. SomeFailed => SomeFailed'
  BY RowsKept DEF SomeFailed
<1>2. Readers \subseteq Callers
  BY DEF Callers
<1>3. ASSUME NEW c \in Callers, Leave(c), stage' = stage \/ stage' # "failed" PROVE SomeFailed'
  BY <1>0, <1>1, <1>3 DEF Leave, Goto, Asking
<1>4. ASSUME NEW c \in Callers, NEW l, l # "failStage", GoOn(c, l), stage' = stage \/ stage' # "failed"
      PROVE  SomeFailed'
  BY <1>0, <1>1, <1>4 DEF GoOn, Goto, Asking
<1>5. ASSUME NEW c \in Readers, ReadStage(c) PROVE SomeFailed'
  BY <1>0, <1>1, <1>2, <1>5 DEF ReadStage, Goto, Asking
<1>6. ASSUME NEW c \in Readers, Mark(c) \/ Link(c) \/ Lookup(c) PROVE SomeFailed'
  <2>1. stage' = stage \/ stage' # "failed"
    BY <1>6, LinkBy, ServedNotRunning DEF Mark, Lookup
  <2>2. Leave(c) \/ GoOn(c, "claim")
    BY <1>6 DEF Mark, Link, Lookup, Acknowledged, Unacknowledged
  <2>3. QED
    BY <1>2, <1>3, <1>4, <2>1, <2>2
<1>7. ASSUME NEW c \in Readers, FailStage(c) PROVE SomeFailed'
  BY <1>1, <1>2, <1>7 DEF FailStage, Asking
<1>8. ASSUME NEW c \in Callers, Claim(c) PROVE SomeFailed'
  <2>0. stage' = stage /\ pc[c] = "claim"
    BY <1>8 DEF Claim
  <2>1. CASE Leave(c)
    BY <1>3, <2>0, <2>1
  <2>2. CASE Goto(c, "call") /\ UNCHANGED force
    BY <1>0, <1>1, <2>0, <2>2 DEF Goto, Asking
  <2>3. ASSUME NEW i \in Ordinary, AfterAttempt(c, rows[i].status) # "idle", UNCHANGED <<rows, force>>,
               Goto(c, AfterAttempt(c, rows[i].status))
        PROVE  SomeFailed'
    <3>1. i \in DOMAIN rows /\ rows[i].status \in Statuses
      BY <1>0 DEF Ordinary, Attempt
    <3>2. CASE rows[i].status = "failed"
      BY <2>3, <3>1, <3>2 DEF SomeFailed
    <3>3. CASE rows[i].status # "failed"
      <4>1. AfterAttempt(c, rows[i].status) = "link"
        BY <2>3, <3>1, <3>3 DEF AfterAttempt, Statuses
      <4>2. Goto(c, "link")
        BY <2>3, <4>1
      <4>3. QED
        BY <1>0, <1>1, <2>0, <2>3, <4>2 DEF Goto, Asking
    <3>4. QED
      BY <3>2, <3>3
  <2>4. QED
    BY <1>8, <2>1, <2>2, <2>3 DEF Claim, Unacknowledged
<1>9. ASSUME NEW c \in Callers, Call(c) PROVE SomeFailed'
  BY <1>0, <1>1, <1>9 DEF Call, Goto, Asking
<1>10. ASSUME NEW c \in Callers, End(c) PROVE SomeFailed'
  <2>1. stage' = stage /\ mine[c] \in DOMAIN rows /\ verdict[c] \in Served \cup {"failed"}
    BY <1>10 DEF End, Typed, Held
  <2>2. CASE Leave(c)
    BY <1>3, <2>1, <2>2
  <2>3. CASE verdict[c] = "failed"
    <3>1. /\ "failed" \in Statuses
          /\ rows' = [rows EXCEPT ![mine[c]].status = "failed"]
      BY <1>10, <2>3 DEF End, Statuses
    <3>2. DOMAIN rows' = DOMAIN rows /\ rows'[mine[c]].status = "failed"
      BY <2>1, <3>1, EndedRow DEF Typed, TypeOK
    <3>3. QED
      BY <2>1, <3>2 DEF SomeFailed
  <2>4. CASE verdict[c] \in Served /\ GoOn(c, AfterAttempt(c, verdict[c]))
    BY <1>4, <2>1, <2>4, ServedNotRunning DEF AfterAttempt
  <2>5. QED
    BY <1>10, <2>1, <2>2, <2>3, <2>4 DEF End, Unacknowledged
<1>11. ASSUME NEW c \in Callers, Crash(c) PROVE SomeFailed'
  BY <1>3, <1>11 DEF Crash
<1>12. CASE UNCHANGED vars
  BY <1>1, <1>12 DEF vars, Asking
<1>13. ASSUME NEW c \in Readers, Refused(c) PROVE SomeFailed'
  BY <1>12, <1>13 DEF Refused
<1>14. QED
  BY <1>0, <1>5, <1>6, <1>7, <1>8, <1>9, <1>10, <1>11, <1>12, <1>13 DEF Next, Command, CallFails

\* A forced attempt is inserted behind one that failed.
LEMMA ConfirmedStep == ASSUME Typed, Confirmed, [Next]_vars PROVE Confirmed'
<1> SUFFICES ASSUME Unforced' PROVE Confirmed'
  BY DEF Confirmed
<1>0. /\ Unforced /\ ~ Spend("error") /\ ~ Spend("command")
      /\ pc \in [Callers -> Locations] /\ Readers \subseteq Callers /\ Commands \subseteq Callers
      /\ \A c \in Commands : pc[c] = "idle"
      /\ Asking => SomeFailed
      /\ RetriesAfterFailure
      /\ DOMAIN rows = 1..Len(rows) /\ Len(rows) \in Nat
  BY UnforcedGrows, Domains DEF Confirmed, Typed, TypeOK, Callers
<1>1. Asking' => SomeFailed'
  BY <1>0, AskingStep
<1>2. \A c \in Commands : pc'[c] = "idle"
  <2>1. ASSUME NEW c \in Callers, NEW l, pc' = [pc EXCEPT ![c] = l], c \in Commands => l = "idle"
        PROVE  \A d \in Commands : pc'[d] = "idle"
    BY <1>0, <2>1
  <2>2. ASSUME NEW c \in Readers,
               ReadStage(c) \/ Lookup(c) \/ Mark(c) \/ Link(c) \/ FailStage(c)
        PROVE  \E l : pc' = [pc EXCEPT ![c] = l]
    BY <2>2 DEF ReadStage, Lookup, Mark, Link, FailStage, Leave, GoOn, Goto, Acknowledged, Unacknowledged
  <2>3. ASSUME NEW c \in Callers, Claim(c) \/ Call(c) \/ End(c) \/ Crash(c)
        PROVE  c \notin Commands /\ \E l : pc' = [pc EXCEPT ![c] = l]
    BY <1>0, <2>3 DEF Claim, Call, End, Crash, Leave, GoOn, Goto, Unacknowledged
  <2>4. \A c \in Readers : c \notin Commands
    BY CallerAssumption
  <2>5. CASE pc' = pc
    BY <1>0, <2>5
  <2>6. QED
    BY <1>0, <2>1, <2>2, <2>3, <2>4, <2>5 DEF Next, Command, CallFails, Refused, vars
<1>3. RetriesAfterFailure'
  <2>1. /\ DOMAIN rows \subseteq DOMAIN rows'
        /\ \A i \in DOMAIN rows : /\ rows'[i].forced = rows[i].forced
                                  /\ rows[i].status # "running" => rows'[i] = rows[i]
    BY RowsKept
  <2>2. ASSUME NEW i \in DOMAIN rows, rows'[i].forced
        PROVE  \E j \in 1..(i - 1) : rows'[j].status = "failed"
    <3>1. PICK j \in 1..(i - 1) : rows[j].status = "failed"
      BY <1>0, <2>1, <2>2 DEF RetriesAfterFailure
    <3>2. j \in DOMAIN rows
      BY <1>0, <3>1
    <3>3. QED
      BY <2>1, <3>1, <3>2
  <2>3. ASSUME NEW c \in Callers, Inserts(c), force[c]
        PROVE  \E j \in 1..Len(rows) : rows'[j].status = "failed"
    <3>1. PICK j \in DOMAIN rows : rows[j].status = "failed"
      BY <1>0, <2>3 DEF Asking, SomeFailed
    <3>2. rows'[j].status = "failed"
      BY <2>3, <3>1 DEF Inserts, Inserted
    <3>3. QED
      BY <1>0, <3>1, <3>2
  <2>4. ASSUME NEW c \in Callers, Inserts(c) PROVE RetriesAfterFailure'
    <3>1. /\ DOMAIN rows' = 1..(Len(rows) + 1)
          /\ rows'[Len(rows) + 1].forced = force[c]
      BY <2>4 DEF Inserts, Inserted
    <3>2. ASSUME NEW i \in DOMAIN rows', rows'[i].forced
          PROVE  \E j \in 1..(i - 1) : rows'[j].status = "failed"
      <4>1. CASE i \in DOMAIN rows
        BY <2>2, <3>2, <4>1
      <4>2. CASE i = Len(rows) + 1
        BY <1>0, <2>3, <2>4, <3>1, <3>2, <4>2
      <4>3. QED
        BY <1>0, <3>1, <4>1, <4>2
    <3>3. QED
      BY <3>2 DEF RetriesAfterFailure
  <2>5. CASE DOMAIN rows' = DOMAIN rows
    BY <2>2, <2>5 DEF RetriesAfterFailure
  <2>6. QED
    BY <2>4, <2>5, RowsStep DEF Ends
<1>4. QED
  BY <1>1, <1>2, <1>3 DEF Confirmed

\* Whatever fails, the provider is called no more often than requests and commands
\* asked for it, and without commands and failed calls a request pays once more only
\* for an attempt that had failed: for any number of readers and commands.
THEOREM ResearchPaymentsAreAsked == Spec => []PaymentsAreAsked
<1> DEFINE AskedInv == Typed /\ Asked /\ Confirmed
<1>1. Init => AskedInv
  <2> SUFFICES ASSUME Init PROVE AskedInv
    OBVIOUS
  <2>1. Typed /\ Pending = {} /\ rows = <<>> /\ Budget = 0 /\ ~ Asking
    BY TypedInit DEF Init, Pending, Budget, Asking, Kinds, Callers
  <2>2. Asked
    <3>1. Len(rows) = 0 /\ IsFiniteSet(Pending) /\ Cardinality(Pending) = 0
      BY <2>1, FS_EmptySet
    <3>2. QED
      BY <2>1, <3>1 DEF Asked
  <2>3. Confirmed
    BY <2>1 DEF Confirmed, RetriesAfterFailure, Init, Callers
  <2>4. QED
    BY <2>1, <2>2, <2>3
<1>2. AskedInv /\ [Next]_vars => AskedInv'
  BY TypedStep, AskedStep, ConfirmedStep
<1>3. AskedInv => PaymentsAreAsked
  <2> SUFFICES ASSUME AskedInv PROVE PaymentsAreAsked
    OBVIOUS
  <2>1. called \subseteq 1..Len(rows) /\ Len(rows) \in Nat /\ Budget \in Nat
    BY Domains DEF Typed, TypeOK, Budget, Kinds
  <2>2. IsFiniteSet(1..Len(rows)) /\ Cardinality(1..Len(rows)) = Len(rows)
    BY <2>1, FS_Interval
  <2>3. Cardinality(called) <= Len(rows) /\ Cardinality(called) \in Nat
    BY <2>1, <2>2, FS_Subset, FS_CardinalityType
  <2>4. Cardinality(Pending) \in Nat
    BY FS_CardinalityType DEF Asked
  <2>5. Cardinality(called) <= used["request"] + used["command"]
    BY <2>1, <2>3, <2>4 DEF Asked, Budget
  <2>6. used["command"] + used["error"] = 0 => Unforced
    BY DEF Unforced, Typed, TypeOK, Kinds
  <2>7. QED
    BY <2>5, <2>6 DEF Confirmed, RetriesAfterFailure, PaymentsAreAsked
<1>4. QED
  <2> HIDE DEF AskedInv
  <2> QED BY <1>1, <1>2, <1>3, PTL DEF Spec

\* One ordinary call is paid, and otherwise what was asked for, for any number of
\* requests and commands.
THEOREM ResearchPaymentsAreRight == Spec => []PaymentsAreRight
<1>1. OrdinaryCallOnce /\ PaymentsAreAsked => PaymentsAreRight
  BY DEF PaymentsAreRight
<1>2. QED
  BY <1>1, ResearchOrdinaryOnce, ResearchPaymentsAreAsked, PTL

-----------------------------------------------------------------------------
(* The ordinary attempt keeps the promise of an official run.               *)

Outcome(s) == IF s \in Served THEN "succeeded" ELSE s

\* The one ordinary attempt decides the abstract state.
LEMMA OrdinaryIs ==
    ASSUME OneOrdinary, NEW i \in Ordinary
    PROVE  OrdinaryState = Outcome(rows[i].status)
<1>1. Ordinary = {i}
  BY DEF OneOrdinary, Ordinary
<1>2. (CHOOSE j \in Ordinary : TRUE) = i
  BY <1>1
<1>3. QED
  BY <1>1, <1>2 DEF OrdinaryState, Outcome

\* ... and so it does after a step.
LEMMA OrdinaryIsNext ==
    ASSUME OneOrdinary', NEW i, i \in Ordinary'
    PROVE  OrdinaryState' = Outcome(rows'[i].status)
<1>1. Ordinary' = {i}
  BY DEF OneOrdinary, Ordinary
<1>2. (CHOOSE j \in Ordinary' : TRUE) = i
  BY <1>1
<1>3. QED
  BY <1>1, <1>2 DEF OrdinaryState, Outcome

\* Every step is a step of the promise for the ordinary attempt, or is not seen.
LEMMA PaidStep ==
    ASSUME OnceInv, [Next]_vars
    PROVE  [Paid!Next]_<<OrdinaryState, OrdinaryState = "succeeded">>
<1> DEFINE same == OrdinaryState' = OrdinaryState
<1>0. Typed /\ OneOrdinary /\ OneOrdinary'
  BY TypedStep, OneOrdinaryStep DEF OnceInv
<1>1. same => [Paid!Next]_<<OrdinaryState, OrdinaryState = "succeeded">>
  OBVIOUS
<1>2. CASE rows' = rows
  BY <1>1, <1>2 DEF OrdinaryState, Ordinary
<1>3. ASSUME NEW c \in Callers, Inserts(c)
      PROVE [Paid!Next]_<<OrdinaryState, OrdinaryState = "succeeded">>
  <2>1. CASE force[c]
    <3>1. Ordinary' = Ordinary /\ \A i \in Ordinary : rows'[i] = rows[i]
      BY <1>3, <2>1 DEF Inserts, Inserted, Ordinary
    <3>2. CASE Ordinary = {}
      BY <1>1, <3>1, <3>2 DEF OrdinaryState
    <3>3. ASSUME NEW i \in Ordinary PROVE same
      BY <1>0, <3>1, <3>3, OrdinaryIs, OrdinaryIsNext
    <3>4. QED
      BY <1>1, <3>2, <3>3
  <2>2. CASE ~force[c] /\ Ordinary = {}
    <3>1. Len(rows) + 1 \in Ordinary' /\ rows'[Len(rows) + 1].status = "running"
      BY <1>3, <2>2 DEF Inserts, Inserted, Ordinary
    <3>2. OrdinaryState' = "running"
      BY <1>0, <3>1, OrdinaryIsNext, ServedNotRunning DEF Outcome
    <3>3. OrdinaryState = "none"
      BY <2>2 DEF OrdinaryState
    <3>4. QED
      BY <3>2, <3>3 DEF Paid!Next, Paid!Claim
  <2>3. QED
    BY <1>3, <2>1, <2>2 DEF Inserts
<1>4. ASSUME NEW c \in Callers, Ends(c)
      PROVE [Paid!Next]_<<OrdinaryState, OrdinaryState = "succeeded">>
  <2>1. Ordinary' = Ordinary
    BY <1>4 DEF Ends, Ordinary
  <2>2. CASE Ordinary = {}
    BY <1>1, <2>1, <2>2 DEF OrdinaryState
  <2>3. ASSUME NEW i \in Ordinary, i # mine[c] PROVE same
    <3>1. rows'[i] = rows[i]
      BY <1>4, <2>3 DEF Ends, Ordinary
    <3>2. QED
      BY <1>0, <2>1, <2>3, <3>1, OrdinaryIs, OrdinaryIsNext
  <2>4. CASE mine[c] \in Ordinary
    <3>1. OrdinaryState = "running"
      BY <1>0, <1>4, <2>4, OrdinaryIs, ServedNotRunning DEF Ends, Outcome
    <3>2. OrdinaryState' = Outcome(verdict[c])
      BY <1>0, <1>4, <2>1, <2>4, OrdinaryIsNext DEF Ends
    <3>3. OrdinaryState' \in {"succeeded", "failed"}
      BY <1>4, <3>2 DEF Ends, Outcome
    <3>4. QED
      BY <3>1, <3>3 DEF Paid!Next, Paid!Capture, Paid!Fail
  <2>5. QED
    BY <1>1, <2>2, <2>3, <2>4
<1>5. QED
  BY <1>0, <1>2, <1>3, <1>4, RowsStep

\* The ordinary attempt keeps what the official run of a logical key promises: it
\* is claimed once, it ends once, and its end is final.
THEOREM ResearchImplementsOfficial == Spec => PaidSpec
<1>1. Init => OnceInv
  BY TypedInit DEF OnceInv, OneOrdinary, Init
<1>2. OnceInv /\ [Next]_vars => OnceInv'
  BY TypedStep, OneOrdinaryStep DEF OnceInv
<1>3. Init => Paid!Init
  BY DEF Init, Paid!Init, OrdinaryState, Ordinary
<1>4. OnceInv /\ [Next]_vars => [Paid!Next]_<<OrdinaryState, OrdinaryState = "succeeded">>
  BY PaidStep
<1>5. QED
  BY <1>1, <1>2, <1>3, <1>4, PTL DEF Spec, PaidSpec, Paid!Spec

=============================================================================
