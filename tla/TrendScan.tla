------------------------------ MODULE TrendScan ------------------------------
(***************************************************************************)
(* Trend Radar's scans and the publication of their results.  The worker    *)
(* starts a scan once a day has come, operators start one or export at will *)
(* (`trend-radar scan`, `export`, `bundle`); each holds a session advisory  *)
(* lock while it works.  A scan takes over what an earlier one left, claims *)
(* its date, checkpoints every stock, completes or fails its row, and       *)
(* writes the public files: one pair per completed run, then the index.     *)
(*                                                                         *)
(* Every transaction and every file is a step of its own.  A run is named   *)
(* by its place in the order of creation; stocks by their place in the      *)
(* order of collection.                                                     *)
(***************************************************************************)
EXTENDS Naturals, Sequences, FiniteSets, FiniteSetsExt

CONSTANTS
    Workers, Operators,
    Days,              \* the last day
    Stocks,            \* stocks of a scan
    MaxFailed,         \* failures that reach trend_max_failure_ratio
    MaxStreak,         \* trend_max_consecutive_failures
    ProgressEvery,     \* stocks between two exports of the progress (10)
    PublicLimit,       \* newest runs of the index (100)
    MaxEvents,         \* bound on each kind of event
    MaxFaults          \* bound on the faults together

Faults == {"crash", "error", "uncertain", "lockLoss"}
Kinds  == {"command"} \cup Faults

Processes == Workers \cup Operators

ASSUME ProcessAssumption == Workers \cap Operators = {} /\ "none" \notin Processes
ASSUME LimitAssumption ==
    /\ {Days, Stocks, MaxFailed, MaxStreak, ProgressEvery, PublicLimit} \subseteq Nat \ {0}
    /\ MaxEvents \in [Kinds -> Nat]
    /\ MaxFaults \in Nat

VARIABLES
    day,       \* the last trading date whose trend_schedule_time has come
    holder,    \* session that holds the advisory lock, "none" when free
    rows,      \* trend_scan_runs with their saved results and artifacts
    claims,    \* trend_schedule_claims
    proc,      \* what each process is doing and remembers
    details,   \* details/<run>.json: the run and its content
    lists,     \* runs/<run>.json
    index,     \* index.json
    used       \* events so far, by kind

files == <<details, lists, index>>
vars == <<day, holder, rows, claims, proc, files, used>>

-----------------------------------------------------------------------------
Completed == {"success", "completed_with_warnings"}
Statuses  == {"running", "failed"} \cup Completed
Payload   == [status : Statuses, found : Nat, failed : Nat]
Row       == [status : Statuses, pay : Payload, slot : Nat, saved : Nat,
              artifacts : BOOLEAN]
Locations == {"idle", "sweep", "begin", "publish", "files", "index", "progress",
              "save", "stock", "complete", "fail"}
Public    == [latest : Nat, runs : SUBSET (Nat \X Payload)]
Process   == [pc : Locations, next : Locations, run : Nat, slot : Nat,
              swept : SUBSET Nat, claimed : BOOLEAN,
              done : Nat, found : Nat, failed : Nat, streak : Nat,
              view : Public, todo : SUBSET Nat]

NoIndex == [latest |-> 0, runs |-> {}]

Idle == [pc |-> "idle", next |-> "idle", run |-> 0, slot |-> 0,
         swept |-> {}, claimed |-> FALSE,
         done |-> 0, found |-> 0, failed |-> 0, streak |-> 0,
         view |-> NoIndex, todo |-> {}]

At(p, l) == proc[p].pc = l

Become(p, r) == proc' = [proc EXCEPT ![p] = r]

Goto(p, l) == Become(p, [proc[p] EXCEPT !.pc = l])

FaultsSoFar == used["crash"] + used["error"] + used["uncertain"] + used["lockLoss"]

Spend(kind) ==
    /\ used[kind] < MaxEvents[kind]
    /\ kind \in Faults => FaultsSoFar < MaxFaults
    /\ used' = [used EXCEPT ![kind] = @ + 1]

\* The end of `with lock()`; a session that lost the lock has none to release.
Leave(p) ==
    /\ Become(p, Idle)
    /\ holder' = IF holder = p THEN "none" ELSE holder

\* To publish, and to go on at l afterwards; l = "idle" is the last export,
\* whose failure is reported.
PublishThen(p, r, l) ==
    /\ Become(p, [r EXCEPT !.pc = "publish", !.next = l])
    /\ UNCHANGED holder

\* A publication ends, or fails: then it is logged, unless it was the last.
Resume(p) ==
    IF proc[p].next = "idle" THEN Leave(p)
    ELSE /\ Become(p, [proc[p] EXCEPT !.pc = proc[p].next, !.next = "idle", !.view = NoIndex,
                                      !.todo = {}])
         /\ UNCHANGED holder

-----------------------------------------------------------------------------
(* The start of a scan.                                                     *)

\* Mutation: the lock is not asked for.
AcquireBusy(p) ==
    /\ At(p, "idle")
    /\ holder' = p

\* lock(): ScanBusyError when another session has it.
Acquire(p) ==
    /\ At(p, "idle")
    /\ holder = "none"
    /\ holder' = p

\* tick(): the time of the day has come; the day may have been claimed already.
Scheduled(p) ==
    /\ day # 0
    /\ Acquire(p)
    /\ Become(p, [Idle EXCEPT !.pc = "sweep", !.slot = day])

Tick(p) == Scheduled(p) /\ UNCHANGED <<day, rows, claims, files, used>>

\* An operator's `scan`, which takes no claim, or `worker-once`.
Scan(p) ==
    /\ \/ Scheduled(p)
       \/ Acquire(p) /\ Become(p, [Idle EXCEPT !.pc = "sweep"])
    /\ Spend("command")
    /\ UNCHANGED <<day, rows, claims, files>>

Export(p) ==
    /\ Acquire(p)
    /\ Spend("command")
    /\ Become(p, [Idle EXCEPT !.pc = "publish"])
    /\ UNCHANGED <<day, rows, claims, files>>

\* Mutation: a claimed date is returned from before anything is swept.
SweepUnlessClaimed(p) ==
    /\ At(p, "sweep")
    /\ Become(p, [proc[p] EXCEPT
                    !.pc = "begin",
                    !.swept = IF proc[p].slot \in claims THEN {}
                              ELSE {i \in DOMAIN rows : rows[i].status = "running"},
                    !.claimed = proc[p].slot \in claims])
    /\ UNCHANGED <<day, holder, rows, claims, files, used>>

\* begin() reads the running rows and the claim of its date ...
Sweep(p) ==
    /\ At(p, "sweep")
    /\ Become(p, [proc[p] EXCEPT
                    !.pc = "begin",
                    !.swept = {i \in DOMAIN rows : rows[i].status = "running"},
                    !.claimed = proc[p].slot \in claims])
    /\ UNCHANGED <<day, holder, rows, claims, files, used>>

Interrupted(row) == [row EXCEPT !.status = "failed", !.pay.status = "failed"]

Swept(p) == [i \in DOMAIN rows |-> IF i \in proc[p].swept THEN Interrupted(rows[i])
                                   ELSE rows[i]]

NewRow(slot) ==
    [status |-> "running", pay |-> [status |-> "running", found |-> 0, failed |-> 0],
     slot |-> slot, saved |-> 0, artifacts |-> FALSE]

Insert(p) ==
    /\ rows' = Append(Swept(p), NewRow(proc[p].slot))
    /\ claims' = claims \cup ({proc[p].slot} \ {0})
    /\ \/ /\ PublishThen(p, [proc[p] EXCEPT !.run = Len(rows) + 1, !.swept = {}], "save")
          /\ UNCHANGED used
       \/ Leave(p) /\ Spend("uncertain")

\* Mutation: the claim read before is trusted, the date is not unique.
BeginTrusting(p) ==
    /\ At(p, "begin")
    /\ \/ /\ proc[p].claimed
          /\ rows' = Swept(p)
          /\ PublishThen(p, Idle, "idle")
          /\ UNCHANGED <<claims, used>>
       \/ ~proc[p].claimed /\ Insert(p)
    /\ UNCHANGED <<day, files>>

\* Mutation: only the column is rewritten, the payload is left alone.
BeginColumn(p) ==
    /\ At(p, "begin")
    /\ rows' = Append([i \in DOMAIN rows |->
                          IF i \in proc[p].swept THEN [rows[i] EXCEPT !.status = "failed"]
                          ELSE rows[i]],
                      NewRow(proc[p].slot))
    /\ claims' = claims \cup ({proc[p].slot} \ {0})
    /\ PublishThen(p, [proc[p] EXCEPT !.run = Len(rows) + 1, !.swept = {}], "save")
    /\ UNCHANGED <<day, files, used>>

\* ... and marks those rows failed, claims the date and inserts its own row in
\* one transaction.  A date claimed meanwhile rolls everything back.
Begin(p) ==
    /\ At(p, "begin")
    /\ \/ /\ proc[p].claimed
          /\ rows' = Swept(p)
          /\ \/ PublishThen(p, Idle, "idle") /\ UNCHANGED used
             \/ Leave(p) /\ Spend("uncertain")
          /\ UNCHANGED claims
       \/ /\ ~proc[p].claimed /\ proc[p].slot \in claims
          /\ PublishThen(p, Idle, "idle")
          /\ UNCHANGED <<rows, claims, used>>
       \/ /\ ~proc[p].claimed /\ proc[p].slot \notin claims
          /\ Insert(p)
    /\ UNCHANGED <<day, files>>

-----------------------------------------------------------------------------
(* The scan.                                                                *)

\* A commit inside the try of the scan: of unknown outcome, it is a failure.
Committed(p, next) ==
    \/ next /\ UNCHANGED used
    \/ Goto(p, "fail") /\ Spend("uncertain")

\* save_run writes every column.
SaveRun(i, status, r) ==
    rows' = [rows EXCEPT ![i].status = status,
                         ![i].pay = [status |-> status, found |-> r.found,
                                     failed |-> r.failed]]

\* The session and the universe are resolved and saved with the run, unless one
\* of them is refused (too little history, an invalid universe, stale heat).
Save(p) ==
    /\ At(p, "save")
    /\ \/ /\ SaveRun(proc[p].run, "running", proc[p])
          /\ Committed(p, Goto(p, "stock"))
       \/ Goto(p, "fail") /\ UNCHANGED <<rows, used>>
    /\ UNCHANGED <<day, holder, claims, files>>

ThresholdReached(r) == r.failed > 0 /\ (r.failed >= MaxFailed \/ r.streak >= MaxStreak)

AfterStock(r) ==
    IF ThresholdReached(r) THEN "fail"
    ELSE IF r.done = Stocks THEN "complete" ELSE "stock"

\* One stock is a candidate, or none, or failed; the counts are checkpointed with
\* the candidate, in the payload and not in the column.
Stock(p) ==
    /\ At(p, "stock")
    /\ \E outcome \in {"candidate", "excluded", "failed"} :
          LET c == IF outcome = "candidate" THEN 1 ELSE 0
              f == IF outcome = "failed" THEN 1 ELSE 0
              r == [proc[p] EXCEPT !.done = @ + 1, !.found = @ + c, !.failed = @ + f,
                                   !.streak = IF f = 1 THEN @ + 1 ELSE 0]
              l == AfterStock(r)
          IN /\ rows' = [rows EXCEPT
                           ![r.run].pay = [status |-> "running", found |-> r.found,
                                           failed |-> r.failed],
                           ![r.run].saved = @ + c]
             /\ Committed(p, Become(p, IF r.done % ProgressEvery = 0
                                       THEN [r EXCEPT !.pc = "progress", !.next = l]
                                       ELSE [r EXCEPT !.pc = l]))
    /\ UNCHANGED <<day, holder, claims, files>>

\* Mutation: a status of its own when every stock was a candidate.
VerdictFull(r) ==
    IF r.failed > 0 THEN "completed_with_warnings"
    ELSE IF r.found = Stocks THEN "full" ELSE "success"

Verdict(r) == IF r.failed = 0 THEN "success" ELSE "completed_with_warnings"

\* Mutation: the row is completed first, its artifacts after it.
CompleteTwice(p) ==
    /\ At(p, "complete")
    /\ IF rows[proc[p].run].status \in Completed
       THEN /\ rows' = [rows EXCEPT ![proc[p].run].artifacts = TRUE]
            /\ Become(p, [Idle EXCEPT !.pc = "publish"])
       ELSE /\ SaveRun(proc[p].run, Verdict(proc[p]), proc[p])
            /\ UNCHANGED proc
    /\ UNCHANGED <<day, holder, claims, files, used>>

\* complete(): row, results and artifacts in one transaction.
Complete(p) ==
    /\ At(p, "complete")
    /\ LET r == proc[p] IN
       rows' = [rows EXCEPT
                  ![r.run] = [@ EXCEPT !.status = Verdict(r),
                                       !.pay = [status |-> Verdict(r), found |-> r.found,
                                                failed |-> r.failed],
                                       !.artifacts = TRUE]]
    /\ Committed(p, Become(p, [proc[p] EXCEPT !.pc = "publish"]))
    /\ UNCHANGED <<day, holder, claims, files>>

\* The except clause: the row is saved as failed, whatever it was.
Fail(p) ==
    /\ At(p, "fail")
    /\ SaveRun(proc[p].run, "failed", proc[p])
    /\ \/ PublishThen(p, Idle, "idle") /\ UNCHANGED used
       \/ Leave(p) /\ Spend("uncertain")
    /\ UNCHANGED <<day, claims, files>>

-----------------------------------------------------------------------------
(* Publication.                                                             *)

\* Mutation: the payload alone decides what is completed, running ones too.
CompletedRunsAny(runs) == {r[1] : r \in runs}

CompletedRuns(runs) == {r[1] : r \in {s \in runs : s[2].status \in Completed}}

Newest(runs) == IF runs = {} THEN 0 ELSE Max(runs)

\* Mutation: a completed run that is not among the newest is forgotten.
PublicRowsNewest == {i \in DOMAIN rows : i + PublicLimit > Len(rows)}

\* public_runs(): the newest rows, and the newest completed one if it is older.
PublicRows ==
    {i \in DOMAIN rows : i + PublicLimit > Len(rows)}
        \cup {i \in DOMAIN rows : /\ rows[i].status \in Completed
                                  /\ \A j \in DOMAIN rows : j > i =>
                                         rows[j].status \notin Completed}

View ==
    LET runs == {<<i, rows[i].pay>> : i \in PublicRows}
    IN [latest |-> Newest(CompletedRuns(runs)), runs |-> runs]

ToIndex(p, v) == Become(p, [proc[p] EXCEPT !.pc = "index", !.view = v])

\* publish() reads the runs once ...
Publish(p) ==
    /\ At(p, "publish")
    /\ Become(p, [proc[p] EXCEPT !.pc = "files", !.view = View,
                                 !.todo = CompletedRuns(View.runs)])
    /\ UNCHANGED <<day, holder, rows, claims, files, used>>

Written(f) == {d[1] : d \in f}

Replace(f, i, content) == {d \in f : d[1] # i} \cup {<<i, content>>}

Published(p, i) == (CHOOSE r \in proc[p].view.runs : r[1] = i)[2]

\* Mutation: the index is written before the files.
FilesLater(p) ==
    /\ At(p, "files")
    /\ index' = proc[p].view
    /\ Resume(p)
    /\ UNCHANGED <<day, rows, claims, details, lists, used>>

\* ... writes the files of the completed ones, newest first, from results that it
\* reads then and that must match the counts ...
WriteFiles(p) ==
    /\ At(p, "files")
    /\ IF proc[p].todo = {}
       THEN ToIndex(p, proc[p].view) /\ UNCHANGED <<details, lists, holder>>
       ELSE LET i   == Max(proc[p].todo)
                pay == Published(p, i)
            IN IF rows[i].saved = pay.found
               THEN /\ details' = Replace(details, i, pay)
                    /\ lists' = Replace(lists, i, rows[i].saved)
                    /\ Become(p, [proc[p] EXCEPT !.todo = @ \ {i}])
                    /\ UNCHANGED holder
               ELSE Resume(p) /\ UNCHANGED <<details, lists>>
    /\ UNCHANGED <<day, rows, claims, index, used>>

\* ... and replaces the index.
WriteIndex(p) ==
    /\ At(p, "index")
    /\ index' = proc[p].view
    /\ Resume(p)
    /\ UNCHANGED <<day, rows, claims, details, lists, used>>

\* publish_progress(): the index alone, when no completed run lacks a file.
PublishProgress(p) ==
    /\ At(p, "progress")
    /\ IF CompletedRuns(View.runs) \subseteq Written(details) \cap Written(lists)
       THEN ToIndex(p, View)
       ELSE Goto(p, "publish")
    /\ UNCHANGED <<day, holder, rows, claims, files, used>>

-----------------------------------------------------------------------------
(* Faults.                                                                  *)

Publishing == {"publish", "files", "index", "progress"}

\* Mutation: the last export is inside the try of the scan.
FailsInTry(p) ==
    /\ Spend("error")
    /\ proc[p].run # 0
    /\ proc[p].pc \in Publishing \cup {"save", "stock", "complete"}
    /\ Goto(p, "fail") /\ UNCHANGED holder
    /\ UNCHANGED <<day, rows, claims, files>>

\* The step raises and had no effect.  Around the scan nothing catches it, inside
\* it fails the run, and a publication's failure is for Resume.
Fails(p) ==
    /\ Spend("error")
    /\ \/ proc[p].pc \in {"sweep", "begin", "fail"} /\ Leave(p)
       \/ proc[p].pc \in {"save", "stock", "complete"} /\ Goto(p, "fail") /\ UNCHANGED holder
       \/ proc[p].pc \in Publishing /\ Resume(p)
    /\ UNCHANGED <<day, rows, claims, files>>

\* The process dies; the details of a run may be written without its list.
Crash(p) ==
    /\ ~At(p, "idle")
    /\ Spend("crash")
    /\ Leave(p)
    /\ \/ UNCHANGED details
       \/ /\ At(p, "files") /\ proc[p].todo # {}
          /\ LET i == Max(proc[p].todo) IN
                /\ rows[i].saved = Published(p, i).found
                /\ details' = Replace(details, i, Published(p, i))
    /\ UNCHANGED <<day, rows, claims, lists, index>>

\* The session that holds the lock is lost; the process does not learn of it.
LoseLock(p) ==
    /\ holder = p
    /\ Spend("lockLoss")
    /\ holder' = "none"
    /\ UNCHANGED <<day, rows, claims, proc, files>>

NextDay ==
    /\ day < Days
    /\ day' = day + 1
    /\ UNCHANGED <<holder, rows, claims, proc, files, used>>

-----------------------------------------------------------------------------
Init ==
    /\ day = 0
    /\ holder = "none"
    /\ rows = <<>>
    /\ claims = {}
    /\ proc = [p \in Processes |-> Idle]
    /\ details = {} /\ lists = {} /\ index = NoIndex
    /\ used = [k \in Kinds |-> 0]

Step(p) ==
    \/ Sweep(p) \/ Begin(p) \/ Save(p) \/ Stock(p) \/ Complete(p) \/ Fail(p)
    \/ Publish(p) \/ WriteFiles(p) \/ WriteIndex(p) \/ PublishProgress(p)

Next ==
    \/ \E p \in Workers : Tick(p)
    \/ \E p \in Operators : Scan(p) \/ Export(p)
    \/ \E p \in Processes : Step(p) \/ Fails(p) \/ Crash(p) \/ LoseLock(p)
    \/ NextDay

Spec == Init /\ [][Next]_vars

\* A process that is at work goes on; the worker polls for ever, and restarts; the
\* time of the day comes.
Fairness ==
    /\ WF_vars(NextDay)
    /\ \A p \in Processes : WF_vars(Step(p))
    /\ \A p \in Workers : WF_vars(Tick(p))

FairSpec == Spec /\ Fairness

-----------------------------------------------------------------------------
(* Properties.                                                              *)

\* Every variable keeps its type.
TypeOK ==
    /\ day \in 0..Days
    /\ holder \in Processes \cup {"none"}
    /\ rows \in Seq(Row)
    /\ claims \subseteq 1..Days
    /\ proc \in [Processes -> Process]
    /\ \A p \in Processes : proc[p].run <= Len(rows)
    /\ details \subseteq Nat \X Payload
    /\ lists \subseteq Nat \X Nat
    /\ index \in Public
    /\ used \in [Kinds -> Nat]

\* The scheduler scans a date once, however many processes try, also when the
\* lock was lost under one of them.
ScheduledOnce ==
    \A i, j \in DOMAIN rows : rows[i].slot # 0 /\ rows[i].slot = rows[j].slot => i = j

\* While sessions last, the lock proves what begin() takes it to prove
\* (postgres.py:37): no run that a process is at work on is swept, and the
\* column and the payload tell the same of every run.
SweepTakesDeadRuns ==
    used["lockLoss"] = 0 =>
        /\ \A p \in Processes : proc[p].pc \in {"save", "stock", "complete"} =>
               rows[proc[p].run].status = "running"
        /\ \A i \in DOMAIN rows : rows[i].status = rows[i].pay.status

\* A completed run has its artifacts and every counted result, and did not reach
\* the limit of failures, whatever was lost on the way.
CompletedHasEvidence ==
    \A i \in DOMAIN rows : rows[i].status \in Completed =>
        /\ rows[i].artifacts
        /\ rows[i].pay.status = rows[i].status
        /\ rows[i].saved = rows[i].pay.found
        /\ rows[i].pay.failed < MaxFailed

\* The index names no completed run whose files are not there with its content,
\* at whatever point an export was cut off or overtaken by another.
IndexBacked ==
    /\ index.latest = Newest(CompletedRuns(index.runs))
    /\ \A r \in index.runs : r[2].status \in Completed =>
          r \in details /\ <<r[1], r[2].found>> \in lists

\* What is said of a completed run is there, in the database and for readers.
EvidenceStands == CompletedHasEvidence /\ IndexBacked

\* A published file never changes.
FilesAreFinal == [][details \subseteq details' /\ lists \subseteq lists']_vars

\* While sessions last and commits are acknowledged, a completed run stays
\* completed (service.py:139, "Export failure leaves successful analysis
\* successful") and the index never goes back to an older one.
NothingIsTakenBack ==
    [][used'["lockLoss"] + used'["uncertain"] = 0 =>
          /\ \A i \in DOMAIN rows : rows[i].status \in Completed => rows'[i] = rows[i]
          /\ index'.latest >= index.latest]_vars

\* What was said of a run is not unsaid.
ResultsStand == FilesAreFinal /\ NothingIsTakenBack

StatusOf(i) == IF i \in DOMAIN rows THEN rows[i].status ELSE "none"

\* Every run comes to fail or to be published, it or a later one, without another
\* scan, as long as the worker is there.
RunsSettle ==
    \A i \in 1..(Days + MaxEvents["command"]) :
        StatusOf(i) # "none" ~>
            StatusOf(i) = "failed" \/ (StatusOf(i) \in Completed /\ index.latest >= i)

=============================================================================
