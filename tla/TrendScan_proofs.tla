--------------------------- MODULE TrendScan_proofs ---------------------------
(***************************************************************************)
(* Proofs for TrendScan, for any number of workers, operators, days and     *)
(* stocks, any limits and any number of faults.                             *)
(***************************************************************************)
EXTENDS TrendScan, SequenceTheorems, FiniteSetTheorems, WellFoundedInduction, TLAPS

-----------------------------------------------------------------------------
(* Numbers and rows.                                                        *)

\* The limits are numbers of the kinds the steps need.
LEMMA Limits ==
    /\ Days \in Nat /\ Stocks \in Nat \ {0} /\ MaxFailed \in Nat \ {0}
    /\ MaxStreak \in Nat \ {0} /\ ProgressEvery \in Nat \ {0} /\ PublicLimit \in Nat \ {0}
BY LimitAssumption

\* A bounded set of numbers that has a member has a largest one.
LEMMA Largest ==
    ASSUME NEW n \in Nat, NEW S \in SUBSET (1..n), S # {}
    PROVE  Max(S) \in S /\ \A x \in S : x <= Max(S)
<1> DEFINE less == {ss \in Nat \X Nat : ss[1] < ss[2]}
           far  == {n - x : x \in S}
<1>1. \A x \in S : x \in Nat /\ n - x \in Nat
  OBVIOUS
<1>2. far \subseteq Nat /\ far # {}
  BY <1>1
<1>3. IsWellFoundedOn(less, Nat)
  BY NatLessThanWellFounded, Zenon DEF OpToRel
<1> HIDE DEF less
<1>4. PICK m \in far : \A k \in far : ~(<<k, m>> \in less)
  <2> HIDE DEF far
  <2> QED
    BY <1>2, <1>3, WFMin
<1>5. \A k \in far : k < m => <<k, m>> \in less
  BY <1>2 DEF less
<1>6. PICK x \in S : m = n - x
  BY <1>4
<1>7. ASSUME NEW y \in S PROVE y <= x
  <2>1. n - y \in far /\ x \in Nat /\ y \in Nat
    BY <1>1
  <2>2. ~(n - y < n - x)
    BY <1>4, <1>5, <1>6, <2>1
  <2>3. QED
    BY <2>1, <2>2
<1>8. \A y \in S : x >= y
  BY <1>1, <1>7
<1>9. QED
  <2>1. Max(S) \in S /\ \A y \in S : Max(S) >= y
    BY <1>8 DEF Max
  <2>2. QED
    BY <1>1, <2>1

\* A sequence of rows is indexed from one, and its elements are rows.
LEMMA Domains ==
    ASSUME rows \in Seq(Row)
    PROVE  Len(rows) \in Nat /\ DOMAIN rows = 1..Len(rows)
           /\ \A i \in DOMAIN rows : rows[i] \in Row
BY LenProperties, ElementOfSeq

\* A row that is written keeps its place.
LEMMA WrittenRow ==
    ASSUME rows \in Seq(Row), NEW i \in DOMAIN rows, NEW e \in Row,
           rows' = [rows EXCEPT ![i] = e]
    PROVE  /\ rows' \in Seq(Row) /\ Len(rows') = Len(rows) /\ DOMAIN rows' = DOMAIN rows
           /\ rows'[i] = e /\ \A j \in DOMAIN rows : j # i => rows'[j] = rows[j]
BY ExceptSeq, LenProperties, Domains

\* Appending a row leaves the others as they are.
LEMMA AddedRow ==
    ASSUME NEW s \in Seq(Row), NEW e \in Row, rows' = Append(s, e)
    PROVE  /\ rows' \in Seq(Row) /\ Len(rows') = Len(s) + 1 /\ Len(s) \in Nat
           /\ DOMAIN s = 1..Len(s) /\ DOMAIN rows' = 1..(Len(s) + 1)
           /\ rows'[Len(s) + 1] = e /\ \A j \in DOMAIN s : rows'[j] = s[j]
<1>1. /\ rows' \in Seq(Row) /\ Len(rows') = Len(s) + 1
      /\ \A i \in 1..Len(s) : rows'[i] = s[i]
      /\ rows'[Len(s) + 1] = e
  BY AppendProperties
<1>2. Len(s) \in Nat /\ DOMAIN s = 1..Len(s) /\ DOMAIN rows' = 1..Len(rows')
  BY <1>1, LenProperties
<1>3. QED
  BY <1>1, <1>2

\* The types of a row's columns.
LEMMA RowParts ==
    ASSUME NEW r \in Row
    PROVE  /\ r.status \in Statuses /\ r.pay \in Payload /\ r.slot \in Nat /\ r.saved \in Nat
           /\ r.pay.status \in Statuses /\ r.pay.found \in Nat /\ r.pay.failed \in Nat
BY DEF Row, Payload

\* What a sweep makes of the rows.
LEMMA SweptRows ==
    ASSUME rows \in Seq(Row), NEW p \in Processes
    PROVE  /\ Swept(p) \in Seq(Row) /\ Len(Swept(p)) = Len(rows)
           /\ DOMAIN Swept(p) = DOMAIN rows
           /\ \A i \in DOMAIN rows :
                 Swept(p)[i] = IF i \in proc[p].swept THEN Interrupted(rows[i]) ELSE rows[i]
<1>1. \A i \in DOMAIN rows : Interrupted(rows[i]) \in Row /\ rows[i] \in Row
  BY Domains DEF Interrupted, Row, Payload, Statuses
<1>2. /\ DOMAIN Swept(p) = DOMAIN rows
      /\ \A i \in DOMAIN rows :
            Swept(p)[i] = IF i \in proc[p].swept THEN Interrupted(rows[i]) ELSE rows[i]
  BY DEF Swept
<1>3. Len(rows) \in Nat /\ DOMAIN rows = 1..Len(rows)
  BY Domains
<1>4. Swept(p) \in [1..Len(rows) -> Row]
  BY <1>1, <1>3 DEF Swept
<1>5. Swept(p) \in Seq(Row)
  BY <1>3, <1>4
<1>6. Len(Swept(p)) = Len(rows)
  BY <1>2, <1>3, <1>5, LenProperties
<1>7. QED
  BY <1>2, <1>5, <1>6

\* A swept row is failed in the column and in the payload, and otherwise itself.
LEMMA InterruptedRow ==
    ASSUME NEW r \in Row
    PROVE  /\ Interrupted(r) \in Row /\ Interrupted(r).status = "failed"
           /\ Interrupted(r).pay.status = "failed" /\ Interrupted(r).pay.found = r.pay.found
           /\ Interrupted(r).pay.failed = r.pay.failed /\ Interrupted(r).saved = r.saved
           /\ Interrupted(r).slot = r.slot /\ Interrupted(r).artifacts = r.artifacts
BY DEF Interrupted, Row, Payload, Statuses

-----------------------------------------------------------------------------
(* Types.                                                                   *)

Writing == {"save", "stock", "complete", "fail"}

\* What a publication has read, when there are n rows.
Viewed(r, n) ==
    /\ \A v \in r.view.runs : v[1] \in 1..n
    /\ \A v, w \in r.view.runs : v[1] = w[1] => v = w
    /\ r.view.latest = Newest(CompletedRuns(r.view.runs))
    /\ r.todo \subseteq CompletedRuns(r.view.runs)

\* What a process holds, by what it is doing, when there are n rows.
Shaped(r, n) ==
    /\ r.slot \in 0..Days
    /\ r.run <= n
    /\ r.pc \in Writing \/ r.next \in Writing => r.run \in 1..n
    /\ r.next \in {"idle"} \cup Writing
    /\ r.pc \notin Publishing => r.next = "idle"
    /\ r.pc = "idle" => r = Idle
    /\ r.pc # "files" => r.todo = {}
    /\ Viewed(r, n)

Typed ==
    /\ TypeOK
    /\ \A p \in Processes : Shaped(proc[p], Len(rows))

\* Where a process writes rows and where it writes files are different places.
LEMMA LocationNames ==
    /\ Writing \subseteq Locations /\ Publishing \subseteq Locations
    /\ {"idle", "sweep", "begin", "publish", "files", "index", "progress"} \subseteq Locations
    /\ \A l \in Writing : l \notin Publishing /\ l # "idle"
BY DEF Writing, Publishing, Locations

\* The types of what a process remembers.
LEMMA ProcessParts ==
    ASSUME NEW r \in Process
    PROVE  /\ r.pc \in Locations /\ r.next \in Locations /\ r.run \in Nat /\ r.slot \in Nat
           /\ r.swept \in SUBSET Nat /\ r.claimed \in BOOLEAN
           /\ r.done \in Nat /\ r.found \in Nat /\ r.failed \in Nat /\ r.streak \in Nat
           /\ r.view \in Public /\ r.todo \in SUBSET Nat
           /\ r.view.latest \in Nat /\ r.view.runs \in SUBSET (Nat \X Payload)
BY DEF Process, Public

\* An index without runs has no latest one.
LEMMA NothingPublic == CompletedRuns({}) = {} /\ Newest({}) = 0 /\ NoIndex \in Public
BY DEF CompletedRuns, Newest, NoIndex, Public

\* A process at rest is well typed.
LEMMA IdleType == Idle \in Process /\ \A n \in Nat : Shaped(Idle, n)
<1>1. Idle \in Process
  BY NothingPublic DEF Idle, Process, Locations
<1>2. ASSUME NEW n \in Nat PROVE Shaped(Idle, n)
  <2>1. Viewed(Idle, n)
    BY NothingPublic DEF Viewed, Idle, NoIndex
  <2>2. QED
    BY <2>1, Limits, LocationNames DEF Shaped, Idle, Writing
<1>3. QED
  BY <1>1, <1>2

\* A process that fits the rows there are fits more of them.
LEMMA ShapedGrows ==
    ASSUME NEW r \in Process, NEW m \in Nat, NEW n \in Nat, m <= n, Shaped(r, m)
    PROVE  Shaped(r, n)
<1>1. Viewed(r, n)
  <2>1. \A v \in r.view.runs : v[1] \in 1..n
    BY DEF Shaped, Viewed
  <2>2. QED
    BY <2>1 DEF Shaped, Viewed
<1>2. r.run <= n /\ (r.run \in 1..m => r.run \in 1..n)
  BY ProcessParts DEF Shaped
<1>3. QED
  BY <1>1, <1>2 DEF Shaped

\* One process moves, the rows only grow, and the rest keeps its type.
LEMMA TypedBy ==
    ASSUME Typed, NEW p \in Processes, NEW r \in Process, Become(p, r),
           rows' \in Seq(Row), Len(rows) <= Len(rows'), Shaped(r, Len(rows')),
           day' \in 0..Days, holder' \in Processes \cup {"none"}, claims' \subseteq 1..Days,
           details' \subseteq Nat \X Payload, lists' \subseteq Nat \X Nat, index' \in Public,
           used' \in [Kinds -> Nat]
    PROVE  Typed'
<1>1. Len(rows) \in Nat /\ Len(rows') \in Nat
  BY LenProperties DEF Typed, TypeOK
<1>2. proc' \in [Processes -> Process] /\ proc'[p] = r
      /\ \A q \in Processes : q # p => proc'[q] = proc[q]
  BY DEF Become, Typed, TypeOK
<1>3. \A q \in Processes : Shaped(proc[q], Len(rows'))
  BY <1>1, ShapedGrows DEF Typed, TypeOK
<1>4. \A q \in Processes : Shaped(proc'[q], Len(rows'))
  BY <1>2, <1>3
<1>5. \A q \in Processes : proc'[q].run <= Len(rows')
  BY <1>4 DEF Shaped
<1>6. TypeOK'
  BY <1>2, <1>5 DEF TypeOK
<1>7. QED
  BY <1>4, <1>6 DEF Typed

\* Leaving gives the lock back if the process still has it.
LEMMA HolderAfter ==
    ASSUME Typed, NEW p \in Processes, Leave(p)
    PROVE  /\ holder' \in Processes \cup {"none"} /\ Become(p, Idle)
           /\ holder' = IF holder = p THEN "none" ELSE holder
BY DEF Leave, Typed, TypeOK

\* An event keeps the counters natural numbers.
LEMMA Spent ==
    ASSUME Typed, NEW kind \in Kinds, Spend(kind)
    PROVE  used' \in [Kinds -> Nat]
BY DEF Typed, TypeOK, Spend

\* The kinds of events.
LEMMA KindNames == {"command", "crash", "error", "uncertain", "lockLoss"} \subseteq Kinds
BY DEF Kinds, Faults

\* The parts of the state that TypedBy asks for and that a step leaves alone.
LEMMA Rest ==
    ASSUME Typed
    PROVE  /\ rows \in Seq(Row) /\ Len(rows) \in Nat /\ DOMAIN rows = 1..Len(rows)
           /\ \A i \in DOMAIN rows : rows[i] \in Row
           /\ day \in 0..Days /\ holder \in Processes \cup {"none"} /\ claims \subseteq 1..Days
           /\ details \subseteq Nat \X Payload /\ lists \subseteq Nat \X Nat /\ index \in Public
           /\ used \in [Kinds -> Nat]
           /\ \A p \in Processes : proc[p] \in Process /\ Shaped(proc[p], Len(rows))
BY Domains DEF Typed, TypeOK

\* A process leaves and the rest keeps its type.
LEMMA LeaveTyped ==
    ASSUME Typed, NEW p \in Processes, Leave(p),
           rows' \in Seq(Row), Len(rows) <= Len(rows'), day' \in 0..Days,
           claims' \subseteq 1..Days,
           details' \subseteq Nat \X Payload, lists' \subseteq Nat \X Nat, index' \in Public,
           used' \in [Kinds -> Nat]
    PROVE  Typed'
<1>1. Shaped(Idle, Len(rows'))
  BY IdleType, LenProperties
<1>2. QED
  BY <1>1, HolderAfter, IdleType, TypedBy

\* A process publishes on, or goes back to the scan, and the rest keeps its type.
LEMMA ResumeTyped ==
    ASSUME Typed, NEW p \in Processes, Resume(p), proc[p].pc \in Publishing,
           UNCHANGED <<rows, day, claims>>,
           details' \subseteq Nat \X Payload, lists' \subseteq Nat \X Nat, index' \in Public,
           used' \in [Kinds -> Nat]
    PROVE  Typed'
<1>0. rows \in Seq(Row) /\ Len(rows) \in Nat /\ day \in 0..Days /\ claims \subseteq 1..Days
      /\ holder \in Processes \cup {"none"} /\ proc[p] \in Process
      /\ Shaped(proc[p], Len(rows))
  BY Rest
<1>1. CASE proc[p].next = "idle"
  BY <1>0, <1>1, LeaveTyped DEF Resume
<1>2. CASE proc[p].next # "idle"
  <2> DEFINE r == [proc[p] EXCEPT !.pc = proc[p].next, !.next = "idle", !.view = NoIndex,
                                  !.todo = {}]
  <2>1. proc[p].next \in Writing
    BY <1>0, <1>2 DEF Shaped
  <2>2. r \in Process
    BY <1>0, NothingPublic, ProcessParts DEF Process, Locations
  <2>3. /\ r.pc = proc[p].next /\ r.next = "idle" /\ r.view = NoIndex /\ r.todo = {}
        /\ r.run = proc[p].run /\ r.slot = proc[p].slot
    BY <1>0 DEF Process
  <2>4. Become(p, r) /\ holder' = holder
    BY <1>2 DEF Resume
  <2> HIDE DEF r
  <2>4a. r.view.latest = 0 /\ r.view.runs = {} /\ r.todo = {}
    BY <2>3 DEF NoIndex
  <2>5. Viewed(r, Len(rows))
    BY <2>4a, NothingPublic DEF Viewed
  <2>6. Shaped(r, Len(rows))
    BY <1>0, <2>1, <2>3, <2>5, LocationNames DEF Shaped
  <2>7. QED
    BY <1>0, <2>2, <2>4, <2>6, TypedBy
<1>3. QED
  BY <1>1, <1>2

\* A process moves to l, in the scan or out of it.
LEMMA GotoTyped ==
    ASSUME Typed, NEW p \in Processes, NEW l \in Writing, Goto(p, l),
           proc[p].pc \in Writing,
           rows' \in Seq(Row), Len(rows) <= Len(rows'),
           UNCHANGED <<day, holder, claims, files>>, used' \in [Kinds -> Nat]
    PROVE  Typed'
<1>0. /\ Len(rows) \in Nat /\ Len(rows') \in Nat /\ proc[p] \in Process
      /\ Shaped(proc[p], Len(rows))
  BY Rest, LenProperties
<1> DEFINE r == [proc[p] EXCEPT !.pc = l]
<1>1. l \in Locations
  BY LocationNames
<1>2. r \in Process /\ r.pc = l /\ r.next = proc[p].next /\ r.run = proc[p].run
      /\ r.slot = proc[p].slot /\ r.view = proc[p].view /\ r.todo = proc[p].todo
  BY <1>0, <1>1 DEF Process
<1>3. Become(p, r)
  BY DEF Goto
<1> HIDE DEF r
<1>4. Shaped(r, Len(rows))
  BY <1>0, <1>2 DEF Shaped, Viewed, Writing, Publishing
<1>5. Shaped(r, Len(rows'))
  BY <1>0, <1>2, <1>4, ShapedGrows
<1>6. QED
  BY <1>2, <1>3, <1>5, Rest, TypedBy DEF files

\* The public part of the rows.
LEMMA ViewIs ==
    ASSUME rows \in Seq(Row)
    PROVE  /\ View \in Public
           /\ View.runs = {<<i, rows[i].pay>> : i \in PublicRows}
           /\ View.latest = Newest(CompletedRuns(View.runs))
           /\ PublicRows \subseteq DOMAIN rows
           /\ \A v \in View.runs : v[1] \in DOMAIN rows /\ v[2] = rows[v[1]].pay /\ v[2] \in Payload
           /\ \A v, w \in View.runs : v[1] = w[1] => v = w
           /\ CompletedRuns(View.runs) \subseteq DOMAIN rows
           /\ CompletedRuns(View.runs) # {} =>
                  /\ View.latest \in CompletedRuns(View.runs)
                  /\ \A i \in CompletedRuns(View.runs) : i <= View.latest
<1> DEFINE runs == {<<i, rows[i].pay>> : i \in PublicRows}
<1>0. Len(rows) \in Nat /\ DOMAIN rows = 1..Len(rows) /\ \A i \in DOMAIN rows : rows[i] \in Row
  BY Domains
<1>1. PublicRows \subseteq DOMAIN rows
  BY DEF PublicRows
<1>2. \A v \in runs : v[1] \in DOMAIN rows /\ v[2] = rows[v[1]].pay /\ v[2] \in Payload
                      /\ v = <<v[1], v[2]>>
  BY <1>0, <1>1, RowParts
<1>3. \A v, w \in runs : v[1] = w[1] => v = w
  BY <1>2
<1>4. CompletedRuns(runs) \subseteq DOMAIN rows
  BY <1>2 DEF CompletedRuns
<1>5. View.runs = runs /\ View.latest = Newest(CompletedRuns(runs))
      /\ View = [latest |-> Newest(CompletedRuns(runs)), runs |-> runs]
  BY DEF View
<1>6. \A i \in DOMAIN rows : <<i, rows[i].pay>> \in Nat \X Payload
  BY <1>0, RowParts
<1>6a. runs \in SUBSET (Nat \X Payload)
  BY <1>1, <1>6
<1> HIDE DEF runs
<1>7. CASE CompletedRuns(runs) # {}
  <2>1. /\ Newest(CompletedRuns(runs)) \in CompletedRuns(runs)
        /\ \A i \in CompletedRuns(runs) : i <= Newest(CompletedRuns(runs))
    BY <1>0, <1>4, <1>7, Largest DEF Newest
  <2>2. Newest(CompletedRuns(runs)) \in Nat
    BY <1>0, <1>4, <2>1
  <2>3. QED
    BY <1>1, <1>2, <1>3, <1>4, <1>5, <1>6a, <2>1, <2>2 DEF runs, Public
<1>8. CASE CompletedRuns(runs) = {}
  <2>1. Newest(CompletedRuns(runs)) = 0
    BY <1>8 DEF Newest
  <2>2. QED
    BY <1>1, <1>2, <1>3, <1>4, <1>5, <1>6a, <1>8, <2>1 DEF runs, Public
<1>9. QED
  BY <1>7, <1>8

\* A process that publishes its last words: everything else is forgotten.
LEMMA PublishIdleTyped ==
    ASSUME Typed, NEW p \in Processes, PublishThen(p, Idle, "idle"),
           rows' \in Seq(Row), Len(rows) <= Len(rows'),
           UNCHANGED <<day, files>>, claims' \subseteq 1..Days, used' \in [Kinds -> Nat]
    PROVE  Typed'
<1> DEFINE r == [Idle EXCEPT !.pc = "publish", !.next = "idle"]
<1>0. Len(rows') \in Nat /\ 0 \in 0..Days
  BY LenProperties, Limits
<1>1. r \in Process
  BY IdleType DEF Process, Locations
<1>2. /\ r.pc = "publish" /\ r.slot = 0 /\ r.run = 0 /\ r.next = "idle" /\ r.todo = {}
      /\ r.view.latest = 0 /\ r.view.runs = {}
  BY DEF Idle, NoIndex
<1>3. Become(p, r) /\ holder' = holder
  BY DEF PublishThen
<1> HIDE DEF r
<1>4. Viewed(r, Len(rows'))
  BY <1>2, NothingPublic DEF Viewed
<1>5. Shaped(r, Len(rows'))
  BY <1>0, <1>2, <1>4 DEF Shaped, Writing, Publishing
<1>6. QED
  BY <1>1, <1>3, <1>5, Rest, TypedBy DEF files

-----------------------------------------------------------------------------
(* What each step makes of the rows.                                        *)

\* Every row but the i-th stays, and the i-th keeps its date.
OnlyRow(i) ==
    /\ rows' \in Seq(Row) /\ Len(rows') = Len(rows) /\ DOMAIN rows' = DOMAIN rows
    /\ \A j \in DOMAIN rows : j # i => rows'[j] = rows[j]
    /\ rows'[i].slot = rows[i].slot

\* save_run rewrites the status and the counts of one row and nothing else.
LEMMA SavedRow ==
    ASSUME rows \in Seq(Row), NEW i \in DOMAIN rows, NEW st \in Statuses, NEW r \in Process,
           SaveRun(i, st, r)
    PROVE  /\ OnlyRow(i)
           /\ rows'[i].status = st /\ rows'[i].pay.status = st
           /\ rows'[i].pay.found = r.found /\ rows'[i].pay.failed = r.failed
           /\ rows'[i].saved = rows[i].saved /\ rows'[i].artifacts = rows[i].artifacts
<1> DEFINE y == [status |-> st, found |-> r.found, failed |-> r.failed]
           e == [rows[i] EXCEPT !.status = st, !.pay = y]
<1>0. rows[i] \in Row
  BY Domains
<1>1. y \in Payload
  BY ProcessParts DEF Payload
<1>2. e \in Row /\ e.status = st /\ e.pay = y /\ e.slot = rows[i].slot
      /\ e.saved = rows[i].saved /\ e.artifacts = rows[i].artifacts
  <2> HIDE DEF y
  <2> QED
    BY <1>0, <1>1 DEF Row
<1>3. rows' = [rows EXCEPT ![i] = e]
  BY DEF SaveRun
<1>4. y.status = st /\ y.found = r.found /\ y.failed = r.failed
  OBVIOUS
<1> HIDE DEF e, y
<1>5. QED
  BY <1>2, <1>3, <1>4, WrittenRow DEF OnlyRow

\* The checkpoint of a stock: c more results, and the counts in the payload.
LEMMA CountedRow ==
    ASSUME rows \in Seq(Row), NEW i \in DOMAIN rows, NEW r \in Process, NEW c \in Nat,
           rows' = [rows EXCEPT ![i].pay = [status |-> "running", found |-> r.found,
                                            failed |-> r.failed],
                                ![i].saved = @ + c]
    PROVE  /\ OnlyRow(i)
           /\ rows'[i].status = rows[i].status /\ rows'[i].pay.status = "running"
           /\ rows'[i].pay.found = r.found /\ rows'[i].pay.failed = r.failed
           /\ rows'[i].saved = rows[i].saved + c /\ rows'[i].artifacts = rows[i].artifacts
<1> DEFINE y == [status |-> "running", found |-> r.found, failed |-> r.failed]
           n == rows[i].saved + c
           e == [rows[i] EXCEPT !.pay = y, !.saved = n]
<1>0. rows[i] \in Row /\ rows[i].saved \in Nat /\ n \in Nat
  BY Domains, RowParts
<1>1. y \in Payload
  BY ProcessParts DEF Payload, Statuses
<1>2. e \in Row /\ e.status = rows[i].status /\ e.pay = y /\ e.slot = rows[i].slot
      /\ e.saved = n /\ e.artifacts = rows[i].artifacts
  <2> HIDE DEF y, n
  <2> QED
    BY <1>0, <1>1 DEF Row
<1>3. rows' = [rows EXCEPT ![i] = e]
  OBVIOUS
<1>4. y.status = "running" /\ y.found = r.found /\ y.failed = r.failed
  OBVIOUS
<1> HIDE DEF e, y
<1>5. QED
  BY <1>2, <1>3, <1>4, WrittenRow DEF OnlyRow

\* Completing writes verdict, counts and artifacts to the process's own row.
LEMMA CompletedRow ==
    ASSUME Typed, NEW p \in Processes, Complete(p)
    PROVE  LET i == proc[p].run IN
           /\ i \in DOMAIN rows /\ OnlyRow(i)
           /\ rows'[i].status = Verdict(proc[p]) /\ rows'[i].pay.status = Verdict(proc[p])
           /\ rows'[i].pay.found = proc[p].found /\ rows'[i].pay.failed = proc[p].failed
           /\ rows'[i].saved = rows[i].saved /\ rows'[i].artifacts
<1> DEFINE i == proc[p].run
           st == Verdict(proc[p])
           y == [status |-> st, found |-> proc[p].found, failed |-> proc[p].failed]
           e == [rows[i] EXCEPT !.status = st, !.pay = y, !.artifacts = TRUE]
<1>0. /\ proc[p] \in Process /\ Shaped(proc[p], Len(rows)) /\ rows \in Seq(Row)
      /\ Len(rows) \in Nat /\ DOMAIN rows = 1..Len(rows) /\ proc[p].pc = "complete"
  BY Rest DEF Complete, At
<1>1. i \in DOMAIN rows
  BY <1>0 DEF Shaped, Writing
<1>2. rows[i] \in Row
  BY <1>0, <1>1, Domains
<1>3. st \in Statuses
  BY DEF Verdict, Statuses, Completed
<1>4. rows' = [rows EXCEPT ![i] = e]
  BY DEF Complete
<1>4a. y.status = st /\ y.found = proc[p].found /\ y.failed = proc[p].failed
  OBVIOUS
<1> HIDE DEF st
<1>5. y \in Payload
  BY <1>0, <1>3, ProcessParts DEF Payload
<1>6. e \in Row /\ e.status = st /\ e.pay = y /\ e.slot = rows[i].slot
      /\ e.saved = rows[i].saved /\ e.artifacts
  <2> HIDE DEF y, i
  <2> QED
    BY <1>2, <1>3, <1>5 DEF Row
<1> HIDE DEF y, e, i
<1>7. OnlyRow(i) /\ rows'[i] = e
  BY <1>0, <1>1, <1>4, <1>6, WrittenRow DEF OnlyRow
<1>8. QED
  BY <1>1, <1>4a, <1>6, <1>7 DEF i, st

\* A new row is running and empty.
LEMMA NewRowType ==
    ASSUME NEW d \in Nat
    PROVE  /\ NewRow(d) \in Row /\ NewRow(d).slot = d /\ NewRow(d).status = "running"
           /\ NewRow(d).pay.status = "running" /\ NewRow(d).saved = 0
           /\ NewRow(d).pay.found = 0 /\ NewRow(d).pay.failed = 0
BY DEF NewRow, Row, Payload, Statuses

\* A new run after the sweep.
LEMMA InsertedRow ==
    ASSUME Typed, NEW p \in Processes, Insert(p)
    PROVE  /\ rows' \in Seq(Row) /\ Len(rows') = Len(rows) + 1
           /\ DOMAIN rows = 1..Len(rows) /\ DOMAIN rows' = 1..(Len(rows) + 1)
           /\ \A i \in DOMAIN rows :
                 rows'[i] = IF i \in proc[p].swept THEN Interrupted(rows[i]) ELSE rows[i]
           /\ rows'[Len(rows) + 1] = NewRow(proc[p].slot)
<1>0. rows \in Seq(Row) /\ Len(rows) \in Nat /\ DOMAIN rows = 1..Len(rows)
      /\ proc[p].slot \in Nat
  BY Rest, ProcessParts
<1> DEFINE s == Swept(p)
           e == NewRow(proc[p].slot)
<1>1. /\ s \in Seq(Row) /\ Len(s) = Len(rows) /\ DOMAIN s = DOMAIN rows
      /\ \A i \in DOMAIN rows : s[i] = IF i \in proc[p].swept THEN Interrupted(rows[i])
                                       ELSE rows[i]
  BY <1>0, SweptRows
<1>2. rows' = Append(s, e) /\ e \in Row
  BY <1>0, NewRowType DEF Insert
<1> HIDE DEF s, e
<1>3. QED
  BY <1>0, <1>1, <1>2, AddedRow DEF e

-----------------------------------------------------------------------------
(* What each step makes of the process.                                     *)

\* r is what the process was, in another place.
Like(r, q) ==
    /\ r \in Process
    /\ r.run = q.run /\ r.slot = q.slot /\ r.view = q.view /\ r.todo = q.todo
    /\ r.found = q.found /\ r.failed = q.failed

\* A process that only moves remembers what it did.
LEMMA LikeGoto ==
    ASSUME NEW q \in Process, NEW l \in Locations
    PROVE  LET r == [q EXCEPT !.pc = l] IN Like(r, q) /\ r.pc = l /\ r.next = q.next
BY DEF Like, Process

\* Another date and lock, or none, and the first step.
LEMMA StartStep ==
    ASSUME Typed, NEW p \in Processes, Tick(p) \/ Scan(p) \/ Export(p)
    PROVE  /\ At(p, "idle") /\ holder = "none" /\ holder' = p
           /\ UNCHANGED <<day, rows, claims, files>>
           /\ UNCHANGED used \/ Spend("command")
           /\ \E r \in Process :
                /\ Become(p, r) /\ r.pc \in {"sweep", "publish"} /\ r.next = "idle" /\ r.run = 0
                /\ r.slot \in 0..Days /\ r.view = NoIndex /\ r.todo = {} /\ r.swept = {}
                /\ r.found = 0 /\ r.failed = 0
<1>0. day \in 0..Days /\ day \in Nat
  BY Rest, Limits
<1>1. Tick(p) \/ Scan(p) =>
          Scheduled(p) \/ (Acquire(p) /\ Become(p, [Idle EXCEPT !.pc = "sweep"]))
  BY DEF Tick, Scan
<1>2. /\ At(p, "idle") /\ holder = "none" /\ holder' = p
      /\ UNCHANGED <<day, rows, claims, files>> /\ (UNCHANGED used \/ Spend("command"))
  BY DEF Tick, Scan, Export, Scheduled, Acquire
<1>3. CASE Scheduled(p)
  <2> DEFINE r == [Idle EXCEPT !.pc = "sweep", !.slot = day]
  <2>1. r \in Process
    BY <1>0, IdleType DEF Process, Locations
  <2>2. r.pc = "sweep" /\ r.next = "idle" /\ r.run = 0 /\ r.slot = day /\ r.view = NoIndex
        /\ r.todo = {} /\ r.swept = {} /\ r.found = 0 /\ r.failed = 0
    BY DEF Idle
  <2>3. Become(p, r)
    BY <1>3 DEF Scheduled
  <2> HIDE DEF r
  <2>4. QED
    BY <1>0, <1>2, <2>1, <2>2, <2>3
<1>4. ASSUME NEW l \in {"sweep", "publish"}, Become(p, [Idle EXCEPT !.pc = l])
      PROVE \E r \in Process :
                /\ Become(p, r) /\ r.pc \in {"sweep", "publish"} /\ r.next = "idle" /\ r.run = 0
                /\ r.slot \in 0..Days /\ r.view = NoIndex /\ r.todo = {} /\ r.swept = {}
                /\ r.found = 0 /\ r.failed = 0
  <2> DEFINE r == [Idle EXCEPT !.pc = l]
  <2>1. r \in Process
    BY IdleType DEF Process, Locations
  <2>2. r.pc = l /\ r.next = "idle" /\ r.run = 0 /\ r.slot = 0 /\ r.view = NoIndex
        /\ r.todo = {} /\ r.swept = {} /\ r.found = 0 /\ r.failed = 0
    BY DEF Idle
  <2>3. Become(p, r)
    BY <1>4
  <2> HIDE DEF r
  <2>4. QED
    BY <2>1, <2>2, <2>3, Limits
<1>5. Export(p) => Become(p, [Idle EXCEPT !.pc = "publish"])
  BY DEF Export
<1>6. QED
  BY <1>1, <1>2, <1>3, <1>4, <1>5

\* The sweep remembers the rows that are running.
LEMMA SweepStep ==
    ASSUME Typed, NEW p \in Processes, Sweep(p)
    PROVE  /\ At(p, "sweep") /\ UNCHANGED <<day, holder, rows, claims, files, used>>
           /\ \E r \in Process :
                /\ Become(p, r) /\ Like(r, proc[p]) /\ r.pc = "begin" /\ r.next = proc[p].next
                /\ r.swept = {i \in DOMAIN rows : rows[i].status = "running"}
<1> DEFINE s == {i \in DOMAIN rows : rows[i].status = "running"}
           b == proc[p].slot \in claims
           r == [proc[p] EXCEPT !.pc = "begin", !.swept = s, !.claimed = b]
<1>0. proc[p] \in Process /\ s \in SUBSET Nat /\ b \in BOOLEAN
  BY Rest
<1>1. At(p, "sweep") /\ UNCHANGED <<day, holder, rows, claims, files, used>> /\ Become(p, r)
  BY DEF Sweep
<1> HIDE DEF s, b
<1>2. r \in Process
  BY <1>0 DEF Process, Locations
<1>3. r.pc = "begin" /\ r.next = proc[p].next /\ r.swept = s
  BY <1>0 DEF Process
<1>4. Like(r, proc[p])
  BY <1>0, <1>2 DEF Like, Process
<1> HIDE DEF r
<1>5. QED
  BY <1>1, <1>2, <1>3, <1>4 DEF s

\* The process that inserted its run goes on to publish it, or is gone.
LEMMA InsertStep ==
    ASSUME Typed, NEW p \in Processes, Insert(p), At(p, "begin")
    PROVE  \/ Leave(p) /\ Spend("uncertain")
           \/ /\ UNCHANGED <<holder, used>>
              /\ \E r \in Process :
                   /\ Become(p, r) /\ r.pc = "publish" /\ r.next = "save"
                   /\ r.run = Len(rows) + 1 /\ r.slot = proc[p].slot
                   /\ r.view = proc[p].view /\ r.todo = proc[p].todo
                   /\ r.found = proc[p].found /\ r.failed = proc[p].failed
<1>0. proc[p] \in Process /\ Len(rows) + 1 \in Nat
  BY Rest
<1> DEFINE r == [[proc[p] EXCEPT !.run = Len(rows) + 1, !.swept = {}]
                    EXCEPT !.pc = "publish", !.next = "save"]
<1>1. CASE PublishThen(p, [proc[p] EXCEPT !.run = Len(rows) + 1, !.swept = {}], "save")
           /\ UNCHANGED used
  <2>1. Become(p, r) /\ UNCHANGED <<holder, used>>
    BY <1>1 DEF PublishThen
  <2>2. r \in Process
    BY <1>0 DEF Process, Locations
  <2>3. /\ r.pc = "publish" /\ r.next = "save" /\ r.run = Len(rows) + 1
        /\ r.slot = proc[p].slot /\ r.view = proc[p].view /\ r.todo = proc[p].todo
        /\ r.found = proc[p].found /\ r.failed = proc[p].failed
    BY <1>0 DEF Process
  <2> HIDE DEF r
  <2>4. QED
    BY <2>1, <2>2, <2>3
<1>2. QED
  BY <1>1 DEF Insert

\* A stock is counted: c candidates and f failures more.
LEMMA StockStep ==
    ASSUME Typed, NEW p \in Processes, Stock(p)
    PROVE  /\ At(p, "stock") /\ UNCHANGED <<day, holder, claims, files>>
           /\ \E c \in {0, 1}, f \in {0, 1}, r \in Process :
                /\ r.pc = "stock" /\ r.next = proc[p].next /\ r.run = proc[p].run
                /\ r.slot = proc[p].slot /\ r.view = proc[p].view /\ r.todo = proc[p].todo
                /\ r.found = proc[p].found + c /\ r.failed = proc[p].failed + f
                /\ rows' = [rows EXCEPT ![r.run].pay = [status |-> "running", found |-> r.found,
                                                        failed |-> r.failed],
                                        ![r.run].saved = @ + c]
                /\ \/ Goto(p, "fail") /\ Spend("uncertain")
                   \/ /\ UNCHANGED used
                      /\ \/ Become(p, [r EXCEPT !.pc = "progress", !.next = AfterStock(r)])
                         \/ Become(p, [r EXCEPT !.pc = AfterStock(r)])
<1>1. PICK outcome \in {"candidate", "excluded", "failed"} :
          LET c == IF outcome = "candidate" THEN 1 ELSE 0
              f == IF outcome = "failed" THEN 1 ELSE 0
              r == [proc[p] EXCEPT !.done = @ + 1, !.found = @ + c, !.failed = @ + f,
                                   !.streak = IF f = 1 THEN @ + 1 ELSE 0]
              l == AfterStock(r)
          IN /\ rows' = [rows EXCEPT
                           ![r.run].pay = [status |-> "running", found |-> r.found,
                                           failed |-> r.failed],
                           ![r.run].saved = @ + c]
             /\ Committed(p, Become(p, IF r.done % ProgressEvery = 0
                                       THEN [r EXCEPT !.pc = "progress", !.next = l]
                                       ELSE [r EXCEPT !.pc = l]))
  BY DEF Stock
<1>2. At(p, "stock") /\ UNCHANGED <<day, holder, claims, files>>
  BY DEF Stock
<1> DEFINE c == IF outcome = "candidate" THEN 1 ELSE 0
           f == IF outcome = "failed" THEN 1 ELSE 0
           k == IF f = 1 THEN proc[p].streak + 1 ELSE 0
           r == [proc[p] EXCEPT !.done = proc[p].done + 1, !.found = proc[p].found + c,
                                !.failed = proc[p].failed + f, !.streak = k]
<1>3. c \in {0, 1} /\ f \in {0, 1}
  OBVIOUS
<1>4. proc[p] \in Process /\ proc[p].pc = "stock"
  BY <1>2, Rest DEF At
<1>5. proc[p].done + 1 \in Nat /\ proc[p].found + c \in Nat /\ proc[p].failed + f \in Nat
      /\ k \in Nat
  BY <1>3, <1>4, ProcessParts
<1>6. rows' = [rows EXCEPT ![r.run].pay = [status |-> "running", found |-> r.found,
                                           failed |-> r.failed],
                           ![r.run].saved = @ + c]
  BY <1>1
<1>7. \/ Goto(p, "fail") /\ Spend("uncertain")
      \/ /\ UNCHANGED used
         /\ \/ Become(p, [r EXCEPT !.pc = "progress", !.next = AfterStock(r)])
            \/ Become(p, [r EXCEPT !.pc = AfterStock(r)])
  BY <1>1 DEF Committed
<1> HIDE DEF c, f, k
<1>8. r \in Process
  BY <1>4, <1>5 DEF Process
<1>9. /\ r.pc = "stock" /\ r.next = proc[p].next /\ r.run = proc[p].run
      /\ r.slot = proc[p].slot /\ r.view = proc[p].view /\ r.todo = proc[p].todo
      /\ r.found = proc[p].found + c /\ r.failed = proc[p].failed + f
  BY <1>4 DEF Process
<1> HIDE DEF r
<1>10. QED
  BY <1>2, <1>3, <1>6, <1>7, <1>8, <1>9

\* A scan goes on after a stock only below the limit of failures.
LEMMA AfterStockIs ==
    ASSUME NEW r \in Process
    PROVE  /\ AfterStock(r) \in {"fail", "complete", "stock"}
           /\ AfterStock(r) # "fail" => r.failed = 0 \/ r.failed < MaxFailed
<1>1. r.failed \in Nat /\ MaxFailed \in Nat /\ r.streak \in Nat /\ MaxStreak \in Nat
  BY ProcessParts, Limits
<1>2. QED
  BY <1>1 DEF AfterStock, ThresholdReached

\* Where a counted stock leaves the process.
LEMMA StockPlaces ==
    ASSUME NEW r \in Process, r.next = "idle", NEW p \in Processes,
           \/ Become(p, [r EXCEPT !.pc = "progress", !.next = AfterStock(r)])
           \/ Become(p, [r EXCEPT !.pc = AfterStock(r)])
    PROVE  \E s \in Process :
             /\ Become(p, s) /\ Like(s, r)
             /\ \/ s.pc = "progress" /\ s.next = AfterStock(r)
                \/ s.pc = AfterStock(r) /\ s.next = "idle"
<1> DEFINE l == AfterStock(r)
<1>1. l \in Locations
  BY AfterStockIs DEF Locations
<1>2. ASSUME Become(p, [r EXCEPT !.pc = "progress", !.next = l])
      PROVE \E s \in Process : Become(p, s) /\ Like(s, r) /\ s.pc = "progress" /\ s.next = l
  <2> DEFINE s == [r EXCEPT !.pc = "progress", !.next = l]
  <2> HIDE DEF l
  <2>1. s \in Process
    BY <1>1 DEF Process, Locations
  <2>2. s.pc = "progress" /\ s.next = l /\ Like(s, r)
    BY <2>1 DEF Process, Like
  <2>3. Become(p, s)
    BY <1>2
  <2> HIDE DEF s
  <2>4. QED
    BY <2>1, <2>2, <2>3
<1>3. ASSUME Become(p, [r EXCEPT !.pc = l])
      PROVE \E s \in Process : Become(p, s) /\ Like(s, r) /\ s.pc = l /\ s.next = "idle"
  <2> DEFINE s == [r EXCEPT !.pc = l]
  <2> HIDE DEF l
  <2>1. s.pc = l /\ s.next = "idle" /\ Like(s, r)
    BY <1>1, LikeGoto
  <2>2. Become(p, s) /\ s \in Process
    BY <1>3, <2>1 DEF Like
  <2> HIDE DEF s
  <2>3. QED
    BY <2>1, <2>2
<1>4. QED
  BY <1>2, <1>3

\* A publication reads the runs.
LEMMA PublishStep ==
    ASSUME Typed, NEW p \in Processes, Publish(p)
    PROVE  /\ At(p, "publish") /\ UNCHANGED <<day, holder, rows, claims, files, used>>
           /\ \E r \in Process :
                /\ Become(p, r) /\ r.pc = "files" /\ r.next = proc[p].next
                /\ r.run = proc[p].run /\ r.slot = proc[p].slot
                /\ r.found = proc[p].found /\ r.failed = proc[p].failed
                /\ r.view = View /\ r.todo = CompletedRuns(View.runs)
<1> DEFINE v == View
           t == CompletedRuns(View.runs)
           r == [proc[p] EXCEPT !.pc = "files", !.view = v, !.todo = t]
<1>0. proc[p] \in Process /\ v \in Public /\ t \in SUBSET Nat
  BY Rest, ViewIs
<1>1. At(p, "publish") /\ UNCHANGED <<day, holder, rows, claims, files, used>> /\ Become(p, r)
  BY DEF Publish
<1> HIDE DEF v, t
<1>2. r \in Process
  BY <1>0 DEF Process, Locations
<1>3. r.pc = "files" /\ r.next = proc[p].next /\ r.view = v /\ r.todo = t
      /\ r.run = proc[p].run /\ r.slot = proc[p].slot
      /\ r.found = proc[p].found /\ r.failed = proc[p].failed
  BY <1>0 DEF Process
<1> HIDE DEF r
<1>4. QED
  BY <1>1, <1>2, <1>3 DEF v, t

\* Going to the index changes only the view and what is left to write.
LEMMA ToIndexStep ==
    ASSUME Typed, NEW p \in Processes, NEW v \in Public, ToIndex(p, v)
    PROVE  \E r \in Process :
             /\ Become(p, r) /\ r.pc = "index" /\ r.next = proc[p].next
             /\ r.run = proc[p].run /\ r.slot = proc[p].slot
             /\ r.found = proc[p].found /\ r.failed = proc[p].failed
             /\ r.view = v /\ r.todo = proc[p].todo
<1> DEFINE r == [proc[p] EXCEPT !.pc = "index", !.view = v]
<1>0. proc[p] \in Process /\ Become(p, r)
  BY Rest DEF ToIndex
<1>1. r \in Process
  BY <1>0 DEF Process, Locations
<1>2. r.pc = "index" /\ r.next = proc[p].next /\ r.view = v /\ r.todo = proc[p].todo
      /\ r.run = proc[p].run /\ r.slot = proc[p].slot
      /\ r.found = proc[p].found /\ r.failed = proc[p].failed
  BY <1>0 DEF Process
<1> HIDE DEF r
<1>3. QED
  BY <1>0, <1>1, <1>2

\* What is published of a completed run of the view.
LEMMA PublishedIs ==
    ASSUME NEW q \in Process, NEW n \in Nat, Viewed(q, n), NEW i \in q.todo
    PROVE  LET pay == (CHOOSE r \in q.view.runs : r[1] = i)[2] IN
           <<i, pay>> \in q.view.runs /\ pay \in Payload /\ pay.status \in Completed /\ i \in 1..n
<1>1. PICK s \in q.view.runs : s[2].status \in Completed /\ s[1] = i
  BY DEF Viewed, CompletedRuns
<1> DEFINE r == CHOOSE x \in q.view.runs : x[1] = i
<1>2. r \in q.view.runs /\ r[1] = i
  BY <1>1
<1> HIDE DEF r
<1>3. r = s
  BY <1>1, <1>2 DEF Viewed
<1>4. r \in Nat \X Payload
  BY <1>2, ProcessParts
<1>5. r = <<i, r[2]>> /\ r[2] \in Payload
  BY <1>2, <1>4
<1>6. QED
  BY <1>1, <1>2, <1>3, <1>5 DEF r, Viewed

\* A run's files are written, for content that is a payload.
LEMMA ReplaceType ==
    ASSUME NEW i \in Nat, NEW S, NEW content \in S, NEW f, f \subseteq Nat \X S
    PROVE  Replace(f, i, content) \subseteq Nat \X S
BY DEF Replace

\* One file pair more, or the index next, or the publication is over.
LEMMA FilesStep ==
    ASSUME Typed, NEW p \in Processes, WriteFiles(p)
    PROVE  LET i   == Max(proc[p].todo)
               pay == Published(p, i)
           IN
           /\ At(p, "files") /\ UNCHANGED <<day, rows, claims, index, used>>
           /\ \/ /\ proc[p].todo = {} /\ ToIndex(p, proc[p].view)
                 /\ UNCHANGED <<details, lists, holder>>
              \/ /\ proc[p].todo # {} /\ Resume(p) /\ UNCHANGED <<details, lists>>
              \/ /\ i \in proc[p].todo /\ i \in DOMAIN rows /\ rows[i].saved = pay.found
                 /\ pay \in Payload /\ pay.status \in Completed /\ <<i, pay>> \in proc[p].view.runs
                 /\ details' = Replace(details, i, pay)
                 /\ lists' = Replace(lists, i, rows[i].saved)
                 /\ UNCHANGED holder
                 /\ \E r \in Process : /\ Become(p, r) /\ r.pc = "files" /\ r.next = proc[p].next
                                       /\ r.run = proc[p].run /\ r.slot = proc[p].slot
                                       /\ r.found = proc[p].found /\ r.failed = proc[p].failed
                                       /\ r.view = proc[p].view /\ r.todo = proc[p].todo \ {i}
<1> DEFINE i   == Max(proc[p].todo)
           pay == Published(p, i)
           r   == [proc[p] EXCEPT !.todo = @ \ {i}]
<1>0. proc[p] \in Process /\ Shaped(proc[p], Len(rows)) /\ Len(rows) \in Nat
      /\ DOMAIN rows = 1..Len(rows)
  BY Rest
<1>1. At(p, "files") /\ UNCHANGED <<day, rows, claims, index, used>>
  BY DEF WriteFiles
<1>2. CASE proc[p].todo = {}
  BY <1>1, <1>2 DEF WriteFiles
<1>3. CASE proc[p].todo # {} /\ rows[i].saved # pay.found
  BY <1>1, <1>3 DEF WriteFiles
<1>4. CASE proc[p].todo # {} /\ rows[i].saved = pay.found
  <2>1. proc[p].todo \subseteq 1..Len(rows)
    BY <1>0 DEF Shaped, Viewed, CompletedRuns
  <2>2. i \in proc[p].todo
    BY <1>0, <1>4, <2>1, Largest
  <2>3. pay \in Payload /\ pay.status \in Completed /\ <<i, pay>> \in proc[p].view.runs
    <3>1. pay = (CHOOSE x \in proc[p].view.runs : x[1] = i)[2] /\ Viewed(proc[p], Len(rows))
      BY <1>0 DEF Published, Shaped
    <3> HIDE DEF i, pay
    <3>2. QED
      BY SMTT(30), <1>0, <2>2, <3>1, PublishedIs
  <2>4. /\ details' = Replace(details, i, pay) /\ lists' = Replace(lists, i, rows[i].saved)
        /\ Become(p, r) /\ UNCHANGED holder
    BY <1>4 DEF WriteFiles
  <2>5. i \in DOMAIN rows
    BY <1>0, <2>1, <2>2
  <2> HIDE DEF i, pay
  <2>6. proc[p].todo \ {i} \in SUBSET Nat
    BY <1>0, ProcessParts
  <2>7. r \in Process
    BY <1>0, <2>6 DEF Process
  <2>8. /\ r.pc = "files" /\ r.next = proc[p].next /\ r.run = proc[p].run
        /\ r.slot = proc[p].slot
        /\ r.found = proc[p].found /\ r.failed = proc[p].failed
        /\ r.view = proc[p].view /\ r.todo = proc[p].todo \ {i}
    BY <1>0, <1>1 DEF Process, At
  <2> HIDE DEF r
  <2>9. QED
    BY <1>1, <1>4, <2>2, <2>3, <2>4, <2>5, <2>7, <2>8 DEF i, pay
<1>5. QED
  BY <1>2, <1>3, <1>4

\* A process that dies may leave the details of a run, and what it writes is what
\* it would have written.
LEMMA CrashFiles ==
    ASSUME Typed, NEW p \in Processes, Crash(p)
    PROVE  \/ UNCHANGED details
           \/ \E i \in Nat, pay \in Payload :
                /\ i \in DOMAIN rows /\ rows[i].saved = pay.found /\ pay.status \in Completed
                /\ <<i, pay>> \in proc[p].view.runs
                /\ details' = Replace(details, i, pay)
<1> DEFINE i   == Max(proc[p].todo)
           pay == Published(p, i)
<1>0. proc[p] \in Process /\ Shaped(proc[p], Len(rows)) /\ Len(rows) \in Nat
      /\ DOMAIN rows = 1..Len(rows)
  BY Rest
<1>1. CASE UNCHANGED details
  BY <1>1
<1>2. CASE /\ proc[p].todo # {} /\ rows[i].saved = pay.found
           /\ details' = Replace(details, i, pay)
  <2>1. proc[p].todo \subseteq 1..Len(rows)
    BY <1>0 DEF Shaped, Viewed, CompletedRuns
  <2>2. i \in proc[p].todo
    BY <1>0, <1>2, <2>1, Largest
  <2>3. pay \in Payload /\ pay.status \in Completed /\ <<i, pay>> \in proc[p].view.runs
    <3>1. pay = (CHOOSE x \in proc[p].view.runs : x[1] = i)[2] /\ Viewed(proc[p], Len(rows))
      BY <1>0 DEF Published, Shaped
    <3> HIDE DEF i, pay
    <3>2. QED
      BY SMTT(30), <1>0, <2>2, <3>1, PublishedIs
  <2> HIDE DEF i, pay
  <2>4. i \in DOMAIN rows /\ i \in Nat
    BY <1>0, <2>1, <2>2
  <2>5. QED
    BY <1>2, <2>3, <2>4
<1>3. QED
  BY <1>1, <1>2 DEF Crash

\* ... and keeps the types when the view is one of rows that exist.
LEMMA ToIndexTyped ==
    ASSUME Typed, NEW p \in Processes, NEW v \in Public, ToIndex(p, v),
           proc[p].pc \in Publishing,
           \A x \in v.runs : x[1] \in DOMAIN rows,
           \A x, y \in v.runs : x[1] = y[1] => x = y,
           v.latest = Newest(CompletedRuns(v.runs)),
           proc[p].todo = {},
           UNCHANGED <<day, holder, rows, claims, files, used>>
    PROVE  Typed'
<1>0. proc[p] \in Process /\ Shaped(proc[p], Len(rows)) /\ DOMAIN rows = 1..Len(rows)
      /\ rows \in Seq(Row) /\ Len(rows) \in Nat
  BY Rest
<1>1. PICK r \in Process :
          /\ Become(p, r) /\ r.pc = "index" /\ r.next = proc[p].next
          /\ r.run = proc[p].run /\ r.slot = proc[p].slot
          /\ r.view = v /\ r.todo = proc[p].todo
  BY ToIndexStep
<1>2. Viewed(r, Len(rows))
  BY <1>0, <1>1 DEF Viewed
<1>3. Shaped(r, Len(rows))
  BY <1>0, <1>1, <1>2 DEF Shaped, Writing, Publishing
<1>4. QED
  BY <1>0, <1>1, <1>3, Rest, TypedBy DEF files

\* The initial state is well typed.
LEMMA TypedInit == Init => Typed
<1> SUFFICES ASSUME Init PROVE Typed
  OBVIOUS
<1>1. rows = <<>> /\ rows \in Seq(Row) /\ Len(rows) = 0
  BY EmptySeq DEF Init
<1>2. proc \in [Processes -> Process] /\ \A p \in Processes : proc[p] = Idle
  BY IdleType DEF Init
<1>2a. Shaped(Idle, 0) /\ Idle.run = 0
  BY IdleType DEF Idle
<1>3. \A p \in Processes : Shaped(proc[p], Len(rows)) /\ proc[p].run <= Len(rows)
  BY <1>1, <1>2, <1>2a
<1>4. used \in [Kinds -> Nat]
  BY DEF Init
<1>5. TypeOK
  BY <1>1, <1>2, <1>3, <1>4, Limits, NothingPublic DEF Init, TypeOK
<1>6. QED
  BY <1>3, <1>5 DEF Typed

\* Beginning a scan keeps the types.
LEMMA BeginTyped == ASSUME Typed, NEW p \in Processes, Begin(p) PROVE Typed'
<1>0. /\ At(p, "begin") /\ UNCHANGED <<day, files>>
      /\ proc[p] \in Process /\ Shaped(proc[p], Len(rows)) /\ rows \in Seq(Row)
      /\ Len(rows) \in Nat /\ claims \subseteq 1..Days /\ used \in [Kinds -> Nat]
  BY Rest DEF Begin
<1>1. CASE Insert(p)
  <2>1. rows' \in Seq(Row) /\ Len(rows') = Len(rows) + 1
    BY <1>1, InsertedRow
  <2>2. claims' \subseteq 1..Days
    BY <1>0, <1>1, Limits DEF Insert, Shaped
  <2>3. CASE Leave(p) /\ Spend("uncertain")
    <3>1. used' \in [Kinds -> Nat]
      BY <2>3, Spent, KindNames
    <3>2. QED
      BY <1>0, <2>1, <2>2, <2>3, <3>1, LeaveTyped, Rest DEF files
  <2>4. ASSUME UNCHANGED <<holder, used>>, NEW r \in Process,
               Become(p, r), r.pc = "publish", r.next = "save",
               r.run = Len(rows) + 1, r.slot = proc[p].slot,
               r.view = proc[p].view, r.todo = proc[p].todo
        PROVE Typed'
    <3>1. Viewed(r, Len(rows'))
      <4>1. \A v \in r.view.runs : v[1] \in 1..Len(rows')
        BY <1>0, <2>1, <2>4 DEF Shaped, Viewed
      <4>2. QED
        BY <1>0, <2>4, <4>1 DEF Shaped, Viewed
    <3>2. Shaped(r, Len(rows'))
      BY <1>0, <2>1, <2>4, <3>1 DEF At, Shaped, Writing, Publishing
    <3>3. QED
      BY <1>0, <2>1, <2>2, <2>4, <3>2, TypedBy, Rest DEF files
  <2>5. QED
    BY <1>0, <1>1, <2>3, <2>4, InsertStep
<1>2. CASE /\ rows' = Swept(p) /\ UNCHANGED claims
           /\ \/ PublishThen(p, Idle, "idle") /\ UNCHANGED used
              \/ Leave(p) /\ Spend("uncertain")
  <2>1. rows' \in Seq(Row) /\ Len(rows') = Len(rows)
    BY <1>0, <1>2, SweptRows
  <2>2. used' \in [Kinds -> Nat]
    BY <1>0, <1>2, Spent, KindNames
  <2>3. CASE PublishThen(p, Idle, "idle")
    BY <1>0, <1>2, <2>1, <2>2, <2>3, PublishIdleTyped
  <2>4. CASE Leave(p)
    <3>1. /\ day' \in 0..Days /\ claims' \subseteq 1..Days /\ details' \subseteq Nat \X Payload
          /\ lists' \subseteq Nat \X Nat /\ index' \in Public /\ Len(rows) <= Len(rows')
      BY <1>0, <1>2, <2>1, Rest DEF files
    <3>2. QED
      BY <2>1, <2>2, <2>4, <3>1, LeaveTyped
  <2>5. QED
    BY <1>2, <2>3, <2>4
<1>3. CASE PublishThen(p, Idle, "idle") /\ UNCHANGED <<rows, claims, used>>
  BY <1>0, <1>3, PublishIdleTyped
<1>4. QED
  BY <1>1, <1>2, <1>3 DEF Begin

\* Every step keeps the types.
LEMMA TypedStep == ASSUME Typed, [Next]_vars PROVE Typed'
<1>0. /\ rows \in Seq(Row) /\ Len(rows) \in Nat /\ DOMAIN rows = 1..Len(rows)
      /\ day \in 0..Days /\ holder \in Processes \cup {"none"} /\ claims \subseteq 1..Days
      /\ details \subseteq Nat \X Payload /\ lists \subseteq Nat \X Nat /\ index \in Public
      /\ used \in [Kinds -> Nat]
      /\ \A p \in Processes : proc[p] \in Process /\ Shaped(proc[p], Len(rows))
  BY Rest
<1>0a. {"save", "stock", "complete", "fail"} = Writing /\ Len(rows) <= Len(rows)
  BY <1>0 DEF Writing
<1>1. ASSUME NEW p \in Processes, Tick(p) \/ Scan(p) \/ Export(p) PROVE Typed'
  <2>1. /\ UNCHANGED <<day, rows, claims, files>> /\ holder' = p
        /\ UNCHANGED used \/ Spend("command")
    BY <1>1, StartStep
  <2>2. PICK r \in Process :
          /\ Become(p, r) /\ r.pc \in {"sweep", "publish"} /\ r.next = "idle" /\ r.run = 0
          /\ r.slot \in 0..Days /\ r.view = NoIndex /\ r.todo = {}
    BY <1>1, StartStep
  <2>3. r.view.latest = 0 /\ r.view.runs = {}
    BY <2>2 DEF NoIndex
  <2>4. Viewed(r, Len(rows))
    BY <2>2, <2>3, NothingPublic DEF Viewed
  <2>5. Shaped(r, Len(rows))
    BY <1>0, <2>2, <2>4 DEF Shaped, Writing, Publishing
  <2>6. used' \in [Kinds -> Nat]
    BY <1>0, <2>1, Spent, KindNames
  <2>7. QED
    BY <1>0, <1>0a, <2>1, <2>2, <2>5, <2>6, TypedBy DEF files
<1>2. ASSUME NEW p \in Processes, Sweep(p) PROVE Typed'
  <2>1. PICK r \in Process :
          Become(p, r) /\ Like(r, proc[p]) /\ r.pc = "begin" /\ r.next = proc[p].next
    BY <1>2, SweepStep
  <2>2. proc[p].pc = "sweep"
    BY <1>2, SweepStep DEF At
  <2>3. Shaped(r, Len(rows))
    BY <1>0, <2>1, <2>2 DEF Like, Shaped, Viewed, Writing, Publishing
  <2>4. UNCHANGED <<day, holder, rows, claims, files, used>>
    BY <1>2, SweepStep
  <2>5. QED
    BY <1>0, <1>0a, <2>1, <2>3, <2>4, TypedBy DEF files
<1>3. ASSUME NEW p \in Processes, Save(p) PROVE Typed'
  <2>1. At(p, "save") /\ UNCHANGED <<day, holder, claims, files>>
    BY <1>3 DEF Save
  <2>2. proc[p].run \in DOMAIN rows
    BY <1>0, <2>1 DEF At, Shaped, Writing
  <2>3. CASE SaveRun(proc[p].run, "running", proc[p]) /\ Committed(p, Goto(p, "stock"))
    <3>1. rows' \in Seq(Row) /\ Len(rows') = Len(rows)
      BY <1>0, <2>2, <2>3, SavedRow DEF OnlyRow, Statuses
    <3>2. used' \in [Kinds -> Nat] /\ (Goto(p, "stock") \/ Goto(p, "fail"))
      BY <1>0, <2>3, Spent, KindNames DEF Committed
    <3>3. QED
      BY <1>0, <1>0a, <2>1, <3>1, <3>2, GotoTyped DEF At
  <2>4. CASE Goto(p, "fail") /\ UNCHANGED <<rows, used>>
    BY <1>0, <1>0a, <2>1, <2>4, GotoTyped DEF At
  <2>5. QED
    BY <1>3, <2>3, <2>4 DEF Save
<1>4. ASSUME NEW p \in Processes, Stock(p) PROVE Typed'
  <2>1. At(p, "stock") /\ UNCHANGED <<day, holder, claims, files>>
    BY <1>4, StockStep
  <2>2. PICK c \in {0, 1}, f \in {0, 1}, r \in Process :
                /\ r.pc = "stock" /\ r.next = proc[p].next /\ r.run = proc[p].run
                /\ r.slot = proc[p].slot /\ r.view = proc[p].view /\ r.todo = proc[p].todo
                /\ rows' = [rows EXCEPT ![r.run].pay = [status |-> "running", found |-> r.found,
                                                        failed |-> r.failed],
                                        ![r.run].saved = @ + c]
                /\ \/ Goto(p, "fail") /\ Spend("uncertain")
                   \/ /\ UNCHANGED used
                      /\ \/ Become(p, [r EXCEPT !.pc = "progress", !.next = AfterStock(r)])
                         \/ Become(p, [r EXCEPT !.pc = AfterStock(r)])
    BY <1>4, StockStep
  <2>3. r.run \in DOMAIN rows /\ proc[p].pc = "stock" /\ r.next = "idle"
    BY <1>0, <2>1, <2>2 DEF At, Shaped, Writing, Publishing
  <2>4. rows' \in Seq(Row) /\ Len(rows') = Len(rows)
    BY <1>0, <2>2, <2>3, CountedRow DEF OnlyRow
  <2>5. CASE Goto(p, "fail") /\ Spend("uncertain")
    <3>1. used' \in [Kinds -> Nat]
      BY <2>5, Spent, KindNames
    <3>2. QED
      BY <1>0, <1>0a, <2>1, <2>3, <2>4, <2>5, <3>1, GotoTyped
  <2>6. CASE /\ UNCHANGED used
             /\ \/ Become(p, [r EXCEPT !.pc = "progress", !.next = AfterStock(r)])
                \/ Become(p, [r EXCEPT !.pc = AfterStock(r)])
    <3>1. PICK s \in Process :
             /\ Become(p, s) /\ Like(s, r)
             /\ \/ s.pc = "progress" /\ s.next = AfterStock(r)
                \/ s.pc = AfterStock(r) /\ s.next = "idle"
      BY <2>3, <2>6, StockPlaces
    <3>2. AfterStock(r) \in Writing
      BY <1>0a, AfterStockIs
    <3>3. Shaped(s, Len(rows))
      BY SMTT(30), <1>0, <2>2, <2>3, <3>1, <3>2 DEF Like, Shaped, Viewed, Writing, Publishing
    <3>4. QED
      BY <1>0, <2>1, <2>4, <2>6, <3>1, <3>3, TypedBy DEF files
  <2>7. QED
    BY <2>2, <2>5, <2>6
<1>5. ASSUME NEW p \in Processes, Complete(p) PROVE Typed'
  <2>1. /\ At(p, "complete") /\ UNCHANGED <<day, holder, claims, files>>
        /\ Committed(p, Become(p, [proc[p] EXCEPT !.pc = "publish"]))
    BY <1>5 DEF Complete
  <2>2. rows' \in Seq(Row) /\ Len(rows') = Len(rows)
    BY <1>5, CompletedRow DEF OnlyRow
  <2>3. CASE Goto(p, "fail") /\ Spend("uncertain")
    <3>1. used' \in [Kinds -> Nat]
      BY <2>3, Spent, KindNames
    <3>2. QED
      BY <1>0, <1>0a, <2>1, <2>2, <2>3, <3>1, GotoTyped DEF At
  <2>4. CASE UNCHANGED used /\ Become(p, [proc[p] EXCEPT !.pc = "publish"])
    <3> DEFINE r == [proc[p] EXCEPT !.pc = "publish"]
    <3>1. Like(r, proc[p]) /\ r.pc = "publish" /\ r.next = proc[p].next
      BY <1>0, LikeGoto, LocationNames
    <3>2. Become(p, r)
      BY <2>4
    <3> HIDE DEF r
    <3>3. Shaped(r, Len(rows)) /\ r \in Process
      BY SMTT(30), <1>0, <2>1, <3>1 DEF At, Like, Shaped, Viewed, Writing, Publishing
    <3>4. QED
      BY SMTT(30), <1>0, <2>1, <2>2, <2>4, <3>2, <3>3, TypedBy DEF files
  <2>5. QED
    BY <2>1, <2>3, <2>4 DEF Committed
<1>6. ASSUME NEW p \in Processes, Fail(p) PROVE Typed'
  <2>1. At(p, "fail") /\ UNCHANGED <<day, claims, files>>
        /\ SaveRun(proc[p].run, "failed", proc[p])
    BY <1>6 DEF Fail
  <2>2. proc[p].run \in DOMAIN rows /\ "failed" \in Statuses
    BY <1>0, <2>1 DEF At, Shaped, Writing, Statuses
  <2>3. rows' \in Seq(Row) /\ Len(rows') = Len(rows)
    BY <1>0, <2>1, <2>2, SavedRow DEF OnlyRow
  <2>4. CASE PublishThen(p, Idle, "idle") /\ UNCHANGED used
    BY <1>0, <2>1, <2>3, <2>4, PublishIdleTyped
  <2>5. CASE Leave(p) /\ Spend("uncertain")
    <3>1. used' \in [Kinds -> Nat]
      BY <2>5, Spent, KindNames
    <3>2. QED
      BY SMTT(30), <1>0, <2>1, <2>3, <2>5, <3>1, LeaveTyped DEF files
  <2>6. QED
    BY <1>6, <2>4, <2>5 DEF Fail
<1>7. ASSUME NEW p \in Processes, Publish(p) PROVE Typed'
  <2>1. At(p, "publish") /\ UNCHANGED <<day, holder, rows, claims, files, used>>
    BY <1>7, PublishStep
  <2>2. PICK r \in Process :
                /\ Become(p, r) /\ r.pc = "files" /\ r.next = proc[p].next
                /\ r.run = proc[p].run /\ r.slot = proc[p].slot
                /\ r.view = View /\ r.todo = CompletedRuns(View.runs)
    BY <1>7, PublishStep
  <2>3. Viewed(r, Len(rows))
    BY <1>0, <2>2, ViewIs DEF Viewed
  <2>4. Shaped(r, Len(rows))
    BY <1>0, <2>1, <2>2, <2>3 DEF At, Shaped, Writing, Publishing
  <2>5. QED
    BY <1>0, <1>0a, <2>1, <2>2, <2>4, TypedBy DEF files
<1>8. ASSUME NEW p \in Processes, WriteFiles(p) PROVE Typed'
  <2> DEFINE i   == Max(proc[p].todo)
             pay == Published(p, i)
  <2>1. proc[p].pc = "files" /\ UNCHANGED <<day, rows, claims, index, used>>
    BY <1>8, FilesStep DEF At
  <2>2. CASE proc[p].todo = {} /\ ToIndex(p, proc[p].view) /\ UNCHANGED <<details, lists, holder>>
    <3>1. proc[p].view \in Public /\ Viewed(proc[p], Len(rows))
      BY <1>0, ProcessParts DEF Shaped
    <3>2. QED
      BY <1>0, <2>1, <2>2, <3>1, ToIndexTyped DEF Viewed, files, Publishing
  <2>3. CASE Resume(p) /\ UNCHANGED <<details, lists>>
    BY <1>0, <2>1, <2>3, ResumeTyped DEF Publishing
  <2>4. CASE /\ i \in DOMAIN rows /\ pay \in Payload
             /\ details' = Replace(details, i, pay)
             /\ lists' = Replace(lists, i, rows[i].saved)
             /\ UNCHANGED holder
             /\ \E r \in Process : /\ Become(p, r) /\ r.pc = "files" /\ r.next = proc[p].next
                                   /\ r.run = proc[p].run /\ r.slot = proc[p].slot
                                   /\ r.view = proc[p].view /\ r.todo = proc[p].todo \ {i}
    <3> HIDE DEF i, pay
    <3>1. i \in Nat /\ rows[i].saved \in Nat
      BY <1>0, <2>4, Domains, RowParts
    <3>2. details' \subseteq Nat \X Payload
      BY <1>0, <2>4, <3>1, ReplaceType
    <3>3. lists' \subseteq Nat \X Nat
      BY <1>0, <2>4, <3>1, ReplaceType
    <3>4. PICK r \in Process : /\ Become(p, r) /\ r.pc = "files" /\ r.next = proc[p].next
                               /\ r.run = proc[p].run /\ r.slot = proc[p].slot
                               /\ r.view = proc[p].view /\ r.todo = proc[p].todo \ {i}
      BY <2>4
    <3>5. Shaped(r, Len(rows))
      BY <1>0, <2>1, <3>4 DEF Shaped, Viewed, Writing, Publishing
    <3>6. QED
      BY <1>0, <1>0a, <2>1, <2>4, <3>2, <3>3, <3>4, <3>5, TypedBy
  <2>5. QED
    BY <1>8, <2>2, <2>3, <2>4, FilesStep
<1>9. ASSUME NEW p \in Processes, WriteIndex(p) PROVE Typed'
  <2>1. /\ proc[p].pc \in Publishing /\ index' = proc[p].view /\ Resume(p)
        /\ UNCHANGED <<day, rows, claims, details, lists, used>>
    BY <1>9 DEF WriteIndex, At, Publishing
  <2>2. index' \in Public
    BY <1>0, <2>1, ProcessParts
  <2>3. QED
    BY <1>0, <2>1, <2>2, ResumeTyped
<1>10. ASSUME NEW p \in Processes, PublishProgress(p) PROVE Typed'
  <2>1. proc[p].pc = "progress" /\ UNCHANGED <<day, holder, rows, claims, files, used>>
    BY <1>10 DEF PublishProgress, At
  <2>2. ASSUME ToIndex(p, View), CompletedRuns(View.runs) \subseteq Written(details) \cap Written(lists)
        PROVE Typed'
    <3>1. View \in Public /\ proc[p].todo = {}
      BY <1>0, <2>1, ViewIs DEF Shaped
    <3>2. QED
      BY <1>0, <2>1, <2>2, <3>1, ViewIs, ToIndexTyped DEF Publishing
  <2>3. ASSUME Goto(p, "publish") PROVE Typed'
    <3> DEFINE r == [proc[p] EXCEPT !.pc = "publish"]
    <3>1. Like(r, proc[p]) /\ r.pc = "publish" /\ r.next = proc[p].next
      BY <1>0, LikeGoto, LocationNames
    <3>2. Become(p, r)
      BY <2>3 DEF Goto
    <3> HIDE DEF r
    <3>3. Shaped(r, Len(rows)) /\ r \in Process
      BY <1>0, <2>1, <3>1 DEF Like, Shaped, Viewed, Writing, Publishing
    <3>4. QED
      BY <1>0, <1>0a, <2>1, <3>2, <3>3, TypedBy DEF files
  <2>4. QED
    BY <1>10, <2>2, <2>3 DEF PublishProgress
<1>11. ASSUME NEW p \in Processes, Fails(p) PROVE Typed'
  <2>1. UNCHANGED <<day, rows, claims, files>> /\ used' \in [Kinds -> Nat]
    BY <1>11, Spent, KindNames DEF Fails
  <2>2. CASE Leave(p)
    BY <1>0, <1>0a, <2>1, <2>2, LeaveTyped DEF files
  <2>3. CASE proc[p].pc \in {"save", "stock", "complete"} /\ Goto(p, "fail") /\ UNCHANGED holder
    BY <1>0, <1>0a, <2>1, <2>3, GotoTyped
  <2>4. CASE proc[p].pc \in Publishing /\ Resume(p)
    BY <1>0, <2>1, <2>4, ResumeTyped DEF files
  <2>5. QED
    BY <1>11, <2>2, <2>3, <2>4 DEF Fails
<1>12. ASSUME NEW p \in Processes, Crash(p) PROVE Typed'
  <2>1. /\ Leave(p) /\ UNCHANGED <<day, rows, claims, lists, index>>
        /\ used' \in [Kinds -> Nat]
    BY <1>12, Spent, KindNames DEF Crash
  <2>2. details' \subseteq Nat \X Payload
    <3>1. ASSUME NEW i \in Nat, NEW pay \in Payload, details' = Replace(details, i, pay)
          PROVE details' \subseteq Nat \X Payload
      BY <1>0, <3>1 DEF Replace
    <3>2. QED
      BY <1>0, <1>12, <3>1, CrashFiles
  <2>3. QED
    BY <1>0, <1>0a, <2>1, <2>2, LeaveTyped
<1>13. ASSUME NEW p \in Processes, LoseLock(p) PROVE Typed'
  <2>1. UNCHANGED <<day, rows, claims, proc, files>> /\ holder' = "none"
        /\ used' \in [Kinds -> Nat]
    BY <1>13, Spent, KindNames DEF LoseLock
  <2>2. QED
    BY <2>1 DEF Typed, TypeOK, files
<1>14. CASE NextDay
  <2>1. day' \in 0..Days /\ UNCHANGED <<holder, rows, claims, proc, files, used>>
    BY <1>0, <1>14, Limits DEF NextDay
  <2>2. QED
    BY <2>1 DEF Typed, TypeOK, files
<1>15. CASE UNCHANGED vars
  BY <1>15 DEF vars, files, Typed, TypeOK
<1>16. ASSUME NEW p \in Processes, Step(p) PROVE Typed'
  BY <1>2, <1>3, <1>4, <1>5, <1>6, <1>7, <1>8, <1>9, <1>10, <1>16, BeginTyped DEF Step
<1>17. Workers \subseteq Processes /\ Operators \subseteq Processes
  BY DEF Processes
<1>18. QED
  BY <1>1, <1>11, <1>12, <1>13, <1>14, <1>15, <1>16, <1>17 DEF Next

\* Every variable keeps its type: the run that a process is at work on exists, and
\* what a publication is about to write of a run is what it read of it.
THEOREM ScanTypeCorrect == Spec => []TypeOK
<1>1. Init => Typed
  BY TypedInit
<1>2. Typed /\ [Next]_vars => Typed'
  BY TypedStep
<1>3. Typed => TypeOK
  BY DEF Typed
<1>4. QED
  BY <1>1, <1>2, <1>3, PTL DEF Spec

-----------------------------------------------------------------------------
(* Moves of a process, in the words of the invariants.                      *)

\* What one process becomes leaves the others alone.
LEMMA Others ==
    ASSUME Typed, NEW p \in Processes, NEW r \in Process, Become(p, r)
    PROVE  proc'[p] = r /\ \A q \in Processes : q # p => proc'[q] = proc[q]
BY DEF Become, Typed, TypeOK

\* A process that leaves, or that forgets everything to publish, has no run.
Empty(r) ==
    /\ r \in Process /\ r.run = 0 /\ r.next = "idle" /\ r.found = 0 /\ r.failed = 0
    /\ r.view = NoIndex /\ r.todo = {} /\ r.swept = {}

\* A process at rest has no run and no view.
LEMMA IdleEmpty == Empty(Idle) /\ Idle.pc = "idle"
BY IdleType DEF Empty, Idle

\* A publication without a scan starts with nothing remembered.
LEMMA PublishIdleIs ==
    ASSUME NEW p \in Processes, PublishThen(p, Idle, "idle")
    PROVE  \E r \in Process : Become(p, r) /\ Empty(r) /\ r.pc = "publish" /\ holder' = holder
<1> DEFINE r == [Idle EXCEPT !.pc = "publish", !.next = "idle"]
<1>1. r \in Process
  BY IdleType DEF Process, Locations
<1>2. /\ r.pc = "publish" /\ r.run = 0 /\ r.next = "idle" /\ r.todo = {} /\ r.view = NoIndex
      /\ r.found = 0 /\ r.failed = 0 /\ r.swept = {}
  BY DEF Idle
<1>3. Become(p, r) /\ holder' = holder
  BY DEF PublishThen
<1> HIDE DEF r
<1>4. QED
  BY <1>1, <1>2, <1>3 DEF Empty

\* A process that moves remembers what it did.
LEMMA GotoIs ==
    ASSUME Typed, NEW p \in Processes, NEW l \in Locations, Goto(p, l)
    PROVE  \E r \in Process : Become(p, r) /\ Like(r, proc[p]) /\ r.pc = l /\ r.next = proc[p].next
<1> DEFINE r == [proc[p] EXCEPT !.pc = l]
<1>0. proc[p] \in Process
  BY Rest
<1>1. Like(r, proc[p]) /\ r.pc = l /\ r.next = proc[p].next
  BY <1>0, LikeGoto
<1>2. Become(p, r) /\ r \in Process
  BY <1>1 DEF Goto, Like
<1> HIDE DEF r
<1>3. QED
  BY <1>1, <1>2

\* Back to the scan, or out.
LEMMA ResumeIs ==
    ASSUME Typed, NEW p \in Processes, Resume(p)
    PROVE  \/ Leave(p)
           \/ \E r \in Process :
                /\ Become(p, r) /\ proc[p].next # "idle" /\ r.pc = proc[p].next /\ r.next = "idle"
                /\ r.run = proc[p].run /\ r.found = proc[p].found /\ r.failed = proc[p].failed
                /\ r.view = NoIndex /\ r.todo = {} /\ holder' = holder
<1>1. CASE proc[p].next = "idle"
  BY <1>1 DEF Resume
<1>2. CASE proc[p].next # "idle"
  <2> DEFINE r == [proc[p] EXCEPT !.pc = proc[p].next, !.next = "idle", !.view = NoIndex,
                                  !.todo = {}]
  <2>0. proc[p] \in Process
    BY Rest
  <2>1. Become(p, r) /\ holder' = holder
    BY <1>2 DEF Resume
  <2>2. r \in Process
    BY <2>0, NothingPublic, ProcessParts DEF Process, Locations
  <2>3. /\ r.pc = proc[p].next /\ r.next = "idle" /\ r.run = proc[p].run
        /\ r.found = proc[p].found /\ r.failed = proc[p].failed
        /\ r.view = NoIndex /\ r.todo = {}
    BY <2>0 DEF Process
  <2> HIDE DEF r
  <2>4. QED
    BY <1>2, <2>1, <2>2, <2>3
<1>3. QED
  BY <1>1, <1>2

-----------------------------------------------------------------------------
(* A date is scanned once.                                                  *)

Claimed == \A i \in DOMAIN rows : rows[i].slot # 0 => rows[i].slot \in claims

OnceInv == Typed /\ Claimed /\ ScheduledOnce

\* The dates of the rows stay; a new row has a date that was not claimed.
LEMMA SlotsStep ==
    ASSUME Typed, [Next]_vars
    PROVE  /\ DOMAIN rows \subseteq DOMAIN rows' /\ claims \subseteq claims'
           /\ \A i \in DOMAIN rows : rows'[i].slot = rows[i].slot
           /\ \A i \in DOMAIN rows' : i \notin DOMAIN rows =>
                 /\ i = Len(rows) + 1 /\ rows'[i].slot \notin claims
                 /\ rows'[i].slot # 0 => rows'[i].slot \in claims'
<1> DEFINE goal == /\ DOMAIN rows \subseteq DOMAIN rows' /\ claims \subseteq claims'
                   /\ \A i \in DOMAIN rows : rows'[i].slot = rows[i].slot
                   /\ \A i \in DOMAIN rows' : i \notin DOMAIN rows =>
                         /\ i = Len(rows) + 1 /\ rows'[i].slot \notin claims
                         /\ rows'[i].slot # 0 => rows'[i].slot \in claims'
<1>0. /\ rows \in Seq(Row) /\ Len(rows) \in Nat /\ DOMAIN rows = 1..Len(rows)
      /\ \A i \in DOMAIN rows : rows[i] \in Row
      /\ \A p \in Processes : proc[p] \in Process /\ Shaped(proc[p], Len(rows))
  BY Rest
<1>1. ASSUME UNCHANGED <<rows, claims>> PROVE goal
  BY <1>1
<1>2. ASSUME NEW i \in DOMAIN rows, OnlyRow(i), UNCHANGED claims PROVE goal
  BY <1>2 DEF OnlyRow
<1>3. ASSUME NEW p \in Processes, Begin(p) PROVE goal
  <2>1. ASSUME NEW i \in DOMAIN rows PROVE Interrupted(rows[i]).slot = rows[i].slot
    BY <1>0, InterruptedRow
  <2>2. CASE rows' = Swept(p) /\ UNCHANGED claims
    BY <1>0, <2>1, <2>2, SweptRows
  <2>3. CASE Insert(p) /\ proc[p].slot \notin claims
    <3>1. /\ DOMAIN rows' = 1..(Len(rows) + 1)
          /\ \A i \in DOMAIN rows :
                 rows'[i] = IF i \in proc[p].swept THEN Interrupted(rows[i]) ELSE rows[i]
          /\ rows'[Len(rows) + 1] = NewRow(proc[p].slot)
      BY <2>3, InsertedRow
    <3>2. rows'[Len(rows) + 1].slot = proc[p].slot
      BY <1>0, <3>1, NewRowType, ProcessParts
    <3>3. claims' = claims \cup ({proc[p].slot} \ {0})
      BY <2>3 DEF Insert
    <3>4. \A i \in DOMAIN rows' : i \notin DOMAIN rows => i = Len(rows) + 1
      BY <1>0, <3>1
    <3>5. \A i \in DOMAIN rows : i \in DOMAIN rows' /\ rows'[i].slot = rows[i].slot
      BY <1>0, <2>1, <3>1
    <3>6. QED
      BY <2>3, <3>2, <3>3, <3>4, <3>5
  <2>4. QED
    BY <1>1, <1>3, <2>2, <2>3 DEF Begin
<1>4. ASSUME NEW p \in Processes, Save(p) PROVE goal
  <2>1. proc[p].run \in DOMAIN rows /\ UNCHANGED claims
    BY <1>0, <1>4 DEF Save, At, Shaped, Writing
  <2>2. CASE SaveRun(proc[p].run, "running", proc[p])
    BY <1>0, <1>2, <2>1, <2>2, SavedRow DEF Statuses
  <2>3. QED
    BY <1>1, <1>4, <2>1, <2>2 DEF Save
<1>5. ASSUME NEW p \in Processes, Stock(p) PROVE goal
  <2>1. At(p, "stock") /\ UNCHANGED claims
    BY <1>5, StockStep
  <2>2. proc[p].run \in DOMAIN rows
    BY <1>0, <2>1 DEF At, Shaped, Writing
  <2>2a. PICK c \in {0, 1}, f \in {0, 1}, r \in Process :
            /\ r.run = proc[p].run
            /\ rows' = [rows EXCEPT ![r.run].pay = [status |-> "running", found |-> r.found,
                                                    failed |-> r.failed],
                                    ![r.run].saved = @ + c]
    BY ZenonT(60), <1>5, StockStep
  <2>3. OnlyRow(proc[p].run)
    BY ZenonT(60), <1>0, <2>2, <2>2a, CountedRow
  <2>4. QED
    BY <1>2, <2>1, <2>2, <2>3
<1>6. ASSUME NEW p \in Processes, Complete(p) PROVE goal
  BY <1>2, <1>6, CompletedRow DEF Complete
<1>7. ASSUME NEW p \in Processes, Fail(p) PROVE goal
  <2>1. proc[p].run \in DOMAIN rows /\ UNCHANGED claims
        /\ SaveRun(proc[p].run, "failed", proc[p])
    BY <1>0, <1>7 DEF Fail, At, Shaped, Writing
  <2>2. QED
    BY <1>0, <1>2, <2>1, SavedRow DEF Statuses
<1>8. ASSUME NEW p \in Processes, Tick(p) \/ Scan(p) \/ Export(p) PROVE goal
  BY <1>1, <1>8, StartStep
<1>9. ASSUME NEW p \in Processes,
             Sweep(p) \/ Publish(p) \/ WriteFiles(p) \/ WriteIndex(p) \/ PublishProgress(p)
      PROVE goal
  BY <1>1, <1>9 DEF Sweep, Publish, WriteFiles, WriteIndex, PublishProgress
<1>10. ASSUME NEW p \in Processes, Fails(p) \/ Crash(p) \/ LoseLock(p) PROVE goal
  BY <1>1, <1>10 DEF Fails, Crash, LoseLock
<1>11. CASE NextDay \/ UNCHANGED vars
  BY <1>1, <1>11 DEF NextDay, vars
<1>12. ASSUME NEW p \in Processes, Step(p) PROVE goal
  BY <1>3, <1>4, <1>5, <1>6, <1>7, <1>9, <1>12 DEF Step
<1>13. Workers \subseteq Processes /\ Operators \subseteq Processes
  BY DEF Processes
<1>14. CASE Next
  <2>1. CASE \E p \in Workers : Tick(p)
    BY <1>8, <1>13, <2>1
  <2>2. CASE \E p \in Operators : Scan(p) \/ Export(p)
    BY <1>8, <1>13, <2>2
  <2>3. CASE \E p \in Processes : Step(p) \/ Fails(p) \/ Crash(p) \/ LoseLock(p)
    BY <1>10, <1>12, <2>3
  <2>4. QED
    BY <1>11, <1>14, <2>1, <2>2, <2>3 DEF Next
<1>15. QED
  BY <1>11, <1>14

\* The scheduler scans a date once, for any number of workers and operators and
\* whether or not the lock held: the claim is unique.
THEOREM ScanScheduledOnce == Spec => []ScheduledOnce
<1>1. Init => OnceInv
  BY TypedInit DEF OnceInv, Init, Claimed, ScheduledOnce
<1>2. ASSUME OnceInv, [Next]_vars PROVE OnceInv'
  <2>1. Typed'
    BY <1>2, TypedStep DEF OnceInv
  <2>2. Claimed'
    BY <1>2, SlotsStep DEF OnceInv, Claimed
  <2>3. ScheduledOnce'
    BY <1>2, SlotsStep DEF OnceInv, Claimed, ScheduledOnce
  <2>4. QED
    BY <2>1, <2>2, <2>3 DEF OnceInv
<1>3. OnceInv => ScheduledOnce
  BY DEF OnceInv
<1>4. QED
  BY <1>1, <1>2, <1>3, PTL DEF Spec

-----------------------------------------------------------------------------
(* Who works on which run.                                                  *)

Scans == {"save", "stock", "complete"}

\* A process that will yet write its run, as completed or as failed.
Scanning(r) == r.pc \in Scans \/ r.next \in Scans
Failing(r)  == r.pc = "fail" \/ r.next = "fail"

\* A step of p that writes no row and leaves p no nearer to completing one.
Quiet(p, r) ==
    /\ r \in Process /\ Become(p, r) /\ rows' = rows
    /\ \/ r.run = 0
       \/ r.run = proc[p].run /\ r.found = proc[p].found /\ r.failed = proc[p].failed
    /\ Scanning(r) => Scanning(proc[p]) /\ r.run = proc[p].run
    /\ Failing(r) => (Failing(proc[p]) \/ Scanning(proc[p])) /\ r.run = proc[p].run
    /\ r.pc = "sweep" => r.found = 0 /\ r.failed = 0
    /\ r.pc = "begin" =>
           /\ proc[p].pc = "sweep" /\ r.found = proc[p].found /\ r.failed = proc[p].failed
           /\ r.swept = {i \in DOMAIN rows : rows[i].status = "running"}

Quietly(p) == \E r \in Process : Quiet(p, r)

\* The places of a scan, and the failure, are places where rows are written.
LEMMA ScanWriting == Scans \subseteq Writing /\ "fail" \in Writing /\ "idle" \notin Scans
                     /\ \A l \in Scans : l \notin Publishing /\ l # "fail"
BY DEF Scans, Writing, Publishing

\* A process that is at none of the steps of a scan is not scanning.
LEMMA EmptyQuiet ==
    ASSUME Typed, NEW p \in Processes, NEW r \in Process, Become(p, r), rows' = rows,
           r.run = 0, r.next = "idle", r.found = 0, r.failed = 0,
           r.pc \notin Scans, r.pc \notin {"fail", "begin"}
    PROVE  Quietly(p)
BY ScanWriting DEF Quietly, Quiet, Scanning, Failing

\* Leaving touches no row.
LEMMA LeaveQuiet ==
    ASSUME Typed, NEW p \in Processes, Leave(p), rows' = rows
    PROVE  Quietly(p)
<1>1. Become(p, Idle)
  BY DEF Leave
<1>2. Idle \in Process /\ Idle.run = 0 /\ Idle.next = "idle" /\ Idle.found = 0
      /\ Idle.failed = 0 /\ Idle.pc = "idle"
  BY IdleEmpty DEF Empty
<1>3. QED
  BY <1>1, <1>2, ScanWriting, EmptyQuiet

\* Returning from the progress touches no row.
LEMMA ResumeQuiet ==
    ASSUME Typed, NEW p \in Processes, Resume(p), rows' = rows
    PROVE  Quietly(p)
<1>1. CASE Leave(p)
  BY <1>1, LeaveQuiet
<1>2. ASSUME NEW r \in Process,
             Become(p, r), proc[p].next # "idle", r.pc = proc[p].next, r.next = "idle",
             r.run = proc[p].run, r.found = proc[p].found, r.failed = proc[p].failed
      PROVE Quietly(p)
  <2>1. proc[p].next \in Writing
    BY <1>2, Rest DEF Shaped
  <2>2. QED
    BY <1>2, <2>1, ScanWriting DEF Quietly, Quiet, Scanning, Failing, Writing
<1>3. QED
  BY <1>1, <1>2, ResumeIs

\* Going to the index touches no row.
LEMMA IndexQuiet ==
    ASSUME Typed, NEW p \in Processes, NEW v \in Public, ToIndex(p, v), rows' = rows
    PROVE  Quietly(p)
<1>1. PICK r \in Process :
             /\ Become(p, r) /\ r.pc = "index" /\ r.next = proc[p].next
             /\ r.run = proc[p].run
             /\ r.found = proc[p].found /\ r.failed = proc[p].failed
  BY ToIndexStep
<1>2. QED
  BY <1>1 DEF Quietly, Quiet, Scanning, Failing, Scans

\* These steps touch no row and start no scan with old counts.
LEMMA QuietSteps ==
    ASSUME Typed, NEW p \in Processes,
           \/ Tick(p) \/ Scan(p) \/ Export(p) \/ Sweep(p) \/ Publish(p) \/ WriteFiles(p)
           \/ WriteIndex(p) \/ PublishProgress(p) \/ Fails(p) \/ Crash(p)
    PROVE  Quietly(p)
<1>0. proc[p] \in Process /\ Shaped(proc[p], Len(rows)) /\ rows \in Seq(Row)
  BY Rest
<1>1. CASE Tick(p) \/ Scan(p) \/ Export(p)
  <2>1. rows' = rows
    BY <1>1, StartStep
  <2>2. PICK r \in Process :
          /\ Become(p, r) /\ r.pc \in {"sweep", "publish"} /\ r.next = "idle" /\ r.run = 0
          /\ r.found = 0 /\ r.failed = 0
    BY <1>1, StartStep
  <2>3. QED
    BY <2>1, <2>2, EmptyQuiet DEF Scans
<1>2. CASE Sweep(p)
  <2>1. rows' = rows /\ proc[p].pc = "sweep"
    BY <1>2, SweepStep DEF At
  <2>2. PICK r \in Process :
          /\ Become(p, r) /\ Like(r, proc[p]) /\ r.pc = "begin" /\ r.next = proc[p].next
          /\ r.swept = {i \in DOMAIN rows : rows[i].status = "running"}
    BY <1>2, SweepStep
  <2>3. r.next = "idle"
    BY <1>0, <2>1, <2>2 DEF Shaped, Publishing
  <2>4. QED
    BY <2>1, <2>2, <2>3 DEF Quietly, Quiet, Like, Scanning, Failing, Scans
<1>3. CASE Publish(p)
  <2>1. PICK r \in Process :
                /\ Become(p, r) /\ r.pc = "files" /\ r.next = proc[p].next
                /\ r.run = proc[p].run
                /\ r.found = proc[p].found /\ r.failed = proc[p].failed
    BY <1>3, PublishStep
  <2>2. rows' = rows
    BY <1>3, PublishStep
  <2>3. QED
    BY <2>1, <2>2 DEF Quietly, Quiet, Scanning, Failing, Scans
<1>4. CASE WriteFiles(p)
  <2>1. rows' = rows
    BY <1>4 DEF WriteFiles
  <2>2. CASE ToIndex(p, proc[p].view)
    BY <1>0, <2>1, <2>2, IndexQuiet, ProcessParts
  <2>3. CASE Resume(p)
    BY <2>1, <2>3, ResumeQuiet
  <2>4. ASSUME NEW r \in Process, Become(p, r), r.pc = "files", r.next = proc[p].next,
               r.run = proc[p].run, r.found = proc[p].found, r.failed = proc[p].failed
        PROVE Quietly(p)
    BY <2>1, <2>4 DEF Quietly, Quiet, Scanning, Failing, Scans
  <2>5. QED
    BY <1>4, <2>2, <2>3, <2>4, FilesStep
<1>5. CASE WriteIndex(p)
  BY <1>5, ResumeQuiet DEF WriteIndex
<1>6. CASE PublishProgress(p)
  <2>1. rows' = rows /\ proc[p].pc = "progress"
    BY <1>6 DEF PublishProgress, At
  <2>2. CASE ToIndex(p, View)
    BY <1>0, <2>1, <2>2, IndexQuiet, ViewIs
  <2>3. CASE Goto(p, "publish")
    <3>1. PICK r \in Process : Become(p, r) /\ Like(r, proc[p]) /\ r.pc = "publish"
                               /\ r.next = proc[p].next
      BY <2>3, GotoIs, LocationNames
    <3>2. QED
      BY <2>1, <3>1 DEF Quietly, Quiet, Like, Scanning, Failing, Scans
  <2>4. QED
    BY <1>6, <2>2, <2>3 DEF PublishProgress
<1>7. CASE Fails(p)
  <2>1. rows' = rows
    BY <1>7 DEF Fails
  <2>2. CASE Leave(p)
    BY <2>1, <2>2, LeaveQuiet
  <2>3. CASE proc[p].pc \in Scans /\ Goto(p, "fail")
    <3>1. PICK r \in Process : Become(p, r) /\ Like(r, proc[p]) /\ r.pc = "fail"
                               /\ r.next = proc[p].next
      BY <2>3, GotoIs, LocationNames, ScanWriting
    <3>2. r.next = "idle"
      BY <1>0, <2>3, <3>1, ScanWriting DEF Shaped
    <3>3. QED
      BY <2>1, <2>3, <3>1, <3>2 DEF Quietly, Quiet, Like, Scanning, Failing, Scans
  <2>4. CASE Resume(p)
    BY <2>1, <2>4, ResumeQuiet
  <2>5. QED
    BY <1>7, <2>2, <2>3, <2>4 DEF Fails, Scans
<1>8. CASE Crash(p)
  BY <1>8, LeaveQuiet DEF Crash
<1>9. QED
  BY <1>1, <1>2, <1>3, <1>4, <1>5, <1>6, <1>7, <1>8

-----------------------------------------------------------------------------
(* A completed run has its evidence.                                        *)

Counted(r, row) ==
    /\ row.status \notin Completed /\ row.saved = r.found
    /\ r.failed = 0 \/ r.failed < MaxFailed

\* No two processes work on one run, and the run of each has the results that
\* the process counted.
Unique == \A p, q \in Processes : p # q /\ proc[p].run # 0 => proc[p].run # proc[q].run
Fresh  == \A p \in Processes : proc[p].pc \in {"sweep", "begin"} =>
              proc[p].found = 0 /\ proc[p].failed = 0
Tally  == \A p \in Processes : Scanning(proc[p]) => Counted(proc[p], rows[proc[p].run])

Own == Unique /\ Fresh /\ Tally

OwnInv == Typed /\ Own /\ CompletedHasEvidence

\* The rows of others stay, or are interrupted by a sweep.
Spares(p) ==
    \A i \in DOMAIN rows : i # proc[p].run => rows'[i] \in {rows[i], Interrupted(rows[i])}

\* What a step must show to keep every run with one process and its counts right.
LEMMA OwnBy ==
    ASSUME Typed, Own, NEW p \in Processes, NEW r \in Process, Become(p, r), Spares(p),
           r.run \in {0, proc[p].run, Len(rows) + 1},
           r.pc \in {"sweep", "begin"} => r.found = 0 /\ r.failed = 0,
           Scanning(r) => Counted(r, rows'[r.run])
    PROVE  Own'
<1>0. /\ \A q \in Processes : proc[q] \in Process /\ Shaped(proc[q], Len(rows))
      /\ DOMAIN rows = 1..Len(rows) /\ Len(rows) \in Nat /\ \A i \in DOMAIN rows : rows[i] \in Row
  BY Rest
<1>1. proc'[p] = r /\ \A q \in Processes : q # p => proc'[q] = proc[q]
  BY Others
<1>2. \A q \in Processes : proc[q].run \in Nat /\ proc[q].run <= Len(rows)
  BY <1>0, ProcessParts DEF Shaped
<1>3. Unique'
  <2>1. ASSUME NEW a \in Processes, NEW b \in Processes, a # b, proc'[a].run # 0
        PROVE proc'[a].run # proc'[b].run
    <3>1. CASE a = p
      BY <1>0, <1>1, <1>2, <2>1, <3>1 DEF Own, Unique
    <3>2. CASE b = p
      BY <1>0, <1>1, <1>2, <2>1, <3>2 DEF Own, Unique
    <3>3. CASE a # p /\ b # p
      BY <1>1, <2>1, <3>3 DEF Own, Unique
    <3>4. QED
      BY <3>1, <3>2, <3>3
  <2>2. QED
    BY <2>1 DEF Unique
<1>4. Fresh'
  BY <1>1 DEF Own, Fresh
<1>5. Tally'
  <2>1. ASSUME NEW q \in Processes, q # p, Scanning(proc[q])
        PROVE Counted(proc[q], rows'[proc[q].run])
    <3>1. proc[q].run \in DOMAIN rows
      BY <1>0, <2>1, ScanWriting DEF Scanning, Shaped
    <3>2. proc[q].run # proc[p].run
      BY <1>0, <2>1, <3>1 DEF Own, Unique
    <3>3. CASE rows'[proc[q].run] = rows[proc[q].run]
      BY <2>1, <3>3 DEF Own, Tally
    <3>4. CASE rows'[proc[q].run] = Interrupted(rows[proc[q].run])
      <4>1. rows'[proc[q].run].status = "failed"
            /\ rows'[proc[q].run].saved = rows[proc[q].run].saved
        BY <1>0, <3>1, <3>4, InterruptedRow
      <4>2. QED
        BY <2>1, <4>1 DEF Own, Tally, Counted, Completed
    <3>5. QED
      BY <3>1, <3>2, <3>3, <3>4 DEF Spares
  <2>2. ASSUME NEW q \in Processes, Scanning(proc'[q])
        PROVE Counted(proc'[q], rows'[proc'[q].run])
    BY <1>1, <2>1, <2>2
  <2>3. QED
    BY <2>2 DEF Tally
<1>6. QED
  BY <1>3, <1>4, <1>5 DEF Own

\* The evidence stays where the run of p keeps it and a new run has none to show.
LEMMA EvidenceBy ==
    ASSUME Typed, CompletedHasEvidence, NEW p \in Processes, Spares(p),
           \A i \in DOMAIN rows' : i \in DOMAIN rows \/ rows'[i].status \notin Completed,
           proc[p].run \in DOMAIN rows /\ rows'[proc[p].run].status \in Completed =>
               LET i == proc[p].run IN
               /\ rows'[i].artifacts /\ rows'[i].pay.status = rows'[i].status
               /\ rows'[i].saved = rows'[i].pay.found /\ rows'[i].pay.failed < MaxFailed
    PROVE  CompletedHasEvidence'
<1>1. ASSUME NEW i \in DOMAIN rows, i # proc[p].run, rows'[i].status \in Completed
      PROVE rows'[i] = rows[i]
  <2>1. rows[i] \in Row
    BY Rest
  <2>2. Interrupted(rows[i]).status = "failed"
    BY <2>1, InterruptedRow
  <2>3. QED
    BY <1>1, <2>2 DEF Spares, Completed
<1>2. QED
  BY <1>1 DEF CompletedHasEvidence

\* Writing one's own row spares those of the others.
LEMMA OnlySpares ==
    ASSUME NEW p \in Processes, OnlyRow(proc[p].run)
    PROVE  Spares(p) /\ DOMAIN rows' = DOMAIN rows
BY DEF OnlyRow, Spares

\* A sweep leaves the numbers of the rows and what was counted.
LEMMA SweptSpares ==
    ASSUME Typed, NEW p \in Processes, rows' = Swept(p)
    PROVE  Spares(p) /\ DOMAIN rows' = DOMAIN rows
BY Rest, SweptRows DEF Spares

\* An insertion spares the rows of the others.
LEMMA InsertSpares ==
    ASSUME Typed, NEW p \in Processes, Insert(p)
    PROVE  /\ Spares(p) /\ DOMAIN rows' = DOMAIN rows \cup {Len(rows) + 1}
           /\ rows'[Len(rows) + 1].status = "running" /\ rows'[Len(rows) + 1].saved = 0
           /\ rows'[Len(rows) + 1].pay.status = "running"
<1>1. proc[p].slot \in Nat /\ Len(rows) \in Nat
  BY Rest, ProcessParts
<1>2. /\ DOMAIN rows = 1..Len(rows) /\ DOMAIN rows' = 1..(Len(rows) + 1)
      /\ \A i \in DOMAIN rows :
            rows'[i] = IF i \in proc[p].swept THEN Interrupted(rows[i]) ELSE rows[i]
      /\ rows'[Len(rows) + 1] = NewRow(proc[p].slot)
  BY InsertedRow
<1>3. Spares(p)
  BY <1>2 DEF Spares
<1>4. DOMAIN rows' = DOMAIN rows \cup {Len(rows) + 1}
  BY <1>1, <1>2
<1>5. QED
  BY <1>1, <1>2, <1>3, <1>4, NewRowType

\* What p does to its own run: where it is, it is not another's, and a run that it
\* has not begun is none.
LEMMA OwnRun ==
    ASSUME Typed, NEW p \in Processes
    PROVE  /\ proc[p] \in Process /\ Shaped(proc[p], Len(rows))
           /\ proc[p].pc \in Writing => proc[p].run \in DOMAIN rows /\ proc[p].next = "idle"
BY Rest, LocationNames DEF Shaped

\* Beginning a scan keeps runs owned and completed runs whole.
LEMMA BeginOwn ==
    ASSUME OwnInv, NEW p \in Processes, Begin(p)
    PROVE  Own' /\ CompletedHasEvidence'
<1> USE DEF OwnInv
<1>0. proc[p].pc = "begin" /\ proc[p] \in Process /\ Shaped(proc[p], Len(rows))
      /\ Len(rows) \in Nat /\ DOMAIN rows = 1..Len(rows)
      /\ \A i \in DOMAIN rows : rows[i] \in Row
  BY Rest DEF Begin, At
<1>1. ASSUME NEW r \in Process, Become(p, r), Spares(p), r.run = 0, r.next = "idle",
             r.pc \in {"idle", "publish"}
      PROVE Own'
  <2>1. ~Scanning(r)
    BY <1>1 DEF Scanning, Scans
  <2>2. QED
    BY <1>1, <2>1, OwnBy
<1>2. ASSUME PublishThen(p, Idle, "idle"), Spares(p) PROVE Own'
  <2>1. PICK r \in Process : Become(p, r) /\ Empty(r) /\ r.pc = "publish"
    BY <1>2, PublishIdleIs
  <2>2. r.run = 0 /\ r.next = "idle"
    BY <2>1 DEF Empty
  <2>3. QED
    BY <1>1, <1>2, <2>1, <2>2
<1>3. ASSUME Leave(p), Spares(p) PROVE Own'
  <2>1. Become(p, Idle)
    BY <1>3 DEF Leave
  <2>2. Idle \in Process /\ Idle.run = 0 /\ Idle.next = "idle" /\ Idle.pc = "idle"
    BY IdleEmpty DEF Empty
  <2>3. QED
    BY <1>1, <1>3, <2>1, <2>2
<1>4. ASSUME Spares(p), DOMAIN rows' = DOMAIN rows,
             proc[p].run \in DOMAIN rows => rows'[proc[p].run] \in
                 {rows[proc[p].run], Interrupted(rows[proc[p].run])}
      PROVE CompletedHasEvidence'
  <2>1. \A i \in DOMAIN rows : Interrupted(rows[i]).status \notin Completed
    BY <1>0, InterruptedRow DEF Completed
  <2>2. \A i \in DOMAIN rows : rows'[i].status \in Completed => rows'[i] = rows[i]
    BY <1>4, <2>1 DEF Spares
  <2>3. QED
    BY <1>4, <2>2 DEF CompletedHasEvidence
<1>5. CASE Insert(p)
  <2>1. /\ Spares(p) /\ DOMAIN rows' = DOMAIN rows \cup {Len(rows) + 1}
        /\ rows'[Len(rows) + 1].status = "running" /\ rows'[Len(rows) + 1].saved = 0
    BY <1>5, InsertSpares
  <2>2. ASSUME NEW r \in Process, Become(p, r), r.pc = "publish", r.next = "save",
               r.run = Len(rows) + 1, r.found = proc[p].found, r.failed = proc[p].failed
        PROVE Own'
    <3>1. r.found = 0 /\ r.failed = 0
      BY <1>0, <2>2 DEF Own, Fresh
    <3>2. Counted(r, rows'[r.run])
      BY <2>1, <2>2, <3>1 DEF Counted, Completed
    <3>3. QED
      BY <2>1, <2>2, <3>1, <3>2, OwnBy
  <2>3. Own'
    BY <1>0, <1>3, <1>5, <2>1, <2>2, InsertStep DEF At
  <2>4. /\ \A i \in DOMAIN rows : Interrupted(rows[i]).status \notin Completed
        /\ \A i \in DOMAIN rows : rows'[i] \in {rows[i], Interrupted(rows[i])}
    <3>1. \A i \in DOMAIN rows : rows'[i] \in {rows[i], Interrupted(rows[i])}
      BY <1>5, InsertedRow
    <3>2. QED
      BY <1>0, <3>1, InterruptedRow DEF Completed
  <2>5. \A i \in DOMAIN rows' : rows'[i].status \in Completed => i \in DOMAIN rows /\ rows'[i] = rows[i]
    BY <2>1, <2>4 DEF Completed
  <2>6. CompletedHasEvidence'
    BY <2>5 DEF CompletedHasEvidence
  <2>7. QED
    BY <2>3, <2>6
<1>6. CASE /\ rows' = Swept(p)
           /\ \/ PublishThen(p, Idle, "idle") /\ UNCHANGED used
              \/ Leave(p) /\ Spend("uncertain")
  <2>1. Spares(p) /\ DOMAIN rows' = DOMAIN rows
    BY <1>6, SweptSpares
  <2>2. \A i \in DOMAIN rows : rows'[i] \in {rows[i], Interrupted(rows[i])}
    BY <1>6, Rest, SweptRows
  <2>3. QED
    BY <1>2, <1>3, <1>4, <1>6, <2>1, <2>2
<1>7. CASE PublishThen(p, Idle, "idle") /\ UNCHANGED rows
  <2>1. Spares(p)
    BY <1>7 DEF Spares
  <2>2. QED
    BY <1>2, <1>4, <1>7, <2>1
<1>8. QED
  BY <1>5, <1>6, <1>7 DEF Begin

\* A checkpoint keeps runs owned and the counts right.
LEMMA StockOwn ==
    ASSUME OwnInv, NEW p \in Processes, Stock(p)
    PROVE  Own' /\ CompletedHasEvidence'
<1> USE DEF OwnInv
<1>0. proc[p].pc = "stock" /\ proc[p] \in Process /\ proc[p].run \in DOMAIN rows
      /\ proc[p].next = "idle" /\ rows \in Seq(Row)
  BY OwnRun, Rest, StockStep DEF At, Writing
<1>1. Scanning(proc[p]) /\ Counted(proc[p], rows[proc[p].run])
  BY <1>0 DEF Scanning, Scans, Own, Tally
<1>2. PICK c \in {0, 1}, f \in {0, 1}, r \in Process :
                /\ r.pc = "stock" /\ r.next = proc[p].next /\ r.run = proc[p].run
                /\ r.found = proc[p].found + c
                /\ rows' = [rows EXCEPT ![r.run].pay = [status |-> "running", found |-> r.found,
                                                        failed |-> r.failed],
                                        ![r.run].saved = @ + c]
                /\ \/ Goto(p, "fail") /\ Spend("uncertain")
                   \/ /\ UNCHANGED used
                      /\ \/ Become(p, [r EXCEPT !.pc = "progress", !.next = AfterStock(r)])
                         \/ Become(p, [r EXCEPT !.pc = AfterStock(r)])
  BY StockStep
<1>3. /\ OnlyRow(proc[p].run) /\ rows'[proc[p].run].status = rows[proc[p].run].status
      /\ rows'[proc[p].run].saved = rows[proc[p].run].saved + c
  <2>1. r.run \in DOMAIN rows /\ c \in Nat
    BY <1>0, <1>2
  <2>2. /\ OnlyRow(r.run) /\ rows'[r.run].status = rows[r.run].status
        /\ rows'[r.run].saved = rows[r.run].saved + c
    BY ZenonT(60), <1>0, <1>2, <2>1, CountedRow
  <2>3. QED
    BY <1>2, <2>2
<1>4. Spares(p) /\ DOMAIN rows' = DOMAIN rows
  BY <1>3, OnlySpares
<1>5. CompletedHasEvidence'
  BY <1>0, <1>1, <1>3, <1>4, EvidenceBy DEF Counted
<1>6. CASE Goto(p, "fail")
  <2>1. PICK s \in Process : Become(p, s) /\ Like(s, proc[p]) /\ s.pc = "fail"
                             /\ s.next = proc[p].next
    BY <1>6, GotoIs, LocationNames, ScanWriting
  <2>2. ~Scanning(s) /\ s.run = proc[p].run
    BY <1>0, <2>1 DEF Scanning, Scans, Like
  <2>3. QED
    BY <1>4, <1>5, <2>1, <2>2, OwnBy
<1>7. CASE \/ Become(p, [r EXCEPT !.pc = "progress", !.next = AfterStock(r)])
           \/ Become(p, [r EXCEPT !.pc = AfterStock(r)])
  <2>1. PICK s \in Process :
           /\ Become(p, s) /\ Like(s, r)
           /\ \/ s.pc = "progress" /\ s.next = AfterStock(r)
              \/ s.pc = AfterStock(r) /\ s.next = "idle"
    BY <1>0, <1>2, <1>7, StockPlaces
  <2>2. Scanning(s) => Counted(s, rows'[s.run])
    <3>1. ASSUME Scanning(s) PROVE AfterStock(r) # "fail"
      BY <2>1, <3>1 DEF Scanning, Scans
    <3>2. Scanning(s) => s.failed = 0 \/ s.failed < MaxFailed
      BY <2>1, <3>1, AfterStockIs DEF Like
    <3>3. s.found = proc[p].found + c /\ s.run = proc[p].run
      BY <1>2, <2>1 DEF Like
    <3>4. QED
      BY <1>1, <1>3, <3>2, <3>3 DEF Counted
  <2>3. s.pc \notin {"sweep", "begin"} /\ s.run = proc[p].run
    BY <1>2, <2>1, AfterStockIs DEF Like
  <2>4. QED
    BY <1>4, <1>5, <2>1, <2>2, <2>3, OwnBy
<1>8. QED
  BY <1>2, <1>6, <1>7

\* So does every step.
LEMMA OwnStep == ASSUME OwnInv, [Next]_vars PROVE Own' /\ CompletedHasEvidence'
<1> USE DEF OwnInv
<1>0. rows \in Seq(Row) /\ Len(rows) \in Nat /\ DOMAIN rows = 1..Len(rows)
      /\ \A i \in DOMAIN rows : rows[i] \in Row
  BY Rest
<1>1. ASSUME NEW p \in Processes, Quietly(p) PROVE Own' /\ CompletedHasEvidence'
  <2>1. PICK r \in Process : Quiet(p, r)
    BY <1>1 DEF Quietly
  <2>2. rows' = rows /\ Become(p, r) /\ Spares(p) /\ r.run \in {0, proc[p].run}
    BY <2>1 DEF Quiet, Spares
  <2>3. r.pc \in {"sweep", "begin"} => r.found = 0 /\ r.failed = 0
    BY <2>1 DEF Quiet, Own, Fresh
  <2>4. Scanning(r) => Counted(r, rows'[r.run])
    <3>1. ASSUME Scanning(r) PROVE Counted(r, rows'[r.run])
      <4>1. Scanning(proc[p]) /\ r.run = proc[p].run
        BY <2>1, <3>1 DEF Quiet
      <4>2. proc[p].run # 0
        BY <4>1, Rest, ScanWriting DEF Scanning, Shaped
      <4>3. r.found = proc[p].found /\ r.failed = proc[p].failed
        BY <2>1, <4>1, <4>2 DEF Quiet
      <4>4. QED
        BY <2>2, <4>1, <4>3 DEF Own, Tally, Counted
    <3>2. QED
      BY <3>1
  <2>5. Own'
    BY <2>2, <2>3, <2>4, OwnBy
  <2>6. QED
    BY <2>2, <2>5 DEF CompletedHasEvidence
<1>2. ASSUME NEW p \in Processes, Save(p) PROVE Own' /\ CompletedHasEvidence'
  <2>1. proc[p].pc = "save" /\ proc[p].run \in DOMAIN rows /\ proc[p].next = "idle"
        /\ proc[p] \in Process
    BY <1>2, OwnRun DEF Save, At, Writing
  <2>2. Counted(proc[p], rows[proc[p].run])
    BY <2>1 DEF Own, Tally, Scanning, Scans
  <2>3. CASE SaveRun(proc[p].run, "running", proc[p])
    <3>1. /\ OnlyRow(proc[p].run) /\ rows'[proc[p].run].status = "running"
          /\ rows'[proc[p].run].saved = rows[proc[p].run].saved
      BY <1>0, <2>1, <2>3, SavedRow DEF Statuses
    <3>2. Spares(p) /\ DOMAIN rows' = DOMAIN rows
      BY <3>1, OnlySpares
    <3>3. CompletedHasEvidence'
      BY <3>1, <3>2, EvidenceBy DEF Completed
    <3>4. Goto(p, "stock") \/ Goto(p, "fail")
      BY <1>2, <2>3 DEF Save, Committed
    <3>5. PICK r \in Process : Become(p, r) /\ Like(r, proc[p]) /\ r.pc \in {"stock", "fail"}
                               /\ r.next = proc[p].next
      BY <3>4, GotoIs, LocationNames, ScanWriting DEF Scans
    <3>6. Counted(r, rows'[r.run]) /\ r.run = proc[p].run
      BY <2>2, <3>1, <3>5 DEF Like, Counted, Completed
    <3>7. QED
      BY <3>2, <3>3, <3>5, <3>6, OwnBy
  <2>4. CASE Goto(p, "fail") /\ UNCHANGED rows
    <3>1. PICK r \in Process : Become(p, r) /\ Like(r, proc[p]) /\ r.pc = "fail"
                               /\ r.next = proc[p].next
      BY <2>4, GotoIs, LocationNames, ScanWriting
    <3>2. Quietly(p)
      BY <2>1, <2>4, <3>1 DEF Quietly, Quiet, Like, Scanning, Failing, Scans
    <3>3. QED
      BY <1>1, <3>2
  <2>5. QED
    BY <1>2, <2>3, <2>4 DEF Save
<1>3. ASSUME NEW p \in Processes, Complete(p) PROVE Own' /\ CompletedHasEvidence'
  <2>1. proc[p].pc = "complete" /\ proc[p].run \in DOMAIN rows /\ proc[p].next = "idle"
        /\ proc[p] \in Process
    BY <1>3, OwnRun DEF Complete, At, Writing
  <2>2. Counted(proc[p], rows[proc[p].run])
    BY <2>1 DEF Own, Tally, Scanning, Scans
  <2>3. /\ OnlyRow(proc[p].run)
        /\ rows'[proc[p].run].pay.status = rows'[proc[p].run].status
        /\ rows'[proc[p].run].pay.found = proc[p].found
        /\ rows'[proc[p].run].pay.failed = proc[p].failed
        /\ rows'[proc[p].run].saved = rows[proc[p].run].saved /\ rows'[proc[p].run].artifacts
    BY <1>3, CompletedRow
  <2>4. Spares(p) /\ DOMAIN rows' = DOMAIN rows
    BY <2>3, OnlySpares
  <2>5. rows'[proc[p].run].pay.failed < MaxFailed
    BY <2>2, <2>3, Limits DEF Counted
  <2>6. CompletedHasEvidence'
    BY <2>2, <2>3, <2>4, <2>5, EvidenceBy DEF Counted
  <2>7. PICK r \in Process : Become(p, r) /\ Like(r, proc[p]) /\ r.pc \in {"publish", "fail"}
                             /\ r.next = proc[p].next
    <3>1. Goto(p, "publish") \/ Goto(p, "fail")
      BY <1>3 DEF Complete, Committed, Goto
    <3>2. QED
      BY <3>1, GotoIs, LocationNames, ScanWriting
  <2>8. ~Scanning(r) /\ r.run = proc[p].run
    BY <2>1, <2>7 DEF Scanning, Scans, Like
  <2>9. QED
    BY <2>4, <2>6, <2>7, <2>8, OwnBy
<1>4. ASSUME NEW p \in Processes, Fail(p) PROVE Own' /\ CompletedHasEvidence'
  <2>1. proc[p].run \in DOMAIN rows /\ SaveRun(proc[p].run, "failed", proc[p])
        /\ proc[p] \in Process
    BY <1>4, OwnRun DEF Fail, At, Writing
  <2>2. OnlyRow(proc[p].run) /\ rows'[proc[p].run].status = "failed"
    BY <1>0, <2>1, SavedRow DEF Statuses
  <2>3. Spares(p) /\ DOMAIN rows' = DOMAIN rows
    BY <2>2, OnlySpares
  <2>4. CompletedHasEvidence'
    BY <2>2, <2>3, EvidenceBy DEF Completed
  <2>5. PICK r \in Process : Become(p, r) /\ Empty(r) /\ r.pc \in {"idle", "publish"}
    <3>1. CASE PublishThen(p, Idle, "idle")
      BY <3>1, PublishIdleIs
    <3>2. CASE Leave(p)
      BY <3>2, IdleEmpty DEF Leave, Empty
    <3>3. QED
      BY <1>4, <3>1, <3>2 DEF Fail
  <2>6. ~Scanning(r) /\ r.run = 0
    BY <2>5 DEF Empty, Scanning, Scans
  <2>7. QED
    BY <2>3, <2>4, <2>5, <2>6, OwnBy
<1>5. ASSUME NEW p \in Processes, Step(p) PROVE Own' /\ CompletedHasEvidence'
  BY <1>1, <1>2, <1>3, <1>4, <1>5, QuietSteps, BeginOwn, StockOwn DEF Step
<1>6. ASSUME UNCHANGED <<rows, proc>> PROVE Own' /\ CompletedHasEvidence'
  BY <1>6 DEF Own, Unique, Fresh, Tally, CompletedHasEvidence
<1>7. ASSUME NEW p \in Processes, LoseLock(p) PROVE Own' /\ CompletedHasEvidence'
  BY <1>6, <1>7 DEF LoseLock
<1>8. CASE NextDay \/ UNCHANGED vars
  BY <1>6, <1>8 DEF NextDay, vars
<1>9. Workers \subseteq Processes /\ Operators \subseteq Processes
  BY DEF Processes
<1>10. ASSUME NEW p \in Processes, Tick(p) \/ Scan(p) \/ Export(p) \/ Fails(p) \/ Crash(p)
       PROVE Own' /\ CompletedHasEvidence'
  BY <1>1, <1>10, QuietSteps
<1>11. QED
  BY <1>5, <1>7, <1>8, <1>9, <1>10 DEF Next

\* A completed run has its artifacts and every counted result, and was not at the
\* limit of failures: whatever dies, fails, is not acknowledged or loses its lock.
THEOREM ScanCompletedHasEvidence == Spec => []CompletedHasEvidence
<1>1. Init => OwnInv
  <2>1. Init => Own /\ CompletedHasEvidence
    BY IdleEmpty DEF Init, Own, Unique, Fresh, Tally, CompletedHasEvidence, Empty, Scanning, Scans
  <2>2. QED
    BY <2>1, TypedInit DEF OwnInv
<1>2. OwnInv /\ [Next]_vars => OwnInv'
  BY TypedStep, OwnStep DEF OwnInv
<1>3. OwnInv => CompletedHasEvidence
  BY DEF OwnInv
<1>4. QED
  BY <1>1, <1>2, <1>3, PTL DEF Spec

-----------------------------------------------------------------------------
(* While sessions last.                                                     *)

Sessions == used["lockLoss"] = 0

\* A process that is at work holds the lock and its run is running, what it is
\* about to sweep is running, and the column and the payload agree.
Held ==
    /\ \A p \in Processes : proc[p].pc # "idle" => holder = p
    /\ \A p \in Processes : Scanning(proc[p]) => rows[proc[p].run].status = "running"
    /\ \A p \in Processes : proc[p].pc = "begin" =>
           \A i \in proc[p].swept \cap DOMAIN rows : rows[i].status = "running"
    /\ \A i \in DOMAIN rows : rows[i].status = rows[i].pay.status

LockInv == Typed /\ (Sessions => Held)

\* A process at rest is at work on no run.
LEMMA IdleIs ==
    ASSUME Typed, NEW q \in Processes, proc[q].pc = "idle"
    PROVE  proc[q] = Idle /\ ~Scanning(proc[q]) /\ ~Failing(proc[q])
BY Rest, IdleEmpty DEF Shaped, Scanning, Failing, Scans, Empty

\* Who acts is alone.
LEMMA Alone ==
    ASSUME Held, NEW p \in Processes, holder = "none" \/ proc[p].pc # "idle"
    PROVE  \A q \in Processes : q # p => proc[q].pc = "idle"
BY ProcessAssumption DEF Held

\* What a step must show so that the lock still proves what it did.
LEMMA HeldBy ==
    ASSUME Typed, Held, NEW p \in Processes, NEW r \in Process, Become(p, r),
           \/ proc[p].pc # "idle" /\ (holder' = holder \/ r.pc = "idle")
           \/ holder = "none" /\ holder' = p,
           Scanning(r) => rows'[r.run].status = "running",
           r.pc = "begin" => \A i \in r.swept \cap DOMAIN rows' : rows'[i].status = "running",
           \A i \in DOMAIN rows' : rows'[i].status = rows'[i].pay.status
    PROVE  Held'
<1>1. \A q \in Processes : q # p => proc[q].pc = "idle" /\ ~Scanning(proc[q])
  BY Alone, IdleIs
<1>2. proc'[p] = r /\ \A q \in Processes : q # p => proc'[q] = proc[q]
  BY Others
<1>3. \A q \in Processes : proc'[q].pc # "idle" => holder' = q
  BY <1>1, <1>2 DEF Held
<1>4. \A q \in Processes : Scanning(proc'[q]) => rows'[proc'[q].run].status = "running"
  BY <1>1, <1>2
<1>5. \A q \in Processes : proc'[q].pc = "begin" =>
           \A i \in proc'[q].swept \cap DOMAIN rows' : rows'[i].status = "running"
  BY <1>1, <1>2
<1>6. QED
  BY <1>3, <1>4, <1>5 DEF Held

\* Sessions that last now lasted before, and no step was a lost lock.
LEMMA SessionsStep ==
    ASSUME Typed, [Next]_vars
    PROVE  Sessions' => Sessions /\ ~\E p \in Processes : LoseLock(p)
<1> USE DEF Sessions, Typed, TypeOK, Kinds, Faults
<1>1. ASSUME NEW kind \in Kinds, Spend(kind) PROVE Sessions' => Sessions /\ kind # "lockLoss"
  BY <1>1 DEF Spend
<1>2. ASSUME NEW p \in Processes, LoseLock(p) PROVE ~Sessions'
  BY <1>1, <1>2 DEF LoseLock
<1>3. ASSUME NEW p \in Processes, Step(p) PROVE Sessions' => Sessions
  <2>1. UNCHANGED used \/ Spend("uncertain")
    BY <1>3 DEF Step, Sweep, Begin, Insert, Save, Stock, Complete, Fail, Publish, WriteFiles,
       WriteIndex, PublishProgress, Committed
  <2>2. QED
    BY <1>1, <2>1
<1>4. ASSUME NEW p \in Processes, Tick(p) \/ Scan(p) \/ Export(p) \/ Fails(p) \/ Crash(p)
      PROVE Sessions' => Sessions
  <2>1. UNCHANGED used \/ Spend("command") \/ Spend("error") \/ Spend("crash")
    BY <1>4 DEF Tick, Scan, Export, Fails, Crash
  <2>2. QED
    BY <1>1, <2>1
<1>5. ASSUME NextDay \/ UNCHANGED vars PROVE Sessions' => Sessions
  BY <1>5 DEF NextDay, vars
<1>6. Workers \subseteq Processes /\ Operators \subseteq Processes
  BY DEF Processes
<1>7. ~Sessions' \/ Sessions
  BY <1>2, <1>3, <1>4, <1>5, <1>6 DEF Next
<1>8. QED
  BY <1>2, <1>7

\* The lock of a process that acts.
LEMMA HolderStep ==
    ASSUME Typed, NEW p \in Processes, Step(p) \/ Fails(p) \/ Crash(p)
    PROVE  /\ proc[p].pc # "idle"
           /\ Leave(p) \/ holder' = holder
<1>1. CASE Sweep(p) \/ Publish(p)
  BY <1>1 DEF Sweep, Publish, At
<1>2. CASE Begin(p)
  BY <1>2 DEF Begin, At, Insert, PublishThen
<1>3. CASE Save(p) \/ Complete(p)
  BY <1>3 DEF Save, Complete, At
<1>4. CASE Stock(p)
  BY <1>4, StockStep DEF At
<1>5. CASE Fail(p)
  BY <1>5 DEF Fail, At, PublishThen
<1>6. CASE WriteFiles(p)
  <2>1. Resume(p) \/ holder' = holder
    BY <1>6 DEF WriteFiles
  <2>2. QED
    BY <1>6, <2>1, ResumeIs DEF WriteFiles, At
<1>7. CASE WriteIndex(p)
  BY <1>7, ResumeIs DEF WriteIndex, At
<1>8. CASE PublishProgress(p)
  BY <1>8 DEF PublishProgress, At
<1>9. CASE Fails(p)
  <2>1. proc[p].pc # "idle"
    BY <1>9 DEF Fails, Publishing
  <2>2. QED
    BY <1>9, <2>1, ResumeIs DEF Fails
<1>10. CASE Crash(p)
  BY <1>10 DEF Crash, At
<1>11. QED
  BY <1>1, <1>2, <1>3, <1>4, <1>5, <1>6, <1>7, <1>8, <1>9, <1>10 DEF Step

\* r is where p goes, and the lock is p's until it leaves.
LEMMA HeldByStep ==
    ASSUME Typed, Held, NEW p \in Processes, Step(p) \/ Fails(p) \/ Crash(p),
           NEW r \in Process, Become(p, r),
           Scanning(r) => rows'[r.run].status = "running",
           r.pc = "begin" => \A i \in r.swept \cap DOMAIN rows' : rows'[i].status = "running",
           \A i \in DOMAIN rows' : rows'[i].status = rows'[i].pay.status
    PROVE  Held'
<1>1. proc[p].pc # "idle" /\ (Leave(p) \/ holder' = holder)
  BY HolderStep
<1>2. Leave(p) => r.pc = "idle"
  <2>1. ASSUME Leave(p) PROVE r = Idle
    <3>1. Become(p, Idle) /\ Idle \in Process
      BY <2>1, IdleType DEF Leave
    <3>2. QED
      BY <3>1, Others
  <2>2. QED
    BY <2>1, IdleEmpty
<1>3. QED
  BY <1>1, <1>2, HeldBy

\* A step that touches no row keeps what the lock proves.
LEMMA HeldQuiet ==
    ASSUME Typed, Held, NEW p \in Processes, NEW r \in Process, Quiet(p, r),
           \/ Step(p) \/ Fails(p) \/ Crash(p)
           \/ holder = "none" /\ holder' = p
    PROVE  Held'
<1>1. r \in Process /\ Become(p, r) /\ rows' = rows
  BY DEF Quiet
<1>2. Scanning(r) => rows'[r.run].status = "running"
  BY DEF Quiet, Held
<1>3. r.pc = "begin" => \A i \in r.swept \cap DOMAIN rows' : rows'[i].status = "running"
  BY <1>1 DEF Quiet
<1>4. \A i \in DOMAIN rows' : rows'[i].status = rows'[i].pay.status
  BY <1>1 DEF Held
<1>5. CASE Step(p) \/ Fails(p) \/ Crash(p)
  BY <1>1, <1>2, <1>3, <1>4, <1>5, HeldByStep
<1>6. CASE holder = "none" /\ holder' = p
  BY <1>1, <1>2, <1>3, <1>4, <1>6, HeldBy
<1>7. QED
  BY <1>5, <1>6

\* What a step that writes rows leaves in them, while sessions last: the rows agree,
\* and what was completed stays.
Kept == \A i \in DOMAIN rows : rows[i].status \in Completed =>
            i \in DOMAIN rows' /\ rows'[i] = rows[i]

Agreed == \A i \in DOMAIN rows' : rows'[i].status = rows'[i].pay.status

\* Writing column and payload of one row alike keeps them in agreement.
LEMMA OnlyAgrees ==
    ASSUME Held, NEW i \in DOMAIN rows, OnlyRow(i), rows'[i].status = rows'[i].pay.status
    PROVE  Agreed
BY DEF Agreed, Held, OnlyRow

\* Writing a running row takes no completed run back.
LEMMA OnlyKeeps ==
    ASSUME NEW i \in DOMAIN rows, OnlyRow(i), rows[i].status = "running"
    PROVE  Kept
BY DEF Kept, OnlyRow, Completed

\* Beginning a scan keeps what the lock proves and takes no completed run back.
LEMMA BeginHeld ==
    ASSUME Typed, Held, NEW p \in Processes, Begin(p)
    PROVE  Held' /\ Kept
<1>0. proc[p].pc = "begin" /\ proc[p] \in Process /\ Len(rows) \in Nat
      /\ DOMAIN rows = 1..Len(rows) /\ rows \in Seq(Row)
      /\ \A i \in DOMAIN rows : rows[i] \in Row
  BY Rest DEF Begin, At
<1>1. ASSUME NEW r \in Process, Become(p, r), Agreed, r.pc \in {"idle", "publish"},
             r.next = "idle" \/ rows'[r.run].status = "running"
      PROVE Held'
  <2>1. Scanning(r) => rows'[r.run].status = "running"
    BY <1>1 DEF Scanning, Scans
  <2>2. Step(p)
    BY DEF Step
  <2>3. QED
    BY <1>1, <2>1, <2>2, HeldByStep DEF Agreed
<1>2. ASSUME PublishThen(p, Idle, "idle") \/ Leave(p), Agreed PROVE Held'
  <2>1. PICK r \in Process : Become(p, r) /\ r.pc \in {"idle", "publish"} /\ r.next = "idle"
    <3>1. CASE PublishThen(p, Idle, "idle")
      BY <3>1, PublishIdleIs DEF Empty
    <3>2. CASE Leave(p)
      BY <3>2, IdleEmpty DEF Leave, Empty
    <3>3. QED
      BY <1>2, <3>1, <3>2
  <2>2. QED
    BY <1>1, <1>2, <2>1
<1>3. \A i \in DOMAIN rows : /\ Interrupted(rows[i]).status = "failed"
                             /\ Interrupted(rows[i]).pay.status = "failed"
                             /\ rows[i].status = rows[i].pay.status
                             /\ i \in proc[p].swept => rows[i].status = "running"
  BY <1>0, InterruptedRow DEF Held
<1>4. CASE Insert(p)
  <2>1. /\ DOMAIN rows' = 1..(Len(rows) + 1)
        /\ \A i \in DOMAIN rows :
              rows'[i] = IF i \in proc[p].swept THEN Interrupted(rows[i]) ELSE rows[i]
    BY <1>4, InsertedRow
  <2>2. rows'[Len(rows) + 1].status = "running" /\ rows'[Len(rows) + 1].pay.status = "running"
    BY <1>4, InsertSpares
  <2>3. Agreed
    <3>1. ASSUME NEW i \in DOMAIN rows' PROVE rows'[i].status = rows'[i].pay.status
      <4>1. CASE i \in DOMAIN rows
        BY <1>3, <2>1, <4>1
      <4>2. CASE i = Len(rows) + 1
        BY <2>2, <4>2
      <4>3. QED
        BY <1>0, <2>1, <4>1, <4>2
    <3>2. QED
      BY <3>1 DEF Agreed
  <2>4. Kept
    BY <1>0, <1>3, <2>1 DEF Kept, Completed
  <2>5. Held'
    <3>1. CASE Leave(p)
      BY <1>2, <2>3, <3>1
    <3>2. ASSUME NEW r \in Process, Become(p, r), r.pc = "publish", r.next = "save",
                 r.run = Len(rows) + 1
          PROVE Held'
      BY <1>1, <2>2, <2>3, <3>2
    <3>3. QED
      BY <1>0, <1>4, <3>1, <3>2, InsertStep DEF At
  <2>6. QED
    BY <2>4, <2>5
<1>5. CASE /\ rows' = Swept(p)
           /\ \/ PublishThen(p, Idle, "idle") /\ UNCHANGED used
              \/ Leave(p) /\ Spend("uncertain")
  <2>1. /\ DOMAIN rows' = DOMAIN rows
        /\ \A i \in DOMAIN rows :
              rows'[i] = IF i \in proc[p].swept THEN Interrupted(rows[i]) ELSE rows[i]
    BY <1>0, <1>5, SweptRows
  <2>2. Agreed
    BY <1>3, <2>1 DEF Agreed
  <2>3. Kept
    BY <1>3, <2>1 DEF Kept, Completed
  <2>4. QED
    BY <1>2, <1>5, <2>2, <2>3
<1>6. CASE PublishThen(p, Idle, "idle") /\ UNCHANGED rows
  <2>1. Agreed /\ Kept
    BY <1>3, <1>6 DEF Agreed, Kept
  <2>2. QED
    BY <1>2, <1>6, <2>1
<1>7. QED
  BY <1>4, <1>5, <1>6 DEF Begin

\* So does saving the run.
LEMMA SaveHeld ==
    ASSUME Typed, Held, NEW p \in Processes, Save(p)
    PROVE  Held' /\ Kept
<1>0. proc[p].pc = "save" /\ proc[p].run \in DOMAIN rows /\ proc[p].next = "idle"
      /\ proc[p] \in Process /\ rows \in Seq(Row) /\ Step(p)
  BY OwnRun, Rest DEF Save, At, Writing, Step
<1>1. rows[proc[p].run].status = "running"
  BY <1>0 DEF Held, Scanning, Scans
<1>2. CASE SaveRun(proc[p].run, "running", proc[p])
  <2>1. /\ OnlyRow(proc[p].run) /\ rows'[proc[p].run].status = "running"
        /\ rows'[proc[p].run].pay.status = "running"
    BY <1>0, <1>2, SavedRow DEF Statuses
  <2>2. Agreed /\ Kept
    BY <1>0, <1>1, <2>1, OnlyAgrees, OnlyKeeps
  <2>3. Goto(p, "stock") \/ Goto(p, "fail")
    <3>1. proc[p].pc # "idle"
      BY <1>0
    <3>2. Committed(p, Goto(p, "stock")) \/ Goto(p, "fail")
      BY DEF Save
    <3>3. QED
      BY <3>2 DEF Committed
  <2>4. PICK r \in Process : Become(p, r) /\ Like(r, proc[p]) /\ r.pc \in {"stock", "fail"}
                             /\ r.next = proc[p].next
    BY <2>3, GotoIs, LocationNames, ScanWriting DEF Scans
  <2>5. r.run = proc[p].run
    BY <2>4 DEF Like
  <2>6. QED
    BY <1>0, <2>1, <2>2, <2>4, <2>5, HeldByStep DEF Agreed
<1>3. CASE Goto(p, "fail") /\ UNCHANGED rows
  <2>1. PICK r \in Process : Become(p, r) /\ Like(r, proc[p]) /\ r.pc = "fail"
                             /\ r.next = proc[p].next
    BY <1>3, GotoIs, LocationNames, ScanWriting
  <2>2. ~Scanning(r)
    BY <1>0, <2>1 DEF Scanning, Scans
  <2>3. Agreed /\ Kept
    BY <1>3 DEF Held, Agreed, Kept
  <2>4. QED
    BY <1>0, <2>1, <2>2, <2>3, HeldByStep DEF Agreed
<1>4. QED
  BY <1>2, <1>3 DEF Save

\* So does a checkpoint.
LEMMA StockHeld ==
    ASSUME Typed, Held, NEW p \in Processes, Stock(p)
    PROVE  /\ Held' /\ Kept
           /\ \E r \in Process : /\ Become(p, r) /\ r.view = proc[p].view
                                 /\ r.pc \notin {"files", "index"}
                                 /\ Spend("uncertain") \/ rows'[r.run].status = "running"
<1>0. proc[p].pc = "stock" /\ proc[p] \in Process /\ proc[p].run \in DOMAIN rows
      /\ proc[p].next = "idle" /\ rows \in Seq(Row) /\ Step(p)
  BY OwnRun, Rest, StockStep DEF At, Writing, Step
<1>1. rows[proc[p].run].status = "running"
  BY <1>0 DEF Held, Scanning, Scans
<1>2. PICK c \in {0, 1}, f \in {0, 1}, r \in Process :
                /\ r.pc = "stock" /\ r.next = proc[p].next /\ r.run = proc[p].run
                /\ r.view = proc[p].view
                /\ rows' = [rows EXCEPT ![r.run].pay = [status |-> "running", found |-> r.found,
                                                        failed |-> r.failed],
                                        ![r.run].saved = @ + c]
                /\ \/ Goto(p, "fail") /\ Spend("uncertain")
                   \/ /\ UNCHANGED used
                      /\ \/ Become(p, [r EXCEPT !.pc = "progress", !.next = AfterStock(r)])
                         \/ Become(p, [r EXCEPT !.pc = AfterStock(r)])
  BY StockStep
<1>3. /\ OnlyRow(proc[p].run) /\ rows'[proc[p].run].status = "running"
      /\ rows'[proc[p].run].pay.status = "running"
  <2>1. r.run \in DOMAIN rows /\ c \in Nat
    BY <1>0, <1>2
  <2>2. /\ OnlyRow(r.run) /\ rows'[r.run].status = rows[r.run].status
        /\ rows'[r.run].pay.status = "running"
    BY <1>0, <1>2, <2>1, CountedRow
  <2>3. QED
    BY <1>1, <1>2, <2>2
<1>4. Agreed /\ Kept
  BY <1>0, <1>1, <1>3, OnlyAgrees, OnlyKeeps
<1>5. PICK s \in Process :
         /\ Become(p, s) /\ s.run = proc[p].run /\ s.view = proc[p].view
         /\ s.pc \in {"progress", "fail", "complete", "stock"}
  <2>1. CASE Goto(p, "fail")
    BY <2>1, GotoIs, LocationNames, ScanWriting DEF Like
  <2>2. CASE \/ Become(p, [r EXCEPT !.pc = "progress", !.next = AfterStock(r)])
             \/ Become(p, [r EXCEPT !.pc = AfterStock(r)])
    <3>1. PICK s \in Process :
           /\ Become(p, s) /\ Like(s, r) /\ s.pc \in {"progress", AfterStock(r)}
      BY <1>0, <1>2, <2>2, StockPlaces
    <3>2. s.run = proc[p].run /\ s.view = proc[p].view
          /\ s.pc \in {"progress", "fail", "complete", "stock"}
      BY <1>2, <3>1, AfterStockIs DEF Like
    <3>3. QED
      BY <3>1, <3>2
  <2>3. QED
    BY <1>2, <2>1, <2>2
<1>6. Held'
  BY <1>0, <1>3, <1>4, <1>5, HeldByStep DEF Agreed
<1>7. QED
  BY <1>3, <1>4, <1>5, <1>6

\* So does completing.
LEMMA CompleteHeld ==
    ASSUME Typed, Held, NEW p \in Processes, Complete(p)
    PROVE  Held' /\ Kept
<1>0. proc[p].pc = "complete" /\ proc[p].run \in DOMAIN rows /\ proc[p].next = "idle"
      /\ proc[p] \in Process /\ Step(p)
  BY OwnRun DEF Complete, At, Writing, Step
<1>1. rows[proc[p].run].status = "running"
  BY <1>0 DEF Held, Scanning, Scans
<1>2. OnlyRow(proc[p].run) /\ rows'[proc[p].run].status = rows'[proc[p].run].pay.status
  BY CompletedRow
<1>3. Agreed /\ Kept
  BY <1>0, <1>1, <1>2, OnlyAgrees, OnlyKeeps
<1>4. PICK r \in Process : Become(p, r) /\ r.pc \in {"publish", "fail"} /\ r.next = "idle"
  <2>1. Goto(p, "publish") \/ Goto(p, "fail")
    BY DEF Complete, Committed, Goto
  <2>2. QED
    BY <1>0, <2>1, GotoIs, LocationNames, ScanWriting
<1>5. ~Scanning(r) /\ r.pc # "begin"
  BY <1>4 DEF Scanning, Scans
<1>6. QED
  BY <1>0, <1>3, <1>4, <1>5, HeldByStep DEF Agreed

\* So does failing, when the run is still running.
LEMMA FailHeld ==
    ASSUME Typed, Held, NEW p \in Processes, Fail(p)
    PROVE  Held' /\ (rows[proc[p].run].status = "running" => Kept)
<1>0. proc[p].run \in DOMAIN rows /\ SaveRun(proc[p].run, "failed", proc[p])
      /\ proc[p] \in Process /\ rows \in Seq(Row) /\ Step(p)
  BY OwnRun, Rest DEF Fail, At, Writing, Step
<1>1. /\ OnlyRow(proc[p].run) /\ rows'[proc[p].run].status = "failed"
      /\ rows'[proc[p].run].pay.status = "failed"
  BY <1>0, SavedRow DEF Statuses
<1>2. Agreed /\ (rows[proc[p].run].status = "running" => Kept)
  BY <1>0, <1>1, OnlyAgrees, OnlyKeeps
<1>3. PICK r \in Process : Become(p, r) /\ r.pc \in {"idle", "publish"} /\ r.next = "idle"
  <2>1. CASE PublishThen(p, Idle, "idle")
    BY <2>1, PublishIdleIs DEF Empty
  <2>2. CASE Leave(p)
    BY <2>2, IdleEmpty DEF Leave, Empty
  <2>3. QED
    BY <2>1, <2>2 DEF Fail
<1>4. ~Scanning(r) /\ r.pc # "begin"
  BY <1>3 DEF Scanning, Scans
<1>5. QED
  BY <1>0, <1>2, <1>3, <1>4, HeldByStep DEF Agreed

\* While sessions last every step keeps what the lock proves.
LEMMA HeldStep == ASSUME Typed, Held, Sessions', [Next]_vars PROVE Held'
<1>0. ~\E p \in Processes : LoseLock(p)
  BY SessionsStep
<1>1. ASSUME NEW p \in Processes, Step(p) PROVE Held'
  <2>1. CASE Quietly(p)
    BY <1>1, <2>1, HeldQuiet DEF Quietly
  <2>2. CASE Begin(p) \/ Save(p) \/ Stock(p) \/ Complete(p) \/ Fail(p)
    BY <2>2, BeginHeld, SaveHeld, StockHeld, CompleteHeld, FailHeld
  <2>3. QED
    BY <1>1, <2>1, <2>2, QuietSteps DEF Step
<1>2. ASSUME NEW p \in Processes, Fails(p) \/ Crash(p) PROVE Held'
  BY <1>2, QuietSteps, HeldQuiet DEF Quietly
<1>3. ASSUME NEW p \in Processes, Tick(p) \/ Scan(p) \/ Export(p) PROVE Held'
  <2>1. holder = "none" /\ holder' = p
    BY <1>3, StartStep
  <2>2. QED
    BY <1>3, <2>1, QuietSteps, HeldQuiet DEF Quietly
<1>4. CASE NextDay \/ UNCHANGED vars
  BY <1>4 DEF NextDay, vars, Held
<1>5. Workers \subseteq Processes /\ Operators \subseteq Processes
  BY DEF Processes
<1>6. QED
  BY <1>0, <1>1, <1>2, <1>3, <1>4, <1>5 DEF Next

\* At first nobody holds the lock.
LEMMA HeldInit == Init => Held
<1> SUFFICES ASSUME Init PROVE Held
  OBVIOUS
<1>1. \A p \in Processes : proc[p].pc = "idle" /\ ~Scanning(proc[p])
  BY IdleEmpty DEF Init, Empty, Scanning, Scans
<1>2. QED
  BY <1>1 DEF Init, Held

\* The invariant of the lock holds at first.
LEMMA LockInvInit == Init => LockInv
BY TypedInit, HeldInit DEF LockInv

\* Every step preserves it.
LEMMA LockInvStep == LockInv /\ [Next]_vars => LockInv'
<1> SUFFICES ASSUME LockInv, [Next]_vars PROVE LockInv'
  OBVIOUS
<1>1. Typed'
  BY TypedStep DEF LockInv
<1>2. ASSUME Sessions' PROVE Held'
  BY <1>2, SessionsStep, HeldStep DEF LockInv
<1>3. QED
  BY <1>1, <1>2 DEF LockInv

\* While no session is lost, no run that a process is at work on is swept and the
\* two records of a status agree, for any number of processes.
THEOREM ScanSweepTakesDeadRuns == Spec => []SweepTakesDeadRuns
<1>1. LockInv => SweepTakesDeadRuns
  BY DEF LockInv, Sessions, Held, SweepTakesDeadRuns, Scanning, Scans
<1>2. QED
  BY <1>1, LockInvInit, LockInvStep, PTL DEF Spec

-----------------------------------------------------------------------------
(* What is told of a completed run.                                         *)

\* What pay says of run i is so for good: the row has these counts and results, and
\* no process will count more for it.
Sealed(i, pay) ==
    /\ i \in DOMAIN rows /\ pay \in Payload
    /\ pay.status = IF pay.failed = 0 THEN "success" ELSE "completed_with_warnings"
    /\ rows[i].pay.found = pay.found /\ rows[i].pay.failed = pay.failed
    /\ rows[i].saved = pay.found
    /\ \A p \in Processes : proc[p].run = i =>
          ~Scanning(proc[p]) /\ proc[p].found = pay.found /\ proc[p].failed = pay.failed

\* A run has one sealed payload.
LEMMA SealedOnce ==
    ASSUME NEW i, NEW x, NEW y, Sealed(i, x), Sealed(i, y)
    PROVE  x = y
<1>1. x.status = y.status /\ x.found = y.found /\ x.failed = y.failed
  BY DEF Sealed
<1>2. x \in Payload /\ y \in Payload
  BY DEF Sealed
<1>3. x = [status |-> x.status, found |-> x.found, failed |-> x.failed]
      /\ y = [status |-> y.status, found |-> y.found, failed |-> y.failed]
  BY <1>2 DEF Payload
<1>4. QED
  BY <1>1, <1>3

\* p moves, and the row keeps its counts.
LEMMA SealedBy ==
    ASSUME Typed, NEW i, NEW pay, Sealed(i, pay), NEW p \in Processes, NEW r \in Process,
           Become(p, r), i \in DOMAIN rows',
           rows'[i].pay.found = rows[i].pay.found, rows'[i].pay.failed = rows[i].pay.failed,
           rows'[i].saved = rows[i].saved,
           r.run = i => ~Scanning(r) /\ r.found = pay.found /\ r.failed = pay.failed
    PROVE  Sealed(i, pay)'
<1>1. proc'[p] = r /\ \A q \in Processes : q # p => proc'[q] = proc[q]
  BY Others
<1>2. \A q \in Processes : proc'[q].run = i =>
          ~Scanning(proc'[q]) /\ proc'[q].found = pay.found /\ proc'[q].failed = pay.failed
  BY <1>1 DEF Sealed
<1>3. QED
  BY <1>2 DEF Sealed

\* A row that a sweep or an insertion finds.
LEMMA BeginRows ==
    ASSUME Typed, NEW p \in Processes, Begin(p), NEW i \in DOMAIN rows
    PROVE  i \in DOMAIN rows' /\ rows'[i] \in {rows[i], Interrupted(rows[i])}
<1>0. Len(rows) \in Nat /\ DOMAIN rows = 1..Len(rows) /\ rows \in Seq(Row)
  BY Rest
<1>1. CASE Insert(p)
  BY <1>0, <1>1, InsertedRow
<1>2. CASE rows' = Swept(p)
  BY <1>0, <1>2, SweptRows
<1>3. CASE rows' = rows
  BY <1>3
<1>4. QED
  BY <1>1, <1>2, <1>3 DEF Begin

\* Where a step leaves p that reads no runs and goes on to no file: it knows what
\* it knew, or nothing.
Away(p, r) ==
    /\ r \in Process /\ Become(p, r) /\ r.view \in {proc[p].view, NoIndex}
    /\ r.pc \notin {"files", "index"}
    /\ r.run \in {0, proc[p].run, Len(rows) + 1}

\* Leaving and going to publish take a process away from the files.
LEMMA LeaveAway ==
    ASSUME Typed, NEW p \in Processes, Leave(p) \/ PublishThen(p, Idle, "idle")
    PROVE  \E r \in Process : Away(p, r) /\ r.run = 0 /\ r.next = "idle" /\ r.pc \in {"idle", "publish"}
<1>1. PICK r \in Process : Become(p, r) /\ Empty(r) /\ r.pc \in {"idle", "publish"}
  <2>1. CASE PublishThen(p, Idle, "idle")
    BY <2>1, PublishIdleIs
  <2>2. CASE Leave(p)
    BY <2>2, IdleEmpty DEF Leave, Empty
  <2>3. QED
    BY <2>1, <2>2
<1>2. QED
  BY <1>1 DEF Empty, Away

\* So does any move that is not one to the files.
LEMMA GotoAway ==
    ASSUME Typed, NEW p \in Processes, NEW l \in Locations, Goto(p, l), l \notin {"files", "index"}
    PROVE  \E r \in Process : Away(p, r) /\ Like(r, proc[p]) /\ r.pc = l /\ r.next = proc[p].next
<1>1. PICK r \in Process : Become(p, r) /\ Like(r, proc[p]) /\ r.pc = l /\ r.next = proc[p].next
  BY GotoIs
<1>2. QED
  BY <1>1 DEF Away, Like

\* So does returning from the progress.
LEMMA ResumeAway ==
    ASSUME Typed, NEW p \in Processes, Resume(p)
    PROVE  \E r \in Process : Away(p, r)
<1>1. CASE Leave(p)
  BY <1>1, LeaveAway
<1>2. ASSUME NEW r \in Process, Become(p, r), proc[p].next # "idle", r.pc = proc[p].next,
             r.run = proc[p].run, r.view = NoIndex
      PROVE Away(p, r)
  <2>1. proc[p].next \in Writing
    BY <1>2, Rest DEF Shaped
  <2>2. QED
    BY <1>2, <2>1 DEF Away, Writing
<1>3. QED
  BY <1>1, <1>2, ResumeIs

\* So does beginning a scan.
LEMMA BeginAway ==
    ASSUME Typed, NEW p \in Processes, Begin(p)
    PROVE  \E r \in Process : Away(p, r) /\ r.run \in {0, Len(rows) + 1}
<1>1. CASE Leave(p) \/ PublishThen(p, Idle, "idle")
  BY <1>1, LeaveAway
<1>2. ASSUME NEW r \in Process, Become(p, r), r.pc = "publish", r.next = "save",
             r.run = Len(rows) + 1, r.view = proc[p].view
      PROVE Away(p, r)
  BY <1>2 DEF Away
<1>3. CASE Insert(p)
  <2>1. At(p, "begin")
    BY DEF Begin
  <2>2. QED
    BY <1>1, <1>2, <1>3, <2>1, InsertStep
<1>4. QED
  BY <1>1, <1>3 DEF Begin

\* So does a checkpoint.
LEMMA StockAway ==
    ASSUME Typed, NEW p \in Processes, Stock(p)
    PROVE  \E r \in Process : Away(p, r) /\ r.run = proc[p].run
<1>0. proc[p].pc = "stock" /\ proc[p].next = "idle"
  BY OwnRun, StockStep DEF At, Writing
<1>1. PICK r \in Process :
          /\ r.next = proc[p].next /\ r.run = proc[p].run /\ r.view = proc[p].view
          /\ \/ Goto(p, "fail") /\ Spend("uncertain")
             \/ /\ UNCHANGED used
                /\ \/ Become(p, [r EXCEPT !.pc = "progress", !.next = AfterStock(r)])
                   \/ Become(p, [r EXCEPT !.pc = AfterStock(r)])
  BY StockStep
<1>2. CASE Goto(p, "fail")
  BY <1>2, GotoAway, LocationNames, ScanWriting DEF Like
<1>3. CASE \/ Become(p, [r EXCEPT !.pc = "progress", !.next = AfterStock(r)])
           \/ Become(p, [r EXCEPT !.pc = AfterStock(r)])
  <2>1. PICK s \in Process :
           Become(p, s) /\ Like(s, r) /\ s.pc \in {"progress", AfterStock(r)}
    BY <1>0, <1>1, <1>3, StockPlaces
  <2>2. Away(p, s) /\ s.run = proc[p].run
    BY <1>1, <2>1, AfterStockIs DEF Like, Away
  <2>3. QED
    BY <2>1, <2>2
<1>4. QED
  BY <1>1, <1>2, <1>3

\* So do the steps that write the run's own row.
LEMMA WriterAway ==
    ASSUME Typed, NEW p \in Processes, Save(p) \/ Complete(p) \/ Fail(p)
    PROVE  \E r \in Process : Away(p, r) /\ r.run \in {0, proc[p].run}
                              /\ (Complete(p) => r.next = "idle" /\ r.pc \notin Scans)
                              /\ (Complete(p) => r.run = proc[p].run /\ r.found = proc[p].found
                                                 /\ r.failed = proc[p].failed)
<1>1. CASE Save(p)
  <2>0. ~Complete(p)
    BY <1>1 DEF Save, Complete, At
  <2>1. Goto(p, "stock") \/ Goto(p, "fail")
    BY <1>1 DEF Save, Committed
  <2>2. QED
    BY <2>0, <2>1, GotoAway, LocationNames, ScanWriting DEF Like, Scans
<1>2. CASE Complete(p)
  <2>1. Goto(p, "publish") \/ Goto(p, "fail")
    BY <1>2 DEF Complete, Committed, Goto
  <2>2. proc[p].next = "idle"
    BY <1>2, OwnRun DEF Complete, At, Writing
  <2>3. PICK r \in Process : /\ Away(p, r) /\ Like(r, proc[p]) /\ r.pc \in {"publish", "fail"}
                             /\ r.next = proc[p].next
    BY <2>1, GotoAway, LocationNames, ScanWriting
  <2>4. QED
    BY <2>2, <2>3 DEF Like, Scans
<1>3. CASE Fail(p)
  <2>0. ~Complete(p)
    BY <1>3 DEF Fail, Complete, At
  <2>1. Leave(p) \/ PublishThen(p, Idle, "idle")
    BY <1>3 DEF Fail
  <2>2. QED
    BY <2>0, <2>1, LeaveAway
<1>4. QED
  BY <1>1, <1>2, <1>3

\* A checkpoint writes the payload of its own row and leaves it running.
LEMMA StockRow ==
    ASSUME Typed, NEW p \in Processes, Stock(p)
    PROVE  /\ proc[p].pc = "stock" /\ proc[p].run \in DOMAIN rows /\ OnlyRow(proc[p].run)
           /\ rows'[proc[p].run].status = rows[proc[p].run].status
           /\ rows'[proc[p].run].pay.status = "running"
<1>0. proc[p].pc = "stock" /\ proc[p].run \in DOMAIN rows /\ rows \in Seq(Row)
  BY OwnRun, Rest, StockStep DEF At, Writing
<1>1. PICK c \in {0, 1}, f \in {0, 1}, r \in Process :
            /\ r.run = proc[p].run
            /\ rows' = [rows EXCEPT ![r.run].pay = [status |-> "running", found |-> r.found,
                                                    failed |-> r.failed],
                                    ![r.run].saved = @ + c]
  BY ZenonT(60), StockStep
<1>2. r.run \in DOMAIN rows /\ c \in Nat
  BY <1>0, <1>1
<1>3. /\ OnlyRow(r.run) /\ rows'[r.run].status = rows[r.run].status
      /\ rows'[r.run].pay.status = "running"
  BY <1>0, <1>1, <1>2, CountedRow
<1>4. QED
  BY <1>0, <1>1, <1>3

\* What is said of a run stays so, whoever acts.
LEMMA SealedStep ==
    ASSUME Typed, [Next]_vars, NEW i, NEW pay, Sealed(i, pay)
    PROVE  Sealed(i, pay)'
<1>0. /\ i \in DOMAIN rows /\ DOMAIN rows = 1..Len(rows) /\ Len(rows) \in Nat
      /\ rows \in Seq(Row) /\ \A j \in DOMAIN rows : rows[j] \in Row
      /\ i # 0 /\ i # Len(rows) + 1
      /\ \A q \in Processes : proc[q] \in Process
  BY Rest DEF Sealed
<1>1. ASSUME NEW p \in Processes, Quietly(p) PROVE Sealed(i, pay)'
  <2>1. PICK r \in Process : Quiet(p, r)
    BY <1>1 DEF Quietly
  <2>2. r.run = i => ~Scanning(r) /\ r.found = pay.found /\ r.failed = pay.failed
    BY <1>0, <2>1 DEF Quiet, Sealed
  <2>3. rows' = rows /\ Become(p, r)
    BY <2>1 DEF Quiet
  <2>4. QED
    BY <1>0, <2>2, <2>3, SealedBy
<1>2. ASSUME NEW p \in Processes, proc[p].run # i, OnlyRow(proc[p].run),
             NEW r \in Process, Become(p, r), r.run \in {0, proc[p].run}
      PROVE Sealed(i, pay)'
  <2>1. i \in DOMAIN rows' /\ rows'[i] = rows[i]
    BY <1>0, <1>2 DEF OnlyRow
  <2>2. QED
    BY <1>0, <1>2, <2>1, SealedBy
<1>3. ASSUME NEW p \in Processes, Begin(p) PROVE Sealed(i, pay)'
  <2>1. PICK r \in Process : Away(p, r) /\ r.run \in {0, Len(rows) + 1}
    BY <1>3, BeginAway
  <2>2. i \in DOMAIN rows' /\ rows'[i] \in {rows[i], Interrupted(rows[i])}
    BY <1>0, <1>3, BeginRows
  <2>3. /\ rows'[i].pay.found = rows[i].pay.found /\ rows'[i].pay.failed = rows[i].pay.failed
        /\ rows'[i].saved = rows[i].saved
    BY <1>0, <2>2, InterruptedRow
  <2>4. r.run # i /\ Become(p, r)
    BY <1>0, <2>1 DEF Away
  <2>5. QED
    BY <2>2, <2>3, <2>4, SealedBy
<1>4. ASSUME NEW p \in Processes, Save(p) PROVE Sealed(i, pay)'
  <2>1. proc[p].pc = "save" /\ proc[p].run \in DOMAIN rows
    BY <1>4, OwnRun DEF Save, At, Writing
  <2>2. proc[p].run # i
    BY <2>1 DEF Sealed, Scanning, Scans
  <2>3. CASE SaveRun(proc[p].run, "running", proc[p])
    <3>1. OnlyRow(proc[p].run)
      BY <1>0, <2>1, <2>3, SavedRow DEF Statuses
    <3>2. PICK r \in Process : Away(p, r) /\ r.run \in {0, proc[p].run}
      BY <1>4, WriterAway
    <3>3. QED
      BY <1>2, <2>2, <3>1, <3>2 DEF Away
  <2>4. CASE rows' = rows
    <3>1. PICK r \in Process : Away(p, r) /\ r.run \in {0, proc[p].run}
      BY <1>4, WriterAway
    <3>2. QED
      BY <1>0, <2>2, <2>4, <3>1, SealedBy DEF Away
  <2>5. QED
    BY <1>4, <2>3, <2>4 DEF Save
<1>5. ASSUME NEW p \in Processes, Stock(p) PROVE Sealed(i, pay)'
  <2>1. proc[p].pc = "stock" /\ OnlyRow(proc[p].run)
    BY <1>5, StockRow
  <2>2. proc[p].run # i
    BY <2>1 DEF Sealed, Scanning, Scans
  <2>3. PICK s \in Process : Away(p, s) /\ s.run = proc[p].run
    BY <1>5, StockAway
  <2>4. QED
    BY <1>2, <2>1, <2>2, <2>3 DEF Away
<1>6. ASSUME NEW p \in Processes, Complete(p) PROVE Sealed(i, pay)'
  <2>1. proc[p].pc = "complete" /\ OnlyRow(proc[p].run)
    BY <1>6, CompletedRow DEF Complete, At
  <2>2. proc[p].run # i
    BY <2>1 DEF Sealed, Scanning, Scans
  <2>3. PICK r \in Process : Away(p, r) /\ r.run \in {0, proc[p].run}
    BY <1>6, WriterAway
  <2>4. QED
    BY <1>2, <2>1, <2>2, <2>3 DEF Away
<1>7. ASSUME NEW p \in Processes, Fail(p) PROVE Sealed(i, pay)'
  <2>1. proc[p].run \in DOMAIN rows /\ SaveRun(proc[p].run, "failed", proc[p])
    BY <1>7, OwnRun DEF Fail, At, Writing
  <2>2. /\ OnlyRow(proc[p].run) /\ rows'[proc[p].run].pay.found = proc[p].found
        /\ rows'[proc[p].run].pay.failed = proc[p].failed
        /\ rows'[proc[p].run].saved = rows[proc[p].run].saved
    BY <1>0, <2>1, SavedRow DEF Statuses
  <2>3. PICK r \in Process : Away(p, r) /\ r.run = 0
    BY <1>7, LeaveAway DEF Fail
  <2>4. /\ i \in DOMAIN rows' /\ rows'[i].pay.found = rows[i].pay.found
        /\ rows'[i].pay.failed = rows[i].pay.failed /\ rows'[i].saved = rows[i].saved
    BY <1>0, <2>2 DEF OnlyRow, Sealed
  <2>5. QED
    BY <1>0, <2>3, <2>4, SealedBy DEF Away
<1>8. ASSUME NEW p \in Processes, Step(p) PROVE Sealed(i, pay)'
  BY <1>1, <1>3, <1>4, <1>5, <1>6, <1>7, <1>8, QuietSteps DEF Step
<1>9. ASSUME UNCHANGED <<rows, proc>> PROVE Sealed(i, pay)'
  BY <1>9 DEF Sealed
<1>10. ASSUME NEW p \in Processes, Tick(p) \/ Scan(p) \/ Export(p) \/ Fails(p) \/ Crash(p)
       PROVE Sealed(i, pay)'
  BY <1>1, <1>10, QuietSteps
<1>11. ASSUME NEW p \in Processes, LoseLock(p) PROVE Sealed(i, pay)'
  BY <1>9, <1>11 DEF LoseLock
<1>12. CASE NextDay \/ UNCHANGED vars
  BY <1>9, <1>12 DEF NextDay, vars
<1>13. Workers \subseteq Processes /\ Operators \subseteq Processes
  BY DEF Processes
<1>14. QED
  BY <1>8, <1>10, <1>11, <1>12, <1>13 DEF Next

\* Only a completion makes a payload a completed one.
LEMMA PayStep ==
    ASSUME Typed, [Next]_vars, NEW i \in DOMAIN rows', rows'[i].pay.status \in Completed
    PROVE  \/ i \in DOMAIN rows /\ rows'[i].pay = rows[i].pay
           \/ \E p \in Processes : Complete(p) /\ i = proc[p].run
<1> DEFINE goal == \/ i \in DOMAIN rows /\ rows'[i].pay = rows[i].pay
                   \/ \E p \in Processes : Complete(p) /\ i = proc[p].run
<1>0. /\ DOMAIN rows = 1..Len(rows) /\ Len(rows) \in Nat
      /\ rows \in Seq(Row) /\ \A j \in DOMAIN rows : rows[j] \in Row
      /\ \A q \in Processes : proc[q] \in Process
  BY Rest
<1>1. ASSUME rows' = rows PROVE goal
  BY <1>1
<1>2. ASSUME NEW p \in Processes, Quietly(p) PROVE goal
  BY <1>1, <1>2 DEF Quietly, Quiet
<1>3. ASSUME NEW p \in Processes, Begin(p) PROVE goal
  <2>1. CASE i \in DOMAIN rows
    <3>1. rows'[i] \in {rows[i], Interrupted(rows[i])}
      BY <1>3, <2>1, BeginRows
    <3>2. rows'[i] = rows[i]
      BY <1>0, <2>1, <3>1, InterruptedRow DEF Completed
    <3>3. QED
      BY <2>1, <3>2
  <2>2. CASE i \notin DOMAIN rows
    <3>1. CASE Insert(p)
      BY <1>0, <2>2, <3>1, InsertSpares DEF Completed
    <3>2. CASE rows' = Swept(p) \/ rows' = rows
      BY <1>0, <1>3, <2>2, <3>2, SweptRows
    <3>3. QED
      BY <1>3, <3>1, <3>2 DEF Begin
  <2>3. QED
    BY <2>1, <2>2
<1>4. ASSUME NEW p \in Processes, OnlyRow(proc[p].run), proc[p].run \in DOMAIN rows,
             rows'[proc[p].run].pay.status \notin Completed
      PROVE goal
  BY <1>4 DEF OnlyRow
<1>5. ASSUME NEW p \in Processes, Save(p) PROVE goal
  <2>1. proc[p].run \in DOMAIN rows
    BY <1>5, OwnRun DEF Save, At, Writing
  <2>2. CASE SaveRun(proc[p].run, "running", proc[p])
    BY <1>0, <1>4, <2>1, <2>2, SavedRow DEF Statuses, Completed
  <2>3. QED
    BY <1>1, <1>5, <2>2 DEF Save
<1>6. ASSUME NEW p \in Processes, Fail(p) PROVE goal
  <2>1. proc[p].run \in DOMAIN rows /\ SaveRun(proc[p].run, "failed", proc[p])
    BY <1>6, OwnRun DEF Fail, At, Writing
  <2>2. QED
    BY <1>0, <1>4, <2>1, SavedRow DEF Statuses, Completed
<1>7. ASSUME NEW p \in Processes, Stock(p) PROVE goal
  BY <1>4, <1>7, StockRow DEF Completed
<1>8. ASSUME NEW p \in Processes, Complete(p) PROVE goal
  <2>1. OnlyRow(proc[p].run)
    BY <1>8, CompletedRow
  <2>2. QED
    BY <1>8, <2>1 DEF OnlyRow
<1>9. ASSUME NEW p \in Processes, Step(p) PROVE goal
  BY <1>2, <1>3, <1>5, <1>6, <1>7, <1>8, <1>9, QuietSteps DEF Step
<1>10. ASSUME NEW p \in Processes, Tick(p) \/ Scan(p) \/ Export(p) \/ Fails(p) \/ Crash(p)
       PROVE goal
  BY <1>2, <1>10, QuietSteps
<1>11. ASSUME NEW p \in Processes, LoseLock(p) PROVE goal
  BY <1>1, <1>11 DEF LoseLock
<1>12. CASE NextDay \/ UNCHANGED vars
  BY <1>1, <1>12 DEF NextDay, vars
<1>13. Workers \subseteq Processes /\ Operators \subseteq Processes
  BY DEF Processes
<1>14. QED
  BY <1>9, <1>10, <1>11, <1>12, <1>13 DEF Next

\* A completion is told of nobody's other work: the run is the process's alone.
LEMMA CompleteSeals ==
    ASSUME OwnInv, NEW p \in Processes, Complete(p), NEW i, i = proc[p].run,
           NEW pay, pay = rows'[i].pay
    PROVE  Sealed(i, pay)'
<1>0. /\ proc[p].pc = "complete" /\ proc[p].run \in DOMAIN rows /\ proc[p] \in Process
      /\ DOMAIN rows = 1..Len(rows) /\ proc[p].next = "idle" /\ Typed
  BY OwnRun, Rest DEF Complete, At, Writing, OwnInv
<1>1. Counted(proc[p], rows[i])
  BY <1>0 DEF OwnInv, Own, Tally, Scanning, Scans
<1>2. /\ OnlyRow(i) /\ rows'[i].pay.status = Verdict(proc[p])
      /\ rows'[i].pay.found = proc[p].found /\ rows'[i].pay.failed = proc[p].failed
      /\ rows'[i].saved = rows[i].saved
  BY <1>0, CompletedRow
<1>3. rows'[i] \in Row /\ rows'[i].pay \in Payload
  <2>1. rows' \in Seq(Row) /\ i \in DOMAIN rows'
    BY <1>0, <1>2 DEF OnlyRow
  <2>2. rows'[i] \in Row
    BY <2>1, ElementOfSeq, LenProperties
  <2>3. QED
    BY <2>2, RowParts
<1>4. PICK r \in Process : /\ Away(p, r) /\ r.next = "idle" /\ r.pc \notin Scans
                           /\ r.run = proc[p].run /\ r.found = proc[p].found
                           /\ r.failed = proc[p].failed
  BY <1>0, WriterAway
<1>5. proc'[p] = r /\ \A q \in Processes : q # p => proc'[q] = proc[q]
  BY <1>0, <1>4, Others DEF Away
<1>6. \A q \in Processes : q # p => proc[q].run # i
  BY <1>0 DEF OwnInv, Own, Unique
<1>7. ~Scanning(r)
  BY <1>4, ScanWriting DEF Scanning
<1>8. \A q \in Processes : proc'[q].run = i =>
          ~Scanning(proc'[q]) /\ proc'[q].found = pay.found /\ proc'[q].failed = pay.failed
  BY <1>2, <1>4, <1>5, <1>6, <1>7
<1>9. pay.status = IF pay.failed = 0 THEN "success" ELSE "completed_with_warnings"
  BY <1>2 DEF Verdict
<1>10. i \in DOMAIN rows' /\ rows'[i].saved = pay.found
  BY <1>0, <1>1, <1>2 DEF OnlyRow, Counted
<1>11. QED
  BY <1>3, <1>8, <1>9, <1>10 DEF Sealed

Done(v)    == v[2].status \in Completed
InFiles(v) == v \in details /\ <<v[1], v[2].found>> \in lists

\* Every completed payload that the rows, a publication, the files or the index has
\* is sealed, and what a publication or the index has that is not still to be
\* written is in the files.
RowsTold  == \A i \in DOMAIN rows : rows[i].pay.status \in Completed => Sealed(i, rows[i].pay)
ViewsTold == \A p \in Processes : \A v \in proc[p].view.runs : Done(v) => Sealed(v[1], v[2])
FilesTold ==
    /\ \A d \in details : Done(d) /\ Sealed(d[1], d[2])
    /\ \A l \in lists : \E y \in Payload : Sealed(l[1], y) /\ l[2] = y.found
WrittenTold ==
    \A p \in Processes : proc[p].pc \in {"files", "index"} =>
        \A v \in proc[p].view.runs : Done(v) /\ v[1] \notin proc[p].todo => InFiles(v)
IndexTold ==
    /\ index.latest = Newest(CompletedRuns(index.runs))
    /\ \A v \in index.runs : Done(v) => InFiles(v)

ToldInv == OwnInv /\ RowsTold /\ ViewsTold /\ FilesTold /\ WrittenTold /\ IndexTold

\* Every completed payload in a row stays the sealed one.
LEMMA RowsToldStep == ASSUME OwnInv, RowsTold, [Next]_vars PROVE RowsTold'
<1>0. Typed
  BY DEF OwnInv
<1>1. ASSUME NEW i \in DOMAIN rows', rows'[i].pay.status \in Completed,
             NEW pay, pay = rows'[i].pay
      PROVE Sealed(i, pay)'
  <2>1. CASE i \in DOMAIN rows /\ rows'[i].pay = rows[i].pay
    <3>1. Sealed(i, pay)
      BY <1>1, <2>1 DEF RowsTold
    <3>2. QED
      BY <1>0, <3>1, SealedStep
  <2>2. ASSUME NEW p \in Processes, Complete(p), i = proc[p].run PROVE Sealed(i, pay)'
    BY <1>1, <2>2, CompleteSeals
  <2>3. QED
    BY <1>0, <1>1, <2>1, <2>2, PayStep
<1>2. ASSUME NEW i \in DOMAIN rows', rows'[i].pay.status \in Completed
      PROVE Sealed(i, rows[i].pay)'
  <2> DEFINE pay == rows'[i].pay
  <2>1. \E y : y = pay
    OBVIOUS
  <2>2. PICK y : y = pay
    BY <2>1
  <2>3. Sealed(i, y)'
    BY <1>1, <1>2, <2>2
  <2>4. QED
    BY <2>2, <2>3 DEF Sealed
<1>3. QED
  BY <1>2 DEF RowsTold

\* What a process knows of the runs after a step: what it knew, nothing, or what
\* it read just now.
LEMMA ViewStep ==
    ASSUME Typed, NEW p \in Processes,
           Step(p) \/ Tick(p) \/ Scan(p) \/ Export(p) \/ Fails(p) \/ Crash(p)
    PROVE  \E r \in Process :
             /\ Become(p, r)
             /\ r.view \in {proc[p].view, NoIndex} \/ (rows' = rows /\ r.view = View)
<1> DEFINE goal == \E r \in Process :
             /\ Become(p, r)
             /\ r.view \in {proc[p].view, NoIndex} \/ (rows' = rows /\ r.view = View)
<1>0. proc[p] \in Process /\ rows \in Seq(Row)
  BY Rest
<1>1. ASSUME NEW r \in Process, Away(p, r) PROVE goal
  BY <1>1 DEF Away
<1>2. CASE Tick(p) \/ Scan(p) \/ Export(p)
  BY <1>2, StartStep
<1>3. CASE Sweep(p)
  BY <1>3, SweepStep DEF Like
<1>4. CASE Begin(p) \/ Save(p) \/ Stock(p) \/ Complete(p) \/ Fail(p)
  BY <1>1, <1>4, BeginAway, StockAway, WriterAway
<1>5. CASE Publish(p)
  <2>1. rows' = rows
    BY <1>5, PublishStep
  <2>2. QED
    BY <1>5, <2>1, PublishStep
<1>6. CASE WriteFiles(p)
  <2>1. CASE ToIndex(p, proc[p].view)
    <3>1. proc[p].view \in Public
      BY <1>0, ProcessParts
    <3>2. QED
      BY <2>1, <3>1, ToIndexStep
  <2>2. CASE Resume(p)
    BY <1>1, <2>2, ResumeAway
  <2>3. QED
    BY <1>6, <2>1, <2>2, FilesStep
<1>7. CASE WriteIndex(p)
  BY <1>1, <1>7, ResumeAway DEF WriteIndex
<1>8. CASE PublishProgress(p)
  <2>1. rows' = rows
    BY <1>8 DEF PublishProgress
  <2>2. CASE ToIndex(p, View)
    BY <1>0, <2>1, <2>2, ViewIs, ToIndexStep
  <2>3. CASE Goto(p, "publish")
    BY <1>1, <2>3, GotoAway, LocationNames
  <2>4. QED
    BY <1>8, <2>2, <2>3 DEF PublishProgress
<1>9. CASE Fails(p)
  <2>1. CASE Leave(p)
    BY <1>1, <2>1, LeaveAway
  <2>2. CASE Goto(p, "fail")
    BY <1>1, <2>2, GotoAway, LocationNames, ScanWriting
  <2>3. CASE Resume(p)
    BY <1>1, <2>3, ResumeAway
  <2>4. QED
    BY <1>9, <2>1, <2>2, <2>3 DEF Fails
<1>10. CASE Crash(p)
  BY <1>1, <1>10, LeaveAway DEF Crash
<1>11. QED
  BY <1>2, <1>3, <1>4, <1>5, <1>6, <1>7, <1>8, <1>9, <1>10 DEF Step

\* Every completed payload in a view stays the sealed one.
LEMMA ViewsToldStep == ASSUME OwnInv, RowsTold, ViewsTold, [Next]_vars PROVE ViewsTold'
<1>0. Typed
  BY DEF OwnInv
<1>1. ASSUME NEW i, NEW pay, Sealed(i, pay) PROVE Sealed(i, pay)'
  BY <1>0, <1>1, SealedStep
<1>2. \A q \in Processes : \A v \in proc[q].view.runs : Done(v) => Sealed(v[1], v[2])'
  BY <1>1 DEF ViewsTold
<1>3. ASSUME NEW p \in Processes,
             Step(p) \/ Tick(p) \/ Scan(p) \/ Export(p) \/ Fails(p) \/ Crash(p)
      PROVE ViewsTold'
  <2>1. PICK r \in Process :
             /\ Become(p, r)
             /\ r.view \in {proc[p].view, NoIndex} \/ (rows' = rows /\ r.view = View)
    BY <1>0, <1>3, ViewStep
  <2>2. proc'[p] = r /\ \A q \in Processes : q # p => proc'[q] = proc[q]
    BY <1>0, <2>1, Others
  <2>3. ASSUME NEW v \in r.view.runs, Done(v) PROVE Sealed(v[1], v[2])'
    <3>1. CASE r.view = proc[p].view
      BY <1>2, <2>3, <3>1
    <3>2. CASE r.view = NoIndex
      BY <2>3, <3>2 DEF NoIndex
    <3>3. CASE r.view = View
      <4>1. v[1] \in DOMAIN rows /\ v[2] = rows[v[1]].pay
        BY <1>0, <2>3, <3>3, Rest, ViewIs
      <4>2. Sealed(v[1], v[2])
        BY <2>3, <4>1 DEF RowsTold, Done
      <4>3. QED
        BY <1>1, <4>2
    <3>4. QED
      BY <2>1, <3>1, <3>2, <3>3
  <2>4. QED
    BY <1>2, <2>2, <2>3 DEF ViewsTold, Done
<1>4. ASSUME proc' = proc PROVE ViewsTold'
  BY <1>2, <1>4 DEF ViewsTold, Done
<1>5. Workers \subseteq Processes /\ Operators \subseteq Processes
  BY DEF Processes
<1>6. QED
  BY <1>3, <1>4, <1>5 DEF Next, NextDay, LoseLock, vars

\* What a step does to the files: nothing, or it writes what a publication read of
\* a completed run, perhaps without its list.
LEMMA FilesChange ==
    ASSUME Typed, [Next]_vars
    PROVE  \/ UNCHANGED <<details, lists>>
           \/ \E p \in Processes, i \in Nat, pay \in Payload :
                /\ <<i, pay>> \in proc[p].view.runs /\ pay.status \in Completed
                /\ details' = Replace(details, i, pay)
                /\ lists' = lists \/ lists' = Replace(lists, i, pay.found)
<1> DEFINE goal == \/ UNCHANGED <<details, lists>>
                   \/ \E p \in Processes, i \in Nat, pay \in Payload :
                        /\ <<i, pay>> \in proc[p].view.runs /\ pay.status \in Completed
                        /\ details' = Replace(details, i, pay)
                        /\ lists' = lists \/ lists' = Replace(lists, i, pay.found)
<1>1. ASSUME UNCHANGED <<details, lists>> PROVE goal
  BY <1>1
<1>2. ASSUME NEW p \in Processes, WriteFiles(p) PROVE goal
  <2> DEFINE i   == Max(proc[p].todo)
             pay == Published(p, i)
  <2>1. ASSUME i \in DOMAIN rows, rows[i].saved = pay.found, pay \in Payload,
               pay.status \in Completed, <<i, pay>> \in proc[p].view.runs,
               details' = Replace(details, i, pay), lists' = Replace(lists, i, rows[i].saved)
        PROVE goal
    <3> HIDE DEF i, pay
    <3>1. i \in Nat
      BY <2>1, Rest
    <3>2. QED
      BY <2>1, <3>1
  <2>2. QED
    BY <1>1, <1>2, <2>1, FilesStep
<1>3. ASSUME NEW p \in Processes, Crash(p) PROVE goal
  <2>1. lists' = lists
    BY <1>3 DEF Crash
  <2>2. QED
    BY <1>1, <1>3, <2>1, CrashFiles
<1>4. ASSUME NEW p \in Processes, Tick(p) \/ Scan(p) \/ Export(p) \/ Fails(p) \/ LoseLock(p)
      PROVE goal
  BY <1>1, <1>4 DEF Tick, Scan, Export, Fails, LoseLock, files
<1>5. ASSUME NEW p \in Processes, Step(p) PROVE goal
  <2>1. CASE Sweep(p) \/ Begin(p) \/ Save(p) \/ Stock(p) \/ Complete(p) \/ Fail(p)
    BY <1>1, <2>1 DEF Sweep, Begin, Save, Stock, Complete, Fail, files
  <2>2. CASE Publish(p) \/ WriteIndex(p) \/ PublishProgress(p)
    BY <1>1, <2>2 DEF Publish, WriteIndex, PublishProgress, files
  <2>3. QED
    BY <1>2, <1>5, <2>1, <2>2 DEF Step
<1>6. ASSUME NextDay \/ UNCHANGED vars PROVE goal
  BY <1>1, <1>6 DEF NextDay, vars, files
<1>7. Workers \subseteq Processes /\ Operators \subseteq Processes
  BY DEF Processes
<1> HIDE DEF goal
<1>8. goal
  BY <1>2, <1>3, <1>4, <1>5, <1>6, <1>7 DEF Next
<1>9. QED
  BY <1>8 DEF goal

\* Where all contents of a file for i are the same, writing it again adds at most
\* what was not there.
LEMMA ReplaceGrows ==
    ASSUME NEW i, NEW content, NEW S, NEW T, NEW f, f \subseteq S \X T,
           \A d \in f : d[1] = i => d[2] = content
    PROVE  /\ f \subseteq Replace(f, i, content) /\ <<i, content>> \in Replace(f, i, content)
           /\ Replace(f, i, content) \subseteq f \cup {<<i, content>>}
<1>1. \A d \in f : d = <<d[1], d[2]>>
  OBVIOUS
<1>2. \A d \in f : d[1] = i => d = <<i, content>>
  BY <1>1
<1>3. QED
  BY <1>2 DEF Replace

\* The files of a sealed run say what it says.
LEMMA FilesSay ==
    ASSUME FilesTold, NEW i, NEW pay, Sealed(i, pay)
    PROVE  /\ \A d \in details : d[1] = i => d[2] = pay
           /\ \A l \in lists : l[1] = i => l[2] = pay.found
<1>1. ASSUME NEW d \in details, d[1] = i PROVE d[2] = pay
  BY <1>1, SealedOnce DEF FilesTold
<1>2. ASSUME NEW l \in lists, l[1] = i PROVE l[2] = pay.found
  <2>1. PICK y \in Payload : Sealed(i, y) /\ l[2] = y.found
    BY <1>2 DEF FilesTold
  <2>2. QED
    BY <2>1, SealedOnce
<1>3. QED
  BY <1>1, <1>2

\* The files only grow, and by what is sealed.
LEMMA FilesGrow ==
    ASSUME Typed, ViewsTold, FilesTold, [Next]_vars
    PROVE  /\ details \subseteq details' /\ lists \subseteq lists'
           /\ \A d \in details' : Done(d) /\ Sealed(d[1], d[2])
           /\ \A l \in lists' : \E y \in Payload : Sealed(l[1], y) /\ l[2] = y.found
<1>1. CASE UNCHANGED <<details, lists>>
  BY <1>1 DEF FilesTold
<1>2. ASSUME NEW p \in Processes, NEW i \in Nat, NEW pay \in Payload,
             <<i, pay>> \in proc[p].view.runs, pay.status \in Completed,
             details' = Replace(details, i, pay),
             lists' = lists \/ lists' = Replace(lists, i, pay.found)
      PROVE /\ details \subseteq details' /\ lists \subseteq lists'
            /\ details' \subseteq details \cup {<<i, pay>>}
            /\ lists' \subseteq lists \cup {<<i, pay.found>>} /\ Sealed(i, pay)
  <2>1. Sealed(i, pay)
    BY <1>2 DEF ViewsTold, Done
  <2>2. details \subseteq Nat \X Payload /\ lists \subseteq Nat \X Nat
    BY Rest
  <2>3. details \subseteq details' /\ details' \subseteq details \cup {<<i, pay>>}
    <3>1. \A d \in details : d[1] = i => d[2] = pay
      BY <2>1, FilesSay
    <3>2. /\ details \subseteq Replace(details, i, pay)
          /\ Replace(details, i, pay) \subseteq details \cup {<<i, pay>>}
      BY <2>2, <3>1, ReplaceGrows
    <3>3. QED
      BY <1>2, <3>2
  <2>4. CASE lists' = Replace(lists, i, pay.found)
    <3>1. \A l \in lists : l[1] = i => l[2] = pay.found
      BY <2>1, FilesSay
    <3> DEFINE n == pay.found
    <3>2. lists \subseteq Replace(lists, i, n) /\ Replace(lists, i, n) \subseteq lists \cup {<<i, n>>}
      BY <2>2, <3>1, ReplaceGrows
    <3>3. QED
      BY <2>1, <2>3, <2>4, <3>2
  <2>5. QED
    BY <1>2, <2>1, <2>3, <2>4
<1>3. ASSUME NEW i \in Nat, NEW pay \in Payload, Sealed(i, pay), pay.status \in Completed,
             details' \subseteq details \cup {<<i, pay>>},
             lists' \subseteq lists \cup {<<i, pay.found>>}
      PROVE /\ \A d \in details' : Done(d) /\ Sealed(d[1], d[2])
            /\ \A l \in lists' : \E y \in Payload : Sealed(l[1], y) /\ l[2] = y.found
  <2>1. ASSUME NEW d \in details' PROVE Done(d) /\ Sealed(d[1], d[2])
    <3>1. CASE d \in details
      BY <3>1 DEF FilesTold
    <3>2. CASE d = <<i, pay>>
      BY <1>3, <3>2 DEF Done
    <3>3. QED
      BY <1>3, <3>1, <3>2
  <2>2. ASSUME NEW l \in lists' PROVE \E y \in Payload : Sealed(l[1], y) /\ l[2] = y.found
    <3>1. CASE l \in lists
      BY <3>1 DEF FilesTold
    <3>2. CASE l = <<i, pay.found>>
      BY <1>3, <3>2
    <3>3. QED
      BY <1>3, <3>1, <3>2
  <2>3. QED
    BY <2>1, <2>2
<1>4. ASSUME NEW p \in Processes, NEW i \in Nat, NEW pay \in Payload,
             <<i, pay>> \in proc[p].view.runs, pay.status \in Completed,
             details' = Replace(details, i, pay),
             lists' = lists \/ lists' = Replace(lists, i, pay.found)
      PROVE /\ details \subseteq details' /\ lists \subseteq lists'
            /\ \A d \in details' : Done(d) /\ Sealed(d[1], d[2])
            /\ \A l \in lists' : \E y \in Payload : Sealed(l[1], y) /\ l[2] = y.found
  BY <1>2, <1>3, <1>4
<1>5. QED
  BY <1>1, <1>4, FilesChange

\* Every completed payload in a file stays the sealed one.
LEMMA FilesToldStep == ASSUME Typed, ViewsTold, FilesTold, [Next]_vars PROVE FilesTold'
<1>1. ASSUME NEW i, NEW pay, Sealed(i, pay) PROVE Sealed(i, pay)'
  BY <1>1, SealedStep
<1>2. \A d \in details' : Done(d) /\ Sealed(d[1], d[2])'
  BY <1>1, FilesGrow
<1>3. \A l \in lists' : \E y \in Payload : Sealed(l[1], y)' /\ l[2] = y.found
  BY <1>1, FilesGrow
<1>4. QED
  BY <1>2, <1>3 DEF FilesTold, Done

\* r has nothing to publish but what is in the files or still to be written.
Backed(r) ==
    r.pc \in {"files", "index"} =>
        \A v \in r.view.runs : Done(v) /\ v[1] \notin r.todo => InFiles(v)

\* What is in the files stays there.
LEMMA FilesLast ==
    ASSUME Typed, ViewsTold, FilesTold, [Next]_vars, NEW v, InFiles(v)
    PROVE  InFiles(v)'
BY FilesGrow DEF InFiles

\* publish_progress() goes on to the index when every completed run has its files,
\* and the files say what the rows say.
LEMMA ProgressBacked ==
    ASSUME Typed, RowsTold, FilesTold, NEW v \in View.runs, Done(v),
           CompletedRuns(View.runs) \subseteq Written(details) \cap Written(lists)
    PROVE  InFiles(v)
<1>0. rows \in Seq(Row) /\ details \subseteq Nat \X Payload /\ lists \subseteq Nat \X Nat
  BY Rest
<1>1. v[1] \in DOMAIN rows /\ v[2] = rows[v[1]].pay /\ v = <<v[1], v[2]>>
  BY <1>0, ViewIs
<1>2. Sealed(v[1], v[2])
  BY <1>1 DEF RowsTold, Done
<1>3. v[1] \in Written(details) /\ v[1] \in Written(lists)
  BY DEF CompletedRuns, Done
<1>4. PICK d \in details : d[1] = v[1]
  BY <1>3 DEF Written
<1>5. PICK l \in lists : l[1] = v[1]
  BY <1>3 DEF Written
<1>6. d[2] = v[2] /\ l[2] = v[2].found
  BY <1>2, <1>4, <1>5, FilesSay
<1>7. d = <<v[1], v[2]>> /\ l = <<v[1], v[2].found>>
  BY <1>0, <1>4, <1>5, <1>6
<1>8. QED
  BY <1>1, <1>4, <1>5, <1>7 DEF InFiles

\* Writing a pair of files leaves the view backed but for what is left to write.
LEMMA FilesBacked ==
    ASSUME Typed, ViewsTold, FilesTold, WrittenTold, NEW p \in Processes, WriteFiles(p)
    PROVE  \E r \in Process : Become(p, r) /\ Backed(r)'
<1> DEFINE i   == Max(proc[p].todo)
           pay == Published(p, i)
<1>0. /\ proc[p] \in Process /\ proc[p].pc = "files" /\ proc[p].view \in Public
      /\ Viewed(proc[p], Len(rows)) /\ [Next]_vars
  BY Rest, ProcessParts, FilesStep DEF At, Shaped, Next, Step
<1>1. \A v \in proc[p].view.runs : Done(v) /\ v[1] \notin proc[p].todo => InFiles(v)'
  BY <1>0, FilesLast DEF WrittenTold
<1>2. CASE ToIndex(p, proc[p].view)
  <2>1. PICK r \in Process : Become(p, r) /\ r.view = proc[p].view /\ r.todo = proc[p].todo
    BY <1>0, <1>2, ToIndexStep
  <2>2. QED
    BY <1>1, <2>1 DEF Backed, Done
<1>3. CASE Resume(p)
  BY <1>3, ResumeAway DEF Away, Backed
<1>4. ASSUME <<i, pay>> \in proc[p].view.runs, pay \in Payload, i \in DOMAIN rows,
             rows[i].saved = pay.found,
             details' = Replace(details, i, pay), lists' = Replace(lists, i, rows[i].saved),
             \E r \in Process : Become(p, r) /\ r.view = proc[p].view
                                /\ r.todo = proc[p].todo \ {i}
      PROVE \E r \in Process : Become(p, r) /\ Backed(r)'
  <2> HIDE DEF i, pay
  <2>1. PICK r \in Process : Become(p, r) /\ r.view = proc[p].view
                             /\ r.todo = proc[p].todo \ {i}
    BY <1>4
  <2>2. <<i, pay>> \in details' /\ <<i, pay.found>> \in lists'
    BY <1>4 DEF Replace
  <2>3. ASSUME NEW v \in r.view.runs, Done(v), v[1] \notin r.todo PROVE InFiles(v)'
    <3>1. CASE v[1] = i
      <4>1. v = <<i, pay>>
        BY <1>0, <1>4, <2>1, <2>3, <3>1 DEF Viewed
      <4>2. QED
        BY <2>2, <4>1 DEF InFiles
    <3>2. CASE v[1] # i
      BY <1>1, <2>1, <2>3, <3>2
    <3>3. QED
      BY <3>1, <3>2
  <2>4. QED
    BY <2>1, <2>3 DEF Backed, Done
<1>5. QED
  BY <1>2, <1>3, <1>4, FilesStep

\* So does every other step of the process.
LEMMA BackedStep ==
    ASSUME Typed, RowsTold, ViewsTold, FilesTold, WrittenTold, NEW p \in Processes,
           Step(p) \/ Tick(p) \/ Scan(p) \/ Export(p) \/ Fails(p) \/ Crash(p), [Next]_vars
    PROVE  \E r \in Process : Become(p, r) /\ Backed(r)'
<1> DEFINE goal == \E r \in Process : Become(p, r) /\ Backed(r)'
<1>0. proc[p] \in Process /\ rows \in Seq(Row)
  BY Rest
<1>1. ASSUME NEW r \in Process, Become(p, r), r.pc \notin {"files", "index"} PROVE goal
  BY <1>1 DEF Backed
<1>2. CASE Tick(p) \/ Scan(p) \/ Export(p)
  BY <1>1, <1>2, StartStep
<1>3. CASE Sweep(p)
  BY <1>1, <1>3, SweepStep
<1>4. CASE Begin(p) \/ Save(p) \/ Stock(p) \/ Complete(p) \/ Fail(p)
  BY <1>1, <1>4, BeginAway, StockAway, WriterAway DEF Away
<1>5. CASE Publish(p)
  <2>1. PICK r \in Process :
            Become(p, r) /\ r.view = View /\ r.todo = CompletedRuns(View.runs)
    BY <1>5, PublishStep
  <2>2. \A v \in r.view.runs : Done(v) => v[1] \in r.todo
    BY <2>1 DEF CompletedRuns, Done
  <2>3. QED
    BY <2>1, <2>2 DEF Backed, Done
<1>6. CASE WriteFiles(p)
  BY <1>6, FilesBacked
<1>7. CASE WriteIndex(p)
  BY <1>1, <1>7, ResumeAway DEF WriteIndex, Away
<1>8. CASE PublishProgress(p)
  <2>1. CASE /\ CompletedRuns(View.runs) \subseteq Written(details) \cap Written(lists)
             /\ ToIndex(p, View)
    <3>1. PICK r \in Process : Become(p, r) /\ r.view = View
      BY <1>0, <2>1, ViewIs, ToIndexStep
    <3>2. \A v \in r.view.runs : Done(v) => InFiles(v)'
      BY <2>1, <3>1, ProgressBacked, FilesLast
    <3>3. QED
      BY <3>1, <3>2 DEF Backed, Done
  <2>2. CASE Goto(p, "publish")
    BY <1>1, <2>2, GotoAway, LocationNames DEF Away
  <2>3. QED
    BY <1>8, <2>1, <2>2 DEF PublishProgress
<1>9. CASE Fails(p)
  <2>1. CASE Leave(p)
    BY <1>1, <2>1, LeaveAway DEF Away
  <2>2. CASE Goto(p, "fail")
    BY <1>1, <2>2, GotoAway, LocationNames, ScanWriting DEF Away
  <2>3. CASE Resume(p)
    BY <1>1, <2>3, ResumeAway DEF Away
  <2>4. QED
    BY <1>9, <2>1, <2>2, <2>3 DEF Fails
<1>10. CASE Crash(p)
  BY <1>1, <1>10, LeaveAway DEF Crash, Away
<1>11. QED
  BY <1>2, <1>3, <1>4, <1>5, <1>6, <1>7, <1>8, <1>9, <1>10 DEF Step

\* What a view has and is not left to write is in the files.
LEMMA WrittenToldStep ==
    ASSUME Typed, RowsTold, ViewsTold, FilesTold, WrittenTold, [Next]_vars
    PROVE  WrittenTold'
<1>1. ASSUME NEW q \in Processes PROVE Backed(proc[q])
  BY DEF WrittenTold, Backed
<1>2. ASSUME NEW r, Backed(r) PROVE Backed(r)'
  BY <1>2, FilesLast DEF Backed, Done
<1>3. ASSUME NEW p \in Processes,
             Step(p) \/ Tick(p) \/ Scan(p) \/ Export(p) \/ Fails(p) \/ Crash(p)
      PROVE WrittenTold'
  <2>1. PICK r \in Process : Become(p, r) /\ Backed(r)'
    BY <1>3, BackedStep
  <2>2. proc'[p] = r /\ \A q \in Processes : q # p => proc'[q] = proc[q]
    BY <2>1, Others
  <2>3. ASSUME NEW q \in Processes, q # p, proc[q].pc \in {"files", "index"},
               NEW v \in proc[q].view.runs, Done(v), v[1] \notin proc[q].todo
        PROVE InFiles(v)'
    BY <1>1, <2>3, FilesLast DEF Backed
  <2>4. QED
    BY <2>1, <2>2, <2>3 DEF WrittenTold, Backed, Done
<1>4. ASSUME proc' = proc PROVE WrittenTold'
  <2>1. ASSUME NEW q \in Processes, proc[q].pc \in {"files", "index"},
               NEW v \in proc[q].view.runs, Done(v), v[1] \notin proc[q].todo
        PROVE InFiles(v)'
    BY <2>1, FilesLast DEF WrittenTold
  <2>2. QED
    BY <1>4, <2>1 DEF WrittenTold, Done
<1>5. Workers \subseteq Processes /\ Operators \subseteq Processes
  BY DEF Processes
<1>6. QED
  BY <1>3, <1>4, <1>5 DEF Next, NextDay, LoseLock, vars

\* The index changes only by WriteIndex.
LEMMA IndexStep == ASSUME [Next]_vars PROVE index' = index \/ \E p \in Processes : WriteIndex(p)
<1>1. ASSUME NEW p \in Processes, Step(p), ~WriteIndex(p) PROVE index' = index
  <2>1. CASE Sweep(p) \/ Begin(p) \/ Save(p) \/ Stock(p) \/ Complete(p) \/ Fail(p)
    BY <2>1 DEF Sweep, Begin, Save, Stock, Complete, Fail, files
  <2>2. CASE Publish(p) \/ WriteFiles(p) \/ PublishProgress(p)
    BY <2>2 DEF Publish, WriteFiles, PublishProgress, files
  <2>3. QED
    BY <1>1, <2>1, <2>2 DEF Step
<1>2. ASSUME NEW p, Tick(p) \/ Scan(p) \/ Export(p) \/ Fails(p) \/ Crash(p) \/ LoseLock(p)
      PROVE index' = index
  BY <1>2 DEF Tick, Scan, Export, Fails, Crash, LoseLock, files
<1>3. QED
  BY <1>1, <1>2 DEF Next, NextDay, vars, files

\* The index stays backed by the files.
LEMMA IndexToldStep ==
    ASSUME Typed, ViewsTold, FilesTold, WrittenTold, IndexTold, [Next]_vars
    PROVE  IndexTold'
<1>1. CASE index' = index
  <2>1. \A v \in index.runs : Done(v) => InFiles(v)'
    BY FilesLast DEF IndexTold
  <2>2. QED
    BY <1>1, <2>1 DEF IndexTold, Done, CompletedRuns
<1>2. ASSUME NEW p \in Processes, WriteIndex(p) PROVE IndexTold'
  <2>1. proc[p].pc = "index" /\ index' = proc[p].view /\ Shaped(proc[p], Len(rows))
    BY <1>2, Rest DEF WriteIndex, At
  <2>2. proc[p].todo = {} /\ Viewed(proc[p], Len(rows))
    BY <2>1 DEF Shaped
  <2>3. \A v \in proc[p].view.runs : Done(v) => InFiles(v)'
    BY <2>1, <2>2, FilesLast DEF WrittenTold
  <2>4. QED
    BY <2>1, <2>2, <2>3 DEF IndexTold, Done, Viewed, CompletedRuns
<1>3. QED
  BY <1>1, <1>2, IndexStep

\* The invariant of publication holds at first.
LEMMA ToldInit == Init => ToldInv
<1> SUFFICES ASSUME Init PROVE ToldInv
  OBVIOUS
<1>1. \A p \in Processes : proc[p].pc = "idle" /\ proc[p].view.runs = {}
  BY IdleEmpty DEF Init, Empty, NoIndex
<1>2. Own /\ CompletedHasEvidence
  BY IdleEmpty DEF Init, Own, Unique, Fresh, Tally, CompletedHasEvidence, Empty, Scanning, Scans
<1>3. index.latest = 0 /\ index.runs = {}
  BY DEF Init, NoIndex
<1>4. IndexTold
  BY <1>3, NothingPublic DEF IndexTold
<1>5. RowsTold /\ ViewsTold /\ FilesTold /\ WrittenTold
  BY <1>1 DEF Init, RowsTold, ViewsTold, FilesTold, WrittenTold
<1>6. QED
  BY <1>2, <1>4, <1>5, TypedInit DEF ToldInv, OwnInv

\* Every step preserves it.
LEMMA ToldStep == ToldInv /\ [Next]_vars => ToldInv'
<1> SUFFICES ASSUME ToldInv, [Next]_vars PROVE ToldInv'
  OBVIOUS
<1>1. OwnInv' /\ Typed
  BY TypedStep, OwnStep DEF ToldInv, OwnInv
<1>2. RowsTold' /\ ViewsTold' /\ FilesTold' /\ WrittenTold' /\ IndexTold'
  BY <1>1, RowsToldStep, ViewsToldStep, FilesToldStep, WrittenToldStep, IndexToldStep DEF ToldInv
<1>3. QED
  BY <1>1, <1>2 DEF ToldInv

\* At every moment, and so at whatever point an export is cut off or overtaken, the
\* index names no completed run whose files are not there with its content: also
\* when the lock was lost and two processes export at once.
THEOREM ScanIndexBacked == Spec => []IndexBacked
<1>1. ToldInv => IndexBacked
  BY DEF ToldInv, IndexTold, IndexBacked, Done, InFiles
<1>2. QED
  BY <1>1, ToldInit, ToldStep, PTL DEF Spec

\* What is said of a completed run is there: its artifacts and results in the database,
\* its files for the readers of the index.
THEOREM ScanEvidenceStands == Spec => []EvidenceStands
<1>1. CompletedHasEvidence /\ IndexBacked => EvidenceStands
  BY DEF EvidenceStands
<1>2. QED
  BY <1>1, ScanCompletedHasEvidence, ScanIndexBacked, PTL

\* A published file never changes, and none is removed: everything that is ever
\* written for a run says the same.
THEOREM ScanFilesAreFinal == Spec => FilesAreFinal
<1>1. ToldInv /\ [Next]_vars => [details \subseteq details' /\ lists \subseteq lists']_vars
  BY FilesGrow DEF ToldInv, OwnInv
<1>2. QED
  BY <1>1, ToldInit, ToldStep, PTL DEF Spec, FilesAreFinal

-----------------------------------------------------------------------------
(* While sessions last and commits are acknowledged.                        *)

Calm == used["lockLoss"] + used["uncertain"] = 0

Standing(n) == n # 0 => n \in DOMAIN rows /\ rows[n].status \in Completed

\* What p is about to put into the index is no older than what is there.
Newer(r) ==
    r.pc \in {"files", "index"} =>
        Standing(r.view.latest) /\ r.view.latest >= index.latest

\* Only a run that is running is about to be failed; the index names a completed run
\* as the latest, and so does whatever comes next.
Stand ==
    /\ \A p \in Processes : Failing(proc[p]) => rows[proc[p].run].status = "running"
    /\ \A p \in Processes : Newer(proc[p])
    /\ Standing(index.latest)

StandInv == LockInv /\ (Calm => Stand)

\* Events are counted in numbers; a calm behaviour lost no session.
LEMMA UsedNumbers ==
    ASSUME Typed
    PROVE  /\ used["lockLoss"] \in Nat /\ used["uncertain"] \in Nat
           /\ Calm => Sessions /\ used["uncertain"] = 0
<1>1. used["lockLoss"] \in Nat /\ used["uncertain"] \in Nat
  BY Rest, KindNames
<1>2. QED
  BY <1>1 DEF Calm, Sessions

\* A calm state had calm predecessors.
LEMMA CalmStep ==
    ASSUME Typed, [Next]_vars, Calm'
    PROVE  Calm /\ Sessions /\ Sessions' /\ ~Spend("uncertain")
<1>1. Typed'
  BY TypedStep
<1>2. /\ used["lockLoss"] \in Nat /\ used["uncertain"] \in Nat
      /\ used'["lockLoss"] \in Nat /\ used'["uncertain"] \in Nat
  BY <1>1, Rest, KindNames DEF Typed, TypeOK
<1>3. used'["lockLoss"] = 0 /\ used'["uncertain"] = 0
  BY <1>2 DEF Calm
<1>4. Sessions' /\ Sessions /\ ~\E p \in Processes : LoseLock(p)
  BY <1>3, SessionsStep DEF Sessions
<1>5. ASSUME NEW kind \in Kinds, Spend(kind) PROVE kind # "uncertain" /\ used["uncertain"] = 0
  <2>1. used \in [Kinds -> Nat] /\ "uncertain" \in Kinds
    BY Rest, KindNames
  <2>2. used' = [used EXCEPT ![kind] = used[kind] + 1]
    BY <1>5 DEF Spend
  <2>3. QED
    BY <1>3, <2>1, <2>2
<1>6. UNCHANGED used \/ \E kind \in Kinds : Spend(kind)
  <2>1. ASSUME NEW p \in Processes, Step(p) PROVE UNCHANGED used \/ Spend("uncertain")
    BY <2>1 DEF Step, Sweep, Begin, Insert, Save, Stock, Complete, Fail, Publish, WriteFiles,
       WriteIndex, PublishProgress, Committed
  <2>2. ASSUME NEW p, Tick(p) \/ Scan(p) \/ Export(p) \/ Fails(p) \/ Crash(p) \/ LoseLock(p)
        PROVE \/ UNCHANGED used \/ Spend("command") \/ Spend("error") \/ Spend("crash")
              \/ Spend("lockLoss")
    BY <2>2 DEF Tick, Scan, Export, Fails, Crash, LoseLock
  <2>3. QED
    BY <2>1, <2>2, KindNames DEF Next, NextDay, vars
<1>7. used["uncertain"] = 0
  BY <1>3, <1>5, <1>6
<1>8. QED
  BY <1>2, <1>4, <1>5, <1>7, KindNames DEF Calm, Sessions

\* What is completed stays.
LEMMA KeptStep ==
    ASSUME Typed, Held, Stand, [Next]_vars, Calm'
    PROVE  Kept
<1>1. ASSUME rows' = rows PROVE Kept
  BY <1>1 DEF Kept
<1>2. ASSUME NEW p \in Processes, Step(p) PROVE Kept
  <2>1. CASE Quietly(p)
    BY <1>1, <2>1 DEF Quietly, Quiet
  <2>2. CASE Begin(p) \/ Save(p) \/ Stock(p) \/ Complete(p)
    BY <2>2, BeginHeld, SaveHeld, StockHeld, CompleteHeld
  <2>3. CASE Fail(p)
    <3>1. rows[proc[p].run].status = "running"
      BY <2>3 DEF Stand, Failing, Fail, At
    <3>2. QED
      BY <2>3, <3>1, FailHeld
  <2>4. QED
    BY <1>2, <2>1, <2>2, <2>3, QuietSteps DEF Step
<1>3. ASSUME NEW p \in Processes, Tick(p) \/ Scan(p) \/ Export(p) \/ Fails(p) \/ Crash(p)
      PROVE Kept
  BY <1>1, <1>3, QuietSteps DEF Quietly, Quiet
<1>4. ASSUME NEW p \in Processes, LoseLock(p) PROVE Kept
  BY <1>1, <1>4 DEF LoseLock
<1>5. ASSUME NextDay \/ UNCHANGED vars PROVE Kept
  BY <1>1, <1>5 DEF NextDay, vars
<1>6. Workers \subseteq Processes /\ Operators \subseteq Processes
  BY DEF Processes
<1>7. QED
  BY <1>2, <1>3, <1>4, <1>5, <1>6 DEF Next

\* A completed run that is kept stays fit to be the latest.
LEMMA StandingStays ==
    ASSUME Kept, NEW n, Standing(n)
    PROVE  Standing(n)'
BY DEF Kept, Standing

\* A process about to fail its run fails one that is running.
LEMMA FailingStep ==
    ASSUME Typed, Held, Stand, NEW p \in Processes, [Next]_vars, Calm',
           Step(p) \/ Tick(p) \/ Scan(p) \/ Export(p) \/ Fails(p) \/ Crash(p)
    PROVE  \E r \in Process : Become(p, r) /\ (Failing(r) => rows'[r.run].status = "running")
<1> DEFINE goal == \E r \in Process :
                      Become(p, r) /\ (Failing(r) => rows'[r.run].status = "running")
<1>0. proc[p] \in Process /\ rows \in Seq(Row)
  BY Rest
<1>1. ASSUME Quietly(p) PROVE goal
  <2>1. PICK r \in Process : Quiet(p, r)
    BY <1>1 DEF Quietly
  <2>2. Failing(r) => rows'[r.run].status = "running"
    BY <2>1 DEF Quiet, Held, Stand
  <2>3. QED
    BY <2>1, <2>2 DEF Quiet
<1>2. ASSUME Leave(p) \/ PublishThen(p, Idle, "idle") PROVE goal
  BY <1>2, LeaveAway DEF Away, Failing
<1>3. ASSUME Begin(p) PROVE goal
  <2>1. ASSUME NEW r \in Process, Become(p, r), r.pc = "publish", r.next = "save" PROVE goal
    BY <2>1 DEF Failing
  <2>2. CASE Insert(p)
    <3>1. At(p, "begin")
      BY <1>3 DEF Begin
    <3>2. QED
      BY <1>2, <2>1, <2>2, <3>1, InsertStep
  <2>3. QED
    BY <1>2, <1>3, <2>2 DEF Begin
<1>4. ASSUME Save(p) PROVE goal
  <2>1. /\ proc[p].pc = "save" /\ proc[p].run \in DOMAIN rows
        /\ rows[proc[p].run].status = "running"
    BY <1>4, OwnRun DEF Save, At, Writing, Held, Scanning, Scans
  <2>2. rows'[proc[p].run].status = "running"
    <3>1. CASE SaveRun(proc[p].run, "running", proc[p])
      BY <1>0, <2>1, <3>1, SavedRow DEF Statuses
    <3>2. QED
      BY <1>4, <2>1, <3>1 DEF Save
  <2>3. Goto(p, "stock") \/ Goto(p, "fail")
    BY <1>4 DEF Save, Committed
  <2>4. PICK r \in Process : Become(p, r) /\ Like(r, proc[p])
    BY <2>3, GotoIs, LocationNames, ScanWriting DEF Scans
  <2>5. QED
    BY <2>2, <2>4 DEF Like
<1>5. ASSUME Stock(p) PROVE goal
  BY <1>5, StockHeld, CalmStep
<1>6. ASSUME Complete(p) PROVE goal
  <2>1. Goto(p, "publish") /\ proc[p].next = "idle"
    BY <1>6, CalmStep, OwnRun DEF Complete, Committed, Goto, At, Writing
  <2>2. QED
    BY <2>1, GotoIs, LocationNames DEF Failing
<1>7. ASSUME Fail(p) PROVE goal
  BY <1>2, <1>7 DEF Fail
<1>8. QED
  BY <1>1, <1>3, <1>4, <1>5, <1>6, <1>7, QuietSteps DEF Step

\* public_runs() always has the newest completed run, however many have come since.
LEMMA ViewNewest ==
    ASSUME Typed, Agreed, rows' = rows
    PROVE  /\ Standing(View.latest)
           /\ \A n \in Nat : Standing(n) => View.latest >= n
<1>0. /\ rows \in Seq(Row) /\ Len(rows) \in Nat /\ DOMAIN rows = 1..Len(rows)
      /\ \A i \in DOMAIN rows : rows[i].status = rows[i].pay.status
  BY Rest DEF Agreed
<1>1. View.latest \in Nat
  BY <1>0, ViewIs DEF Public
<1>2. Standing(View.latest)
  <2>1. CASE CompletedRuns(View.runs) = {}
    BY <1>0, <2>1, ViewIs DEF Newest, Standing
  <2>2. CASE CompletedRuns(View.runs) # {}
    <3>1. View.latest \in CompletedRuns(View.runs)
      BY <1>0, <2>2, ViewIs
    <3>2. PICK v \in View.runs : v[2].status \in Completed /\ v[1] = View.latest
      BY <3>1 DEF CompletedRuns
    <3>3. v[1] \in DOMAIN rows /\ v[2] = rows[v[1]].pay
      BY <1>0, ViewIs
    <3>4. QED
      BY <1>0, <3>2, <3>3 DEF Standing
  <2>3. QED
    BY <2>1, <2>2
<1>3. ASSUME NEW n \in Nat, Standing(n), n # 0 PROVE View.latest >= n
  <2> DEFINE S == {j \in DOMAIN rows : rows[j].status \in Completed}
             m == Max(S)
  <2>1. n \in S /\ S \subseteq 1..Len(rows)
    BY <1>0, <1>3 DEF Standing
  <2>2. m \in S /\ \A j \in S : j <= m
    <3> HIDE DEF S
    <3>1. S # {}
      BY <2>1
    <3>2. QED
      BY <1>0, <2>1, <3>1, Largest
  <2> HIDE DEF m
  <2>3. m \in DOMAIN rows /\ m \in Nat /\ rows[m].status \in Completed
    BY <1>0, <2>2
  <2>4. ASSUME NEW j \in DOMAIN rows, j > m PROVE rows[j].status \notin Completed
    <3>1. j \in Nat /\ ~(j <= m)
      BY <1>0, <2>3, <2>4
    <3>2. QED
      BY <2>2, <3>1
  <2>5. m \in PublicRows
    BY <2>3, <2>4 DEF PublicRows
  <2>6. <<m, rows[m].pay>> \in View.runs /\ rows[m].pay.status \in Completed
    BY <1>0, <2>3, <2>5, ViewIs
  <2>7. m \in CompletedRuns(View.runs)
    <3> DEFINE v == <<m, rows[m].pay>>
    <3>1. v \in View.runs /\ v[2].status \in Completed /\ v[1] = m
      BY <2>6
    <3> HIDE DEF v
    <3>2. QED
      BY <3>1 DEF CompletedRuns
  <2>8. m <= View.latest
    BY <1>0, <2>7, ViewIs
  <2>9. QED
    BY <1>1, <1>3, <2>1, <2>2, <2>3, <2>8
<1>4. QED
  BY <1>1, <1>2, <1>3

\* What a process goes on to publish is no older than the index.
LEMMA NewerStep ==
    ASSUME Typed, Held, Stand, Kept, NEW p \in Processes, [Next]_vars,
           Step(p) \/ Tick(p) \/ Scan(p) \/ Export(p) \/ Fails(p) \/ Crash(p)
    PROVE  \E r \in Process : Become(p, r) /\ Newer(r)'
<1> DEFINE goal == \E r \in Process : Become(p, r) /\ Newer(r)'
<1>0. /\ proc[p] \in Process /\ rows \in Seq(Row) /\ index \in Public /\ index.latest \in Nat
      /\ proc[p].view \in Public /\ Viewed(proc[p], Len(rows))
  BY Rest, ProcessParts DEF Public, Shaped
<1>1. ASSUME NEW r \in Process, Become(p, r), r.pc \notin {"files", "index"} PROVE goal
  BY <1>1 DEF Newer
<1>2. ASSUME NEW r \in Process, Become(p, r), r.view = View, rows' = rows, index' = index
      PROVE goal
  <2>1. Agreed
    BY <1>2 DEF Agreed, Held
  <2>2. Standing(View.latest) /\ View.latest >= index.latest
    BY <1>0, <1>2, <2>1, ViewNewest DEF Stand
  <2>3. Standing(r.view.latest)' /\ r.view.latest >= index'.latest
    BY <1>2, <2>2, StandingStays
  <2>4. QED
    BY <1>2, <2>3 DEF Newer
<1>3. ASSUME NEW r \in Process, Become(p, r), r.view = proc[p].view, proc[p].pc = "files",
             index' = index
      PROVE goal
  <2>1. Newer(proc[p])
    BY DEF Stand
  <2>2. Standing(r.view.latest) /\ r.view.latest >= index.latest
    BY <1>3, <2>1 DEF Newer
  <2>3. Standing(r.view.latest)' /\ r.view.latest >= index'.latest
    BY <1>3, <2>2, StandingStays
  <2>4. QED
    BY <1>3, <2>3 DEF Newer
<1>4. CASE Tick(p) \/ Scan(p) \/ Export(p)
  BY <1>1, <1>4, StartStep
<1>5. CASE Sweep(p)
  BY <1>1, <1>5, SweepStep
<1>6. CASE Begin(p) \/ Save(p) \/ Stock(p) \/ Complete(p) \/ Fail(p)
  BY <1>1, <1>6, BeginAway, StockAway, WriterAway DEF Away
<1>7. CASE Publish(p)
  <2>1. rows' = rows /\ index' = index
    BY <1>7, PublishStep DEF files
  <2>2. QED
    BY <1>2, <1>7, <2>1, PublishStep
<1>8. CASE WriteFiles(p)
  <2>1. index' = index /\ proc[p].pc = "files"
    BY <1>8 DEF WriteFiles, At
  <2>2. CASE ToIndex(p, proc[p].view)
    BY <1>0, <1>3, <2>1, <2>2, ToIndexStep
  <2>3. CASE Resume(p)
    BY <1>1, <2>3, ResumeAway DEF Away
  <2>4. ASSUME NEW r \in Process, Become(p, r), r.view = proc[p].view PROVE goal
    BY <1>3, <2>1, <2>4
  <2>5. QED
    BY <1>8, <2>2, <2>3, <2>4, FilesStep
<1>9. CASE WriteIndex(p)
  BY <1>1, <1>9, ResumeAway DEF WriteIndex, Away
<1>10. CASE PublishProgress(p)
  <2>1. rows' = rows /\ index' = index
    BY <1>10 DEF PublishProgress, files
  <2>2. CASE ToIndex(p, View)
    BY <1>0, <1>2, <2>1, <2>2, ViewIs, ToIndexStep
  <2>3. CASE Goto(p, "publish")
    BY <1>1, <2>3, GotoAway, LocationNames DEF Away
  <2>4. QED
    BY <1>10, <2>2, <2>3 DEF PublishProgress
<1>11. CASE Fails(p)
  <2>1. CASE Leave(p)
    BY <1>1, <2>1, LeaveAway DEF Away
  <2>2. CASE Goto(p, "fail")
    BY <1>1, <2>2, GotoAway, LocationNames, ScanWriting DEF Away
  <2>3. CASE Resume(p)
    BY <1>1, <2>3, ResumeAway DEF Away
  <2>4. QED
    BY <1>11, <2>1, <2>2, <2>3 DEF Fails
<1>12. CASE Crash(p)
  BY <1>1, <1>12, LeaveAway DEF Crash, Away
<1>13. QED
  BY <1>4, <1>5, <1>6, <1>7, <1>8, <1>9, <1>10, <1>11, <1>12 DEF Step

\* The index goes to the same or to a newer run.
LEMMA LatestStep ==
    ASSUME Typed, Stand, Kept, [Next]_vars
    PROVE  index'.latest >= index.latest /\ Standing(index.latest)'
<1>1. index.latest \in Nat
  BY Rest DEF Public
<1>2. CASE index' = index
  BY <1>1, <1>2, StandingStays DEF Stand, Standing
<1>3. ASSUME NEW p \in Processes, WriteIndex(p)
      PROVE index'.latest >= index.latest /\ Standing(index.latest)'
  <2>1. proc[p].pc = "index" /\ index' = proc[p].view
    BY <1>3 DEF WriteIndex, At
  <2>2. Standing(index'.latest) /\ index'.latest >= index.latest
    BY <2>1 DEF Stand, Newer
  <2>3. QED
    BY <2>2 DEF Standing, Kept
<1>4. QED
  BY <1>2, <1>3, IndexStep

\* While calm, every step keeps what stands.
LEMMA StandStep ==
    ASSUME Typed, Held, Stand, [Next]_vars, Calm'
    PROVE  Stand'
<1>0. Kept /\ ~\E p \in Processes : LoseLock(p)
  BY KeptStep, CalmStep, SessionsStep
<1>1. Standing(index.latest)' /\ index'.latest >= index.latest
  BY <1>0, LatestStep
<1>2. ASSUME NEW p \in Processes,
             Step(p) \/ Tick(p) \/ Scan(p) \/ Export(p) \/ Fails(p) \/ Crash(p)
      PROVE Stand'
  <2>1. PICK r \in Process : Become(p, r) /\ (Failing(r) => rows'[r.run].status = "running")
    BY <1>2, FailingStep
  <2>2. PICK s \in Process : Become(p, s) /\ Newer(s)'
    BY <1>0, <1>2, NewerStep
  <2>3. proc'[p] = r /\ proc'[p] = s /\ \A q \in Processes : q # p => proc'[q] = proc[q]
    BY <2>1, <2>2, Others
  <2>4. holder = "none" \/ proc[p].pc # "idle"
    BY <1>2, StartStep, HolderStep
  <2>5. \A q \in Processes : q # p => proc[q].pc = "idle" /\ ~Failing(proc[q])
    BY <2>4, Alone, IdleIs
  <2>6. \A q \in Processes : Failing(proc'[q]) => rows'[proc'[q].run].status = "running"
    BY <2>1, <2>3, <2>5
  <2>7. \A q \in Processes : Newer(proc[q])'
    BY <2>2, <2>3, <2>5 DEF Newer
  <2>8. QED
    BY <1>1, <2>6, <2>7 DEF Stand
<1>3. ASSUME UNCHANGED <<proc, rows, files>> PROVE Stand'
  BY <1>1, <1>3 DEF Stand, Newer, Standing, files
<1>4. Workers \subseteq Processes /\ Operators \subseteq Processes
  BY DEF Processes
<1>5. QED
  BY <1>0, <1>2, <1>3, <1>4 DEF Next, NextDay, vars

\* The invariant of what stands holds at first.
LEMMA StandInit == Init => StandInv
<1> SUFFICES ASSUME Init PROVE StandInv
  OBVIOUS
<1>1. \A p \in Processes : proc[p].pc = "idle" /\ ~Failing(proc[p])
  BY IdleEmpty DEF Init, Empty, Failing
<1>2. index.latest = 0
  BY DEF Init, NoIndex
<1>3. QED
  BY <1>1, <1>2, LockInvInit DEF StandInv, Stand, Newer, Standing

\* Every step preserves it.
LEMMA StandInvStep == StandInv /\ [Next]_vars => StandInv'
<1> SUFFICES ASSUME StandInv, [Next]_vars PROVE StandInv'
  OBVIOUS
<1>1. LockInv' /\ Typed
  BY LockInvStep DEF StandInv, LockInv
<1>2. ASSUME Calm' PROVE Stand'
  <2>1. Calm /\ Sessions
    BY <1>1, <1>2, CalmStep
  <2>2. Held /\ Stand
    BY <2>1 DEF StandInv, LockInv
  <2>3. QED
    BY <1>1, <1>2, <2>2, StandStep
<1>3. QED
  BY <1>1, <1>2 DEF StandInv

\* While sessions last and commits are acknowledged, a completed run stays as it was
\* completed, and the index never goes back to an older one, whoever exports or dies.
LEMMA ScanNothingTakenBack == Spec => NothingIsTakenBack
<1>1. StandInv /\ [Next]_vars =>
          [used'["lockLoss"] + used'["uncertain"] = 0 =>
              /\ \A i \in DOMAIN rows : rows[i].status \in Completed => rows'[i] = rows[i]
              /\ index'.latest >= index.latest]_vars
  <2> SUFFICES ASSUME StandInv, [Next]_vars, Calm'
               PROVE  /\ \A i \in DOMAIN rows : rows[i].status \in Completed => rows'[i] = rows[i]
                      /\ index'.latest >= index.latest
    BY DEF Calm
  <2>1. Typed /\ Calm /\ Sessions
    BY CalmStep DEF StandInv, LockInv
  <2>2. Held /\ Stand
    BY <2>1 DEF StandInv, LockInv
  <2>3. Kept
    BY <2>1, <2>2, KeptStep
  <2>4. QED
    BY <2>1, <2>2, <2>3, LatestStep DEF Kept
<1>2. QED
  BY <1>1, StandInit, StandInvStep, PTL DEF Spec, NothingIsTakenBack

\* What was said of a run is not unsaid.
THEOREM ScanResultsStand == Spec => ResultsStand
BY ScanFilesAreFinal, ScanNothingTakenBack DEF ResultsStand

=============================================================================
