---------------------------- MODULE Rules_proofs ----------------------------
(***************************************************************************)
(* What the pure rules promise, for every answer, market, day and history   *)
(* that the assumptions on the constants allow.                             *)
(*                                                                         *)
(* A behaviour holds an input and what the rule made of it (Applied); each  *)
(* property is then a fact about the operators of one module.               *)
(***************************************************************************)
EXTENDS Rules, Series_proofs

-----------------------------------------------------------------------------
(* The state is a rule applied to an input.                                 *)

Applied ==
    /\ rule = "answer" =>
          input \in Answers /\ result = Outcome(input, AsOf, Retrieved, Finished)
    /\ rule = "snapshot" =>
          /\ input \in Markets
          /\ result = [status    |-> Snapshot(AttemptsOn(input)).status,
                       records   |-> Snapshot(AttemptsOn(input)).records,
                       screening |-> Screening(Snapshot(AttemptsOn(input)).records)]
    /\ rule = "day" =>
          input \in Days /\ result = Calculate(BarsOf(input), input.malformed, input.asOf)
    /\ rule = "stock" =>
          LET h        == HistoryOf(input)
              resolved == ResolveBars(h.cached, h.answers, h.sessions, h.now)
          IN /\ input \in Stocks
             /\ result = [resolved |-> resolved, outlook |-> Outlook(resolved, h.sessions)]

\* Whatever is applied, the result is that rule's result on the input.
THEOREM RulesApplied == Spec => []Applied
<1>1. Init => Applied
  BY DEF Init, Applied
<1>2. Applied /\ [Next]_vars => Applied'
  <2> SUFFICES ASSUME Applied, [Next]_vars PROVE Applied'
    OBVIOUS
  <2>1. CASE JudgeAnswer
    BY <2>1 DEF JudgeAnswer, Apply, Applied
  <2>2. CASE TakeSnapshot
    BY <2>2 DEF TakeSnapshot, Apply, Applied
  <2>3. CASE AnalyseDay
    BY <2>3 DEF AnalyseDay, Apply, Applied
  <2>4. CASE JudgeStock
    BY <2>4 DEF JudgeStock, Apply, Applied
  <2>5. CASE Again
    BY <2>5 DEF Again, Applied
  <2>6. CASE UNCHANGED vars
    BY <2>6 DEF vars, Applied
  <2> QED BY <2>1, <2>2, <2>3, <2>4, <2>5, <2>6 DEF Next
<1> QED BY <1>1, <1>2, PTL DEF Spec

-----------------------------------------------------------------------------
(* Research.                                                                *)

\* What an outcome that is no refusal says of its answer.
LEMMA OutcomeAccepted ==
    ASSUME NEW answer, NEW asOf, NEW retrieved, NEW finished,
           Outcome(answer, asOf, retrieved, finished).status # "failed"
    PROVE  LET r       == Outcome(answer, asOf, retrieved, finished)
               sources == BuildSources(answer, asOf)
           IN /\ OutputValid(answer) /\ SourcesKnown(answer)
              /\ ContentSupported(answer, sources)
              /\ ProvenanceHolds(Content(answer), sources)
              /\ r.claims = Content(answer) /\ r.sources = sources
              /\ r.status = IF Useful(answer.claims) THEN "succeeded" ELSE "no_evidence"
BY DEF Outcome, Refusal

\* A page that is assessed is assessed once, so its times are the assessment's.
LEMMA AssessedOnce ==
    ASSUME NEW answer, OutputValid(answer), NEW a \in answer.assessments
    PROVE  /\ Published(answer, Canonical(a.url)) = a.published
           /\ TimestampStatus(answer, Canonical(a.url)) = a.status
<1> DEFINE page == Canonical(a.url)
<1>1. Assessed(answer, page) = {a}
  BY DEF Assessed, OutputValid
<1>2. Assessed(answer, page) # {} /\ (CHOOSE b \in Assessed(answer, page) : TRUE) = a
  BY <1>1
<1> QED BY <1>2 DEF Published, TimestampStatus

\* The times of a page that is verified are those of an assessment of it.
LEMMA VerifiedIsAssessed ==
    ASSUME NEW answer, NEW page, TimestampStatus(answer, page) = "verified"
    PROVE  \E a \in answer.assessments :
              /\ Canonical(a.url) = page /\ a.status = "verified"
              /\ Published(answer, page) = a.published
<1> DEFINE a == CHOOSE b \in Assessed(answer, page) : TRUE
<1>1. Assessed(answer, page) # {}
  BY DEF TimestampStatus
<1>2. a \in Assessed(answer, page)
  BY <1>1
<1>3. a.status = "verified" /\ Published(answer, page) = a.published
  BY <1>1 DEF TimestampStatus, Published
<1> HIDE DEF a
<1> QED BY <1>2, <1>3 DEF Assessed

\* A stored artifact cites only pages the search returned, rests no finding on a
\* page published after the boundary and every verified fact on one published
\* before it, and its claims and sources name each other, for every answer.
LEMMA OutcomeIsPointInTime ==
    ASSUME NEW answer \in Answers, NEW r,
           r = Outcome(answer, AsOf, Retrieved, Finished), r.status # "failed"
    PROVE  /\ \A c \in r.claims :
                 /\ Pages(c.urls) \subseteq Pages(answer.found)
                 /\ Substantive(c) => Pages(c.urls) # {}
                 /\ Substantive(c) => Pages(c.urls) \cap PublishedAfter(answer) = {}
                 /\ c.class = "verified_fact" =>
                       Pages(c.urls) \cap PublishedBefore(answer) # {}
           /\ \A s \in r.sources :
                 s.related = {c.id : c \in {d \in r.claims : s.page \in Pages(d.urls)}}
           /\ (r.status = "no_evidence") = (r.claims = {})
<1> DEFINE sources == BuildSources(answer, AsOf)
<1>1. /\ OutputValid(answer) /\ SourcesKnown(answer)
      /\ ContentSupported(answer, sources) /\ ProvenanceHolds(Content(answer), sources)
      /\ r.claims = Content(answer) /\ r.sources = sources
      /\ r.status = IF Useful(answer.claims) THEN "succeeded" ELSE "no_evidence"
  BY OutcomeAccepted
<1>2. \A s \in sources :
         /\ s.status = TimestampStatus(answer, s.page)
         /\ s.published = Published(answer, s.page)
         /\ s.availability = Availability(s.published, s.status, AsOf)
  BY DEF BuildSources
<1>3. ASSUME NEW p \in ExtractedSources(answer) PROVE \E s \in sources : s.page = p
  <2> DEFINE s == [page |-> p,
                   published |-> Published(answer, p),
                   status |-> TimestampStatus(answer, p),
                   availability |->
                      Availability(Published(answer, p), TimestampStatus(answer, p), AsOf),
                   related |-> Citing(answer.claims, p)]
  <2>1. s \in sources /\ s.page = p
    BY DEF BuildSources
  <2> QED BY <2>1
<1>4. \A a \in answer.assessments : a.published \in Nat /\ TimestampMatches(a)
  BY <1>1, AnswersAssumption DEF OutputValid
<1>5. r.claims \subseteq answer.claims
  BY <1>1 DEF Content
<1> HIDE DEF sources
<1>6. ASSUME NEW c \in answer.claims
      PROVE  Pages(c.urls) \subseteq Pages(answer.found)
  BY <1>1 DEF SourcesKnown, ExtractedSources
<1>7. ASSUME NEW c \in answer.claims, Substantive(c)
      PROVE  /\ Pages(c.urls) # {}
             /\ Pages(c.urls) \cap PublishedAfter(answer) = {}
  <2>1. /\ Supports(sources, c) # {}
        /\ \A s \in Supports(sources, c) : s.availability # "published_after"
    BY <1>1, <1>7 DEF ContentSupported
  <2>2. Pages(c.urls) # {}
    BY <2>1 DEF Supports
  <2>3. ASSUME NEW a \in answer.assessments, a.status = "verified", a.published > AsOf,
               Canonical(a.url) \in Pages(c.urls)
        PROVE  FALSE
    <3>1. PICK s \in sources : s.page = Canonical(a.url)
      BY <1>3, <1>6, <2>3 DEF ExtractedSources
    <3>2. s.status = "verified" /\ s.published = a.published
      BY <1>1, <1>2, <2>3, <3>1, AssessedOnce
    <3>3. s.published # 0 /\ ~ (s.published <= AsOf)
      BY <1>4, <2>3, <3>2, AnswersAssumption
    <3>4. s.availability = "published_after"
      BY <1>2, <3>2, <3>3 DEF Availability
    <3>5. s \in Supports(sources, c)
      BY <2>3, <3>1 DEF Supports
    <3> QED BY <2>1, <3>4, <3>5
  <2> QED BY <2>2, <2>3 DEF PublishedAfter
<1>8. ASSUME NEW c \in answer.claims, c.class = "verified_fact"
      PROVE  Pages(c.urls) \cap PublishedBefore(answer) # {}
  <2>1. PICK s \in Supports(sources, c) : s.availability = "available" /\ s.status = "verified"
    BY <1>1, <1>8 DEF ContentSupported
  <2>2. s \in sources /\ s.page \in Pages(c.urls)
    BY DEF Supports
  <2>3. PICK a \in answer.assessments :
           /\ Canonical(a.url) = s.page /\ a.status = "verified"
           /\ s.published = a.published
    BY <1>2, <2>1, <2>2, VerifiedIsAssessed
  <2>4. a.published <= AsOf
    BY <1>2, <2>1, <2>2, <2>3 DEF Availability
  <2> QED BY <2>2, <2>3, <2>4 DEF PublishedBefore
<1>9. \A s \in r.sources :
         s.related = {c.id : c \in {d \in r.claims : s.page \in Pages(d.urls)}}
  BY <1>1 DEF ProvenanceHolds, Citing
<1>10. (r.status = "no_evidence") = (r.claims = {})
  <2>1. Useful(answer.claims) => answer.claims # {}
    BY DEF Useful
  <2> QED BY <1>1, <2>1 DEF Content
<1> QED BY <1>5, <1>6, <1>7, <1>8, <1>9, <1>10

\* What research is stored is point-in-time, whatever the provider answers.
THEOREM RulesAcceptedIsPointInTime == Spec => []AcceptedIsPointInTime
<1>1. Applied => AcceptedIsPointInTime
  <2> SUFFICES ASSUME Applied, rule = "answer", result.status # "failed"
               PROVE  AcceptedIsPointInTime
    BY DEF AcceptedIsPointInTime
  <2>1. input \in Answers /\ result = Outcome(input, AsOf, Retrieved, Finished)
    BY DEF Applied
  <2> QED BY <2>1, OutcomeIsPointInTime DEF AcceptedIsPointInTime
<1> QED BY <1>1, RulesApplied, PTL

-----------------------------------------------------------------------------
(* The official snapshot.                                                   *)

\* A page of a list is a list of its elements.
LEMMA PageElements ==
    ASSUME NEW T, NEW list \in Seq(T), NEW page \in Nat \ {0}, NEW size \in Nat \ {0}
    PROVE  /\ Page(list, page, size) \in Seq(T)
           /\ page = 1 /\ list # <<>> => Len(Page(list, page, size)) \in Nat \ {0}
<1> DEFINE m == (page - 1) * size + 1
           n == Min({page * size, Len(list)})
<1>1. m \in Nat /\ m >= 1 /\ page * size \in Nat /\ Len(list) \in Nat
  OBVIOUS
<1>2. n \in {page * size, Len(list)} /\ n <= Len(list)
  <2>1. {page * size, Len(list)} \in SUBSET Nat
    BY <1>1
  <2> QED BY <2>1, MinOfNaturals
<1>3. Page(list, page, size) = SubSeq(list, m, n)
  BY DEF Page
<1>4. ASSUME page = 1, list # <<>> PROVE m = 1 /\ n >= 1
  BY <1>1, <1>2, <1>4
<1> HIDE DEF m, n
<1>5. n \in Int /\ \A i \in m..n : list[i] \in T
  BY <1>1, <1>2
<1>6. /\ SubSeq(list, m, n) \in Seq(T)
      /\ Len(SubSeq(list, m, n)) = IF m <= n THEN n - m + 1 ELSE 0
  BY <1>1, <1>5, SubSeqProperties
<1> QED BY <1>1, <1>3, <1>4, <1>5, <1>6

\* The delayed endpoint yields as many rows as the first list has, all from the
\* lists.
LEMMA DelayedRows ==
    ASSUME NEW T, NEW lists, NEW size \in Nat \ {0}, 1 \in DOMAIN lists,
           \A list \in Range(lists) : list \in Seq(T),
           lists[1] # <<>> => 1..PageCount(lists, size) \subseteq DOMAIN lists,
           Delayed(lists, size).kind = "rows"
    PROVE  /\ Delayed(lists, size).rows \in Seq(T)
           /\ Len(Delayed(lists, size).rows) = Len(lists[1])
<1> DEFINE pages == PageCount(lists, size)
           rows  == FlattenSeq([k \in 1..pages |-> Page(lists[k], k, size)])
<1>1. Len(lists[1]) # 0 /\ Len(rows) = Len(lists[1]) /\ Delayed(lists, size).rows = rows
  BY DEF Delayed, Failure, Frame
<1>2. lists[1] \in Seq(T) /\ lists[1] # <<>>
  BY <1>1 DEF Range
<1>3. pages \in Nat
  <2> DEFINE total == Len(lists[1])
             first == Len(Page(lists[1], 1, size))
  <2>1. total \in Nat \ {0} /\ first \in Nat \ {0}
    <3> HIDE DEF pages, rows
    <3>1. total \in Nat \ {0}
      BY <1>1, <1>2
    <3>2. Len(Page(lists[1], 1, size)) \in Nat \ {0}
      <4> DEFINE list == lists[1]
      <4>1. list \in Seq(T) /\ list # <<>> /\ 1 \in Nat \ {0}
        BY <1>2
      <4> HIDE DEF list
      <4>2. Len(Page(list, 1, size)) \in Nat \ {0}
        BY <4>1, PageElements
      <4> QED BY <4>2 DEF list
    <3> QED BY <3>1, <3>2
  <2>2. pages = (total + first - 1) \div first
    BY DEF PageCount
  <2> HIDE DEF total, first, pages
  <2> QED BY <2>1, <2>2
<1>4. \A k \in 1..pages : lists[k] \in Seq(T)
  BY <1>2 DEF Range
<1> HIDE DEF pages
<1>5. [k \in 1..pages |-> Page(lists[k], k, size)] \in [1..pages -> Seq(T)]
  <2> SUFFICES ASSUME NEW k \in 1..pages PROVE Page(lists[k], k, size) \in Seq(T)
    OBVIOUS
  <2> QED BY <1>3, <1>4, PageElements
<1>6. rows \in Seq(T)
  BY <1>3, <1>5, FlattenElements
<1> QED BY <1>1, <1>6

\* An accepted snapshot is made of as many rows as the market has, all its own.
LEMMA SnapshotRows ==
    ASSUME NEW market \in Markets, NEW T, IsFiniteSet(T),
           \A attempt \in Range(AttemptsOn(market)) : \A list \in Range(attempt.lists) :
               Range(list) = T /\ Len(list) = Cardinality(T),
           Snapshot(AttemptsOn(market)).status = "accepted"
    PROVE  \E rows \in Seq(T) :
              /\ Len(rows) = Cardinality(T) /\ Violations(rows) = {}
              /\ Snapshot(AttemptsOn(market)).records = Records(rows)
<1> DEFINE attempts == AttemptsOn(market)
           frame    == FetchWithRetry(attempts)
           Over     == {i \in 1..MaxAttempts : i = MaxAttempts
                           \/ LiveFrame(attempts[i]).kind \in {"rows", "malformed"}}
<1>2. Min(Over) \in 1..MaxAttempts
  <2>1. Over \in SUBSET Nat /\ MaxAttempts \in Over
    BY SnapshotAssumption
  <2>2. Min(Over) \in Over
    <3> HIDE DEF Over
    <3> QED BY <2>1, MinOfNaturals
  <2> QED BY <2>2
<1>3. frame = LiveFrame(attempts[Min(Over)])
  BY DEF FetchWithRetry
<1> DEFINE attempt == attempts[Min(Over)]
<1> HIDE DEF Over
<1>4. /\ attempt \in Range(attempts)
      /\ attempt.primary \in {"rows", "unavailable", "malformed"}
      /\ attempt.delayed \in {"rows", "unavailable", "timeout", "malformed"}
      /\ attempt.size \in Nat \ {0} /\ 1 \in DOMAIN attempt.lists
      /\ \A list \in Range(attempt.lists) : IsSeq(list)
      /\ attempt.lists[1] # <<>> =>
            1..PageCount(attempt.lists, attempt.size) \subseteq DOMAIN attempt.lists
  BY <1>2, MarketsAssumption DEF Range
<1>5. \A list \in Range(attempt.lists) : list \in Seq(T) /\ Len(list) = Cardinality(T)
  BY <1>4 DEF IsSeq
<1>6. attempt.lists[1] \in Range(attempt.lists)
  BY <1>4 DEF Range
<1>7. /\ frame.kind # "accepted"
      /\ frame.kind = "rows" => frame.rows \in Seq(T) /\ Len(frame.rows) = Cardinality(T)
  <2> HIDE DEF attempt, attempts, frame
  <2>1. CASE attempt.primary = "rows"
    <3>1. frame = Frame(attempt.lists[1])
      BY <1>3, <2>1 DEF LiveFrame, attempt
    <3> QED BY <3>1, <1>5, <1>6 DEF Frame
  <2>2. CASE attempt.primary = "unavailable" /\ attempt.delayed = "rows"
    <3>1. frame = Delayed(attempt.lists, attempt.size)
      BY <1>3, <2>2 DEF LiveFrame, attempt
    <3>2. frame.kind \in {"rows", "malformed"}
      BY <3>1 DEF Delayed, Failure, Frame
    <3>3. frame.kind = "rows" => frame.rows \in Seq(T) /\ Len(frame.rows) = Cardinality(T)
      BY <3>1, <1>4, <1>5, <1>6, DelayedRows
    <3> QED BY <3>2, <3>3
  <2>3. CASE attempt.primary = "unavailable" /\ attempt.delayed # "rows"
    <3>1. frame = Failure(attempt.delayed)
      BY <1>3, <2>3 DEF LiveFrame, attempt
    <3> QED BY <3>1, <2>3, <1>4 DEF Failure
  <2>4. CASE attempt.primary = "malformed"
    <3>1. frame = Failure("malformed")
      BY <1>3, <2>4 DEF LiveFrame, attempt
    <3> QED BY <3>1 DEF Failure
  <2> QED BY <1>4, <2>1, <2>2, <2>3, <2>4
<1>8. /\ frame.kind = "rows" /\ Violations(frame.rows) = {}
      /\ Snapshot(attempts).records = Records(frame.rows)
  <2>1. Snapshot(attempts).status = "accepted"
    OBVIOUS
  <2> HIDE DEF attempts, frame
  <2> QED BY <1>7, <2>1 DEF Snapshot, frame
<1> QED BY <1>7, <1>8

\* The records of rows without a violation: no symbol twice, each of a row; all of
\* them when there are as many rows as the market has and each is named.
LEMMA RecordsWhole ==
    ASSUME NEW T, IsFiniteSet(T), NEW rows \in Seq(T), Violations(rows) = {}, MaxDuplicates = 0
    PROVE  LET records == Records(rows) IN
           /\ Len(records) \in Nat /\ DOMAIN records = 1..Len(records)
           /\ \A i \in DOMAIN records :
                 \E row \in T : row.symbol \in Symbols /\ records[i] = Record(row)
           /\ \A i, j \in DOMAIN records : records[i].symbol = records[j].symbol => i = j
           /\ Len(rows) = Cardinality(T) /\ (\A row \in T : row.symbol \in Symbols) =>
                 \A row \in T : Record(row) \in Range(records)
<1> DEFINE at      == {i \in DOMAIN rows : rows[i].symbol \in Symbols}
           named   == Kept(rows, at)
           records == Records(rows)
           n       == Cardinality(at)
<1>1. /\ n \in Nat /\ DOMAIN named = 1..n /\ Len(named) = n
      /\ \A k \in 1..n : Ascending(at)[k] \in at /\ named[k] = rows[Ascending(at)[k]]
      /\ \A i \in at : \E k \in 1..n : Ascending(at)[k] = i
  <2>1. at \in SUBSET DOMAIN rows
    OBVIOUS
  <2> HIDE DEF at
  <2> QED BY <2>1, KeptElements
<1>2. records = [k \in 1..n |-> Record(named[k])]
  BY <1>1 DEF Records
<1>3. DOMAIN records = 1..n /\ Len(records) = n /\ \A k \in 1..n : records[k] = Record(named[k])
  <2> HIDE DEF n, named, records
  <2> QED BY <1>1, <1>2
<1>4. \A i \in DOMAIN rows : rows[i] \in T
  OBVIOUS
<1>5. \A k \in 1..n : named[k] \in T /\ named[k].symbol \in Symbols
  BY <1>1, <1>4
<1> HIDE DEF named, records, n
<1>6. \A i, j \in 1..n : records[i].symbol = records[j].symbol => i = j
  <2> DEFINE symbols == {records[i].symbol : i \in DOMAIN records}
             f == [i \in 1..n |-> records[i].symbol]
  <2>1. ~ (DuplicateSymbols(records) > 0)
    <3>1. "duplicates" \notin Violations(rows)
      OBVIOUS
    <3> QED BY <3>1 DEF Violations, records
  <2>2. DuplicateSymbols(records) = n - Cardinality(symbols)
    BY <1>3 DEF DuplicateSymbols
  <2>3. f \in Surjection(1..n, symbols)
    BY <1>3 DEF Surjection
  <2>4. IsFiniteSet(1..n) /\ Cardinality(1..n) = n
    BY <1>1, FS_Interval
  <2> HIDE DEF f, symbols
  <2>5. /\ IsFiniteSet(symbols) /\ Cardinality(symbols) <= n
        /\ Cardinality(symbols) = n <=> f \in Injection(1..n, symbols)
    BY <2>3, <2>4, FS_Surjection
  <2>6. Cardinality(symbols) \in Nat
    BY <2>5, FS_CardinalityType
  <2>7. Cardinality(symbols) = n
    BY <1>1, <2>1, <2>2, <2>5, <2>6
  <2>8. \A i, j \in 1..n : f[i] = f[j] => i = j
    BY <2>5, <2>7 DEF Injection, IsInjective
  <2> QED BY <2>8 DEF f
<1>7. ASSUME Len(rows) = Cardinality(T), \A row \in T : row.symbol \in Symbols, NEW row \in T
      PROVE  Record(row) \in Range(records)
  <2>1. at = DOMAIN rows /\ DOMAIN rows = 1..Len(rows) /\ Len(rows) \in Nat
    BY <1>7, <1>4
  <2>2. \A i \in at : \E k \in 1..n : records[k] = Record(rows[i]) /\ Ascending(at)[k] = i
    BY <1>1, <1>3
  <2>3. \A i, j \in at : rows[i] = rows[j] => i = j
    <3> SUFFICES ASSUME NEW i \in at, NEW j \in at, rows[i] = rows[j] PROVE i = j
      OBVIOUS
    <3>1. PICK k \in 1..n : records[k] = Record(rows[i]) /\ Ascending(at)[k] = i
      BY <2>2
    <3>2. PICK l \in 1..n : records[l] = Record(rows[j]) /\ Ascending(at)[l] = j
      BY <2>2
    <3>3. k = l
      BY <1>6, <3>1, <3>2
    <3> QED BY <3>1, <3>2, <3>3
  <2>4. rows \in Injection(1..Len(rows), T)
    BY <2>1, <2>3 DEF Injection, IsInjective
  <2>5. IsFiniteSet(1..Len(rows)) /\ Cardinality(1..Len(rows)) = Len(rows)
    BY <2>1, FS_Interval
  <2>6. rows \in Surjection(1..Len(rows), T)
    BY <1>7, <2>4, <2>5, FS_Injection
  <2>7. PICK i \in at : rows[i] = row
    BY <2>1, <2>6 DEF Surjection
  <2>8. PICK k \in 1..n : records[k] = Record(rows[i])
    BY <2>2
  <2> QED BY <1>3, <2>7, <2>8 DEF Range
<1>8. \A i \in 1..n : \E row \in T : row.symbol \in Symbols /\ records[i] = Record(row)
  BY <1>3, <1>5
<1> QED BY <1>1, <1>3, <1>6, <1>7, <1>8 DEF records

\* A row's numbers are readable.
Readable(row) == row.price.value \in Int /\ row.pct.value \in Int

\* The rule includes a record when its row is in the range.
LEMMA IncludedInRange ==
    ASSUME NEW row, Readable(row), row.symbol \in Symbols
    PROVE  (Decision(Record(row)) = "included") = InRange(row)
<1>1. /\ Record(row).price = IF row.price.kind = "number" THEN {row.price.value} ELSE {}
      /\ Record(row).pct = IF row.pct.kind = "number" THEN {row.pct.value} ELSE {}
  BY DEF Record, Value
<1>2. CASE row.price.kind = "number" /\ row.pct.kind = "number"
  <2>1. Record(row).price = {row.price.value} /\ Record(row).pct = {row.pct.value}
    BY <1>1, <1>2
  <2>2. (row.price.value <= 0) = ~ (row.price.value > 0)
    BY DEF Readable
  <2>3. (PctMin <= row.pct.value /\ row.pct.value <= PctMax)
           = (row.pct.value \in PctMin..PctMax)
    BY SnapshotAssumption DEF Readable
  <2> QED BY <1>2, <2>1, <2>2, <2>3 DEF Decision, InRange
<1>3. CASE ~ (row.price.kind = "number" /\ row.pct.kind = "number")
  <2>1. Record(row).price = {} \/ Record(row).pct = {}
    BY <1>1, <1>3
  <2> QED BY <1>3, <2>1 DEF Decision, InRange
<1> QED BY <1>2, <1>3

\* Records of the rows of T, no symbol twice.
RecordsOf(T, records) ==
    /\ \A row \in T : Readable(row)
    /\ records \in Seq(Range(records))
    /\ \A i \in DOMAIN records :
          \E row \in T : row.symbol \in Symbols /\ records[i] = Record(row)
    /\ \A i, j \in DOMAIN records : records[i].symbol = records[j].symbol => i = j

\* Screening records of a market yields each of them that is in the range, once.
LEMMA ScreeningExact ==
    ASSUME NEW T, NEW records, RecordsOf(T, records)
    PROVE  LET candidates == Screening(records).candidates IN
           /\ \A i, j \in DOMAIN candidates :
                 candidates[i].symbol = candidates[j].symbol => i = j
           /\ Range(candidates) = {Record(row) : row \in {r \in T :
                                      InRange(r) /\ Record(r) \in Range(records)}}
<1> DEFINE at         == {i \in DOMAIN records : Decision(records[i]) = "included"}
           candidates == Kept(records, at)
           exact      == {Record(row) : row \in {r \in T :
                             InRange(r) /\ Record(r) \in Range(records)}}
<1>1. Screening(records).candidates = candidates
  BY DEF Screening
<1> USE DEF RecordsOf
<1>2. at \in SUBSET DOMAIN records
  OBVIOUS
<1>3. /\ at \in SUBSET Nat
      /\ DOMAIN candidates = 1..Cardinality(at)
      /\ \A k \in DOMAIN candidates :
            Ascending(at)[k] \in at /\ candidates[k] = records[Ascending(at)[k]]
      /\ \A j, k \in DOMAIN candidates : j < k => Ascending(at)[j] < Ascending(at)[k]
  <2> HIDE DEF at
  <2> QED BY <1>2, KeptElements
<1>4. Cardinality(at) \in Nat
  <2> HIDE DEF at
  <2> QED BY <1>2, KeptElements
<1>5. ASSUME NEW i \in DOMAIN candidates, NEW j \in DOMAIN candidates,
             candidates[i].symbol = candidates[j].symbol
      PROVE  i = j
  <2> HIDE DEF candidates
  <2>1. Ascending(at)[i] = Ascending(at)[j]
    BY <1>3, <1>5
  <2>2. Ascending(at)[i] \in Nat /\ Ascending(at)[j] \in Nat
    BY <1>3
  <2>3. ~ (i < j) /\ ~ (j < i)
    BY <1>3, <2>1, <2>2
  <2> QED BY <1>3, <1>4, <2>3
<1>6. Range(candidates) = {records[i] : i \in at}
  <2> HIDE DEF at
  <2> QED BY <1>2, KeptRange
<1>7. ASSUME NEW i \in at PROVE records[i] \in exact
  <2>1. PICK row \in T : row.symbol \in Symbols /\ records[i] = Record(row)
    OBVIOUS
  <2>2. InRange(row)
    BY <2>1, IncludedInRange
  <2>3. records[i] \in Range(records)
    BY DEF Range
  <2> QED BY <2>1, <2>2, <2>3
<1>8. ASSUME NEW row \in T, InRange(row), Record(row) \in Range(records)
      PROVE  \E i \in at : records[i] = Record(row)
  <2>1. PICK i \in DOMAIN records : records[i] = Record(row)
    BY <1>8 DEF Range
  <2>2. Decision(records[i]) = "included"
    BY <1>8, <2>1, IncludedInRange DEF InRange
  <2> QED BY <2>1, <2>2
<1>9. Range(candidates) = exact
  <2> HIDE DEF at, candidates
  <2> QED BY <1>6, <1>7, <1>8
<1> HIDE DEF candidates
<1> QED BY <1>1, <1>5, <1>9

\* The official snapshot of every market, in whatever order its pages list it, with
\* no repeated symbol let pass.
THEOREM RulesSnapshotIsWhole == Spec => []SnapshotIsWhole
<1>1. Applied => SnapshotIsWhole
  <2> SUFFICES ASSUME Applied, rule = "snapshot", result.status = "accepted", SameMarket,
                      MaxDuplicates = 0
               PROVE  SnapshotIsWhole
    BY DEF SnapshotIsWhole
  <2> DEFINE attempts == AttemptsOn(input)
             records  == Snapshot(attempts).records
  <2>1. /\ input \in Markets /\ Snapshot(attempts).status = "accepted"
        /\ result.records = records
        /\ result.screening.candidates = Screening(records).candidates
    BY DEF Applied
  <2>2. /\ 1 \in DOMAIN attempts /\ 1 \in DOMAIN attempts[1].lists
        /\ \A list \in Range(attempts[1].lists) :
              IsSeq(list) /\ \A row \in Range(list) : Readable(row)
    BY <2>1, MarketsAssumption, SnapshotAssumption DEF Readable
  <2>3. IsSeq(attempts[1].lists[1]) /\ \A row \in Listed : Readable(row)
    BY <2>2 DEF Listed, Range
  <2>4. IsFiniteSet(Listed)
    <3>1. attempts[1].lists[1] \in Seq(Listed)
      BY <2>3 DEF IsSeq, Listed
    <3> QED BY <3>1, RangeOfList DEF Listed
  <2>5. PICK rows \in Seq(Listed) :
           /\ Len(rows) = Cardinality(Listed) /\ Violations(rows) = {}
           /\ records = Records(rows)
    BY <2>1, <2>4, SnapshotRows DEF SameMarket
  <2> HIDE DEF records
  <2>6. /\ Len(records) \in Nat /\ DOMAIN records = 1..Len(records)
        /\ \A i \in DOMAIN records :
              \E row \in Listed : row.symbol \in Symbols /\ records[i] = Record(row)
        /\ \A i, j \in DOMAIN records : records[i].symbol = records[j].symbol => i = j
        /\ (\A row \in Listed : row.symbol \in Symbols) =>
              \A row \in Listed : Record(row) \in Range(records)
    BY <2>4, <2>5, RecordsWhole
  <2>7. records \in Seq(Range(records))
    <3>1. records = [i \in 1..Len(records) |-> records[i]]
      BY <2>5, <2>6 DEF Records
    <3>2. records \in [1..Len(records) -> Range(records)]
      BY <2>6, <3>1 DEF Range
    <3> QED BY <2>6, <3>2
  <2> DEFINE candidates == Screening(records).candidates
  <2>8. /\ \A i, j \in DOMAIN candidates :
              candidates[i].symbol = candidates[j].symbol => i = j
        /\ Range(candidates) = {Record(row) : row \in {r \in Listed :
                                   InRange(r) /\ Record(r) \in Range(records)}}
    <3>1. RecordsOf(Listed, records)
      BY <2>3, <2>6, <2>7 DEF RecordsOf
    <3> QED BY <3>1, ScreeningExact
  <2>9. Range(records) \subseteq {Record(row) : row \in {r \in Listed : r.symbol \in Symbols}}
    BY <2>6 DEF Range
  <2> QED BY <2>1, <2>6, <2>8, <2>9 DEF SnapshotIsWhole
<1> QED BY <1>1, RulesApplied, PTL

-----------------------------------------------------------------------------
(* Daily bars.                                                              *)

\* The bars from a session on, in their order.
LEMMA FromBars ==
    ASSUME NEW bars \in Seq(DailyBars), NEW start \in Nat
    PROVE  /\ From(bars, start) \in Seq(DailyBars)
           /\ Range(From(bars, start)) = {bars[i] : i \in {j \in DOMAIN bars :
                                                               bars[j].date >= start}}
           /\ \A end : ValidBars(bars, end) =>
                 \A i, j \in DOMAIN From(bars, start) :
                    i < j => From(bars, start)[i].date < From(bars, start)[j].date
<1> DEFINE at == {i \in DOMAIN bars : bars[i].date >= start}
<1>1. at \in SUBSET DOMAIN bars /\ From(bars, start) = Kept(bars, at)
  BY DEF From
<1>2. ASSUME NEW end, ValidBars(bars, end) PROVE \A i, j \in DOMAIN bars :
             i < j => bars[i].date < bars[j].date
  <2> DEFINE f == Dates(bars)
  <2>1. Len(bars) \in Nat /\ DOMAIN bars = 1..Len(bars) /\ \A i \in DOMAIN bars : bars[i] \in DailyBars
    OBVIOUS
  <2>2. \A i \in 1..Len(bars) : f[i] = bars[i].date /\ f[i] \in Nat
    BY <2>1 DEF Dates, DailyBars
  <2>3. \A i \in 2..Len(bars) : f[i - 1] < f[i]
    <3> SUFFICES ASSUME NEW i \in 2..Len(bars) PROVE f[i - 1] < f[i]
      OBVIOUS
    <3>1. i - 1 \in 1..Len(bars) /\ i \in 1..Len(bars) /\ bars[i - 1].date < bars[i].date
      BY <1>2, <2>1 DEF ValidBars
    <3> QED BY <3>1, <2>2
  <2> HIDE DEF f
  <2>4. \A i, j \in 1..Len(bars) : i < j => f[i] < f[j]
    BY <2>1, <2>2, <2>3, NeighboursAscend
  <2> QED BY <2>1, <2>2, <2>4
<1> HIDE DEF at
<1>3. /\ Kept(bars, at) \in Seq(DailyBars)
      /\ \A k \in DOMAIN Kept(bars, at) :
            Ascending(at)[k] \in at /\ Kept(bars, at)[k] = bars[Ascending(at)[k]]
      /\ \A j, k \in DOMAIN Kept(bars, at) : j < k => Ascending(at)[j] < Ascending(at)[k]
  BY <1>1, KeptElements
<1>4. Range(Kept(bars, at)) = {bars[i] : i \in at}
  BY <1>1, KeptRange
<1>5. ASSUME NEW end, ValidBars(bars, end),
             NEW i \in DOMAIN Kept(bars, at), NEW j \in DOMAIN Kept(bars, at), i < j
      PROVE  Kept(bars, at)[i].date < Kept(bars, at)[j].date
  BY <1>1, <1>2, <1>3, <1>5
<1> QED BY <1>1, <1>3, <1>4, <1>5 DEF at

\* Fresh bars are put over the others, in the order of the sessions.
LEMMA MergedBars ==
    ASSUME NEW rows \in Seq(DailyBars), NEW fresh \in Seq(DailyBars)
    PROVE  /\ Merged(rows, fresh) \in Seq(DailyBars)
           /\ \A i, j \in DOMAIN Merged(rows, fresh) :
                 i < j => Merged(rows, fresh)[i].date < Merged(rows, fresh)[j].date
           /\ \A i \in DOMAIN Merged(rows, fresh) :
                 \/ Merged(rows, fresh)[i] \in Range(fresh)
                 \/ /\ Merged(rows, fresh)[i] \in Range(rows)
                    /\ Merged(rows, fresh)[i].date \notin Range(Dates(fresh))
           /\ Range(Dates(Merged(rows, fresh))) = Range(Dates(rows)) \cup Range(Dates(fresh))
<1> DEFINE S      == Range(Dates(rows)) \cup Range(Dates(fresh))
           dates  == Ascending(S)
           bar(d) == IF On(fresh, d) # {} THEN fresh[Min(On(fresh, d))]
                     ELSE rows[Min(On(rows, d))]
           merged == Merged(rows, fresh)
<1>1. ASSUME NEW bars \in Seq(DailyBars)
      PROVE  /\ IsFiniteSet(Range(Dates(bars))) /\ Range(Dates(bars)) \in SUBSET Nat
             /\ \A d : d \in Range(Dates(bars)) <=> On(bars, d) # {}
             /\ \A d : On(bars, d) # {} =>
                   Min(On(bars, d)) \in DOMAIN bars /\ bars[Min(On(bars, d))].date = d
  <2>1. Len(bars) \in Nat /\ DOMAIN bars = 1..Len(bars) /\ \A i \in DOMAIN bars : bars[i] \in DailyBars
    OBVIOUS
  <2>2. Dates(bars) \in Seq(Nat)
    <3>1. Dates(bars) \in [1..Len(bars) -> Nat]
      BY <2>1 DEF Dates, DailyBars
    <3> QED BY <2>1, <3>1
  <2>3. \A d : d \in Range(Dates(bars)) <=> On(bars, d) # {}
    BY DEF On, Dates, Range
  <2>4. ASSUME NEW d, On(bars, d) # {}
        PROVE  Min(On(bars, d)) \in DOMAIN bars /\ bars[Min(On(bars, d))].date = d
    <3>1. On(bars, d) \in SUBSET Nat
      BY <2>1 DEF On
    <3>2. Min(On(bars, d)) \in On(bars, d)
      BY <2>4, <3>1, MinOfNaturals
    <3> QED BY <3>2 DEF On
  <2> QED BY <2>2, <2>3, <2>4, RangeOfList
<1>2. IsFiniteSet(S) /\ S \in SUBSET Nat
  BY <1>1, FS_Union
<1> DEFINE n == Cardinality(S)
<1>3. /\ n \in Nat /\ Len(dates) = n /\ DOMAIN dates = 1..n
      /\ \A i \in 1..n : dates[i] \in S
      /\ \A i, j \in 1..n : i < j => dates[i] < dates[j]
      /\ \A d \in S : \E i \in 1..n : dates[i] = d
  <2> HIDE DEF S
  <2> QED BY <1>2, AscendingLists
<1>4. merged = [i \in 1..n |-> bar(dates[i])]
  BY <1>3 DEF Merged
<1> HIDE DEF merged, dates, n
<1>5. \A i \in 1..n : merged[i] = bar(dates[i])
  BY <1>4
<1>6. ASSUME NEW i \in 1..n
      PROVE  /\ merged[i] \in DailyBars /\ merged[i].date = dates[i]
             /\ \/ merged[i] \in Range(fresh)
                \/ merged[i] \in Range(rows) /\ merged[i].date \notin Range(Dates(fresh))
  <2>1. CASE On(fresh, dates[i]) # {}
    <3>1. merged[i] = fresh[Min(On(fresh, dates[i]))]
      BY <1>5, <2>1
    <3>2. Min(On(fresh, dates[i])) \in DOMAIN fresh /\ merged[i].date = dates[i]
      BY <1>1, <2>1, <3>1
    <3>3. merged[i] \in Range(fresh) /\ merged[i] \in DailyBars
      BY <3>1, <3>2 DEF Range
    <3> QED BY <3>2, <3>3
  <2>2. CASE On(fresh, dates[i]) = {}
    <3>1. dates[i] \notin Range(Dates(fresh)) /\ On(rows, dates[i]) # {}
      BY <1>1, <1>3, <2>2
    <3>2. merged[i] = rows[Min(On(rows, dates[i]))]
      BY <1>5, <2>2
    <3>3. Min(On(rows, dates[i])) \in DOMAIN rows /\ merged[i].date = dates[i]
      BY <1>1, <3>1, <3>2
    <3>4. merged[i] \in Range(rows) /\ merged[i] \in DailyBars
      BY <3>2, <3>3 DEF Range
    <3> QED BY <3>1, <3>3, <3>4
  <2> QED BY <2>1, <2>2
<1>7. DOMAIN merged = 1..n /\ merged \in Seq(DailyBars)
  <2>1. DOMAIN merged = 1..n /\ merged \in [1..n -> DailyBars]
    BY <1>4, <1>6
  <2> QED BY <1>3, <2>1
<1>8. \A i, j \in DOMAIN merged : i < j => merged[i].date < merged[j].date
  BY <1>3, <1>6, <1>7
<1>9. Range(Dates(merged)) = S
  <2>1. ASSUME NEW d \in S PROVE d \in Range(Dates(merged))
    <3>1. PICK i \in 1..n : dates[i] = d
      BY <1>3
    <3>2. i \in DOMAIN Dates(merged) /\ Dates(merged)[i] = d
      BY <1>6, <1>7, <3>1 DEF Dates
    <3> QED BY <3>2 DEF Range
  <2>2. ASSUME NEW d \in Range(Dates(merged)) PROVE d \in S
    <3>1. PICK i \in 1..n : d = merged[i].date
      BY <1>7 DEF Dates, Range
    <3> QED BY <1>3, <1>6, <3>1
  <2> QED BY <2>1, <2>2
<1> QED BY <1>6, <1>7, <1>8, <1>9 DEF merged

\* What the assumptions say of a history.
IsHistory(h) ==
    /\ h.cached \in Seq(DailyBars)
    /\ \A k \in 1..2 : h.answers[k] \in Seq(DailyBars)
    /\ h.sessions \in SUBSET Nat /\ IsFiniteSet(h.sessions) /\ h.sessions # {}
    /\ h.now \in Int

Known(h) == From(h.cached, Min(h.sessions))

\* No bar of the list is older than the refresh.
AllFresh(bars, now) == \A i \in DOMAIN bars : now - bars[i].fetched < RefreshDays

\* The three ways to a series: all that the provider publishes, all that is
\* cached, or the cached bars with those from `from` on put over them.
FullSeries(h, bars) ==
    \E k \in 1..2 : /\ ValidBars(h.answers[k], Max(h.sessions))
                    /\ bars = From(h.answers[k], Min(h.sessions))

CachedSeries(h, bars) ==
    /\ ValidBars(h.cached, Max(h.sessions)) /\ bars = Known(h)
    /\ AllFresh(bars, h.now) /\ h.sessions \subseteq Range(Dates(bars))

MergedSeries(h, bars) ==
    \E from \in Nat :
        LET fresh == From(h.answers[1], from)
            over  == From(Known(h), from)
        IN /\ ValidBars(h.cached, Max(h.sessions)) /\ ValidBars(fresh, Max(h.sessions))
           /\ AllFresh(Known(h), h.now)
           /\ \A s \in h.sessions : s < from => s \in Range(Dates(Known(h)))
           /\ over # <<>>
           /\ \A i \in DOMAIN over : \E j \in DOMAIN fresh : SameBar(over[i], fresh[j])
           /\ bars = Merged(Known(h), fresh)

\* Cached bars that are not refreshed are younger than the refresh.
LEMMA YoungBars ==
    ASSUME NEW bars \in Seq(DailyBars), NEW now \in Int, bars # <<>>,
           ~ (now - Min({bars[i].fetched : i \in DOMAIN bars}) >= RefreshDays)
    PROVE  AllFresh(bars, now)
<1> DEFINE F == {bars[i].fetched : i \in DOMAIN bars}
<1>1. \A i \in DOMAIN bars : bars[i] \in DailyBars
  OBVIOUS
<1>2. F \in SUBSET Nat
  BY <1>1 DEF DailyBars
<1>3. F # {}
  <2>1. 1 \in DOMAIN bars
    OBVIOUS
  <2> QED BY <2>1
<1> HIDE DEF F
<1>4. Min(F) \in Nat /\ \A f \in F : f \in Nat /\ Min(F) <= f
  BY <1>2, <1>3, MinOfNaturals
<1>5. RefreshDays \in Nat
  BY TrendAssumption
<1>6. ~ (now - Min(F) >= RefreshDays)
  BY DEF F
<1>7. ASSUME NEW i \in DOMAIN bars PROVE now - bars[i].fetched < RefreshDays
  <2>1. bars[i].fetched \in F
    BY DEF F
  <2> QED BY <1>4, <1>5, <1>6, <2>1
<1> QED BY <1>7 DEF AllFresh

\* Whatever is resolved is resolved in one of them.
LEMMA ResolvedSeries ==
    ASSUME NEW h, IsHistory(h), NEW r,
           r = ResolveBars(h.cached, h.answers, h.sessions, h.now), r.ok
    PROVE  FullSeries(h, r.bars) \/ CachedSeries(h, r.bars) \/ MergedSeries(h, r.bars)
<1> DEFINE rows    == Known(h)
           missing == h.sessions \ {rows[i].date : i \in DOMAIN rows}
           last    == rows[Max({1, Len(rows) - Overlap + 1})].date
           from    == Min({Min(missing), last})
<1>1. \A k \in 1..2 : LET f == Full(h.answers[k], h.sessions) IN f.ok => FullSeries(h, f.bars)
  BY DEF Full, Refused, Resolved, FullSeries
<1>2. CASE h.cached = <<>>
  <2>1. r = Full(h.answers[1], h.sessions)
    BY <1>2 DEF ResolveBars
  <2> QED BY <1>1, <2>1
<1>3. CASE h.cached # <<>>
  <2>1. ValidBars(h.cached, Max(h.sessions))
    BY <1>3 DEF ResolveBars, Refused
  <2>2. rows \in Seq(DailyBars) /\ Min(h.sessions) \in Nat
    <3>1. Min(h.sessions) \in Nat
      BY MinOfNaturals DEF IsHistory
    <3> QED BY <3>1, FromBars DEF IsHistory, Known
  <2> DEFINE old == \/ rows = <<>>
                    \/ h.now - Min({rows[i].fetched : i \in DOMAIN rows}) >= RefreshDays
  <2>3. CASE old
    <3>1. r = Full(h.answers[1], h.sessions)
      BY <1>3, <2>1, <2>3 DEF ResolveBars, Known
    <3> QED BY <1>1, <3>1
  <2>4. CASE ~old
    <3>1. AllFresh(rows, h.now)
      <4> HIDE DEF rows
      <4> QED BY <2>2, <2>4, YoungBars DEF IsHistory
    <3>2. Range(Dates(rows)) = {rows[i].date : i \in DOMAIN rows}
      BY DEF Range, Dates
    <3>3. CASE missing = {}
      <4>1. r = Resolved("hit", rows)
        BY <1>3, <2>1, <2>4, <3>3 DEF ResolveBars, Known
      <4>2. h.sessions \subseteq Range(Dates(rows))
        BY <3>2, <3>3
      <4> QED BY <2>1, <3>1, <4>1, <4>2 DEF CachedSeries, Resolved
    <3>4. CASE missing # {}
      <4>1. r = Incremental(rows, h.answers, from, h.sessions)
        BY <1>3, <2>1, <2>4, <3>4 DEF ResolveBars, Known
      <4>2. from \in Nat /\ \A s \in missing : from <= s
        <5>1. missing \in SUBSET Nat
          BY DEF IsHistory
        <5>2. Min(missing) \in Nat /\ \A s \in missing : s \in Nat /\ Min(missing) <= s
          <6> HIDE DEF missing
          <6> QED BY <3>4, <5>1, MinOfNaturals
        <5>3. last \in Nat
          <6> HIDE DEF rows
          <6>1. Len(rows) \in Nat \ {0} /\ \A i \in 1..Len(rows) : rows[i] \in DailyBars
            BY <2>2, <2>4
          <6>2. Max({1, Len(rows) - Overlap + 1}) \in 1..Len(rows)
            BY <6>1, MaxOfTwo DEF Overlap
          <6> QED BY <6>1, <6>2 DEF DailyBars
        <5> HIDE DEF missing, last
        <5>4. {Min(missing), last} \in SUBSET Nat
          BY <5>2, <5>3
        <5>5. from \in {Min(missing), last} /\ from <= Min(missing)
          BY <5>4, MinOfNaturals
        <5> QED BY <5>2, <5>3, <5>5
      <4>3. \A s \in h.sessions : s < from => s \in Range(Dates(rows))
        <5> SUFFICES ASSUME NEW s \in h.sessions, s < from, s \in missing PROVE FALSE
          BY <3>2
        <5>1. s \in Nat
          BY DEF IsHistory
        <5> HIDE DEF from, missing
        <5> QED BY <4>2, <5>1
      <4> HIDE DEF rows, from
      <4> DEFINE fresh == From(h.answers[1], from)
                 over  == From(rows, from)
      <4>4. ValidBars(fresh, Max(h.sessions))
        BY <4>1 DEF Incremental, Refused
      <4>5. CASE \/ over = <<>>
                 \/ \E i \in DOMAIN over : \A j \in DOMAIN fresh : ~SameBar(over[i], fresh[j])
        <5>1. r = Full(h.answers[2], h.sessions)
          BY <4>1, <4>4, <4>5 DEF Incremental
        <5> QED BY <1>1, <5>1
      <4>6. CASE ~ \/ over = <<>>
                   \/ \E i \in DOMAIN over : \A j \in DOMAIN fresh : ~SameBar(over[i], fresh[j])
        <5>1. r = Resolved("incremental", Merged(rows, fresh))
          BY <4>1, <4>4, <4>6 DEF Incremental
        <5>2. r.bars = Merged(rows, fresh)
          BY <5>1 DEF Resolved
        <5> QED BY <2>1, <3>1, <4>2, <4>3, <4>4, <4>6, <5>2 DEF MergedSeries, rows
      <4> QED BY <4>5, <4>6
    <3> QED BY <3>3, <3>4
  <2> QED BY <2>3, <2>4
<1> QED BY <1>2, <1>3

\* A series is a list of bars.
LEMMA SeriesTyped ==
    ASSUME NEW h, IsHistory(h), NEW bars,
           FullSeries(h, bars) \/ CachedSeries(h, bars) \/ MergedSeries(h, bars)
    PROVE  bars \in Seq(DailyBars)
<1>1. Min(h.sessions) \in Nat
  BY MinOfNaturals DEF IsHistory
<1>2. Known(h) \in Seq(DailyBars)
  BY <1>1, FromBars DEF IsHistory, Known
<1>3. CASE FullSeries(h, bars)
  BY <1>1, <1>3, FromBars DEF FullSeries, IsHistory
<1>4. CASE CachedSeries(h, bars)
  BY <1>2, <1>4 DEF CachedSeries
<1>5. CASE MergedSeries(h, bars)
  <2>1. PICK from \in Nat : bars = Merged(Known(h), From(h.answers[1], from))
    BY <1>5 DEF MergedSeries
  <2>2. From(h.answers[1], from) \in Seq(DailyBars)
    <3>1. 1 \in 1..2 /\ h.answers[1] \in Seq(DailyBars)
      BY DEF IsHistory
    <3> QED BY <3>1, FromBars
  <2> QED BY <1>2, <2>1, <2>2, MergedBars
<1> QED BY <1>3, <1>4, <1>5

Ordered(bars) == \A i, j \in DOMAIN bars : i < j => bars[i].date < bars[j].date

OneSource(bars) == \A a, b \in Range(bars) : a.source = b.source

\* A vintage is that of the bars a list holds.
LEMMA VintageOfRange ==
    ASSUME NEW bars
    PROVE  /\ Vintage(bars) = {<<b.date, b.adjusted>> : b \in Range(bars)}
           /\ Range(Dates(bars)) = {b.date : b \in Range(bars)}
           /\ OneSource(bars) <=> \A i, j \in DOMAIN bars : bars[i].source = bars[j].source
BY DEF Vintage, Range, Dates, OneSource

\* A list that has the dates that are published, under the adjustments that are
\* published, has all that is published.
LEMMA WholeVintage ==
    ASSUME NEW bars, NEW now, Vintage(bars) \subseteq Vintage(now),
           Range(Dates(now)) \subseteq Range(Dates(bars)),
           \A i, j \in DOMAIN now : now[i].date = now[j].date => i = j
    PROVE  Vintage(bars) = Vintage(now)
<1> SUFFICES ASSUME NEW i \in DOMAIN now
             PROVE  <<now[i].date, now[i].adjusted>> \in Vintage(bars)
  BY DEF Vintage
<1>1. PICK k \in DOMAIN bars : bars[k].date = now[i].date
  BY DEF Range, Dates
<1>2. <<bars[k].date, bars[k].adjusted>> \in Vintage(bars)
  BY DEF Vintage
<1>3. PICK j \in DOMAIN now :
         <<bars[k].date, bars[k].adjusted>> = <<now[j].date, now[j].adjusted>>
  BY <1>2 DEF Vintage
<1>4. j = i
  BY <1>1, <1>3
<1> QED BY <1>2, <1>3, <1>4

Consistent(h, bars) ==
    /\ Ordered(bars) /\ OneSource(bars) /\ AllFresh(bars, h.now)
    /\ Vintage(bars) = Vintage(h.answers[1])

\* All that is published is of the vintage that is published.
LEMMA FullIsConsistent ==
    ASSUME NEW h, IsHistory(h), ProviderKeepsTo(h), NEW bars, FullSeries(h, bars)
    PROVE  Consistent(h, bars)
<1>1. PICK k \in 1..2 : /\ ValidBars(h.answers[k], Max(h.sessions))
                        /\ bars = From(h.answers[k], Min(h.sessions))
  BY DEF FullSeries
<1> DEFINE answer == h.answers[k]
<1>2. /\ \A i \in DOMAIN answer : answer[i].date \in h.sessions /\ answer[i].fetched = h.now
      /\ Vintage(answer) = Vintage(h.answers[1])
  BY DEF ProviderKeepsTo
<1>3. answer \in Seq(DailyBars) /\ h.now \in Int
  BY DEF IsHistory
<1>4. Min(h.sessions) \in Nat /\ \A s \in h.sessions : s \in Nat /\ Min(h.sessions) <= s
  BY MinOfNaturals DEF IsHistory
<1> HIDE DEF answer
<1>5. Range(bars) = Range(answer)
  <2>1. \A i \in DOMAIN answer : answer[i].date >= Min(h.sessions)
    BY <1>2, <1>4
  <2>2. Range(bars) = {answer[i] : i \in {j \in DOMAIN answer :
                                              answer[j].date >= Min(h.sessions)}}
    BY <1>1, <1>3, <1>4, FromBars DEF answer
  <2> QED BY <2>1, <2>2 DEF Range
<1>6. Ordered(bars)
  BY <1>1, <1>3, <1>4, FromBars DEF Ordered, answer
<1>7. OneSource(bars)
  <2>1. \A i, j \in DOMAIN answer : answer[i].source = answer[j].source
    BY <1>1 DEF ValidBars, answer
  <2>2. OneSource(answer)
    BY <2>1, VintageOfRange
  <2> QED BY <1>5, <2>2 DEF OneSource
<1>8. Vintage(bars) = Vintage(h.answers[1])
  BY <1>2, <1>5, VintageOfRange
<1>9. AllFresh(bars, h.now)
  <2> SUFFICES ASSUME NEW i \in DOMAIN bars PROVE h.now - bars[i].fetched < RefreshDays
    BY DEF AllFresh
  <2>1. bars[i] \in Range(answer)
    BY <1>5 DEF Range
  <2>2. bars[i].fetched = h.now
    BY <1>2, <2>1 DEF Range
  <2> QED BY <1>3, <2>2, TrendAssumption
<1> QED BY <1>6, <1>7, <1>8, <1>9 DEF Consistent

\* The bars that are known are cached bars, in order, of one source.
LEMMA KnownBars ==
    ASSUME NEW h, IsHistory(h), ValidBars(h.cached, Max(h.sessions))
    PROVE  /\ Known(h) \in Seq(DailyBars)
           /\ Ordered(Known(h)) /\ OneSource(Known(h))
<1>1. Min(h.sessions) \in Nat /\ h.cached \in Seq(DailyBars)
  BY MinOfNaturals DEF IsHistory
<1>2. /\ Known(h) \in Seq(DailyBars) /\ Ordered(Known(h))
      /\ Range(Known(h)) \subseteq Range(h.cached)
  <2>1. Known(h) \in Seq(DailyBars) /\ Ordered(Known(h))
    BY <1>1, FromBars DEF Known, Ordered
  <2>2. Range(Known(h)) = {h.cached[i] : i \in {j \in DOMAIN h.cached :
                                                    h.cached[j].date >= Min(h.sessions)}}
    BY <1>1, FromBars DEF Known
  <2>3. Range(Known(h)) \subseteq Range(h.cached)
    BY <2>2, Zenon DEF Range
  <2> QED BY <2>1, <2>3
<1>3. OneSource(h.cached)
  BY VintageOfRange DEF ValidBars
<1> QED BY <1>2, <1>3 DEF OneSource

\* Cached bars of every session, of which none was restated, are as published.
LEMMA CachedIsConsistent ==
    ASSUME NEW h, IsHistory(h), ProviderKeepsTo(h), NEW bars, CachedSeries(h, bars)
    PROVE  Consistent(h, bars)
<1>1. /\ ValidBars(h.cached, Max(h.sessions)) /\ bars = Known(h)
      /\ AllFresh(bars, h.now) /\ h.sessions \subseteq Range(Dates(bars))
  BY DEF CachedSeries
<1>2. Vintage(bars) \subseteq Vintage(h.answers[1])
  BY <1>1 DEF ProviderKeepsTo, Known
<1>3. Range(Dates(h.answers[1])) \subseteq Range(Dates(bars))
  <2>1. \A i \in DOMAIN h.answers[1] : h.answers[1][i].date \in h.sessions
    BY DEF ProviderKeepsTo
  <2> QED BY <1>1, <2>1 DEF Range, Dates
<1>4. Vintage(bars) = Vintage(h.answers[1])
  BY <1>2, <1>3, WholeVintage DEF ProviderKeepsTo
<1> QED BY <1>1, <1>4, KnownBars DEF Consistent

\* So are cached bars under newer ones, when one of the overlap is published as it was.
LEMMA MergedIsConsistent ==
    ASSUME NEW h, IsHistory(h), ProviderKeepsTo(h), NEW bars, MergedSeries(h, bars)
    PROVE  Consistent(h, bars)
<1> DEFINE now  == h.answers[1]
           rows == Known(h)
<1>1. PICK from \in Nat :
         LET fresh == From(now, from)
             over  == From(rows, from)
         IN /\ ValidBars(h.cached, Max(h.sessions)) /\ ValidBars(fresh, Max(h.sessions))
            /\ AllFresh(rows, h.now)
            /\ \A s \in h.sessions : s < from => s \in Range(Dates(rows))
            /\ over # <<>>
            /\ \A i \in DOMAIN over : \E j \in DOMAIN fresh : SameBar(over[i], fresh[j])
            /\ bars = Merged(rows, fresh)
  BY DEF MergedSeries
<1> DEFINE fresh == From(now, from)
           over  == From(rows, from)
<1>2. now \in Seq(DailyBars) /\ h.now \in Int
  BY DEF IsHistory
<1>3. rows \in Seq(DailyBars) /\ Ordered(rows) /\ OneSource(rows)
  BY <1>1, KnownBars
<1>4. /\ \A i \in DOMAIN now : now[i].date \in h.sessions /\ now[i].fetched = h.now
      /\ \A i, j \in DOMAIN now : now[i].date = now[j].date => i = j
      /\ \/ Vintage(rows) \subseteq Vintage(now)
         \/ Vintage(rows) \cap Vintage(now) = {}
  BY DEF ProviderKeepsTo, Known
<1> HIDE DEF now, rows
<1>5. /\ fresh \in Seq(DailyBars) /\ over \in Seq(DailyBars)
      /\ Range(fresh) = {now[i] : i \in {j \in DOMAIN now : now[j].date >= from}}
      /\ Range(over) = {rows[i] : i \in {j \in DOMAIN rows : rows[j].date >= from}}
  BY <1>2, <1>3, FromBars
<1>6. Range(fresh) \subseteq Range(now) /\ Range(over) \subseteq Range(rows)
  BY <1>5 DEF Range
<1>7. OneSource(fresh)
  BY <1>1, VintageOfRange DEF ValidBars
<1> HIDE DEF fresh, over
<1>8. PICK o \in Range(over), f \in Range(fresh) :
         o.date = f.date /\ o.adjusted = f.adjusted /\ o.source = f.source
  <2>1. 1 \in DOMAIN over
    BY <1>1, <1>5 DEF over
  <2>2. PICK j \in DOMAIN fresh : SameBar(over[1], fresh[j])
    BY <1>1, <2>1 DEF over, fresh
  <2>3. over[1] \in DailyBars /\ fresh[j] \in DailyBars
    BY <1>5, <2>1
  <2>4. over[1].date = fresh[j].date /\ over[1].adjusted = fresh[j].adjusted
        /\ over[1].source = fresh[j].source
    <3> DEFINE a == [over[1] EXCEPT !.fetched = 0]
               b == [fresh[j] EXCEPT !.fetched = 0]
    <3>1. a = b
      BY <2>2 DEF SameBar
    <3>2. a.date = over[1].date /\ a.adjusted = over[1].adjusted /\ a.source = over[1].source
      BY <2>3 DEF DailyBars
    <3>3. b.date = fresh[j].date /\ b.adjusted = fresh[j].adjusted /\ b.source = fresh[j].source
      BY <2>3 DEF DailyBars
    <3> HIDE DEF a, b
    <3> QED BY <3>1, <3>2, <3>3
  <2>5. over[1] \in Range(over) /\ fresh[j] \in Range(fresh)
    BY <2>1 DEF Range
  <2> QED BY <2>4, <2>5
<1>9. Vintage(rows) \subseteq Vintage(now)
  <2>1. <<o.date, o.adjusted>> \in Vintage(rows)
    BY <1>6, <1>8, VintageOfRange
  <2>2. <<f.date, f.adjusted>> \in Vintage(now)
    BY <1>6, <1>8, VintageOfRange
  <2> QED BY <1>4, <1>8, <2>1, <2>2
<1>10. /\ bars \in Seq(DailyBars) /\ Ordered(bars)
       /\ Range(bars) \subseteq Range(fresh) \cup Range(rows)
       /\ Range(Dates(bars)) = Range(Dates(rows)) \cup Range(Dates(fresh))
  <2>1. bars = Merged(rows, fresh)
    BY <1>1 DEF fresh
  <2>2. bars \in Seq(DailyBars) /\ Ordered(bars)
    BY <1>3, <1>5, <2>1, MergedBars DEF Ordered
  <2>3. Range(bars) \subseteq Range(fresh) \cup Range(rows)
    <3>1. \A i \in DOMAIN bars : bars[i] \in Range(fresh) \/ bars[i] \in Range(rows)
      BY <1>3, <1>5, <2>1, MergedBars
    <3>2. Range(bars) = {bars[i] : i \in DOMAIN bars}
      BY DEF Range
    <3> QED BY <3>1, <3>2
  <2>4. Range(Dates(bars)) = Range(Dates(rows)) \cup Range(Dates(fresh))
    BY <1>3, <1>5, <2>1, MergedBars
  <2> QED BY <2>2, <2>3, <2>4
<1>11. OneSource(bars)
  BY <1>3, <1>6, <1>7, <1>8, <1>10 DEF OneSource
<1>12. AllFresh(bars, h.now)
  <2> SUFFICES ASSUME NEW i \in DOMAIN bars PROVE h.now - bars[i].fetched < RefreshDays
    BY DEF AllFresh
  <2>1. bars[i] \in Range(fresh) \/ bars[i] \in Range(rows)
    BY <1>10 DEF Range
  <2>2. CASE bars[i] \in Range(fresh)
    <3>1. bars[i].fetched = h.now
      BY <1>4, <1>6, <2>2 DEF Range
    <3> QED BY <1>2, <3>1, TrendAssumption
  <2>3. CASE bars[i] \in Range(rows)
    BY <1>1, <2>3 DEF AllFresh, Range
  <2> QED BY <2>1, <2>2, <2>3
<1>13. Vintage(bars) \subseteq Vintage(now)
  <2>1. Vintage(bars) \subseteq Vintage(fresh) \cup Vintage(rows)
    BY <1>10, VintageOfRange
  <2>2. Vintage(fresh) \subseteq Vintage(now)
    BY <1>6, VintageOfRange
  <2> QED BY <1>9, <2>1, <2>2
<1>14. Range(Dates(now)) \subseteq Range(Dates(bars))
  <2> SUFFICES ASSUME NEW i \in DOMAIN now PROVE now[i].date \in Range(Dates(bars))
    BY DEF Range, Dates
  <2>1. CASE now[i].date < from
    BY <1>1, <1>4, <1>10, <2>1
  <2>2. CASE ~ (now[i].date < from)
    <3>1. now[i].date \in Nat
      <4>1. now[i] \in DailyBars
        BY <1>2
      <4> QED BY <4>1 DEF DailyBars
    <3>2. now[i] \in Range(fresh)
      BY <1>5, <2>2, <3>1
    <3>3. now[i].date \in Range(Dates(fresh))
      BY <3>2, VintageOfRange
    <3> QED BY <1>10, <3>3
  <2> QED BY <2>1, <2>2
<1>15. Vintage(bars) = Vintage(now)
  BY <1>4, <1>13, <1>14, WholeVintage
<1> QED BY <1>10, <1>11, <1>12, <1>15 DEF Consistent, now

\* What is cached of a stock and what is published make one series, for every
\* history of a provider that restates what it adjusts.
THEOREM RulesBarsAreConsistent == Spec => []BarsAreConsistent
<1>1. Applied => BarsAreConsistent
  <2> SUFFICES ASSUME Applied, rule = "stock", result.resolved.ok,
                      ProviderKeepsTo(HistoryOf(input))
               PROVE  BarsAreConsistent
    BY DEF BarsAreConsistent
  <2> DEFINE h == HistoryOf(input)
             r == ResolveBars(h.cached, h.answers, h.sessions, h.now)
  <2>1. input \in Stocks /\ result.resolved = r
    BY DEF Applied
  <2>2. IsHistory(h)
    BY <2>1, StocksAssumption DEF IsHistory
  <2> HIDE DEF h
  <2>3. FullSeries(h, r.bars) \/ CachedSeries(h, r.bars) \/ MergedSeries(h, r.bars)
    BY <2>1, <2>2, ResolvedSeries
  <2>4. ProviderKeepsTo(h)
    BY DEF h
  <2> HIDE DEF r
  <2>5. Consistent(h, r.bars)
    BY <2>2, <2>3, <2>4, FullIsConsistent, CachedIsConsistent, MergedIsConsistent
  <2>6. \A i, j \in DOMAIN r.bars : r.bars[i].source = r.bars[j].source
    BY <2>5, VintageOfRange DEF Consistent
  <2> QED BY <2>1, <2>5, <2>6 DEF BarsAreConsistent, Consistent, Ordered, AllFresh, h
<1> QED BY <1>1, RulesApplied, PTL

-----------------------------------------------------------------------------
(* Candidates.                                                              *)

\* The last k bars of a list.
LEMMA LastOfBars ==
    ASSUME NEW bars \in Seq(DailyBars), NEW k \in 1..Len(bars)
    PROVE  /\ LastBars(bars, k) \in Seq(DailyBars) /\ Len(LastBars(bars, k)) = k
           /\ DOMAIN LastBars(bars, k) = 1..k
           /\ \A i \in 1..k : LastBars(bars, k)[i] = bars[Len(bars) - k + i]
<1> DEFINE m == Len(bars) - k + 1
<1>1. Len(bars) \in Nat /\ k \in Nat /\ m \in 1..Len(bars) /\ m <= Len(bars)
  OBVIOUS
<1>2. LastBars(bars, k) = SubSeq(bars, m, Len(bars))
  BY DEF LastBars
<1> HIDE DEF m
<1>3. /\ SubSeq(bars, m, Len(bars)) \in Seq(DailyBars)
      /\ Len(SubSeq(bars, m, Len(bars))) = Len(bars) - m + 1
      /\ \A i \in 1..(Len(bars) - m + 1) : SubSeq(bars, m, Len(bars))[i] = bars[m + i - 1]
  BY <1>1, SubSeqProperties
<1>4. Len(bars) - m + 1 = k
  BY <1>1 DEF m
<1>5. \A i \in 1..k : m + i - 1 = Len(bars) - k + i
  BY <1>1 DEF m
<1> QED BY <1>2, <1>3, <1>4, <1>5

\* The baseline before the last n bars is the first part of the bars both are made of.
LEMMA BaselineBefore ==
    ASSUME NEW bars \in Seq(DailyBars), NEW n \in Nat \ {0}, n + Baseline <= Len(bars)
    PROVE  /\ SubSeq(LastBars(bars, n + Baseline), 1, Baseline) = Before(bars, n)
           /\ Len(Before(bars, n)) = Baseline
<1> DEFINE k     == n + Baseline
           L     == Len(bars)
           last  == LastBars(bars, k)
           first == L - k + 1
<1>1. /\ Baseline \in Nat /\ L \in Nat /\ k \in 1..L /\ Baseline <= k
      /\ first \in 1..L /\ L - n = first + Baseline - 1
  BY TrendAssumption
<1>2. Before(bars, n) = SubSeq(bars, first, L - n)
  BY <1>1 DEF Before
<1>3. \A i \in 1..k : last[i] = bars[L - k + i]
  BY <1>1, LastOfBars
<1> HIDE DEF last, first, k, L
<1>4. /\ SubSeq(last, 1, Baseline) = [i \in 1..Baseline |-> last[1 + i - 1]]
      /\ SubSeq(bars, first, L - n) = [i \in 1..Baseline |-> bars[first + i - 1]]
  <2>1. Baseline - 1 + 1 = Baseline /\ L - n - first + 1 = Baseline
    BY <1>1 DEF first, k
  <2> QED BY <1>1, <2>1
<1>5. \A i \in 1..Baseline : last[1 + i - 1] = bars[first + i - 1]
  <2> SUFFICES ASSUME NEW i \in 1..Baseline PROVE last[1 + i - 1] = bars[first + i - 1]
    OBVIOUS
  <2>1. i \in 1..k /\ 1 + i - 1 = i /\ first + i - 1 = L - k + i
    BY <1>1 DEF first
  <2> QED BY <1>3, <2>1
<1>6. Len([i \in 1..Baseline |-> bars[first + i - 1]]) = Baseline
  BY <1>1
<1> QED BY <1>2, <1>4, <1>5, <1>6 DEF last, k

\* The last k numbers of a set are those from the first of them on.
LEMMA LastOfSet ==
    ASSUME NEW S \in SUBSET Nat, IsFiniteSet(S), NEW k \in 1..Cardinality(S)
    PROVE  {Ascending(S)[Cardinality(S) - k + i] : i \in 1..k}
              = {s \in S : Ascending(S)[Cardinality(S) - k + 1] <= s}
<1> DEFINE C == Cardinality(S)
           D == Ascending(S)
<1>1. /\ C \in Nat /\ \A i \in 1..C : D[i] \in S /\ D[i] \in Nat
      /\ \A i, j \in 1..C : i < j => D[i] < D[j]
      /\ \A s \in S : \E i \in 1..C : D[i] = s
  BY AscendingLists
<1>2. k \in Nat /\ k >= 1 /\ k <= C
  BY <1>1
<1> HIDE DEF C, D
<1>3. ASSUME NEW i \in 1..k PROVE D[C - k + i] \in S /\ D[C - k + 1] <= D[C - k + i]
  <2>1. C - k + i \in 1..C /\ C - k + 1 \in 1..C /\ (i = 1 \/ C - k + 1 < C - k + i)
    BY <1>1, <1>2
  <2> QED BY <1>1, <2>1
<1>4. ASSUME NEW s \in S, D[C - k + 1] <= s PROVE \E i \in 1..k : s = D[C - k + i]
  <2>1. PICK j \in 1..C : D[j] = s
    BY <1>1
  <2>2. C - k + 1 \in 1..C /\ ~ (j < C - k + 1)
    BY <1>1, <1>2, <1>4, <2>1
  <2>3. j - (C - k) \in 1..k /\ C - k + (j - (C - k)) = j
    BY <1>1, <1>2, <2>2
  <2> QED BY <2>1, <2>3
<1>5. {D[C - k + i] : i \in 1..k} = {s \in S : D[C - k + 1] <= s}
  BY <1>3, <1>4
<1> QED BY <1>5 DEF C, D

\* The detected trend is the longest window that qualifies.
LEMMA LongestTrend ==
    ASSUME NEW bars \in Seq(DailyBars), DetectTrend(bars) # 0
    PROVE  /\ DetectTrend(bars) \in MinDays..MaxDays /\ DetectTrend(bars) <= Len(bars)
           /\ Qualifies(LastBars(bars, DetectTrend(bars)))
           /\ \A m \in (DetectTrend(bars) + 1)..MaxDays :
                 m <= Len(bars) => ~Qualifies(LastBars(bars, m))
<1> DEFINE T == {n \in MinDays..MaxDays : n <= Len(bars) /\ Qualifies(LastBars(bars, n))}
           n == DetectTrend(bars)
<1>1. n = Max({0} \cup T)
  BY DEF DetectTrend
<1>2. MinDays \in Nat /\ MaxDays \in Nat /\ MinDays >= 1
  BY TrendAssumption
<1>3. {0} \cup T \in SUBSET Nat /\ {0} \cup T # {} /\ \A x \in {0} \cup T : x <= MaxDays
  <2>1. \A x \in T : x \in MinDays..MaxDays
    OBVIOUS
  <2> HIDE DEF T
  <2> QED BY <1>2, <2>1
<1>4. n \in {0} \cup T /\ \A x \in T : x <= n
  <2> HIDE DEF T, n
  <2> QED BY <1>1, <1>2, <1>3, MaxOfNaturals
<1>5. n \in T
  BY <1>4
<1>6. \A m \in (n + 1)..MaxDays : m \in MinDays..MaxDays /\ ~ (m <= n)
  <2>1. n \in MinDays..MaxDays
    BY <1>5
  <2> HIDE DEF n
  <2> QED BY <1>2, <2>1
<1>7. ASSUME NEW m \in (n + 1)..MaxDays, m <= Len(bars) PROVE ~Qualifies(LastBars(bars, m))
  BY <1>4, <1>6, <1>7
<1> QED BY <1>5, <1>7

\* The last bars of consecutive ones are of the last sessions.
LEMMA ConsecutiveDates ==
    ASSUME NEW bars \in Seq(DailyBars), NEW S \in SUBSET Nat, IsFiniteSet(S),
           Consecutive(bars, S), NEW k \in 1..Len(bars), k <= Required
    PROVE  /\ k \in 1..Cardinality(S)
           /\ \A i \in 1..k : LastBars(bars, k)[i].date = Ascending(S)[Cardinality(S) - k + i]
<1> DEFINE n == Min({Required, Len(bars)})
           C == Cardinality(S)
           L == Len(bars)
<1>1. L \in Nat /\ k \in Nat /\ k >= 1 /\ k <= L /\ Required \in Nat
  BY TrendAssumption DEF Required
<1>2. n \in {Required, L}
  <2> HIDE DEF L
  <2>1. {Required, L} \in SUBSET Nat /\ {Required, L} # {}
    BY <1>1
  <2> QED BY <2>1, MinOfNaturals DEF L
<1>3. n \in Nat /\ k <= n /\ n <= L
  <2>1. {Required, L} \in SUBSET Nat
    BY <1>1
  <2>2. n <= L
    BY <2>1, MinOfNaturals
  <2> HIDE DEF n, L
  <2> QED BY <1>1, <1>2, <2>2
<1>4. /\ C \in Nat /\ Ascending(S) \in Seq(S) /\ Len(Ascending(S)) = C
  BY AscendingLists
<1>5. n <= C /\ Dates(LastBars(bars, n)) = SubSeq(Ascending(S), C - n + 1, C)
  BY <1>4 DEF Consecutive
<1> HIDE DEF n, C
<1>6. ASSUME NEW i \in 1..n PROVE bars[L - n + i].date = Ascending(S)[C - n + i]
  <2>1. n \in 1..L /\ C - n + 1 \in 1..C
    BY <1>1, <1>3, <1>4, <1>5
  <2>2. /\ Len(SubSeq(Ascending(S), C - n + 1, C)) = C - (C - n + 1) + 1
        /\ \A j \in 1..(C - (C - n + 1) + 1) :
              SubSeq(Ascending(S), C - n + 1, C)[j] = Ascending(S)[C - n + 1 + j - 1]
    BY <1>4, <2>1, SubSeqProperties
  <2>3. C - (C - n + 1) + 1 = n /\ C - n + 1 + i - 1 = C - n + i
    BY <1>3, <1>4
  <2>4. SubSeq(Ascending(S), C - n + 1, C)[i] = Ascending(S)[C - n + i]
    BY <2>2, <2>3
  <2>5. DOMAIN LastBars(bars, n) = 1..n /\ LastBars(bars, n)[i] = bars[L - n + i]
    BY <2>1, LastOfBars
  <2>6. Dates(LastBars(bars, n))[i] = LastBars(bars, n)[i].date
    BY <2>5 DEF Dates
  <2> QED BY <1>5, <2>4, <2>5, <2>6
<1>7. k \in 1..C
  BY <1>1, <1>3, <1>4, <1>5
<1>8. ASSUME NEW i \in 1..k PROVE LastBars(bars, k)[i].date = Ascending(S)[C - k + i]
  <2>1. LastBars(bars, k)[i] = bars[L - k + i]
    BY LastOfBars
  <2>2. n - k + i \in 1..n /\ L - n + (n - k + i) = L - k + i /\ C - n + (n - k + i) = C - k + i
    BY <1>1, <1>3, <1>4
  <2>3. bars[L - n + (n - k + i)].date = Ascending(S)[C - n + (n - k + i)]
    BY <1>6, <2>2
  <2> QED BY <2>1, <2>2, <2>3
<1> QED BY <1>7, <1>8 DEF C

\* A candidate's days are its trend's, and its bars are judged as the rules ask.
LEMMA CandidateOf ==
    ASSUME NEW r, NEW S, Outlook(r, S).status = "candidate"
    PROVE  /\ r.ok /\ Outlook(r, S).days = DetectTrend(r.bars) /\ DetectTrend(r.bars) # 0
           /\ Consecutive(r.bars, S)
           /\ ~ (Len(r.bars) < DetectTrend(r.bars) + Baseline)
           /\ Volume(Before(r.bars, DetectTrend(r.bars))) > 0
           /\ Outlook(r, S).level = "strong" <=>
                 Contracts(LastBars(r.bars, DetectTrend(r.bars)),
                           Before(r.bars, DetectTrend(r.bars)))
BY DEF Outlook, NoCandidate

\* A candidate rests on consecutive sessions and on the longest window that
\* qualifies, for every history.
THEOREM RulesCandidateIsSupported == Spec => []CandidateIsSupported
<1>1. Applied => CandidateIsSupported
  <2> SUFFICES ASSUME Applied, rule = "stock", result.outlook.status = "candidate"
               PROVE  CandidateIsSupported
    BY DEF CandidateIsSupported
  <2> DEFINE h == HistoryOf(input)
             r == ResolveBars(h.cached, h.answers, h.sessions, h.now)
  <2>1. input \in Stocks /\ result.resolved = r /\ result.outlook = Outlook(r, h.sessions)
    BY DEF Applied
  <2>2. IsHistory(h)
    BY <2>1, StocksAssumption DEF IsHistory
  <2> HIDE DEF h
  <2> DEFINE bars == r.bars
             n    == DetectTrend(bars)
             k    == n + Baseline
             S    == h.sessions
             C    == Cardinality(S)
             judged == LastBars(bars, k)
             trend  == LastBars(bars, n)
             before == Before(bars, n)
  <2>3. /\ r.ok /\ result.outlook.days = n /\ n # 0 /\ Consecutive(bars, S) /\ ~ (Len(bars) < k)
        /\ Volume(before) > 0
        /\ result.outlook.level = "strong" <=> Contracts(trend, before)
    BY <2>1, CandidateOf
  <2>4. bars \in Seq(DailyBars)
    <3> HIDE DEF r
    <3>1. FullSeries(h, r.bars) \/ CachedSeries(h, r.bars) \/ MergedSeries(h, r.bars)
      BY <2>2, <2>3, ResolvedSeries DEF r
    <3> QED BY <2>2, <3>1, SeriesTyped
  <2>5. S \in SUBSET Nat /\ IsFiniteSet(S)
    BY <2>2 DEF IsHistory
  <2> HIDE DEF bars, S
  <2>6. /\ n \in MinDays..MaxDays /\ n <= Len(bars) /\ Qualifies(trend)
        /\ \A m \in (n + 1)..MaxDays : m <= Len(bars) => ~Qualifies(LastBars(bars, m))
    BY <2>3, <2>4, LongestTrend
  <2> HIDE DEF n
  <2>7. n \in 1..Len(bars) /\ k \in 1..Len(bars) /\ k <= Required
    <3>1. Len(bars) \in Nat
      BY <2>4
    <3> QED BY <2>3, <2>6, <3>1, TrendAssumption DEF Required
  <2> HIDE DEF k
  <2>8. /\ Len(trend) = n /\ DOMAIN trend = 1..n /\ Len(judged) = k /\ DOMAIN judged = 1..k
    BY <2>4, <2>7, LastOfBars
  <2>9. /\ \A i \in 1..(n - 1) : trend[n].close < trend[i].close
        /\ \A i \in 1..n : trend[i].volume > 0
        /\ Cardinality(Rebounds(trend)) <= MaxPullbacks
        /\ \A i \in Rebounds(trend), cap \in MaxPullbackPct :
              (trend[i].close - trend[i - 1].close) * 100 <= cap * trend[i - 1].close
    <3> HIDE DEF trend
    <3> QED BY <2>6, <2>8 DEF Qualifies
  <2>12. SubSeq(judged, 1, Baseline) = before /\ Len(before) = Baseline
    <3>1. n \in Nat \ {0} /\ n + Baseline <= Len(bars)
      BY <2>4, <2>7, TrendAssumption DEF k
    <3> QED BY <2>4, <3>1, BaselineBefore DEF k
  <2>13. result.outlook.level = "strong" <=>
            Volume(trend) * Baseline * 100 <= StrongPercent * n * Volume(before)
    <3> HIDE DEF trend, before
    <3> QED BY <2>3, <2>8, <2>12 DEF Contracts
  <2>10. k \in 1..C /\ \A i \in 1..k : judged[i].date = Ascending(S)[C - k + i]
    BY <2>3, <2>4, <2>5, <2>7, ConsecutiveDates
  <2> HIDE DEF judged
  <2>11. Range(Dates(judged)) = {s \in S : judged[1].date <= s}
    <3>1. Range(Dates(judged)) = {judged[i].date : i \in 1..k}
      BY <2>8 DEF Range, Dates
    <3>2. {judged[i].date : i \in 1..k} = {Ascending(S)[C - k + i] : i \in 1..k}
      BY <2>10
    <3>3. judged[1].date = Ascending(S)[C - k + 1]
      <4>1. 1 \in 1..k
        BY <2>10, <2>7
      <4> QED BY <2>10, <4>1
    <3>4. {Ascending(S)[C - k + i] : i \in 1..k} = {s \in S : Ascending(S)[C - k + 1] <= s}
      BY <2>5, <2>10, LastOfSet
    <3> QED BY <3>1, <3>2, <3>3, <3>4
  <2> QED BY <2>1, <2>3, <2>6, <2>8, <2>9, <2>11, <2>12, <2>13
          DEF CandidateIsSupported, judged, trend, k, S, bars, h
<1> QED BY <1>1, RulesApplied, PTL

-----------------------------------------------------------------------------
(* Intraday features.                                                       *)

\* The bars that are used, by their end.
LEMMA UsedBars ==
    ASSUME NEW bars, NEW asOf
    PROVE  /\ DOMAIN Used(bars, asOf) = IF Invalid(bars, Eligible(bars, asOf)) THEN {}
                                        ELSE Ends(bars, Eligible(bars, asOf))
           /\ DOMAIN Used(bars, asOf) \subseteq Expected(asOf)
           /\ \A i \in Eligible(bars, asOf) :
                 bars[i].end \in DOMAIN Used(bars, asOf) =>
                    Used(bars, asOf)[bars[i].end] = bars[i]
           /\ \A s \in DOMAIN Used(bars, asOf) :
                 \E i \in Eligible(bars, asOf) : bars[i].end = s
<1> DEFINE at == Eligible(bars, asOf)
           D  == IF Invalid(bars, at) THEN {} ELSE Ends(bars, at)
<1>1. Used(bars, asOf) = [s \in D |-> bars[CHOOSE i \in at : bars[i].end = s]]
  BY DEF Used
<1>2. DOMAIN Used(bars, asOf) = D
  BY <1>1
<1>3. \A s \in D : \E i \in at : bars[i].end = s
  BY DEF Ends
<1>4. D \subseteq Expected(asOf)
  BY <1>3 DEF Eligible
<1>5. ASSUME NEW i \in at, bars[i].end \in D
      PROVE  Used(bars, asOf)[bars[i].end] = bars[i]
  <2> DEFINE j == CHOOSE k \in at : bars[k].end = bars[i].end
  <2>1. j \in at /\ bars[j].end = bars[i].end
    OBVIOUS
  <2>2. ~Repeats(bars, at)
    BY <1>5 DEF Invalid
  <2> HIDE DEF j
  <2>3. j = i
    BY <2>1, <2>2 DEF Repeats
  <2>4. Used(bars, asOf)[bars[i].end] = bars[j]
    BY <1>1, <1>5 DEF j
  <2> QED BY <2>3, <2>4
<1> QED BY <1>2, <1>3, <1>4, <1>5

\* Bars after the instant change nothing.
LEMMA FutureIsIgnored ==
    ASSUME NEW bars, IsSeq(bars), NEW asOf \in Nat
    PROVE  Features(bars, asOf)
              = Features(Kept(bars, {i \in DOMAIN bars : bars[i].end <= asOf}), asOf)
<1> DEFINE past == {i \in DOMAIN bars : bars[i].end <= asOf}
           kept == Kept(bars, past)
           A    == Ascending(past)
           at   == Eligible(bars, asOf)
           kat  == Eligible(kept, asOf)
<1>1. bars \in Seq(Range(bars)) /\ past \in SUBSET DOMAIN bars
  BY DEF IsSeq
<1>2. /\ \A k \in DOMAIN kept : A[k] \in past /\ kept[k] = bars[A[k]]
      /\ \A j, k \in DOMAIN kept : j < k => A[j] < A[k]
      /\ \A i \in past : \E k \in DOMAIN kept : A[k] = i
      /\ DOMAIN kept \subseteq Nat /\ past \subseteq Nat
  <2> HIDE DEF past
  <2> QED BY <1>1, KeptElements
<1>3. \A i \in at : i \in past
  BY DEF Eligible, Expected
<1>4. \A k \in DOMAIN kept : A[k] \in DOMAIN bars
  BY <1>2
<1> HIDE DEF past, kept, A
<1>5. /\ \A k \in kat : k \in DOMAIN kept /\ A[k] \in at /\ kept[k] = bars[A[k]]
      /\ \A i \in at : \E k \in kat : A[k] = i
      /\ \A j, k \in kat : A[j] = A[k] => j = k
  <2>1. \A k \in kat : k \in DOMAIN kept /\ A[k] \in at /\ kept[k] = bars[A[k]]
    BY <1>2, <1>4 DEF Eligible
  <2>2. ASSUME NEW i \in at PROVE \E k \in kat : A[k] = i
    <3>1. PICK k \in DOMAIN kept : A[k] = i
      BY <1>2, <1>3
    <3>2. kept[k].end \in Expected(asOf)
      BY <1>2, <3>1 DEF Eligible
    <3> QED BY <3>1, <3>2 DEF Eligible
  <2>3. ASSUME NEW j \in kat, NEW k \in kat, A[j] = A[k] PROVE j = k
    <3>1. j \in Nat /\ k \in Nat /\ A[j] \in Nat
      BY <1>2, <2>1
    <3>2. j < k \/ k < j \/ j = k
      BY <3>1
    <3> QED BY <1>2, <2>1, <2>3, <3>1, <3>2
  <2> QED BY <2>1, <2>2, <2>3
<1> HIDE DEF at, kat
<1>6. Ends(kept, kat) = Ends(bars, at)
  BY <1>5 DEF Ends
<1>7. Repeats(kept, kat) <=> Repeats(bars, at)
  BY <1>5 DEF Repeats
<1>8. Invalid(kept, kat) <=> Invalid(bars, at)
  <2>1. kat = {} <=> at = {}
    BY <1>5
  <2> QED BY <1>7, <2>1 DEF Invalid
<1>9. Complete(kept, asOf) <=> Complete(bars, asOf)
  BY <1>6, <1>8 DEF Complete, at, kat
<1>10. DOMAIN Used(kept, asOf) = DOMAIN Used(bars, asOf)
  BY <1>6, <1>8, UsedBars DEF at, kat
<1>11. ASSUME NEW s \in DOMAIN Used(bars, asOf)
       PROVE  Used(kept, asOf)[s] = Used(bars, asOf)[s]
  <2>1. PICK i \in at : bars[i].end = s
    BY UsedBars DEF at
  <2>2. PICK k \in kat : A[k] = i
    BY <1>5
  <2>3. kept[k] = bars[i] /\ kept[k].end = s
    BY <1>5, <2>1, <2>2
  <2>4. Used(bars, asOf)[s] = bars[i]
    BY <2>1, UsedBars DEF at
  <2>5. Used(kept, asOf)[s] = kept[k]
    BY <1>10, <2>3, UsedBars DEF kat
  <2> QED BY <2>3, <2>4, <2>5
<1>12. Used(kept, asOf) = Used(bars, asOf)
  <2>1. /\ Used(kept, asOf) = [s \in DOMAIN Used(kept, asOf) |-> Used(kept, asOf)[s]]
        /\ Used(bars, asOf) = [s \in DOMAIN Used(bars, asOf) |-> Used(bars, asOf)[s]]
    BY DEF Used
  <2> QED BY <1>10, <1>11, <2>1
<1>13. Complete(kept, asOf) = Complete(bars, asOf)
  BY <1>9 DEF Complete
<1>14. Features(bars, asOf) = Features(kept, asOf)
  BY <1>12, <1>13 DEF Features
<1> QED BY <1>14 DEF kept, past

\* u is what is used of a day at asOf, v all bars up to its last one, t; if u is
\* complete nothing is missing.
PartOf(u, complete, asOf, v, t) ==
    /\ DOMAIN u \subseteq Expected(asOf) /\ t \in DOMAIN u /\ t \in Nat /\ asOf \in Nat
    /\ DOMAIN v = Expected(t)
    /\ Expected(t) = {s \in Expected(asOf) : s <= t}
    /\ \A s \in DOMAIN u : s \in DOMAIN v /\ u[s] = v[s]
    /\ Max(DOMAIN u) = t /\ Max(DOMAIN v) = t
    /\ First(asOf) = First(t)
    /\ complete => u = v

\* A bar found n bars back among some is the one n bars back among all.
LEMMA PriorAgrees ==
    ASSUME NEW u, NEW complete, NEW asOf, NEW v, NEW t, PartOf(u, complete, asOf, v, t),
           NEW p \in DOMAIN u, NEW n \in Nat
    PROVE  /\ Prior(p, n, u, asOf) \subseteq DOMAIN u
           /\ Prior(p, n, u, asOf) \subseteq Prior(p, n, v, t)
           /\ WindowReturn(p, n, u, asOf) \subseteq WindowReturn(p, n, v, t)
<1>1. /\ p \in Expected(t) /\ \A s \in Expected(asOf) : s \in Nat
      /\ p \in Nat /\ p <= t /\ t \in Nat /\ t <= asOf /\ asOf \in Nat
  <2>1. \A a : \A s \in Expected(a) : s \in Nat /\ s <= a
    BY SessionAssumption DEF Expected
  <2>2. p \in Expected(asOf) /\ t \in Expected(asOf) /\ p \in Expected(t)
    BY DEF PartOf
  <2>3. t \in Nat /\ asOf \in Nat
    BY DEF PartOf
  <2> QED BY <2>1, <2>2, <2>3
<1>2. ASSUME NEW s \in Prior(p, n, u, asOf)
      PROVE  s \in DOMAIN u /\ s \in Prior(p, n, v, t) /\ u[s] = v[s]
  <2>1. /\ s \in Expected(asOf) /\ Cardinality(Between(s, p, asOf)) = n + 1
        /\ Between(s, p, asOf) \subseteq DOMAIN u
    BY DEF Prior
  <2>2. Between(s, p, asOf) # {}
    BY <2>1, FS_EmptySet
  <2>3. s \in Nat /\ s <= p /\ s <= t
    <3>1. PICK e \in Between(s, p, asOf) : TRUE
      BY <2>2
    <3>2. e \in Expected(asOf) /\ s <= e /\ e <= p
      BY DEF Between
    <3> QED BY <1>1, <2>1, <3>2
  <2>4. s \in Between(s, p, asOf)
    BY <2>1, <2>3 DEF Between
  <2>5. Between(s, p, asOf) = Between(s, p, t)
    <3>1. \A e \in Expected(asOf) : e <= p => e <= t
      BY <1>1
    <3>2. \A e : e \in Expected(t) <=> e \in Expected(asOf) /\ e <= t
      BY DEF PartOf
    <3> QED BY <3>1, <3>2 DEF Between
  <2>6. s \in Expected(t)
    BY <2>1, <2>3 DEF PartOf
  <2>7. Between(s, p, t) \subseteq DOMAIN v
    BY <2>1, <2>5 DEF PartOf
  <2>8. s \in DOMAIN u /\ u[s] = v[s]
    BY <2>1, <2>4 DEF PartOf
  <2> QED BY <2>1, <2>5, <2>6, <2>7, <2>8 DEF Prior
<1>3. u[p] = v[p]
  BY DEF PartOf
<1>4. ASSUME NEW r \in WindowReturn(p, n, u, asOf) PROVE r \in WindowReturn(p, n, v, t)
  <2>1. PICK s \in Prior(p, n, u, asOf) : r = <<u[p].close, u[s].close>>
    BY DEF WindowReturn
  <2>2. r = <<v[p].close, v[s].close>> /\ s \in Prior(p, n, v, t)
    BY <1>2, <1>3, <2>1
  <2> QED BY <2>2 DEF WindowReturn
<1> QED BY <1>2, <1>4

\* A price feature that is reported of a part is the feature of all bars.
LEMMA PriceAgrees ==
    ASSUME NEW u, NEW complete, NEW asOf, NEW v, NEW t, PartOf(u, complete, asOf, v, t)
    PROVE  Agree(PriceFeatures(u, complete, asOf), PriceFeatures(v, TRUE, t))
<1> DEFINE f == PriceFeatures(u, complete, asOf)
           g == PriceFeatures(v, TRUE, t)
<1>1. /\ t \in DOMAIN u /\ u[t] = v[t] /\ Max(DOMAIN u) = t /\ Max(DOMAIN v) = t
      /\ First(asOf) = First(t) /\ (complete => u = v)
      /\ \A s \in DOMAIN u : s \in DOMAIN v /\ u[s] = v[s]
  BY DEF PartOf
<1>2. f.r5 \subseteq g.r5 /\ f.r15 \subseteq g.r15 /\ f.r30 \subseteq g.r30
  BY <1>1, PriorAgrees DEF PriceFeatures
<1>3. f.sinceOpen \subseteq g.sinceOpen
  BY <1>1 DEF PriceFeatures
<1>4. f.range \subseteq g.range
  BY <1>1 DEF PriceFeatures
<1>5. f.position \subseteq g.position
  <2>1. f.position = {r \in f.range : r[2] # r[3]} /\ g.position = {r \in g.range : r[2] # r[3]}
    BY DEF PriceFeatures
  <2> QED BY <1>4, <2>1
<1>6. DOMAIN f = {"r5", "r15", "r30", "sinceOpen", "range", "position"}
  BY DEF PriceFeatures
<1> QED BY <1>2, <1>3, <1>4, <1>5, <1>6 DEF Agree

\* So is a volume feature.
LEMMA VolumeAgrees ==
    ASSUME NEW u, NEW complete, NEW asOf, NEW v, NEW t, PartOf(u, complete, asOf, v, t)
    PROVE  Agree(VolumeFeatures(u, complete, asOf), VolumeFeatures(v, TRUE, t))
<1> DEFINE f == VolumeFeatures(u, complete, asOf)
           g == VolumeFeatures(v, TRUE, t)
<1>1. /\ t \in DOMAIN u /\ u[t] = v[t] /\ Max(DOMAIN u) = t /\ Max(DOMAIN v) = t
      /\ (complete => u = v)
      /\ \A s \in DOMAIN u : s \in DOMAIN v /\ u[s] = v[s]
  BY DEF PartOf
<1>2. /\ f.recent = {<<u[t].volume, u[t].amount>>} /\ g.recent = {<<v[t].volume, v[t].amount>>}
      /\ f.previous = {u[s].volume : s \in Prior(t, 1, u, asOf)}
      /\ g.previous = {v[s].volume : s \in Prior(t, 1, v, t)}
      /\ f.acceleration = {<<u[t].volume, w>> : w \in {x \in f.previous : x > 0}}
      /\ g.acceleration = {<<v[t].volume, w>> : w \in {x \in g.previous : x > 0}}
  BY <1>1 DEF VolumeFeatures
<1>3. f.recent \subseteq g.recent
  BY <1>1, <1>2
<1>4. f.previous \subseteq g.previous
  <2>1. Prior(t, 1, u, asOf) \subseteq DOMAIN u /\ Prior(t, 1, u, asOf) \subseteq Prior(t, 1, v, t)
    BY <1>1, PriorAgrees
  <2> QED BY <1>1, <1>2, <2>1
<1>5. f.acceleration \subseteq g.acceleration
  BY <1>1, <1>2, <1>4
<1>6. f.vwap \subseteq g.vwap
  BY <1>1 DEF VolumeFeatures
<1>7. DOMAIN f = {"recent", "previous", "acceleration", "vwap"}
  BY DEF VolumeFeatures
<1> QED BY <1>3, <1>4, <1>5, <1>6, <1>7 DEF Agree

\* So is a characteristic of the path.
LEMMA PathAgrees ==
    ASSUME NEW u, NEW complete, NEW asOf, NEW v, NEW t, PartOf(u, complete, asOf, v, t)
    PROVE  Agree(PathFeatures(u, complete, asOf), PathFeatures(v, TRUE, t))
<1> DEFINE f == PathFeatures(u, complete, asOf)
           g == PathFeatures(v, TRUE, t)
           fr == PriceFeatures(u, complete, asOf).r15
           gr == PriceFeatures(v, TRUE, t).r15
           fb == UNION {WindowReturn(s, 3, u, asOf) : s \in Prior(t, 3, u, asOf)}
           gb == UNION {WindowReturn(s, 3, v, t) : s \in Prior(t, 3, v, t)}
<1>1. /\ t \in DOMAIN u /\ u[t] = v[t] /\ Max(DOMAIN u) = t /\ Max(DOMAIN v) = t
      /\ First(asOf) = First(t) /\ (complete => u = v)
  BY DEF PartOf
<1>2. /\ f.late = {Accelerates(p[1], p[2]) : p \in fr \X fb}
      /\ g.late = {Accelerates(p[1], p[2]) : p \in gr \X gb}
  BY <1>1 DEF PathFeatures
<1>3. fr \subseteq gr
  BY <1>1, PriorAgrees DEF PriceFeatures
<1>4. fb \subseteq gb
  <2> SUFFICES ASSUME NEW s \in Prior(t, 3, u, asOf)
               PROVE  /\ s \in Prior(t, 3, v, t)
                      /\ WindowReturn(s, 3, u, asOf) \subseteq WindowReturn(s, 3, v, t)
    OBVIOUS
  <2>1. s \in DOMAIN u /\ s \in Prior(t, 3, v, t)
    BY <1>1, PriorAgrees
  <2> QED BY <2>1, PriorAgrees
<1>5. f.late \subseteq g.late
  <2> HIDE DEF fr, gr, fb, gb, f, g
  <2>1. fr \X fb \subseteq gr \X gb
    BY <1>3, <1>4
  <2> QED BY <1>2, <2>1
<1>6. f.steady \subseteq g.steady
  BY <1>1 DEF PathFeatures
<1>7. f.spike \subseteq g.spike
  BY <1>1 DEF PathFeatures
<1>8. f.recovery \subseteq g.recovery
  BY <1>1 DEF PathFeatures
<1>9. f.belowPeak \subseteq g.belowPeak
  BY <1>1 DEF PathFeatures
<1>10. DOMAIN f = {"steady", "late", "spike", "recovery", "belowPeak"}
  BY DEF PathFeatures
<1> QED BY <1>5, <1>6, <1>7, <1>8, <1>9, <1>10 DEF Agree

\* All bars of a day up to t are used at t, and nothing is missing.
LEMMA GaplessIsUsed ==
    ASSUME NEW d \in Days, NEW t \in Session
    PROVE  /\ DOMAIN Used(Gapless(d, t), t) = Expected(t)
           /\ \A s \in Expected(t) : Used(Gapless(d, t), t)[s] = BarAt(d, s)
           /\ Complete(Gapless(d, t), t)
<1> DEFINE E  == Expected(t)
           A  == Ascending(E)
           n  == Cardinality(E)
           G  == Gapless(d, t)
           at == Eligible(G, t)
<1>1. E \in SUBSET Nat /\ IsFiniteSet(E) /\ t \in E /\ E \subseteq Session
  <2>1. E \subseteq Session /\ t \in E
    BY SessionAssumption DEF Expected
  <2> QED BY <2>1, SessionAssumption, FS_Subset
<1> HIDE DEF E
<1>2. /\ n \in Nat /\ DOMAIN A = 1..n
      /\ \A i \in 1..n : A[i] \in E
      /\ \A i, j \in 1..n : i < j => A[i] < A[j]
      /\ \A s \in E : \E i \in 1..n : A[i] = s
  BY <1>1, AscendingLists
<1>3. G = [i \in 1..n |-> BarAt(d, A[i])]
  BY <1>2 DEF Gapless, E
<1> HIDE DEF G, A, n
<1>4. \A i \in 1..n : G[i].end = A[i] /\ G[i] = BarAt(d, A[i])
  BY <1>1, <1>2, <1>3, DaysAssumption
<1>5. at = 1..n
  BY <1>2, <1>3, <1>4 DEF Eligible, E
<1> HIDE DEF at
<1>6. Ends(G, at) = E
  BY <1>2, <1>4, <1>5 DEF Ends
<1>7. ~Invalid(G, at)
  <2>1. at # {}
    BY <1>1, <1>2, <1>5
  <2>2. ~Repeats(G, at)
    <3> SUFFICES ASSUME NEW i \in 1..n, NEW j \in 1..n, i # j, A[i] = A[j] PROVE FALSE
      BY <1>4, <1>5 DEF Repeats
    <3>1. A[i] \in Nat /\ A[i] \in E
      BY <1>1, <1>2
    <3>2. i < j \/ j < i
      BY <1>2
    <3>3. A[i] < A[j] \/ A[j] < A[i]
      BY <1>2, <3>2
    <3> QED BY <3>1, <3>3
  <2> QED BY <2>1, <2>2 DEF Invalid
<1>8. DOMAIN Used(G, t) = E
  BY <1>6, <1>7, UsedBars DEF at
<1>9. ASSUME NEW s \in E PROVE Used(G, t)[s] = BarAt(d, s)
  <2>1. PICK i \in 1..n : A[i] = s
    BY <1>2
  <2>2. i \in Eligible(G, t) /\ G[i].end = s /\ G[i] = BarAt(d, s)
    BY <1>4, <1>5, <2>1 DEF at
  <2> QED BY <1>8, <2>2, UsedBars
<1>10. Complete(G, t)
  <2>1. Expected(t) # {} /\ Expected(t) \subseteq Ends(G, at)
    BY <1>1, <1>6 DEF E
  <2> QED BY <1>7, <2>1 DEF Complete, at
<1> QED BY <1>8, <1>9, <1>10 DEF E, G

\* What is used of a day is a part of all of it up to the last used bar.
LEMMA UsedIsPart ==
    ASSUME NEW d \in Days, DOMAIN Used(BarsOf(d), d.asOf) # {}
    PROVE  LET u == Used(BarsOf(d), d.asOf)
               t == Max(DOMAIN u)
           IN /\ t \in Session
              /\ PartOf(u, Complete(BarsOf(d), d.asOf), d.asOf, Used(Gapless(d, t), t), t)
<1> DEFINE bars == BarsOf(d)
           asOf == d.asOf
           at   == Eligible(bars, asOf)
           u    == Used(bars, asOf)
           t    == Max(DOMAIN u)
           v    == Used(Gapless(d, t), t)
           E    == Expected(asOf)
<1>1. /\ asOf \in Nat
      /\ \A i \in DOMAIN bars : bars[i].end \in Session => bars[i] = BarAt(d, bars[i].end)
  <2>1. \A i \in DOMAIN bars : bars[i] \in Range(bars)
    BY DEF Range
  <2> QED BY <2>1, DaysAssumption
<1>2. E \in SUBSET Nat /\ (\A s \in E : s \in Nat /\ s <= asOf /\ s \in Session)
      /\ (\A a, s : s \in Expected(a) <=> s \in Session /\ s <= a)
  BY SessionAssumption DEF Expected
<1>3. DOMAIN u \subseteq E
  BY UsedBars
<1>4. ASSUME NEW s \in DOMAIN u PROVE u[s] = BarAt(d, s)
  <2>1. PICK i \in at : bars[i].end = s
    BY UsedBars
  <2>2. u[s] = bars[i]
    BY <2>1, UsedBars
  <2>3. i \in DOMAIN bars /\ bars[i].end \in Session
    BY <1>2, <1>3, <2>1 DEF Eligible
  <2> QED BY <1>1, <2>1, <2>2, <2>3
<1>5. Complete(bars, asOf) => DOMAIN u = E
  BY <1>3, UsedBars DEF Complete
<1> HIDE DEF bars, asOf, at, E
<1>6. t \in DOMAIN u /\ \A s \in DOMAIN u : s <= t
  <2> DEFINE D == DOMAIN u
  <2>1. D \in SUBSET Nat /\ D # {} /\ \A x \in D : x <= asOf
    BY <1>2, <1>3 DEF bars, asOf
  <2> HIDE DEF D
  <2>2. Max(D) \in D /\ \A s \in D : s <= Max(D)
    BY <1>1, <2>1, MaxOfNaturals
  <2> QED BY <2>2 DEF D
<1> HIDE DEF u, t
<1>7. t \in Nat /\ t \in Session /\ t <= asOf /\ t \in E
  BY <1>2, <1>3, <1>6
<1>8. /\ DOMAIN v = Expected(t) /\ \A s \in Expected(t) : v[s] = BarAt(d, s)
  BY <1>7, GaplessIsUsed
<1> HIDE DEF v
<1>9. Expected(t) = {s \in E : s <= t}
  <2>1. \A s \in Session : s <= t => s <= asOf
    BY <1>1, <1>7, SessionAssumption
  <2> QED BY <1>2, <2>1 DEF E
<1>10. Expected(t) \in SUBSET Nat /\ t \in Expected(t) /\ \A s \in Expected(t) : s <= t
  <2>1. t <= t
    BY <1>7
  <2>2. \A s \in Expected(t) : s \in E /\ s <= t
    BY <1>9
  <2>3. \A s \in Expected(t) : s \in Nat
    BY <1>2, <2>2
  <2> QED BY <1>7, <1>9, <2>1, <2>2, <2>3
<1>11. \A s \in DOMAIN u : s \in DOMAIN v /\ u[s] = v[s]
  BY <1>3, <1>4, <1>6, <1>8, <1>9
<1>12. Max(DOMAIN v) = t
  <2>1. Expected(t) \in SUBSET Nat /\ t \in Expected(t) /\ \A s \in Expected(t) : s <= t
    BY <1>10
  <2>2. Max(Expected(t)) \in Expected(t) /\ t <= Max(Expected(t))
    BY <1>7, <2>1, MaxOfNaturals
  <2>3. Max(Expected(t)) \in Nat /\ Max(Expected(t)) <= t
    BY <2>1, <2>2
  <2> QED BY <1>7, <1>8, <2>2, <2>3
<1>13. First(asOf) = First(t)
  <2>1. Min(E) \in E /\ \A s \in E : Min(E) <= s
    BY <1>2, <1>7, MinOfNaturals
  <2>2. Expected(t) \in SUBSET Nat /\ t \in Expected(t)
    BY <1>10
  <2>3. Min(Expected(t)) \in Expected(t) /\ \A s \in Expected(t) : Min(Expected(t)) <= s
    BY <2>2, MinOfNaturals
  <2>4. Min(E) \in Expected(t) /\ Min(Expected(t)) \in E
    BY <1>7, <1>9, <2>1, <2>3
  <2>5. Min(E) <= Min(Expected(t)) /\ Min(Expected(t)) <= Min(E)
    BY <2>1, <2>3, <2>4
  <2>6. Min(E) \in Nat /\ Min(Expected(t)) \in Nat
    <3>1. \A s \in Expected(t) : s \in Nat
      BY <2>2
    <3> QED BY <2>3, <2>4, <3>1
  <2>7. Min(E) = Min(Expected(t))
    BY <2>5, <2>6
  <2> QED BY <2>7 DEF First, E
<1>14. ASSUME Complete(bars, asOf) PROVE u = v
  <2>1. DOMAIN u = DOMAIN v
    BY <1>5, <1>6, <1>8, <1>9, <1>14
  <2>2. u = [s \in DOMAIN u |-> u[s]] /\ v = [s \in DOMAIN v |-> v[s]]
    BY DEF u, v, Used
  <2> QED BY <1>11, <2>1, <2>2
<1>15. DOMAIN u \subseteq Expected(asOf) /\ Max(DOMAIN u) = t
  BY <1>3 DEF E, t
<1>16. PartOf(u, Complete(bars, asOf), asOf, v, t)
  BY <1>1, <1>6, <1>7, <1>8, <1>9, <1>11, <1>12, <1>13, <1>14, <1>15 DEF PartOf, E
<1> QED BY <1>7, <1>16 DEF u, v, t, bars, asOf

\* No feature of any day looks ahead, and none that is reported is misled by a gap.
THEOREM RulesFeaturesNeverMislead == Spec => []FeaturesNeverMislead
<1>1. Applied => FeaturesNeverMislead
  <2> SUFFICES ASSUME Applied, rule = "day" PROVE FeaturesNeverMislead
    BY DEF FeaturesNeverMislead
  <2> DEFINE d    == input
             bars == BarsOf(d)
             u    == Used(bars, d.asOf)
             t    == Max(DOMAIN u)
             v    == Used(Gapless(d, t), t)
             f    == Features(bars, d.asOf)
             g    == Features(Gapless(d, t), t)
  <2>1. d \in Days /\ result = Calculate(bars, d.malformed, d.asOf)
    BY DEF Applied
  <2>2. result.features = f /\ result.used = DOMAIN u
    BY <2>1 DEF Calculate
  <2>3. f = Features(Kept(bars, {i \in DOMAIN bars : bars[i].end <= d.asOf}), d.asOf)
    BY <2>1, DaysAssumption, FutureIsIgnored
  <2>4. ASSUME DOMAIN u # {}
        PROVE  Agree(f.price, g.price) /\ Agree(f.volume, g.volume) /\ Agree(f.path, g.path)
    <3> DEFINE complete == Complete(bars, d.asOf)
    <3>1. t \in Session /\ PartOf(u, complete, d.asOf, v, t)
      BY <2>1, <2>4, UsedIsPart
    <3>2. Complete(Gapless(d, t), t) /\ DOMAIN v # {}
      BY <2>1, <3>1, GaplessIsUsed DEF PartOf
    <3>3. Complete(Gapless(d, t), t) = TRUE
      BY <3>2 DEF Complete
    <3> HIDE DEF t, d
    <3>4. f = [price  |-> PriceFeatures(u, complete, d.asOf),
               volume |-> VolumeFeatures(u, complete, d.asOf),
               path   |-> PathFeatures(u, complete, d.asOf)]
      BY <2>4 DEF Features
    <3>5. g = [price  |-> PriceFeatures(v, TRUE, t),
               volume |-> VolumeFeatures(v, TRUE, t),
               path   |-> PathFeatures(v, TRUE, t)]
      BY <3>2, <3>3 DEF Features
    <3> HIDE DEF u, v, complete, f, g
    <3>6. /\ Agree(PriceFeatures(u, complete, d.asOf), PriceFeatures(v, TRUE, t))
          /\ Agree(VolumeFeatures(u, complete, d.asOf), VolumeFeatures(v, TRUE, t))
          /\ Agree(PathFeatures(u, complete, d.asOf), PathFeatures(v, TRUE, t))
      BY <3>1, PriceAgrees, VolumeAgrees, PathAgrees
    <3> QED BY <3>4, <3>5, <3>6
  <2> HIDE DEF f, g
  <2>5. /\ result.features = Features(Kept(bars, {i \in DOMAIN bars : bars[i].end <= d.asOf}), d.asOf)
        /\ result.used # {} => /\ Agree(result.features.price, g.price)
                               /\ Agree(result.features.volume, g.volume)
                               /\ Agree(result.features.path, g.path)
    BY <2>2, <2>3, <2>4
  <2> QED BY <2>2, <2>5 DEF FeaturesNeverMislead, g
<1> QED BY <1>1, RulesApplied, PTL

=============================================================================
