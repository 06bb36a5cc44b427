# a-stock-lab in TLA+

This directory is a verification development for the backend of *a-stock-lab*: TLA+ modules
translated from `src/backend/src/a_stock_lab`, TLC configurations that check them on small
instances, and proofs that TLAPS checks for every instance. `PROJECT.json` lists the components,
the runs, the hazards they aim at, the mutations each property must catch, the source lines of every
definition and the theorems.

In the paths below `TR` is `features/tail_radar`, `TD` is `features/trend_radar`, `MD` is
`shared/market_data`, all under `src/backend/src/a_stock_lab`.

## 1. The system

The program captures one full-market quote snapshot at 14:30 of every A-share trading day, screens
it, analyses the candidates, offers paid AI research on single candidates, and separately scans the
market's daily bars for a contraction pattern whose results it publishes as static files. Several
processes share one PostgreSQL database and a directory of files: the scheduling worker (a polling
loop in a container that is restarted when it dies), the trend worker, command-line tools run by an
operator, and the API.

| Component | State | Operations | Interacts with |
| --- | --- | --- | --- |
| Tail Radar scheduler (`TR/application/scheduling_service.py`, `TR/adapters/schedule_postgres.py`, `TR/application/worker.py`) | schedule row of the date: status, preflight report, workflow reference; advisory lock | `tick`, `retry_incomplete`, `execution_lock` | calls the orchestrator; reads its row |
| Workflow orchestration (`TR/application/orchestration_service.py`) | workflow row (lifecycle, links, counts), candidate rows (technical stage); a thread pool | `execute`, `resume` | calls snapshot engine, screening, intraday analysis |
| Snapshot engine (`MD/execution_service.py`, `MD/adapters/postgres.py`, `MD/adapters/parquet.py`) | run rows, manifest rows, Parquet files | `execute` (claim, replay, forced rerun), `complete_run`, `fail_run` | calendar and live provider; database and disk share no transaction |
| Quote provider and quality gate (`MD/adapters/akshare.py`, `MD/service.py`, `MD/quality.py`) | none | `FullMarketSnapshotService.fetch` with its paged fallback, normalisation, the gate | the snapshot engine |
| Screening (`TR/application/service.py`, `TR/domain/screening.py`) | screening run row, candidates of the run | `execute` (claim, replay, complete, fail) | reads the artifact |
| Intraday analysis (`TR/application/intraday_service.py`, `TR/domain/intraday.py`) | analysis rows, one per candidate and instant | `execute` (replay, fetch, save) | intraday provider; called from pool threads |
| Paid research (`TR/application/on_demand_research_service.py`, `research_service.py`, `research_models.py`, `TR/domain/research.py`) | candidate research stage, attempt rows | request of the page, `research [--force]` | the paid provider; overlapping HTTP requests |
| Commands and queries (`TR/execution_cli.py`, `queries.py`) | none of its own | `workflow`, `resume`, `scheduled-retry`, `research`, diagnostics, reads | the commands call the services above, most of them without the lock |
| Trend scan (`TD/application/service.py`, `TD/adapters/postgres.py`, `TD/application/worker.py`) | scan run rows with their checkpoints, schedule claims; a session's advisory lock | `scan`, `begin`, `checkpoint`, `complete`, worker `tick` | provider pool, publication |
| Trend provider pool (`TD/adapters/akshare.py`, `process_pool.py`, `TD/application/collection.py`) | worker processes, cooldown and probe of the primary source, prefetch window | `fetch_bars`, `request`, `collect_bounded`, `close` | threads of a scan, child processes |
| Bar cache, detector (`TD/application/bar_cache.py`, `TD/domain/detector.py`) | cached bars | reuse decision, merge, detection | the scan |
| Static publication (`TD/adapters/static_publication.py`) | files: index, results, progress | `publish`, `publish_progress`, `bundle` | the frontend reads the files at any time |

What makes this hard, and what a test suite hardly reaches:

* *several processes over one row* - a worker reads the schedule before it takes the lock and acts on
  what it read afterwards; two page requests read one research stage; some commands take no lock;
* *a lock that is a database session* - it disappears when the session dies, and its holder goes on;
* *commits whose outcome is unknown* - the repositories tell "failed" from "not acknowledged", and
  every caller must treat the two differently;
* *two stores without a common transaction* - a manifest row and a Parquet file; a run row and the
  published files;
* *crashes at any step* of work whose steps each commit on their own, followed by a restart that must
  neither repeat the live capture or the paid call nor analyse again what succeeded;
* *threads* - a pool whose first exception cancels what has not begun while the rest goes on; threads
  that share one cooldown and one probe of a failing source; child processes that answer too late;
* *deadlines* - a capture that is late must be called missed and not be made up for;
* *boundaries of pure rules* - a gap in the bars, a list that changes its order between two pages, a
  dividend that changes the adjustment of every cached bar.

What makes each component correct:

* **Scheduler** - one orchestrator at a time; the live provider is called at most once for the
  official capture, whoever calls; analysis-only recovery never captures; a completed schedule tells
  what the workflow tells and is not taken back by a stale worker; a missed capture has no workflow
  behind it; the schedule always settles.
* **Orchestration** - the result says what the candidates say; what succeeded stays; a link points at
  something that was persisted; nothing works on after the end; every call returns; repeated calls
  bring a screened workflow to success.
* **Snapshot engine** - one official run, claimed once and ended once; manifest, success and file
  agree through crashes; a forced rerun never takes the official place; every run ends.
* **Quote provider, screening** - an accepted snapshot has no stock twice, and every listed stock when
  every row has a symbol; the candidates are exactly its stocks in the range.
* **Intraday features** - nothing after the instant is used; a gap makes a feature absent, never wrong.
* **Paid research** - one ordinary paid call; a stage that says it is done links what it says; a stage
  is stuck only by a fault; an accepted answer is supported by pages from before the boundary.
* **Trend scan** - a date is scanned once; recovery takes only dead runs; a completed run has its
  evidence; every run settles.
* **Provider pool** - an answer belongs to its request; a thread finds a worker; one probe at a time,
  and an old success does not end a new cooldown; the prefetch is bounded; all is closed at the end.
* **Bar cache, detector** - a series never mixes two adjustment vintages or sources; a candidate's
  window has no gap.
* **Publication** - a reader who follows the index finds every file it names; a file never changes;
  the index does not go back.

## 2. The modules

| Module | What it is |
| --- | --- |
| `OfficialSnapshot` | abstract: one run of a key is claimed once, ends once, and its artifact stays |
| `OfficialWorkflow` | abstract: what one workflow row promises while its orchestrators take turns |
| `TailRadarSchedule` | workers, retries and commands around one schedule row, one workflow row and one snapshot run |
| `SnapshotExecution` | the snapshot engine: rows, manifests, files, callers |
| `TailRadarWorkflow` | every stage of the workflow, the thread pool, the candidate rows |
| `OnDemandResearch` | page requests and commands around one candidate's research stage and its paid attempts |
| `TrendScan` | worker and operators around the scan rows, the claims, the lock and the published files |
| `TrendProvider` | main thread, fetching threads, worker processes, cooldown and probe of one scan |
| `MarketSnapshot` | operators: pages, fallback, retries, normalisation, quality gate, screening rule |
| `IntradayFeatures` | operators: choice of bars, quality report, every feature |
| `ResearchEvidence` | operators: what is accepted of a research answer, and what is stored of it |
| `TrendCandidates` | operators: bar cache and trend detector |
| `Series` | operators: sorted numbers, and the elements of a list at some of its positions |
| `Rules` | applies the four modules of pure rules to every input the constants hold |
| `MC...` | values of the constants for TLC |
| `..._proofs` | theorems about the module they are named after |

They fit together through the abstract specifications. `SnapshotExecution` implements
`OfficialSnapshot` (`OfficialSpec`). `TailRadarWorkflow` *uses* `OfficialSnapshot`: its actions
`CaptureSnapshot` and `FetchSnapshot` are the promise's `Claim`, `Capture` and `Fail`, not a second
model of the engine. `TailRadarSchedule` has the engine as three coarse steps and again implements
`OfficialSnapshot` with all its processes (`OfficialSlot`). `TailRadarWorkflow` and
`TailRadarSchedule` both implement `OfficialWorkflow` (`RowSpec`), the second only while the lock is
honoured. The ordinary paid attempt of `OnDemandResearch` implements `OfficialSnapshot` too
(`PaidSpec`): an attempt that is paid for and a capture of 14:30 are the same kind of thing, done at
most once and never undone. `TrendScan` contains the composition of repository, worker and
publication; its scan takes stocks one after another, as the main thread of `TrendProvider` yields
them.

### TailRadarSchedule

One trade date. `now` is the market clock in four steps: before preflight, preflight, 14:30, the end
of the start window, after it. `trading` is the calendar's answer. `sched`, `wf` and `snap` are the
schedule row, the official workflow row (its active lifecycles collapsed into `"running"`) and the
official snapshot run; `fetches` counts live fetches made for it. `pc[p]` is the place in the code
of process `p`; `obs[p]` is the time its tick observed, used for the decisions made before the lock;
`seen[p]` is the lifecycle it last read.

A worker goes `ReadSchedule`, `EnsureSchedule`, `RecordPreflight`, `CheckWorkflow`, `TryLock`,
`Recheck`, then `MarkExecuting` and the orchestrator's steps, and `Record`; the `except` clauses are
`FailWorkflow`, `Raised` and `RecordFailure`; `Leave` is the `finally` that unlocks. `WriteMissed`
happens at two places, and at one of them no lock is held. `RetryStart` is `scheduled-retry` up to
its lock, `OperatorStart` the commands `workflow` and `resume`.

Every database call is a step of its own. Each may fail with no effect (`CallFails`), take effect
without an acknowledgement (the second disjunct of `Commit`), or be lost with an unknown outcome
(`CommitLost`); where the exception goes is `Handler` and `UncertainHandler`. A process may die
between two steps (`Crash`, which also frees the lock because the session dies) and the session that
holds the lock may die alone (`LoseLock`).

The stages after the snapshot are the two steps `SetLifecycle` and `Finish`; `Finish` may refuse once
something has failed, because an interrupted screening run makes every later resume fail (section 5).

### SnapshotExecution

One logical key. `runs`, `manifests` and `stored` are the rows, the manifest rows and the files;
callers go `FindOfficial`, `InsertRun` (guarded by the partial unique index), `Replay` or
`Fetch`, `WriteArtifact`, `CompleteRun`, and on errors `Cleanup` and `FailRun`. A replay reads the
run row in one session and the manifest in another; `status[c]` is what the first read returned.
`NoRun` stands for None. A call starts only while a row is left for it (`RoomForRun`), the one bound
on forced reruns.

### TailRadarWorkflow

`wf`, `screen`, `tech`, `counts` and `saved` are the workflow row, the screening run, the technical
stage of every candidate, the counts stored in the workflow row, and the persisted analyses. `task`
holds the futures of a caller's batch: queued, in one of the four steps of `_analyze_candidate`, done
or raised. `Await` is the `for future in ...: future.result()` loop, which sees exceptions in the order
of submission, cancels what has not begun and leaves the rest to `Join`, the end of the `with` block.
`held[o]` is the `analysis_as_of` of the row a caller holds and `wf.asOf` that of the workflow, both
named by the caller whose clock gave it; a caller that read none takes an instant of its own, and is
refused when another was fixed first. That the store refuses a link to an analysis of another instant
is not modelled: `LinksAreAccepted` shows that there never is one. Left out, too, are an instant
already requested when the workflow is claimed, and the check of its date on a later day. Any number of callers may be at work on the one row, as the
commands `workflow` and `resume` are, which take no lock: each has its own `pc`, its own pool and its own
futures, and shares the rows.

### OnDemandResearch

`stage` and `link` are the candidate's research status and reference in the workflow; `rows` are the
attempt rows in the order of creation, `called` those for which the provider was called. A reader
goes `ReadStage` (refused while the stage runs, or when a failure is retried without a confirmation),
`Lookup` or `Mark`, `Claim` (where the partial unique index lets one ordinary attempt in and every
other caller gets the row that is there), `Call`, `End` and `Link` or `FailStage`. A command enters at
`Claim`. Nothing of this is under a lock. `used` counts
what was asked for as well as what went wrong, so that a property can compare payments with requests.
What the provider's answer becomes is left open here and
decided by `ResearchEvidence`.

### TrendScan

`rows` are the runs with status column, JSON payload, counts of saved results and artifacts - column
and payload apart, because different statements write them. `claims` are the dates claimed, `holder`
the session that has the lock. A process (`proc[p]`) goes `Sweep`, `Begin`, `Save`, `Stock` for each
stock, `Complete` or `Fail`, then `Publish` (the read), `WriteFiles` per run and `WriteIndex`;
`PublishProgress` interrupts it every `ProgressEvery` stocks. Every transaction and every rename of a
file is a step. `Fails`, `Crash` and `LoseLock` are the faults; a commit of unknown outcome is the
second disjunct of the step. `details`, `lists` and `index` are the files; a run in a file is a pair
of its number and what the file says of it.

### TrendProvider

`thread[t]` is what a fetching thread is doing: `Begin` takes the next submitted stock, `Choose` the
source (cooldown, probe), `Send` a free worker, `Receive` the answer or the deadline, `Blame` and
`Praise` are the two updates under the provider's lock, `Release` the end. `worker[w]` is a child
process with the requests it has served and its pipe; `Answer` and `Die` are the child's steps, at any
time. `Collect` is the main thread's loop over the oldest future, `Close` the end of the scan.
`overtaken` is a history: the calls that began before the last failure of the primary. `CallLeft` and
`Nearer` measure how far a call and the collection are from their end.

### Rules

`Rules` has one action per rule, each with every input of the bounds. `ResearchEvidence` follows an
answer from its parsed form over canonical URLs, temporal assessments and de-duplication to the stored
artifact or the error that fails the attempt. `MarketSnapshot` follows the provider's pages to the
screened candidates, `IntradayFeatures` a day's bars to the features (a return is the pair of prices
it is computed from, an absent value an empty set), `TrendCandidates` the cached and published daily
bars to a resolved series and its trend.

What the code writes as a comprehension over a list, `[x for x in s if ...]`, is `Kept(s, at)` of
`Series`: the elements of `s` at a set of positions, in order. A set of positions can be counted,
compared and reasoned about where a recursive filter cannot, and the features, the quality gate and
the screening are written with it. The inputs are constants (`Answers`, `Markets` with `AttemptsOn`,
`Days` with `BarsOf`, `Stocks` with `HistoryOf`), and the assumptions of the module say what an input
is: pages for every attempt that may be made, bars with any ends in any order, lists of well-formed
daily bars that need not be sorted, complete or of one source. `BarAt(d, t)` is the one bar a day has
for an end, so that two bars of one end are the same bar: a provider that contradicts itself is
outside the model.

## 3. What is checked

Each run asks one question. All finish in a few minutes.

| Run | Instance | Question |
| --- | --- | --- |
| `schedule_locked` | 2 workers, 1 retrier, any two events among crashes, a failed call, an unknown commit and retries; fair | does the lock give one orchestrator, does the schedule tell the truth, also about failures, does it settle, is interrupted work resumed? |
| `schedule_bypass` | 1 worker, 1 retrier, 1 unlocked command, 1 crash, 1 error, 1 lost lock | is the capture made once even round the lock; does missed stay missed? |
| `snapshot_safety` | 2 callers, 2 rows, one fault of each of six kinds; fair | are rows, manifests and files consistent, how many runs can faults leave behind, does the engine keep its promise, do runs end? |
| `workflow_turns` | 1 caller, 3 candidates, 2 threads, 2 crashes, 2 provider failures, 1 error, 1 unknown commit; fair, called again | does the result stand and say what the candidates say, do retries succeed? |
| `workflow_overlap` | 2 callers at once, 2 candidates, pools of 1 thread, 1 crash, 1 provider failure, 1 error, 1 unknown commit; callers symmetric | without the lock: is what is linked and written true, is no thread left behind, does every call end? |
| `research` | 2 readers with 4 requests, 1 command, 1 crash, 1 error, 1 unknown commit; readers symmetric | what is paid for, is the stage true, what can leave it stuck? |
| `trend_scan` | worker and operator, 2 stocks, one scheduled day, 1 command, each kind of fault, one in a behaviour; fair | is a date scanned once, does recovery take dead runs only, do readers find the files, does every run settle? |
| `trend_provider` | 2 threads, 3 stocks, 2 attempts, processes recycled after 2 requests; threads symmetric | own answers, no starvation of the pool, bounded prefetch, guarded primary, does the collection end? |
| `rules` | every answer, market, day and stock of the bounds | do the pure rules keep what their documents promise? |
| `schedule_missed_fetch`, `workflow_interrupted`, `evidence` | | disagreements, section 5 |

Symmetry is used only in runs whose properties are invariants or step properties, never with
liveness. `research` may stop (all requests spent), so it does not check for deadlock; `trend_provider`
checks it with `SomebodyCanGoOn` as well, which does not count on the environment.

Properties that are the parts of one promise are checked together, under the name of the promise:

| Checked as | Parts |
| --- | --- |
| `StatusIsTrue` | `CompletedAgrees`, `FailureHasCause` |
| `StatusHasCapture` | `CompletedHasSnapshot`, `MissedMeansNoWorkflow` |
| `Recovers` | `Settles`, `RestartResumes` |
| `StoreConsistent` | `ManifestNeverDangles`, `SucceededIffManifest`, `ReplayNeverInconsistent`, `NoOrphanAfterFailure`, `OrphansHaveCause` |
| `ResultIsFinal` | `OutcomeIsCounted`, `NoWorkAfterEnd`, `SucceededIsKept` |
| `RetriesSucceed` | `CallsReturn`, `LinkedWorkflowSucceeds` |
| `RowsAgree` | `StoredAgrees` (`LinkedIsSaved`, `LinksAreAccepted`, `CountsAgree`), `ResultHasEvidence` |
| `CallsAreServed` | `ThreadsEndWithCall`, `CallsCanGoOn` |
| `PaymentsAreRight` | `OrdinaryCallOnce`, `PaymentsAreAsked` |
| `StageCanBeTrusted` | `StageIsTrue` (`StageIsBacked`, `ServedIsFound`), `StuckOnlyByFault` |
| `EvidenceStands` | `CompletedHasEvidence`, `IndexBacked` |
| `ResultsStand` | `FilesAreFinal`, `NothingIsTakenBack` |
| `PoolServes` | `AnswerIsMine`, `WorkerForEach`, `SomebodyCanGoOn` |
| `PrimaryGuarded` | `ProbeIsHeld`, `CooldownKept` |

**Why the bounds are enough.** Races here are between two parties: the one that holds the lock or the
row and the one that acts on what it read earlier, so two workers, or a worker and a retry, or a
worker and a command show them; a third only repeats the part of the second. Four clock steps put
every comparison of the code on both of its sides. One crash and one failed call can be placed at
every step and in any order; two events in `schedule_locked` and two crashes in `workflow_turns` add
the crash during recovery. Three candidates over two threads is the least for which, at the moment a
future raises, one is running, one has finished and one is still queued. With two callers two
candidates and one thread each suffice: what one caller queues the other may have finished, and
each can come between any two steps of the other. Two rows and two callers give
every order of an official run and a forced one, of two repeats and of two racing claims. Four requests
are a failure, a confirmed retry, an overlapping one and a later look. Two stocks reach a checkpoint
below the limit of failures and one at it, and a progress export between them; an index of one run
(`PublicLimit`) drops the older of two. Three stocks over two threads are a window that has to slide,
two requests per process force recycling in the middle. In `rules`, eight bars with a lunch break let
every feature see a gap on either side of each of its boundaries; five sessions let the adjustment
change before, in and after the overlap; prices 300 and 500 and their neighbours are the ends of the
screening's range. The gate of `rules` is wide open (`MinRecords` 1; two bad prices of three and one of
two missing symbols or percentages are let pass, each count having a limit of its own), so that one of
three rows, listed twice, can be let pass; with the default ratios the least market that shows it has
thousands of rows. `MaxDuplicates` is its default, 0: whoever raises it asks for repeated symbols, and
`SnapshotIsWhole` promises none only then. The cap of a single rebound is 50 percent, which the closes
of the instance reach, stay below and pass; sessions without trade are in the trend, before it or
nowhere, and volumes of 55 percent of the baseline and next to it separate the two levels. The proofs remove the bounds for the properties they cover.

**What the instances leave out.** `workflow_turns` has one caller; what holds for callers that overlap is
what `workflow_overlap` checks, and it is proved for any number of them. That a result stands
(`ResultIsFinal`) is promised only to callers that take turns: without the lock a second caller
reopens the row under the first. `schedule_locked` has no lost lock and `trend_scan` states
`SweepTakesDeadRuns` and `NothingIsTakenBack` for behaviours in which sessions last: the comment at
`TD/adapters/postgres.py:37` bases recovery on the lock, and a scan whose session is lost goes on
beside its successor and may overwrite its verdict. What holds even then is checked without the
condition: `ScheduledOnce`, `CompletedHasEvidence`, `IndexBacked`, `FilesAreFinal`, `OfficialSlot`.
`BarsAreConsistent` is applied to histories whose adjustment changes with a session that is not cached
yet, as a dividend does; a provider that restates old sessions without a new one is noticed when the
cache is older than `RefreshDays`.

**Fairness.** `TailRadarSchedule!Fairness`: a worker keeps polling (`worker.run` loops for ever, and
`compose.yaml` restarts the container), a process inside a call goes on, the clock passes. Nobody is
obliged to run a command, no fault has to happen. Only weak fairness is used: the lock is tried and
not waited for, so nobody needs strong fairness. `TailRadarWorkflow!RetriedSpec` adds that somebody
calls again, which is what polling and the recovery documentation amount to; `CallsReturn` uses it
for nothing but is checked in the same run. `SnapshotExecution!FairSpec` only says that a running call
goes on. `TrendScan!Fairness` is that of the schedule: a process at work goes on, the worker polls, the
day comes. `OnDemandResearch` and `TrendProvider` assume no fairness: what would be liveness there is
stated as safety (`StuckOnlyByFault`, `SomebodyCanGoOn` with `CollectionRunsOut`), because nobody is
obliged to ask for research and a child process owes nobody an answer. `workflow_overlap` has no
fairness either: `CallsCanGoOn` and `StepsRunOut` say that a call which is scheduled returns.

**Mutations.** Every property of every passing run is paired in `PROJECT.json` with a mutation of the
code (an operator marked `Mutation:` in the module, never part of a specification) under which TLC
finds it violated.

## 4. What is proved

TLAPS checks these theorems for every value of the constants: any number of processes, candidates,
stocks, threads, days and faults, any deadlines and limits that satisfy the modules' assumptions.

| Module | Theorem | Says |
| --- | --- | --- |
| `TailRadarSchedule_proofs` | `ScheduleTypeCorrect` | `TypeOK` |
| | `ScheduleOneOrchestrator` | unless a session loses the lock, one worker or retry at a time is inside it |
| | `ScheduleFetchesOnce` | at most one live fetch for the official snapshot, with or without the lock |
| | `ScheduleRetryNeverFetches` | a retry never reaches the snapshot stage |
| | `ScheduleCompletedHasSnapshot` | a completed workflow has its one capture, linked |
| | `ScheduleCompletedAgrees` | under the lock, a completed schedule tells what the workflow row tells |
| | `ScheduleCompletedIsFinal` | where no command goes round the lock, only a retry takes it back |
| | `ScheduleMissedMeansNoWorkflow` | with one worker, nothing is behind a missed capture |
| | `ScheduleFailureHasCause` | without a fault neither the schedule nor the workflow fails |
| | `ScheduleStatusIsTrue`, `ScheduleStatusHasCapture` | these together, as the runs check them |
| | `ScheduleImplementsSnapshot` | the schedule implements `OfficialSnapshot` |
| | `ScheduleImplementsRow` | under the lock, it implements `OfficialWorkflow` |
| `SnapshotExecution_proofs` | `SnapshotTypeCorrect`, `SnapshotStoreConsistent` | types; manifests, success and files agree |
| | `SnapshotOrphansHaveCause` | each crash, failed write or unknown outcome leaves at most one run running |
| | `SnapshotImplementsOfficial` | the engine implements `OfficialSnapshot` |
| `TailRadarWorkflow_proofs` | `WorkflowTypeCorrect`, `WorkflowStoredAgrees` | for any overlapping callers: types; links are to saved analyses of the one instant, and counts are true |
| | `WorkflowOutcomeIsCounted`, `WorkflowNoWorkAfterEnd`, `WorkflowKeepsSuccess` | for one caller at a time: the result is right, nothing works on, success stays |
| | `WorkflowResultIsFinal` | these three together |
| | `WorkflowImplementsRow` | for one caller at a time, the workflow implements `OfficialWorkflow` |
| | `WorkflowResultHasEvidence`, `WorkflowRowsAgree` | for any overlapping callers: a result rests on a screening and a snapshot that succeeded |
| | `WorkflowOutcomeIsTrueWhenWritten` | the outcome that is written is that of the candidates at that moment |
| | `WorkflowThreadsEndWithCall`, `WorkflowCallsCanGoOn`, `WorkflowCallsAreServed` | no thread outlives its call, and no call waits in vain |
| | `WorkflowStepsRunOut` | every step brings its call nearer to the end, and no other takes it back |
| `OnDemandResearch_proofs` | `ResearchTypeCorrect`, `ResearchOrdinaryOnce` | types; one ordinary paid call |
| | `ResearchStageIsTrue`, `ResearchStuckOnlyByFault` | the stage is backed; only faults and the command leave it stuck |
| | `ResearchStageCanBeTrusted` | these two together |
| | `ResearchPaymentsAreAsked`, `ResearchPaymentsAreRight` | at most one payment for each request and command, a further one only after a failure |
| | `ResearchImplementsOfficial` | the ordinary attempt implements `OfficialSnapshot` |
| `TrendProvider_proofs` | `ProviderTypeCorrect`, `ProviderPoolServes` | types; own answers, own workers, and until the end a step that can be taken |
| | `ProviderPrimaryGuarded`, `ProviderCollectionIsBounded` | cooldown and probe; window and end |
| | `ProviderCollectionRunsOut` | every step of the main thread or of a thread brings the collection nearer to its end |
| `TrendScan_proofs` | `ScanTypeCorrect`, `ScanScheduledOnce` | types; a date is scanned once |
| | `ScanCompletedHasEvidence`, `ScanSweepTakesDeadRuns` | evidence of completed runs; recovery |
| | `ScanIndexBacked`, `ScanEvidenceStands` | the files of the index are there; with the evidence of the rows |
| | `ScanFilesAreFinal`, `ScanResultsStand` | what is published stays |
| `Rules_proofs` | `RulesAcceptedIsPointInTime` | for every answer: what is stored is supported by pages from before the boundary |
| | `RulesSnapshotIsWhole` | for every market: however its pages shift, no stock twice (where none is tolerated), none lost, the right candidates |
| | `RulesFeaturesNeverMislead` | for every day and instant: nothing ahead is used, a gap misleads no feature |
| | `RulesBarsAreConsistent` | for every cache: one order, one source, the vintage that is published now |
| | `RulesCandidateIsSupported` | for every stock: no gap, the unique low, the longest window, every rebound under the cap, the volume before it, the level |
| `Series_proofs` | lemmas | least and greatest elements, ascending lists, kept elements, concatenation |

The parts of `StoreConsistent` are theorems of their own (`SnapshotManifestNeverDangles`,
`SnapshotSucceededIffManifest`, `SnapshotReplayNeverInconsistent`, `SnapshotNoOrphanAfterFailure`).
Beyond the assumptions of the modules, some theorems have a hypothesis, written in them:
`OneCaller` and `OneWorker` for what the code promises only when callers take turns or one container
polls, bounds of 0 for lost locks or commands where it promises something only without them.

**Schedule.** `ScheduleInv` is `TypeOK` with three parts. `LockHeld`: without lock loss, whoever is at
a locked step holds the lock - `OneOrchestrator` alone is not inductive, because nothing in it says
that the one inside is the one the lock names. `SnapshotChain`: exactly which processes may be between
the claim and the publication (at most one, and only while the run is `"running"`), and what `fetches`
then is - "one fetch" alone does not exclude a second process at `"fetch"`. `RetryOnlyAnalyses`: a
retry past its start has a linked snapshot, which no action takes back. `AgreesInv` adds, while the
lock is honoured, that whoever touches the workflow row has first marked the schedule as executing,
and that one who is about to record a result knows the present lifecycle; with it every step on the
row is a step of `OfficialWorkflow`. `MissedInv` adds that a process about to write `missed` is one
that nobody can overtake: with one worker, only the worker creates workflows. `SmoothInv` says what a
process finds as long as nothing but retries has happened: the window open, the snapshot run not begun,
the calendar agreeing with the schedule, and a running workflow with somebody at work on it. Each of the
ways into a failure needs one of these to be wrong: a tick that goes on before 14:30, a claim that another
left behind, a `resume` of what is not there; so neither row fails, and a late worker can only write
`missed`.

**Engine.** `SnapshotInv` is `TypeOK` with `Claims` (a working caller's row is its own and is running
until it registers it - this is what makes removing a file or failing a run safe), `OneOfficial` (the
partial unique index: it is what lets `CHOOSE` in the refinement mapping name the official run),
`SucceededIffManifest`, `Files` (what is on disk at each place of the call) and `Replays` (a success
that was read stays one). `OrphanInv` counts: the set of running runs nobody works on grows by at most one
run in a step, and then the step spends a crash, a failed write or an unknown outcome
(`WorkLeavesNothing`, `RegistrationEnds`). Two theorems meet here: the engine and the schedule implement the same
promise, so what `TailRadarSchedule` and `TailRadarWorkflow` assume of the engine is what the engine
gives.

**Workflow.** `TurnsInv`, for one caller, says at each place of the call what the row can be (`Placed`),
which futures are still alive (`Futures`), and that a screened workflow has its candidates: this is
what makes the counts at `Complete` final. `OverlapInv`, for any callers again, keeps what survives
without turns: what a caller has claimed is its own until it ends it (`Backed`, `Alone`), its futures
live only inside its own batch (`Pooled`), links point at what succeeded (`ResultHasEvidence`). `LinksInv` adds
`Instanced`, that whoever is at its candidates holds the instant the workflow has fixed, which no step
changes once it is set: so what a thread saves and what it links is of one instant, whoever chose it
(`StoredAgrees`). That every
call ends is proved in two parts that need no fairness: the step at each place has what it asks for
(`CallsCanGoOn`; for a batch by the least candidate that is not done), and a measure over the places of
the call and the states of its futures decreases with each of its steps and with nobody else's
(`StepsRunOut`).

**Research.** `Held` says what a caller knows of its row, `OneOrdinary` that the unique key let one
ordinary attempt in, `BackedInv` that an ended attempt stays ended, `AttendedInv` that without a fault
somebody is responsible for a running stage. `Asked` counts: the attempts and the callers let in and not
yet at their claim are together no more than the requests and commands; `Confirmed` says that while a
forced attempt is under way or recorded, a failed one is there before it.

**Provider.** `GuardInv` ties the probe flag to the thread that holds it and the cooldown to the calls
overtaken by the last failure; `CollectionInv` ties the window of the main thread to the stocks that
are queued or running; `Held` and `Clean` say that free and used workers are disjoint and that a pipe
holds only answers to the request its worker was last given - after a deadline the process is killed,
which empties the pipe.

**Scan.** `OnceInv`: a row's date is claimed. `OwnInv`: a process alone counts in its row what the row
has saved, so that completing makes evidence and result agree even after the lock is lost. `LockInv`:
while sessions last, whoever works holds the lock, its row is running and what it is about to sweep is
dead. `ToldInv`: a completed payload is the same in the row, in every view a publisher read and in
every file, and whatever a view has that is no longer to be written is in the files: the index, written
last, is therefore backed however exporters overlap or die. `StandInv`: while sessions last and commits
are acknowledged, what is about to be failed is running, and what is about to be published is not older
than the index.

`Submitted` adds that what the main thread waits for was handed out and not cancelled. With it
`SomebodyCanGoOn` follows: a busy thread has a guard that holds (one that needs a worker finds one,
because the others hold at most all but one); when all are idle a queued stock can be begun, and when
none is queued either, the oldest one waited for has ended. `CollectionRunsOut` rests on a measure in
three levels, the stocks, the main thread and the calls: a call that fails goes down in the attempts that
are left and, when it changes to the other source, in the sources that are left.

**Rules.** The state only says which rule was applied to which input (`Applied`, inductive at once);
the work is in the operators, and none of it is by induction, which the provers cannot instantiate.
What is said of every position of a list is said of the least position where it fails (`LeastNatural`,
from the well-foundedness of the naturals). That `Ascending` lists a set in order rests on counting:
the number of smaller elements is an injection from the set into as many numbers, hence onto them
(`Ranks`, `AscendingLists`). `KeptElements` gives from this what a comprehension returns, and
`FlattenElements` that concatenated pages are rows of the pages.

* *Research.* An outcome that is no failure passed the checks of content and provenance
  (`OutcomeAccepted`); a claim's page is one that a source was built for, and a page is assessed once,
  so what supports a fact is the assessment the answer gives.
* *Snapshot.* Rows of the delayed pages are as many as the market has and are rows of it
  (`DelayedRows`). Where the gate refuses every repeated symbol (`MaxDuplicates = 0`), the named records are told apart by their
  symbols, and as many different rows of a finite market as it has are all of it (`RecordsWhole`).
* *Features.* What is used after dropping the future is what was used before (`FutureIsIgnored`).
  `PartOf` relates the bars that are used to all bars up to the last of them: fewer, but the same where
  both have one, and equal if nothing is missing. Each group of features then agrees
  (`PriceAgrees`, `VolumeAgrees`, `PathAgrees`): what needs all bars is reported only when they are
  equal, what needs a window only when the window has no gap.
* *Bars.* A resolved series is one of three (`ResolvedSeries`): all that is published, all that is
  cached, or the cached bars with newer ones put over them. For the first two the vintage is that of
  the provider; in the third one equal bar in the overlap excludes that the provider restated the known
  ones. `ProviderKeepsTo` is the hypothesis, written in the property: both calls tell the same, each
  session once, and an adjustment comes with a session that is not cached.
* *Candidates.* The detector's `Max` is attained (`LongestTrend`), and the last bars of consecutive
  ones are the last sessions (`ConsecutiveDates`, `LastOfSet`); the baseline of the volume is made of
  sessions that end where the trend begins (`BaselineBefore`).

Stating `SnapshotIsWhole` for every market showed that it had held on the instance only because no
row without a symbol passed the gate there. "Every listed stock exactly once" is not what the code
gives, and the property now says what it does (section 5).

**Only model-checked.** Liveness under fairness (`Recovers`, `RunsEnd`, `RetriesSucceed`, `RunsSettle`) is
out of the prover's reach; every other property of a passing run is a theorem. What a sum over bars is (`Total`, `SlopeSign`, `Volume`, by a fold) is used
by no proof but for being the same of the same bars; and that every answer, market, day and stock is
judged at all, that a stock is *not* refused without a reason, is left to the runs.

## 5. Where code and documents disagree

Each is a run that TLC must find violated; `PROJECT.json` quotes the lines.

* **A missed capture that is captured after all** (`schedule_missed_fetch`). `tick` writes MISSED
  without the lock when it sees no workflow after the window. A worker that was in time may then be
  between EXECUTING and its claim, and goes on to the live provider. It takes two overlapping workers;
  with the single one that is deployed `MissedMeansNoWorkflow` holds. After the race MISSED is
  terminal: if the orchestrating worker dies, nobody resumes its workflow, which is why
  `RestartResumes` excepts it.
* **An interrupted screening that cannot be resumed** (`workflow_interrupted`). A process that dies
  between claiming and ending the official screening run leaves it running; every resume replays that
  run, finds it unsuccessful and fails the workflow. `LinkedWorkflowSucceeds` therefore speaks of
  workflows whose screening is linked.
* **A paid answer without evidence that is refused** (`evidence`). When no claim is useful the content
  is emptied but the sources keep the names of the claims that cited them, and the artifact's own
  validation refuses it: the attempt fails instead of ending as `no_evidence`.

More consequences are visible in the models:

* A repeated command that reads the run as running and then finds the manifest of its success ends in
  a validation error (`pc[c] = "incoherent"` of `SnapshotExecution`), though docs/adr/0007 says that it
  returns the existing run; the next repeat returns it. The other order, a success without its manifest,
  is excluded (`ReplayNeverInconsistent`).
* A row without a symbol is let pass up to a ratio and is not told apart from another. If the market
  is listed in another order between two pages, such a row may be listed on both and a stock on none:
  the number of rows is that of the market, no symbol repeats, and the snapshot is accepted without the
  stock. `SnapshotIsWhole` therefore promises every stock only when every listed row has a symbol.
* A commit of unknown outcome while the workflow is completed leaves the schedule `failed` over a
  completed workflow (which is why `CompletedIsFinal` excepts unknown outcomes), and
  `scheduled-retry` then repairs it.
* A retry of a partial workflow that fails to reopen it turns the workflow `failed`
  (`OfficialWorkflow!Fail`), though its results are all still there.
* A crash or an unknown commit during a paid call leaves the stage running, and every later request
  is refused (`StuckOnlyByFault` names the exceptions). Two confirmations of one failure each pay;
  docs/adr/0013 asks for the confirmation and not for its uniqueness.
* A date whose scheduled scan died is never scanned again by the scheduler: the claim stays. It is an
  operator's `scan`, which takes no claim, that repeats it.
* A scan whose lock was lost goes on; the next one marks its row failed and it may complete the row
  afterwards. Its files and the index stay consistent.

## 6. What is not modelled, and why

* In `TrendScan`, `Save` is the two calls of `save_run` before the first stock as one: what is between them
  asks providers, and both write a running row that counts nothing. A run that `Sweep` listed is
  marked failed with its row as it is then, where the code writes back the payload it listed; while the
  lock is held they are the same. No property tells the difference.
* The heartbeat file, log records, wording of error codes, hashes and version strings: no property
  tells them apart.
* Workflows continued on a later day: the models are about one date, and the checks on historical
  dates in the engine and in `retry_incomplete` are outside.
* Parsing and HTTP of the intraday provider and the calendar, request routing, settings, response
  schemas, migrations, the frontend: no state of their own; their failures are environment steps.
* The daily reference charts (`TR/application/daily_chart.py`): a cache of supplementary quotes that no
  capture, analysis or research reads.
* In Trend Radar: the ranking by heat (`rank_heat`) and the candidates' order (`candidate_order`), the
  size limit of the bundle, the pace and backoff of requests.
* The diagnostic commands: forced runs are in `SnapshotExecution`; the others write rows no other
  component reads.
* `PROJECT.json` names the components with status `not_modelled` or `partly`, and under "hazards" what
  each property is for.

## 7. What could come next

* A lost session in `TrendScan` with two operators, to bound what a scan that goes on can overwrite.
* `DailyChartService`: its lock makes cache misses serial only while one service exists, and the
  `lru_cache` that builds it (`api/v1/services/tail_radar.py:16`) lets the first requests of two threads
  build one each; docs/adr/0026 asks for serial misses.
* Workflows resumed on a later date: a second date in `TailRadarSchedule`.
