---------------------------- MODULE TrendProvider ----------------------------
(***************************************************************************)
(* The collection of a Trend Radar scan: the main thread hands out stocks   *)
(* (collect_bounded), threads fetch their daily bars, from the primary      *)
(* source or, while that one cools down, from the other (fetch_bars), each  *)
(* request through a worker process that can be killed (ProviderWorker).    *)
(*                                                                         *)
(* The pace of the requests and the backoff are left out: a thread may wait *)
(* before any request.  Time is a small number that `Tick` advances.        *)
(***************************************************************************)
EXTENDS Naturals, Sequences, FiniteSets

CONSTANTS
    Threads,           \* trend_fetch_workers, and as many pool workers
    Stocks,            \* stocks of the scan
    Attempts,          \* trend_provider_attempts
    MaxRequests,       \* requests of one process
    Cooldown,          \* 300 seconds
    MaxTime            \* bound on the clock

ASSUME ProviderAssumption ==
    /\ IsFiniteSet(Threads) /\ Threads # {} /\ "none" \notin Threads
    /\ {Stocks, Attempts, MaxRequests, Cooldown} \subseteq Nat \ {0}
    /\ MaxTime \in Nat

VARIABLES
    now,
    retryAt,   \* _primary_retry_at
    probe,     \* _primary_probe
    free,      \* available: a stack of workers
    worker,    \* the process of each worker, its requests and its pipe
    thread,    \* what each thread is doing
    pending,   \* stocks submitted and not yet yielded, oldest first
    stock,     \* what became of each stock
    main,      \* the main thread
    overtaken  \* history: calls that began before the last failure of the primary

primary == <<retryAt, probe, overtaken>>
pool == <<free, worker>>
collection == <<pending, stock, main>>
vars == <<now, primary, pool, thread, collection>>

-----------------------------------------------------------------------------
Sources == {"bars", "bars-sina"}
Items   == 1..Stocks
Request == [source : Sources, item : Items]
None    == [source |-> "none", item |-> 0]
Kinds   == {"rows", "error", "malformed"}
Worker  == [process : {"none", "alive", "dead"}, served : Nat, request : Request \cup {None},
            pipe : Seq([kind : Kinds, of : Request])]
Thread  == [pc : {"idle", "choose", "take", "wait", "blame", "praise", "release"},
            item : Nat, source : Sources \cup {"none"}, attempt : Nat, seen : Nat,
            probe : BOOLEAN, worker : Threads \cup {"none"}, ok : BOOLEAN]
StockStates == {"new", "queued", "running", "ok", "failed", "cancelled"}

NoProcess == [process |-> "none", served |-> 0, request |-> None, pipe |-> <<>>]

Idle == [pc |-> "idle", item |-> 0, source |-> "none", attempt |-> 0, seen |-> 0,
         probe |-> FALSE, worker |-> "none", ok |-> FALSE]

At(t, l) == thread[t].pc = l

Become(t, r) == thread' = [thread EXCEPT ![t] = r]

-----------------------------------------------------------------------------
(* The main thread.                                                         *)

\* As many stocks are submitted before the first is waited for.
Window == Cardinality(Threads)
First  == IF Window < Stocks THEN Window ELSE Stocks

\* Mutation: the end of the stocks is submitted as well.
SubmitSentinel(queue) ==
    LET new == {i \in Items : stock[i] = "new"}
        i == IF new = {} THEN 0 ELSE CHOOSE j \in new : \A k \in new : j <= k
    IN /\ pending' = Append(queue, i)
       /\ stock' = [s \in Items |-> IF s = i THEN "queued" ELSE stock[s]]

\* submit(): the next stock, if there is one.
Submit(queue) ==
    LET new == {i \in Items : stock[i] = "new"} IN
    IF new = {} THEN pending' = queue /\ UNCHANGED stock
    ELSE LET i == CHOOSE j \in new : \A k \in new : j <= k IN
         /\ pending' = Append(queue, i)
         /\ stock' = [stock EXCEPT ![i] = "queued"]

\* Mutation: the next stocks are submitted before the checkpoint is done.
CollectAhead ==
    /\ main = "collect"
    /\ pending # <<>>
    /\ Submit(pending)
    /\ UNCHANGED <<now, primary, pool, thread, main>>

\* The oldest stock is waited for and checkpointed; then the next is submitted,
\* or the failures reached their limit, or the checkpoint raised, and the rest
\* is cancelled where no thread has begun it.
Collect ==
    /\ main = "collect"
    /\ pending # <<>>
    /\ stock[Head(pending)] \in {"ok", "failed"}
    /\ \/ Submit(Tail(pending)) /\ UNCHANGED main
       \/ /\ main' = "join"
          /\ pending' = <<>>
          /\ stock' = [i \in Items |-> IF stock[i] = "queued" THEN "cancelled" ELSE stock[i]]
    /\ UNCHANGED <<now, primary, pool, thread>>

\* shutdown(wait=True): what is running is waited for.
Joined == \A i \in Items : stock[i] \notin {"queued", "running"}

\* Mutation: the threads are not waited for.
CloseAtOnce ==
    /\ main = "join" \/ (main = "collect" /\ pending = <<>>)
    /\ main' = "closed"
    /\ worker' = [w \in Threads |-> NoProcess]
    /\ UNCHANGED <<now, primary, free, thread, pending, stock>>

\* The end of the collection, and close() of the provider after the scan.
Close ==
    /\ main = "join" \/ (main = "collect" /\ pending = <<>>)
    /\ Joined
    /\ main' = "closed"
    /\ worker' = [w \in Threads |-> NoProcess]
    /\ UNCHANGED <<now, primary, free, thread, pending, stock>>

-----------------------------------------------------------------------------
(* A thread: fetch() of the scan, fetch_bars and _fetch.                    *)

\* The executor takes the oldest submitted stock.  Its cached bars suffice, or
\* bars are asked for (resolve_bars; when it asks a second time, that call is as
\* the call for another stock).
Begin(t) ==
    /\ At(t, "idle")
    /\ \E i \in Items :
          /\ stock[i] = "queued"
          /\ \A j \in 1..(i - 1) : stock[j] # "queued"
          /\ \/ stock' = [stock EXCEPT ![i] = "ok"] /\ UNCHANGED thread
             \/ /\ stock' = [stock EXCEPT ![i] = "running"]
                /\ Become(t, [Idle EXCEPT !.pc = "choose", !.item = i])
    /\ UNCHANGED <<now, primary, pool, pending, main>>

\* The primary source, unless it cools down or is being probed.
Choose(t) ==
    /\ At(t, "choose")
    /\ LET usePrimary == now >= retryAt /\ ~probe
           isProbe    == usePrimary /\ retryAt > 0
       IN /\ Become(t, [thread[t] EXCEPT
                          !.pc = "take",
                          !.source = IF usePrimary THEN "bars" ELSE "bars-sina",
                          !.attempt = 0, !.seen = retryAt, !.probe = isProbe])
          /\ probe' = (probe \/ isProbe)
    /\ overtaken' = overtaken \ {t}
    /\ UNCHANGED <<now, retryAt, pool, collection>>

RequestOf(t) == [source |-> thread[t].source, item |-> thread[t].item]

\* A worker is taken from the pool.  A missing process is started, one that has
\* served its requests is replaced; one that has died is found out by the request.
Send(t) ==
    /\ At(t, "take")
    /\ free # <<>>
    /\ free' = Tail(free)
    /\ LET w == Head(free)
           p == worker[w]
       IN /\ worker' = [worker EXCEPT
                          ![w] = IF p.process = "none" \/ p.served >= MaxRequests
                                 THEN [NoProcess EXCEPT !.process = "alive",
                                                        !.request = RequestOf(t)]
                                 ELSE IF p.process = "alive"
                                 THEN [p EXCEPT !.request = RequestOf(t)] ELSE p]
          /\ Become(t, [thread[t] EXCEPT !.pc = "wait", !.worker = w])
    /\ UNCHANGED <<now, primary, collection>>

\* What follows a request that failed: another attempt, or provider_error, which
\* the primary source is blamed for.
AfterFailure(r) ==
    IF r.attempt + 1 < Attempts
    THEN [r EXCEPT !.pc = "take", !.attempt = @ + 1, !.worker = "none"]
    ELSE [r EXCEPT !.pc = IF r.source = "bars" THEN "blame" ELSE "release", !.worker = "none"]

AfterRows(r) ==
    [r EXCEPT !.pc = IF r.source = "bars" THEN "praise" ELSE "release",
              !.ok = TRUE, !.worker = "none"]

\* A malformed answer is refused at once, without a retry or a fallback.
AfterAnswer(r, kind) ==
    CASE kind = "rows"      -> AfterRows(r)
      [] kind = "error"     -> AfterFailure(r)
      [] kind = "malformed" -> [r EXCEPT !.pc = "release", !.worker = "none"]

Return(w) == free' = <<w>> \o free

Receive(t) ==
    /\ At(t, "wait")
    /\ LET w == thread[t].worker IN
       /\ worker[w].pipe # <<>>
       /\ worker' = [worker EXCEPT ![w].served = @ + 1, ![w].pipe = Tail(@)]
       /\ Return(w)
       /\ Become(t, AfterAnswer(thread[t], Head(worker[w].pipe).kind))
    /\ UNCHANGED <<now, primary, collection>>

\* Mutation: a worker is given back only when its request succeeded.
GiveUpLosing(t) ==
    /\ At(t, "wait")
    /\ LET w == thread[t].worker IN
       /\ worker[w].pipe = <<>>
       /\ worker' = [worker EXCEPT ![w] = NoProcess]
       /\ Become(t, AfterFailure(thread[t]))
    /\ UNCHANGED <<now, primary, free, collection>>

\* Mutation: a request that timed out leaves its process alone.
GiveUpKeeping(t) ==
    /\ At(t, "wait")
    /\ LET w == thread[t].worker IN
       /\ worker[w].pipe = <<>>
       /\ Return(w)
       /\ Become(t, AfterFailure(thread[t]))
    /\ UNCHANGED <<now, primary, worker, collection>>

\* The deadline passes, or the process has died or could not be started: it is
\* killed and its pipe closed, and a late answer dies with them.
GiveUp(t) ==
    /\ At(t, "wait")
    /\ LET w == thread[t].worker IN
       /\ worker[w].pipe = <<>>
       /\ worker' = [worker EXCEPT ![w] = NoProcess]
       /\ Return(w)
       /\ Become(t, AfterFailure(thread[t]))
    /\ UNCHANGED <<now, primary, collection>>

\* Mutation: it is asked again after its failure, attempts and all.
BlameAndRepeat(t) ==
    /\ At(t, "blame")
    /\ retryAt' = now + Cooldown
    /\ overtaken' = {u \in Threads : thread[u].source = "bars"} \ {t}
    /\ Become(t, [thread[t] EXCEPT !.pc = "take", !.attempt = 0])
    /\ UNCHANGED <<now, probe, pool, collection>>

\* The primary source failed: it is left alone for a while, and the other asked.
Blame(t) ==
    /\ At(t, "blame")
    /\ retryAt' = now + Cooldown
    /\ overtaken' = {u \in Threads : thread[u].source = "bars"} \ {t}
    /\ Become(t, [thread[t] EXCEPT !.pc = "take", !.source = "bars-sina", !.attempt = 0])
    /\ UNCHANGED <<now, probe, pool, collection>>

\* Mutation: any success of the primary source clears its cooldown.
PraiseAlways(t) ==
    /\ At(t, "praise")
    /\ retryAt' = 0
    /\ Become(t, [thread[t] EXCEPT !.pc = "release"])
    /\ UNCHANGED <<now, probe, overtaken, pool, collection>>

\* It answered: its cooldown is over, unless it failed again meanwhile.
Praise(t) ==
    /\ At(t, "praise")
    /\ retryAt' = IF retryAt = thread[t].seen THEN 0 ELSE retryAt
    /\ Become(t, [thread[t] EXCEPT !.pc = "release"])
    /\ UNCHANGED <<now, probe, overtaken, pool, collection>>

\* What was received may still be refused, as no valid bars or by resolve_bars.
Settled(t) ==
    \E outcome \in {"failed"} \cup (IF thread[t].ok THEN {"ok"} ELSE {}) :
        stock' = [stock EXCEPT ![thread[t].item] = outcome]

\* Mutation: only a probe that succeeded is ended.
ReleaseSucceeded(t) ==
    /\ At(t, "release")
    /\ probe' = (probe /\ ~(thread[t].probe /\ thread[t].ok))
    /\ overtaken' = overtaken \ {t}
    /\ Settled(t)
    /\ Become(t, Idle)
    /\ UNCHANGED <<now, retryAt, pool, pending, main>>

\* The probe ends, however it went.
Release(t) ==
    /\ At(t, "release")
    /\ probe' = (probe /\ ~thread[t].probe)
    /\ overtaken' = overtaken \ {t}
    /\ Settled(t)
    /\ Become(t, Idle)
    /\ UNCHANGED <<now, retryAt, pool, pending, main>>

-----------------------------------------------------------------------------
(* The processes and the clock.                                             *)

\* serve(): one answer to one request.
Answer(w) ==
    /\ worker[w].process = "alive"
    /\ worker[w].request # None
    /\ \E kind \in Kinds :
          worker' = [worker EXCEPT
                       ![w].pipe = Append(@, [kind |-> kind, of |-> worker[w].request]),
                       ![w].request = None]
    /\ UNCHANGED <<now, primary, free, thread, collection>>

Die(w) ==
    /\ worker[w].process = "alive"
    /\ worker' = [worker EXCEPT ![w].process = "dead", ![w].request = None]
    /\ UNCHANGED <<now, primary, free, thread, collection>>

\* The provider is closed.
Done == main = "closed" /\ UNCHANGED vars

Tick ==
    /\ now < MaxTime
    /\ now' = now + 1
    /\ UNCHANGED <<primary, pool, thread, collection>>

-----------------------------------------------------------------------------
Init ==
    /\ now = 1
    /\ retryAt = 0 /\ probe = FALSE /\ overtaken = {}
    /\ free \in {s \in [1..Cardinality(Threads) -> Threads] :
                    \A i, j \in DOMAIN s : s[i] = s[j] => i = j}
    /\ worker = [w \in Threads |-> NoProcess]
    /\ thread = [t \in Threads |-> Idle]
    /\ pending = [i \in 1..First |-> i]
    /\ stock = [i \in Items |-> IF i <= First THEN "queued" ELSE "new"]
    /\ main = "collect"

Step(t) ==
    \/ Begin(t) \/ Choose(t) \/ Send(t) \/ Receive(t)
    \/ Blame(t) \/ Praise(t) \/ Release(t)

Next ==
    \/ Collect \/ Close \/ Tick
    \/ \E t \in Threads : Step(t) \/ GiveUp(t)
    \/ \E w \in Threads : Answer(w) \/ Die(w)
    \/ Done

Spec == Init /\ [][Next]_vars

-----------------------------------------------------------------------------
(* Properties.                                                              *)

\* Every variable keeps its type.
TypeOK ==
    /\ {now, retryAt} \subseteq Nat
    /\ probe \in BOOLEAN
    /\ overtaken \subseteq Threads
    /\ free \in Seq(Threads)
    /\ worker \in [Threads -> Worker]
    /\ thread \in [Threads -> Thread]
    /\ pending \in Seq(Items)
    /\ stock \in [Items -> StockStates]
    /\ main \in {"collect", "join", "closed"}

\* The answer a thread waits for, and any other that could be taken for it, is the
\* answer to its own request: one that comes after the deadline of an earlier
\* request is never in the pipe.
AnswerIsMine ==
    \A t \in Threads : At(t, "wait") =>
        LET w == worker[thread[t].worker] IN
        /\ w.request \in {None, RequestOf(t)}
        /\ \A i \in DOMAIN w.pipe : w.pipe[i].of = RequestOf(t)

\* No two threads use a worker at a time, and a thread that needs one finds it
\* free (an empty queue would raise past the handlers and fail the scan).
WorkerForEach ==
    /\ \A t \in Threads : At(t, "take") => free # <<>>
    /\ \A t, u \in Threads :
          t # u /\ thread[t].worker # "none" => thread[t].worker # thread[u].worker

\* The primary is probed by one thread at most, and never held to be probed when
\* no thread does: that would keep every later call from it.
ProbeIsHeld ==
    /\ probe => \E t \in Threads : thread[t].probe
    /\ \A t, u \in Threads : thread[t].probe /\ thread[u].probe => t = u

\* A cooldown is ended only by a call that began after the failure it follows.
CooldownKept ==
    [][\A t \in Threads : t \in overtaken /\ At(t, "praise") /\ ~At(t, "praise")'
          => retryAt' = retryAt]_vars

\* What guards the primary source, however its callers overtake each other.
PrimaryGuarded == []ProbeIsHeld /\ CooldownKept

\* The stocks ahead of the checkpoint are as many as the threads; once the scan is
\* over no thread is at work, no process lives, and no stock is begun later.
CollectionIsBounded ==
    /\ Cardinality({i \in Items : stock[i] \in {"queued", "running"}}) <= Window
    /\ Len(pending) <= Window
    /\ main = "closed" =>
          /\ \A t \in Threads : At(t, "idle")
          /\ \A w \in Threads : worker[w] = NoProcess

\* Until the scan is over the main thread or a thread can go on, whatever the
\* processes do: what one of their steps asks for is there.  A thread that waits may
\* receive if the pipe holds an answer and give up if it holds none.
SomebodyCanGoOn ==
    main # "closed" =>
        \/ main = "collect" /\ pending # <<>> /\ stock[Head(pending)] \in {"ok", "failed"}
        \/ (main = "join" \/ (main = "collect" /\ pending = <<>>)) /\ Joined
        \/ \E t \in Threads :
              \/ /\ At(t, "idle")
                 /\ \E i \in Items :
                       stock[i] = "queued" /\ \A j \in 1..(i - 1) : stock[j] # "queued"
              \/ thread[t].pc \in {"choose", "blame", "praise", "release"}
              \/ At(t, "take") /\ free # <<>>
              \/ At(t, "wait") /\ thread[t].worker \in Threads

\* What the pool owes its threads: a worker each, its own answer, and a next step.
PoolServes == AnswerIsMine /\ WorkerForEach /\ SomebodyCanGoOn

\* How far a call is from its end, when every attempt at both sources fails.
CallLeft(r) ==
    LET source == 2 * Attempts + 2
        tries  == 2 * (Attempts - r.attempt) + (IF r.source = "bars" THEN source ELSE 0)
    IN CASE r.pc = "idle"    -> 0
         [] r.pc = "release" -> 1
         [] r.pc = "praise"  -> 2
         [] r.pc = "wait"    -> tries + 1
         [] r.pc = "take"    -> tries + 2
         [] r.pc = "blame"   -> source + 1
         [] r.pc = "choose"  -> 2 * source + 1

StockLeft == [new |-> 3, queued |-> 2, running |-> 1, ok |-> 0, failed |-> 0, cancelled |-> 0]
MainLeft  == [collect |-> 2, join |-> 1, closed |-> 0]

\* The collection comes nearer to its end: a stock moves on and none moves back, or else
\* the main thread moves on, or takes one from the queue, or else a call moves on.
Nearer ==
    \/ /\ \A i \in Items : StockLeft[stock'[i]] <= StockLeft[stock[i]]
       /\ \E i \in Items : StockLeft[stock'[i]] < StockLeft[stock[i]]
    \/ stock' = stock /\ MainLeft[main'] < MainLeft[main]
    \/ UNCHANGED <<stock, main>> /\ Len(pending') < Len(pending)
    \/ /\ UNCHANGED collection
       /\ \E t \in Threads : /\ CallLeft(thread'[t]) < CallLeft(thread[t])
                             /\ \A u \in Threads \ {t} : thread'[u] = thread[u]

\* Every step of the main thread or of a thread brings the collection nearer to its
\* end: no retry and no change of the source is repeated for ever.  The processes and
\* the clock take nothing back.  With SomebodyCanGoOn, a scheduled collection ends.
CollectionRunsOut ==
    [][/\ (Collect \/ Close \/ \E t \in Threads : Step(t) \/ GiveUp(t)) => Nearer
       /\ Nearer \/ UNCHANGED <<thread, collection>>]_vars

=============================================================================
