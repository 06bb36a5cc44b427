------------------------- MODULE TrendProvider_proofs -------------------------
(***************************************************************************)
(* Proofs for TrendProvider, for any number of threads, stocks, attempts and *)
(* requests, any cooldown and any time.                                      *)
(***************************************************************************)
EXTENDS TrendProvider, SequenceTheorems, FiniteSetTheorems, WellFoundedInduction, TLAPS

-----------------------------------------------------------------------------
(* Types.                                                                   *)

\* The window and the first batch are positive numbers within the stocks.
LEMMA Sizes ==
    /\ Window \in Nat \ {0} /\ First \in Nat \ {0} /\ First <= Window /\ First <= Stocks
    /\ Stocks \in Nat /\ Attempts \in Nat /\ MaxRequests \in Nat /\ Cooldown \in Nat \ {0}
    /\ MaxTime \in Nat
<1>1. Window \in Nat /\ Window # 0
  BY ProviderAssumption, FS_CardinalityType, FS_EmptySet DEF Window
<1>2. QED
  BY <1>1, ProviderAssumption DEF First

\* What a thread holds, by what it is doing.
Shaped(r) ==
    /\ r.pc = "idle" => r = Idle
    /\ r.pc # "idle" => r.item \in Items
    /\ r.pc \notin {"idle", "choose"} => r.source \in Sources
    /\ r.pc \in {"blame", "praise"} => r.source = "bars"
    /\ r.pc = "wait" <=> r.worker # "none"
    /\ r.pc \in {"idle", "choose"} => ~r.probe /\ r.source = "none" /\ r.seen = 0

Shape == \A t \in Threads : Shaped(thread[t])

Typed == TypeOK /\ Shape

\* A thread at rest and a worker without a process are well typed.
LEMMA IdleType == Idle \in Thread /\ NoProcess \in Worker
<1>1. Idle \in Thread
  BY DEF Idle, Thread
<1>2. <<>> \in Seq([kind : Kinds, of : Request])
  OBVIOUS
<1>3. NoProcess \in Worker
  BY <1>2 DEF NoProcess, Worker
<1>4. QED
  BY <1>1, <1>3

\* A thread moves to a state of its type.
LEMMA BecomeType ==
    ASSUME Typed, NEW t \in Threads, NEW r \in Thread, Shaped(r), Become(t, r)
    PROVE  /\ thread' \in [Threads -> Thread] /\ Shape' /\ thread'[t] = r
           /\ \A u \in Threads : u # t => thread'[u] = thread[u]
BY DEF Typed, TypeOK, Become, Shape

\* What a thread does after an answer or a failure is well typed.
LEMMA AnswerType ==
    ASSUME NEW r \in Thread, NEW kind \in Kinds
    PROVE  AfterAnswer(r, kind) \in Thread /\ AfterFailure(r) \in Thread
<1>1. AfterFailure(r) \in Thread
  <2>1. CASE r.attempt + 1 < Attempts
    <3>0. r.attempt + 1 \in Nat
      BY DEF Thread
    <3>1. [r EXCEPT !.pc = "take", !.attempt = r.attempt + 1, !.worker = "none"] \in Thread
      BY <3>0 DEF Thread
    <3>2. QED
      BY <2>1, <3>1 DEF AfterFailure
  <2>2. CASE ~(r.attempt + 1 < Attempts)
    <3>1. [r EXCEPT !.pc = "blame", !.worker = "none"] \in Thread
      BY DEF Thread
    <3>2. [r EXCEPT !.pc = "release", !.worker = "none"] \in Thread
      BY DEF Thread
    <3>3. QED
      BY <2>2, <3>1, <3>2 DEF AfterFailure
  <2>3. QED
    BY <2>1, <2>2
<1>2. AfterRows(r) \in Thread /\ [r EXCEPT !.pc = "release", !.worker = "none"] \in Thread
  BY DEF Thread, AfterRows
<1>3. QED
  BY <1>1, <1>2 DEF AfterAnswer, Kinds

\* A set of stocks that is not empty has a first one.
LEMMA FirstStock ==
    ASSUME NEW S \in SUBSET Items, S # {}
    PROVE  \E j \in S : \A k \in S : j <= k
<1>1. S \subseteq Nat
  BY Sizes DEF Items
<1> DEFINE less == {ss \in Nat \X Nat : ss[1] < ss[2]}
<1>2. IsWellFoundedOn(less, Nat)
  BY NatLessThanWellFounded, Zenon DEF OpToRel
<1> HIDE DEF less
<1>3. PICK j \in S : \A k \in S : ~(<<k, j>> \in less)
  BY <1>1, <1>2, WFMin
<1>4. \A k \in S : k < j => <<k, j>> \in less
  BY <1>1 DEF less
<1>5. ASSUME NEW k \in S PROVE j <= k
  <2>1. j \in Nat /\ k \in Nat
    BY <1>1
  <2>2. ~(k < j)
    BY <1>3, <1>4
  <2>3. QED
    BY <2>1, <2>2
<1>6. QED
  BY <1>5

\* Handing out the next stock keeps the window and the stocks well typed.
LEMMA SubmitType ==
    ASSUME NEW q \in Seq(Items), stock \in [Items -> StockStates], Submit(q)
    PROVE  pending' \in Seq(Items) /\ stock' \in [Items -> StockStates]
<1> DEFINE new == {i \in Items : stock[i] = "new"}
<1>1. CASE new = {}
  BY <1>1 DEF Submit
<1>2. CASE new # {}
  <2> DEFINE i == CHOOSE j \in new : \A k \in new : j <= k
  <2>1. \E j \in new : \A k \in new : j <= k
    BY <1>2, FirstStock
  <2>2. i \in Items
    BY <2>1
  <2>3. pending' = Append(q, i) /\ stock' = [stock EXCEPT ![i] = "queued"]
    BY <1>2 DEF Submit
  <2>4. QED
    BY <2>2, <2>3 DEF StockStates
<1>3. QED
  BY <1>1, <1>2

\* The initial states are well typed.
LEMMA TypeInit == Init => Typed
<1> SUFFICES ASSUME Init PROVE Typed
  OBVIOUS
<1>1. free \in Seq(Threads)
  BY Sizes, SeqDef DEF Init, Window
<1>2. pending \in Seq(Items)
  <2>1. pending \in [1..First -> Items]
    BY Sizes DEF Init, Items
  <2>2. QED
    BY <2>1, Sizes, SeqDef
<1>3. stock \in [Items -> StockStates]
  BY DEF Init, StockStates
<1>4. /\ {now, retryAt} \subseteq Nat /\ probe \in BOOLEAN /\ overtaken \subseteq Threads
      /\ main \in {"collect", "join", "closed"}
  BY 1 \in Nat, 0 \in Nat DEF Init
<1>5. worker \in [Threads -> Worker] /\ thread \in [Threads -> Thread]
  BY IdleType DEF Init
<1>6. Shape
  BY DEF Init, Shape, Shaped, Idle
<1>7. QED
  BY <1>1, <1>2, <1>3, <1>4, <1>5, <1>6 DEF Typed, TypeOK

\* The worker w moves to a state of its type.
LEMMA WorkerType ==
    ASSUME TypeOK, NEW w \in Threads, NEW q \in Worker, worker' = [worker EXCEPT ![w] = q]
    PROVE  worker' \in [Threads -> Worker]
BY DEF TypeOK

Answers == [kind : Kinds, of : Request]

\* A pipe is a sequence of answers.
LEMMA PipeType ==
    ASSUME TypeOK, NEW w \in Threads PROVE worker[w].pipe \in Seq(Answers)
BY DEF TypeOK, Worker, Answers

\* A step of a thread keeps the types.
LEMMA TypeThread ==
    ASSUME Typed, NEW t \in Threads, Step(t) \/ GiveUp(t) PROVE Typed'
<1> USE DEF primary, pool, collection
<1>0. TypeOK /\ Shape /\ thread[t] \in Thread /\ Shaped(thread[t])
      /\ \A w \in Threads : worker[w] \in Worker
  BY DEF Typed, TypeOK, Shape
<1>1. CASE Begin(t)
  <2>1. PICK i \in Items :
           \/ stock' = [stock EXCEPT ![i] = "ok"] /\ UNCHANGED thread
           \/ /\ stock' = [stock EXCEPT ![i] = "running"]
              /\ Become(t, [Idle EXCEPT !.pc = "choose", !.item = i])
    BY <1>1 DEF Begin
  <2>2. stock' \in [Items -> StockStates]
    BY <1>0, <2>1 DEF TypeOK, StockStates
  <2>3. [Idle EXCEPT !.pc = "choose", !.item = i] \in Thread
    <3>1. i \in Nat
      BY Sizes DEF Items
    <3>2. QED
      BY <3>1, IdleType DEF Thread
  <2>4. Shaped([Idle EXCEPT !.pc = "choose", !.item = i])
    BY DEF Idle, Shaped
  <2>5. thread' \in [Threads -> Thread] /\ Shape'
    BY <1>0, <2>1, <2>3, <2>4, BecomeType DEF TypeOK, Shape
  <2>6. QED
    BY <1>0, <1>1, <2>2, <2>5 DEF Begin, Typed, TypeOK
<1>2. CASE Choose(t)
  <2>1. PICK s \in Sources, p \in BOOLEAN :
           /\ Become(t, [thread[t] EXCEPT !.pc = "take", !.source = s,
                                          !.attempt = 0, !.seen = retryAt, !.probe = p])
           /\ probe' = (probe \/ p)
    BY <1>2 DEF Choose, Sources
  <2> DEFINE r == [thread[t] EXCEPT !.pc = "take", !.source = s, !.attempt = 0,
                                    !.seen = retryAt, !.probe = p]
  <2>2. r \in Thread
    BY <1>0 DEF Thread, TypeOK
  <2>3. Shaped(r)
    BY <1>0, <1>2 DEF Shaped, Thread, Choose, At
  <2>4. thread' \in [Threads -> Thread] /\ Shape'
    BY <2>1, <2>2, <2>3, BecomeType
  <2>5. probe' \in BOOLEAN
    BY <2>1
  <2>6. QED
    BY <1>0, <1>2, <2>4, <2>5 DEF Choose, Typed, TypeOK
<1>3. CASE Send(t)
  <2> DEFINE w == Head(free)
             r == [thread[t] EXCEPT !.pc = "wait", !.worker = w]
  <2>1. w \in Threads /\ Tail(free) \in Seq(Threads)
    BY <1>0, <1>3 DEF Send, TypeOK
  <2>2. r \in Thread /\ Shaped(r)
    BY <1>0, <1>3, <2>1, ProviderAssumption DEF Thread, Shaped, Send, At
  <2>3. thread' \in [Threads -> Thread] /\ Shape'
    BY <1>3, <2>2, BecomeType DEF Send
  <2>4. RequestOf(t) \in Request
    BY <1>0, <1>3 DEF Send, At, Shaped, RequestOf, Request
  <2>5. /\ [NoProcess EXCEPT !.process = "alive", !.request = RequestOf(t)] \in Worker
        /\ [worker[w] EXCEPT !.request = RequestOf(t)] \in Worker
    BY <1>0, <2>1, <2>4, IdleType DEF Worker
  <2>6. PICK q \in Worker : worker' = [worker EXCEPT ![w] = q]
    BY <1>0, <1>3, <2>1, <2>5 DEF Send
  <2>7. QED
    BY <1>0, <1>3, <2>1, <2>3, <2>6, WorkerType DEF Send, Typed, TypeOK
<1>4. CASE Receive(t) \/ GiveUp(t)
  <2> DEFINE w == thread[t].worker
  <2>1. w \in Threads
    BY <1>0, <1>4 DEF Receive, GiveUp, At, Shaped, Thread
  <2>2. free' \in Seq(Threads)
    <3>1. free' = <<w>> \o free
      BY <1>4 DEF Receive, GiveUp, Return
    <3>2. <<w>> \in Seq(Threads) /\ free \in Seq(Threads)
      BY <1>0, <2>1 DEF TypeOK
    <3>3. QED
      BY <3>1, <3>2, ConcatProperties
  <2>3. worker' \in [Threads -> Worker]
    <3>1. CASE GiveUp(t)
      BY <1>0, <2>1, <3>1, IdleType DEF GiveUp, TypeOK
    <3>2. CASE Receive(t)
      <4>1. worker[w].served + 1 \in Nat
        BY <1>0, <2>1 DEF Worker
      <4>2. Tail(worker[w].pipe) \in Seq(Answers)
        BY <1>0, <2>1, <3>2, PipeType, HeadTailProperties DEF Receive
      <4>3. [worker[w] EXCEPT !.served = worker[w].served + 1, !.pipe = Tail(worker[w].pipe)]
              \in Worker
        BY ZenonT(60), <1>0, <2>1, <4>1, <4>2 DEF Worker, Answers
      <4>4. worker' = [worker EXCEPT ![w] = [worker[w] EXCEPT !.served = worker[w].served + 1,
                                                              !.pipe = Tail(worker[w].pipe)]]
        BY <1>0, <2>1, <3>2 DEF Receive, TypeOK, Worker
      <4>5. QED
        BY <1>0, <2>1, <4>3, <4>4, WorkerType
    <3>3. QED
      BY <1>4, <3>1, <3>2
  <2>4. PICK r \in Thread : Shaped(r) /\ Become(t, r)
    <3>1. Shaped(AfterFailure(thread[t]))
      BY <1>0, <1>4 DEF Receive, GiveUp, At, Shaped, AfterFailure, Thread
    <3>2. \A kind \in Kinds : Shaped(AfterAnswer(thread[t], kind))
      <4>0. /\ thread[t] \in Thread /\ thread[t].item \in Items /\ thread[t].source \in Sources
            /\ ~(thread[t].pc \in {"idle", "choose"})
        BY <1>0, <1>4 DEF Receive, GiveUp, At, Shaped
      <4>1. Shaped(AfterRows(thread[t]))
        BY <4>0 DEF Shaped, AfterRows, Thread
      <4>2. Shaped([thread[t] EXCEPT !.pc = "release", !.worker = "none"])
        BY <4>0 DEF Shaped, Thread
      <4>3. QED
        BY <3>1, <4>1, <4>2, Zenon DEF AfterAnswer, Kinds
    <3>3. CASE GiveUp(t)
      BY <1>0, <3>1, <3>3, AnswerType DEF GiveUp, Kinds
    <3>4. CASE Receive(t)
      <4>0. Head(worker[w].pipe) \in Answers
        BY <1>0, <2>1, <3>4, PipeType, HeadTailProperties DEF Receive
      <4>1. Head(worker[w].pipe).kind \in Kinds
        BY <4>0 DEF Answers
      <4>2. QED
        BY <1>0, <3>2, <3>4, <4>1, AnswerType DEF Receive
    <3>5. QED
      BY <1>4, <3>3, <3>4
  <2>5. thread' \in [Threads -> Thread] /\ Shape'
    BY <2>4, BecomeType
  <2>6. QED
    BY <1>0, <1>4, <2>2, <2>3, <2>5 DEF Receive, GiveUp, Typed, TypeOK
<1>5. CASE Blame(t) \/ Praise(t)
  <2>1. PICK r : /\ Become(t, r)
                 /\ \/ r = [thread[t] EXCEPT !.pc = "take", !.source = "bars-sina", !.attempt = 0]
                    \/ r = [thread[t] EXCEPT !.pc = "release"]
    BY <1>5 DEF Blame, Praise
  <2>2. r \in Thread /\ Shaped(r)
    <3>1. /\ thread[t].pc \in {"blame", "praise"} /\ thread[t].item \in Items
          /\ thread[t].source \in Sources /\ thread[t].worker = "none"
      BY <1>0, <1>5 DEF Blame, Praise, At, Shaped
    <3>2. CASE r = [thread[t] EXCEPT !.pc = "take", !.source = "bars-sina", !.attempt = 0]
      BY <1>0, <3>1, <3>2 DEF Thread, Shaped, Sources
    <3>3. CASE r = [thread[t] EXCEPT !.pc = "release"]
      BY <1>0, <3>1, <3>3 DEF Thread, Shaped
    <3>4. QED
      BY <2>1, <3>2, <3>3
  <2>3. retryAt' \in Nat
    BY <1>0, <1>5, Sizes DEF Blame, Praise, TypeOK
  <2>4. overtaken' \subseteq Threads
    BY <1>0, <1>5 DEF Blame, Praise, TypeOK
  <2>5. thread' \in [Threads -> Thread] /\ Shape'
    BY <2>1, <2>2, BecomeType
  <2>6. QED
    BY <1>0, <1>5, <2>3, <2>4, <2>5 DEF Blame, Praise, Typed, TypeOK
<1>6. CASE Release(t)
  <2>1. thread' \in [Threads -> Thread] /\ Shape'
    BY <1>6, IdleType, BecomeType DEF Release, Shaped, Idle
  <2>2. stock' \in [Items -> StockStates]
    BY <1>0, <1>6 DEF Release, Settled, TypeOK, StockStates
  <2>3. probe' \in BOOLEAN
    BY <1>6 DEF Release
  <2>4. QED
    BY <1>0, <1>6, <2>1, <2>2, <2>3 DEF Release, Typed, TypeOK
<1>7. QED
  BY <1>1, <1>2, <1>3, <1>4, <1>5, <1>6 DEF Step

\* Every step keeps the types.
LEMMA TypeStep == ASSUME Typed, [Next]_vars PROVE Typed'
<1> USE DEF primary, pool, collection
<1>0. TypeOK /\ Shape /\ \A w \in Threads : worker[w] \in Worker
  BY DEF Typed, TypeOK
<1>1. CASE UNCHANGED vars
  BY <1>1 DEF Typed, TypeOK, Shape, vars
<1>2. CASE Collect
  <2>1. Tail(pending) \in Seq(Items)
    BY <1>0, <1>2 DEF Collect, TypeOK
  <2>2. pending' \in Seq(Items) /\ stock' \in [Items -> StockStates]
    <3>1. CASE Submit(Tail(pending))
      BY <1>0, <2>1, <3>1, SubmitType DEF TypeOK
    <3>2. CASE /\ pending' = <<>>
               /\ stock' = [i \in Items |-> IF stock[i] = "queued" THEN "cancelled" ELSE stock[i]]
      BY <1>0, <3>2 DEF TypeOK, StockStates
    <3>3. QED
      BY <1>2, <3>1, <3>2 DEF Collect
  <2>3. QED
    BY <1>0, <1>2, <2>2 DEF Collect, Typed, TypeOK, Shape
<1>3. CASE Close \/ Tick \/ Done
  BY <1>0, <1>3, IdleType DEF Close, Tick, Done, Typed, TypeOK, Shape, vars
<1>4. ASSUME NEW w \in Threads, Answer(w) \/ Die(w) PROVE Typed'
  <2>1. CASE Die(w)
    <3>1. [worker[w] EXCEPT !.process = "dead", !.request = None] \in Worker
      BY <1>0 DEF Worker
    <3>2. worker' = [worker EXCEPT ![w] = [worker[w] EXCEPT !.process = "dead", !.request = None]]
      BY <1>0, <2>1 DEF Die, TypeOK, Worker
    <3>3. QED
      BY <1>0, <2>1, <3>1, <3>2, WorkerType DEF Die, Typed, TypeOK, Shape
  <2>2. CASE Answer(w)
    <3>1. PICK kind \in Kinds :
            worker' = [worker EXCEPT
                       ![w].pipe = Append(@, [kind |-> kind, of |-> worker[w].request]),
                       ![w].request = None]
      BY <2>2 DEF Answer
    <3> DEFINE q == Append(worker[w].pipe, [kind |-> kind, of |-> worker[w].request])
    <3>2. q \in Seq(Answers)
      <4>1. worker[w].request \in Request
        BY <1>0, <2>2 DEF Answer, Worker
      <4>2. [kind |-> kind, of |-> worker[w].request] \in Answers
        BY <4>1 DEF Answers
      <4>3. QED
        BY <1>0, <4>2, PipeType, AppendProperties
    <3>3. [worker[w] EXCEPT !.pipe = q, !.request = None] \in Worker
      BY <1>0, <3>2 DEF Worker, Answers
    <3>4. worker' = [worker EXCEPT ![w] = [worker[w] EXCEPT !.pipe = q, !.request = None]]
      BY <1>0, <3>1 DEF TypeOK, Worker
    <3>5. QED
      BY <1>0, <2>2, <3>3, <3>4, WorkerType DEF Answer, Typed, TypeOK, Shape
  <2>3. QED
    BY <1>4, <2>1, <2>2
<1>5. QED
  BY <1>1, <1>2, <1>3, <1>4, TypeThread DEF Next

\* The clock, the guard of the primary source, the workers and their pipes, the
\* threads and the stocks keep their types.
THEOREM ProviderTypeCorrect == Spec => []TypeOK
<1>1. Typed /\ [Next]_vars => Typed'
  BY TypeStep
<1>2. Typed => TypeOK
  BY DEF Typed
<1>3. QED
  BY <1>1, <1>2, TypeInit, PTL DEF Spec

-----------------------------------------------------------------------------
(* The guard of the primary source.  A call to it saw a retry time that had      *)
(* passed; an overtaken one saw an earlier time than the one that now stands.    *)

GuardInv ==
    /\ probe <=> \E t \in Threads : thread[t].probe
    /\ \A t, u \in Threads : thread[t].probe /\ thread[u].probe => t = u
    /\ \A t \in Threads : thread[t].source = "bars" => thread[t].seen <= now
    /\ \A t \in overtaken :
          thread[t].source = "bars" /\ (retryAt = 0 \/ thread[t].seen < retryAt)

\* A cooldown is left alone by a call that the failure overtook.
CooldownStep ==
    \A t \in Threads : t \in overtaken /\ At(t, "praise") /\ ~At(t, "praise")' => retryAt' = retryAt

\* A step that leaves the guard and what the calls saw alone.
LEMMA GuardRests ==
    ASSUME Typed, GuardInv, UNCHANGED primary, now' \in Nat, now <= now',
           \A t \in Threads : /\ thread'[t].probe = thread[t].probe
                              /\ thread'[t].source = thread[t].source
                              /\ thread'[t].seen = thread[t].seen
    PROVE  GuardInv' /\ CooldownStep
<1>1. CooldownStep
  BY DEF CooldownStep, primary
<1>2. \A t \in Threads : thread[t].seen \in Nat
  BY DEF Typed, TypeOK, Thread
<1>3. /\ probe' <=> \E t \in Threads : thread'[t].probe
      /\ \A t, u \in Threads : thread'[t].probe /\ thread'[u].probe => t = u
  BY DEF GuardInv, primary
<1>4. \A t \in Threads : thread'[t].source = "bars" => thread'[t].seen <= now'
  BY <1>2 DEF GuardInv, Typed, TypeOK
<1>5. \A t \in overtaken' :
          thread'[t].source = "bars" /\ (retryAt' = 0 \/ thread'[t].seen < retryAt')
  BY DEF GuardInv, primary, Typed, TypeOK
<1>6. QED
  BY <1>1, <1>3, <1>4, <1>5 DEF GuardInv

\* What a request returned leaves the call's guard alone.
LEMMA AnswerKeeps ==
    ASSUME NEW r \in Thread, NEW kind \in Kinds
    PROVE  /\ AfterAnswer(r, kind) \in Thread
           /\ AfterAnswer(r, kind).probe = r.probe
           /\ AfterAnswer(r, kind).source = r.source
           /\ AfterAnswer(r, kind).seen = r.seen
           /\ AfterAnswer(r, kind).item = r.item
           /\ AfterAnswer(r, kind).worker = "none"
           /\ AfterAnswer(r, kind).pc \in {"take", "blame", "praise", "release"}
<1>1. \A x \in {AfterFailure(r), AfterRows(r), [r EXCEPT !.pc = "release", !.worker = "none"]} :
          /\ x.probe = r.probe /\ x.source = r.source /\ x.seen = r.seen /\ x.item = r.item
          /\ x.worker = "none" /\ x.pc \in {"take", "blame", "praise", "release"}
  BY DEF AfterFailure, AfterRows, Thread
<1>2. AfterAnswer(r, kind)
          \in {AfterFailure(r), AfterRows(r), [r EXCEPT !.pc = "release", !.worker = "none"]}
  BY DEF AfterAnswer, Kinds
<1>3. QED
  BY <1>1, <1>2, AnswerType

\* An answer, or none before the deadline, ends the request of t.
LEMMA RequestEnds ==
    ASSUME Typed, NEW t \in Threads, Receive(t) \/ GiveUp(t)
    PROVE  \E kind \in Kinds : Become(t, AfterAnswer(thread[t], kind))
<1>0. thread[t] \in Thread /\ thread[t].pc = "wait" /\ Shaped(thread[t]) /\ TypeOK
  BY DEF Receive, GiveUp, At, Typed, TypeOK, Shape
<1>1. CASE GiveUp(t)
  BY <1>1 DEF GiveUp, AfterAnswer, Kinds
<1>2. CASE Receive(t)
  <2>1. thread[t].worker \in Threads
    BY <1>0 DEF Shaped, Thread
  <2>2. Head(worker[thread[t].worker].pipe) \in Answers
    BY <1>0, <1>2, <2>1, PipeType, HeadTailProperties DEF Receive
  <2>3. Head(worker[thread[t].worker].pipe).kind \in Kinds
    BY <2>2 DEF Answers
  <2>4. QED
    BY <1>2, <2>3 DEF Receive
<1>3. QED
  BY <1>1, <1>2

\* What a step of t does to t, and that it leaves the others alone.
LEMMA ThreadMoves ==
    ASSUME Typed, NEW t \in Threads, NEW r, Become(t, r)
    PROVE  thread'[t] = r /\ \A u \in Threads : u # t => thread'[u] = thread[u]
BY DEF Typed, TypeOK, Become

\* A step of a thread keeps the guard of the primary and ends no cooldown wrongly.
LEMMA GuardThread ==
    ASSUME Typed, Typed', GuardInv, NEW t \in Threads, Step(t) \/ GiveUp(t)
    PROVE  GuardInv' /\ CooldownStep
<1>0. /\ thread[t] \in Thread /\ Shaped(thread[t]) /\ TypeOK /\ now \in Nat /\ retryAt \in Nat
      /\ now <= now
      /\ \A u \in Threads : thread[u].seen \in Nat /\ thread[u].probe \in BOOLEAN
      /\ overtaken \subseteq Threads /\ probe \in BOOLEAN
  <2>1. TypeOK /\ Shape /\ \A u \in Threads : thread[u] \in Thread
    BY DEF Typed, TypeOK
  <2>2. /\ now \in Nat /\ retryAt \in Nat /\ overtaken \subseteq Threads /\ probe \in BOOLEAN
        /\ now <= now
    BY DEF Typed, TypeOK
  <2>3. \A u \in Threads : thread[u].seen \in Nat /\ thread[u].probe \in BOOLEAN
    BY <2>1 DEF Thread
  <2>4. QED
    BY <2>1, <2>2, <2>3 DEF Shape
<1>1. CASE Begin(t)
  <2>1. thread[t] = Idle /\ UNCHANGED <<now, primary>>
    BY <1>0, <1>1 DEF Begin, At, Shaped
  <2>2. CASE UNCHANGED thread
    BY <1>0, <2>1, <2>2, GuardRests
  <2>3. CASE \E i \in Items : Become(t, [Idle EXCEPT !.pc = "choose", !.item = i])
    <3>1. PICK i \in Items : Become(t, [Idle EXCEPT !.pc = "choose", !.item = i])
      BY <2>3
    <3>2. /\ thread'[t].probe = thread[t].probe /\ thread'[t].source = thread[t].source
          /\ thread'[t].seen = thread[t].seen
      <4>1. thread'[t] = [Idle EXCEPT !.pc = "choose", !.item = i]
        BY <3>1, ThreadMoves
      <4>2. QED
        BY <2>1, <4>1 DEF Idle
    <3>3. QED
      BY <1>0, <2>1, <3>1, <3>2, ThreadMoves, GuardRests
  <2>4. QED
    BY <1>1, <2>2, <2>3 DEF Begin
<1>2. CASE Choose(t)
  <2> DEFINE usePrimary == now >= retryAt /\ ~probe
             isProbe == usePrimary /\ retryAt > 0
             r == [thread[t] EXCEPT !.pc = "take",
                          !.source = IF usePrimary THEN "bars" ELSE "bars-sina",
                          !.attempt = 0, !.seen = retryAt, !.probe = isProbe]
  <2>1. /\ Become(t, r) /\ probe' = (probe \/ isProbe) /\ overtaken' = overtaken \ {t}
        /\ UNCHANGED <<now, retryAt>>
    BY <1>2 DEF Choose
  <2>2. /\ thread'[t] = r /\ \A u \in Threads : u # t => thread'[u] = thread[u]
        /\ r.source = (IF usePrimary THEN "bars" ELSE "bars-sina") /\ r.seen = retryAt
        /\ r.probe = isProbe
    <3>1. \A u \in Threads : u # t => thread'[u] = thread[u]
      BY <2>1, ThreadMoves
    <3>2. thread'[t] = r
      BY <2>1, ThreadMoves
    <3>3. /\ r.source = (IF usePrimary THEN "bars" ELSE "bars-sina") /\ r.seen = retryAt
          /\ r.probe = isProbe
      BY <1>0 DEF Thread
    <3>4. QED
      BY <3>1, <3>2, <3>3
  <2> HIDE DEF r
  <2>3. ~thread[t].probe
    BY <1>0, <1>2 DEF Choose, At, Shaped
  <2>4. CooldownStep
    BY <2>1 DEF CooldownStep
  <2>5. probe' <=> \E u \in Threads : thread'[u].probe
    BY <2>1, <2>2, <2>3 DEF GuardInv
  <2>6. \A u, v \in Threads : thread'[u].probe /\ thread'[v].probe => u = v
    BY <2>2, <2>3 DEF GuardInv
  <2>7. \A u \in Threads : thread'[u].source = "bars" => thread'[u].seen <= now'
    BY <1>0, <2>1, <2>2 DEF GuardInv
  <2>8. \A u \in overtaken' :
            thread'[u].source = "bars" /\ (retryAt' = 0 \/ thread'[u].seen < retryAt')
    BY <1>0, <2>1, <2>2 DEF GuardInv
  <2>9. QED
    BY <2>4, <2>5, <2>6, <2>7, <2>8 DEF GuardInv
<1>3. CASE Send(t)
  <2>1. Become(t, [thread[t] EXCEPT !.pc = "wait", !.worker = Head(free)])
    BY <1>3 DEF Send
  <2>2. /\ thread'[t].probe = thread[t].probe /\ thread'[t].source = thread[t].source
        /\ thread'[t].seen = thread[t].seen
    <3>1. thread'[t] = [thread[t] EXCEPT !.pc = "wait", !.worker = Head(free)]
      BY <2>1, ThreadMoves
    <3>2. QED
      BY <1>0, <3>1 DEF Thread
  <2>3. UNCHANGED <<now, primary>>
    BY <1>3 DEF Send
  <2>4. QED
    BY <1>0, <2>1, <2>2, <2>3, ThreadMoves, GuardRests
<1>4. CASE Receive(t) \/ GiveUp(t)
  <2>1. PICK kind \in Kinds : Become(t, AfterAnswer(thread[t], kind))
    BY <1>4, RequestEnds
  <2>2. /\ thread'[t].probe = thread[t].probe /\ thread'[t].source = thread[t].source
        /\ thread'[t].seen = thread[t].seen
    BY <1>0, <2>1, ThreadMoves, AnswerKeeps
  <2>3. UNCHANGED <<now, primary>>
    BY <1>4 DEF Receive, GiveUp
  <2>4. QED
    BY <1>0, <2>1, <2>2, <2>3, ThreadMoves, GuardRests
<1>5. CASE Blame(t)
  <2>1. /\ Become(t, [thread[t] EXCEPT !.pc = "take", !.source = "bars-sina", !.attempt = 0])
        /\ retryAt' = now + Cooldown
        /\ overtaken' = {u \in Threads : thread[u].source = "bars"} \ {t}
        /\ UNCHANGED <<now, probe>> /\ thread[t].pc = "blame"
    BY <1>5 DEF Blame, At
  <2>2. /\ thread'[t].probe = thread[t].probe /\ thread'[t].source = "bars-sina"
        /\ \A u \in Threads : u # t => thread'[u] = thread[u]
    <3>1. thread'[t] = [thread[t] EXCEPT !.pc = "take", !.source = "bars-sina", !.attempt = 0]
      BY <2>1, ThreadMoves
    <3>2. \A u \in Threads : u # t => thread'[u] = thread[u]
      BY <2>1, ThreadMoves
    <3>3. QED
      BY <1>0, <3>1, <3>2 DEF Thread
  <2>3. CooldownStep
    BY <2>1, <2>2 DEF CooldownStep, At
  <2>4. /\ probe' <=> \E u \in Threads : thread'[u].probe
        /\ \A u, v \in Threads : thread'[u].probe /\ thread'[v].probe => u = v
    BY <2>1, <2>2 DEF GuardInv
  <2>5. \A u \in Threads : thread'[u].source = "bars" => thread'[u].seen <= now'
    BY <2>1, <2>2 DEF GuardInv
  <2>6. \A u \in overtaken' : thread'[u].source = "bars" /\ thread'[u].seen < retryAt'
    BY <1>0, <2>1, <2>2, Sizes DEF GuardInv
  <2>7. QED
    BY <2>3, <2>4, <2>5, <2>6 DEF GuardInv
<1>6. CASE Praise(t)
  <2>1. /\ Become(t, [thread[t] EXCEPT !.pc = "release"])
        /\ retryAt' = (IF retryAt = thread[t].seen THEN 0 ELSE retryAt)
        /\ UNCHANGED <<now, probe, overtaken>>
    BY <1>6 DEF Praise
  <2>2. /\ thread'[t].probe = thread[t].probe /\ thread'[t].source = thread[t].source
        /\ thread'[t].seen = thread[t].seen
        /\ \A u \in Threads : u # t => thread'[u] = thread[u]
    <3>1. thread'[t] = [thread[t] EXCEPT !.pc = "release"]
      BY <2>1, ThreadMoves
    <3>2. \A u \in Threads : u # t => thread'[u] = thread[u]
      BY <2>1, ThreadMoves
    <3>3. QED
      BY <1>0, <3>1, <3>2 DEF Thread
  <2>3. CooldownStep
    <3>1. SUFFICES ASSUME NEW u \in Threads, u \in overtaken, At(u, "praise"), ~At(u, "praise")'
                   PROVE  retryAt' = retryAt
      BY DEF CooldownStep
    <3>2. u = t
      BY <2>2, <3>1 DEF At
    <3>3. retryAt = 0 \/ thread[t].seen < retryAt
      BY <3>1, <3>2 DEF GuardInv
    <3>4. QED
      BY <1>0, <2>1, <3>3
  <2>4. /\ probe' <=> \E u \in Threads : thread'[u].probe
        /\ \A u, v \in Threads : thread'[u].probe /\ thread'[v].probe => u = v
    BY <2>1, <2>2 DEF GuardInv
  <2>5. \A u \in Threads : thread'[u].source = "bars" => thread'[u].seen <= now'
    BY <2>1, <2>2 DEF GuardInv
  <2>6. \A u \in overtaken' :
            thread'[u].source = "bars" /\ (retryAt' = 0 \/ thread'[u].seen < retryAt')
    BY <1>0, <2>1, <2>2 DEF GuardInv
  <2>7. QED
    BY <2>3, <2>4, <2>5, <2>6 DEF GuardInv
<1>7. CASE Release(t)
  <2>1. /\ Become(t, Idle) /\ probe' = (probe /\ ~thread[t].probe)
        /\ overtaken' = overtaken \ {t} /\ UNCHANGED <<now, retryAt>>
    BY <1>7 DEF Release
  <2>2. /\ ~thread'[t].probe /\ thread'[t].source = "none"
        /\ \A u \in Threads : u # t => thread'[u] = thread[u]
    BY <2>1, ThreadMoves DEF Idle
  <2>3. CooldownStep
    BY <2>1 DEF CooldownStep
  <2>4. /\ probe' <=> \E u \in Threads : thread'[u].probe
        /\ \A u, v \in Threads : thread'[u].probe /\ thread'[v].probe => u = v
    BY <1>0, <2>1, <2>2 DEF GuardInv
  <2>5. \A u \in Threads : thread'[u].source = "bars" => thread'[u].seen <= now'
    BY <2>1, <2>2 DEF GuardInv
  <2>6. \A u \in overtaken' :
            thread'[u].source = "bars" /\ (retryAt' = 0 \/ thread'[u].seen < retryAt')
    BY <1>0, <2>1, <2>2 DEF GuardInv
  <2>7. QED
    BY <2>3, <2>4, <2>5, <2>6 DEF GuardInv
<1>8. QED
  BY <1>1, <1>2, <1>3, <1>4, <1>5, <1>6, <1>7 DEF Step

\* So does every step.
LEMMA GuardStep ==
    ASSUME Typed, Typed', GuardInv, [Next]_vars PROVE GuardInv' /\ CooldownStep
<1>0. now \in Nat /\ now <= now
  BY DEF Typed, TypeOK
<1>1. CASE UNCHANGED vars
  BY <1>0, <1>1, GuardRests DEF vars
<1>2. CASE Collect \/ Close \/ Done \/ \E w \in Threads : Answer(w) \/ Die(w)
  <2>1. UNCHANGED <<now, primary, thread>>
    BY <1>2 DEF Collect, Close, Done, Answer, Die, vars
  <2>2. QED
    BY <1>0, <2>1, GuardRests
<1>3. CASE Tick
  BY <1>0, <1>3, GuardRests DEF Tick
<1>4. QED
  BY <1>1, <1>2, <1>3, GuardThread DEF Next

\* However the calls to the primary source overtake each other, it is probed by one
\* thread at most, the probe is given back whatever becomes of it, and a success that
\* began before a failure does not end the cooldown that failure began.
THEOREM ProviderPrimaryGuarded == Spec => PrimaryGuarded
<1>1. Init => GuardInv
  BY DEF Init, GuardInv, Idle
<1>2. Typed /\ Typed' /\ GuardInv /\ [Next]_vars => GuardInv' /\ [CooldownStep]_vars
  BY GuardStep
<1>3. GuardInv => ProbeIsHeld
  BY DEF GuardInv, ProbeIsHeld
<1>4. Typed /\ [Next]_vars => Typed'
  BY TypeStep
<1>5. Spec => [](Typed /\ GuardInv)
  BY <1>1, <1>2, <1>4, TypeInit, PTL DEF Spec
<1>6. Spec => [][CooldownStep]_vars
  BY <1>2, <1>4, <1>5, PTL DEF Spec
<1>7. QED
  BY <1>3, <1>5, <1>6, PTL DEF PrimaryGuarded, CooldownKept, CooldownStep

-----------------------------------------------------------------------------
(* The workers.  A worker is free once, or held by one thread (Held); its pipe   *)
(* carries at most the answer to the request it was given, and nothing is left   *)
(* of a request when it is given back (Clean).                               *)

Held ==
    /\ \A i, j \in 1..Len(free) : free[i] = free[j] => i = j
    /\ \A t \in Threads, i \in 1..Len(free) : thread[t].worker # free[i]
    /\ \A t, u \in Threads :
          t # u /\ thread[t].worker # "none" => thread[t].worker # thread[u].worker
    /\ \A w \in Threads :
          (\E i \in 1..Len(free) : free[i] = w) \/ \E t \in Threads : thread[t].worker = w

\* Nothing is left of a request.
Blank(w) == w.request = None /\ w.pipe = <<>>

Clean ==
    /\ \A i \in 1..Len(free) : Blank(worker[free[i]])
    /\ \A w \in Threads :
          /\ Len(worker[w].pipe) <= 1
          /\ worker[w].request # None => worker[w].pipe = <<>>
    /\ AnswerIsMine

\* A step of threads that hold no worker before and after it.
LEMMA PoolRests ==
    ASSUME Typed, Held, Clean, UNCHANGED pool,
           \A t \in Threads : \/ thread'[t] = thread[t]
                              \/ thread[t].worker = "none" /\ thread'[t].worker = "none"
                                 /\ thread'[t].pc # "wait"
    PROVE  Held' /\ Clean'
<1>1. free' = free /\ worker' = worker
  BY DEF pool
<1>2. \A t \in Threads : thread'[t].worker = thread[t].worker
  OBVIOUS
<1>3. Held'
  BY <1>1, <1>2 DEF Held
<1>4. \A t \in Threads : thread'[t].pc = "wait" => thread'[t] = thread[t]
  OBVIOUS
<1>5. AnswerIsMine'
  <2>1. SUFFICES ASSUME NEW t \in Threads, thread'[t].pc = "wait"
                 PROVE  /\ worker'[thread'[t].worker].request \in {None, RequestOf(t)'}
                        /\ \A i \in DOMAIN worker'[thread'[t].worker].pipe :
                              worker'[thread'[t].worker].pipe[i].of = RequestOf(t)'
    BY DEF AnswerIsMine, At
  <2>2. thread'[t] = thread[t] /\ RequestOf(t)' = RequestOf(t) /\ thread[t].pc = "wait"
    BY <1>4, <2>1 DEF RequestOf
  <2>3. QED
    BY <1>1, <2>2 DEF Clean, AnswerIsMine, At
<1>6. QED
  BY <1>1, <1>3, <1>5 DEF Clean

\* A worker's own step.
LEMMA PoolWorker ==
    ASSUME Typed, Held, Clean, NEW w \in Threads, Answer(w) \/ Die(w)
    PROVE  Held' /\ Clean'
<1>1. free' = free /\ thread' = thread
  BY DEF Answer, Die
<1>2. Held'
  BY <1>1 DEF Held
<1>3. TypeOK /\ worker[w] \in Worker /\ worker[w].pipe \in Seq(Answers)
  BY PipeType DEF Typed, TypeOK
<1>4. \A v \in Threads : v # w => worker'[v] = worker[v]
  BY <1>3 DEF Answer, Die, TypeOK
<1>5. PICK p \in Seq(Answers) :
        /\ worker'[w].pipe = p /\ worker'[w].request = None
        /\ \/ p = worker[w].pipe
           \/ /\ worker[w].request # None /\ worker[w].pipe = <<>>
              /\ Len(p) = 1 /\ p[1].of = worker[w].request
  <2>1. CASE Die(w)
    BY <1>3, <2>1 DEF Die, TypeOK, Worker
  <2>2. CASE Answer(w)
    <3>1. worker[w].request # None /\ worker[w].pipe = <<>> /\ worker[w].request \in Request
      BY <1>3, <2>2 DEF Answer, Clean, Worker
    <3>2. PICK kind \in Kinds :
          worker' = [worker EXCEPT
                       ![w].pipe = Append(@, [kind |-> kind, of |-> worker[w].request]),
                       ![w].request = None]
      BY <2>2 DEF Answer
    <3> DEFINE a == [kind |-> kind, of |-> worker[w].request]
               p == Append(worker[w].pipe, a)
    <3>3. a \in Answers
      BY <3>1 DEF Answers
    <3>4. p \in Seq(Answers) /\ Len(p) = 1 /\ p[1] = a
      BY <1>3, <3>1, <3>3, AppendProperties
    <3>5. worker'[w].pipe = p /\ worker'[w].request = None
      BY <1>3, <3>2 DEF TypeOK, Worker
    <3> HIDE DEF p, a
    <3>6. p[1].of = worker[w].request
      BY <3>4 DEF a
    <3>7. QED
      BY <3>1, <3>4, <3>5, <3>6
  <2>3. QED
    BY <2>1, <2>2
<1>6. \A i \in 1..Len(free) : free[i] # w \/ Blank(worker'[w])
  BY <1>5 DEF Clean, Blank
<1>7. \A i \in 1..Len(free) : Blank(worker'[free[i]])
  <2>1. \A i \in 1..Len(free) : free[i] \in Threads
    BY DEF Typed, TypeOK
  <2>2. QED
    BY <1>4, <1>6, <2>1 DEF Clean, Blank
<1>8. \A v \in Threads : /\ Len(worker'[v].pipe) <= 1
                         /\ worker'[v].request # None => worker'[v].pipe = <<>>
  <2>1. Len(worker'[w].pipe) <= 1
    <3>1. CASE p = worker[w].pipe
      <4>1. Len(worker[w].pipe) <= 1
        BY DEF Clean
      <4>2. QED
        BY <1>5, <3>1, <4>1
    <3>2. CASE Len(p) = 1
      <4>1. Len(p) <= 1
        BY <3>2
      <4>2. QED
        BY <1>5, <4>1
    <3>3. QED
      BY <1>5, <3>1, <3>2
  <2>2. QED
    BY <1>4, <1>5, <2>1 DEF Clean
<1>9. AnswerIsMine'
  <2>1. SUFFICES ASSUME NEW t \in Threads, thread[t].pc = "wait"
                 PROVE  /\ worker'[thread[t].worker].request \in {None, RequestOf(t)}
                        /\ \A i \in DOMAIN worker'[thread[t].worker].pipe :
                              worker'[thread[t].worker].pipe[i].of = RequestOf(t)
    BY <1>1 DEF AnswerIsMine, At, RequestOf
  <2>2. thread[t].worker \in Threads
    BY <2>1 DEF Typed, TypeOK, Shape, Shaped, Thread
  <2>3. CASE thread[t].worker # w
    BY <1>4, <2>1, <2>2, <2>3 DEF Clean, AnswerIsMine, At
  <2>4. CASE thread[t].worker = w
    <3>1. /\ worker[w].request \in {None, RequestOf(t)}
          /\ \A i \in DOMAIN worker[w].pipe : worker[w].pipe[i].of = RequestOf(t)
      BY <2>1, <2>4 DEF Clean, AnswerIsMine, At
    <3>2. CASE p = worker[w].pipe
      BY <1>5, <2>4, <3>1, <3>2
    <3>3. CASE worker[w].request # None /\ Len(p) = 1 /\ p[1].of = worker[w].request
      <4>1. DOMAIN p = {1}
        BY <3>3, LenProperties
      <4>2. QED
        BY <1>5, <2>4, <3>1, <3>3, <4>1
    <3>4. QED
      BY <1>5, <3>2, <3>3
  <2>5. QED
    BY <2>3, <2>4
<1>10. QED
  BY <1>1, <1>2, <1>7, <1>8, <1>9 DEF Clean

\* A request is sent through the first free worker.
LEMMA PoolSend ==
    ASSUME Typed, Held, Clean, NEW t \in Threads, Send(t) PROVE Held' /\ Clean'
<1> DEFINE w == Head(free)
<1>0. TypeOK /\ thread[t] \in Thread /\ thread[t].worker = "none" /\ free \in Seq(Threads)
  BY DEF Typed, TypeOK, Shape, Shaped, Send, At
<1>1. /\ w \in Threads /\ w = free[1] /\ free' \in Seq(Threads) /\ Len(free) = Len(free') + 1
      /\ \A i \in 1..Len(free') : free'[i] = free[i + 1]
      /\ Len(free') \in Nat
  <2>1. free # <<>> /\ free' = Tail(free)
    BY DEF Send
  <2>2. QED
    BY <1>0, <2>1, HeadTailProperties, LenProperties
<1>2. /\ thread'[t] = [thread[t] EXCEPT !.pc = "wait", !.worker = w]
      /\ \A u \in Threads : u # t => thread'[u] = thread[u]
  <2>1. Become(t, [thread[t] EXCEPT !.pc = "wait", !.worker = w])
    BY DEF Send
  <2>2. QED
    BY <2>1, ThreadMoves
<1>3. /\ thread'[t].worker = w /\ thread'[t].pc = "wait" /\ thread'[t].source = thread[t].source
      /\ thread'[t].item = thread[t].item
  BY <1>0, <1>2 DEF Thread
<1>4. RequestOf(t)' = RequestOf(t) /\ \A u \in Threads : u # t => RequestOf(u)' = RequestOf(u)
  BY <1>2, <1>3 DEF RequestOf
<1>5. \A v \in Threads : v # w => worker'[v] = worker[v]
  BY <1>0, <1>1 DEF Send, TypeOK
<1>6. Blank(worker[w]) /\ worker[w] \in Worker
  BY <1>0, <1>1 DEF Clean, TypeOK
<1>7. worker'[w].pipe = <<>> /\ worker'[w].request \in {None, RequestOf(t)}
  <2>1. /\ worker' = [worker EXCEPT ![w] = worker'[w]]
        /\ worker'[w] \in {[NoProcess EXCEPT !.process = "alive", !.request = RequestOf(t)],
                           [worker[w] EXCEPT !.request = RequestOf(t)], worker[w]}
    BY <1>0, <1>1 DEF Send, TypeOK
  <2>2. QED
    BY <1>6, <2>1 DEF Blank, NoProcess, Worker
<1>8. Held'
  <2>1. \A i, j \in 1..Len(free') : free'[i] = free'[j] => i = j
    <3>1. ASSUME NEW i \in 1..Len(free'), NEW j \in 1..Len(free'), free'[i] = free'[j] PROVE i = j
      <4>1. i + 1 \in 1..Len(free) /\ j + 1 \in 1..Len(free) /\ free[i + 1] = free[j + 1]
        BY <1>1, <3>1
      <4>2. i + 1 = j + 1
        BY <4>1 DEF Held
      <4>3. QED
        BY <1>1, <4>2
    <3>2. QED
      BY <3>1
  <2>2. \A i \in 1..Len(free') : i + 1 \in 1..Len(free) /\ free'[i] = free[i + 1] /\ i + 1 # 1
    BY <1>1
  <2>3. 1 \in 1..Len(free) /\ w = free[1]
    BY <1>1
  <2>4. ASSUME NEW u \in Threads, NEW i \in 1..Len(free') PROVE thread'[u].worker # free'[i]
    <3>1. CASE u = t
      <4>1. free[i + 1] # free[1]
        BY <2>2, <2>3 DEF Held
      <4>2. QED
        BY <1>3, <2>2, <2>3, <3>1, <4>1
    <3>2. CASE u # t
      BY <1>2, <2>2, <3>2 DEF Held
    <3>3. QED
      BY <3>1, <3>2
  <2>5. \A u \in Threads : u # t => thread'[u].worker # w
    BY <1>2, <2>3 DEF Held
  <2>6. \A u, v \in Threads :
          u # v /\ thread'[u].worker # "none" => thread'[u].worker # thread'[v].worker
    <3>1. SUFFICES ASSUME NEW u \in Threads, NEW v \in Threads, u # v, thread'[u].worker # "none"
                   PROVE  thread'[u].worker # thread'[v].worker
      OBVIOUS
    <3>2. CASE u = t \/ v = t
      BY <1>3, <2>5, <3>1, <3>2
    <3>3. CASE u # t /\ v # t
      BY <1>2, <3>1, <3>3 DEF Held
    <3>4. QED
      BY <3>2, <3>3
  <2>7. ASSUME NEW v \in Threads
        PROVE  (\E i \in 1..Len(free') : free'[i] = v) \/ \E u \in Threads : thread'[u].worker = v
    <3>1. CASE \E i \in 1..Len(free) : free[i] = v
      <4>1. PICK i \in 1..Len(free) : free[i] = v
        BY <3>1
      <4>2. CASE i = 1
        BY <1>1, <1>3, <4>1, <4>2
      <4>3. CASE i # 1
        <5>1. i - 1 \in 1..Len(free') /\ (i - 1) + 1 = i
          BY <1>1, <4>3
        <5>2. free'[i - 1] = v
          BY <1>1, <4>1, <5>1
        <5>3. QED
          BY <5>1, <5>2
      <4>4. QED
        BY <4>2, <4>3
    <3>2. CASE \E u \in Threads : thread[u].worker = v
      <4>1. PICK u \in Threads : thread[u].worker = v
        BY <3>2
      <4>2. u # t
        BY <1>0, <4>1, ProviderAssumption
      <4>3. QED
        BY <1>2, <4>1, <4>2
    <3>3. QED
      BY <3>1, <3>2 DEF Held
  <2>8. QED
    BY <2>1, <2>4, <2>6, <2>7 DEF Held
<1>9. Clean'
  <2>1. \A i \in 1..Len(free') : Blank(worker'[free'[i]])
    <3>1. SUFFICES ASSUME NEW i \in 1..Len(free') PROVE Blank(worker'[free'[i]])
      OBVIOUS
    <3>2. i + 1 \in 1..Len(free) /\ free'[i] = free[i + 1] /\ 1 \in 1..Len(free) /\ i + 1 # 1
      BY <1>1
    <3>3. free[i + 1] # w /\ free[i + 1] \in Threads
      BY <1>0, <1>1, <3>2 DEF Held
    <3>4. QED
      BY <1>5, <3>2, <3>3 DEF Clean
  <2>2. \A v \in Threads : /\ Len(worker'[v].pipe) <= 1
                           /\ worker'[v].request # None => worker'[v].pipe = <<>>
    BY <1>5, <1>7 DEF Clean
  <2>3. AnswerIsMine'
    <3>1. SUFFICES ASSUME NEW u \in Threads, thread'[u].pc = "wait"
                   PROVE  /\ worker'[thread'[u].worker].request \in {None, RequestOf(u)'}
                          /\ \A i \in DOMAIN worker'[thread'[u].worker].pipe :
                                worker'[thread'[u].worker].pipe[i].of = RequestOf(u)'
      BY DEF AnswerIsMine, At
    <3>2. CASE u = t
      BY <1>3, <1>4, <1>7, <3>2
    <3>3. CASE u # t
      <4>1. thread[u].pc = "wait" /\ thread[u].worker \in Threads /\ thread[u].worker # w
        <5>1. thread[u].pc = "wait" /\ thread[u] \in Thread /\ Shaped(thread[u])
          BY <1>2, <3>1, <3>3 DEF Typed, TypeOK, Shape
        <5>2. thread[u].worker \in Threads
          BY <5>1 DEF Shaped, Thread
        <5>3. 1 \in 1..Len(free) /\ w = free[1]
          BY <1>1
        <5>4. QED
          BY <5>1, <5>2, <5>3 DEF Held
      <4>2. worker'[thread'[u].worker] = worker[thread[u].worker]
        BY <1>2, <1>5, <3>3, <4>1
      <4>3. QED
        BY <1>4, <3>3, <4>1, <4>2 DEF Clean, AnswerIsMine, At
    <3>4. QED
      BY <3>2, <3>3
  <2>4. QED
    BY <2>1, <2>2, <2>3 DEF Clean
<1>10. QED
  BY <1>8, <1>9

\* ... and is given back when its request has ended: after the one answer that the
\* pipe carried, or with its process killed and its pipe gone.
LEMMA PoolEnds ==
    ASSUME Typed, Held, Clean, NEW t \in Threads, Receive(t) \/ GiveUp(t) PROVE Held' /\ Clean'
<1> DEFINE w == thread[t].worker
<1>0. TypeOK /\ free \in Seq(Threads) /\ thread[t] \in Thread /\ Shaped(thread[t])
      /\ thread[t].pc = "wait"
  BY DEF Typed, TypeOK, Shape, Receive, GiveUp, At
<1>1. w \in Threads /\ w # "none"
  BY <1>0, ProviderAssumption DEF Shaped, Thread
<1>2. /\ free' \in Seq(Threads) /\ Len(free') = Len(free) + 1 /\ free'[1] = w
      /\ \A i \in 2..Len(free') : free'[i] = free[i - 1]
      /\ Len(free) \in Nat
  <2>1. free' = <<w>> \o free
    BY DEF Receive, GiveUp, Return
  <2>2. <<w>> \in Seq(Threads) /\ Len(<<w>>) = 1 /\ <<w>>[1] = w
    BY <1>1
  <2>3. Len(free) \in Nat
    BY <1>0, LenProperties
  <2>4. QED
    BY <1>0, <2>1, <2>2, <2>3, ConcatProperties
<1>3. /\ thread'[t].worker = "none" /\ thread'[t].pc # "wait"
      /\ \A u \in Threads : u # t => thread'[u] = thread[u]
  BY <1>0, RequestEnds, AnswerKeeps, ThreadMoves
<1>4. \A v \in Threads : v # w => worker'[v] = worker[v]
  BY <1>0, <1>1 DEF Receive, GiveUp, TypeOK
<1>5. Blank(worker'[w])
  <2>1. CASE GiveUp(t)
    BY <1>0, <1>1, <2>1 DEF GiveUp, TypeOK, Blank, NoProcess
  <2>2. CASE Receive(t)
    <3>1. worker[w].pipe \in Seq(Answers) /\ worker[w].pipe # <<>> /\ worker[w] \in Worker
      BY <1>0, <1>1, <2>2, PipeType DEF Receive, TypeOK
    <3>2. Len(worker[w].pipe) <= 1 /\ worker[w].request = None
      BY <1>1, <3>1 DEF Clean
    <3>3. /\ Tail(worker[w].pipe) \in Seq(Answers)
          /\ Len(Tail(worker[w].pipe)) = Len(worker[w].pipe) - 1
      BY <3>1, HeadTailProperties
    <3>4. Len(Tail(worker[w].pipe)) = 0
      <4>1. Len(worker[w].pipe) \in Nat /\ Len(Tail(worker[w].pipe)) \in Nat
        BY <3>1, <3>3, LenProperties
      <4>2. \A a, b \in Nat : a <= 1 /\ b = a - 1 => b = 0
        OBVIOUS
      <4>3. QED
        BY <3>2, <3>3, <4>1, <4>2
    <3>5. Tail(worker[w].pipe) = <<>>
      BY <3>3, <3>4, EmptySeq
    <3>6. worker'[w].pipe = Tail(worker[w].pipe) /\ worker'[w].request = worker[w].request
      BY <1>0, <1>1, <2>2, <3>1 DEF Receive, TypeOK, Worker
    <3>7. QED
      BY <3>2, <3>5, <3>6 DEF Blank
  <2>3. QED
    BY <2>1, <2>2
<1>6. \A i \in 2..Len(free') : i - 1 \in 1..Len(free) /\ free'[i] = free[i - 1]
  BY <1>2
<1>7. \A i \in 1..Len(free') : i = 1 \/ i \in 2..Len(free')
  BY <1>2
<1>8. \A i \in 1..Len(free) : free[i] # w
  BY <1>1 DEF Held
<1>9. Held'
  <2>1. ASSUME NEW i \in 1..Len(free'), NEW j \in 1..Len(free'), free'[i] = free'[j]
        PROVE  i = j
    <3>1. CASE i = 1 \/ j = 1
      BY <1>2, <1>6, <1>7, <1>8, <2>1, <3>1
    <3>2. CASE i # 1 /\ j # 1
      <4>1. i - 1 \in 1..Len(free) /\ j - 1 \in 1..Len(free) /\ free[i - 1] = free[j - 1]
        BY <1>6, <1>7, <2>1, <3>2
      <4>2. i - 1 = j - 1
        BY <4>1 DEF Held
      <4>3. QED
        BY <1>2, <4>2
    <3>3. QED
      BY <3>1, <3>2
  <2>2. ASSUME NEW u \in Threads, NEW i \in 1..Len(free') PROVE thread'[u].worker # free'[i]
    <3>1. free'[i] \in Threads
      BY <1>2
    <3>2. CASE u = t
      BY <1>3, <3>1, <3>2, ProviderAssumption
    <3>3. CASE u # t /\ i = 1
      BY <1>1, <1>2, <1>3, <3>3 DEF Held
    <3>4. CASE u # t /\ i \in 2..Len(free')
      BY <1>3, <1>6, <3>4 DEF Held
    <3>5. QED
      BY <1>7, <3>2, <3>3, <3>4
  <2>3. \A u, v \in Threads :
          u # v /\ thread'[u].worker # "none" => thread'[u].worker # thread'[v].worker
    <3>1. SUFFICES ASSUME NEW u \in Threads, NEW v \in Threads, u # v, thread'[u].worker # "none"
                   PROVE  thread'[u].worker # thread'[v].worker
      OBVIOUS
    <3>2. u # t /\ thread'[u] = thread[u]
      BY <1>3, <3>1
    <3>3. CASE v = t
      BY <1>3, <3>1, <3>3
    <3>4. CASE v # t
      BY <1>3, <3>1, <3>2, <3>4 DEF Held
    <3>5. QED
      BY <3>3, <3>4
  <2>4. ASSUME NEW v \in Threads
        PROVE  (\E i \in 1..Len(free') : free'[i] = v) \/ \E u \in Threads : thread'[u].worker = v
    <3>1. CASE v = w
      BY <1>2, <3>1
    <3>2. CASE \E i \in 1..Len(free) : free[i] = v
      <4>1. PICK i \in 1..Len(free) : free[i] = v
        BY <3>2
      <4>2. i + 1 \in 2..Len(free') /\ (i + 1) - 1 = i
        BY <1>2
      <4>3. free'[i + 1] = v /\ i + 1 \in 1..Len(free')
        BY <1>2, <4>1, <4>2
      <4>4. QED
        BY <4>3
    <3>3. CASE v # w /\ \E u \in Threads : thread[u].worker = v
      BY <1>3, <3>3
    <3>4. QED
      BY <3>1, <3>2, <3>3 DEF Held
  <2>5. QED
    BY <2>1, <2>2, <2>3, <2>4 DEF Held
<1>10. Clean'
  <2>1. ASSUME NEW i \in 1..Len(free') PROVE Blank(worker'[free'[i]])
    <3>1. CASE i = 1
      BY <1>2, <1>5, <3>1
    <3>2. CASE i \in 2..Len(free')
      <4>1. i - 1 \in 1..Len(free) /\ free'[i] = free[i - 1]
        BY <1>6, <3>2
      <4>2. free[i - 1] \in Threads /\ free[i - 1] # w
        BY <1>0, <1>8, <4>1
      <4>3. QED
        BY <1>4, <4>1, <4>2 DEF Clean
    <3>3. QED
      BY <1>7, <3>1, <3>2
  <2>2. \A v \in Threads : /\ Len(worker'[v].pipe) <= 1
                           /\ worker'[v].request # None => worker'[v].pipe = <<>>
    <3>1. Len(<<>>) <= 1
      OBVIOUS
    <3>2. QED
      BY <1>4, <1>5, <3>1 DEF Clean, Blank
  <2>3. AnswerIsMine'
    <3>1. SUFFICES ASSUME NEW u \in Threads, thread'[u].pc = "wait"
                   PROVE  /\ worker'[thread'[u].worker].request \in {None, RequestOf(u)'}
                          /\ \A i \in DOMAIN worker'[thread'[u].worker].pipe :
                                worker'[thread'[u].worker].pipe[i].of = RequestOf(u)'
      BY DEF AnswerIsMine, At
    <3>2. u # t /\ thread'[u] = thread[u] /\ thread[u].pc = "wait" /\ RequestOf(u)' = RequestOf(u)
      BY <1>3, <3>1 DEF RequestOf
    <3>3. thread[u].worker \in Threads
      BY <3>2 DEF Typed, TypeOK, Shape, Shaped, Thread
    <3>4. thread[u].worker # w
      BY <1>1, <3>2, ProviderAssumption DEF Held
    <3>5. worker'[thread'[u].worker] = worker[thread[u].worker]
      BY <1>4, <3>2, <3>3, <3>4
    <3>6. QED
      BY <3>2, <3>5 DEF Clean, AnswerIsMine, At
  <2>4. QED
    BY <2>1, <2>2, <2>3 DEF Clean
<1>11. QED
  BY <1>9, <1>10

-----------------------------------------------------------------------------
(* The collection.  A busy thread is at its own running stock (Manned); what is   *)
(* submitted and not settled waits in `pending`, which is never longer than the  *)
(* window, and nothing goes on once the collection is closed (Bounded).         *)

Manned ==
    /\ \A t \in Threads : thread[t].pc # "idle" => stock[thread[t].item] = "running"
    /\ \A t, u \in Threads :
          t # u /\ thread[t].pc # "idle" /\ thread[u].pc # "idle" => thread[t].item # thread[u].item
    /\ \A i \in Items :
          stock[i] = "running" => \E t \in Threads : thread[t].pc # "idle" /\ thread[t].item = i

Bounded ==
    /\ Len(pending) <= Window
    /\ main = "collect" =>
          \A i \in Items : stock[i] \in {"queued", "running"} => \E k \in 1..Len(pending) : pending[k] = i
    /\ main # "collect" => pending = <<>> /\ \A i \in Items : stock[i] # "queued"
    /\ main = "closed" => /\ \A i \in Items : stock[i] # "running"
                          /\ \A w \in Threads : worker[w] = NoProcess

CollectionInv == Manned /\ Bounded

\* The window holds what it should at first.
LEMMA CollectionInit == Init => CollectionInv
<1> SUFFICES ASSUME Init PROVE CollectionInv
  OBVIOUS
<1>1. First \in Nat /\ First <= Window /\ First <= Stocks /\ Stocks \in Nat /\ Window \in Nat
  BY Sizes
<1>2. pending = [i \in 1..First |-> i] /\ \A i \in 1..First : i \in Items
  BY <1>1 DEF Init, Items
<1>3. Len(pending) = First
  <2>1. pending \in [1..First -> Items]
    BY <1>2
  <2>2. pending \in Seq(Items)
    BY <1>1, <2>1, SeqDef
  <2>3. DOMAIN pending = 1..First
    BY <1>2
  <2>4. QED
    BY <1>1, <2>2, <2>3, LenProperties
<1>4. Manned
  BY DEF Init, Manned, Idle
<1>5. \A i \in Items : stock[i] \in {"queued", "running"} => i \in 1..First /\ pending[i] = i
  BY <1>1, <1>2 DEF Init, Items
<1>6. Bounded
  BY <1>1, <1>3, <1>5 DEF Init, Bounded
<1>7. QED
  BY <1>4, <1>6 DEF CollectionInv

\* A step of threads that leaves the collection alone.
LEMMA CollectionRests ==
    ASSUME Typed, CollectionInv, UNCHANGED collection,
           \A t \in Threads : /\ (thread'[t].pc = "idle") = (thread[t].pc = "idle")
                              /\ thread'[t].item = thread[t].item,
           main = "closed" => UNCHANGED worker
    PROVE  CollectionInv'
<1>1. Manned'
  BY DEF CollectionInv, Manned, collection
<1>2. Bounded'
  BY DEF CollectionInv, Bounded, collection
<1>3. QED
  BY <1>1, <1>2 DEF CollectionInv

\* A busy thread has its stock running, so the collection is not closed.
LEMMA BusyIsOpen ==
    ASSUME Typed, CollectionInv, NEW t \in Threads, thread[t].pc # "idle"
    PROVE  main # "closed" /\ thread[t].item \in Items /\ stock[thread[t].item] = "running"
BY DEF Typed, TypeOK, Shape, Shaped, CollectionInv, Manned, Bounded

\* A step of a thread keeps the window in step with the stocks.
LEMMA CollectionThread ==
    ASSUME Typed, CollectionInv, NEW t \in Threads, Step(t) \/ GiveUp(t) PROVE CollectionInv'
<1>0. TypeOK /\ thread[t] \in Thread /\ Shaped(thread[t]) /\ stock \in [Items -> StockStates]
  BY DEF Typed, TypeOK, Shape
<1>1. CASE Begin(t)
  <2>1. thread[t].pc = "idle"
    BY <1>1 DEF Begin, At
  <2>2. PICK i \in Items :
           /\ stock[i] = "queued"
           /\ \/ stock' = [stock EXCEPT ![i] = "ok"] /\ UNCHANGED thread
              \/ /\ stock' = [stock EXCEPT ![i] = "running"]
                 /\ Become(t, [Idle EXCEPT !.pc = "choose", !.item = i])
    BY <1>1 DEF Begin
  <2>3. UNCHANGED <<worker, pending, main>>
    BY <1>1 DEF Begin, pool
  <2>4. main = "collect"
    BY <1>0, <2>2 DEF TypeOK, CollectionInv, Bounded
  <2>5. \A j \in Items : j # i => stock'[j] = stock[j]
    BY <1>0, <2>2
  <2>6. Bounded'
    BY <2>2, <2>3, <2>4, <2>5 DEF CollectionInv, Bounded
  <2>7. Manned'
    <3>1. \A u \in Threads : thread[u].pc # "idle" => thread[u].item \in Items /\ thread[u].item # i
      BY <2>2, BusyIsOpen
    <3>2. CASE stock' = [stock EXCEPT ![i] = "ok"] /\ UNCHANGED thread
      <4>1. stock'[i] = "ok"
        BY <1>0, <3>2
      <4>2. QED
        BY <2>5, <3>1, <3>2, <4>1 DEF CollectionInv, Manned
    <3>3. CASE stock' = [stock EXCEPT ![i] = "running"]
               /\ Become(t, [Idle EXCEPT !.pc = "choose", !.item = i])
      <4>1. thread'[t] = [Idle EXCEPT !.pc = "choose", !.item = i]
            /\ \A u \in Threads : u # t => thread'[u] = thread[u]
        BY <3>3, ThreadMoves
      <4>2. thread'[t].pc # "idle" /\ thread'[t].item = i
        BY <4>1 DEF Idle
      <4>3. stock'[i] = "running"
        BY <1>0, <3>3
      <4>4. \A u \in Threads : thread'[u].pc # "idle" => stock'[thread'[u].item] = "running"
        <5>1. ASSUME NEW u \in Threads, u # t, thread[u].pc # "idle"
              PROVE  stock'[thread[u].item] = "running"
          BY <2>5, <3>1, <5>1 DEF CollectionInv, Manned
        <5>2. QED
          BY <4>1, <4>2, <4>3, <5>1
      <4>5. ASSUME NEW u \in Threads, NEW v \in Threads,
                   u # v, thread'[u].pc # "idle", thread'[v].pc # "idle"
            PROVE  thread'[u].item # thread'[v].item
        <5>1. CASE u = t
          BY <3>1, <4>1, <4>2, <4>5, <5>1
        <5>2. CASE v = t
          BY <3>1, <4>1, <4>2, <4>5, <5>2
        <5>3. CASE u # t /\ v # t
          BY <4>1, <4>5, <5>3 DEF CollectionInv, Manned
        <5>4. QED
          BY <5>1, <5>2, <5>3
      <4>6. ASSUME NEW j \in Items, stock'[j] = "running"
            PROVE  \E u \in Threads : thread'[u].pc # "idle" /\ thread'[u].item = j
        <5>1. CASE j = i
          BY <4>2, <5>1
        <5>2. CASE j # i
          BY <2>1, <2>5, <4>1, <4>6, <5>2 DEF CollectionInv, Manned
        <5>3. QED
          BY <5>1, <5>2
      <4>7. QED
        BY <4>4, <4>5, <4>6 DEF Manned
    <3>4. QED
      BY <2>2, <3>2, <3>3
  <2>8. QED
    BY <2>6, <2>7 DEF CollectionInv
<1>2. CASE Release(t)
  <2>1. thread[t].pc # "idle" /\ UNCHANGED <<worker, pending, main>>
    BY <1>2 DEF Release, At, pool
  <2> DEFINE i == thread[t].item
  <2>2. i \in Items /\ stock[i] = "running" /\ main # "closed"
    BY <2>1, BusyIsOpen
  <2>3. /\ thread'[t] = Idle /\ thread'[t].pc = "idle"
        /\ \A u \in Threads : u # t => thread'[u] = thread[u]
    BY <1>2, ThreadMoves DEF Release, Idle
  <2>4. /\ stock'[i] \in {"ok", "failed"}
        /\ \A j \in Items : j # i => stock'[j] = stock[j]
    BY <1>0, <1>2, <2>2 DEF Release, Settled
  <2>5. \A u \in Threads : u # t /\ thread[u].pc # "idle" => thread[u].item \in Items /\ thread[u].item # i
    BY <2>1, BusyIsOpen DEF CollectionInv, Manned
  <2>6. \A u \in Threads : thread'[u].pc # "idle" => stock'[thread'[u].item] = "running"
    BY <2>3, <2>4, <2>5 DEF CollectionInv, Manned
  <2>7. \A u, v \in Threads :
          u # v /\ thread'[u].pc # "idle" /\ thread'[v].pc # "idle"
              => thread'[u].item # thread'[v].item
    BY <2>3 DEF CollectionInv, Manned
  <2>8. ASSUME NEW j \in Items, stock'[j] = "running"
        PROVE  \E u \in Threads : thread'[u].pc # "idle" /\ thread'[u].item = j
    <3>1. j # i /\ stock[j] = "running"
      BY <2>4, <2>8
    <3>2. PICK u \in Threads : thread[u].pc # "idle" /\ thread[u].item = j
      BY <3>1 DEF CollectionInv, Manned
    <3>3. u # t
      BY <3>1, <3>2
    <3>4. QED
      BY <2>3, <3>2, <3>3
  <2>9. Manned'
    BY <2>6, <2>7, <2>8 DEF Manned
  <2>10. \A j \in Items : /\ stock'[j] \in {"queued", "running"} => stock[j] \in {"queued", "running"}
                          /\ stock'[j] = "queued" => stock[j] = "queued"
    BY <2>4
  <2>11. Bounded'
    BY <2>1, <2>2, <2>10 DEF CollectionInv, Bounded
  <2>12. QED
    BY <2>9, <2>11 DEF CollectionInv
<1>3. CASE Choose(t) \/ Send(t) \/ Receive(t) \/ GiveUp(t) \/ Blame(t) \/ Praise(t)
  <2>1. thread[t].pc # "idle" /\ UNCHANGED collection
    BY <1>3 DEF Choose, Send, Receive, GiveUp, Blame, Praise, At
  <2>2. /\ thread'[t].pc # "idle" /\ thread'[t].item = thread[t].item
        /\ \A u \in Threads : u # t => thread'[u] = thread[u]
    <3>1. CASE Receive(t) \/ GiveUp(t)
      BY <1>0, <3>1, RequestEnds, AnswerKeeps, ThreadMoves
    <3>2. CASE Choose(t)
      <4>1. PICK s, p : Become(t, [thread[t] EXCEPT !.pc = "take", !.source = s, !.attempt = 0,
                                                    !.seen = retryAt, !.probe = p])
        BY <3>2 DEF Choose
      <4>2. thread'[t] = [thread[t] EXCEPT !.pc = "take", !.source = s, !.attempt = 0,
                                           !.seen = retryAt, !.probe = p]
        BY <4>1, ThreadMoves
      <4>3. QED
        BY <1>0, <4>1, <4>2, ThreadMoves DEF Thread
    <3>3. CASE Send(t)
      <4>1. Become(t, [thread[t] EXCEPT !.pc = "wait", !.worker = Head(free)])
        BY <3>3 DEF Send
      <4>2. thread'[t] = [thread[t] EXCEPT !.pc = "wait", !.worker = Head(free)]
        BY <4>1, ThreadMoves
      <4>3. QED
        BY <1>0, <4>1, <4>2, ThreadMoves DEF Thread
    <3>4. CASE Blame(t)
      <4>1. Become(t, [thread[t] EXCEPT !.pc = "take", !.source = "bars-sina", !.attempt = 0])
        BY <3>4 DEF Blame
      <4>2. thread'[t] = [thread[t] EXCEPT !.pc = "take", !.source = "bars-sina", !.attempt = 0]
        BY <4>1, ThreadMoves
      <4>3. QED
        BY <1>0, <4>1, <4>2, ThreadMoves DEF Thread
    <3>5. CASE Praise(t)
      <4>1. Become(t, [thread[t] EXCEPT !.pc = "release"])
        BY <3>5 DEF Praise
      <4>2. thread'[t] = [thread[t] EXCEPT !.pc = "release"]
        BY <4>1, ThreadMoves
      <4>3. QED
        BY <1>0, <4>1, <4>2, ThreadMoves DEF Thread
    <3>6. QED
      BY <1>3, <3>1, <3>2, <3>3, <3>4, <3>5
  <2>3. QED
    BY <2>1, <2>2, BusyIsOpen, CollectionRests
<1>4. QED
  BY <1>1, <1>2, <1>3 DEF Step

\* The main thread settles the oldest stock and submits the next one.
LEMMA CollectKeeps ==
    ASSUME Typed, CollectionInv, Collect PROVE CollectionInv'
<1>0. /\ pending \in Seq(Items) /\ pending # <<>> /\ main = "collect"
      /\ stock \in [Items -> StockStates] /\ stock[Head(pending)] \in {"ok", "failed"}
      /\ UNCHANGED <<worker, thread>> /\ Len(pending) \in Nat /\ Window \in Nat
  BY LenProperties, Sizes DEF Typed, TypeOK, Collect, pool
<1> DEFINE q == Tail(pending)
<1>1. /\ q \in Seq(Items) /\ Len(q) = Len(pending) - 1 /\ Len(q) \in Nat
      /\ \A k \in 1..Len(q) : q[k] = pending[k + 1]
      /\ Head(pending) = pending[1]
  BY <1>0, HeadTailProperties, LenProperties
<1> HIDE DEF q
<1>2. ASSUME NEW i \in Items, stock[i] \in {"queued", "running"}
      PROVE  \E k \in 1..Len(q) : q[k] = i
  <2>1. PICK k \in 1..Len(pending) : pending[k] = i
    BY <1>0, <1>2 DEF CollectionInv, Bounded
  <2>2. k # 1
    BY <1>0, <1>1, <1>2, <2>1
  <2>3. k - 1 \in 1..Len(q) /\ (k - 1) + 1 = k
    BY <1>0, <1>1, <2>1, <2>2
  <2>4. q[k - 1] = i
    BY <1>1, <2>1, <2>3
  <2>5. QED
    BY <2>3, <2>4
<1>3. ASSUME \A i \in Items : /\ stock[i] = "running" => stock'[i] = "running"
                              /\ stock'[i] = "running" => stock[i] = "running"
      PROVE  Manned'
  <2>1. \A t \in Threads : thread[t].pc # "idle" => thread[t].item \in Items
    BY BusyIsOpen
  <2>2. QED
    BY <1>0, <1>3, <2>1 DEF CollectionInv, Manned
<1>4. CASE Submit(q) /\ UNCHANGED main
  <2> DEFINE new == {i \in Items : stock[i] = "new"}
  <2>1. CASE new = {}
    <3>1. pending' = q /\ UNCHANGED stock
      BY <1>4, <2>1 DEF Submit
    <3>2. Len(pending') <= Window
      BY <1>0, <1>1, <3>1 DEF CollectionInv, Bounded
    <3>3. Manned'
      BY <1>3, <3>1
    <3>4. Bounded'
      BY <1>0, <1>2, <1>4, <3>1, <3>2 DEF Bounded
    <3>5. QED
      BY <3>3, <3>4 DEF CollectionInv
  <2>2. CASE new # {}
    <3> DEFINE i == CHOOSE j \in new : \A k \in new : j <= k
    <3>1. i \in new
      BY <2>2, FirstStock
    <3>2. pending' = Append(q, i) /\ stock' = [stock EXCEPT ![i] = "queued"]
      BY <1>4, <2>2 DEF Submit
    <3> HIDE DEF i
    <3>3. i \in Items /\ stock[i] = "new"
      BY <3>1
    <3>4. /\ Len(pending') = Len(q) + 1 /\ pending'[Len(q) + 1] = i
          /\ \A k \in 1..Len(q) : pending'[k] = q[k]
      BY <1>1, <3>2, <3>3, AppendProperties
    <3>5. Len(pending') <= Window
      BY <1>0, <1>1, <3>4 DEF CollectionInv, Bounded
    <3>6. stock'[i] = "queued" /\ \A j \in Items : j # i => stock'[j] = stock[j]
      BY <1>0, <3>2, <3>3
    <3>7. ASSUME NEW j \in Items, stock'[j] \in {"queued", "running"}
          PROVE  \E k \in 1..Len(pending') : pending'[k] = j
      <4>1. CASE j = i
        <5>1. Len(q) + 1 \in 1..Len(pending')
          BY <1>1, <3>4
        <5>2. QED
          BY <3>4, <4>1, <5>1
      <4>2. CASE j # i
        <5>1. PICK k \in 1..Len(q) : q[k] = j
          BY <1>2, <3>6, <3>7, <4>2
        <5>2. k \in 1..Len(pending') /\ pending'[k] = j
          BY <1>1, <3>4, <5>1
        <5>3. QED
          BY <5>2
      <4>3. QED
        BY <4>1, <4>2
    <3>8. Manned'
      BY <1>3, <3>3, <3>6
    <3>9. Bounded'
      BY <1>0, <1>4, <3>5, <3>7 DEF Bounded
    <3>10. QED
      BY <3>8, <3>9 DEF CollectionInv
  <2>3. QED
    BY <2>1, <2>2
<1>5. CASE /\ main' = "join" /\ pending' = <<>>
           /\ stock' = [i \in Items |-> IF stock[i] = "queued" THEN "cancelled" ELSE stock[i]]
  <2>1. Len(<<>>) = 0
    OBVIOUS
  <2>2. Bounded'
    BY <1>0, <1>5, <2>1 DEF Bounded
  <2>3. Manned'
    BY <1>3, <1>5
  <2>4. QED
    BY <2>2, <2>3 DEF CollectionInv
<1>6. QED
  BY <1>4, <1>5 DEF Collect, q

\* So does every step.
LEMMA CollectionStep ==
    ASSUME Typed, CollectionInv, [Next]_vars PROVE CollectionInv'
<1>1. CASE UNCHANGED vars \/ Tick \/ Done
  <2>1. UNCHANGED <<collection, worker, thread>>
    BY <1>1 DEF vars, Tick, Done, pool
  <2>2. QED
    BY <2>1, CollectionRests
<1>2. CASE Close
  <2>1. /\ UNCHANGED <<thread, pending, stock>> /\ main' = "closed"
        /\ worker' = [w \in Threads |-> NoProcess] /\ Joined
        /\ main = "join" \/ pending = <<>>
    BY <1>2 DEF Close
  <2>2. Manned'
    BY <2>1 DEF CollectionInv, Manned
  <2>3. pending = <<>>
    BY <2>1 DEF CollectionInv, Bounded
  <2>4. Bounded'
    BY <2>1, <2>3 DEF CollectionInv, Bounded, Joined
  <2>5. QED
    BY <2>2, <2>4 DEF CollectionInv
<1>3. ASSUME NEW w \in Threads, Answer(w) \/ Die(w) PROVE CollectionInv'
  <2>1. main # "closed"
    BY <1>3 DEF Answer, Die, CollectionInv, Bounded, NoProcess
  <2>2. UNCHANGED <<collection, thread>>
    BY <1>3 DEF Answer, Die
  <2>3. QED
    BY <2>1, <2>2, CollectionRests
<1>4. QED
  BY <1>1, <1>2, <1>3, CollectKeeps, CollectionThread DEF Next

\* An initial segment of the numbers is as large as its last.
LEMMA UpTo == ASSUME NEW n \in Nat PROVE IsFiniteSet(1..n) /\ Cardinality(1..n) = n
BY FS_Interval

\* The values of a function on a finite set are no more than its arguments.
LEMMA ImageBound ==
    ASSUME NEW S, IsFiniteSet(S), NEW f, NEW T, f \in [S -> T], \A y \in T : \E x \in S : f[x] = y
    PROVE  IsFiniteSet(T) /\ Cardinality(T) <= Cardinality(S)
<1>1. f \in Surjection(S, T)
  BY DEF Surjection
<1>2. QED
  BY <1>1, FS_Surjection

\* A bound on the stocks at work, from the threads that run them or from the queue
\* that they wait in.
LEMMA WorkIsBounded ==
    ASSUME Typed, CollectionInv
    PROVE  Cardinality({i \in Items : stock[i] \in {"queued", "running"}}) <= Window
<1> DEFINE S == {i \in Items : stock[i] \in {"queued", "running"}}
<1>0. Window \in Nat /\ Len(pending) \in Nat /\ Len(pending) <= Window /\ IsFiniteSet(Threads)
  BY Sizes, LenProperties, ProviderAssumption DEF Typed, TypeOK, CollectionInv, Bounded
<1>1. CASE main = "collect"
  <2> DEFINE T == {pending[k] : k \in 1..Len(pending)}
  <2>1. IsFiniteSet(1..Len(pending)) /\ Cardinality(1..Len(pending)) = Len(pending)
    BY <1>0, UpTo
  <2>2. IsFiniteSet(T) /\ Cardinality(T) <= Len(pending)
    <3> DEFINE f == [k \in 1..Len(pending) |-> pending[k]]
    <3>1. f \in [1..Len(pending) -> T] /\ \A y \in T : \E x \in 1..Len(pending) : f[x] = y
      OBVIOUS
    <3> HIDE DEF f, T
    <3>2. QED
      BY <2>1, <3>1, ImageBound
  <2>3. S \subseteq T
    BY <1>1 DEF CollectionInv, Bounded
  <2>4. Cardinality(S) <= Cardinality(T) /\ Cardinality(S) \in Nat /\ Cardinality(T) \in Nat
    BY <2>2, <2>3, FS_Subset, FS_CardinalityType
  <2>5. QED
    BY <1>0, <2>2, <2>4
<1>2. CASE main # "collect"
  <2> DEFINE T == {thread[t].item : t \in Threads}
  <2>1. IsFiniteSet(T) /\ Cardinality(T) <= Cardinality(Threads)
    <3> DEFINE f == [t \in Threads |-> thread[t].item]
    <3>1. f \in [Threads -> T] /\ \A y \in T : \E x \in Threads : f[x] = y
      OBVIOUS
    <3> HIDE DEF f, T
    <3>2. QED
      BY <1>0, <3>1, ImageBound
  <2>2. S \subseteq T
    BY <1>2 DEF CollectionInv, Bounded, Manned
  <2>3. Cardinality(S) <= Cardinality(T) /\ Cardinality(S) \in Nat /\ Cardinality(T) \in Nat
    BY <2>1, <2>2, FS_Subset, FS_CardinalityType
  <2>4. QED
    BY <1>0, <2>1, <2>3 DEF Window
<1>3. QED
  BY <1>1, <1>2

\* The checkpoint is never overrun by more stocks than there are threads, and when
\* the scan is over no thread is at work and no process is left.
THEOREM ProviderCollectionIsBounded == Spec => []CollectionIsBounded
<1>1. Typed /\ CollectionInv /\ [Next]_vars => Typed' /\ CollectionInv'
  BY TypeStep, CollectionStep
<1>2. Typed /\ CollectionInv => CollectionIsBounded
  <2> SUFFICES ASSUME Typed, CollectionInv PROVE CollectionIsBounded
    OBVIOUS
  <2>1. main = "closed" => \A t \in Threads : thread[t].pc = "idle"
    BY BusyIsOpen
  <2>2. QED
    BY <2>1, WorkIsBounded DEF CollectionIsBounded, CollectionInv, Bounded, At
<1>3. QED
  BY <1>1, <1>2, TypeInit, CollectionInit, PTL DEF Spec

-----------------------------------------------------------------------------
\* At first every worker is free and every pipe empty.
LEMMA PoolInit == Init => Held /\ Clean
<1> SUFFICES ASSUME Init PROVE Held /\ Clean
  OBVIOUS
<1>1. /\ free \in [1..Window -> Threads] /\ Window \in Nat
      /\ \A i, j \in 1..Window : free[i] = free[j] => i = j
  BY Sizes DEF Init, Window
<1>2. free \in Seq(Threads) /\ Len(free) = Window
  <2>1. free \in Seq(Threads)
    BY <1>1, SeqDef
  <2>2. DOMAIN free = 1..Window
    BY <1>1
  <2>3. QED
    BY <1>1, <2>1, <2>2, LenProperties
<1>3. \A w \in Threads : \E i \in 1..Window : free[i] = w
  <2>1. IsFiniteSet(1..Window) /\ Cardinality(1..Window) = Window
    BY <1>1, UpTo
  <2>2. free \in Injection(1..Window, Threads)
    BY <1>1 DEF Injection, IsInjective
  <2>3. free \in Surjection(1..Window, Threads)
    BY <2>1, <2>2, ProviderAssumption, FS_Injection DEF Window
  <2>4. QED
    BY <2>3 DEF Surjection
<1>4. \A t \in Threads : thread[t].worker = "none" /\ thread[t].pc = "idle"
  BY DEF Init, Idle
<1>5. Held
  <2>1. \A i \in 1..Len(free) : free[i] \in Threads
    BY <1>1, <1>2
  <2>2. QED
    BY <1>1, <1>2, <1>3, <1>4, <2>1, ProviderAssumption DEF Held
<1>6. Clean
  <2>1. \A w \in Threads : worker[w] = NoProcess
    BY DEF Init
  <2>2. NoProcess.request = None /\ NoProcess.pipe = <<>> /\ Len(<<>>) <= 1
    BY DEF NoProcess
  <2>3. AnswerIsMine
    BY <1>4 DEF AnswerIsMine, At
  <2>4. QED
    BY <1>1, <1>2, <2>1, <2>2, <2>3 DEF Clean, Blank
<1>7. QED
  BY <1>5, <1>6

\* A step of a thread keeps workers and threads apart and the pipes clean.
LEMMA PoolThread ==
    ASSUME Typed, Typed', Held, Clean, NEW t \in Threads, Step(t) \/ GiveUp(t)
    PROVE  Held' /\ Clean'
<1>0. thread[t] \in Thread /\ thread'[t] \in Thread /\ Shaped(thread[t]) /\ Shaped(thread'[t])
  BY DEF Typed, TypeOK, Shape
<1>1. CASE Begin(t) \/ Choose(t) \/ Blame(t) \/ Praise(t) \/ Release(t)
  <2>1. UNCHANGED pool
    BY <1>1 DEF Begin, Choose, Blame, Praise, Release, pool
  <2>2. thread[t].pc # "wait"
    BY <1>1 DEF Begin, Choose, Blame, Praise, Release, At
  <2>3. \/ UNCHANGED thread
        \/ /\ thread'[t].pc # "wait"
           /\ \A u \in Threads : u # t => thread'[u] = thread[u]
    <3>1. CASE Begin(t)
      <4>1. PICK i \in Items : UNCHANGED thread \/ Become(t, [Idle EXCEPT !.pc = "choose", !.item = i])
        BY <3>1 DEF Begin
      <4>2. [Idle EXCEPT !.pc = "choose", !.item = i].pc = "choose"
        BY DEF Idle
      <4>3. QED
        BY <4>1, <4>2, ThreadMoves
    <3>2. CASE Choose(t)
      <4>1. PICK s, p : Become(t, [thread[t] EXCEPT !.pc = "take", !.source = s, !.attempt = 0,
                                                    !.seen = retryAt, !.probe = p])
        BY <3>2 DEF Choose
      <4>2. [thread[t] EXCEPT !.pc = "take", !.source = s, !.attempt = 0,
                              !.seen = retryAt, !.probe = p].pc = "take"
        BY <1>0 DEF Thread
      <4>3. QED
        BY <4>1, <4>2, ThreadMoves
    <3>3. CASE Blame(t)
      <4>1. Become(t, [thread[t] EXCEPT !.pc = "take", !.source = "bars-sina", !.attempt = 0])
        BY <3>3 DEF Blame
      <4>2. [thread[t] EXCEPT !.pc = "take", !.source = "bars-sina", !.attempt = 0].pc = "take"
        BY <1>0 DEF Thread
      <4>3. QED
        BY <4>1, <4>2, ThreadMoves
    <3>4. CASE Praise(t)
      <4>1. Become(t, [thread[t] EXCEPT !.pc = "release"])
        BY <3>4 DEF Praise
      <4>2. [thread[t] EXCEPT !.pc = "release"].pc = "release"
        BY <1>0 DEF Thread
      <4>3. QED
        BY <4>1, <4>2, ThreadMoves
    <3>5. CASE Release(t)
      <4>1. Become(t, Idle) /\ Idle.pc = "idle"
        BY <3>5 DEF Release, Idle
      <4>2. QED
        BY <4>1, ThreadMoves
    <3>6. QED
      BY <1>1, <3>1, <3>2, <3>3, <3>4, <3>5
  <2>4. thread[t].worker = "none" /\ (thread'[t].pc # "wait" => thread'[t].worker = "none")
    BY <1>0, <2>2 DEF Shaped
  <2>5. QED
    BY <2>1, <2>3, <2>4, PoolRests
<1>2. QED
  BY <1>1, PoolSend, PoolEnds DEF Step

\* So does every step.
LEMMA PoolStep ==
    ASSUME Typed, Typed', Held, Clean, CollectionInv, [Next]_vars PROVE Held' /\ Clean'
<1>1. CASE UNCHANGED vars \/ Collect \/ Tick \/ Done
  <2>1. UNCHANGED <<pool, thread>>
    BY <1>1 DEF vars, Collect, Tick, Done
  <2>2. QED
    BY <2>1, PoolRests
<1>2. CASE Close
  <2>1. UNCHANGED <<free, thread>> /\ worker' = [w \in Threads |-> NoProcess] /\ Joined
    BY <1>2 DEF Close
  <2>2. \A t \in Threads : thread[t].pc = "idle"
    BY <2>1, BusyIsOpen DEF Joined
  <2>3. Held'
    BY <2>1 DEF Held
  <2>4. NoProcess.request = None /\ NoProcess.pipe = <<>> /\ Len(<<>>) <= 1
    BY DEF NoProcess
  <2>5. \A i \in 1..Len(free) : free[i] \in Threads
    BY DEF Typed, TypeOK
  <2>6. AnswerIsMine'
    BY <2>1, <2>2 DEF AnswerIsMine, At
  <2>7. QED
    BY <2>1, <2>3, <2>4, <2>5, <2>6 DEF Clean, Blank
<1>3. QED
  BY <1>1, <1>2, PoolWorker, PoolThread DEF Next

\* A thread that takes a worker finds one free: those that wait hold one each, and
\* there are as many workers as threads.
LEMMA OneIsFree ==
    ASSUME Typed, Held, NEW t \in Threads, thread[t].pc = "take" PROVE free # <<>>
<1>1. SUFFICES ASSUME free = <<>> PROVE FALSE
  OBVIOUS
<1> DEFINE H == {u \in Threads : thread[u].worker # "none"}
           f == [u \in H |-> thread[u].worker]
<1>2. \A w \in Threads : \E u \in H : thread[u].worker = w
  <2>1. SUFFICES ASSUME NEW w \in Threads PROVE \E u \in H : thread[u].worker = w
    OBVIOUS
  <2>2. \A i \in 1..Len(free) : FALSE
    BY <1>1
  <2>3. PICK u \in Threads : thread[u].worker = w
    BY <2>2 DEF Held
  <2>4. w # "none"
    BY ProviderAssumption
  <2>5. QED
    BY <2>3, <2>4
<1>3. t \notin H
  BY DEF Typed, TypeOK, Shape, Shaped
<1>4. H \subseteq Threads \ {t}
  BY <1>3
<1>5. f \in [H -> Threads] /\ \A w \in Threads : \E u \in H : f[u] = w
  <2>1. \A u \in H : thread[u].worker \in Threads
    BY DEF Typed, TypeOK, Thread
  <2>2. QED
    BY <1>2, <2>1
<1> HIDE DEF H, f
<1>6. /\ IsFiniteSet(Threads) /\ IsFiniteSet(Threads \ {t})
      /\ Cardinality(Threads \ {t}) = Cardinality(Threads) - 1
  BY ProviderAssumption, FS_RemoveElement
<1>7. IsFiniteSet(H) /\ Cardinality(H) <= Cardinality(Threads \ {t})
  BY <1>4, <1>6, FS_Subset
<1>8. Cardinality(Threads) <= Cardinality(H)
  BY <1>5, <1>7, ImageBound
<1>9. Cardinality(Threads) \in Nat /\ Cardinality(H) \in Nat
  BY <1>6, <1>7, FS_CardinalityType
<1>10. QED
  BY <1>6, <1>7, <1>8, <1>9

\* However requests time out and processes die or answer late, a thread is answered
\* only with what it asked for, no worker is used by two threads, and a thread that
\* needs a worker finds one free.
LEMMA ProviderAnswersAreOwn == Spec => [](AnswerIsMine /\ WorkerForEach)
<1>1. Typed /\ Held /\ Clean /\ CollectionInv /\ [Next]_vars
          => Typed' /\ Held' /\ Clean' /\ CollectionInv'
  BY TypeStep, PoolStep, CollectionStep
<1>2. Typed /\ Held /\ Clean => AnswerIsMine /\ WorkerForEach
  <2> SUFFICES ASSUME Typed, Held, Clean PROVE AnswerIsMine /\ WorkerForEach
    OBVIOUS
  <2>1. AnswerIsMine
    BY DEF Clean
  <2>2. WorkerForEach
    BY OneIsFree DEF Held, WorkerForEach, At
  <2>3. QED
    BY <2>1, <2>2
<1>3. QED
  BY <1>1, <1>2, TypeInit, PoolInit, CollectionInit, PTL DEF Spec

-----------------------------------------------------------------------------
(* Somebody can go on.                                                      *)

\* While stocks are collected, what is waited for was submitted and not cancelled.
Submitted ==
    main = "collect" =>
        \A k \in 1..Len(pending) : stock[pending[k]] \notin {"new", "cancelled"}

\* At first the window is submitted.
LEMMA SubmittedInit == Init => Submitted
<1> SUFFICES ASSUME Init PROVE Submitted
  OBVIOUS
<1>1. First \in Nat /\ First <= Stocks /\ Stocks \in Nat
  BY Sizes
<1>2. pending = [i \in 1..First |-> i] /\ Len(pending) = First
  <2>1. pending = [i \in 1..First |-> i]
    BY DEF Init
  <2>2. pending \in Seq(1..First) /\ DOMAIN pending = 1..First
    BY <1>1, <2>1, SeqDef
  <2> QED BY <1>1, <2>1, <2>2, LenProperties
<1>3. \A k \in 1..First : pending[k] \in Items /\ stock[pending[k]] = "queued"
  BY <1>1, <1>2 DEF Init, Items
<1> QED BY <1>2, <1>3 DEF Submitted

\* No step takes a stock that is waited for back.
LEMMA SubmittedStep ==
    ASSUME Typed, Submitted, [Next]_vars PROVE Submitted'
<1>0. /\ pending \in Seq(Items) /\ stock \in [Items -> StockStates]
      /\ \A k \in 1..Len(pending) : pending[k] \in Items
  BY DEF Typed, TypeOK
<1>1. ASSUME UNCHANGED <<pending, main>>,
             \A i \in Items : stock'[i] \in {"new", "cancelled"} => stock'[i] = stock[i]
      PROVE  Submitted'
  BY <1>0, <1>1 DEF Submitted
<1>2. CASE UNCHANGED vars \/ Tick \/ Done
  BY <1>1, <1>2 DEF vars, Tick, Done, collection
<1>3. CASE Close
  BY <1>3 DEF Close, Submitted
<1>4. ASSUME NEW w \in Threads, Answer(w) \/ Die(w) PROVE Submitted'
  BY <1>1, <1>4 DEF Answer, Die, collection
<1>5. ASSUME NEW t \in Threads, Step(t) \/ GiveUp(t) PROVE Submitted'
  <2>1. CASE Begin(t)
    BY <1>0, <1>1, <2>1 DEF Begin
  <2>2. CASE Release(t)
    BY <1>0, <1>1, <2>2 DEF Release, Settled
  <2>3. CASE Choose(t) \/ Send(t) \/ Receive(t) \/ GiveUp(t) \/ Blame(t) \/ Praise(t)
    BY <1>1, <2>3 DEF Choose, Send, Receive, GiveUp, Blame, Praise, collection
  <2> QED BY <1>5, <2>1, <2>2, <2>3 DEF Step
<1>6. CASE Collect
  <2> DEFINE q == Tail(pending)
  <2>1. /\ pending # <<>> /\ main = "collect"
    BY <1>6 DEF Collect
  <2>2. /\ q \in Seq(Items) /\ Len(q) = Len(pending) - 1 /\ Len(q) \in Nat /\ Len(pending) \in Nat
        /\ \A k \in 1..Len(q) : q[k] = pending[k + 1] /\ q[k] \in Items
    BY <1>0, <2>1, HeadTailProperties, LenProperties
  <2> HIDE DEF q
  <2>3. \A k \in 1..Len(q) : stock[q[k]] \notin {"new", "cancelled"}
    BY <2>1, <2>2 DEF Submitted
  <2>4. CASE main' = "join"
    BY <2>4 DEF Submitted
  <2>5. CASE Submit(q)
    <3> DEFINE new == {i \in Items : stock[i] = "new"}
    <3>1. CASE new = {}
      <4>1. pending' = q /\ stock' = stock
        BY <2>5, <3>1 DEF Submit
      <4> QED BY <2>3, <4>1 DEF Submitted
    <3>2. CASE new # {}
      <4> DEFINE i == CHOOSE j \in new : \A k \in new : j <= k
      <4>1. i \in Items
        BY <3>2, FirstStock
      <4>2. pending' = Append(q, i) /\ stock' = [stock EXCEPT ![i] = "queued"]
        BY <2>5, <3>2 DEF Submit
      <4> HIDE DEF i
      <4>3. /\ Len(pending') = Len(q) + 1 /\ pending'[Len(q) + 1] = i
            /\ \A k \in 1..Len(q) : pending'[k] = q[k]
        BY <2>2, <4>1, <4>2, AppendProperties
      <4>4. stock'[i] = "queued" /\ \A j \in Items : j # i => stock'[j] = stock[j]
        BY <1>0, <4>1, <4>2
      <4>5. ASSUME NEW k \in 1..Len(pending')
            PROVE  stock'[pending'[k]] \notin {"new", "cancelled"}
        <5>1. k = Len(q) + 1 \/ k \in 1..Len(q)
          BY <2>2, <4>3
        <5> QED BY <2>2, <2>3, <4>3, <4>4, <5>1
      <4> QED BY <4>5 DEF Submitted
    <3> QED BY <3>1, <3>2
  <2> QED BY <1>6, <2>4, <2>5 DEF Collect, q
<1> QED BY <1>2, <1>3, <1>4, <1>5, <1>6 DEF Next

\* What is submitted is begun, what is begun ends, and what ended is collected.
LEMMA GoesOn ==
    ASSUME Typed, Held, CollectionInv, Submitted PROVE SomebodyCanGoOn
<1> SUFFICES ASSUME main # "closed", ~SomebodyCanGoOn PROVE FALSE
  BY DEF SomebodyCanGoOn
<1>0. /\ pending \in Seq(Items) /\ stock \in [Items -> StockStates]
      /\ main \in {"collect", "join", "closed"} /\ thread \in [Threads -> Thread]
  BY DEF Typed, TypeOK
<1>1. \A t \in Threads : thread[t].pc = "idle"
  <2> SUFFICES ASSUME NEW t \in Threads, thread[t].pc # "idle" PROVE FALSE
    OBVIOUS
  <2>1. thread[t].pc \in {"choose", "take", "wait", "blame", "praise", "release"}
    BY <1>0 DEF Thread
  <2>2. CASE thread[t].pc = "take"
    BY <2>2, OneIsFree DEF SomebodyCanGoOn, At
  <2>3. CASE thread[t].pc = "wait"
    <3>1. thread[t].worker \in Threads
      BY <1>0, <2>3 DEF Typed, Shape, Shaped, Thread
    <3> QED BY <2>3, <3>1 DEF SomebodyCanGoOn, At
  <2> QED BY <2>1, <2>2, <2>3 DEF SomebodyCanGoOn, At
<1>2. \A i \in Items : stock[i] # "running"
  BY <1>1 DEF CollectionInv, Manned
<1>3. \A i \in Items : stock[i] # "queued"
  <2> SUFFICES ASSUME {i \in Items : stock[i] = "queued"} # {} PROVE FALSE
    OBVIOUS
  <2> DEFINE Q == {i \in Items : stock[i] = "queued"}
  <2>1. PICK i \in Q : \A j \in Q : i <= j
    <3>1. Q \in SUBSET Items /\ Q # {}
      OBVIOUS
    <3> HIDE DEF Q
    <3> QED BY <3>1, FirstStock
  <2>2. i \in Items /\ stock[i] = "queued" /\ i \in Nat /\ Stocks \in Nat /\ i <= Stocks
    BY <2>1, Sizes DEF Items
  <2>3. ASSUME NEW j \in 1..(i - 1) PROVE stock[j] # "queued"
    <3>1. j \in Items /\ ~ (i <= j)
      BY <2>2 DEF Items
    <3> QED BY <2>1, <3>1
  <2>4. PICK t \in Threads : TRUE
    BY ProviderAssumption
  <2> QED BY <1>1, <2>2, <2>3, <2>4 DEF SomebodyCanGoOn, At
<1>4. Joined
  BY <1>2, <1>3 DEF Joined
<1>5. main = "collect" /\ pending # <<>>
  BY <1>0, <1>4 DEF SomebodyCanGoOn
<1>6. Head(pending) = pending[1] /\ pending[1] \in Items /\ 1 \in 1..Len(pending)
  BY <1>0, <1>5, HeadTailProperties, LenProperties
<1>7. stock[Head(pending)] \in {"ok", "failed"}
  BY <1>0, <1>2, <1>3, <1>5, <1>6 DEF Submitted, StockStates
<1> QED BY <1>5, <1>7 DEF SomebodyCanGoOn

\* No deadlock in the pool, for any number of threads and stocks: until the scan is
\* over the guard of a step of the main thread or of a thread holds.
LEMMA ProviderSomebodyCanGoOn == Spec => []SomebodyCanGoOn
<1>1. Typed /\ Held /\ Clean /\ CollectionInv /\ Submitted /\ [Next]_vars
          => Typed' /\ Held' /\ Clean' /\ CollectionInv' /\ Submitted'
  BY TypeStep, PoolStep, CollectionStep, SubmittedStep
<1>2. Typed /\ Held /\ CollectionInv /\ Submitted => SomebodyCanGoOn
  BY GoesOn
<1> QED BY <1>1, <1>2, TypeInit, PoolInit, CollectionInit, SubmittedInit, PTL DEF Spec

\* What the pool owes its threads, for any number of threads, stocks and attempts: the
\* answers to their own requests, a worker each, and a next step for somebody.
THEOREM ProviderPoolServes == Spec => []PoolServes
BY ProviderAnswersAreOwn, ProviderSomebodyCanGoOn, PTL DEF PoolServes

-----------------------------------------------------------------------------
(* The collection comes to its end.                                         *)

\* A request is an attempt of the limited number of its source.
Tried == \A t \in Threads : thread[t].pc \in {"take", "wait"} => thread[t].attempt < Attempts

\* The measure of a call, place by place.
LEMMA CallLeftIs ==
    ASSUME NEW r,
           NEW tries, tries = 2 * (Attempts - r.attempt)
                              + (IF r.source = "bars" THEN 2 * Attempts + 2 ELSE 0)
    PROVE  /\ r.pc = "idle" => CallLeft(r) = 0
           /\ r.pc = "release" => CallLeft(r) = 1
           /\ r.pc = "praise" => CallLeft(r) = 2
           /\ r.pc = "wait" => CallLeft(r) = tries + 1
           /\ r.pc = "take" => CallLeft(r) = tries + 2
           /\ r.pc = "blame" => CallLeft(r) = 2 * Attempts + 2 + 1
           /\ r.pc = "choose" => CallLeft(r) = 2 * (2 * Attempts + 2) + 1
BY DEF CallLeft

\* A request that ends, however it ends, leaves fewer attempts.
LEMMA RequestRunsOut ==
    ASSUME NEW r \in Thread, r.pc = "wait", r.attempt < Attempts, r.source \in Sources,
           NEW kind \in Kinds
    PROVE  LET q == AfterAnswer(r, kind) IN
           /\ CallLeft(q) < CallLeft(r)
           /\ q.pc \in {"take", "wait"} => q.attempt < Attempts
<1> DEFINE q == AfterAnswer(r, kind)
<1> DEFINE bars == IF r.source = "bars" THEN 2 * Attempts + 2 ELSE 0
<1>0. /\ r.attempt \in Nat /\ Attempts \in Nat /\ bars \in Nat
      /\ r.source = "bars" => bars = 2 * Attempts + 2
  BY Sizes DEF Thread
<1>1. CallLeft(r) = 2 * (Attempts - r.attempt) + bars + 1
  BY CallLeftIs
<1> HIDE DEF bars
<1>2. q \in {AfterRows(r), AfterFailure(r), [r EXCEPT !.pc = "release", !.worker = "none"]}
  BY DEF AfterAnswer, Kinds
<1>3. CASE q.pc \in {"release", "praise", "blame"}
  <2>1. q.pc = "blame" => r.source = "bars"
    BY <1>2 DEF AfterRows, AfterFailure, Thread
  <2>2. /\ q.pc = "release" => CallLeft(q) = 1
        /\ q.pc = "praise" => CallLeft(q) = 2
        /\ q.pc = "blame" => CallLeft(q) = 2 * Attempts + 2 + 1
    BY CallLeftIs
  <2>3. QED
    BY <1>0, <1>1, <1>3, <2>1, <2>2
<1>4. CASE q = [r EXCEPT !.pc = "take", !.attempt = @ + 1, !.worker = "none"]
           /\ r.attempt + 1 < Attempts
  <2>1. q.pc = "take" /\ q.attempt = r.attempt + 1 /\ q.source = r.source
    BY <1>4 DEF Thread
  <2>2. CallLeft(q) = 2 * (Attempts - (r.attempt + 1)) + bars + 2
    BY <2>1, CallLeftIs DEF bars
  <2>3. QED
    BY <1>0, <1>1, <1>4, <2>1, <2>2
<1>5. q.pc \in {"release", "praise", "blame"}
          \/ (q = [r EXCEPT !.pc = "take", !.attempt = @ + 1, !.worker = "none"]
              /\ r.attempt + 1 < Attempts)
  BY <1>2 DEF AfterRows, AfterFailure, Thread
<1>6. QED
  BY <1>3, <1>4, <1>5

\* The measure of a stock and of the main thread.
LEMMA LeftIs ==
    /\ StockLeft["new"] = 3 /\ StockLeft["queued"] = 2 /\ StockLeft["running"] = 1
    /\ StockLeft["ok"] = 0 /\ StockLeft["failed"] = 0 /\ StockLeft["cancelled"] = 0
    /\ MainLeft["collect"] = 2 /\ MainLeft["join"] = 1 /\ MainLeft["closed"] = 0
BY DEF StockLeft, MainLeft

\* One stock moves on.
LEMMA StockMoves ==
    ASSUME stock \in [Items -> StockStates], NEW i \in Items, NEW s \in StockStates,
           stock' = [stock EXCEPT ![i] = s], StockLeft[s] < StockLeft[stock[i]]
    PROVE  Nearer
<1>1. \A j \in Items : StockLeft[stock[j]] \in Nat
  BY LeftIs DEF StockStates
<1>2. /\ stock'[i] = s /\ \A j \in Items : j # i => stock'[j] = stock[j]
      /\ StockLeft[s] \in Nat
  BY LeftIs DEF StockStates
<1>3. ASSUME NEW j \in Items PROVE StockLeft[stock'[j]] <= StockLeft[stock[j]]
  <2>1. CASE j = i
    BY <1>1, <1>2, <2>1
  <2>2. CASE j # i
    BY <1>1, <1>2, <2>2
  <2>3. QED
    BY <2>1, <2>2
<1>4. QED
  BY <1>2, <1>3 DEF Nearer

\* One call moves on.
LEMMA CallMoves ==
    ASSUME Typed, NEW t \in Threads, NEW r, Become(t, r), UNCHANGED collection,
           CallLeft(r) < CallLeft(thread[t])
    PROVE  Nearer
BY ThreadMoves DEF Nearer

\* Every step of a thread brings the collection nearer to its end.
LEMMA ThreadNearer ==
    ASSUME Typed, Typed', CollectionInv, Tried, NEW t \in Threads, Step(t) \/ GiveUp(t)
    PROVE  Nearer /\ Tried'
<1> USE DEF primary, pool
<1>0. /\ thread[t] \in Thread /\ Shaped(thread[t]) /\ stock \in [Items -> StockStates]
      /\ Attempts \in Nat \ {0} /\ Attempts \in Nat
      /\ thread[t].pc \in {"take", "wait"} => thread[t].attempt < Attempts
  BY ProviderAssumption DEF Typed, TypeOK, Shape, Tried
<1>1. ASSUME NEW r, Become(t, r), r.pc \in {"take", "wait"} => r.attempt < Attempts
      PROVE  Tried'
  BY <1>1, ThreadMoves DEF Tried
<1>2. CASE Begin(t)
  <2>1. PICK i \in Items : /\ stock[i] = "queued"
                           /\ \/ stock' = [stock EXCEPT ![i] = "ok"] /\ UNCHANGED thread
                              \/ /\ stock' = [stock EXCEPT ![i] = "running"]
                                 /\ Become(t, [Idle EXCEPT !.pc = "choose", !.item = i])
    BY <1>2 DEF Begin
  <2>2. Nearer
    BY <1>0, <2>1, StockMoves, LeftIs DEF StockStates
  <2>3. Tried'
    <3>1. CASE UNCHANGED thread
      BY <3>1 DEF Tried
    <3>2. CASE Become(t, [Idle EXCEPT !.pc = "choose", !.item = i])
      BY <1>1, <3>2 DEF Idle
    <3>3. QED
      BY <2>1, <3>1, <3>2
  <2>4. QED
    BY <2>2, <2>3
<1>3. CASE Choose(t)
  <2> DEFINE p == now >= retryAt /\ ~probe
  <2> DEFINE r == [thread[t] EXCEPT !.pc = "take", !.source = IF p THEN "bars" ELSE "bars-sina",
                                    !.attempt = 0, !.seen = retryAt, !.probe = p /\ retryAt > 0]
  <2>1. /\ Become(t, r) /\ UNCHANGED collection /\ thread[t].pc = "choose"
        /\ r.pc = "take" /\ r.attempt = 0
    BY <1>0, <1>3 DEF Choose, At, Thread
  <2> HIDE DEF r, p
  <2> DEFINE tries == 2 * (Attempts - r.attempt) + (IF r.source = "bars" THEN 2 * Attempts + 2 ELSE 0)
  <2>2. CallLeft(r) = tries + 2
    BY <2>1, CallLeftIs
  <2>3. tries \in Nat /\ tries <= 4 * Attempts + 2
    BY <1>0, <2>1
  <2> HIDE DEF tries
  <2>4. CallLeft(thread[t]) = 2 * (2 * Attempts + 2) + 1
    BY <2>1, CallLeftIs
  <2>5. QED
    BY <1>0, <1>1, <2>1, <2>2, <2>3, <2>4, CallMoves
<1>4. CASE Send(t)
  <2>1. PICK w : Become(t, [thread[t] EXCEPT !.pc = "wait", !.worker = w])
    BY <1>4 DEF Send
  <2> DEFINE r == [thread[t] EXCEPT !.pc = "wait", !.worker = w]
  <2>2. /\ Become(t, r) /\ UNCHANGED collection /\ thread[t].pc = "take"
        /\ r.pc = "wait" /\ r.attempt = thread[t].attempt /\ r.source = thread[t].source
    BY <1>0, <1>4, <2>1 DEF Send, At, Thread
  <2> HIDE DEF r
  <2> DEFINE tries == 2 * (Attempts - thread[t].attempt)
                      + (IF thread[t].source = "bars" THEN 2 * Attempts + 2 ELSE 0)
  <2>3. CallLeft(r) = tries + 1 /\ CallLeft(thread[t]) = tries + 2
    BY <2>2, CallLeftIs
  <2>4. tries \in Int
    BY <1>0 DEF Thread
  <2> HIDE DEF tries
  <2>5. QED
    BY <1>0, <1>1, <2>2, <2>3, <2>4, CallMoves
<1>5. CASE Receive(t) \/ GiveUp(t)
  <2>1. PICK kind \in Kinds : Become(t, AfterAnswer(thread[t], kind))
    BY <1>5, RequestEnds
  <2>2. thread[t].pc = "wait" /\ thread[t].source \in Sources /\ UNCHANGED collection
    BY <1>0, <1>5 DEF Receive, GiveUp, At, Shaped
  <2> DEFINE r == AfterAnswer(thread[t], kind)
  <2>3. CallLeft(r) < CallLeft(thread[t]) /\ (r.pc \in {"take", "wait"} => r.attempt < Attempts)
    BY <1>0, <2>2, RequestRunsOut
  <2> HIDE DEF r
  <2>4. Become(t, r)
    BY <2>1 DEF r
  <2>5. QED
    BY <1>1, <2>2, <2>3, <2>4, CallMoves
<1>6. CASE Blame(t)
  <2> DEFINE r == [thread[t] EXCEPT !.pc = "take", !.source = "bars-sina", !.attempt = 0]
  <2>1. /\ Become(t, r) /\ UNCHANGED collection /\ thread[t].pc = "blame"
        /\ r.pc = "take" /\ r.attempt = 0 /\ r.source = "bars-sina"
    BY <1>0, <1>6 DEF Blame, At, Thread
  <2> HIDE DEF r
  <2>2. CallLeft(r) = 2 * (Attempts - 0) + 0 + 2 /\ CallLeft(thread[t]) = 2 * Attempts + 2 + 1
    BY <2>1, CallLeftIs
  <2>3. QED
    BY <1>0, <1>1, <2>1, <2>2, CallMoves
<1>7. CASE Praise(t)
  <2> DEFINE r == [thread[t] EXCEPT !.pc = "release"]
  <2>1. /\ Become(t, r) /\ UNCHANGED collection /\ thread[t].pc = "praise" /\ r.pc = "release"
    BY <1>0, <1>7 DEF Praise, At, Thread
  <2> HIDE DEF r
  <2>2. CallLeft(r) = 1 /\ CallLeft(thread[t]) = 2
    BY <2>1, CallLeftIs
  <2>3. QED
    BY <1>1, <2>1, <2>2, CallMoves
<1>8. CASE Release(t)
  <2>1. PICK outcome \in {"ok", "failed"} : stock' = [stock EXCEPT ![thread[t].item] = outcome]
    BY <1>8 DEF Release, Settled
  <2>2. Become(t, Idle) /\ thread[t].pc # "idle"
    BY <1>8 DEF Release, At
  <2>3. thread[t].item \in Items /\ stock[thread[t].item] = "running"
    BY <2>2, BusyIsOpen
  <2>4. outcome \in StockStates /\ StockLeft[outcome] = 0 /\ StockLeft["running"] = 1
    BY LeftIs DEF StockStates
  <2>5. StockLeft[outcome] < StockLeft[stock[thread[t].item]]
    BY <2>3, <2>4
  <2>6. Nearer
    BY ONLY <1>0, <2>1, <2>3, <2>4, <2>5, StockMoves
  <2>7. QED
    BY <1>1, <2>2, <2>6 DEF Idle
<1>9. QED
  BY <1>2, <1>3, <1>4, <1>5, <1>6, <1>7, <1>8 DEF Step

\* So does every step of the main thread.
LEMMA MainNearer ==
    ASSUME Typed, CollectionInv, Tried, Collect \/ Close PROVE Nearer /\ Tried'
<1>0. stock \in [Items -> StockStates] /\ pending \in Seq(Items)
  BY DEF Typed, TypeOK
<1>1. Tried'
  BY DEF Collect, Close, Tried
<1>2. CASE Close
  <2>1. main \in {"join", "collect"} /\ main' = "closed" /\ stock' = stock
    BY <1>2 DEF Close
  <2>2. MainLeft[main'] < MainLeft[main]
    BY <2>1, LeftIs
  <2>3. QED
    BY <1>1, <2>1, <2>2 DEF Nearer
<1>3. CASE Collect /\ Submit(Tail(pending)) /\ UNCHANGED main
  <2> DEFINE new == {i \in Items : stock[i] = "new"}
  <2>1. CASE new = {}
    <3>1. pending' = Tail(pending) /\ UNCHANGED stock /\ pending # <<>>
      BY <1>3, <2>1 DEF Submit, Collect
    <3>2. Len(Tail(pending)) = Len(pending) - 1 /\ Len(pending) \in Nat
      BY <1>0, <3>1, HeadTailProperties, LenProperties
    <3>3. QED
      BY <1>1, <1>3, <3>1, <3>2 DEF Nearer
  <2>2. CASE new # {}
    <3>1. PICK i \in new : stock' = [stock EXCEPT ![i] = "queued"]
      <4>1. \E j \in new : \A k \in new : j <= k
        BY <2>2, FirstStock
      <4>2. QED
        BY <1>3, <2>2, <4>1 DEF Submit
    <3>2. i \in Items /\ stock[i] = "new" /\ "queued" \in StockStates
      BY DEF StockStates
    <3>3. StockLeft["queued"] < StockLeft[stock[i]]
      BY <3>2, LeftIs
    <3>4. Nearer
      BY ONLY <1>0, <3>1, <3>2, <3>3, StockMoves
    <3>5. QED
      BY <1>1, <3>4
  <2>3. QED
    BY <2>1, <2>2
<1>4. CASE /\ Collect /\ main' = "join"
           /\ stock' = [i \in Items |-> IF stock[i] = "queued" THEN "cancelled" ELSE stock[i]]
  <2>1. CASE \E i \in Items : stock[i] = "queued"
    <3>1. \A i \in Items : StockLeft[stock[i]] \in Nat
      BY <1>0, LeftIs DEF StockStates
    <3>2. \A i \in Items : StockLeft[stock'[i]] <= StockLeft[stock[i]]
      BY <1>4, <3>1, LeftIs
    <3>3. \E i \in Items : StockLeft[stock'[i]] < StockLeft[stock[i]]
      BY <1>4, <2>1, LeftIs
    <3>4. QED
      BY <1>1, <3>2, <3>3 DEF Nearer
  <2>2. CASE \A i \in Items : stock[i] # "queued"
    <3>1. stock' = stock /\ main = "collect"
      BY <1>0, <1>4, <2>2 DEF Collect
    <3>2. QED
      BY <1>1, <1>4, <3>1, LeftIs DEF Nearer
  <2>3. QED
    BY <2>1, <2>2
<1>5. QED
  BY <1>1, <1>2, <1>3, <1>4 DEF Collect

\* Every step of the main thread or of a thread brings the collection nearer to its end,
\* and no other step takes anything back, for any number of threads, stocks and
\* attempts.  With ProviderPoolServes: a collection that is scheduled ends.
THEOREM ProviderCollectionRunsOut == Spec => CollectionRunsOut
<1> DEFINE Runs == /\ (Collect \/ Close \/ \E t \in Threads : Step(t) \/ GiveUp(t)) => Nearer
                   /\ Nearer \/ UNCHANGED <<thread, collection>>
<1> DEFINE Inv == Typed /\ CollectionInv /\ Tried
<1>1. ASSUME Inv, Next PROVE Tried' /\ Runs
  <2>0. Typed'
    BY <1>1, TypeStep
  <2>1. ASSUME Collect \/ Close \/ \E t \in Threads : Step(t) \/ GiveUp(t) PROVE Nearer /\ Tried'
    BY <1>1, <2>0, <2>1, MainNearer, ThreadNearer
  <2>2. ASSUME Tick \/ Done \/ \E w \in Threads : Answer(w) \/ Die(w)
        PROVE  UNCHANGED <<thread, collection>> /\ Tried'
    <3>1. UNCHANGED <<thread, collection>>
      BY <2>2 DEF Tick, Done, Answer, Die, vars
    <3>2. QED
      BY <1>1, <3>1 DEF Tried
  <2>3. QED
    BY <1>1, <2>1, <2>2 DEF Next
<1>2. Inv /\ [Next]_vars => Inv' /\ [Runs]_vars
  <2>1. CASE UNCHANGED vars
    BY <2>1, TypeStep, CollectionStep DEF vars, Tried
  <2>2. CASE Next
    BY <1>1, <2>2, TypeStep, CollectionStep
  <2>3. QED
    BY <2>1, <2>2
<1>3. Init => Inv
  BY TypeInit, CollectionInit DEF Init, Tried, Idle
<1>4. QED
  <2> HIDE DEF Inv
  <2>1. CollectionRunsOut <=> [][Runs]_vars
    BY DEF CollectionRunsOut
  <2>2. QED
    BY <1>2, <1>3, <2>1, PTL DEF Spec

=============================================================================
