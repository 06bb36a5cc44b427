-------------------------------- MODULE Rules --------------------------------
(***************************************************************************)
(* The pure rules, each applied to every input of a bounded set: what       *)
(* becomes of a research answer, of the provider's pages, of a candidate's  *)
(* intraday bars and of a stock's daily bars.  A behaviour applies one rule *)
(* and starts again; the properties speak of `input` and `result`.          *)
(***************************************************************************)
EXTENDS ResearchEvidence, MarketSnapshot, IntradayFeatures, TrendCandidates

CONSTANTS
    Enabled,           \* the rules a run applies
    AsOf, Retrieved, Finished,     \* of the research
    Answers,                       \* answers of the research provider
    Markets, AttemptsOn(_),        \* markets, and the attempts to fetch them
    Days, BarsOf(_),               \* days, and the bars that were returned of them
    BarAt(_, _),                   \* ... and the bar of a day that ends at a time
    Stocks, HistoryOf(_)           \* stocks, and their cached and published bars

IsSeq(s) == s \in Seq(Range(s))

ASSUME AnswersAssumption ==
    /\ AsOf \in Nat
    /\ \A answer \in Answers : \A a \in answer.assessments : a.published \in Nat

\* Every attempt and every page that is asked for has an answer.
ASSUME MarketsAssumption ==
    \A market \in Markets : \A k \in 1..MaxAttempts :
        LET attempts == AttemptsOn(market)
            attempt  == attempts[k]
        IN /\ k \in DOMAIN attempts
           /\ attempt.primary \in {"rows", "unavailable", "malformed"}
           /\ attempt.delayed \in {"rows", "unavailable", "timeout", "malformed"}
           /\ attempt.size \in Nat \ {0}
           /\ 1 \in DOMAIN attempt.lists
           /\ \A list \in Range(attempt.lists) :
                 /\ IsSeq(list)
                 /\ \A row \in Range(list) : row.price.value \in Int /\ row.pct.value \in Int
           /\ attempt.lists[1] # <<>> =>
                 1..PageCount(attempt.lists, attempt.size) \subseteq DOMAIN attempt.lists

\* Bars of the day in any order, any of them missing or repeated.
ASSUME DaysAssumption ==
    \A d \in Days :
        /\ d.asOf \in Nat
        /\ IsSeq(BarsOf(d))
        /\ \A b \in Range(BarsOf(d)) :
              b.end \in Nat /\ (b.end \in Session => b = BarAt(d, b.end))
        /\ \A t \in Session : BarAt(d, t).end = t

DailyBars == [date : Nat, source : STRING, adjusted : Nat, fetched : Nat, close : Int, volume : Int]

ASSUME StocksAssumption ==
    \A stock \in Stocks :
        LET h == HistoryOf(stock)
        IN /\ h.cached \in Seq(DailyBars)
           /\ \A k \in 1..2 : h.answers[k] \in Seq(DailyBars)
           /\ h.sessions \in SUBSET Nat /\ IsFiniteSet(h.sessions) /\ h.sessions # {}
           /\ h.now \in Int

VARIABLES rule, input, result

vars == <<rule, input, result>>

-----------------------------------------------------------------------------
Init == rule = "none" /\ input = <<>> /\ result = <<>>

Apply(name) == rule = "none" /\ name \in Enabled /\ rule' = name

JudgeAnswer ==
    /\ Apply("answer")
    /\ \E answer \in Answers :
          /\ input' = answer
          /\ result' = Outcome(answer, AsOf, Retrieved, Finished)

TakeSnapshot ==
    /\ Apply("snapshot")
    /\ \E market \in Markets :
          LET snapshot == Snapshot(AttemptsOn(market))
          IN /\ input' = market
             /\ result' = [status    |-> snapshot.status,
                           records   |-> snapshot.records,
                           screening |-> Screening(snapshot.records)]

AnalyseDay ==
    /\ Apply("day")
    /\ \E d \in Days :
          /\ input' = d
          /\ result' = Calculate(BarsOf(d), d.malformed, d.asOf)

JudgeStock ==
    /\ Apply("stock")
    /\ \E stock \in Stocks :
          LET h        == HistoryOf(stock)
              resolved == ResolveBars(h.cached, h.answers, h.sessions, h.now)
          IN /\ input' = stock
             /\ result' = [resolved |-> resolved, outlook |-> Outlook(resolved, h.sessions)]

Again ==
    /\ rule # "none"
    /\ rule' = "none" /\ input' = <<>> /\ result' = <<>>

Next == JudgeAnswer \/ TakeSnapshot \/ AnalyseDay \/ JudgeStock \/ Again

Spec == Init /\ [][Next]_vars

-----------------------------------------------------------------------------
(* Research.                                                                *)

\* The pages an answer assesses as published after the boundary, surely.
PublishedAfter(answer) ==
    {Canonical(a.url) : a \in {b \in answer.assessments :
                                  b.status = "verified" /\ b.published > AsOf}}

PublishedBefore(answer) ==
    {Canonical(a.url) : a \in {b \in answer.assessments :
                                  b.status = "verified" /\ b.published <= AsOf}}

\* A stored artifact cites only pages the search returned, rests no finding on a
\* page published after the boundary, every verified fact on one before it, and
\* its claims and sources name each other (docs/tail-radar.md:136-145).
AcceptedIsPointInTime ==
    rule = "answer" /\ result.status # "failed" =>
        /\ \A c \in result.claims :
              /\ Pages(c.urls) \subseteq Pages(input.found)
              /\ Substantive(c) => Pages(c.urls) # {}
              /\ Substantive(c) => Pages(c.urls) \cap PublishedAfter(input) = {}
              /\ c.class = "verified_fact" => Pages(c.urls) \cap PublishedBefore(input) # {}
        /\ \A s \in result.sources :
              s.related = {c.id : c \in {d \in result.claims : s.page \in Pages(d.urls)}}
        /\ (result.status = "no_evidence") = (result.claims = {})

\* An answer that was judged by every rule on sources, and in which nothing is
\* substantive, is a `no_evidence` artifact (docs/tail-radar.md:144, "absence of
\* useful evidence becomes a successful `no_evidence` artifact").
NoEvidenceIsKept ==
    rule = "answer" /\ ~Useful(input.claims) => result.code # "provenance"

-----------------------------------------------------------------------------
(* The official snapshot and its screening.                                 *)

Listed == Range(AttemptsOn(input)[1].lists[1])

\* Every list of every attempt is of the same market, in whatever order.
SameMarket ==
    \A attempt \in Range(AttemptsOn(input)) : \A list \in Range(attempt.lists) :
        Range(list) = Listed /\ Len(list) = Cardinality(Listed)

InRange(row) ==
    /\ row.symbol \in Symbols
    /\ row.price.kind = "number" /\ row.price.value > 0
    /\ row.pct.kind = "number" /\ row.pct.value \in PctMin..PctMax

\* With no repeated symbol let pass, which is the default (core/config.py:41), an accepted
\* snapshot has no stock twice and no record that is not of the
\* market, even if the market is listed in another order for every page; if every
\* listed row has a symbol it has all of them (the rows without one are let pass up
\* to a ratio, and may be listed twice in the place of a stock); the candidates are
\* exactly its stocks whose readable numbers are in the inclusive range.
SnapshotIsWhole ==
    rule = "snapshot" /\ result.status = "accepted" /\ SameMarket /\ MaxDuplicates = 0 =>
        LET records    == result.records
            candidates == result.screening.candidates
            named      == {row \in Listed : row.symbol \in Symbols}
        IN /\ \A i, j \in DOMAIN records : records[i].symbol = records[j].symbol => i = j
           /\ Range(records) \subseteq {Record(row) : row \in named}
           /\ named = Listed => \A row \in Listed : Record(row) \in Range(records)
           /\ \A i, j \in DOMAIN candidates :
                 candidates[i].symbol = candidates[j].symbol => i = j
           /\ Range(candidates) = {Record(row) : row \in {r \in Listed :
                                      InRange(r) /\ Record(r) \in Range(records)}}

-----------------------------------------------------------------------------
(* Intraday features.                                                       *)

Agree(f, g) == \A k \in DOMAIN f : f[k] \subseteq g[k]

\* All bars of the day up to t.
Gapless(d, t) ==
    LET ends == Ascending(Expected(t)) IN [i \in DOMAIN ends |-> BarAt(d, ends[i])]

\* What is reported does not depend on a bar after the instant, and whatever is
\* missing, a feature that is reported is the one that all bars of the day up to
\* the last used one would give: a gap makes a feature None, never wrong.
FeaturesNeverMislead ==
    rule = "day" =>
        LET f    == result.features
            bars == BarsOf(input)
            past == {i \in DOMAIN bars : bars[i].end <= input.asOf}
        IN
        /\ f = Features(Kept(bars, past), input.asOf)
        /\ result.used # {} =>
              LET t == Max(result.used)
                  g == Features(Gapless(input, t), t)
              IN Agree(f.price, g.price) /\ Agree(f.volume, g.volume) /\ Agree(f.path, g.path)

-----------------------------------------------------------------------------
(* Daily bars and candidates.                                               *)

Vintage(bars) == {<<bars[i].date, bars[i].adjusted>> : i \in DOMAIN bars}

\* What the provider keeps to: both calls publish the same adjustment of the
\* sessions asked for, each session once, and what was cached is still published;
\* a change of the adjustment comes with a session that is not cached, and restates
\* every bar before it.
ProviderKeepsTo(h) ==
    LET known == From(h.cached, Min(h.sessions))
        now   == h.answers[1]
    IN /\ \A k \in 1..2 : \A i \in DOMAIN h.answers[k] :
             h.answers[k][i].date \in h.sessions /\ h.answers[k][i].fetched = h.now
       /\ Vintage(h.answers[2]) = Vintage(now)
       /\ \A i, j \in DOMAIN now : now[i].date = now[j].date => i = j
       /\ Range(Dates(known)) \subseteq Range(Dates(now))
       /\ \/ Vintage(known) \subseteq Vintage(now)
          \/ /\ Vintage(known) \cap Vintage(now) = {}
             /\ ~(h.sessions \subseteq Range(Dates(known)))

\* The series a stock is judged by is what the provider has now: in order, of one
\* source, each session under the adjustment it is published under now, none lost
\* and none added, nothing older than the refresh.
BarsAreConsistent ==
    rule = "stock" /\ result.resolved.ok /\ ProviderKeepsTo(HistoryOf(input)) =>
        LET bars == result.resolved.bars
            h    == HistoryOf(input)
        IN /\ \A i, j \in DOMAIN bars : i < j => bars[i].date < bars[j].date
           /\ \A i, j \in DOMAIN bars : bars[i].source = bars[j].source
           /\ \A i \in DOMAIN bars : h.now - bars[i].fetched < RefreshDays
           /\ Vintage(bars) = Vintage(h.answers[1])

\* A candidate's trend and the baseline before it are the last sessions without a
\* gap, the last close is below every other of the trend, no rebound goes beyond the
\* cap, and no longer window of the stock would have qualified.  Each of its sessions
\* was traded, the baseline was too, and the level compares the two: the sessions of
\* the trend and those right before it, none of them in both
\* (docs/trend-radar.md:197-199).
CandidateIsSupported ==
    rule = "stock" /\ result.outlook.status = "candidate" =>
        LET bars   == result.resolved.bars
            n      == result.outlook.days
            judged == LastBars(bars, n + Baseline)
            trend  == LastBars(bars, n)
            before == SubSeq(judged, 1, Baseline)
        IN /\ n \in MinDays..MaxDays /\ Len(trend) = n /\ Len(judged) = n + Baseline
           /\ Range(Dates(judged)) = {s \in HistoryOf(input).sessions : judged[1].date <= s}
           /\ \A i \in 1..(n - 1) : trend[n].close < trend[i].close
           /\ Cardinality(Rebounds(trend)) <= MaxPullbacks
           /\ \A i \in Rebounds(trend), cap \in MaxPullbackPct :
                 (trend[i].close - trend[i - 1].close) * 100 <= cap * trend[i - 1].close
           /\ (\A i \in 1..n : trend[i].volume > 0) /\ Volume(before) > 0
           /\ result.outlook.level = "strong" <=>
                 Volume(trend) * Baseline * 100 <= StrongPercent * n * Volume(before)
           /\ \A m \in (n + 1)..MaxDays : m <= Len(bars) => ~Qualifies(LastBars(bars, m))

=============================================================================
