--------------------------- MODULE TrendCandidates ---------------------------
(***************************************************************************)
(* From daily bars to a Trend Radar candidate: the cache of adjusted bars   *)
(* (trend_radar/application/bar_cache.py), the trend detector (domain/      *)
(* detector.py) and what the scan asks of a stock's bars.                   *)
(*                                                                         *)
(* A session is a number.  A bar has the date, the source, the adjustment   *)
(* it was published under, the time it was fetched, the close and volume.   *)
(***************************************************************************)
EXTENDS SequencesExt, Series

CONSTANTS
    MinDays, MaxDays,      \* 7 and 9
    MaxPullbacks,          \* trend_max_pullback_days
    MaxPullbackPct,        \* trend_max_single_pullback_pct, {} when there is none
    Baseline,              \* trend_baseline_volume_days
    StrongPercent,         \* trend_strong_volume_ratio, in percent
    RefreshDays            \* trend_cache_refresh_days

ASSUME TrendAssumption == MinDays \in Nat \ {0} /\ MaxDays \in Nat /\ Baseline \in Nat
                          /\ RefreshDays \in Nat \ {0}

-----------------------------------------------------------------------------
(* The cache.                                                               *)

Overlap == 3

Dates(bars) == [i \in DOMAIN bars |-> bars[i].date]

\* validate_bars: one source, dates in order and none after the end.
ValidBars(bars, end) ==
    /\ \A i \in 2..Len(bars) : bars[i - 1].date < bars[i].date
    /\ \A i \in DOMAIN bars : bars[i].date <= end
    /\ \A i, j \in DOMAIN bars : bars[i].source = bars[j].source

From(bars, start) == Kept(bars, {i \in DOMAIN bars : bars[i].date >= start})

On(bars, d) == {i \in DOMAIN bars : bars[i].date = d}

\* Equal but for the time of the fetch.
SameBar(a, b) == [a EXCEPT !.fetched = 0] = [b EXCEPT !.fetched = 0]

Refused == [ok |-> FALSE, mode |-> "none", bars |-> <<>>]

Resolved(mode, bars) == [ok |-> TRUE, mode |-> mode, bars |-> bars]

Full(answer, sessions) ==
    IF ~ValidBars(answer, Max(sessions)) THEN Refused
    ELSE Resolved("full", From(answer, Min(sessions)))

\* The cached bars with the fresh ones put over them.
Merged(rows, fresh) ==
    LET dates  == Ascending(Range(Dates(rows)) \cup Range(Dates(fresh)))
        bar(d) == IF On(fresh, d) # {} THEN fresh[Min(On(fresh, d))] ELSE rows[Min(On(rows, d))]
    IN [i \in DOMAIN dates |-> bar(dates[i])]

\* Mutation: it is only asked that the known sessions are still there.
IncrementalDates(rows, answers, from, sessions) ==
    LET fresh == From(answers[1], from)
        over  == From(rows, from)
    IN IF ~ValidBars(fresh, Max(sessions)) THEN Refused
       ELSE IF over = <<>> \/ \E i \in DOMAIN over :
                  \A j \in DOMAIN fresh : over[i].date # fresh[j].date
            THEN Full(answers[2], sessions)
            ELSE Resolved("incremental", Merged(rows, fresh))

\* The sessions from `from` on are read again; any change to those known asks for
\* all of them.
Incremental(rows, answers, from, sessions) ==
    LET fresh == From(answers[1], from)
        over  == From(rows, from)
    IN IF ~ValidBars(fresh, Max(sessions)) THEN Refused
       ELSE IF over = <<>> \/ \E i \in DOMAIN over :
                  \A j \in DOMAIN fresh : ~SameBar(over[i], fresh[j])
            THEN Full(answers[2], sessions)
            ELSE Resolved("incremental", Merged(rows, fresh))

\* resolve_bars; answers[k] is what the provider would answer to the k-th call.
ResolveBars(cached, answers, sessions, now) ==
    LET rows    == From(cached, Min(sessions))
        missing == sessions \ {rows[i].date : i \in DOMAIN rows}
    IN IF cached = <<>> THEN Full(answers[1], sessions)
       ELSE IF ~ValidBars(cached, Max(sessions)) THEN Refused
       ELSE IF rows = <<>> \/ now - Min({rows[i].fetched : i \in DOMAIN rows}) >= RefreshDays
       THEN Full(answers[1], sessions)
       ELSE IF missing = {} THEN Resolved("hit", rows)
       ELSE Incremental(rows, answers,
                        Min({Min(missing), rows[Max({1, Len(rows) - Overlap + 1})].date}),
                        sessions)

-----------------------------------------------------------------------------
(* The detector.                                                            *)

LastBars(bars, n) == SubSeq(bars, Len(bars) - n + 1, Len(bars))

Rebounds(window) == {i \in 2..Len(window) : window[i].close > window[i - 1].close}

\* Twice the numerator of the slope of the closes.
SlopeSign(window) ==
    MapThenSumSet(LAMBDA i : (2 * i - Len(window) - 1) * window[i].close, DOMAIN window)

\* Mutation: the volumes are not looked at.
QualifiesUntraded(window) ==
    /\ \A i \in 1..(Len(window) - 1) : window[Len(window)].close < window[i].close
    /\ SlopeSign(window) < 0
    /\ \A i \in 2..Len(window) : window[i].close # window[i - 1].close
    /\ Cardinality(Rebounds(window)) <= MaxPullbacks
    /\ \A i \in Rebounds(window), limit \in MaxPullbackPct :
          (window[i].close - window[i - 1].close) * 100 <= limit * window[i - 1].close

\* Mutation: the rebounds are counted, and may go as far as they like.
QualifiesUncapped(window) ==
    /\ \A i \in DOMAIN window : window[i].volume > 0
    /\ \A i \in 1..(Len(window) - 1) : window[Len(window)].close < window[i].close
    /\ SlopeSign(window) < 0
    /\ \A i \in 2..Len(window) : window[i].close # window[i - 1].close
    /\ Cardinality(Rebounds(window)) <= MaxPullbacks

\* A window ends at a unique low and falls but for a few bounded rebounds.
Qualifies(window) ==
    LET n == Len(window) IN
    /\ \A i \in DOMAIN window : window[i].volume > 0
    /\ \A i \in 1..(n - 1) : window[n].close < window[i].close
    /\ SlopeSign(window) < 0
    /\ \A i \in 2..n : window[i].close # window[i - 1].close
    /\ Cardinality(Rebounds(window)) <= MaxPullbacks
    /\ \A i \in Rebounds(window), limit \in MaxPullbackPct :
          (window[i].close - window[i - 1].close) * 100 <= limit * window[i - 1].close

\* detect_trend: the longest such window, 0 when there is none.
DetectTrend(bars) ==
    Max({0} \cup {n \in MinDays..MaxDays :
                    n <= Len(bars) /\ Qualifies(LastBars(bars, n))})

-----------------------------------------------------------------------------
(* A stock of the scan.                                                     *)

Required == MaxDays + Baseline

\* Mutation: only the trend itself must be of consecutive sessions.
ConsecutiveTrend(bars, sessions) ==
    LET n     == Min({MaxDays, Len(bars)})
        dates == Ascending(sessions)
    IN /\ n <= Len(dates)
       /\ Dates(LastBars(bars, n)) = SubSeq(dates, Len(dates) - n + 1, Len(dates))

\* The bars are those of the last sessions, without a gap.
Consecutive(bars, sessions) ==
    LET n     == Min({Required, Len(bars)})
        dates == Ascending(sessions)
    IN /\ n <= Len(dates)
       /\ Dates(LastBars(bars, n)) = SubSeq(dates, Len(dates) - n + 1, Len(dates))

Volume(window) == MapThenSumSet(LAMBDA i : window[i].volume, DOMAIN window)

\* Mutation: the baseline runs into the trend.
BeforeOverlaps(bars, n) == SubSeq(bars, Len(bars) - n - Baseline + 2, Len(bars) - n + 1)

\* The baseline: the bars before the last n.
Before(bars, n) == SubSeq(bars, Len(bars) - n - Baseline + 1, Len(bars) - n)

\* The mean volume of the trend is at most that part of the mean of the baseline.
Contracts(trend, baseline) ==
    Volume(trend) * Len(baseline) * 100 <= StrongPercent * Len(trend) * Volume(baseline)

NoCandidate(status) == [status |-> status, days |-> 0, level |-> "none"]

\* fetch, _candidate and analyze_volume: what becomes of a stock.
Outlook(resolved, sessions) ==
    LET bars == resolved.bars
        n    == DetectTrend(bars)
    IN IF \/ ~resolved.ok \/ ~ValidBars(bars, Max(sessions))
          \/ bars = <<>> \/ Last(bars).date # Max(sessions)
       THEN NoCandidate("failed")
       ELSE IF \/ Len(bars) < MinDays + Baseline
               \/ ~Consecutive(bars, sessions)
               \/ n = 0
               \/ Len(bars) < n + Baseline
               \/ ~(Volume(Before(bars, n)) > 0)
       THEN NoCandidate("excluded")
       ELSE [status |-> "candidate", days |-> n,
             level  |-> IF Contracts(LastBars(bars, n), Before(bars, n)) THEN "strong"
                        ELSE "normal"]

=============================================================================
