-------------------------- MODULE IntradayFeatures --------------------------
(***************************************************************************)
(* The intraday features of a candidate (tail_radar/domain/intraday.py),    *)
(* from the bars a provider returned and the instant they are asked for.    *)
(*                                                                         *)
(* A bar is named by the number of its end; Session holds the ends a day    *)
(* has, the lunch break is a gap in it.  Prices are integers, and a return  *)
(* is the pair of the prices it is computed from.  A feature that may be    *)
(* None is a set of at most one element.                                    *)
(***************************************************************************)
EXTENDS Integers, Sequences, FiniteSets, FiniteSetsExt

CONSTANTS
    Session,           \* ends of the five-minute bars
    Recent,            \* 7 bars of the steady path
    Early              \* 6 bars of the early spike

ASSUME SessionAssumption == Session \subseteq Nat /\ IsFiniteSet(Session)

-----------------------------------------------------------------------------
(* Which bars are used.                                                     *)

\* _expected_bar_ends: those over by asOf.
Expected(asOf) == {t \in Session : t <= asOf}

\* The positions of the bars that can be used.
Eligible(bars, asOf) == {i \in DOMAIN bars : bars[i].end \in Expected(asOf)}

Ends(bars, at) == {bars[i].end : i \in at}

Repeats(bars, at) == \E i, j \in at : i # j /\ bars[i].end = bars[j].end

OutOfOrder(bars, at) == \E i, j \in at : i < j /\ bars[j].end < bars[i].end

Invalid(bars, at) == at = {} \/ Repeats(bars, at)

Complete(bars, asOf) ==
    LET at == Eligible(bars, asOf)
    IN /\ Expected(asOf) # {} /\ Expected(asOf) \subseteq Ends(bars, at)
       /\ ~Invalid(bars, at)

Issues(bars, malformed, asOf) ==
    LET at  == Eligible(bars, asOf)
        all == Ends(bars, DOMAIN bars)
    IN {issue \in {"future", "duplicate", "out_of_order", "missing", "malformed",
                   "off_session", "none_eligible"} :
          CASE issue = "future"        -> \E t \in all : t > asOf
            [] issue = "duplicate"     -> Repeats(bars, at)
            [] issue = "out_of_order"  -> OutOfOrder(bars, at)
            [] issue = "missing"       -> ~(Expected(asOf) \subseteq Ends(bars, at))
            [] issue = "malformed"     -> malformed
            [] issue = "off_session"   -> \E t \in all : t <= asOf /\ t \notin Session
            [] issue = "none_eligible" -> at = {}}

Status(bars, issues, asOf) ==
    IF Invalid(bars, Eligible(bars, asOf)) THEN "invalid"
    ELSE IF issues # {} THEN "degraded" ELSE "good"

\* bar_by_time: the used bars by their end.
Used(bars, asOf) ==
    LET at == Eligible(bars, asOf)
    IN [t \in IF Invalid(bars, at) THEN {} ELSE Ends(bars, at) |->
           bars[CHOOSE i \in at : bars[i].end = t]]

-----------------------------------------------------------------------------
(* Windows.                                                                 *)

Between(s, t, asOf) == {u \in Expected(asOf) : s <= u /\ u <= t}

\* Mutation: n bars back among those that are there.
PriorPresent(t, n, used, asOf) ==
    {s \in DOMAIN used : Cardinality(Between(s, t, asOf) \cap DOMAIN used) = n + 1}

\* _prior_bar: n bars before t, when that one and those between are there.
Prior(t, n, used, asOf) ==
    {s \in Expected(asOf) : /\ Cardinality(Between(s, t, asOf)) = n + 1
                            /\ Between(s, t, asOf) \subseteq DOMAIN used}

WindowReturn(t, n, used, asOf) ==
    {<<used[t].close, used[s].close>> : s \in Prior(t, n, used, asOf)}

\* In tenths of a percent.
ReturnAtLeast(r, limit) == (r[1] - r[2]) * 1000 >= limit * r[2]

DrawdownAtLeast(peak, current, limit) == (peak - current) * 1000 >= limit * peak

First(asOf) == Min(Expected(asOf))

LastOnes(S, n) == {t \in S : Cardinality({u \in S : u > t}) < n}

FirstOnes(S, n) == {t \in S : Cardinality({u \in S : u < t}) < n}

High(used, S) == Max({used[t].high : t \in S})

Low(used, S) == Min({used[t].low : t \in S})

-----------------------------------------------------------------------------
(* Features.                                                                *)

\* Distances, position and drawdown are functions of `range`.
PriceFeatures(used, complete, asOf) ==
    LET t     == Max(DOMAIN used)
        range == IF complete
                 THEN {<<used[t].close, Low(used, DOMAIN used), High(used, DOMAIN used)>>}
                 ELSE {}
    IN [r5  |-> WindowReturn(t, 1, used, asOf),
        r15 |-> WindowReturn(t, 3, used, asOf),
        r30 |-> WindowReturn(t, 6, used, asOf),
        sinceOpen |-> IF First(asOf) \in DOMAIN used
                      THEN {<<used[t].close, used[First(asOf)].open>>} ELSE {},
        range     |-> range,
        position  |-> {r \in range : r[2] # r[3]}]

Total(used, field) == MapThenSumSet(LAMBDA t : used[t][field], DOMAIN used)

VolumeFeatures(used, complete, asOf) ==
    LET t        == Max(DOMAIN used)
        previous == {used[s].volume : s \in Prior(t, 1, used, asOf)}
        volume   == Total(used, "volume")
        amount   == Total(used, "amount")
    IN [recent       |-> {<<used[t].volume, used[t].amount>>},
        previous     |-> previous,
        acceleration |-> {<<used[t].volume, v>> : v \in {w \in previous : w > 0}},
        vwap         |-> IF complete /\ amount > 0 /\ volume > 0
                         THEN {<<amount, volume, used[t].close>>} ELSE {}]

Steady(used, recent, close, open, high) ==
    /\ \A s, u \in recent : s < u => used[s].close <= used[u].close
    /\ ReturnAtLeast(<<close, open>>, 5)
    /\ (high - close) * 1000 <= 3 * high

\* The return r is that much above the return q of the window before.
Accelerates(r, q) ==
    ReturnAtLeast(r, 5) /\ 1000 * (r[1] * q[2] - q[1] * r[2]) >= 3 * r[2] * q[2]

Spikes(early, open, close) ==
    ReturnAtLeast(<<early, open>>, 10) /\ DrawdownAtLeast(early, close, 10)

Recovers(open, low, high, close) ==
    /\ DrawdownAtLeast(open, low, 5) /\ ReturnAtLeast(<<close, low>>, 8)
    /\ high # low /\ (close - low) * 10 >= 6 * (high - low)

PathFeatures(used, complete, asOf) ==
    LET t      == Max(DOMAIN used)
        times  == DOMAIN used
        price  == PriceFeatures(used, complete, asOf)
        recent == LastOnes(times, Recent)
        close  == used[t].close
        before == UNION {WindowReturn(s, 3, used, asOf) : s \in Prior(t, 3, used, asOf)}
        low    == Low(used, times)
        high   == High(used, times)
        open   == used[First(asOf)].open
        early  == High(used, FirstOnes(times, Early))
    IN [steady    |-> IF ~complete \/ Cardinality(recent) # Recent THEN {}
                      ELSE {Steady(used, recent, close, open, high)},
        late      |-> {Accelerates(p[1], p[2]) : p \in price.r15 \X before},
        spike     |-> IF ~complete \/ Cardinality(times) < Early THEN {}
                      ELSE {Spikes(early, open, close)},
        recovery  |-> IF ~complete THEN {} ELSE {Recovers(open, low, high, close)},
        belowPeak |-> IF ~complete THEN {} ELSE {DrawdownAtLeast(high, close, 10)}]

NoFeatures == [price |-> <<>>, volume |-> <<>>, path |-> <<>>]

\* calculate()
Features(bars, asOf) ==
    LET used     == Used(bars, asOf)
        complete == Complete(bars, asOf)
    IN IF DOMAIN used = {} THEN NoFeatures
       ELSE [price  |-> PriceFeatures(used, complete, asOf),
             volume |-> VolumeFeatures(used, complete, asOf),
             path   |-> PathFeatures(used, complete, asOf)]

Calculate(bars, malformed, asOf) ==
    LET issues == Issues(bars, malformed, asOf)
    IN [status   |-> Status(bars, issues, asOf),
        issues   |-> issues,
        used     |-> DOMAIN Used(bars, asOf),
        features |-> Features(bars, asOf)]

=============================================================================
