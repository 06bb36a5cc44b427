------------------------------- MODULE MCRules -------------------------------
(***************************************************************************)
(* The inputs of the rules.                                                 *)
(***************************************************************************)
EXTENDS Rules

-----------------------------------------------------------------------------
(* Two claims, two pages, one of them in two spellings.                     *)

Url1 == <<"p1", 1>>
Url1b == <<"p1", 2>>
Url2 == <<"p2", 1>>

Claim(id, section, class, urls) == [id |-> id, section |-> section, class |-> class, urls |-> urls]

FirstClaims ==
    {Claim("c1", s, k, u) :
        s \in {"verified_facts", "likely_drivers", "risk_factors"},
        k \in {"verified_fact", "interpretation", "insufficient_evidence"},
        u \in {{}, {Url1}, {Url1, Url1b}, {Url1b, Url2}}}

SecondClaims ==
    {{}} \cup {{Claim(id, "risk_factors", k, u)} :
                  id \in {"c1", "c2"}, k \in {"interpretation", "insufficient_evidence"},
                  u \in {{}, {Url1}, {Url2}}}

Assessment(url, published, status, related) ==
    [url |-> url, published |-> published, status |-> status, related |-> related]

Assessments1 ==
    {{}} \cup {{Assessment(Url1, t, s, r)} :
                  t \in 0..3, s \in {"verified", "uncertain", "unavailable"},
                  r \in {{}, {"c1"}, {"c2"}, {"c1", "c2"}}}

Assessments2 == {{}, {Assessment(Url2, 1, "verified", {"c1"})}}

MCAnswers ==
    [claims       : {{c} \cup d : c \in FirstClaims, d \in SecondClaims},
     assessments  : {a \cup b : a \in Assessments1, b \in Assessments2},
     found        : {{Url1b}, {Url1, Url1b, Url2}},
     sameProvider : {TRUE}]
        \cup
    [claims       : {{c} : c \in FirstClaims},
     assessments  : Assessments1,
     found        : {{Url1b}},
     sameProvider : {FALSE}]

-----------------------------------------------------------------------------
(* Three stocks on pages of one or two.                                     *)

Number(n) == [kind |-> "number", value |-> n]
NoNumber(kind) == [kind |-> kind, value |-> 0]

Row(s, price, pct) == [symbol |-> s, price |-> price, pct |-> pct]

Ten == Number(10)

Rows(s) ==
    {Row(s, Ten, Number(n)) : n \in {299, 300, 500, 501}}
        \cup {Row(s, Ten, NoNumber(k)) : k \in {"missing", "invalid"}}
        \cup {Row(s, p, Number(400)) : p \in {Number(0), NoNumber("missing"), NoNumber("invalid")}}

\* The orders of a list, and a list that lost a stock.
Orders == {<<1, 2, 3>>, <<1, 3, 2>>, <<2, 1, 3>>, <<2, 3, 1>>, <<3, 1, 2>>, <<3, 2, 1>>, <<1, 2>>}

MCMarkets ==
    [a : Rows("A"),
     b : {Row("B", Ten, Number(500)), Row("missing", Ten, Number(500))},
     c : {Row("C", Ten, Number(300)), Row("C", Number(0), Number(300))},
     primary : {"rows", "unavailable", "malformed"}, delayed : {"rows", "timeout"},
     second : Orders, third : Orders, size : 1..2]

MCAttemptsOn(m) ==
    LET list(order) == [i \in DOMAIN order |-> <<m.a, m.b, m.c>>[order[i]]]
        attempt(primary, delayed, second, third) ==
            [primary |-> primary, delayed |-> delayed, size |-> m.size,
             lists   |-> <<<<m.a, m.b, m.c>>, list(second), list(third)>>]
    IN <<attempt(m.primary, m.delayed, m.second, m.third),
         attempt("unavailable", "rows", m.third, m.second)>>

-----------------------------------------------------------------------------
(* A day of two times four bars.                                            *)

Close(p, t) ==
    CASE p = "rising" -> 1000 + 3 * t
      [] p = "spike"  -> IF t = 2 THEN 1030 ELSE 1010 - 2 * t
      [] p = "dip"    -> IF t \in 3..6 THEN 980 + t ELSE 1000 + t
      [] p = "late"   -> IF t < 8 THEN 1000 ELSE 1000 + 5 * (t - 6)

DayBar(p, t) ==
    LET o == Close(p, t - 1)
        c == Close(p, t)
    IN [end |-> t, open |-> o, close |-> c, high |-> Max({o, c}) + 1, low |-> Min({o, c}) - 1,
        volume |-> IF t = 3 THEN 0 ELSE t, amount |-> 1000 * t]

InOrder(p, S) == [i \in 1..Cardinality(S) |-> DayBar(p, Ascending(S)[i])]

MCBarAt(d, t) == DayBar(d.pattern, t)

Disorder(bars, how) ==
    CASE how = "none" -> bars
      [] how = "reversed" -> Reverse(bars)
      [] how = "repeated" -> IF bars = <<>> THEN bars ELSE Append(bars, Head(bars))

MCDays ==
    [pattern : {"rising", "spike", "dip", "late"}, present : SUBSET (1..9),
     order : {"none", "reversed", "repeated"}, malformed : {FALSE}, asOf : {0, 3, 8, 9}]

MCBarsOf(d) == Disorder(InOrder(d.pattern, d.present), d.order)

-----------------------------------------------------------------------------
(* Cached bars of one source, published under one adjustment up to the      *)
(* session that changes it; and prices with gaps in the sessions.           *)

DailyBar(d, source, adjusted, fetched, close, volume) ==
    [date |-> d, source |-> source, adjusted |-> adjusted, fetched |-> fetched,
     close |-> close, volume |-> volume]

Series(S, Bar(_)) == [i \in 1..Cardinality(S) |-> Bar(Ascending(S)[i])]

Now == 10

\* Traded sessions, those of them that were cached, the first session under a new
\* adjustment, and the sources of the two calls.
CachedStocks ==
    [cached : SUBSET (1..5), traded : SUBSET (1..5), changed : 1..6,
     first : {"em", "sina"}, second : {"em", "sina"}, oldest : {3, 9}]

\* Closes; 0 where the stock was not traded.
PricedStocks ==
    [1..7 -> 0..4]

CachedHistory(s) ==
    LET published(source) ==
            Series(s.traded, LAMBDA d : DailyBar(d, source, IF d < s.changed THEN 2 ELSE 1, Now, 5, 20))
    IN [cached   |-> Series({d \in s.cached \cap s.traded : d < s.changed},
                            LAMBDA d : DailyBar(d, "em", IF s.changed = 6 THEN 2 ELSE 1,
                                                IF d = 1 THEN s.oldest ELSE 9, 5, 20)),
        answers  |-> <<published(s.first), published(s.second)>>,
        sessions |-> 1..5, now |-> Now]

\* Volumes: even, at the ratio that makes a contraction and next to it, and sessions
\* without trade in the trend, in the baseline, and where one of them ends.
EvenVolumes == <<20, 20, 20, 20, 20, 20, 20>>
OtherVolumes ==
    {<<20, 20, 20, 20, 11, 11, 11>>, <<20, 20, 20, 20, 11, 12, 11>>, <<20, 20, 20, 0, 20, 20, 20>>,
     <<20, 20, 20, 20, 20, 0, 20>>, <<20, 0, 0, 20, 20, 20, 20>>, <<20, 20, 0, 0, 20, 20, 20>>}

PricedHistory(f, volumes) ==
    LET bars == Series({d \in DOMAIN f : f[d] # 0},
                       LAMBDA d : DailyBar(d, "em", 1, Now, f[d], volumes[d]))
    IN [cached |-> <<>>, answers |-> <<bars, bars>>, sessions |-> 1..7, now |-> Now]

MCStocks ==
    [cache : CachedStocks, closes : {<<>>}, volumes : {<<>>}] \cup
    [cache : {<<>>}, closes : {f \in PricedStocks : f[1] \in {0, 4} /\ f[2] \in {0, 4}},
     volumes : {EvenVolumes}] \cup
    [cache : {<<>>}, closes : {f \in PricedStocks : f[1] = 4 /\ f[2] = 4 /\ f[3] # 0},
     volumes : OtherVolumes]

MCHistoryOf(s) ==
    IF s.closes = <<>> THEN CachedHistory(s.cache) ELSE PricedHistory(s.closes, s.volumes)

=============================================================================
