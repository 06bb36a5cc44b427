--------------------------- MODULE MarketSnapshot ---------------------------
(***************************************************************************)
(* From the pages of the quote provider to the candidates: the adapter      *)
(* (shared/market_data/adapters/akshare.py), the quality gate of the full   *)
(* snapshot (quality.py, service.py) and the screening rule                 *)
(* (tail_radar/domain/screening.py).                                        *)
(*                                                                         *)
(* A row of the provider has a symbol, a price and a change in hundredths   *)
(* of a percent, each of them possibly missing or unreadable; the other     *)
(* columns go through the same conversion.  A value that may be absent is a *)
(* set of at most one element.                                              *)
(***************************************************************************)
EXTENDS SequencesExt, Series

CONSTANTS
    Symbols,           \* the symbols of six digits
    MinRecords,        \* min_record_count
    MaxDuplicates,     \* max_duplicate_symbols
    MaxMissing,        \* max_missing_symbol_ratio, in percent, as the next three
    MaxBadPrices,      \* max_invalid_price_ratio
    MaxBadPcts,        \* max_invalid_pct_change_ratio
    MaxMalformed,      \* max_malformed_row_ratio
    MaxPct,            \* max_abs_pct_change
    PctMin, PctMax,    \* the inclusive range of the screening
    MaxAttempts        \* of the retry policy

ASSUME SnapshotAssumption == MaxAttempts \in Nat \ {0} /\ PctMin \in Int /\ PctMax \in Int

-----------------------------------------------------------------------------
(* The request.                                                             *)

Failure(kind) == [kind |-> kind, rows |-> <<>>]
Frame(rows)   == [kind |-> "rows", rows |-> rows]

Page(list, page, size) ==
    SubSeq(list, (page - 1) * size + 1, Min({page * size, Len(list)}))

\* The first page fixes the number of pages.
PageCount(lists, size) ==
    LET first == Len(Page(lists[1], 1, size))
    IN (Len(lists[1]) + first - 1) \div first

\* The delayed endpoint page by page; lists[k] is the market when page k is
\* asked for.
Delayed(lists, size) ==
    LET total == Len(lists[1])
        pages == PageCount(lists, size)
        rows  == FlattenSeq([k \in 1..pages |-> Page(lists[k], k, size)])
    IN IF total = 0 THEN Failure("malformed")
       ELSE IF \E k \in 2..pages : Len(lists[k]) # total THEN Failure("malformed")
       ELSE IF Len(rows) # total THEN Failure("malformed")
       ELSE Frame(rows)

\* One attempt: the SDK, and the delayed endpoint when that cannot be reached.
LiveFrame(attempt) ==
    CASE attempt.primary = "rows"        -> Frame(attempt.lists[1])
      [] attempt.primary = "unavailable" ->
            IF attempt.delayed = "rows" THEN Delayed(attempt.lists, attempt.size)
            ELSE Failure(attempt.delayed)
      [] attempt.primary = "malformed"   -> Failure("malformed")

\* A timeout or an unreachable provider is tried again, from the first page; what
\* cannot be read is not.
FetchWithRetry(attempts) ==
    LET over(i) == i = MaxAttempts \/ LiveFrame(attempts[i]).kind \in {"rows", "malformed"}
    IN LiveFrame(attempts[Min({i \in 1..MaxAttempts : over(i)})])

-----------------------------------------------------------------------------
(* Normalisation and quality.                                               *)

Value(raw) == IF raw.kind = "number" THEN {raw.value} ELSE {}

Record(row) == [symbol |-> row.symbol, price |-> Value(row.price), pct |-> Value(row.pct)]

\* A row without a symbol of six digits gives no record, only an issue.
Records(rows) ==
    LET named == Kept(rows, {i \in DOMAIN rows : rows[i].symbol \in Symbols})
    IN [i \in DOMAIN named |-> Record(named[i])]

Unreadable(rows, field) == {i \in DOMAIN rows : rows[i].symbol \in Symbols
                                                /\ rows[i][field].kind = "invalid"}

Unnamed(rows) == {i \in DOMAIN rows : rows[i].symbol = "missing"}

IssueRows(rows) ==
    {i \in DOMAIN rows : rows[i].symbol \notin Symbols}
        \cup Unreadable(rows, "price") \cup Unreadable(rows, "pct")

\* Of nothing, anything is all of it.
Exceeds(count, total, percent) ==
    IF total = 0 THEN count > 0 /\ percent < 100 ELSE count * 100 > percent * total

DuplicateSymbols(records) ==
    Len(records) - Cardinality({records[i].symbol : i \in DOMAIN records})

\* Mutation: symbols may repeat.
ViolationsRepeats(rows) ==
    LET records == Records(rows)
    IN {v \in {"record_count", "malformed"} :
          CASE v = "record_count" -> Len(records) < MinRecords
            [] v = "malformed"    -> Exceeds(Cardinality(IssueRows(rows)), Len(rows), MaxMalformed)}

\* evaluate_snapshot_quality.
Violations(rows) ==
    LET records == Records(rows)
        bad  == {i \in DOMAIN records : \E v \in records[i].price : v <= 0}
        wild == {i \in DOMAIN records : \E v \in records[i].pct : v > MaxPct \/ -v > MaxPct}
        badPrices == Cardinality(Unreadable(rows, "price")) + Cardinality(bad)
        badPcts   == Cardinality(Unreadable(rows, "pct")) + Cardinality(wild)
    IN {v \in {"record_count", "duplicates", "missing_symbol", "price", "pct", "malformed"} :
          CASE v = "record_count"   -> Len(records) < MinRecords
            [] v = "duplicates"     -> DuplicateSymbols(records) > MaxDuplicates
            [] v = "missing_symbol" -> Exceeds(Cardinality(Unnamed(rows)), Len(rows), MaxMissing)
            [] v = "price"          -> Exceeds(badPrices, Len(records), MaxBadPrices)
            [] v = "pct"            -> Exceeds(badPcts, Len(records), MaxBadPcts)
            [] v = "malformed"      -> Exceeds(Cardinality(IssueRows(rows)), Len(rows), MaxMalformed)}

\* fetch() of the snapshot service: the records, or the refusal.
Snapshot(attempts) ==
    LET frame == FetchWithRetry(attempts)
    IN IF frame.kind # "rows" THEN [status |-> frame.kind, records |-> <<>>]
       ELSE IF frame.rows = <<>> THEN [status |-> "malformed", records |-> <<>>]
       ELSE IF Violations(frame.rows) # {} THEN [status |-> "quality", records |-> <<>>]
       ELSE [status |-> "accepted", records |-> Records(frame.rows)]

-----------------------------------------------------------------------------
(* Screening.                                                               *)

\* Mutation: the upper bound is excluded.
DecisionBelow(record) ==
    IF record.pct = {} \/ record.price = {} \/ \E v \in record.price : v <= 0 THEN "invalid"
    ELSE IF \E v \in record.pct : PctMin <= v /\ v < PctMax THEN "included" ELSE "excluded"

\* evaluate() of the rule, for a record of a snapshot with its evidence.
Decision(record) ==
    IF record.pct = {} \/ record.price = {} \/ \E v \in record.price : v <= 0 THEN "invalid"
    ELSE IF \E v \in record.pct : PctMin <= v /\ v <= PctMax THEN "included" ELSE "excluded"

\* The screening run's candidates and counts.
Screening(records) ==
    LET decided(d) == {i \in DOMAIN records : Decision(records[i]) = d}
    IN [candidates |-> Kept(records, decided("included")),
        evaluated  |-> Len(records),
        invalid    |-> Cardinality(decided("invalid"))]

=============================================================================
