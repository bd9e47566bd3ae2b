-------------------------- MODULE HistogramBuckets --------------------------
(* The buckets of one delta histogram on their way to Prometheus: what the   *)
(* accumulator makes of the points of a sender, one after the other, and the *)
(* cumulative buckets that the collector shows                               *)
(* (accumulateHistogram and accumulateHistogramValues of                     *)
(* src/exporter/prometheusexporter/accumulator.go, convertDoubleHistogram of *)
(* collector.go).  When entries expire or go, and how senders and scrapes    *)
(* interleave, is the business of Accumulator, which does not look into the  *)
(* buckets.  The sum of the values is handled like their count.              *)
EXTENDS Integers, Sequences, FiniteSets, Functions

CONSTANTS
    BoundLists,   \* the explicit bounds that senders use
    Observable,   \* the values they may observe
    MaxTime,      \* bound: times
    MaxReports    \* bound: points of a series

IsBoundList(bs) ==
    /\ bs \in Seq(Int)
    /\ \A i, j \in DOMAIN bs : i < j => bs[i] < bs[j]

ASSUME BucketsAssumption ==
    /\ \A bs \in BoundLists : IsBoundList(bs)
    /\ Observable \subseteq Int
    /\ MaxTime \in Nat /\ MaxReports \in Nat \ {0}

VARIABLES
    reports,   \* the points that a sender has reported, in their order
    series     \* the point accumulated from them, in the registry

bucketVars == <<reports, series>>

(* What a sender may report: since start it has observed the values seen,    *)
(* finitely many.  A histogram without bounds may come without its only      *)
(* bucket, from a sender that leaves it out always.                          *)
InBucket(v, bounds, i) ==
    /\ i > 1 => bounds[i - 1] < v
    /\ i <= Len(bounds) => v <= bounds[i]

Bucketed(bounds, seen) ==
    [i \in 1 .. Len(bounds) + 1 |-> Cardinality({v \in seen : InBucket(v, bounds, i)})]

Reports ==
    UNION {{[start |-> from, ts |-> to, bounds |-> bs, seen |-> seen,
             counts |-> counts, count |-> Cardinality(seen)] :
                from \in 0 .. to,
                counts \in {Bucketed(bs, seen)} \cup (IF bs = <<>> THEN {<<>>} ELSE {})} :
           to \in 0 .. MaxTime, bs \in BoundLists,
           seen \in {vs \in SUBSET Observable : IsFiniteSet(vs)}}

KeepsForm(r) ==
    \A j \in DOMAIN reports :
        reports[j].bounds = r.bounds => Len(reports[j].counts) = Len(r.counts)

Stored(r) ==
    [series EXCEPT !.known = TRUE, !.ts = r.ts, !.bounds = r.bounds,
                   !.counts = r.counts, !.count = r.count]

(* Mutant: with other bounds the count is added all the same.                *)
accumulateHistogramCounts(r) ==
    IF series.bounds # r.bounds THEN [Stored(r) EXCEPT !.count = @ + series.count]
    ELSE IF Len(series.counts) < Len(r.counts) THEN [series EXCEPT !.panicked = TRUE]
    ELSE [Stored(r) EXCEPT
             !.counts = [i \in DOMAIN @ |-> @[i] + series.counts[i]],
             !.count = @ + series.count]

(* With the same bounds counts are added, by index, which panics when the    *)
(* older point has fewer; otherwise the newer point is used alone.  The point*)
(* that arrives is the newer one: it starts where the other one ends.        *)
accumulateHistogramValues(r) ==
    IF series.bounds # r.bounds THEN Stored(r)
    ELSE IF Len(series.counts) < Len(r.counts) THEN [series EXCEPT !.panicked = TRUE]
    ELSE [Stored(r) EXCEPT
             !.counts = [i \in DOMAIN @ |-> @[i] + series.counts[i]],
             !.count = @ + series.count]

(* The first point, one after a gap, one that continues where the series has *)
(* got to; one that reaches back is dropped.                                 *)
accumulateHistogram(r) ==
    IF ~series.known \/ r.start > series.ts THEN Stored(r)
    ELSE IF r.start = series.ts THEN accumulateHistogramValues(r)
    ELSE series

(* The bounds, each once and in their order, with the cumulative counts.     *)
convertDoubleHistogram ==
    [b \in Range(series.bounds) |->
        SumFunctionOnSet(series.counts, {i \in DOMAIN series.bounds : series.bounds[i] <= b})]

Report(r) ==
    /\ ~series.panicked
    /\ Len(reports) < MaxReports
    /\ KeepsForm(r)
    /\ reports' = Append(reports, r)
    /\ series' = accumulateHistogram(r)

(* A scrape shows what convertDoubleHistogram makes of the series.           *)
ShowBuckets == series.known /\ ~series.panicked /\ UNCHANGED bucketVars

BucketsInit ==
    /\ reports = <<>>
    /\ series = [known |-> FALSE, panicked |-> FALSE, ts |-> 0, bounds |-> <<>>,
                 counts |-> <<>>, count |-> 0]

BucketsNext ==
    \/ \E r \in Reports : Report(r)
    \/ ShowBuckets

BucketsSpec == BucketsInit /\ [][BucketsNext]_bucketVars

-----------------------------------------------------------------------------
(* The reference: a point is accepted if it does not reach back; it counts   *)
(* until a gap, or other bounds, begin the histogram anew.                   *)
Accepts(rs, A) ==
    \A k \in DOMAIN rs : k \in A <=> \A j \in A : j < k => rs[k].start >= rs[j].ts

Accepted == CHOOSE A \in SUBSET DOMAIN reports : Accepts(reports, A)

Continues(k, j) ==
    /\ reports[j].bounds = reports[k].bounds
    /\ \E i \in Accepted : i < j /\ reports[i].ts = reports[j].start

Counted == {k \in Accepted : \A j \in Accepted : j > k => Continues(k, j)}

Observed == UNION {{k} \X reports[k].seen : k \in Counted}

(* Whatever points arrive for a series - aligned, after a gap, reaching back *)
(* or with other bounds - the exporter does not panic, and the endpoint      *)
(* shows, for each bound, how many of the values in the points that count    *)
(* are not above it, and how many there are in all                           *)
(* (accumulateHistogramValues, convertDoubleHistogram).                      *)
BucketsShowObserved ==
    /\ ~series.panicked
    /\ series.count = Cardinality(Observed)
    /\ \A k \in Counted : DOMAIN convertDoubleHistogram = Range(reports[k].bounds)
    /\ \A b \in DOMAIN convertDoubleHistogram :
          convertDoubleHistogram[b] = Cardinality({o \in Observed : o[2] <= b})

=============================================================================
