--------------------------- MODULE MC_Accumulator ---------------------------
(* Instances of Accumulator for TLC: what the sources count, and the metrics *)
(* of each run.  The increments of MCTotal are all different, so that no two *)
(* intervals have the same value.                                            *)
EXTENDS Accumulator, TLC

CONSTANTS a, b, w1, w2, c1, c2

MCTotal == [s \in Signatures |-> [t \in Times |-> 2 ^ t - 1]]
MCKindOf == [s \in Signatures |-> "int"]

(* One point over (x, y] of a source that counts as MCTotal says.            *)
Of(n, x, y, layout) ==
    [name |-> n, start |-> x, ts |-> y, val |-> 2 ^ y - 2 ^ x, kind |-> "int",
     bounds |-> layout, noRecordedValue |-> FALSE]

Gone(n) == [Of(n, 0, 0, "coarse") EXCEPT !.noRecordedValue = TRUE]

Sum(temporality, monotonic, points) ==
    [type |-> "sum", temporality |-> temporality, monotonic |-> monotonic,
     points |-> points]

Delta(x, y) == Sum("delta", TRUE, <<Of(a, x, y, "coarse")>>)

Cumulative(x, y) == Sum("cumulative", TRUE, <<Of(a, x, y, "coarse")>>)

Plain(type, points) ==
    [type |-> type, temporality |-> "unspecified", monotonic |-> FALSE,
     points |-> points]

Histogram(temporality, x, y, layout) ==
    [type |-> "histogram", temporality |-> temporality, monotonic |-> FALSE,
     points |-> <<Of(a, x, y, layout)>>]

(* Sums: deltas in a row, two points in one metric, a cumulative point, and  *)
(* a point without a value followed by one that is then not looked at.       *)
SumRequests ==
    {<<Delta(2, 3)>>, <<Cumulative(0, 2)>>,
     <<Sum("delta", TRUE, <<Of(a, 0, 1, "coarse"), Of(a, 1, 2, "coarse")>>)>>,
     <<Sum("delta", TRUE, <<Gone(a), Of(a, 0, 3, "coarse")>>)>>}

(* Histograms: deltas in a row that change the layout of the buckets.        *)
HistogramRequests ==
    {<<Histogram("delta", 0, 1, "coarse")>>,
     <<Histogram("delta", 1, 2, "coarse")>>,
     <<Histogram("delta", 1, 2, "fine")>>}

(* Metrics that are dropped, wholly or after the first.                      *)
DroppedRequests ==
    {<<Sum("delta", FALSE, <<Of(a, 0, 3, "coarse")>>), Delta(1, 2)>>,
     <<Histogram("unspecified", 0, 1, "coarse"),
       Plain("exponentialhistogram", <<Of(a, 0, 1, "coarse")>>)>>}

(* Gauges and summaries of two series, two points in time.                   *)
GaugeRequests ==
    {<<Plain("gauge", <<Of(n, 0, t, "coarse")>>)>> : n \in {a, b}, t \in {1, 2}}

ConcurrentRequests == (SumRequests \ {<<Cumulative(0, 2)>>}) \cup HistogramRequests
OrderedRequests ==
    (SumRequests \ {<<Delta(2, 3)>>}) \cup DroppedRequests
        \cup {<<Plain("summary", <<Of(a, 0, 1, "coarse")>>)>>}

MetricsOf(requests) == UNION {{r[i] : i \in DOMAIN r} : r \in requests}
GaugeMetrics == MetricsOf(GaugeRequests)
ConcurrentMetrics == MetricsOf(ConcurrentRequests)
OrderedMetrics == MetricsOf(OrderedRequests)

WriterSymmetry == Permutations({w1, w2})
=============================================================================
