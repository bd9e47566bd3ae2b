CONSTANTS
    a = a
    b = b
    w1 = w1
    w2 = w2
    c1 = c1
    c2 = c2
    Absent = Absent
    Names = {a}
    Writers = {w1, w2}
    Scrapers = {c1}
    Requests <- ConcurrentRequests
    Metrics <- ConcurrentMetrics
    Total <- MCTotal
    KindOf <- MCKindOf
    MaxTime = 3
    MetricExpiration = 0
    MaxClock = 1
SPECIFICATION Spec
SYMMETRY WriterSymmetry
INVARIANTS
    TypeOK
    ExactSums
    HistogramCounts
    TruthfulRegistry
