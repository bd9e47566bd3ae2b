CONSTANTS
    a = a
    b = b
    w1 = w1
    w2 = w2
    c1 = c1
    c2 = c2
    Absent = Absent
    Names = {a}
    Writers = {w1}
    Scrapers = {c1}
    Requests <- OrderedRequests
    Metrics <- OrderedMetrics
    Total <- MCTotal
    KindOf <- MCKindOf
    MaxTime = 3
    MetricExpiration = 0
    MaxClock = 1
SPECIFICATION FairSpec
INVARIANTS
    ScrapeComplete
PROPERTIES
    TimestampsAdvance
    ShowsCumulativeSeries
    ExpiredSeriesLeave
