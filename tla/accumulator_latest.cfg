CONSTANTS
    a = a
    b = b
    w1 = w1
    w2 = w2
    c1 = c1
    c2 = c2
    Absent = Absent
    Names = {a, b}
    Writers = {w1, w2}
    Scrapers = {}
    Requests <- GaugeRequests
    Metrics <- GaugeMetrics
    Total <- MCTotal
    KindOf <- MCKindOf
    MaxTime = 3
    MetricExpiration = 1
    MaxClock = 1
SPECIFICATION Spec
PROPERTIES
    TimestampsAdvance
