CONSTANTS
    a = a
    b = b
    w1 = w1
    w2 = w2
    c1 = c1
    c2 = c2
    Absent = Absent
    Names = {a, b}
    Writers = {w1}
    Scrapers = {c1}
    Requests <- GaugeRequests
    Metrics <- GaugeMetrics
    Total <- MCTotal
    KindOf <- MCKindOf
    MaxTime = 3
    MetricExpiration = 1
    MaxClock = 3
SPECIFICATION Spec
PROPERTIES
    KeptWhileFresh
