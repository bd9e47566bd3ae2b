CONSTANTS
    r1 = r1
    r2 = r2
    r3 = r3
    r4 = r4
    t1 = t1
    t2 = t2
    v = v
    w = w
    zone = zone
    m = m
    n = n
    partOfN = partOfN
    info = info
    h = h
    s = s
    s2 = s2
    Blank = Blank
    NoJob = NoJob
    NoInstance = NoInstance
    Requests <- MCRequests
    Request <- MCRequest
    Keys <- MCKeys
    NormalizeLabel <- MCNormalizeLabel
    Values = {v, w, t1, t2, Blank}
    Tenants = {t1, t2}
    TenantKey = "tenant"
    Names = {m, n, partOfN, info}
    Helps = {h}
    Suffixed <- MCSuffixed
    TargetInfoName = info
    TargetHelp = h
    Scopes = {s, s2}
    BoundLists <- MCBoundLists
    Observable = {1, 2}
    MaxTime = 2
    MaxReports = 3
SPECIFICATION MCSpec
INVARIANTS
    TypeOK
    TenantOnEverySeries
    
    OneTargetEach
    EveryTenantServed
    BucketsShowObserved
