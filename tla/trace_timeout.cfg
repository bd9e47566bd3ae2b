CONSTANTS
    r1 = r1
    r2 = r2
    r3 = r3
    own = own
    other = other
    twice = twice
    t1 = t1
    t2 = t2
    s1 = s1
    s2 = s2
    a = a
    b = b
    k = k
    v = v
    w = w
    Unset = Unset
    Requests <- MCRequests
    Request <- MCRequest
    TenantConfigs <- MCTenantConfigs
    Tenants = {t1, t2}
    HeaderNames = {own, other, twice}
    TenantHeader = own
    Quota = 3
    MaxWindow = 1
    MaxFaults = 2
SPECIFICATION SilentServiceSpec
PROPERTIES
    RateLimitCallEnds
CHECK_DEADLOCK FALSE
