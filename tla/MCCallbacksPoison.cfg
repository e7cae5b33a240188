\* One dispatcher and no fault at all; the URL of e2 cannot be parsed.
SPECIFICATION FairSpec
CONSTANTS
    d1 = d1
    d2 = d2
    e1 = e1
    e2 = e2
    e3 = e3
    t1 = t1
    t2 = t2
    Dispatchers = {d1}
    Events = {e1, e2}
    Tenants = {t1, t2}
    TenantOf <- TwoTenants
    MaxAttempts = 2
    TenantLimit = 1
    BatchSize = 2
    Unparsable = {e2}
    MaxPosts = 20
    MaxFaults = 0
    Nil = Nil
PROPERTY
    EventsAreSettled
