\* Two dispatchers, one event, no fault: a failed event comes back.
SPECIFICATION Spec
CONSTANTS
    d1 = d1
    d2 = d2
    e1 = e1
    e2 = e2
    e3 = e3
    t1 = t1
    t2 = t2
    Dispatchers = {d1, d2}
    Events = {e1}
    Tenants = {t1}
    TenantOf <- OneEvent
    MaxAttempts = 2
    TenantLimit = 1
    BatchSize = 1
    Unparsable = {}
    MaxPosts = 20
    MaxFaults = 0
    Nil = Nil
PROPERTY
    FailedIsFinal
