\* Two dispatchers, a tenant with two events and a limit of one, an event whose URL
\* cannot be parsed, one fault.  The bound on POSTs ends the claims.
SPECIFICATION Spec
CONSTANTS
    d1 = d1
    d2 = d2
    e1 = e1
    e2 = e2
    e3 = e3
    t1 = t1
    t2 = t2
    Dispatchers = {d1, d2}
    Events = {e1, e2, e3}
    Tenants = {t1, t2}
    TenantOf <- Shares
    MaxAttempts = 1
    TenantLimit = 1
    BatchSize = 2
    Unparsable = {e2}
    MaxPosts = 2
    MaxFaults = 1
    Nil = Nil
SYMMETRY Symmetry
INVARIANTS
    InFlightIsBounded
CHECK_DEADLOCK FALSE
