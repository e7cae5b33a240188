\* Two dispatchers race for one event through crashes, failed writes and
\* overrun locks, under fairness.
SPECIFICATION FairSpec
CONSTANTS
    d1 = d1
    d2 = d2
    e1 = e1
    e2 = e2
    e3 = e3
    t1 = t1
    t2 = t2
    Dispatchers = {d1, d2}
    Events = {e1}
    Tenants = {t1}
    TenantOf <- OneEvent
    MaxAttempts = 3
    TenantLimit = 1
    BatchSize = 1
    Unparsable = {}
    MaxPosts = 20
    MaxFaults = 3
    Nil = Nil
INVARIANTS
    TypeOK
    DeliveredWasReceived
    GivesUpLate
    OutcomesAgree
    IInv
PROPERTY
    EventsAreSettled
    ImplementsOutbox
