\* Three requests at a time for a pool of two connections, one key, bodies of four
\* players, limits of one waiting ticket (there is one at the start), three requests,
\* one fault.
CONSTANTS
    h1 = h1  h2 = h2  h3 = h3  a = a  b = b  c = c  d = d  k1 = k1  t1 = t1
    Nil = Nil
    Handlers = {h1, h2, h3}
    Bodies = {a, b, c, d}
    Tenants = {t1}
    TenantOf <- OneTenant
    SlotOf <- OwnSlots
    PartitionOf <- OnePartition
    Keys = {k1}
    Tickets = {1, 2, 3, 4}
    OldTickets = {1}
    RateLimit = 2
    MaxInFlight = 1
    MaxDepth = 2
    PoolSize = 2
    MaxRequests = 3
    MaxFaults = 1
SPECIFICATION Spec
SYMMETRY Symmetry
INVARIANT
    TypeOK
    OneTicketPerKey
    KeysHaveTickets
    RepliesAgree
    OvershootIsBounded
    RequestsGoOn
CHECK_DEADLOCK FALSE
