\* One partition, no fault, and a pass that outlasts its lease.
CONSTANTS
    w1 = w1
    w2 = w2
    Nil = Nil
    Workers = {w1, w2}
    Count = 1
    Offset <- SameOffset
    LeaseTicks = 1
    HeartbeatTicks = 1
    LeaseBatch = 1
    ElasticRebalance = TRUE
    MaxSetup = 2
    MaxStall = 2
    MaxFaults = 0
SPECIFICATION Spec
INVARIANT
    OneOwnerAtATime
