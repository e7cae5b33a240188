\* Two workers, three partitions, passes that may outlast their leases (but not
\* their heartbeats), one fault, under fairness.
CONSTANTS
    w1 = w1
    w2 = w2
    Nil = Nil
    Workers = {w1, w2}
    Count = 3
    Offset <- Offsets
    LeaseTicks = 2
    HeartbeatTicks = 5
    LeaseBatch = 2
    ElasticRebalance = TRUE
    MaxSetup = 1
    MaxStall = 3
    MaxFaults = 1
SPECIFICATION FairSpec
INVARIANT
    TypeOK
    LeaseProtects
    IInv
PROPERTY
    PartitionsAreServed
    SharesBecomeFair
