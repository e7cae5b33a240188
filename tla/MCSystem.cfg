\* Two workers, one partition, passes that may outlast the lease, two tickets of
\* two players, one fault, under fairness.
CONSTANTS
    w1 = w1  w2 = w2  m1 = m1  p1 = p1  p2 = p2  q1 = q1
    Nil = Nil
    Workers = {w1, w2}
    Count = 1
    Offset <- Offsets
    LeaseTicks = 1
    HeartbeatTicks = 1
    LeaseBatch = 1
    ElasticRebalance = TRUE
    MaxSetup = 0
    MaxStall = 1
    MaxFaults = 1
    Tickets = {1, 2}
    MatchIds = {m1}
    Players = {p1, p2}
    Queues = {q1}
    PartitionOf <- OnePartition
    Skills = {0}
    SkillDelta <- Deltas
    MaxStage = 0
    BatchSize = 2
    FreshnessBias = TRUE
    MaxPairs = 1
    CommitInOrder = TRUE
SPECIFICATION SFairSpec
INVARIANT
    ContentionMeansExpiry
    MatchesAreCounted
    SInv
PROPERTY
    CompatibleTicketsAreMatched
CHECK_DEADLOCK FALSE
