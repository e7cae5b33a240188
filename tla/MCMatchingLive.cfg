\* Two workers under fairness, two tickets, skills and waiting times, two queues of
\* one partition, every fault.  Each SELECT of a fetch has room for both tickets: a
\* ticket that is created between the two comes last in one batch, first in another.
CONSTANTS
    w1 = w1  w2 = w2  m1 = m1  m2 = m2  p1 = p1  p2 = p2  p3 = p3  q1 = q1  q2 = q2
    Nil = Nil
    Workers = {w1, w2}
    Tickets = {1, 2}
    MatchIds = {m1}
    Players = {p1, p2}
    Queues = {q1, q2}
    Partitions = {0}
    PartitionOf <- OnePartition
    Skills = {0, 2}
    SkillDelta <- Deltas
    MaxStage = 1
    BatchSize = 4
    FreshnessBias = TRUE
    MaxPairs = 1
    CommitInOrder = TRUE
SPECIFICATION FairSpec
INVARIANT
    SkillsAreClose
    OpponentsDiffer
PROPERTY
    PairsAreResolved
CHECK_DEADLOCK FALSE
