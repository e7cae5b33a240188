\* Two workers that both fetch the same tickets, four tickets of three
\* players in one queue, every fault.
CONSTANTS
    w1 = w1  w2 = w2  m1 = m1  m2 = m2  p1 = p1  p2 = p2  p3 = p3  q1 = q1  q2 = q2
    Nil = Nil
    Workers = {w1, w2}
    Tickets = {1, 2, 3, 4}
    MatchIds = {m1, m2}
    Players = {p1, p2, p3}
    Queues = {q1}
    Partitions = {0}
    PartitionOf <- OnePartition
    Skills = {0}
    SkillDelta <- Deltas
    MaxStage = 0
    BatchSize = 4
    FreshnessBias = TRUE
    MaxPairs = 2
    CommitInOrder = TRUE
SPECIFICATION Spec
SYMMETRY Symmetry
INVARIANT
    TypeOK
    NoReservationOutlivesItsTransaction
    NoDoubleMatch
    MatchIsWhole
    OpponentsDiffer
    IInv
PROPERTY
    OutcomesAreFinal
    ImplementsService
CHECK_DEADLOCK FALSE
