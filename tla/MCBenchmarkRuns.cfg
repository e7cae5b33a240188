\* Two runs of five kinds, one failing step (not between the loss of a volume
\* and its migration), an operator who also deletes the migration job.
CONSTANTS
    Options <- Mixed
    Fallible <- Recoverable
    DropsJob = TRUE
    MaxRuns = 2
    MaxFaults = 1
SPECIFICATION Spec
INVARIANT
    TypeOK
    LoadIsSeeded
    LoadIsOnNewPods
    FreshIsEmpty
    NothingKeepsRunning
CHECK_DEADLOCK FALSE
