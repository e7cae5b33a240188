\* Three full runs that leave the cluster running; the check of the password may
\* fail, and the operator does what the message says and no more.
CONSTANTS
    Options <- Kept
    Fallible = {"auth"}
    DropsJob = FALSE
    MaxRuns = 3
    MaxFaults = 1
SPECIFICATION Spec
INVARIANT
    LoadIsSeeded
CHECK_DEADLOCK FALSE
