\* Two jobs on one worker, two cancelling request threads, one crash and one database error anywhere.
CONSTANTS
    j1 = j1
    j2 = j2
    r1 = r1
    r2 = r2
    Jobs <- TwoJobs
    Requests <- TwoRequests
    Watched = {}
    MaxWorkers = 1
    MaxCrashes = 1
    MaxFaults = 1
SYMMETRY RequestSymmetry
SPECIFICATION Spec
INVARIANTS
    TypeOK
    TerminalEvidence
    DroppedNeverRan
    FuturesTrackExecutor
    NoZombie
PROPERTIES
    OutcomeStable
    ImplementsLifecycle
CHECK_DEADLOCK FALSE
