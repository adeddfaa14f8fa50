\* One job, two cancellation requests racing each other and the worker.
CONSTANTS
    j1 = j1
    j2 = j2
    r1 = r1
    r2 = r2
    Jobs <- OneJob
    Requests <- TwoRequests
    Watched = {}
    MaxWorkers = 1
    MaxCrashes = 0
    MaxFaults = 0
SPECIFICATION Spec
PROPERTIES
    CancelledIsTerminal
CHECK_DEADLOCK FALSE
