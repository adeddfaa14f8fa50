\* Requests that share the id a proxy gave them.
CONSTANTS
    r1 = r1
    r2 = r2
    r3 = r3
    trace = trace
    alice = alice
    bob = bob
    Nobody = nobody
    Requests <- ThreeRequests
    Inbound <- OneTrace
    Ids <- AllIds
    Principals <- Everyone
    Keys <- Everyone
    Admins <- OneAdmin
    Viewers <- OneViewer
    Limit = 1
    Window = 2
    MaxExport = 2
    MaxTime = 0
    MixedTime = 0
    MaxFailures = 0
SYMMETRY RequestSymmetry
SPECIFICATION MCSpec
INVARIANTS
    EveryMutationRecorded
CHECK_DEADLOCK FALSE
