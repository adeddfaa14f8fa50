\* Three requests: two principals, one crash or error; or one principal and a long time.
CONSTANTS
    r1 = r1
    r2 = r2
    r3 = r3
    trace = trace
    alice = alice
    bob = bob
    Nobody = nobody
    Requests <- ThreeRequests
    Inbound <- OneTrace
    Ids <- AllIds
    Principals <- Everyone
    Keys <- Everyone
    Admins <- OneAdmin
    Viewers <- OneViewer
    Limit = 1
    Window = 2
    MaxExport = 1
    MaxTime = 5
    MixedTime = 2
    MaxFailures = 1
SYMMETRY RequestSymmetry
SPECIFICATION MCSpec
INVARIANTS
    TypeOK
    WindowBudget
    RetryHonest
    TrailMatchesAnswers
    ExportExact
CHECK_DEADLOCK FALSE
