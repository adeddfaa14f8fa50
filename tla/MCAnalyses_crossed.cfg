\* An update decided before its bookmark was deleted, on SQLite, by two analysts with access.
CONSTANTS
    Unknown = Unknown
    Note = Note
    t1 = t1
    t2 = t2
    t3 = t3
    k1 = k1
    k2 = k2
    k3 = k3
    alice = alice
    bob = bob
    there = there
    p1 = p1
    s1 = s1
    r1 = r1
    r2 = r2
    Parts = {"overlays"}
    Host <- HostOf
    Threads <- ThreeThreads
    Keys <- ThreeKeys
    Capacity = 2
    Analysts <- TwoAnalysts
    Admins = {}
    Targets <- OneTarget
    Granted <- EveryGrant
    Folders <- OneFolder
    Items <- OneItem
    Requests <- TwoRequests
    MaxRow = 3
SPECIFICATION Spec
INVARIANTS
    OwnersWrite
CHECK_DEADLOCK FALSE
