\* Every input, the cache under three threads, the overlays of two analysts.
CONSTANTS
    Unknown = Unknown
    Note = Note
    t1 = t1
    t2 = t2
    t3 = t3
    k1 = k1
    k2 = k2
    k3 = k3
    alice = alice
    bob = bob
    there = there
    p1 = p1
    s1 = s1
    r1 = r1
    r2 = r2
    Parts = {"binaries", "outside", "cache", "overlays"}
    Host <- HostOf
    Threads <- ThreeThreads
    Keys <- ThreeKeys
    Capacity = 2
    Analysts <- TwoAnalysts
    Admins <- OneAdmin
    Targets <- OneTarget
    Granted <- Grants
    Folders <- OneFolder
    Items <- OneItem
    Requests <- TwoRequests
    MaxRow = 3
SPECIFICATION Spec
INVARIANTS
    ListingsExact
    MemoryFaithful
    ToolsDegrade
    SchemaAdopted
    CacheServes
    OverlaysKept
CHECK_DEADLOCK FALSE
