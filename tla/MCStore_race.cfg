\* On SQLite, an upload that overlaps a purge.
CONSTANTS
    c1 = c1
    c2 = c2
    alice = alice
    bob = bob
    h1 = h1
    h2 = h2
    Worlds <- Sqlite
    Clients <- TwoClients
    Principals <- TwoPrincipals
    Admins = {}
    Hashes <- TwoHashes
    MaxCrashes = 0
    MaxFaults = 0
SYMMETRY ClientSymmetry
SPECIFICATION MCSpec
INVARIANTS
    ReferencedRemainIntact
CHECK_DEADLOCK FALSE
