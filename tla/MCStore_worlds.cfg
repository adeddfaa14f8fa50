\* One request at a time, and two that overlap on SQLite and on PostgreSQL.
CONSTANTS
    c1 = c1
    c2 = c2
    alice = alice
    bob = bob
    h1 = h1
    h2 = h2
    Worlds <- AllWorlds
    Clients <- TwoClients
    Principals <- TwoPrincipals
    Admins <- OneAdmin
    Hashes <- TwoHashes
    MaxCrashes = 2
    MaxFaults = 2
SYMMETRY ClientSymmetry
SPECIFICATION MCSpec
INVARIANTS
    RowsHaveBytes
    ArtifactsHaveFiles
    SerialReferencesResolve
    SerialSamplesHaveHolders
    SerialNoForgottenFiles
    PostgresSamplesNotForgotten
CHECK_DEADLOCK FALSE
