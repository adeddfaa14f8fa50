\* Overlapping uploads, jobs and purges of two principals, one of them an admin.
CONSTANTS
    None = None
    Pending = Pending
    c1 = c1
    c2 = c2
    alice = alice
    bob = bob
    d1 = d1
    d2 = d2
    s1 = s1
    j1 = j1
    j2 = j2
    r1 = r1
    Clients <- OneClient
    Principals <- TwoPrincipals
    Admins <- OneAdmin
    Dumps <- TwoDumps
    Contents <- OneContent
    Jobs <- TwoJobs
    Stamps <- OneStamp
    Results <- OneResult
    MaxFailures = 1
SYMMETRY EvidenceSymmetry
SPECIFICATION Spec
INVARIANTS
    TypeOK
    EvidenceServed
    NoForgottenFiles
    FinishedHasEvidence
CHECK_DEADLOCK FALSE
