\* No crash and no database error: two jobs contend for one worker while one
\* request thread cancels either of them again and again; j1 is watched.
CONSTANTS
    j1 = j1
    j2 = j2
    r1 = r1
    r2 = r2
    Jobs <- TwoJobs
    Requests <- OneRequest
    Watched <- OneJob
    MaxWorkers = 1
    MaxCrashes = 0
    MaxFaults = 0
SPECIFICATION FairSpec
PROPERTIES
    SubmittedSettles
    CancelHonoured
    StreamEnds
CHECK_DEADLOCK FALSE
