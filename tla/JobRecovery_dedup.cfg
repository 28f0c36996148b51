CONSTANTS
    j1 = j1
    j2 = j2
    r1 = r1
    r2 = r2
    Jobs <- OneJob
    Runs <- OneRun
    Dedup <- OneJob
    Attempts = 2
    MaxJobs = 1
    MaxSubmits = 1
    MaxReplays = 0
SPECIFICATION Spec
INVARIANT EnqueuedMeansQueued
CHECK_DEADLOCK FALSE
