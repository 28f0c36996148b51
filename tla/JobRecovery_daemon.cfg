CONSTANTS
    j1 = j1
    j2 = j2
    r1 = r1
    r2 = r2
    Jobs <- TwoJobs
    Runs <- TwoRuns
    Dedup <- OneJob
    Attempts = 2
    MaxSubmits = 2
    MaxReplays = 1
    MaxJobs = 1
SPECIFICATION FairSpec
INVARIANTS Accounted ExecutedOnce
PROPERTIES SetAsideIsFinal RecoveryEnds
CHECK_DEADLOCK FALSE
