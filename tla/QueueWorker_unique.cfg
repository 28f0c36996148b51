CONSTANTS
    j1 = j1
    j2 = j2
    w1 = w1
    w2 = w2
    Jobs <- OneJob
    Workers <- TwoWorkers
    NoMessage = NoMessage
    Drivers <- OnlyRedis
    JobsOf <- OneInRedis
    MaxAttempts = 2
    InitialAttempts = 0
    UniqueJobs <- OneJob
    Reconciled <- OnlyRedis
    MaxEarly = 0
    Faults <- None
    MaxFaults = 0
SPECIFICATION Spec
INVARIANT NothingLost
CHECK_DEADLOCK FALSE
