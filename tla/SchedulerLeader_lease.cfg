CONSTANTS
    i1 = i1
    i2 = i2
    Instances <- TwoInstances
    NoOwner = NoOwner
    TTL = 5
    RenewEvery = 1
    Latency = 1
    Timely = TRUE
    Restart = FALSE
    MaxPipe = 2
    MaxFailures = 2
SPECIFICATION FairSpec
INVARIANTS LeaderHoldsLock LeaderRuns
PROPERTIES LeaseSpec SomeoneLeads
CHECK_DEADLOCK FALSE
