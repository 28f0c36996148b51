CONSTANTS
    i1 = i1
    i2 = i2
    Instances <- TwoInstances
    NoOwner = NoOwner
    TTL = 2
    RenewEvery = 1
    Latency = 1
    Timely = FALSE
    Restart = FALSE
    MaxPipe = 2
    MaxFailures = 0
SPECIFICATION FairSpec
PROPERTY SplitBrainHeals
CHECK_DEADLOCK FALSE
