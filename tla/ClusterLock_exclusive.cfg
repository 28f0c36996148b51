CONSTANTS
    p1 = p1
    p2 = p2
    Procs <- TwoProcs
    Nobody = Nobody
    Former = Former
    TTL = 6
    Lifetimes <- AMinute
    BeatEvery = 1
    ExtendBelow = 3
    ExtendBy = 6
    Latency = 1
    Faults <- AllButRelease
    MaxFaults = 1
    MaxPipe = 2
SPECIFICATION FairSpec
INVARIANTS SectionExclusive InCare
PROPERTIES LossIsNoticed 
CHECK_DEADLOCK FALSE
