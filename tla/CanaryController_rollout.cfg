CONSTANTS
    v2 = v2
    c1 = c1
    c2 = c2
    Versions <- OnlyCanary
    Calls <- TwoCalls
    FailureThreshold = 2
    SuccessThreshold = 2
    VolumeThreshold = 2
    MaxCount = 2
    Canary = v2
    Initial = 0
    Target = 2
    Increment = 1
    MaxOps = 3
SPECIFICATION FairSpec
INVARIANT NeverStranded
PROPERTIES ClosesOnStreak TrafficOnlyRises Recovers RolloutEnds
CHECK_DEADLOCK FALSE
