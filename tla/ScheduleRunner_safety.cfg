CONSTANTS
    s1 = s1
    s2 = s2
    Schedules <- TwoSchedules
    Configs <- AllConfigs
    Manual <- OneSchedule
    FailureCap = 2
    MaxRegister = 3
    MaxStart = 2
SPECIFICATION FairSpec
INVARIANTS NoOverlap NoOrphanTimer LoopAlive
PROPERTIES LoopsEndAtStop KeepsRunning StopResolves
CHECK_DEADLOCK FALSE
