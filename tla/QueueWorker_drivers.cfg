CONSTANTS
    j1 = j1
    j2 = j2
    w1 = w1
    w2 = w2
    Jobs <- TwoJobs
    Workers <- TwoWorkers
    NoMessage = NoMessage
    Drivers <- BothDrivers
    JobsOf <- TwoInMemory
    MaxAttempts = 2
    InitialAttempts = 0
    UniqueJobs <- None
    Reconciled <- InMemory
    MaxEarly = 1
    Faults <- AllFaults
    MaxFaults = 1
SPECIFICATION FairSpec
INVARIANTS TypeOK Conserved Durable AttemptBudget
PROPERTIES FinalStatus Settles
CHECK_DEADLOCK FALSE
