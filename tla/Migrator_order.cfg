CONSTANTS
    a = a
    b = b
    p = p
    q = q
    r = r
    f = f
    g = g
    Migrations <- ThreeNames
    Collides <- Twins
    Projects <- TwoProjects
    Available <- Owns
    Procs <- ThreeProcs
    ProjectOf <- Runs
    LockOf <- RootLocks
    NoProc = NoProc
    Stale = Stale
    Sqlite = TRUE
    MaxRuns = 3
    MaxFaults = 2
SPECIFICATION Spec
INVARIANTS LockIsRun RecordsAgree
PROPERTY StackSpec
CHECK_DEADLOCK FALSE
