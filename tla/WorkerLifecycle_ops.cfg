CONSTANTS
    MaxWorkers = 2
    MaxCrashes = 1
SPECIFICATION FairSpec
INVARIANTS NoStrayWorker WatchesTheWorker CleanupArmed RemovedLeavesNothing InactiveIsIdle
PROPERTIES OperationsReturn BootRecovers
