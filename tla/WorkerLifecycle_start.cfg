CONSTANTS
    MaxWorkers = 1
    MaxCrashes = 0
SPECIFICATION Spec
INVARIANT RunningMeansProcessing
