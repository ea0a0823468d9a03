SPECIFICATION Spec
CONSTANTS
    w1 = w1
    w2 = w2
    Workers <- TwoWorkers
    Plan <- BenchmarkPlan
    MaxJobs = 1
    TargetWorkers = 1
    MaxServices = 1
    MaxCancels = 0
    MaxCrashes = 0
    MaxFaults = 0
    MaxLosses = 0
    MaxDisturbances = 0
    MaxChurn = 1
SYMMETRY WorkerSymmetry
INVARIANTS
    TypeOK
    CompletedHasData
CHECK_DEADLOCK FALSE
