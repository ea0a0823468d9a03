SPECIFICATION FairSpec
CONSTANTS
    w1 = w1
    w2 = w2
    Workers <- OneWorker
    Plan <- ProgramPlan
    MaxJobs = 1
    TargetWorkers = 1
    MaxServices = 1
    MaxCancels = 1
    MaxCrashes = 0
    MaxFaults = 0
    MaxLosses = 0
    MaxDisturbances = 1
    MaxChurn = 0
PROPERTIES
    CanceledStays
CHECK_DEADLOCK FALSE
