SPECIFICATION Spec
CONSTANTS
    w1 = w1
    w2 = w2
    Workers <- TwoWorkers
    Plan <- ProgramPlan
    MaxJobs = 1
    TargetWorkers = 2
    MaxServices = 1
    MaxCancels = 0
    MaxCrashes = 0
    MaxFaults = 0
    MaxLosses = 0
    MaxDisturbances = 0
    MaxChurn = 0
INVARIANTS
    CarriedOutSequentially
CHECK_DEADLOCK FALSE
