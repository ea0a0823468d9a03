SPECIFICATION FairSpec
CONSTANTS
    w1 = w1
    w2 = w2
    Workers <- OneWorker
    Plan <- TinyPlan
    MaxJobs = 1
    TargetWorkers = 1
    MaxServices = 2
    MaxCancels = 1
    MaxCrashes = 1
    MaxFaults = 1
    MaxLosses = 1
    MaxDisturbances = 2
    MaxChurn = 0
INVARIANTS
    NoInvalidState
    DispatchInOrder
    ResultsConserved
    CompletedJobIsMeasured
    RepublishNeedsFault
    StartedHasDeadline
PROPERTIES
    EventuallyDrained
    ImplementsSubJobQueue
    FinishedForGood
CHECK_DEADLOCK FALSE
