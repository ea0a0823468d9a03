SPECIFICATION Spec
CONSTANTS
    w1 = w1
    w2 = w2
    Workers <- OneWorker
    MaxSends = 4
    MaxLosses = 0
    MaxFailures = 1
    MaxCrashes = 1
    MaxKills = 0
INVARIANTS
    TopicsFollowLifecycle
CHECK_DEADLOCK FALSE
