SPECIFICATION FairSpec
CONSTANTS
    w1 = w1
    w2 = w2
    Workers <- OneWorker
    MaxSends = 3
    MaxLosses = 1
    MaxFailures = 2
    MaxCrashes = 2
    MaxKills = 1
INVARIANTS
    TypeOK
    FollowsUnlessFailed
    NewestUnlessFailed
PROPERTIES
    ImplementsStatusBoard
    EventuallyUnlisted
CHECK_DEADLOCK FALSE
