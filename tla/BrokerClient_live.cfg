SPECIFICATION FairSpec
CONSTANTS
    status = status
    job = job
    Publishers <- WorkerPublishers
    Subscribers <- WorkerSubscribers
    StatusPublisher = status
    CloseOrder <- WorkerCloseOrder
    MaxFaults = 2
INVARIANTS
    TypeOK
    NothingOrphaned
PROPERTIES
    ImplementsBrokerLink
    EventuallyReady
    EventuallyDown
    WokenByConnection
CHECK_DEADLOCK FALSE
