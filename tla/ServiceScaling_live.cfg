SPECIFICATION FairSpec
CONSTANTS
    s1 = s1
    s2 = s2
    Services <- TwoServices
    LocalModes = {FALSE}
    TargetWorkers = 3
    MaxJobs = 1
    MaxFaults = 2
    MaxCrashes = 1
    MaxRequests = 0
INVARIANTS
    DatedUntilDisturbed
PROPERTIES
    EventuallyDescaled
CHECK_DEADLOCK FALSE
