SPECIFICATION FairSpec
CONSTANTS
    s1 = s1
    s2 = s2
    Services <- OneService
    LocalModes = {FALSE}
    TargetWorkers = 3
    MaxJobs = 2
    MaxFaults = 0
    MaxCrashes = 0
    MaxRequests = 0
PROPERTIES
    EventuallyDescaled
CHECK_DEADLOCK FALSE
