SPECIFICATION Spec
CONSTANTS
    s1 = s1
    s2 = s2
    Services <- TwoServices
    LocalModes = {FALSE, TRUE}
    TargetWorkers = 3
    MaxJobs = 2
    MaxFaults = 1
    MaxCrashes = 1
    MaxRequests = 1
SYMMETRY ServiceSymmetry
INVARIANTS
    TypeOK
    ScaledPerAttempt
CHECK_DEADLOCK FALSE
