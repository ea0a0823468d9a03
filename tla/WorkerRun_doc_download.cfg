SPECIFICATION Spec
CONSTANTS
    SyncDelay = 1
    DownloadDelay = 5
    Margin = 2
    MaxDuration = 4
    LogInterval = 2
    Pings = 3
    Heads = 2
    PingTimeout = 2
    MaxChunk = 2
    MaxBytes = 5
    MaxDelays = 0
    MaxFailures = 0
    LatestAnswer = 8
INVARIANTS
    EndsWithinMax
CHECK_DEADLOCK FALSE
