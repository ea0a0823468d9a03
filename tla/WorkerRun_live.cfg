SPECIFICATION FairSpec
CONSTANTS
    SyncDelay = 1
    DownloadDelay = 5
    Margin = 2
    MaxDuration = 4
    LogInterval = 2
    Pings = 3
    Heads = 2
    PingTimeout = 2
    MaxChunk = 2
    MaxBytes = 5
    MaxDelays = 2
    MaxFailures = 1
    LatestAnswer = 8
INVARIANTS
    TypeOK
    LogsAddUp
    OneLogPerInterval
    EndsWithinTwice
    QuietAtDownload
    AnsweredUnlessLate
PROPERTIES
    EventuallyAcked
    DownloadsTogether
CHECK_DEADLOCK FALSE
