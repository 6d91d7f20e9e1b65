SPECIFICATION SmokeSpec
CONSTANTS
    Hourly = 1
    CurrentBuckets = 1
    BaselineBuckets = 2
    WindowsPerHour = 1
    Threshold = 1
    MinRequests = 3
    AutoBlock = TRUE
    BlockTTL = 4
    InvocationTime = 1
    MaxCounter = 3
    MaxTime = 3
INVARIANT PassIsEarned
INVARIANT WorkingDetectorPasses
CHECK_DEADLOCK FALSE
