SPECIFICATION LiveSpec
CONSTANTS
    w1 = w1
    Items <- JustOne
    Rejectable <- JustOne
    MayRunLong <- None
    HostsLinger = FALSE
    RetryLimit = 1
    MaxRecovery = 1
    MaxRev = 5
    MaxHost = 1
    MaxTime = 1
    MaxFaults = 1
    MaxRetirements = 0
PROPERTIES PendingIsRecovered
CHECK_DEADLOCK FALSE
