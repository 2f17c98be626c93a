SPECIFICATION LiveSpec
CONSTANTS
    w1 = w1
    Items <- JustOne
    Rejectable <- JustOne
    MayRunLong <- JustOne
    HostsLinger = FALSE
    RetryLimit = 1
    MaxRecovery = 1
    MaxRev = 5
    MaxHost = 2
    MaxTime = 1
    MaxFaults = 0
    MaxRetirements = 1
PROPERTIES EventuallyDecided CancelTakesEffect
CHECK_DEADLOCK FALSE
