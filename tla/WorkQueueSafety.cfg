SPECIFICATION Spec
CONSTANTS
    w1 = w1
    Items <- JustOne
    Rejectable <- JustOne
    MayRunLong <- None
    HostsLinger = TRUE
    RetryLimit = 1
    MaxRecovery = 1
    MaxRev = 2
    MaxHost = 2
    MaxTime = 1
    MaxFaults = 1
    MaxRetirements = 1
INVARIANTS RowsAreSound SuccessIsEarned
PROPERTIES StartsWhenDue ImplementsLifecycle
CHECK_DEADLOCK FALSE
