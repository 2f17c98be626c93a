SPECIFICATION FairSpec
CONSTANTS
    b1 = b1
    b2 = b2
    t1 = t1
    t2 = t2
    None = None
    MaxFaults = 2
    Boots <- TwoBoots
    Tx <- TwoTx
CHECK_DEADLOCK FALSE
INVARIANTS FenceHolds
PROPERTIES ImplementsStore TakeoverCompletes
