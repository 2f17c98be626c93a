SPECIFICATION Spec
CONSTANTS
    m1 = m1
    m2 = m2
    r1 = r1
    r2 = r2
    hello = hello
    bye = bye
    None = None
    Messages <- TwoMessages
    Reactions <- TwoReactions
    Contents <- OneContent
    Concurrency = 1
    FaultKinds <- RetryOnly
    MaxRevision = 2
    MaxFaults = 1
INVARIANTS SupersededHasWork
