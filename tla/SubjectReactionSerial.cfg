SPECIFICATION FairSpec
CONSTANTS
    m1 = m1
    m2 = m2
    r1 = r1
    r2 = r2
    hello = hello
    bye = bye
    None = None
    Messages <- TwoMessages
    Reactions <- TwoReactions
    Contents <- OneContent
    Concurrency = 1
    FaultKinds <- RetryOnly
    MaxRevision = 4
    MaxFaults = 2
PROPERTIES CommitIsReplied AcceptedIsConsumed
