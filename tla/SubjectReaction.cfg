SPECIFICATION Spec
CONSTANTS
    m1 = m1
    m2 = m2
    r1 = r1
    r2 = r2
    hello = hello
    bye = bye
    None = None
    Messages <- TwoMessages
    Reactions <- TwoReactions
    Contents <- TwoContents
    Concurrency = 2
    FaultKinds <- AnyFault
    MaxRevision = 4
    MaxFaults = 2
SYMMETRY Symmetry2
INVARIANTS ConversationIsKept ExactlyOneReply
PROPERTY ImplementsReplies
