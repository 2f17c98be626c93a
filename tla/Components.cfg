SPECIFICATION Spec
CONSTANTS
    p1 = p1
    p2 = p2
    p3 = p3
    g1 = g1
    g2 = g2
    r1 = r1
    r2 = r2
    x1 = x1
    x2 = x2
    None = None
    LeaseHolders = {p1, p2}
    LeaseFaults = 1
    Strangers = 1
    RecordCallers = {p1, p2}
    MaxRevision = 2
    RecordFaults = 1
    ServerOwners = 3
    ServerFaults = 4
    ProvisionBoots = {p1, p2}
    NewestMigration = 2
    ProvisionFaults = 1
    ProcessSlots = {p1, p2}
    MaxOps = 1
    MaxTokens = 3
    MaintenanceFaults = 2
    SignalSubscribers = {p1, p2}
    MaxAttempts = 4
    SignalFaults = 2
    DurableRuntimes = {p1, p2}
    QueueProfiles = {x1, x2}
    MaxQueued = 2
    DurableFaults = 1
    GatewayCallers = {p1, p2}
    Projections = {x1, x2}
    MaxGateways = 2
    GatewayChanges = 1
    MaxWaiting = 2
    GatewayFaults = 1
    MaxActivations = 1
    MaxResources = 2
    MaxTasks = 1
    Senders = {p1, p2}
    Speakers = {p3}
    Readers = {r1}
    ClientKeys = {g1}
    Replies = {g2}
    Inputs = {x1, x2}
    Limit = 1
    MaxSends = 2
    ChatFaults = 1
    Consumers = {p1, p2}
    MaxGenerations = 2
    MaxTimeouts = 1
    Calls = {p1, p2, p3}
    MaxRow = 4
    PageSize = 2
    MaxChanges = 2
    HostBoots = {p1, p2}
    HostFaults = 1
    ClaimHosts = {p1, p2}
    ClaimClients = {x1}
    MaxClaims = 2
    MaxSessions = 1
    ClaimFaults = 1
    SecretCallers = {p1, p2, p3}
    MaxGeneration = 3
    MaxWrites = 4
    SecretFaults = 1
    ChangeCallers = {p1, p2}
    ChangePlans = {x1, x2}
    MaxExecutions = 2
    ChangeVersions = 3
    ChangeFaults = 1
    RouteEditors = {p1, p2}
    RouteInvokers = {p3}
    RouteModels = {x1, x2}
    RouteGateways = {g1, g2}
    RouteRevisions = {r1, r2}
    RouteVersions = 2
    RouteEdits = 2
CHECK_DEADLOCK FALSE
INVARIANTS ServerIsOwned
    ProvisionedInOrder
    ListensOn
    HostIsWhole
    GatewayIsOne
    ScopeIsSettled
    ChatIsComplete
    CallsAreRetired
    CallsAreSettled
PROPERTIES LeaseIsKept
    BodiesAreKept
    MaintenanceIsFenced
    ScansEverything
    RuntimeIsReleased
    ClaimIsOneShot
    MaterialIsKept
    RoutesAreCurrent
    ChangesAsConfirmed
