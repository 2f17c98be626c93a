------------------------- MODULE InstallationScenes -------------------------
(***************************************************************************)
(* The components that keep an installation and its database, side by side: *)
(* the lease, the records on disk, the private server, the provisioning,    *)
(* the maintenance, the Host, the first Administrator and the secrets.       *)
(***************************************************************************)
EXTENDS Scenes

CONSTANTS
    LeaseHolders, LeaseFaults, Strangers,             \* of BootstrapOwnership
    RecordCallers, MaxRevision, RecordFaults,         \* of BootstrapRecords
    ServerOwners, ServerFaults,                       \* of PrivatePostgres
    ProvisionBoots, NewestMigration, ProvisionFaults, \* of Provisioning
    ProcessSlots, MaxOps, MaxTokens, MaintenanceFaults, \* of Installation
    HostBoots, HostFaults,                            \* of ProductHost
    ClaimHosts, ClaimClients, MaxClaims, MaxSessions, ClaimFaults, \* of FirstAdministrator
    SecretCallers, MaxGeneration, MaxWrites, SecretFaults \* of SecretMaterial

ASSUME OwnershipAssumption ==
    None \notin LeaseHolders /\ LeaseFaults \in Nat /\ Strangers \in Nat

ASSUME RecordsAssumption == MaxRevision \in Nat /\ RecordFaults \in Nat

ASSUME ServerAssumption == ServerOwners \in Nat \ {0} /\ ServerFaults \in Nat

ASSUME ProvisionAssumption ==
    None \notin ProvisionBoots /\ NewestMigration \in Nat \ {0} /\ ProvisionFaults \in Nat

ASSUME MaintenanceAssumption ==
    "none" \notin ProcessSlots /\ MaxOps \in Nat /\ MaxTokens \in Nat /\ MaintenanceFaults \in Nat

ASSUME HostAssumption == None \notin HostBoots /\ HostFaults \in Nat

ASSUME ClaimAssumption == MaxClaims \in Nat /\ MaxSessions \in Nat /\ ClaimFaults \in Nat

ASSUME SecretAssumption ==
    MaxGeneration \in Nat \ {0} /\ MaxWrites \in Nat /\ SecretFaults \in Nat

Ownership == INSTANCE BootstrapOwnership WITH
    Process <- LeaseHolders, MaxFaults <- LeaseFaults, MaxStrange <- Strangers, lock <- v1, stale <- v2, owner <- v3,
    attempts <- v4, releasing <- v5, alive <- v6, reused <- v7, stalled <- v8, pc <- v9,
    how <- v10, lease <- v11, seen <- v12, incomplete <- v13, faults <- v14
Records == INSTANCE BootstrapRecords WITH
    Caller <- RecordCallers, MaxFaults <- RecordFaults, file <- v1, log <- v2, queue <- v3,
    call <- v4, lost <- v5, told <- v6, faults <- v7
Postgres == INSTANCE PrivatePostgres WITH
    Owners <- ServerOwners, MaxFaults <- ServerFaults, directory <- v1, identity <- v2, expected <- v3, server <- v4,
    pending <- v5, startedBy <- v6, owner <- v7, held <- v8, session <- v9, machine <- v10,
    mechanics <- v11, pc <- v12, goal <- v13, ctl <- v14, faults <- v15
Provision == INSTANCE Provisioning WITH
    Boots <- ProvisionBoots, Newest <- NewestMigration, MaxFaults <- ProvisionFaults,
    catalog <- v1, applied <- v2, boot <- v3, owner <- v4, advisory <- v5, torn <- v6, faults <- v7
Upkeep == INSTANCE Installation WITH
    Processes <- ProcessSlots, MaxFaults <- MaintenanceFaults, state <- v1, lock <- v2,
    holder <- v3, journal <- v4, intent <- v5, pointer <- v6, server <- v7, token <- v8,
    advisory <- v9, issued <- v10, proc <- v11, faults <- v12
Product == INSTANCE ProductHost WITH
    Boots <- HostBoots, MaxFaults <- HostFaults, mode <- v1, up <- v2, step <- v3, stuck <- v4, lost <- v5,
    asked <- v6, lock <- v7, holder <- v8, server <- v9, descriptor <- v10, removing <- v11,
    displaced <- v12, faults <- v13
Claim == INSTANCE FirstAdministrator WITH
    Hosts <- ClaimHosts, Clients <- ClaimClients, MaxFaults <- ClaimFaults,
    owner <- v1, claim <- v2, expired <- v3, administrator <- v4, file <- v5,
    maintenance <- v6, held <- v7, started <- v8, active <- v9, timer <- v10, request <- v11,
    session <- v12, bearer <- v13, lapses <- v14, faults <- v15
Secret == INSTANCE SecretMaterial WITH
    Callers <- SecretCallers, MaxFaults <- SecretFaults, row <- v1,
    store <- v2, call <- v3, written <- v4, contested <- v5, faults <- v6
=============================================================================
