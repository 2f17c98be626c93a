---------------------------- MODULE ServiceScenes ---------------------------
(***************************************************************************)
(* The components that serve a running Host, side by side: signals, the     *)
(* reconciler of work, the durable runtime, managed changes, model routes,  *)
(* the cognition Gateway, activations, chat, generations and persistence.   *)
(***************************************************************************)
EXTENDS Scenes

CONSTANTS
    SignalSubscribers, MaxAttempts, SignalFaults,     \* of SignalListener
    MaxRow, PageSize, MaxChanges,                     \* of WorkReconciler
    DurableRuntimes, QueueProfiles, MaxQueued, DurableFaults, \* of DurableRuntime
    ChangeCallers, ChangePlans, MaxExecutions,
    ChangeVersions, ChangeFaults,                     \* of ManagedChange
    RouteEditors, RouteInvokers, RouteModels, RouteGateways,
    RouteRevisions, RouteVersions, RouteEdits,        \* of ModelRoute
    GatewayCallers, Projections, MaxGateways,
    GatewayChanges, MaxWaiting, GatewayFaults,        \* of CognitionGateway
    MaxActivations, MaxResources, MaxTasks,           \* of ActivationScope
    Senders, Speakers, Readers, ClientKeys, Replies, Inputs,
    Limit, MaxSends, ChatFaults,                      \* of SubjectChat
    Consumers, MaxGenerations, MaxTimeouts,           \* of GenerationCalls
    Calls                                             \* of PersistenceService

ASSUME SignalAssumption == MaxAttempts \in Nat /\ SignalFaults \in Nat

ASSUME ReconcilerAssumption == MaxRow \in Nat /\ PageSize \in Nat \ {0} /\ MaxChanges \in Nat

ASSUME DurableAssumption ==
    None \notin DurableRuntimes \cup QueueProfiles /\ MaxQueued \in Nat /\ DurableFaults \in Nat

ASSUME ChangeAssumption ==
    /\ None \notin ChangePlans \cup {"SUCCEEDED", "FAILED"}
    /\ MaxExecutions \in Nat /\ ChangeVersions \in Nat \ {0} /\ ChangeFaults \in Nat

ASSUME RouteAssumption ==
    /\ RouteEditors \cap RouteInvokers = {} /\ RouteModels \cap RouteGateways = {}
    /\ {"binding", "activation"} \cap (RouteModels \cup RouteGateways) = {}
    /\ None \notin RouteEditors \cup RouteInvokers
    /\ None \notin RouteModels \cup RouteGateways \cup RouteRevisions \cup {"on", "off"}
    /\ RouteVersions \in Nat \ {0} /\ RouteEdits \in Nat

ASSUME GatewayAssumption ==
    /\ "stop" \notin Projections
    /\ MaxGateways \in Nat /\ GatewayChanges \in Nat /\ MaxWaiting \in Nat /\ GatewayFaults \in Nat

ASSUME ScopeAssumption == MaxActivations \in Nat /\ MaxResources \in Nat /\ MaxTasks \in Nat

ASSUME ChatAssumption ==
    /\ Senders \cap Speakers = {} /\ ClientKeys \cap Replies = {}
    /\ None \notin Senders \cup Speakers \cup Inputs
    /\ None \notin {"not_ready", "ACCEPTED", "EXISTING", "conflict", "duplicate", "failed"}
    /\ Limit \in Nat \ {0} /\ MaxSends \in Nat /\ ChatFaults \in Nat

ASSUME GenerationAssumption ==
    IsFiniteSet(Consumers) /\ MaxGenerations \in Nat \ {0} /\ MaxTimeouts \in Nat

Signal == INSTANCE SignalListener WITH
    Subscribers <- SignalSubscribers, MaxFaults <- SignalFaults, sub <- v1, awaits <- v2,
    missed <- v3, attempt <- v4, last <- v5, active <- v6, connecting <- v7, current <- v8,
    epoch <- v9, timer <- v10, backoff <- v11, closing <- v12, broken <- v13, lapses <- v14,
    faults <- v15
Reconciler == INSTANCE WorkReconciler WITH
    rows <- v1, after <- v2, through <- v3,
    due <- v4, seen <- v5, started <- v6, starting <- v7, stopping <- v8, stopped <- v9,
    overlapped <- v10, subscribed <- v11, timer <- v12, rearm <- v13, scan <- v14,
    changes <- v15
Durable == INSTANCE DurableRuntime WITH
    Runtimes <- DurableRuntimes, Profiles <- QueueProfiles, MaxFaults <- DurableFaults, state <- v1,
    profile <- v2, registered <- v3, starting <- v4, releasing <- v5, closing <- v6,
    pool <- v7, launched <- v8, engine <- v9, bound <- v10, running <- v11, queued <- v12,
    sent <- v13, active <- v14, notified <- v15, faults <- v16
Route == INSTANCE ModelRoute WITH
    Editors <- RouteEditors, Invokers <- RouteInvokers, Models <- RouteModels, Gateways <- RouteGateways,
    Revisions <- RouteRevisions, MaxVersion <- RouteVersions, MaxEdits <- RouteEdits, val <- v1, revisions <- v2, lock <- v3, edit <- v4,
    call <- v5, edits <- v6
Gateway == INSTANCE CognitionGateway WITH
    Callers <- GatewayCallers, MaxChanges <- GatewayChanges, MaxFaults <- GatewayFaults,
    current <- v1, call <- v2, transitions <- v3, phase <- v4, live <- v5, lifecycle <- v6,
    closed <- v7, gateway <- v8, tasks <- v9, writing <- v10, descriptor <- v11,
    stopped <- v12, untidy <- v13, changes <- v14, faults <- v15
Change == INSTANCE ManagedChange WITH
    Callers <- ChangeCallers, Plans <- ChangePlans, MaxVersion <- ChangeVersions, MaxFaults <- ChangeFaults,
    kind <- v1, resource <- v2, plan <- v3, call <- v4, activity <- v5, executions <- v6,
    boot <- v7, faults <- v8
Scope == INSTANCE ActivationScope WITH
    activation <- v1, fiber <- v2, resource <- v3, task <- v4, awaited <- v5, closing <- v6
Chat == INSTANCE SubjectChat WITH
    Attempts <- Senders, Keys <- ClientKeys, Contents <- Inputs, MaxFaults <- ChatFaults,
    claimed <- v1, conversation <- v2, facts <- v3, holder <- v4, tx <- v5, reader <- v6, sends <- v7, faults <- v8
Generation == INSTANCE GenerationCalls WITH
    Callers <- Consumers, fence <- v1, bound <- v2, stopping <- v3, call <- v4, duplicate <- v5, timeouts <- v6
Persistence == INSTANCE PersistenceService WITH
    authority <- v1, token <- v2, service <- v3, call <- v4, applied <- v5
=============================================================================
