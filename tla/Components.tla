----------------------------- MODULE Components -----------------------------
(***************************************************************************)
(* The components that share no state, side by side: an initial state       *)
(* chooses a scene, and only that component takes steps.                    *)
(***************************************************************************)
EXTENDS InstallationScenes, ServiceScenes

CONSTANTS p1, p2, p3, g1, g2, r1, r2, x1, x2   \* what stands for processes, callers, inputs, ...

(* The variables a scene of n has no use for. *)
Spare5 == v6 = 0 /\ v7 = 0 /\ v8 = 0 /\ v9 = 0 /\ v10 = 0 /\ v11 = 0 /\ v12 = 0 /\ v13 = 0 /\ v14 = 0 /\ v15 = 0 /\ v16 = 0
Spare6 == v7 = 0 /\ v8 = 0 /\ v9 = 0 /\ v10 = 0 /\ v11 = 0 /\ v12 = 0 /\ v13 = 0 /\ v14 = 0 /\ v15 = 0 /\ v16 = 0
Spare7 == v8 = 0 /\ v9 = 0 /\ v10 = 0 /\ v11 = 0 /\ v12 = 0 /\ v13 = 0 /\ v14 = 0 /\ v15 = 0 /\ v16 = 0
Spare8 == v9 = 0 /\ v10 = 0 /\ v11 = 0 /\ v12 = 0 /\ v13 = 0 /\ v14 = 0 /\ v15 = 0 /\ v16 = 0
Spare12 == v13 = 0 /\ v14 = 0 /\ v15 = 0 /\ v16 = 0
Spare13 == v14 = 0 /\ v15 = 0 /\ v16 = 0
Spare14 == v15 = 0 /\ v16 = 0
Spare15 == v16 = 0

Init ==
    \/ /\ scene = "ownership" /\ Ownership!Init /\ Spare14
    \/ /\ scene = "records" /\ Records!Init /\ Spare7
    \/ /\ scene = "postgres" /\ Postgres!Init /\ Spare15
    \/ /\ scene = "provision" /\ Provision!Init /\ Spare7
    \/ /\ scene = "maintenance" /\ Upkeep!Init /\ Spare12
    \/ /\ scene = "signal" /\ Signal!Init /\ Spare15
    \/ /\ scene = "reconciler" /\ Reconciler!Init /\ Spare15
    \/ /\ scene = "durable" /\ Durable!Init
    \/ /\ scene = "product" /\ Product!Init /\ Spare13
    \/ /\ scene = "claim" /\ Claim!Init /\ Spare15
    \/ /\ scene = "secret" /\ Secret!Init /\ Spare6
    \/ /\ scene = "route" /\ Route!Init /\ Spare6
    \/ /\ scene = "change" /\ Change!Init /\ Spare8
    \/ /\ scene = "gateway" /\ Gateway!Init /\ Spare15
    \/ /\ scene = "scope" /\ Scope!Init /\ Spare6
    \/ /\ scene = "chat" /\ Chat!Init /\ Spare8
    \/ /\ scene = "calls" /\ Generation!Init /\ Spare6
    \/ /\ scene = "persistence" /\ Persistence!Init /\ Spare5

Next ==
    \/ /\ scene = "ownership"
       /\ Ownership!Next
       /\ UNCHANGED <<scene, v15, v16>>
    \/ /\ scene = "records"
       /\ Records!Next
       /\ UNCHANGED <<scene, v8, v9, v10, v11, v12, v13, v14, v15, v16>>
    \/ /\ scene = "postgres"
       /\ Postgres!Next
       /\ UNCHANGED <<scene, v16>>
    \/ /\ scene = "provision"
       /\ Provision!Next
       /\ UNCHANGED <<scene, v8, v9, v10, v11, v12, v13, v14, v15, v16>>
    \/ /\ scene = "maintenance"
       /\ Upkeep!Next
       /\ UNCHANGED <<scene, v13, v14, v15, v16>>
    \/ /\ scene = "signal"
       /\ Signal!Next
       /\ UNCHANGED <<scene, v16>>
    \/ /\ scene = "reconciler"
       /\ Reconciler!Next
       /\ UNCHANGED <<scene, v16>>
    \/ /\ scene = "durable"
       /\ Durable!Next
       /\ UNCHANGED scene
    \/ /\ scene = "product"
       /\ Product!Next
       /\ UNCHANGED <<scene, v14, v15, v16>>
    \/ /\ scene = "claim"
       /\ Claim!Next
       /\ UNCHANGED <<scene, v16>>
    \/ /\ scene = "secret"
       /\ Secret!Next
       /\ UNCHANGED <<scene, v7, v8, v9, v10, v11, v12, v13, v14, v15, v16>>
    \/ /\ scene = "route"
       /\ Route!Next
       /\ UNCHANGED <<scene, v7, v8, v9, v10, v11, v12, v13, v14, v15, v16>>
    \/ /\ scene = "change"
       /\ Change!Next
       /\ UNCHANGED <<scene, v9, v10, v11, v12, v13, v14, v15, v16>>
    \/ /\ scene = "gateway"
       /\ Gateway!Next
       /\ UNCHANGED <<scene, v16>>
    \/ /\ scene = "scope"
       /\ Scope!Next
       /\ UNCHANGED <<scene, v7, v8, v9, v10, v11, v12, v13, v14, v15, v16>>
    \/ /\ scene = "chat"
       /\ Chat!Next
       /\ UNCHANGED <<scene, v9, v10, v11, v12, v13, v14, v15, v16>>
    \/ /\ scene = "calls"
       /\ Generation!Next
       /\ UNCHANGED <<scene, v7, v8, v9, v10, v11, v12, v13, v14, v15, v16>>
    \/ /\ scene = "persistence"
       /\ Persistence!Next
       /\ UNCHANGED <<scene, v6, v7, v8, v9, v10, v11, v12, v13, v14, v15, v16>>

Spec == Init /\ [][Next]_<<scene, slots>>

-----------------------------------------------------------------------------
(* Properties: each one is that of its component, whose parts the           *)
(* component's module states one by one.                                    *)

(* One living process at most holds the bootstrap lease, and whoever dies   *)
(* with it leaves one that is found abandoned (bootstrap/ownership.ts,      *)
(* recovery/bootstrap.ts).                                                  *)
LeaseIsKept ==
    /\ [](scene = "ownership" => Ownership!TypeOK /\ Ownership!AbandonedIsRecoverable)
    /\ scene = "ownership" => Ownership!Lease!Init
    /\ [][scene = "ownership" => Ownership!LeaseMoves]_slots

(* What a caller was told is on disk is still found there, and only the     *)
(* current body is ever advanced (bootstrap-state store.ts,                 *)
(* maintenance/store.ts, journal.ts).                                       *)
BodiesAreKept ==
    /\ [](scene = "records" => Records!TypeOK /\ Records!KeptAsTold)
    /\ [][scene = "records" => Records!CurrentAdvances]_slots

(* A quiescent session has no server, a server runs the cluster that is     *)
(* named, and nobody stops the one a Host serves from (private-postgres     *)
(* controller).                                                             *)
ServerIsOwned == scene = "postgres" => Postgres!ServerIsOwned

(* Who serves has every role, schema and migration, and only a torn object  *)
(* blocks the next boot (bootstrap-admin.ts, ownership-schema.ts,           *)
(* migrations).                                                             *)
ProvisionedInOrder == scene = "provision" => Provision!ProvisionedInOrder

(* No Host starts over an obligation, no two serve, and an operation        *)
(* succeeds only when its target is reached (maintenance/operation.ts,      *)
(* recovery.ts).                                                            *)
MaintenanceIsFenced ==
    /\ [](scene = "maintenance" =>
             Upkeep!TypeOK /\ Upkeep!NoHostOverObligation /\ Upkeep!ServingIsFenced /\ Upkeep!NotEnteredIsTrue)
    /\ [][scene = "maintenance" => Upkeep!SucceedsWhenReached]_slots

(* A subscriber always has a connection, an attempt or a timer, and has     *)
(* scanned for what it missed, up to the two lapses named (postgres-        *)
(* signal.ts).                                                              *)
ListensOn == scene = "signal" => Signal!ListensOn

(* A cycle of the anti-entropy lane reads every row that stays, a started   *)
(* reconciler scans again, a stopped one does nothing (reconciler.ts, fair- *)
(* scan.ts).                                                                *)
ScansEverything ==
    /\ [](scene = "reconciler" =>
             Reconciler!TypeOK /\ Reconciler!KeepsScanning /\ Reconciler!StoppedIsQuiet)
    /\ [][scene = "reconciler" => Reconciler!CycleReaches]_slots

(* A runtime opens on its own queue profile, and its pool ends when nothing *)
(* runs on it, whatever fails and whoever closes (runtime/runtime.ts).      *)
RuntimeIsReleased ==
    /\ [](scene = "durable" =>
             Durable!TypeOK /\ Durable!DrainedBeforeEnd /\ Durable!ClosedIsReleased)
    /\ [][scene = "durable" => Durable!OpensAsProjected]_slots

(* Nothing of a Host outlives what it uses, one that lost its lease is      *)
(* closing, and a running one is found by its descriptor (product-host      *)
(* host.ts, files.ts).                                                      *)
HostIsWhole == scene = "product" => Product!HostIsWhole

(* One Administrator is made, with the claim that is current; until then    *)
(* the file opens it, and a revoked session stays out (management service,  *)
(* host.ts).                                                                *)
ClaimIsOneShot ==
    /\ [](scene = "claim" =>
             Claim!TypeOK /\ Claim!Claimable /\ Claim!ClaimedIsRemoved /\ Claim!RevokedStaysOut)
    /\ [][scene = "claim" => Claim!ClaimsOnce]_slots

(* An ACTIVE Secret has the material that was committed unless two          *)
(* replacements shared a key, and revocation is final (secret service.ts).  *)
MaterialIsKept ==
    /\ [](scene = "secret" =>
             Secret!TypeOK /\ Secret!ActiveHasMaterial /\ Secret!CurrentIsCommitted)
    /\ [][scene = "secret" => Secret!StaysRevoked]_slots

(* A route that is accepted is the current one although it is read          *)
(* piecewise, changes are committed over what they were planned on, and     *)
(* none waits for ever (ai-runtime).                                        *)
RoutesAreCurrent ==
    /\ [](scene = "route" => Route!TypeOK /\ Route!AcceptedIsCurrent /\ Route!NoMutualWait)
    /\ [][scene = "route" => Route!CommitsAsPlanned]_slots

(* A confirmed plan changes its resource at most once, as it was confirmed  *)
(* and over the resource its owner is told of, and what is recorded of it   *)
(* is what happened (management service.ts, system-actions).                *)
ChangesAsConfirmed ==
    /\ [](scene = "change" =>
             Change!TypeOK /\ Change!OutcomeIsTrue /\ Change!NothingLeftOpen /\ Change!AtMostOnce)
    /\ [][scene = "change" => Change!ExecutesTheConfirmed]_slots

(* One Gateway child lives at a time, it runs what its caller projected,    *)
(* and no run and no descriptor is left behind (subject-openclaw*.ts).      *)
GatewayIsOne == scene = "gateway" => Gateway!GatewayIsOne

(* A disposed activation has released its resources and awaited its tasks,  *)
(* and a closed substrate has disposed all of them (runtime-substrate       *)
(* cordis-adapter.ts).                                                      *)
ScopeIsSettled == scene = "scope" => Scope!ScopeIsSettled

(* A reader that follows the cursor skips no fact, and a sender that        *)
(* retries finds what was accepted (messaging service, product-host chat    *)
(* routes).                                                                 *)
ChatIsComplete == scene = "chat" => Chat!ChatIsComplete

(* No call runs in a retired generation, and an idle one retires and lets   *)
(* its replacement register (generation-fence.ts, fenced-proxy.ts,          *)
(* registry).                                                               *)
CallsAreRetired == scene = "calls" => Generation!CallsAreRetired

(* The pool drains when nothing is under way, and an answer tells what the  *)
(* database did (persistence-service.ts).                                   *)
CallsAreSettled == scene = "persistence" => Persistence!CallsAreSettled
=============================================================================
