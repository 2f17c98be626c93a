---------------------------- MODULE ProductHost ----------------------------
(***************************************************************************)
(* The Product Host process: what startProductHost() brings up and in      *)
(* which order, what a failed start and close() take down, and the         *)
(* endpoint descriptor by which clients find the Host.                     *)
(*                                                                         *)
(* Boots are processes on one installation, which may overlap: one that    *)
(* has lost its Host lease goes on closing while its successor starts.     *)
(* The lease, the bootstrap lock and the server are subjects of modules    *)
(* HostFence, BootstrapOwnership and PrivatePostgres; here they are one    *)
(* variable each.                                                          *)
(***************************************************************************)
EXTENDS Naturals, Sequences, FiniteSets

CONSTANTS
  Boots,
  None,
  MaxFaults     \* steps that fail, leases that are lost

VARIABLES
  mode,         \* "off", "starting", "running", "closing", "failing", "closed" or "failed"
  up,           \* boot -> the parts it has brought up
  step,         \* boot -> steps taken of its closing or failing
  stuck,        \* parts whose stop failed; nobody looks at them again
  lost,         \* boots whose Host authority has aborted
  asked,        \* boots whose requestClose() has been called
  lock,         \* who holds the bootstrap lock
  holder,       \* who holds the Host lease
  server,       \* whether PostgreSQL runs
  descriptor,   \* the boot the endpoint descriptor names, or None
  removing,     \* boots that have read their own descriptor and will unlink the file
  displaced,    \* a descriptor was written after that look, or by a boot without the lease
  faults

fileVars == <<descriptor, removing, displaced>>
vars == <<mode, up, step, stuck, lost, asked, lock, holder, server, fileVars, faults>>

Parts == {"postgres", "host", "persistence", "cognition", "supervisor", "durable",
          "reconciler", "http", "published", "claim"}

TypeOK ==
  /\ mode \in [Boots -> {"off", "starting", "running", "closing", "failing", "closed", "failed"}]
  /\ up \in [Boots -> SUBSET Parts] /\ stuck \in [Boots -> SUBSET Parts]
  /\ step \in [Boots -> 0..9]
  /\ {lost, asked, removing} \subseteq SUBSET Boots
  /\ {lock, holder, descriptor} \subseteq Boots \cup {None}
  /\ server \in BOOLEAN /\ displaced \in BOOLEAN /\ faults \in 0..MaxFaults

Init ==
  /\ mode = [b \in Boots |-> "off"]
  /\ up = [b \in Boots |-> {}] /\ stuck = [b \in Boots |-> {}]
  /\ step = [b \in Boots |-> 0]
  /\ lost = {} /\ asked = {} /\ removing = {}
  /\ lock = None /\ holder = None /\ descriptor = None
  /\ server \in BOOLEAN /\ displaced = FALSE /\ faults = 0

(***************************************************************************)
(* Helpers                                                                 *)
(***************************************************************************)
Fault == faults < MaxFaults /\ faults' = faults + 1

(* A step of the start whose predecessors are up.                          *)
Bring(b, part, after) ==
  /\ mode[b] = "starting"
  /\ part \notin up[b] /\ after \subseteq up[b]
  /\ up' = [up EXCEPT ![b] = @ \cup {part}]
  /\ UNCHANGED <<mode, step, stuck, lost, asked, faults>>

Canonical(b) == holder = b /\ b \notin lost

(***************************************************************************)
(* startProductHost                                                        *)
(***************************************************************************)
acquireOwnership(b) ==
  /\ mode[b] = "off" /\ lock = None
  /\ mode' = [mode EXCEPT ![b] = "starting"]
  /\ lock' = b
  /\ UNCHANGED <<up, step, stuck, lost, asked, holder, server, fileVars, faults>>

preparePrivatePostgres(b) ==
  /\ Bring(b, "postgres", {})
  /\ server' = TRUE
  /\ UNCHANGED <<lock, holder, fileVars>>

(* The lease passes on once the former holder's session is gone; the       *)
(* bootstrap lock is released with it.                                     *)
handoffPrivatePostgresToHost(b) ==
  /\ holder = None /\ server
  /\ Bring(b, "host", {"postgres"})
  /\ holder' = b /\ lock' = None
  /\ UNCHANGED <<server, fileVars>>

ComposeServices(b) ==
  /\ Canonical(b)
  /\ Bring(b, "persistence", {"host"})
  /\ UNCHANGED <<lock, holder, server, fileVars>>

(* ensureCurrent, the defaults and the cognition process.                  *)
StartCognition(b) ==
  /\ Canonical(b)
  /\ Bring(b, "cognition", {"persistence"})
  /\ UNCHANGED <<lock, holder, server, fileVars>>

Supervise(b) ==
  /\ Canonical(b)
  /\ Bring(b, "supervisor", {"cognition"})
  /\ UNCHANGED <<lock, holder, server, fileVars>>

StartDurable(b) ==
  /\ Canonical(b)
  /\ Bring(b, "durable", {"supervisor"})
  /\ UNCHANGED <<lock, holder, server, fileVars>>

StartReconciler(b) ==
  /\ Canonical(b)
  /\ Bring(b, "reconciler", {"durable"})
  /\ UNCHANGED <<lock, holder, server, fileVars>>

(* Neither the listener nor the descriptor asks for the authority.         *)
Listen(b) ==
  /\ Bring(b, "http", {"reconciler"})
  /\ UNCHANGED <<lock, holder, server, fileVars>>

writeManagementEndpointDescriptor(b) ==
  /\ Bring(b, "published", {"http"})
  /\ descriptor' = b
  /\ displaced' = (displaced \/ removing \ {b} # {} \/ holder # b)
  /\ UNCHANGED <<lock, holder, server, removing>>

MaintainClaim(b) ==
  /\ Canonical(b)
  /\ Bring(b, "claim", {"published"})
  /\ UNCHANGED <<lock, holder, server, fileVars>>

(* Discovery answers and readiness holds; only now does close() do         *)
(* anything and does the abort of the authority call it.                   *)
Ready(b) ==
  /\ mode[b] = "starting" /\ "claim" \in up[b]
  /\ Canonical(b) /\ {"persistence", "supervisor"} \subseteq up[b]
  /\ mode' = [mode EXCEPT ![b] = "running"]
  /\ UNCHANGED <<up, step, stuck, lost, asked, lock, holder, server, fileVars, faults>>

StartFails(b) ==
  /\ mode[b] = "starting"
  /\ IF lost # {} \/ (holder # None /\ holder # b) THEN UNCHANGED faults ELSE Fault
  /\ mode' = [mode EXCEPT ![b] = "failing"]
  /\ UNCHANGED <<up, step, stuck, lost, asked, lock, holder, server, fileVars>>

(***************************************************************************)
(* The authority                                                           *)
(***************************************************************************)
(* The lease is lost: the parts bound to the authority close themselves    *)
(* in their own time; a Host that runs closes.                             *)
LoseHost(b) ==
  /\ holder = b /\ Fault
  /\ holder' = None
  /\ lost' = lost \cup {b}
  /\ asked' = IF mode[b] = "running" THEN asked \cup {b} ELSE asked
  /\ UNCHANGED <<mode, up, step, stuck, lock, server, fileVars>>

SelfClose(b) ==
  /\ b \in lost
  /\ \E part \in {"supervisor", "durable", "persistence"} \cap up[b] :
       up' = [up EXCEPT ![b] = @ \ {part}]
  /\ UNCHANGED <<mode, step, stuck, lost, asked, lock, holder, server, fileVars, faults>>

(* A signal to the process, or a terminal failure of the supervisor.       *)
requestClose(b) ==
  /\ mode[b] = "running"
  /\ mode' = [mode EXCEPT ![b] = "closing"]
  /\ asked' = asked \cup {b}
  /\ UNCHANGED <<up, step, stuck, lost, lock, holder, server, fileVars, faults>>

(***************************************************************************)
(* Taking down                                                             *)
(***************************************************************************)
(* Mutant: persistence is closed before what still uses it.                *)
CloseOrderSwapped ==
  <<"claim", "http", "published", "reconciler", "persistence", "cognition", "supervisor",
    "durable", "host">>

CloseOrder ==
  <<"claim", "http", "published", "reconciler", "durable", "cognition", "supervisor",
    "persistence", "host">>

(* A failed start leaves the descriptor where it is.                       *)
FailOrder ==
  <<"claim", "http", "reconciler", "durable", "cognition", "supervisor", "persistence",
    "host", "ownership">>

Next9(b) == IF mode[b] = "closing" THEN CloseOrder[step[b] + 1] ELSE FailOrder[step[b] + 1]
Taking(b, part) == mode[b] \in {"closing", "failing"} /\ step[b] < 9 /\ Next9(b) = part
Taken(b) == step' = [step EXCEPT ![b] = @ + 1]

(* Each stop is awaited and its failure swallowed.                         *)
StopPart(b) ==
  /\ \E part \in Parts \ {"published", "host", "postgres"} :
       /\ Taking(b, part)
       /\ \/ /\ up' = [up EXCEPT ![b] = @ \ {part}]
             /\ UNCHANGED <<stuck, faults>>
          \/ /\ part \in up[b] /\ part # "claim" /\ Fault
             /\ stuck' = [stuck EXCEPT ![b] = @ \cup {part}]
             /\ UNCHANGED up
  /\ Taken(b)
  /\ UNCHANGED <<mode, lost, asked, lock, holder, server, fileVars>>

(* removeCurrentEndpointDescriptor reads the file and goes on only if it   *)
(* names this boot.                                                        *)
ReadDescriptor(b) ==
  /\ Taking(b, "published") /\ b \notin removing
  /\ IF descriptor = b
     THEN removing' = removing \cup {b} /\ UNCHANGED <<up, step>>
     ELSE Taken(b) /\ up' = [up EXCEPT ![b] = @ \ {"published"}] /\ UNCHANGED removing
  /\ UNCHANGED <<mode, stuck, lost, asked, lock, holder, server, descriptor, displaced, faults>>

UnlinkDescriptor(b) ==
  /\ b \in removing
  /\ descriptor' = None
  /\ removing' = removing \ {b}
  /\ up' = [up EXCEPT ![b] = @ \ {"published"}]
  /\ Taken(b)
  /\ UNCHANGED <<mode, stuck, lost, asked, lock, holder, server, displaced, faults>>

(* A Host that is still ACTIVE stops the server by a maintenance           *)
(* operation, for which it needs the bootstrap lock; a failed start that   *)
(* has no Host stops it directly.                                          *)
StopServer(b) ==
  /\ Taking(b, "host")
  /\ \/ /\ Canonical(b) /\ lock = None
        /\ server' = FALSE /\ holder' = None
        /\ up' = [up EXCEPT ![b] = @ \ {"host", "postgres"}]
        /\ UNCHANGED <<stuck, faults>>
     \/ /\ Canonical(b)
        /\ IF lock = None THEN Fault ELSE UNCHANGED faults
        /\ stuck' = [stuck EXCEPT ![b] = @ \cup {"host", "postgres"}]
        /\ UNCHANGED <<server, holder, up>>
     \/ /\ ~Canonical(b)
        /\ server' = IF mode[b] = "failing" /\ lock = b /\ "postgres" \in up[b] THEN FALSE ELSE server
        /\ up' = [up EXCEPT ![b] = @ \ {"host", "postgres"}]
        /\ UNCHANGED <<holder, stuck, faults>>
  /\ Taken(b)
  /\ UNCHANGED <<mode, lost, asked, lock, fileVars>>

ReleaseOwnership(b) ==
  /\ Taking(b, "ownership")
  /\ lock' = IF lock = b THEN None ELSE lock
  /\ Taken(b)
  /\ UNCHANGED <<mode, up, stuck, lost, asked, holder, server, fileVars, faults>>

(* The process ends and with it a lease nobody stopped.                    *)
Ended(b) ==
  /\ mode[b] \in {"closing", "failing"} /\ step[b] = 9
  /\ mode' = [mode EXCEPT ![b] = IF @ = "closing" THEN "closed" ELSE "failed"]
  /\ holder' = IF holder = b THEN None ELSE holder
  /\ UNCHANGED <<up, step, stuck, lost, asked, lock, server, fileVars, faults>>

Next ==
  \E b \in Boots :
    \/ acquireOwnership(b) \/ preparePrivatePostgres(b) \/ handoffPrivatePostgresToHost(b)
    \/ ComposeServices(b) \/ StartCognition(b) \/ Supervise(b) \/ StartDurable(b)
    \/ StartReconciler(b) \/ Listen(b) \/ writeManagementEndpointDescriptor(b)
    \/ MaintainClaim(b) \/ Ready(b) \/ StartFails(b)
    \/ LoseHost(b) \/ SelfClose(b) \/ requestClose(b)
    \/ StopPart(b) \/ ReadDescriptor(b) \/ UnlinkDescriptor(b) \/ StopServer(b)
    \/ ReleaseOwnership(b) \/ Ended(b)

Spec == Init /\ [][Next]_vars

(***************************************************************************)
(* Properties                                                              *)
(***************************************************************************)
Uses == [persistence |-> {"host"}, cognition |-> {"persistence"}, supervisor |-> {"persistence"},
         durable |-> {"supervisor", "persistence"}, reconciler |-> {"durable"},
         http |-> {"reconciler", "supervisor", "cognition"}]

(* Nothing outlives what it calls: whatever takes a Host down, and at      *)
(* whatever point of its start, a part is gone before the parts it uses,   *)
(* unless its own stop failed or the authority took them.                  *)
NothingOutlivesItsUse ==
  \A b \in Boots \ lost : \A part \in (DOMAIN Uses \cap up[b]) \ stuck[b] : Uses[part] \subseteq up[b]

(* A Host that runs without its authority has been asked to close, though  *)
(* nothing listened for the loss while it started.                         *)
LostIsClosing == \A b \in Boots : mode[b] = "running" /\ b \in lost => b \in asked

(* Clients find the Host that runs: a boot that ends late does not take    *)
(* the descriptor of its successor with it.  Two windows remain: the       *)
(* successor writes between that boot's look at the file and its unlink,   *)
(* or a boot that lost the lease while starting writes its own.            *)
RunningIsFound ==
  \A b \in Boots : mode[b] = "running" /\ Canonical(b) => descriptor = b \/ displaced

(* A Host from its boot to its end, and the file by which it is found.       *)
HostIsWhole == TypeOK /\ NothingOutlivesItsUse /\ LostIsClosing /\ RunningIsFound

(***************************************************************************)
(* The inductive invariant                                                 *)
(***************************************************************************)
(* The parts whose stop has been tried.                                    *)
Tried(b) ==
  {IF mode[b] \in {"closing", "closed"} THEN CloseOrder[n] ELSE FailOrder[n] : n \in 1..step[b]}

(* The parts come up in an order, and are only tried once going down.      *)
BootOK(b) ==
  /\ mode[b] = "off" => up[b] = {}
  /\ mode[b] \in {"off", "starting", "running"} => step[b] = 0
  /\ mode[b] \in {"off", "starting", "running"} /\ b \notin lost => stuck[b] = {}
  /\ mode[b] \in {"starting", "running"} /\ b \notin lost =>
       /\ "supervisor" \in up[b] => "cognition" \in up[b]
       /\ "published" \in up[b] => "http" \in up[b]
       /\ "claim" \in up[b] => "published" \in up[b]
  /\ mode[b] = "running" => "claim" \in up[b]
  /\ DOMAIN Uses \cap Tried(b) \cap up[b] \subseteq stuck[b]

(* The endpoint descriptor names the boot that has published itself with   *)
(* the Host lease, and the boot that is about to unlink it.                *)
DescriptorOK(b) ==
  /\ mode[b] \in {"starting", "running"} /\ Canonical(b) /\ "published" \in up[b] =>
       descriptor = b \/ displaced
  /\ b \in removing => (descriptor = b \/ displaced) /\ mode[b] = "closing" /\ step[b] = 2

Inv ==
  /\ TypeOK /\ NothingOutlivesItsUse /\ LostIsClosing
  /\ \A b \in Boots : BootOK(b) /\ DescriptorOK(b)
=============================================================================
