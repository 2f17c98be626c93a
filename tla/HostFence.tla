------------------------------- MODULE HostFence -------------------------------
(***************************************************************************)
(* packages/bootstrap/host-ownership, the hand-off, managed Host and       *)
(* maintenance entry of packages/bootstrap/bootstrap-runtime, and          *)
(* packages/data/persistence: who may write the one database.              *)
(*                                                                         *)
(*   lock      the advisory lock: which boot's session holds it, and as    *)
(*             the bootstrap reservation or as the Host lease              *)
(*   fence     the host_ownership_fence row: token and revision            *)
(*   boot      how far each bootstrap got, and whether it resumes a        *)
(*             maintenance operation; one boot is one process and one      *)
(*             token                                                       *)
(*   lease     the boot's own view of its lease connection                 *)
(*   host      the managed Host: terminal flag, maintenance entry          *)
(*   tx        mutations of the services                                   *)
(*   source    the Host an EXECUTING maintenance journal names, or None    *)
(*   since     history: the revision at which a boot's token was published *)
(*   writes    history: who committed, and at which fence revision         *)
(*                                                                         *)
(* The database and the boot that talks to it see a lost session at        *)
(* different times, so `lock' and `lease' are separate.  A transaction     *)
(* that takes the fence row FOR UPDATE excludes every FOR SHARE holder     *)
(* from its lock to its COMMIT and is one step, at the COMMIT.  The        *)
(* bootstrap file lock is not relied upon: boots overlap freely, and an    *)
(* assertCurrent/assertHeld may fail at any time.                          *)
(***************************************************************************)
EXTENDS Naturals, FiniteSets

CONSTANTS
    Boots,   \* bootstrap runs, in any number of processes
    Tx,      \* transactions in flight at once, over all services
    None,    \* nobody
    MaxFaults    \* bound: sessions, processes and steps that break

ASSUME NoneAssumption == None \notin Boots
ASSUME BoundAssumption == MaxFaults \in Nat

VARIABLES lock, fence, boot, lease, host, tx, source, since, writes, faults

row == <<fence, since>>
vars == <<lock, fence, boot, lease, host, tx, source, since, writes, faults>>

Free == [by |-> None, as |-> "none"]
NoHost == [terminal |-> FALSE, entry |-> "none"]
IdleTx == [at |-> "idle", by |-> None]

Init ==
    /\ lock = Free
    /\ fence = [token |-> None, revision |-> 0]
    /\ boot = [b \in Boots |-> [pc |-> "new", resumes |-> None]]
    /\ lease = [b \in Boots |-> "NONE"]
    /\ host = [b \in Boots |-> NoHost]
    /\ tx = [t \in Tx |-> IdleTx]
    /\ source = None
    /\ since = [b \in Boots |-> 0]
    /\ writes = {}
    /\ faults = 0

Fault == faults < MaxFaults /\ faults' = faults + 1

At(b, pc) == boot[b].pc = pc
Goto(b, pc) == boot' = [boot EXCEPT ![b].pc = pc]
Over(b) == boot' = [boot EXCEPT ![b] = [pc |-> "over", resumes |-> None]]
HoldsLease(b) == lock = [by |-> b, as |-> "lease"]

(* assertActive of the managed Host: its own view, never the database's.    *)
Authorized(b) == ~host[b].terminal /\ lease[b] = "ACTIVE"

(* FOR SHARE locks on the fence row are held until the transaction ends.    *)
Sharing == {t \in Tx : tx[t].at # "idle"}

------------------------------------------------------------------------------
(* Mutations of the persistence service, as far as the fence is concerned;  *)
(* PersistenceService has the rest.                                         *)

Alive(t) == ~At(tx[t].by, "dead")
Moves(t, from, to) == tx[t].at = from /\ tx' = [tx EXCEPT ![t].at = to]
EndTx(t) == tx' = [tx EXCEPT ![t] = IdleTx]

(* assertOpen, BEGIN, assertAuthorityActive and the FOR SHARE query.  A      *)
(* service that was fenced or closed only starts fewer.                     *)
LockFence(t, b) ==
    /\ tx[t].at = "idle"
    /\ At(b, "host") /\ Authorized(b)
    /\ tx' = [tx EXCEPT ![t] = [at |-> "locked", by |-> b]]
    /\ UNCHANGED <<lock, row, boot, lease, host, source, writes, faults>>

(* Mutant: the local lease is trusted instead of the row. *)
TokenIgnored(b) == fence.token # None

TokenIsCurrent(b) == fence.token = b

(* verifyHostFence, on the row the shared lock keeps as the query read it,  *)
(* and assertAuthorityActive; otherwise Rollback.                           *)
VerifyFence(t) ==
    /\ Moves(t, "locked", "working")
    /\ Alive(t) /\ TokenIsCurrent(tx[t].by) /\ Authorized(tx[t].by)
    /\ UNCHANGED <<lock, row, boot, lease, host, source, writes, faults>>

(* The operation returned; COMMIT is sent.  Nothing is checked again.       *)
SendCommit(t) ==
    /\ Moves(t, "working", "committing") /\ Alive(t)
    /\ UNCHANGED <<lock, row, boot, lease, host, source, writes, faults>>

(* A COMMIT that was sent is applied even if its process has died.          *)
ServerCommits(t) ==
    /\ tx[t].at = "committing"
    /\ writes' = writes \cup {<<tx[t].by, fence.revision>>}
    /\ EndTx(t)
    /\ UNCHANGED <<lock, row, boot, lease, host, source, faults>>

(* A check or the operation threw, or the session or its process ended.     *)
Rollback(t) ==
    /\ tx[t].at # "idle"
    /\ EndTx(t)
    /\ UNCHANGED <<lock, row, boot, lease, host, source, writes, faults>>

------------------------------------------------------------------------------
(* The lease connection.                                                    *)

(* A session whose client still uses it.                                    *)
Attended(b) == ~At(b, "dead") /\ lease[b] \in {"NONE", "ACTIVE"}

(* The database ends a session and frees its lock, before or after the      *)
(* client hears of it.                                                      *)
ServerDrops ==
    /\ lock # Free
    /\ IF Attended(lock.by) THEN Fault ELSE UNCHANGED faults
    /\ lock' = Free
    /\ UNCHANGED <<row, boot, lease, host, tx, source, writes>>

LeaseTo(b, state) == lease' = [lease EXCEPT ![b] = state]

(* Mutant: only failed queries are noticed, not the end of the session. *)
LoseLeaseOnQuery(b) ==
    /\ ~At(b, "dead") /\ lease[b] = "ACTIVE" /\ HoldsLease(b)
    /\ Fault
    /\ LeaseTo(b, "FENCED")
    /\ UNCHANGED <<lock, row, boot, host, tx, source, writes>>

(* error, end or a failed query on the client.                              *)
LoseLease(b) ==
    /\ ~At(b, "dead") /\ lease[b] = "ACTIVE"
    /\ IF HoldsLease(b) THEN Fault ELSE UNCHANGED faults
    /\ LeaseTo(b, "FENCED")
    /\ UNCHANGED <<lock, row, boot, host, tx, source, writes>>

CloseLease(b) == lease' = [lease EXCEPT ![b] = IF @ \in {"ACTIVE", "FENCED"} THEN "CLOSING" ELSE @]

(* A close that fails leaves the lease FENCED, and its session to the       *)
(* database.                                                                *)
CloseEnds(b) ==
    /\ ~At(b, "dead") /\ lease[b] = "CLOSING"
    /\ \/ /\ LeaseTo(b, "CLOSED")
          /\ lock' = IF HoldsLease(b) THEN Free ELSE lock
          /\ UNCHANGED faults
       \/ LeaseTo(b, "FENCED") /\ Fault /\ UNCHANGED lock
    /\ UNCHANGED <<row, boot, host, tx, source, writes>>

------------------------------------------------------------------------------
(* Hand-off of the database to a new Host.                                  *)

(* Bootstrap reserves the advisory key, prepares the schema under it, and   *)
(* yields to an existing owner.  A normal boot is refused while a           *)
(* maintenance operation is unresolved.                                     *)
Reserve(b) ==
    /\ \/ At(b, "new") /\ source = None
       \/ At(b, "recovered")
    /\ IF lock = Free
       THEN lock' = [by |-> b, as |-> "reservation"] /\ Goto(b, "reserved")
       ELSE Over(b) /\ UNCHANGED lock
    /\ UNCHANGED <<row, lease, host, tx, source, writes, faults>>

ReleaseReservation(b) ==
    /\ At(b, "reserved") /\ lock = [by |-> b, as |-> "reservation"]
    /\ lock' = Free
    /\ Goto(b, "unreserved")
    /\ UNCHANGED <<row, lease, host, tx, source, writes, faults>>

(* pg_try_advisory_lock; a busy lock ends the boot.                         *)
TakeLease(b) ==
    /\ At(b, "unreserved")
    /\ IF lock = Free
       THEN lock' = [by |-> b, as |-> "lease"] /\ LeaseTo(b, "ACTIVE") /\ Goto(b, "leased")
       ELSE LeaseTo(b, "CLOSED") /\ Over(b) /\ UNCHANGED lock
    /\ UNCHANGED <<row, host, tx, source, writes, faults>>

SetFence(token) ==
    fence' = [token |-> token, revision |-> fence.revision + 1]

(* FOR UPDATE waits for every FOR SHARE holder.                             *)
ExclusiveFence == Sharing = {}

(* The publication runs on the lease session itself.                        *)
Publish(b) ==
    /\ At(b, "leased") /\ lease[b] = "ACTIVE" /\ HoldsLease(b)
    /\ ExclusiveFence
    /\ SetFence(b)
    /\ since' = [since EXCEPT ![b] = fence.revision + 1]
    /\ Goto(b, "published")
    /\ UNCHANGED <<lock, lease, host, tx, source, writes, faults>>

(* The maintenance journal is advanced to SUCCEEDED by compare-and-set.      *)
Resolve(b) ==
    /\ source = boot[b].resumes
    /\ source' = None

(* The published row is read back; the canonical schema is initialised      *)
(* under the new token; a resumed maintenance journal records SUCCEEDED;    *)
(* bootstrap ownership is released.                                         *)
HandOff(b) ==
    /\ At(b, "published") /\ lease[b] = "ACTIVE" /\ fence.token = b
    /\ Goto(b, "host")
    /\ \/ boot[b].resumes = None /\ UNCHANGED source
       \/ boot[b].resumes # None /\ Resolve(b)
    /\ UNCHANGED <<lock, row, lease, host, tx, writes, faults>>

(* Any step before that fails, or its outcome stays unknown: the boot gives *)
(* up what it holds.  It may fail after the journal recorded SUCCEEDED.     *)
FailBoot(b) ==
    /\ boot[b].pc \in {"reserved", "unreserved", "leased", "published",
                       "recovering", "revoked", "recovered"}
    /\ Fault
    /\ Over(b)
    /\ IF At(b, "revoked") THEN UNCHANGED lease ELSE CloseLease(b)
    /\ lock' = IF lock = [by |-> b, as |-> "reservation"] THEN Free ELSE lock
    /\ \/ UNCHANGED source
       \/ At(b, "published") /\ boot[b].resumes # None /\ Resolve(b)
    /\ UNCHANGED <<row, host, tx, writes>>

(* The process dies, and its view of the lease with it; the database has    *)
(* yet to notice.                                                           *)
Die(b) ==
    /\ boot[b].pc \notin {"new", "dead"}
    /\ Fault
    /\ boot' = [boot EXCEPT ![b] = [pc |-> "dead", resumes |-> None]]
    /\ LeaseTo(b, "NONE")
    /\ host' = [host EXCEPT ![b] = NoHost]
    /\ UNCHANGED <<lock, row, tx, source, writes>>

------------------------------------------------------------------------------
(* The managed Host ends: shutdownKeepingPrivatePostgres, or a maintenance  *)
(* operation, whose entry is                                                *)
(*   none -> checked -> entered -> revoked   -> left -> resumed             *)
(*                              -> unrevoked -> failed                      *)

Entry(b, from, to) == host[b].entry = from /\ host' = [host EXCEPT ![b].entry = to]

Shutdown(b) ==
    /\ At(b, "host") /\ Authorized(b) /\ host[b].entry \in {"none", "checked", "unproven"}
    /\ host' = [host EXCEPT ![b] = [terminal |-> TRUE, entry |-> "unrevoked"]]
    /\ UNCHANGED <<lock, row, boot, lease, tx, source, writes, faults>>

CheckSource(b) ==
    /\ At(b, "host") /\ Authorized(b) /\ source = None /\ fence.token = b
    /\ Entry(b, "none", "checked")
    /\ UNCHANGED <<lock, row, boot, lease, tx, source, writes, faults>>

(* publishExecuting, then terminalize; a write of the journal that cannot   *)
(* be confirmed leaves the Host as it is, and the journal perhaps EXECUTING.*)
EnterMaintenance(b) ==
    /\ At(b, "host") /\ host[b].entry = "checked" /\ source = None
    /\ source' = b
    /\ \/ host' = [host EXCEPT ![b] = [terminal |-> TRUE, entry |-> "entered"]]
          /\ UNCHANGED faults
       \/ Entry(b, "checked", "unproven") /\ Fault
    /\ UNCHANGED <<lock, row, boot, lease, tx, writes>>

(* Mutant: revocation clears whatever token it finds. *)
ClearFence(of) == ExclusiveFence /\ SetFence(None)

(* revokeHostOwnershipTokenForBootstrap: the locked row must still be the   *)
(* source's.                                                                *)
RevokeToken(of) == ExclusiveFence /\ fence.token = of /\ SetFence(None)

EntryFails(b) == Entry(b, "entered", "unrevoked")

(* After the retirement, which may fail without stopping this.  The         *)
(* revocation may time out on the row, or its COMMIT stay unacknowledged.   *)
LeaveMaintenance(b) ==
    /\ At(b, "host")
    /\ \/ lease[b] = "ACTIVE" /\ RevokeToken(b) /\ Entry(b, "entered", "revoked")
       \/ lease[b] = "ACTIVE" /\ RevokeToken(b) /\ EntryFails(b)
       \/ UNCHANGED fence /\ EntryFails(b)
    /\ UNCHANGED <<lock, since, boot, lease, tx, source, writes, faults>>

(* The old Host closes its lease, whatever happened before.                 *)
RetireHost(b) ==
    /\ At(b, "host") /\ host[b].entry \in {"revoked", "unrevoked"}
    /\ CloseLease(b)
    /\ host' = [host EXCEPT ![b].entry = IF @ = "revoked" THEN "left" ELSE "failed"]
    /\ UNCHANGED <<lock, row, boot, tx, source, writes, faults>>

(* The window opens in the same process: a fresh boot resumes it.           *)
OpenWindow(b) ==
    /\ At(b, "new")
    /\ source # None /\ ~At(source, "dead")
    /\ host[source].entry = "left" /\ lease[source] = "CLOSED"
    /\ boot' = [boot EXCEPT ![b] = [pc |-> "recovered", resumes |-> source]]
    /\ host' = [host EXCEPT ![source].entry = "resumed"]
    /\ UNCHANGED <<lock, row, lease, tx, source, writes, faults>>

(* STOP: the cluster is stopped and the journal closed.                     *)
FinishStop(b) ==
    /\ At(b, "recovered")
    /\ Resolve(b)
    /\ Over(b)
    /\ UNCHANGED <<lock, row, lease, host, tx, writes, faults>>

------------------------------------------------------------------------------
(* Recovery of an interrupted operation by a later process.                 *)

(* acquireNoLiveHostLease: refused while the advisory lock is taken.        *)
Recover(b) ==
    /\ At(b, "new") /\ source # None
    /\ IF lock = Free
       THEN /\ lock' = [by |-> b, as |-> "lease"]
            /\ LeaseTo(b, "ACTIVE")
            /\ boot' = [boot EXCEPT ![b] = [pc |-> "recovering", resumes |-> source]]
       ELSE Over(b) /\ UNCHANGED <<lock, lease>>
    /\ UNCHANGED <<row, host, tx, source, writes, faults>>

(* revokeSourceIfPresent, then the lease is closed.                         *)
RecoveryRevokes(b) ==
    /\ At(b, "recovering")
    /\ \/ fence.token = boot[b].resumes /\ RevokeToken(boot[b].resumes)
       \/ fence.token # boot[b].resumes /\ UNCHANGED fence
    /\ Goto(b, "revoked")
    /\ CloseLease(b)
    /\ UNCHANGED <<lock, since, host, tx, source, writes, faults>>

Recovered(b) ==
    /\ At(b, "revoked") /\ lease[b] = "CLOSED"
    /\ Goto(b, "recovered")
    /\ UNCHANGED <<lock, row, lease, host, tx, source, writes, faults>>

------------------------------------------------------------------------------

TxNext(t) ==
    \/ \E b \in Boots : LockFence(t, b)
    \/ VerifyFence(t) \/ SendCommit(t) \/ ServerCommits(t) \/ Rollback(t)

BootNext(b) ==
    \/ Reserve(b) \/ ReleaseReservation(b) \/ TakeLease(b) \/ Publish(b) \/ HandOff(b)
    \/ FailBoot(b) \/ Die(b) \/ LoseLease(b) \/ CloseEnds(b)
    \/ Shutdown(b) \/ CheckSource(b) \/ EnterMaintenance(b) \/ LeaveMaintenance(b)
    \/ RetireHost(b) \/ OpenWindow(b) \/ FinishStop(b)
    \/ Recover(b) \/ RecoveryRevokes(b) \/ Recovered(b)

Next == ServerDrops \/ (\E b \in Boots : BootNext(b)) \/ (\E t \in Tx : TxNext(t))

Spec == Init /\ [][Next]_vars

(* What a running process and a running database do in time: transactions   *)
(* end, a publication is tried, and a client hears of a session that the    *)
(* database ended (TCP keep-alive, `error' and `end' events).  Nobody must  *)
(* start a transaction or a boot, close, fail or die.                       *)
Fairness ==
    /\ \A t \in Tx : WF_vars(ServerCommits(t) \/ Rollback(t))
    /\ \A b \in Boots : WF_vars(Publish(b)) /\ WF_vars(LoseLease(b) /\ ~HoldsLease(b))

FairSpec == Spec /\ Fairness

------------------------------------------------------------------------------
(* Properties                                                               *)

(* The values each variable may take.                                       *)
TypeOK ==
    /\ lock \in {Free} \cup [by : Boots, as : {"reservation", "lease"}]
    /\ fence \in [token : Boots \cup {None}, revision : Nat]
    /\ boot \in [Boots -> [pc : {"new", "reserved", "unreserved", "leased", "published",
                                "host", "recovering", "revoked", "recovered", "over", "dead"},
                          resumes : Boots \cup {None}]]
    /\ lease \in [Boots -> {"NONE", "ACTIVE", "FENCED", "CLOSING", "CLOSED"}]
    /\ host \in [Boots -> [terminal : BOOLEAN,
                          entry : {"none", "checked", "unproven", "entered", "revoked",
                                   "unrevoked", "left", "resumed", "failed"}]]
    /\ tx \in [Tx -> {IdleTx} \cup [at : {"locked", "working", "committing"}, by : Boots]]
    /\ source \in Boots \cup {None}
    /\ since \in [Boots -> Nat]
    /\ writes \subseteq Boots \X Nat
    /\ faults \in 0 .. MaxFaults

(* HOST-003: a mutation that passed the fence still runs under it.  No      *)
(* publication or revocation overtakes it, whatever its process believes    *)
(* about its lease (persistence-service.ts:278-284, host-ownership.ts       *)
(* FENCE_FOR_UPDATE).                                                       *)
EnteredBeforeTransfer ==
    \A t \in Sharing : tx[t].at \in {"working", "committing"} => fence.token = tx[t].by

(* HOST-001: while a boot that published keeps its lease session and its    *)
(* managed Host is not terminal, the token is its own: neither a rival, nor *)
(* maintenance, nor a recovery takes a live Host's token away.              *)
LiveHostOwns ==
    \A b \in Boots :
        boot[b].pc \in {"published", "host"} /\ HoldsLease(b) /\ ~host[b].terminal
            => fence.token = b

(* MAINT-004: PostgreSQL is stopped for maintenance, or a Host re-acquired, *)
(* only once the interrupted source's token is gone, and with it, by        *)
(* EnteredBeforeTransfer, every mutation it began; whether its own process  *)
(* or a recovery goes on (operation.ts:733-775, recovery.ts:569-572).       *)
WindowAfterRevocation ==
    \A b \in Boots :
        At(b, "recovered") => fence.token # boot[b].resumes

(* The token through publication, hand-off, maintenance and recovery.       *)
FenceHolds == TypeOK /\ EnteredBeforeTransfer /\ LiveHostOwns /\ WindowAfterRevocation

(* Together they are one store with one owner at a time.                    *)
Store == INSTANCE FencedStore WITH owner <- fence.token, revision <- fence.revision
ImplementsStore == Store!Spec

(* HOST-004: a boot that took the lease is not kept from publishing for     *)
(* ever by the mutations of a Host that lost its own.                       *)
TakeoverCompletes ==
    \A b \in Boots :
        At(b, "leased") ~> ~At(b, "leased") \/ lease[b] # "ACTIVE" \/ ~HoldsLease(b)
=============================================================================
