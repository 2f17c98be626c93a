--------------------------- MODULE BootstrapOwnership ---------------------------
(***************************************************************************)
(* The installation-scoped bootstrap lease: bootstrap/ownership.ts,         *)
(* recovery/bootstrap.ts and the witness files of                           *)
(* packages/bootstrap/bootstrap-state, between processes that start, stop,  *)
(* die and recover one another.                                             *)
(*                                                                         *)
(*   lock, stale         the lock directory: whose it is, and whether its   *)
(*                       heartbeat is older than the recovery threshold     *)
(*   owner               the OWNER witness file                             *)
(*   attempts, releasing the ATTEMPT and RELEASING witness files            *)
(*   alive, reused       processes in the process table; dead ones whose    *)
(*                       pid now names a stranger                           *)
(*   stalled             processes that make no progress for a while        *)
(*   pc, how             how far each process got; whether its lock call    *)
(*                       may reclaim, and whether it rechecks as recovery   *)
(*   lease               the state the process sees of its own lease        *)
(*   seen                what an inspection under way has read so far       *)
(*   incomplete          whether the maintenance journal is incomplete      *)
(*                                                                         *)
(* A process makes one attempt, so it names its lock generation.  The lock  *)
(* provider is external: taking, reclaiming and releasing the directory     *)
(* are each atomic.                                                         *)
(***************************************************************************)
EXTENDS Naturals, FiniteSets

CONSTANTS
    Process,     \* processes that ever start
    None,        \* nobody
    MaxFaults,   \* bound: file operations that fail, lost heartbeats
    MaxStrange   \* bound: pids that are reused

VARIABLES lock, stale, owner, attempts, releasing, alive, reused, stalled,
          pc, how, lease, seen, incomplete, faults

disk == <<lock, stale, owner, attempts, releasing>>
os == <<alive, reused, stalled>>
vars == <<disk, os, pc, how, lease, seen, incomplete, faults>>

Nothing == [lock |-> None, stale |-> FALSE, owner |-> None,
            attempts |-> {}, releasing |-> {}]
Normal == [reclaims |-> FALSE, rechecks |-> FALSE]

Init ==
    /\ lock = None /\ stale = FALSE /\ owner = None
    /\ attempts = {} /\ releasing = {}
    /\ alive = Process /\ reused = {} /\ stalled = {}
    /\ pc = [p \in Process |-> "idle"]
    /\ how = [p \in Process |-> Normal]
    /\ lease = [p \in Process |-> "none"]
    /\ seen = [p \in Process |-> Nothing]
    /\ incomplete \in BOOLEAN
    /\ faults = 0

Moves(p, from, to) ==
    /\ p \in alive \ stalled
    /\ pc[p] = from
    /\ pc' = [pc EXCEPT ![p] = to]
Fault == faults < MaxFaults /\ faults' = faults + 1
Fine == UNCHANGED faults
Sees(p, state) == lease' = [lease EXCEPT ![p] = state]

(* Between its lock call and its own release of the lock.                   *)
Locking(p) == pc[p] \in {"locked", "swept", "owner", "undo", "undo-owner", "undo-lock",
    "recheck", "r2", "r3", "r4", "r5", "held", "release", "release-owner",
    "release-lock"}

------------------------------------------------------------------------------
(* The witness store.  A witness is sealed, written atomically and read back *)
(* before its operation succeeds.                                            *)
createAttempt(p) == attempts' = attempts \cup {p}
removeAttempt(p) == attempts' = attempts \ {p}
publishOwner(p) == owner' = p
removeCurrentOwnerWhileHeld(p) == owner = p /\ owner' = None
publishReleasing(p) == releasing' = releasing \cup {p}
removeReleasing(ps) == releasing' = releasing \ ps

(* A witness that is corrupt, or gone between listing and reading.          *)
Unreadable == Fault

------------------------------------------------------------------------------
(* Acquisition.  The ATTEMPT witness is on disk before the lock is asked    *)
(* for, and leaves it after the OWNER witness has taken over.               *)

CreateAttempt(p, from) ==
    /\ Moves(p, from, "attempted")
    /\ createAttempt(p)
    /\ Fine
    /\ UNCHANGED <<lock, stale, owner, releasing, os, how, lease, seen, incomplete>>

(* Normal acquisition never reclaims: its stale threshold is out of reach.  *)
Obtainable(p) == lock = None \/ (how[p].reclaims /\ stale)

Lock(p) ==
    /\ Moves(p, "attempted", "locked")
    /\ Obtainable(p)
    /\ lock' = p /\ stale' = FALSE
    /\ Sees(p, "HELD")
    /\ Fine
    /\ UNCHANGED <<owner, attempts, releasing, os, how, seen, incomplete>>

(* ELOCKED, or any other error of the provider.                             *)
LockRefused(p) ==
    /\ Moves(p, "attempted", "refused")
    /\ \/ ~Obtainable(p) /\ Fine
       \/ Fault
    /\ UNCHANGED <<disk, os, how, lease, seen, incomplete>>

WithdrawAttempt(p) ==
    /\ Moves(p, "refused", "over")
    /\ \/ removeAttempt(p) /\ Fine
       \/ UNCHANGED attempts /\ Fault
    /\ UNCHANGED <<lock, stale, owner, releasing, os, how, lease, seen, incomplete>>

SweepReleasing(p) ==
    /\ Moves(p, "locked", "swept")
    /\ removeReleasing(releasing)
    /\ Fine
    /\ UNCHANGED <<lock, stale, owner, attempts, os, how, lease, seen, incomplete>>

PublishOwner(p) ==
    /\ Moves(p, "swept", "owner")
    /\ publishOwner(p)
    /\ Fine
    /\ UNCHANGED <<lock, stale, attempts, releasing, os, how, lease, seen, incomplete>>

Acquired(p) ==
    /\ Moves(p, "owner", IF how[p].rechecks THEN "recheck" ELSE "held")
    /\ removeAttempt(p)
    /\ Fine
    /\ UNCHANGED <<lock, stale, owner, releasing, os, how, lease, seen, incomplete>>

(* A witness operation failed: undo in the order of the catch block, where  *)
(* every step of it may fail unnoticed.                                     *)
AcquireFails(p, from) ==
    /\ Moves(p, from, "undo")
    /\ Fault
    /\ UNCHANGED <<disk, os, how, lease, seen, incomplete>>

UndoPublish(p) ==
    /\ Moves(p, "undo", "undo-owner")
    /\ \/ publishReleasing(p) /\ Fine
       \/ UNCHANGED releasing /\ Fault
    /\ UNCHANGED <<lock, stale, owner, attempts, os, how, lease, seen, incomplete>>

(* removeCurrentOwnerWhileHeld refuses a witness of another generation.     *)
UndoOwner(p) ==
    /\ Moves(p, "undo-owner", "undo-lock")
    /\ \/ removeCurrentOwnerWhileHeld(p) /\ Fine
       \/ owner # p /\ UNCHANGED owner /\ Fine
       \/ UNCHANGED owner /\ Fault
    /\ UNCHANGED <<lock, stale, attempts, releasing, os, how, lease, seen, incomplete>>

UndoLock(p) ==
    /\ Moves(p, "undo-lock", "undo-releasing")
    /\ \/ lock' = (IF lock = p THEN None ELSE lock) /\ Fine
       \/ UNCHANGED lock /\ Fault
    /\ stale' = (stale /\ lock' # None)
    /\ Sees(p, "none")
    /\ UNCHANGED <<owner, attempts, releasing, os, how, seen, incomplete>>

UndoReleasing(p) ==
    /\ Moves(p, "undo-releasing", "refused")
    /\ \/ removeReleasing({p}) /\ Fine
       \/ UNCHANGED releasing /\ Fault
    /\ UNCHANGED <<lock, stale, owner, attempts, os, how, lease, seen, incomplete>>

------------------------------------------------------------------------------
(* Release: RELEASING is published before OWNER goes, so that the lock      *)
(* never stands without a witness.  A lease that was compromised meanwhile  *)
(* gives up nothing.                                                        *)

Release(p) ==
    /\ Moves(p, "held", "release")
    /\ lease[p] = "HELD"
    /\ Sees(p, "RELEASING")
    /\ Fine
    /\ UNCHANGED <<disk, os, how, seen, incomplete>>

ReleaseNothing(p) ==
    /\ Moves(p, "held", "over")
    /\ lease[p] # "HELD"
    /\ Sees(p, "RELEASED")
    /\ Fine
    /\ UNCHANGED <<disk, os, how, seen, incomplete>>

ReleasePublish(p) ==
    /\ Moves(p, "release", "release-owner")
    /\ publishReleasing(p)
    /\ Fine
    /\ UNCHANGED <<lock, stale, owner, attempts, os, how, lease, seen, incomplete>>

ReleaseOwner(p) ==
    /\ Moves(p, "release-owner", "release-lock")
    /\ removeCurrentOwnerWhileHeld(p)
    /\ Fine
    /\ UNCHANGED <<lock, stale, attempts, releasing, os, how, lease, seen, incomplete>>

ReleaseLock(p) ==
    /\ Moves(p, "release-lock", "release-rest")
    /\ lock = p
    /\ lock' = None /\ stale' = FALSE
    /\ Fine
    /\ UNCHANGED <<owner, attempts, releasing, os, how, lease, seen, incomplete>>

Released(p) ==
    /\ Moves(p, "release-rest", "over")
    /\ removeReleasing({p})
    /\ Sees(p, IF lease[p] = "COMPROMISED" THEN "COMPROMISED" ELSE "RELEASED")
    /\ Fine
    /\ UNCHANGED <<lock, stale, owner, attempts, os, how, seen, incomplete>>

(* Any failed step: the lock is released all the same, if it still can be.  *)
ReleaseFails(p, from) ==
    /\ Moves(p, from, "over")
    /\ Fault
    /\ Sees(p, "COMPROMISED")
    /\ IF lock = p /\ from # "release-rest"
       THEN \/ lock' = None /\ stale' = FALSE
            \/ from = "release-lock" /\ UNCHANGED <<lock, stale>>
       ELSE UNCHANGED <<lock, stale>>
    /\ UNCHANGED <<owner, attempts, releasing, os, how, seen, incomplete>>

(* A recovery from its first look at the disk to its lock call.             *)
Recovering ==
    {p \in alive : \/ pc[p] \in {"i2", "i3", "i4", "i5", "eligible"}
                   \/ pc[p] = "attempted" /\ how[p].reclaims}

(* The provider found its directory not refreshable.  It may take long to    *)
(* notice, but the lock does not begin to age while a recovery acts on what  *)
(* it saw before: that recovery would be let in.                             *)
Compromised(p) ==
    /\ p \in alive \ stalled
    /\ lease[p] \in {"HELD", "RELEASING"}
    /\ Recovering = {} /\ Fault
    /\ Sees(p, "COMPROMISED")
    /\ UNCHANGED <<disk, os, pc, how, seen, incomplete>>

------------------------------------------------------------------------------
(* Inspection reads one thing after another; recovery acts on the verdict   *)
(* later still.                                                             *)

Reads(p, what, value) == seen' = [seen EXCEPT ![p][what] = value]

(* Recovery starts for a proven local owner of the installation.            *)
ObserveLock(p, from, to) ==
    /\ Moves(p, from, to)
    /\ seen' = [seen EXCEPT ![p] = [Nothing EXCEPT !.lock = lock, !.stale = stale]]
    /\ Fine
    /\ UNCHANGED <<disk, os, how, lease, incomplete>>

ReadOwner(p, from, to) ==
    /\ Moves(p, from, to)
    /\ Reads(p, "owner", owner)
    /\ Fine
    /\ UNCHANGED <<disk, os, how, lease, incomplete>>

ListAttempts(p, from, to) ==
    /\ Moves(p, from, to)
    /\ Reads(p, "attempts", attempts)
    /\ Fine
    /\ UNCHANGED <<disk, os, how, lease, incomplete>>

ListReleasing(p, from, to) ==
    /\ Moves(p, from, to)
    /\ Reads(p, "releasing", releasing)
    /\ Fine
    /\ UNCHANGED <<disk, os, how, lease, incomplete>>

(* SAME_PROCESS, PROCESS_DEAD, or a pid that may be anybody's.              *)
Status(q) ==
    CASE q \in alive -> "SAME_PROCESS"
      [] q \in reused -> "UNKNOWN"
      [] OTHER -> "PROCESS_DEAD"

(* Mutant: an inspection that overlooks attempts.                           *)
WitnessesButAttempts(s) ==
    (IF s.owner = None THEN s.releasing ELSE {s.owner})
(* The witnesses that speak for a lock that is there.                       *)
Witnesses(s) ==
    (IF s.owner = None THEN s.releasing ELSE {s.owner}) \cup s.attempts

Statuses(s) == {Status(q) : q \in Witnesses(s)}
StatusesUnlocked(s) ==
    {Status(q) : q \in (IF s.owner = None THEN {} ELSE {s.owner}) \cup s.attempts}

Verdicts == {"BLOCKED", "INCOMPLETE_MAINTENANCE", "NO_RECOVERY_REQUIRED",
             "ACTIVE_BOOTSTRAP_OWNER", "ABANDONED_OWNER_ELIGIBLE"}
Classify(s, problem) ==
    CASE problem -> "BLOCKED"
      [] s.lock = None ->
            IF StatusesUnlocked(s) \cap {"SAME_PROCESS", "UNKNOWN"} # {} THEN "BLOCKED"
            ELSE IF incomplete THEN "INCOMPLETE_MAINTENANCE" ELSE "NO_RECOVERY_REQUIRED"
      [] "SAME_PROCESS" \in Statuses(s) -> "ACTIVE_BOOTSTRAP_OWNER"
      [] "UNKNOWN" \in Statuses(s) -> "BLOCKED"
      [] ~s.stale \/ Statuses(s) = {} -> "BLOCKED"
      [] OTHER -> "ABANDONED_OWNER_ELIGIBLE"

(* inspectBootstrapRecovery comes to its verdict.  A witness that vanishes   *)
(* between listing and reading, or a file error, is a problem: BLOCKED.      *)
Decide(p, from, verdict) ==
    /\ p \in alive \ stalled /\ pc[p] = from
    /\ \E problem \in BOOLEAN :
          /\ IF problem THEN Unreadable ELSE Fine
          /\ verdict = Classify(seen[p], problem)
    /\ seen' = [seen EXCEPT ![p] = Nothing]

ReclaimPolicy(verdict) ==
    [reclaims |-> verdict = "ABANDONED_OWNER_ELIGIBLE", rechecks |-> TRUE]

(* acquireBootstrapRecoveryLease: abandoned ownership is reclaimed, an       *)
(* incomplete maintenance acquires as anybody would.                        *)
Admit(p) ==
    /\ \E verdict \in Verdicts :
          /\ Decide(p, "i5", verdict)
          /\ IF verdict \in {"ABANDONED_OWNER_ELIGIBLE", "INCOMPLETE_MAINTENANCE"}
             THEN /\ pc' = [pc EXCEPT ![p] = "eligible"]
                  /\ how' = [how EXCEPT ![p] = ReclaimPolicy(verdict)]
             ELSE pc' = [pc EXCEPT ![p] = "over"] /\ UNCHANGED how
    /\ UNCHANGED <<disk, os, lease, incomplete>>

(* The recovered lease must read back as an active owner, or is released.   *)
Recheck(p) ==
    /\ \E verdict \in Verdicts :
          /\ Decide(p, "r5", verdict)
          /\ IF verdict = "ACTIVE_BOOTSTRAP_OWNER" \/ lease[p] # "HELD"
             THEN pc' = [pc EXCEPT ![p] = "held"] /\ UNCHANGED lease
             ELSE pc' = [pc EXCEPT ![p] = "release"] /\ Sees(p, "RELEASING")
    /\ UNCHANGED <<disk, os, how, incomplete>>

------------------------------------------------------------------------------
(* Processes and their heartbeats.                                          *)

(* A dead process's files and lock stay; its heartbeat does not.            *)
Die(p) ==
    /\ p \in alive
    /\ alive' = alive \ {p} /\ stalled' = stalled \ {p}
    /\ pc' = [pc EXCEPT ![p] = IF Locking(p) THEN "abandoned" ELSE "dead"]
    /\ lease' = [lease EXCEPT ![p] = "none"]
    /\ seen' = [seen EXCEPT ![p] = Nothing]
    /\ how' = [how EXCEPT ![p] = Normal]
    /\ Fine
    /\ UNCHANGED <<disk, reused, incomplete>>

ReusePid(p) ==
    /\ p \notin alive \cup reused
    /\ Cardinality(reused) < MaxStrange
    /\ reused' = reused \cup {p}
    /\ UNCHANGED <<disk, alive, stalled, pc, how, lease, seen, incomplete, faults>>

Beats(p) == p \in alive \ stalled /\ lease[p] \in {"HELD", "RELEASING"}

Age ==
    /\ lock # None /\ ~stale /\ ~Beats(lock)
    /\ stale' = TRUE
    /\ UNCHANGED <<lock, owner, attempts, releasing, os, pc, how, lease, seen,
                   incomplete, faults>>

(* A long pause of a holder, under the same restriction.                    *)
Stall(p) ==
    /\ Beats(p) /\ Fault
    /\ Recovering = {}
    /\ stalled' = stalled \cup {p}
    /\ UNCHANGED <<disk, alive, reused, pc, how, lease, seen, incomplete>>

Resume(p) ==
    /\ p \in stalled
    /\ stalled' = stalled \ {p}
    /\ stale' = (stale /\ lock # p)
    /\ UNCHANGED <<lock, owner, attempts, releasing, alive, reused, pc, how,
                   lease, seen, incomplete, faults>>

Acquires(p) ==
    \/ CreateAttempt(p, "idle") \/ CreateAttempt(p, "eligible")
    \/ Lock(p) \/ LockRefused(p) \/ WithdrawAttempt(p)
    \/ SweepReleasing(p) \/ PublishOwner(p) \/ Acquired(p)
    \/ \E from \in {"locked", "swept", "owner"} : AcquireFails(p, from)
    \/ UndoPublish(p) \/ UndoOwner(p) \/ UndoLock(p) \/ UndoReleasing(p)
Releases(p) ==
    \/ Release(p) \/ ReleaseNothing(p)
    \/ ReleasePublish(p) \/ ReleaseOwner(p) \/ ReleaseLock(p) \/ Released(p)
    \/ \E from \in {"release", "release-owner", "release-lock", "release-rest"} :
          ReleaseFails(p, from)
    \/ Compromised(p)
Inspects(p) ==
    \/ ObserveLock(p, "idle", "i2") \/ ReadOwner(p, "i2", "i3")
    \/ ListAttempts(p, "i3", "i4") \/ ListReleasing(p, "i4", "i5") \/ Admit(p)
    \/ ObserveLock(p, "recheck", "r2") \/ ReadOwner(p, "r2", "r3")
    \/ ListAttempts(p, "r3", "r4") \/ ListReleasing(p, "r4", "r5") \/ Recheck(p)
Next ==
    \/ \E p \in Process : \/ Acquires(p) \/ Releases(p) \/ Inspects(p)
                          \/ Die(p) \/ ReusePid(p) \/ Stall(p) \/ Resume(p)
    \/ Age

Spec == Init /\ [][Next]_vars

------------------------------------------------------------------------------
(* At most one living process is between its lock call and its release of   *)
(* the lock with a lease that still authorises it, and nobody is let in      *)
(* before it has left, died or been told that it is compromised: a recovery  *)
(* that finds the lock older than the threshold must still see the living    *)
(* holder in one of its witnesses, whichever of them it has on disk at the   *)
(* moment (recovery/bootstrap.ts:155-197, ownership.ts:191-333).             *)
holder ==
    LET live == {p \in alive : Locking(p) /\ lock = p /\ lease[p] # "COMPROMISED"} IN
    IF live = {} THEN None ELSE CHOOSE p \in live : TRUE
Lease == INSTANCE BootstrapLease
LeaseMoves == Lease!Next \/ UNCHANGED holder
ImplementsLease == Lease!Spec

(* A process that dies while it acquires, holds or releases the lock leaves  *)
(* one that can be recovered: once the lock is old and nobody alive has a    *)
(* witness, the inspection finds it abandoned rather than without evidence   *)
(* (ownership.ts:174-311, recovery/bootstrap.ts:190).                        *)
AbandonedIsRecoverable ==
    LET found == [lock |-> lock, stale |-> TRUE, owner |-> owner,
                  attempts |-> attempts, releasing |-> releasing] IN
    /\ lock # None
    /\ pc[lock] = "abandoned"
    /\ Witnesses(found) \cap (alive \cup reused) = {}
    => Classify(found, FALSE) = "ABANDONED_OWNER_ELIGIBLE"

Places == {"idle", "attempted", "refused", "over", "locked", "swept", "owner", "undo", "undo-owner",
    "undo-lock", "undo-releasing", "recheck", "r2", "r3", "r4", "r5", "held", "release",
    "release-owner", "release-lock", "release-rest", "i2", "i3", "i4", "i5", "eligible",
    "abandoned", "dead"}

TypeOK ==
    /\ {lock, owner} \subseteq Process \cup {None} /\ {stale, incomplete} \subseteq BOOLEAN
    /\ attempts \cup releasing \cup alive \cup reused \cup stalled \subseteq Process
    /\ pc \in [Process -> Places]
    /\ lease \in [Process -> {"none", "HELD", "RELEASING", "COMPROMISED", "RELEASED"}]
    /\ how \in [Process -> [reclaims : BOOLEAN, rechecks : BOOLEAN]]
    /\ seen \in [Process -> [lock : Process \cup {None}, stale : BOOLEAN, owner : Process \cup {None},
                             attempts : SUBSET Process, releasing : SUBSET Process]]
    /\ faults \in 0 .. MaxFaults

(* The lease through every acquisition, release, recovery and death.         *)
LeaseIsKept == [](TypeOK /\ AbandonedIsRecoverable) /\ ImplementsLease

------------------------------------------------------------------------------
(* The inductive invariant                                                  *)

Early == {"locked", "swept", "owner", "undo", "undo-owner", "undo-lock"}
Late == {"recheck", "r2", "r3", "r4", "r5", "held", "release", "release-owner", "release-lock"}

(* A process that is past its lock call has the lock, or has lost it to a   *)
(* recovery after it was told and had published its OWNER witness.          *)
HolderOK(p) ==
    p \in alive =>
      /\ p \notin reused
      /\ Locking(p) => /\ lease[p] \in {"HELD", "RELEASING", "COMPROMISED"}
                       /\ lock = p \/ (lease[p] = "COMPROMISED" /\ pc[p] \in Late)
      /\ pc[p] = "attempted" => p \in attempts
      /\ pc[p] = "idle" => ~how[p].reclaims
      /\ pc[p] \in {"idle", "i2", "i3", "i4", "i5", "eligible", "attempted"} =>
            p \notin stalled /\ lock # p /\ lease[p] = "none"

(* Some witness names the holder of the lock from its lock call on.         *)
WitnessOK(p) ==
    /\ p \in alive /\ lock = p =>
         /\ pc[p] \in Early => p \in attempts
         /\ pc[p] \in (Late \ {"release-lock"}) \cup {"owner"} => owner = p
         /\ pc[p] = "release-owner" => p \in releasing
         /\ pc[p] = "release-lock" => owner = None /\ p \in releasing
    /\ lock = p /\ pc[p] = "abandoned" =>
         p \in attempts \/ owner = p \/ (owner = None /\ p \in releasing)
    /\ p \notin alive => pc[p] \in {"abandoned", "dead"}

(* The heartbeat of a living holder stops only while it is stalled.         *)
StaleOK(p) ==
    p \in alive /\ Locking(p) /\ lock = p /\ lease[p] # "COMPROMISED" /\ stale => p \in stalled

(* A holder whose heartbeat stopped did so before any recovery under way    *)
(* began, so each has seen whatever names it.                               *)
SeenOK(p, q) ==
    p \in alive /\ Locking(p) /\ lock = p /\ ~Beats(p) /\ q \in Recovering =>
      /\ p \in attempts =>
           /\ pc[q] \in {"i4", "i5"} => p \in seen[q].attempts
           /\ pc[q] \in {"eligible", "attempted"} => ~how[q].reclaims
      /\ p \in stalled /\ pc[p] \in Late =>
           /\ pc[q] \in {"i3", "i4", "i5"} => seen[q].owner = owner
           /\ pc[q] = "i5" /\ p \in releasing => p \in seen[q].releasing
           /\ pc[q] \in {"eligible", "attempted"} => ~how[q].reclaims

Inv ==
    /\ TypeOK
    /\ \A p \in Process : HolderOK(p) /\ WitnessOK(p) /\ StaleOK(p)
    /\ \A p, q \in Process : SeenOK(p, q)
=============================================================================
