---------------------------- MODULE Installation ----------------------------
(***************************************************************************)
(* One installation across the lives of its processes: normal boots, the   *)
(* Host they end in, maintenance of the private PostgreSQL started by that *)
(* Host, and the recovery command after a process has died on the way.     *)
(*                                                                         *)
(* Four things on disk and in the server outlive a process: the bootstrap  *)
(* lock, the maintenance journals with the pointer to the current one, the *)
(* fence token in the database, and the server itself.  What a new process *)
(* may do is decided from them alone.                                      *)
(*                                                                         *)
(* How the lock is taken, how journals are written and how the server is   *)
(* started are the subjects of BootstrapOwnership, BootstrapRecords and    *)
(* PrivatePostgres; here each is one step that happens or fails.           *)
(***************************************************************************)
EXTENDS Naturals

CONSTANTS
  Processes,   \* process slots, used again after a process ends
  MaxOps,      \* maintenance operations
  MaxTokens,   \* fence tokens published
  MaxFaults    \* deaths, failing calls, crashes of the server and damage

VARIABLES
  state,       \* BootstrapState: EMPTY, CURRENT or DAMAGED (previous or corrupt)
  lock,        \* bootstrap lock: free, held or abandoned
  holder,      \* the process that took it last
  journal,     \* operation -> its phase, "NONE" before it is created
  intent,      \* operation -> what it does and the token of its source Host
  pointer,     \* lastCommittedOperationRef, 0 for none
  server,      \* whether the private PostgreSQL runs
  token,       \* the token in the fence, 0 for none
  advisory,    \* the process whose session holds the Host advisory key, or "none"
  issued,      \* tokens published so far
  proc,        \* process -> where it is
  faults

disk == <<state, journal, intent, pointer>>
db == <<server, token, advisory, issued>>
vars == <<state, lock, holder, journal, intent, pointer, server, token, advisory, issued,
          proc, faults>>

Ops == 1..MaxOps
Incomplete == {"PREPARED", "EXECUTING", "RECOVERY_REQUIRED"}
Entered == {"EXECUTING", "RECOVERY_REQUIRED"}
Fresh == [pc |-> "idle", mode |-> "boot", tok |-> 0, op |-> 0]

(* A Host serves until it has entered maintenance.                         *)
Preparing == {"locked", "created", "prepared"}
Active == {"serving"} \cup Preparing
Ended == {"idle", "failed", "dead"}
Working == {"owned", "opened", "ready", "published", "finalized", "recovering", "revoked",
            "entered", "closed", "stopped", "released"}
Places == Ended \cup Active \cup Working \cup {"cleared", "chosen", "continue", "stuck"}
Process == [pc : Places, mode : {"boot", "host", "recover"},
            tok : 0..MaxTokens, op : 0..MaxOps]

(* A locator or a state that does not read as current stops every path.    *)
Readable == state # "DAMAGED"
Obliged == pointer # 0 /\ journal[pointer] \in Incomplete
Bootable == Readable /\ ~Obliged

TypeOK ==
  /\ state \in {"EMPTY", "CURRENT", "DAMAGED"}
  /\ lock \in {"free", "held", "abandoned"} /\ holder \in Processes
  /\ journal \in [Ops -> {"NONE", "SUCCEEDED", "ABORTED"} \cup Incomplete]
  /\ intent \in [Ops -> [kind : {"STOP", "RESTART"}, source : 0..MaxTokens]]
  /\ pointer \in 0..MaxOps
  /\ server \in {"up", "down"}
  /\ {token, issued} \subseteq 0..MaxTokens
  /\ advisory \in Processes \cup {"none"}
  /\ proc \in [Processes -> Process]
  /\ faults \in 0..MaxFaults

Init ==
  /\ state = "EMPTY"
  /\ lock = "free" /\ holder \in Processes
  /\ journal = [o \in Ops |-> "NONE"]
  /\ intent = [o \in Ops |-> [kind |-> "STOP", source |-> 0]]
  /\ pointer = 0
  /\ server = "down" /\ token = 0 /\ advisory = "none" /\ issued = 0
  /\ proc = [p \in Processes |-> Fresh]
  /\ faults = 0

(***************************************************************************)
(* Helpers                                                                 *)
(***************************************************************************)
At(p, pcs) == proc[p].pc \in pcs
Goto(p, pc) == proc' = [proc EXCEPT ![p].pc = pc]
Holds(p) == lock = "held" /\ holder = p
Take(p) == lock' = "held" /\ holder' = p
Drop(p) == lock' = (IF Holds(p) THEN "free" ELSE lock) /\ UNCHANGED holder
Write(o, phase) == journal' = [journal EXCEPT ![o] = phase]
Fault == faults < MaxFaults /\ faults' = faults + 1
Unfenced(p) == advisory' = IF advisory = p THEN "none" ELSE advisory

(* The advisory key is a lock of a live session on a running server.       *)
Connects == server = "up"
LiveHost == advisory # "none"

(***************************************************************************)
(* Normal boot                                                             *)
(***************************************************************************)
(* prepareBootstrapPrelude: locator, roots, state and obligation are read  *)
(* before anything is owned.                                               *)
Prepare(p) ==
  /\ At(p, {"idle"})
  /\ proc' = [proc EXCEPT ![p].pc = IF Bootable THEN "cleared" ELSE "failed"]
  /\ UNCHANGED <<disk, db, lock, holder, faults>>

Acquire(p) ==
  /\ At(p, {"cleared"})
  /\ \/ lock = "free" /\ Take(p) /\ Goto(p, "owned")
     \/ lock # "free" /\ Goto(p, "failed") /\ UNCHANGED <<lock, holder>>
  /\ UNCHANGED <<disk, db, faults>>

(* materializeOwnedBootstrapPrelude reads state and obligation again.      *)
Materialize(p) ==
  /\ At(p, {"owned"})
  /\ \/ /\ Bootable
        /\ Goto(p, "opened")
        /\ UNCHANGED <<lock, holder>>
     \/ /\ ~Bootable
        /\ Goto(p, "failed")
        /\ Drop(p)
  /\ UNCHANGED <<disk, db, faults>>

(* ensureBootstrapStateInitialized and preparePrivatePostgres.             *)
PrepareServer(p) ==
  /\ At(p, {"opened"})
  /\ Readable
  /\ state' = "CURRENT"
  /\ server' = "up"
  /\ Goto(p, "ready")
  /\ UNCHANGED <<journal, intent, pointer, lock, holder, token, advisory, issued, faults>>

(* The forward hand-off: reservation, schema, lease, a fresh token.  An    *)
(* existing Host makes a boot yield and end; what it was recovering, or    *)
(* restarting, has failed.                                                 *)
Publish(p) ==
  /\ At(p, {"ready"})
  /\ Connects /\ ~LiveHost /\ issued < MaxTokens
  /\ issued' = issued + 1
  /\ token' = issued + 1
  /\ advisory' = p
  /\ proc' = [proc EXCEPT ![p].pc = IF proc[p].op = 0 THEN "finalized" ELSE "published",
                          ![p].tok = issued + 1]
  /\ UNCHANGED <<disk, server, lock, holder, faults>>

(* beforeBootstrapRelease of a hand-off that completes an operation.       *)
Finalize(p) ==
  /\ At(p, {"published"})
  /\ Write(proc[p].op, "SUCCEEDED")
  /\ Goto(p, "finalized")
  /\ UNCHANGED <<state, intent, pointer, db, lock, holder, faults>>

(* releaseBootstrapOwnershipAfterHandoff: the Host is only returned if it  *)
(* is still active after the release.                                      *)
Serve(p) ==
  /\ At(p, {"finalized"})
  /\ Drop(p)
  /\ proc' = [proc EXCEPT ![p].pc = IF advisory = p THEN "serving" ELSE "failed",
                          ![p].mode = "host", ![p].op = 0]
  /\ UNCHANGED <<disk, db, faults>>

(* shutdownKeepingPrivatePostgres.                                         *)
Shutdown(p) ==
  /\ At(p, {"serving"})
  /\ Unfenced(p)
  /\ Goto(p, "failed")
  /\ UNCHANGED <<disk, lock, holder, server, token, issued, faults>>

(***************************************************************************)
(* Maintenance by the Host                                                 *)
(***************************************************************************)
(* prepareMaintenance takes the bootstrap lock while the Host keeps its    *)
(* lease, and requires the fence to carry its own token.                   *)
Lock(p) ==
  /\ At(p, {"serving"})
  /\ lock = "free" /\ state = "CURRENT" /\ token = proc[p].tok
  /\ Take(p)
  /\ Goto(p, "locked")
  /\ UNCHANGED <<disk, db, faults>>

CreateJournal(p) ==
  /\ At(p, {"locked"})
  /\ \E o \in Ops, kind \in {"STOP", "RESTART"} :
       /\ journal[o] = "NONE" /\ \A k \in Ops : k < o => journal[k] # "NONE"
       /\ Write(o, "PREPARED")
       /\ intent' = [intent EXCEPT ![o] = [kind |-> kind, source |-> proc[p].tok]]
       /\ proc' = [proc EXCEPT ![p].pc = "created", ![p].op = o]
  /\ UNCHANGED <<state, pointer, db, lock, holder, faults>>

CommitPointer(p) ==
  /\ At(p, {"created"})
  /\ state = "CURRENT"
  /\ pointer' = proc[p].op
  /\ Goto(p, "prepared")
  /\ UNCHANGED <<state, journal, intent, db, lock, holder, faults>>

(* A failed preparation gives the lock back; the Host goes on serving.     *)
PrepareFails(p) ==
  /\ At(p, {"locked", "created"})
  /\ ~Readable \/ (\A o \in Ops : journal[o] # "NONE")
  /\ Drop(p)
  /\ proc' = [proc EXCEPT ![p].pc = "serving", ![p].op = 0]
  /\ UNCHANGED <<disk, db, faults>>

AbortBeforeExecute(p) ==
  /\ At(p, {"prepared"})
  /\ Write(proc[p].op, "ABORTED")
  /\ Drop(p)
  /\ proc' = [proc EXCEPT ![p].pc = "serving", ![p].op = 0]
  /\ UNCHANGED <<state, intent, pointer, db, faults>>

(* publishExecuting: a write that reports failure is decided by reading    *)
(* the journal again; when that fails too the lock is given back and the   *)
(* capability is dead, while the Host goes on serving.                     *)
PublishExecuting(p) ==
  /\ At(p, {"prepared"})
  /\ advisory = p /\ token = proc[p].tok
  /\ \/ /\ Write(proc[p].op, "EXECUTING")
        /\ Goto(p, "entered")
        /\ UNCHANGED <<lock, holder, faults>>
     \/ /\ Fault
        /\ UNCHANGED <<journal, proc, lock, holder>>
     \/ /\ Fault
        /\ Write(proc[p].op, "EXECUTING") \/ UNCHANGED journal
        /\ Drop(p)
        /\ proc' = [proc EXCEPT ![p].pc = "serving", ![p].op = 0]
  /\ UNCHANGED <<state, intent, pointer, db>>

(* The old Host is retired, its token revoked and its lease closed.        *)
Retire(p) ==
  /\ At(p, {"entered"})
  /\ advisory = p
  /\ token' = 0
  /\ advisory' = "none"
  /\ Goto(p, "closed")
  /\ UNCHANGED <<disk, lock, holder, server, issued, faults>>

(* Mutant: a stop that fails counts as one.                                *)
StopUnproved(p) ==
  /\ At(p, {"closed", "revoked"})
  /\ proc[p].mode = "host" => server = "up"
  /\ proc[p].mode = "recover" => intent[proc[p].op].kind = "STOP"
  /\ \/ server' = "down" /\ UNCHANGED faults
     \/ UNCHANGED server /\ Fault
  /\ Goto(p, "stopped")
  /\ UNCHANGED <<disk, lock, holder, token, advisory, issued>>

(* controller.stop with its proof.                                         *)
Stop(p) ==
  /\ At(p, {"closed", "revoked"})
  /\ proc[p].mode = "host" => server = "up"
  /\ proc[p].mode = "recover" => intent[proc[p].op].kind = "STOP"
  /\ server' = "down"
  /\ Goto(p, "stopped")
  /\ UNCHANGED <<disk, lock, holder, token, advisory, issued, faults>>

Stopped(p) ==
  /\ At(p, {"stopped"}) /\ intent[proc[p].op].kind = "STOP"
  /\ Write(proc[p].op, "SUCCEEDED")
  /\ Goto(p, "released")
  /\ UNCHANGED <<state, intent, pointer, db, lock, holder, faults>>

ReleaseStopped(p) ==
  /\ At(p, {"released"})
  /\ Drop(p)
  /\ Goto(p, "failed")
  /\ UNCHANGED <<disk, db, faults>>

(* controller.start and the ordinary hand-off that follows.                *)
Start(p) ==
  /\ At(p, {"stopped"}) /\ intent[proc[p].op].kind = "RESTART"
  /\ server' = "up"
  /\ Goto(p, "ready")
  /\ UNCHANGED <<disk, lock, holder, token, advisory, issued, faults>>

(***************************************************************************)
(* The recovery command                                                    *)
(***************************************************************************)
(* executeBootstrapRecoveryCommand: an incomplete operation is recovered,  *)
(* otherwise an abandoned boot continued.                                  *)
Recover(p) ==
  /\ At(p, {"idle"})
  /\ Readable
  /\ \/ /\ Obliged
        /\ proc' = [proc EXCEPT ![p] = [@ EXCEPT !.pc = "chosen", !.mode = "recover", !.op = pointer]]
     \/ /\ ~Obliged /\ lock = "abandoned"
        /\ Goto(p, "continue")
  /\ UNCHANGED <<disk, db, lock, holder, faults>>

AcquireRecovery(p) ==
  /\ At(p, {"chosen"})
  /\ \/ lock \in {"abandoned", "free"} /\ Take(p) /\ Goto(p, "recovering")
     \/ lock = "held" /\ Goto(p, "failed") /\ UNCHANGED <<lock, holder>>
  /\ UNCHANGED <<disk, db, faults>>

(* recoverAbandonedBootstrapToHost: from here on an ordinary owned boot.   *)
Continue(p) ==
  /\ At(p, {"continue"})
  /\ \/ lock = "abandoned" /\ Take(p) /\ Goto(p, "owned")
     \/ lock # "abandoned" /\ Goto(p, "failed") /\ UNCHANGED <<lock, holder>>
  /\ UNCHANGED <<disk, db, faults>>

Selected(p) == pointer = proc[p].op /\ state = "CURRENT"

(* A prepared operation is aborted when no Host is alive.                  *)
AbortPrepared(p) ==
  /\ At(p, {"recovering"}) /\ Selected(p) /\ journal[proc[p].op] = "PREPARED"
  /\ Connects /\ ~LiveHost
  /\ Write(proc[p].op, "ABORTED")
  /\ Goto(p, "released")
  /\ UNCHANGED <<state, intent, pointer, db, lock, holder, faults>>

(* An entered one requires that nobody holds the Host key, which recovery  *)
(* takes itself for as long as it revokes the token of the source Host.    *)
(* A token of another Host stops it.                                       *)
RevokeSource(p) ==
  /\ At(p, {"recovering"}) /\ Selected(p) /\ journal[proc[p].op] \in Entered
  /\ Connects /\ ~LiveHost
  /\ token \in {0, intent[proc[p].op].source}
  /\ token' = 0
  /\ Goto(p, IF intent[proc[p].op].kind = "STOP" THEN "revoked" ELSE "opened")
  /\ UNCHANGED <<disk, lock, holder, server, advisory, issued, faults>>

(* What keeps recovery from going on, or a boot or restart from its end.   *)
RecoveryBlocked(p) ==
  /\ At(p, {"recovering"})
  /\ \/ ~Selected(p)
     \/ journal[proc[p].op] \notin Incomplete
     \/ ~Connects
     \/ LiveHost
     \/ journal[proc[p].op] \in Entered /\ token \notin {0, intent[proc[p].op].source}
Blocked(p) ==
  \/ RecoveryBlocked(p)
  \/ At(p, {"opened"}) /\ ~Readable
  \/ At(p, {"ready"}) /\ (~Connects \/ LiveHost)
  \/ At(p, {"entered"}) /\ advisory # p
  \/ At(p, {"closed"}) /\ proc[p].mode = "host" /\ server = "down"

(* markRecoveryRequired, which itself may fail.                            *)
Mark(p) ==
  IF proc[p].op # 0 /\ journal[proc[p].op] \in Entered
  THEN Write(proc[p].op, "RECOVERY_REQUIRED") \/ UNCHANGED journal
  ELSE UNCHANGED journal

(* A boot and a recovery give the lock back.  A Host that has entered      *)
(* maintenance keeps it: its process is of no further use.                 *)
Fail(p) ==
  /\ At(p, Working)
  /\ IF Blocked(p) THEN UNCHANGED faults ELSE Fault
  /\ Mark(p)
  /\ Unfenced(p)
  /\ IF proc[p].mode = "host" /\ proc[p].op # 0
     THEN Goto(p, "stuck") /\ UNCHANGED <<lock, holder>>
     ELSE Goto(p, "failed") /\ Drop(p)
  /\ UNCHANGED <<state, intent, pointer, server, token, issued>>

(***************************************************************************)
(* Deaths and crashes                                                      *)
(***************************************************************************)
Die(p) ==
  /\ ~At(p, Ended)
  /\ IF At(p, {"stuck"}) THEN UNCHANGED faults ELSE Fault
  /\ lock' = IF Holds(p) THEN "abandoned" ELSE lock
  /\ Unfenced(p)
  /\ proc' = [proc EXCEPT ![p] = [Fresh EXCEPT !.pc = "dead"]]
  /\ UNCHANGED <<disk, holder, server, token, issued>>

Reuse(p) ==
  /\ At(p, {"failed", "dead"})
  /\ proc' = [proc EXCEPT ![p] = Fresh]
  /\ UNCHANGED <<disk, db, lock, holder, faults>>

(* A Host whose lease is gone is fenced and its process ends.              *)
ServerCrash ==
  /\ server = "up" /\ Fault
  /\ server' = "down" /\ advisory' = "none"
  /\ proc' = [p \in Processes |->
       CASE At(p, {"serving"}) -> [proc[p] EXCEPT !.pc = "failed"]
         [] At(p, Preparing) -> [proc[p] EXCEPT !.pc = "stuck"]
         [] OTHER -> proc[p]]
  /\ UNCHANGED <<disk, lock, holder, token, issued>>

PowerLoss ==
  /\ Fault
  /\ server' = "down" /\ advisory' = "none"
  /\ lock' = IF lock = "held" THEN "abandoned" ELSE lock
  /\ proc' = [p \in Processes |-> [Fresh EXCEPT !.pc = "dead"]]
  /\ UNCHANGED <<disk, holder, token, issued>>

Damage ==
  /\ state = "CURRENT" /\ Fault
  /\ state' = "DAMAGED"
  /\ UNCHANGED <<journal, intent, pointer, db, lock, holder, proc>>

Boots(p) == Prepare(p) \/ Acquire(p) \/ Materialize(p)
Works(p) ==
  \/ PrepareServer(p) \/ Publish(p) \/ Finalize(p) \/ Serve(p)
  \/ PublishExecuting(p) \/ Retire(p) \/ Stop(p) \/ Stopped(p) \/ ReleaseStopped(p) \/ Start(p)
  \/ AcquireRecovery(p) \/ Continue(p) \/ AbortPrepared(p) \/ RevokeSource(p) \/ Fail(p)
Requests(p) ==
  \/ Shutdown(p) \/ Lock(p) \/ CreateJournal(p) \/ CommitPointer(p) \/ PrepareFails(p)
  \/ AbortBeforeExecute(p)

Next ==
  \/ \E p \in Processes : Boots(p) \/ Works(p) \/ Requests(p) \/ Recover(p) \/ Die(p) \/ Reuse(p)
  \/ ServerCrash \/ PowerLoss \/ Damage

Spec == Init /\ [][Next]_vars

(* A process that has begun goes on, a stuck one ends, its slot is used    *)
(* again, and while an operation is incomplete the operator asks for its   *)
(* recovery again and again.                                               *)
RecoverySpec ==
  /\ Spec
  /\ \A p \in Processes :
       /\ WF_vars(Boots(p) /\ ~At(p, {"idle"})) /\ WF_vars(Works(p)) /\ WF_vars(Reuse(p))
       /\ WF_vars(Die(p) /\ At(p, {"stuck"}))
       /\ SF_vars(Recover(p))

(***************************************************************************)
(* Properties                                                              *)
(***************************************************************************)
(* While an operation has been entered and is not resolved, nobody serves  *)
(* but the Host that started it and could not find out that it had: no     *)
(* boot, restart or continuation ends in a Host over an open obligation.   *)
NoHostOverObligation ==
  \A p \in Processes :
    At(p, Active) /\ pointer # 0 /\ journal[pointer] \in Entered =>
      proc[p].tok = intent[pointer].source

(* A Host that still serves is the one the fence names: neither a second   *)
(* boot nor a recovery takes the token of a live Host away.                *)
ServingIsFenced ==
  \A p \in Processes : At(p, Active) => advisory = p /\ token = proc[p].tok

(* A capability that may still execute or abort its operation finds it     *)
(* PREPARED on disk: after a failed write nobody mistakes an entered       *)
(* operation for one that was not.                                         *)
NotEnteredIsTrue ==
  \A p \in Processes : At(p, {"prepared"}) => journal[proc[p].op] = "PREPARED"

(* MAINT-005 and MAINT-006: an operation succeeds only with its target     *)
(* reached, the server stopped and nobody serving, or a token newer than   *)
(* that of its source in the fence.                                        *)
SucceedsWhenReached ==
  \A o \in Ops : journal[o] # "SUCCEEDED" /\ journal'[o] = "SUCCEEDED" =>
    IF intent[o].kind = "STOP"
    THEN server = "down" /\ \A p \in Processes : ~At(p, Active)
    ELSE token > intent[o].source
SucceededIsReached == [][SucceedsWhenReached]_vars

(* specs/runtime/maintenance-handoff.md: "An executing STOP or RESTART     *)
(* converges the same cluster to its recorded target."  With nobody left   *)
(* of those that knew, recovery that is asked for again and again brings a *)
(* STOP to its end (for a RESTART the bound on tokens would be in the way).*)
RecoveryConverges ==
  \A o \in Ops :
    /\ pointer = o /\ journal[o] \in Entered /\ intent[o].kind = "STOP"
    /\ state = "CURRENT"
    /\ \A p \in Processes : At(p, Ended)
    ~> journal[o] = "SUCCEEDED"

(***************************************************************************)
(* The inductive invariant                                                 *)
(***************************************************************************)
(* Who works for the installation holds its lock.                          *)
Owning == Working \cup Preparing \cup {"stuck"}
OwnsLock(p) == At(p, Owning) => Holds(p)

(* An obligation that was entered stands in the way.                       *)
Open == pointer # 0 /\ journal[pointer] \in Entered

(* The token of a process is the one in the fence from its publication on. *)
TokenOK(p) ==
  /\ At(p, {"published", "finalized"} \cup Active) => token = proc[p].tok
  /\ At(p, Active) => advisory = p
  /\ At(p, {"closed", "revoked", "stopped"}) => ~LiveHost

(* What is done for an operation is done for the one the pointer names;    *)
(* what is done for none was begun with no obligation.                     *)
OperationOK(p) ==
  LET o == proc[p].op IN
  /\ At(p, {"idle", "cleared", "continue", "owned"}) => o = 0
  /\ At(p, {"created", "prepared", "entered", "closed", "chosen", "recovering", "revoked", "stopped", "published"}) =>
       o # 0
  /\ At(p, {"prepared", "entered", "closed", "revoked", "stopped", "opened", "ready", "published"}) /\ o # 0 =>
       pointer = o
  /\ At(p, {"opened", "ready"}) /\ o = 0 => ~Open
  /\ At(p, {"finalized"}) => ~Open

(* An operation that goes on to its end is of the kind that has that end.  *)
IntentOK(p) ==
  LET o == proc[p].op IN
  /\ At(p, {"created", "prepared"}) => journal[o] = "PREPARED" /\ intent[o].source = proc[p].tok
  /\ At(p, {"stopped"}) /\ intent[o].kind = "STOP" => server = "down"
  /\ At(p, {"opened", "ready", "published"}) /\ o # 0 => intent[o].kind = "RESTART"
  /\ At(p, {"published"}) => token > intent[o].source

(* While somebody serves, what is open is its own.                         *)
HostOK(p) == At(p, Active) /\ Open => proc[p].tok = intent[pointer].source

ProcessOK(p) == OwnsLock(p) /\ TokenOK(p) /\ OperationOK(p) /\ IntentOK(p) /\ HostOK(p)

Inv ==
  /\ TypeOK
  /\ \A o \in Ops : intent[o].source <= issued
  /\ token <= issued /\ \A p \in Processes : proc[p].tok <= issued
  /\ \A p \in Processes : ProcessOK(p)

(* Maintenance and Hosts of one installation, whoever dies and recovers.     *)
MaintenanceIsFenced ==
  [](TypeOK /\ NoHostOverObligation /\ ServingIsFenced /\ NotEnteredIsTrue) /\ SucceededIsReached
=============================================================================
