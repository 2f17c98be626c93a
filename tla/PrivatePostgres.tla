---------------------------- MODULE PrivatePostgres ----------------------------
(***************************************************************************)
(* Private PostgreSQL under the bootstrap lease: packages/bootstrap/         *)
(* private-postgres (controller.ts, lifecycle-machine.ts, its processes and  *)
(* inspections, the maintenance controller) and the session that fences it   *)
(* (bootstrap-runtime/src/postgres/bootstrap.ts), over successive owners of  *)
(* the lease.                                                               *)
(*                                                                         *)
(*   directory   DATA/private-postgres: Nothing, Partial, or a cluster       *)
(*   identity    the cluster BootstrapState names, or Nothing                *)
(*   expected    the identity the operation validates against                *)
(*   server      the postmaster: stopped, running, ready or stopping         *)
(*   pending     the owners whose issued start has not shown itself yet      *)
(*   startedBy   whose the server is: the owner that started it, or a Host     *)
(*   owner       how many owners there have been; the last one acts          *)
(*   held        whether it still passes assertBootstrapOwnershipFor         *)
(*   session     PrivatePostgresSessionTracker: state, and whether the        *)
(*               handle's token is current                                   *)
(*   machine     PrivatePostgresLifecycleTracker                             *)
(*   mechanics   Nobody's, STARTED_BY_THIS_BOOTSTRAP or ALREADY_RUNNING       *)
(*   pc, goal    where the operation stands and which operation it is        *)
(*   ctl         the Host's maintenance controller                           *)
(*                                                                         *)
(* pg_ctl, initdb, pg_controldata and the server are external.              *)
(***************************************************************************)
EXTENDS Naturals

CONSTANTS Owners, MaxFaults

VARIABLES directory, identity, expected, server, pending, startedBy, owner, held,
          session, machine, mechanics, pc, goal, ctl, faults

outside == <<directory, identity, expected, server, pending, startedBy>>
vars == <<outside, owner, held, session, machine, mechanics, pc, goal, ctl, faults>>

Nothing == 0
Partial == Owners + 1
Nobody == 0
Host == Owners + 2

Init ==
    /\ directory = Nothing /\ identity = Nothing /\ expected = Nothing
    /\ server = "stopped" /\ pending = {} /\ startedBy = Nobody
    /\ owner = 1 /\ held = TRUE
    /\ session = [state |-> "QUIESCENT", current |-> FALSE]
    /\ machine = "stopped" /\ mechanics = "NONE"
    /\ pc = "idle" /\ goal = "none"
    /\ ctl = "NONE"
    /\ faults = 0

Fault == faults < MaxFaults /\ faults' = faults + 1

-----------------------------------------------------------------------------
(* The states that a stopped status settles.                                *)
(* Mutant: an uncertain start among them; the probe may precede the            *)
(* postmaster it looks for.                                                  *)
SettledStart == {"stopping", "processUncertain", "startOutcomeUncertain"}

Settled == {"stopping", "processUncertain"}

(* The lifecycle machine: the state an event leads to, "" where it is not     *)
(* accepted.                                                                *)
lifecycleMachine(state, event) ==
    CASE state = "stopped" /\ event = "START_COMMAND_ISSUED" -> "startCommandPending"
      [] state = "ready" /\ event = "RESTART_COMMAND_ISSUED" -> "startCommandPending"
      [] state = "startCommandPending" /\ event = "START_COMMAND_SUCCEEDED" -> "startedPendingReady"
      [] state = "startCommandPending" /\ event = "START_OUTCOME_UNCERTAIN" -> "startOutcomeUncertain"
      [] state = "startedPendingReady" /\ event = "READY_PROVEN" -> "ready"
      [] state = "startedPendingReady" /\ event = "POST_START_PROOF_FAILED" -> "processUncertain"
      [] state \in {"ready", "runningObservedUncertain"} /\ event = "STOP_COMMAND_ISSUED" -> "stopping"
      [] state = "ready" /\ event = "UNEXPECTED_PROCESS_EXIT" -> "processUncertain"
      [] state = "stopping" /\ event = "STOP_OUTCOME_UNCERTAIN" -> "processUncertain"
      [] state \in Settled /\ event = "STATUS_STOPPED_PROVEN" -> "stopped"
      [] state \in {"startOutcomeUncertain", "processUncertain"} /\ event = "STATUS_RUNNING_PROVEN" ->
             "runningObservedUncertain"
      [] OTHER -> ""

can(event) == lifecycleMachine(machine, event) # ""
send(event) == can(event) /\ machine' = lifecycleMachine(machine, event)
sendIf(event) == machine' = IF can(event) THEN lifecycleMachine(machine, event) ELSE machine

(* The session tracker.                                                     *)
mark(state) == session' = [session EXCEPT !.state = state]
assertSessionState(states) == session.state \in states
assertReleaseAllowed ==
    assertSessionState({"QUIESCENT", "HANDED_OFF", "YIELDED_TO_EXISTING_HOST"})

Acts(at) == pc = at /\ owner <= Owners
To(at) == pc' = at
(* The operation ends without reaching the server again.                    *)
Ends == pc' = "idle" /\ goal' = "none"

-----------------------------------------------------------------------------
(* preparePrivatePostgresForOwnedPrelude.                                   *)
beginPreparation ==
    /\ Acts("idle") /\ held
    /\ assertSessionState({"QUIESCENT"})
    /\ session' = [state |-> "TRANSITIONING", current |-> TRUE]
    /\ machine' = "stopped" /\ mechanics' = "NONE"
    /\ To("inspect") /\ goal' = "prepare"
    /\ UNCHANGED <<outside, owner, held, ctl, faults>>

classifyClusterDirectory == IF directory = Nothing THEN "EMPTY" ELSE "NON_EMPTY"

(* assertFirstInitializationTarget is the second of two looks.               *)
assertFirstInitializationTarget == classifyClusterDirectory = "EMPTY"

(* Every way out of prepare that started nothing leaves it quiescent.        *)
PrepareFails ==
    /\ mark("QUIESCENT") /\ Ends
    /\ UNCHANGED <<outside, owner, held, machine, mechanics, ctl>>

(* The installed binaries are missing or of another major.                  *)
resolvePrivatePostgresToolchain == Fault

inspect ==
    /\ Acts("inspect")
    /\ \/ held /\ identity # Nothing /\ classifyClusterDirectory = "NON_EMPTY" /\ To("validate")
          /\ expected' = identity
          /\ UNCHANGED <<directory, identity, server, pending, startedBy, owner, held, session, machine,
                         mechanics, goal, ctl, faults>>
       \/ held /\ identity = Nothing /\ assertFirstInitializationTarget /\ To("initdb")
          /\ UNCHANGED <<outside, owner, held, session, machine, mechanics, goal, ctl, faults>>
       \/ /\ \/ ~held
             \/ identity # Nothing /\ classifyClusterDirectory = "EMPTY"
             \/ identity = Nothing /\ ~assertFirstInitializationTarget
          /\ PrepareFails /\ UNCHANGED faults
       \/ resolvePrivatePostgresToolchain /\ PrepareFails

(* Without its password file initdb is never run.                            *)
withRestrictedPasswordFile == UNCHANGED directory

(* initdb makes a new cluster or leaves a part of one visible.               *)
initializePrivatePostgresCluster ==
    /\ Acts("initdb")
    /\ \/ held /\ directory' = owner /\ expected' = owner /\ To("commit")
          /\ UNCHANGED <<identity, server, pending, startedBy, session, goal, faults>>
       \/ /\ Fault /\ (withRestrictedPasswordFile \/ directory' = Partial)
          /\ mark("QUIESCENT") /\ Ends
          /\ UNCHANGED <<identity, expected, server, pending, startedBy>>
       \/ ~held /\ mark("QUIESCENT") /\ Ends /\ UNCHANGED <<outside, faults>>
    /\ UNCHANGED <<owner, held, machine, mechanics, ctl>>

(* The identity is committed before anything is started; a commit that       *)
(* fails may still have replaced the file.                                  *)
commitIdentity ==
    /\ Acts("commit")
    /\ \/ held /\ identity' = directory /\ To("validate") /\ UNCHANGED <<session, goal, faults>>
       \/ Fault /\ identity' \in {identity, directory} /\ mark("QUIESCENT") /\ Ends
       \/ ~held /\ mark("QUIESCENT") /\ Ends /\ UNCHANGED <<identity, faults>>
    /\ UNCHANGED <<directory, expected, server, pending, startedBy, owner, held, machine, mechanics, ctl>>

inspectPrivatePostgresCluster == directory \notin {Nothing, Partial}
inspectEffectivePrivatePostgresProfile == directory = expected
validateExistingCluster ==
    inspectPrivatePostgresCluster /\ inspectEffectivePrivatePostgresProfile

validate ==
    /\ Acts("validate")
    /\ \/ held /\ validateExistingCluster /\ To("status")
          /\ UNCHANGED <<outside, owner, held, session, machine, mechanics, goal, ctl, faults>>
       \/ (~held \/ ~validateExistingCluster) /\ PrepareFails /\ UNCHANGED faults

(* startPrivatePostgresCluster: a running server is adopted once it is       *)
(* ready, a stopped one is started.                                         *)
readPrivatePostgresProcessStatus == IF server = "stopped" THEN "STOPPED" ELSE "RUNNING"

Adopt ==
    /\ Acts("status") /\ readPrivatePostgresProcessStatus = "RUNNING"
    /\ \/ server = "ready" /\ mechanics' = "ALREADY_RUNNING" /\ mark("READY") /\ Ends
          /\ startedBy' = Host
          /\ UNCHANGED <<directory, identity, expected, server, pending, owner, held,
                         machine, ctl, faults>>
          \* a record that fails after the adoption
       \/ /\ server = "ready" /\ mark("UNCERTAIN") /\ Ends /\ Fault
          /\ UNCHANGED <<outside, owner, held, machine, mechanics, ctl>>
       \/ PrepareFails /\ Fault

startProcess(event) ==
    /\ send(event)
    /\ pending' = pending \cup {owner}
    /\ To("started")

Start ==
    /\ Acts("status") /\ readPrivatePostgresProcessStatus = "STOPPED"
    /\ \/ held /\ startProcess("START_COMMAND_ISSUED") /\ UNCHANGED <<session, goal, faults>>
       \/ ~held /\ mark("QUIESCENT") /\ Ends /\ UNCHANGED <<pending, machine, faults>>
       \/ Fault /\ mark("QUIESCENT") /\ Ends /\ UNCHANGED <<pending, machine>>
    /\ UNCHANGED <<directory, identity, expected, server, startedBy, owner, held, mechanics, ctl>>

(* pg_ctl answers: the postmaster shows itself, or pg_ctl gave up.  By then    *)
(* a start of a dead owner, issued before the recovery and a whole start-up   *)
(* budget ago, has shown itself or failed.                                   *)
CommandReturns ==
    /\ Acts("started") /\ machine = "startCommandPending"
    /\ \/ owner \notin pending /\ server # "stopped" /\ send("START_COMMAND_SUCCEEDED")
          /\ UNCHANGED <<pc, faults>>
       \/ /\ send("START_OUTCOME_UNCERTAIN") /\ Fault /\ pending \subseteq {owner}
          /\ IF goal = "prepare" THEN To("before") ELSE To("failed")
    /\ UNCHANGED <<outside, owner, held, session, mechanics, goal, ctl>>

(* Ready and still the validated cluster, or not.                           *)
waitForPrivatePostgresReadiness ==
    /\ Acts("started") /\ machine = "startedPendingReady"
    /\ \/ /\ server = "ready" /\ validateExistingCluster /\ send("READY_PROVEN") /\ To("ready")
          /\ mechanics' = IF goal = "prepare" THEN "STARTED_BY_THIS_BOOTSTRAP" ELSE mechanics
          /\ UNCHANGED faults
       \/ /\ IF server = "stopped" THEN UNCHANGED faults ELSE Fault
          /\ send("POST_START_PROOF_FAILED")
          /\ IF goal = "prepare" THEN To("before") ELSE To("failed")
          /\ UNCHANGED mechanics
    /\ UNCHANGED <<outside, owner, held, session, goal, ctl>>

(* The handle is returned, unless the last record fails, when what this       *)
(* bootstrap started is stopped again, or the lease was lost on the way.      *)
ReadyReturned ==
    /\ Acts("ready")
    /\ \/ held /\ mark("READY") /\ Ends /\ UNCHANGED <<mechanics, faults>>
       \/ /\ held /\ goal = "prepare" /\ Fault
          /\ To("before") /\ goal' = "cleanup" /\ mechanics' = "NONE" /\ UNCHANGED session
       \/ /\ ~held /\ mark("UNCERTAIN") /\ Ends
          /\ mechanics' = IF goal = "prepare" THEN "NONE" ELSE mechanics
          /\ UNCHANGED faults
    /\ UNCHANGED <<outside, owner, held, machine, ctl>>

-----------------------------------------------------------------------------
(* The handle's stop and restart.                                            *)
assertCurrent == session.current
Controls == mechanics = "STARTED_BY_THIS_BOOTSTRAP"

stop ==
    /\ Acts("idle") /\ assertCurrent /\ Controls /\ held
    /\ assertSessionState({"READY", "UNCERTAIN"})
    /\ mark("TRANSITIONING")
    /\ To("before") /\ goal' = "stop"
    /\ UNCHANGED <<outside, owner, held, machine, mechanics, ctl, faults>>

\* A restart that fails before the old server is down has started nothing; a
\* status that cannot be read counts as an exit.
restart ==
    /\ Acts("idle") /\ assertCurrent /\ Controls /\ held
    /\ assertSessionState({"QUIESCENT", "READY"})
    /\ \/ /\ machine = "ready" /\ readPrivatePostgresProcessStatus = "RUNNING"
          /\ startProcess("RESTART_COMMAND_ISSUED") /\ server' = "stopped"
          /\ startedBy' = Nobody
          /\ mark("TRANSITIONING") /\ goal' = "restart" /\ UNCHANGED faults
       \/ /\ machine = "ready" /\ readPrivatePostgresProcessStatus = "RUNNING" /\ Fault
          /\ server' \in {server, "stopping"} /\ machine' = "startOutcomeUncertain" /\ To("failed")
          /\ mark("TRANSITIONING") /\ goal' = "restart" /\ UNCHANGED <<startedBy, pending>>
       \/ /\ machine = "stopped" /\ startProcess("START_COMMAND_ISSUED")
          /\ mark("TRANSITIONING") /\ goal' = "restart" /\ UNCHANGED <<server, startedBy, faults>>
       \/ /\ machine = "ready"
          /\ IF readPrivatePostgresProcessStatus = "STOPPED" THEN UNCHANGED faults ELSE Fault
          /\ send("UNEXPECTED_PROCESS_EXIT") /\ mark("UNCERTAIN")
          /\ UNCHANGED <<server, startedBy, pending, pc, goal>>
    /\ UNCHANGED <<directory, identity, expected, owner, held, mechanics, ctl>>

(* A restart that fails leaves the session uncertain; stop remains.          *)
restartFails ==
    /\ Acts("failed") /\ mark("UNCERTAIN") /\ Ends
    /\ UNCHANGED <<outside, owner, held, machine, mechanics, ctl, faults>>

(* stopWithProof.  Its caller marks the session by how it ends.              *)
Proven == IF goal = "stop" /\ ~held THEN mark("UNCERTAIN") ELSE mark("QUIESCENT")
stopUncertain == mark("UNCERTAIN")

(* The first status proves it stopped, or may do so for no later event.       *)
StopBefore ==
    /\ Acts("before")
    /\ \/ /\ readPrivatePostgresProcessStatus = "STOPPED" /\ Ends
          /\ UNCHANGED faults
          /\ \/ send("STATUS_STOPPED_PROVEN") /\ Proven
             \/ can("UNEXPECTED_PROCESS_EXIT") /\ machine' = "stopped" /\ Proven
             \/ /\ ~can("STATUS_STOPPED_PROVEN") /\ ~can("UNEXPECTED_PROCESS_EXIT")
                /\ stopUncertain /\ UNCHANGED machine
       \/ stopUncertain /\ Ends /\ Fault /\ UNCHANGED machine
       \/ /\ readPrivatePostgresProcessStatus = "RUNNING" /\ UNCHANGED faults
          /\ sendIf("STATUS_RUNNING_PROVEN")
          /\ IF held /\ lifecycleMachine(machine', "STOP_COMMAND_ISSUED") # ""
             THEN To("command") /\ UNCHANGED <<session, goal>>
             ELSE stopUncertain /\ Ends
    /\ UNCHANGED <<outside, owner, held, mechanics, ctl>>

stopProcess ==
    /\ Acts("command") /\ send("STOP_COMMAND_ISSUED") /\ To("after")
    /\ \/ server' = "stopped" /\ UNCHANGED faults
       \/ server' \in {server, "stopping"} /\ server # "stopped" /\ Fault
    /\ UNCHANGED <<directory, identity, expected, pending, startedBy, owner, held, session,
                   mechanics, goal, ctl>>

StopAfter ==
    /\ Acts("after") /\ Ends
    /\ \/ /\ readPrivatePostgresProcessStatus = "STOPPED" /\ UNCHANGED faults
          /\ send("STATUS_STOPPED_PROVEN") /\ Proven
       \/ readPrivatePostgresProcessStatus = "RUNNING" /\ send("STOP_OUTCOME_UNCERTAIN")
          /\ stopUncertain /\ UNCHANGED faults
       \/ send("STOP_OUTCOME_UNCERTAIN") /\ stopUncertain /\ Fault
    /\ UNCHANGED <<outside, owner, held, mechanics, ctl>>

-----------------------------------------------------------------------------
(* The session ends: a Host takes over or exists already, or the prelude      *)
(* closes.                                                                   *)
markHandedOff ==
    /\ Acts("idle") /\ held /\ assertCurrent /\ assertSessionState({"READY"})
    /\ session' \in {[state |-> s, current |-> FALSE] :
                        s \in {"HANDED_OFF", "YIELDED_TO_EXISTING_HOST"}}
    /\ startedBy' = Host
    /\ UNCHANGED <<directory, identity, expected, server, pending, owner, held, machine, mechanics, pc, goal, ctl, faults>>

(* The next owner comes after the lease was released or its holder died; a    *)
(* pending start of a dead holder is still on its way.                      *)
Fresh ==
    /\ owner' = owner + 1
    /\ held' = TRUE
    /\ session' = [state |-> "QUIESCENT", current |-> FALSE]
    /\ machine' = "stopped" /\ mechanics' = "NONE"
    /\ pc' = "idle" /\ goal' = "none" /\ ctl' = "NONE"

close ==
    /\ Acts("idle") /\ held /\ assertReleaseAllowed /\ ctl \in {"NONE", "READY", "STOPPED"}
    /\ Fresh
    /\ UNCHANGED <<outside, faults>>

Die ==
    /\ owner <= Owners /\ Fault /\ Fresh
    /\ directory' = IF pc = "initdb" THEN Partial ELSE directory
    /\ pending' = IF Host \in pending THEN (pending \ {Host}) \cup {owner} ELSE pending
    /\ UNCHANGED <<identity, expected, server, startedBy>>

LoseLease ==
    /\ owner <= Owners /\ held /\ held' = FALSE /\ Fault
    /\ UNCHANGED <<outside, owner, session, machine, mechanics, pc, goal, ctl>>

-----------------------------------------------------------------------------
(* The maintenance controller of a Host that holds the lease.  A maintenance  *)
(* that ends uncertain leaves its journal incomplete, and then nobody but a   *)
(* recovery prepares: the lease is not passed on as usual.                    *)
Open ==
    /\ Acts("idle") /\ session.state = "HANDED_OFF" /\ held /\ ctl = "NONE"
    /\ validateExistingCluster /\ server \in {"ready", "stopped"}
    /\ ctl' = IF server = "ready" THEN "READY" ELSE "STOPPED"
    /\ UNCHANGED <<outside, owner, held, session, machine, mechanics, pc, goal, faults>>

ctlStop ==
    /\ Acts("idle") /\ held /\ ctl = "READY" /\ ctl' = "STOPPING"
    /\ IF server = "stopped" THEN UNCHANGED <<server, faults>>
       ELSE \/ server' = "stopped" /\ UNCHANGED faults
            \/ server' \in {server, "stopping"} /\ Fault
    /\ UNCHANGED <<directory, identity, expected, pending, startedBy, owner, held, session, machine,
                   mechanics, pc, goal>>

ctlStart ==
    /\ Acts("idle") /\ held /\ ctl = "STOPPED" /\ ctl' = "STARTING"
    /\ pending' = pending \cup {Host}
    /\ UNCHANGED <<directory, identity, expected, server, startedBy, owner, held, session, machine,
                   mechanics, pc, goal, faults>>

(* Proven by the status, by readiness and by authority, or uncertain for      *)
(* good.                                                                    *)
ctlProves ==
    /\ Acts("idle")
    /\ \/ ctl = "STOPPING" /\ ctl' = IF server = "stopped" /\ held THEN "STOPPED" ELSE "UNCERTAIN"
       \/ /\ ctl = "STARTING" /\ (server = "ready" \/ faults = MaxFaults \/ ~held)
          /\ ctl' = IF server = "ready" /\ validateExistingCluster /\ held THEN "READY"
                    ELSE "UNCERTAIN"
    /\ UNCHANGED <<outside, owner, held, session, machine, mechanics, pc, goal, faults>>

-----------------------------------------------------------------------------
(* The server itself.                                                       *)
(* The first postmaster to write the pid file wins, the others exit.         *)
Appear ==
    \E o \in pending :
        /\ \/ server' = "running" /\ startedBy' = o /\ pending' = {} /\ UNCHANGED faults
           \/ pending' = pending \ {o} /\ Fault /\ UNCHANGED <<server, startedBy>>
        /\ UNCHANGED <<directory, identity, expected, owner, held, session, machine, mechanics, pc,
                       goal, ctl>>

Moves ==
    /\ \/ server = "running" /\ server' = "ready" /\ UNCHANGED faults
       \/ server = "stopping" /\ server' = "stopped" /\ UNCHANGED faults
       \/ server \in {"running", "ready"} /\ server' = "stopped" /\ Fault
    /\ UNCHANGED <<directory, identity, expected, pending, startedBy, owner, held, session, machine,
                   mechanics, pc, goal, ctl>>

Next ==
    \/ beginPreparation \/ inspect \/ initializePrivatePostgresCluster \/ commitIdentity
    \/ validate \/ Adopt \/ Start \/ CommandReturns \/ waitForPrivatePostgresReadiness
    \/ ReadyReturned \/ stop \/ restart \/ restartFails \/ StopBefore \/ stopProcess
    \/ StopAfter \/ markHandedOff \/ close \/ Die \/ LoseLease
    \/ Open \/ ctlStop \/ ctlStart \/ ctlProves \/ Appear \/ Moves

Spec == Init /\ [][Next]_vars

-----------------------------------------------------------------------------
(* When the bootstrap lease is about to be released with a quiescent session, *)
(* nothing this owner started runs or may still come up: the next owner will  *)
(* not be surprised by it (postgres/bootstrap.ts:303, controller.ts:416).     *)
QuiescentIsQuiet ==
    session.state = "QUIESCENT" /\ owner <= Owners =>
        /\ owner \notin pending
        /\ startedBy = owner => server = "stopped"

(* The server only ever runs the cluster that BootstrapState names: never one  *)
(* that a crash left without an identity, never a part of one                 *)
(* (postgres/bootstrap.ts:599, controller.ts:249).                            *)
RunsTheNamedCluster ==
    server # "stopped" \/ pending # {} => directory = identity /\ directory # Partial

(* The bootstrap stops no server that it found running or handed over: from     *)
(* then on only the Host's maintenance controller does (postgres/              *)
(* bootstrap.ts:291, controller.ts:407).                                      *)
HostKeepsServer == pc \in {"command", "after"} /\ server # "stopped" => startedBy # Host

TypeOK ==
    /\ {directory, identity, expected} \subseteq 0 .. Owners \cup {Partial}
    /\ owner \in 1 .. Owners + 1 /\ held \in BOOLEAN
    /\ session.current \in BOOLEAN
    /\ faults \in 0 .. MaxFaults

-----------------------------------------------------------------------------
(* The inductive invariant.                                                  *)
Preparing == {"inspect", "initdb", "commit", "validate", "status"}
Working == {"started", "ready", "before", "command", "after", "failed"}
Placed == {"READY", "UNCERTAIN", "HANDED_OFF", "YIELDED_TO_EXISTING_HOST"}

Types ==
    /\ TypeOK
    /\ server \in {"stopped", "running", "ready", "stopping"}
    /\ pending \subseteq 1 .. owner \cup {Host} /\ startedBy \in 0 .. owner \cup {Host}
    /\ session \in [state : {"QUIESCENT", "TRANSITIONING"} \cup Placed, current : BOOLEAN]
    /\ machine \in {"stopped", "startCommandPending", "startedPendingReady", "ready", "stopping",
                    "startOutcomeUncertain", "processUncertain", "runningObservedUncertain"}
    /\ pc \in {"idle"} \cup Preparing \cup Working

(* What was validated is the cluster that BootstrapState names.              *)
Validated == directory = identity /\ directory = expected /\ directory \notin {Nothing, Partial}

(* Nothing that this owner started runs or is on its way.                    *)
Unstarted == owner \notin pending /\ (startedBy = owner => server = "stopped")

(* Only a named cluster is started, once at a time.                          *)
Named ==
    /\ server # "stopped" => pending = {}
    /\ server # "stopped" \/ pending # {} => directory = identity /\ directory \notin {Nothing, Partial}

(* Where an operation stands and what the session knows of it.               *)
SessionOK ==
    /\ pc = "idle" <=> session.state # "TRANSITIONING"
    /\ session.state \in {"TRANSITIONING", "READY", "UNCERTAIN"} => session.current
    /\ session.state \in {"HANDED_OFF", "YIELDED_TO_EXISTING_HOST"} => ~session.current /\ pending \subseteq {Host}
    /\ session.state = "QUIESCENT" => Unstarted
    /\ session.state = "READY" => pending = {}
    /\ session.state \in Placed \/ pc \in Working \cup {"status"} \/ mechanics # "NONE" => Validated

(* A preparation has started nothing; without an identity there is nothing   *)
(* that could run.                                                           *)
PreparationOK ==
    /\ pc \in Preparing => goal = "prepare" /\ machine = "stopped" /\ mechanics = "NONE" /\ Unstarted
    /\ pc = "initdb" => directory = Nothing /\ identity = Nothing
    /\ pc = "commit" => /\ server = "stopped" /\ pending = {}
                        /\ directory = expected /\ directory \notin {Nothing, Partial}
    /\ pc = "validate" => identity = expected

(* Whoever waits for its start, or is not sure of it, has at most that start *)
(* on its way; nobody else's server is in its hands.                         *)
MachineOK ==
    session.current =>
        /\ machine \in {"startedPendingReady", "ready", "stopping", "processUncertain",
                        "runningObservedUncertain"} => pending = {}
        /\ machine = "startOutcomeUncertain" => pending \subseteq {owner}
        /\ machine = "stopped" /\ Controls => server = "stopped" /\ pending = {}
        /\ machine # "stopped" /\ server # "stopped" => startedBy # Host
        /\ pc = "command" => machine \in {"ready", "runningObservedUncertain"}
        /\ pc = "after" => machine = "stopping"
        /\ pc = "ready" => machine = "ready"

(* The maintenance controller belongs to the Host that took over.            *)
HostOK ==
    /\ ctl # "NONE" => session.state = "HANDED_OFF"
    /\ Host \in pending => ctl \in {"STARTING", "UNCERTAIN"}
    /\ ctl = "STOPPED" => server = "stopped"

Inv == Types /\ Named /\ SessionOK /\ PreparationOK /\ MachineOK /\ HostOK

(* The one server of a cluster through every owner that comes and goes.      *)
ServerIsOwned == TypeOK /\ QuiescentIsQuiet /\ RunsTheNamedCluster /\ HostKeepsServer
=============================================================================
