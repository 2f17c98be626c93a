--------------------------- MODULE DurableRuntime ---------------------------
(***************************************************************************)
(* The runtime of durable execution: start and close of the DBOS engine    *)
(* with its pool, the process-wide binding of the executor of work         *)
(* attempts, and the dispatches and attempts that pass through it.         *)
(*                                                                         *)
(* The release of engine and pool is one routine, shutdownDbosAndPool; two *)
(* callers can be in it at once, the cleanup of a failed start and a       *)
(* close().  The engine itself (its shutdown waits for attempts as long as *)
(* its timeout allows and starts none afterwards) and the pool (a second   *)
(* end() rejects) are external.                                            *)
(***************************************************************************)
EXTENDS Naturals, FiniteSets

CONSTANTS
  Runtimes,     \* runtimes of one process, started one after another
  None,
  Profiles,     \* versions of the queue profile a runtime can be built with
  MaxFaults,    \* calls that fail
  MaxQueued     \* attempts queued in all

VARIABLES
  state,        \* lifecycleState
  profile,      \* runtime -> the profile it projects
  registered,   \* the profile persisted with the queue, or None
  starting,     \* start(): "no", "preflight", "launching" or "launched"
  releasing,    \* runtime -> caller -> where it is in shutdownDbosAndPool
  closing,      \* closePromise: "no", "waiting" for start() or "closing"
  pool,         \* "none", "open", "ending" or "ended"
  launched,     \* dbosLaunchAttempted
  engine,       \* the runtime whose engine takes attempts, or None
  bound,        \* the runtime whose executor is bound, or None
  running,      \* runtime -> attempts executing
  queued,       \* attempts the engine has not started
  sent,         \* attempts dispatched so far
  active,       \* the Host's authority
  notified,     \* terminalFailureNotified
  faults

lifeVars == <<state, starting, releasing, closing, notified>>
resourceVars == <<pool, launched, engine, bound>>
attemptVars == <<running, queued, sent>>
queueVars == <<profile, registered>>
vars == <<lifeVars, resourceVars, attemptVars, queueVars, active, faults>>

Callers == {"cleanup", "close"}
Where == {"no", "begin", "stopping", "stopped", "ending", "rejected"}

TypeOK ==
  /\ state \in [Runtimes -> {"CREATED", "STARTING", "OPEN", "FAILED", "CLOSING", "CLOSED"}]
  /\ profile \in [Runtimes -> Profiles] /\ registered \in Profiles \cup {None}
  /\ starting \in [Runtimes -> {"no", "preflight", "launching", "launched"}]
  /\ releasing \in [Runtimes -> [Callers -> Where]]
  /\ closing \in [Runtimes -> {"no", "waiting", "closing"}]
  /\ pool \in [Runtimes -> {"none", "open", "ending", "ended"}]
  /\ launched \in [Runtimes -> BOOLEAN] /\ notified \in [Runtimes -> BOOLEAN]
  /\ {engine, bound} \subseteq Runtimes \cup {None}
  /\ running \in [Runtimes -> 0..MaxQueued]
  /\ queued \in 0..MaxQueued /\ sent \in 0..MaxQueued
  /\ active \in BOOLEAN /\ faults \in 0..MaxFaults

Init ==
  /\ state = [r \in Runtimes |-> "CREATED"]
  /\ profile \in [Runtimes -> Profiles] /\ registered \in Profiles \cup {None}
  /\ starting = [r \in Runtimes |-> "no"]
  /\ releasing = [r \in Runtimes |-> [c \in Callers |-> "no"]]
  /\ closing = [r \in Runtimes |-> "no"]
  /\ pool = [r \in Runtimes |-> "none"]
  /\ launched = [r \in Runtimes |-> FALSE] /\ notified = [r \in Runtimes |-> FALSE]
  /\ engine = None /\ bound = None
  /\ running = [r \in Runtimes |-> 0] /\ queued = 0 /\ sent = 0
  /\ active = TRUE /\ faults = 0

(***************************************************************************)
(* Helpers                                                                 *)
(***************************************************************************)
Fault == faults < MaxFaults /\ faults' = faults + 1

getActiveWorkAttemptInvocationCount == {r \in Runtimes : running[r] # 0}
NoInvocation == getActiveWorkAttemptInvocationCount = {}

Idle(r) == starting[r] = "no" /\ closing[r] = "no" /\ releasing[r] = [c \in Callers |-> "no"]

To(r, c, where) == releasing' = [releasing EXCEPT ![r][c] = where]

(* A start that fails is FAILED before its cleanup begins.                 *)
StartFails(r) ==
  /\ state' = [state EXCEPT ![r] = "FAILED"]
  /\ starting' = [starting EXCEPT ![r] = "no"]
  /\ To(r, "cleanup", "begin")

(***************************************************************************)
(* start                                                                   *)
(***************************************************************************)
(* openResources: the pool, then the binding, which another runtime may    *)
(* still hold.                                                             *)
start(r) ==
  /\ state[r] = "CREATED"
  /\ \A q \in Runtimes \ {r} : Idle(q) /\ state[q] # "OPEN"
  /\ \/ /\ ~active
        /\ StartFails(r)
        /\ UNCHANGED <<pool, bound>>
     \/ /\ active /\ bound # None
        /\ pool' = [pool EXCEPT ![r] = "open"]
        /\ StartFails(r)
        /\ UNCHANGED bound
     \/ /\ active /\ bound = None
        /\ pool' = [pool EXCEPT ![r] = "open"]
        /\ bound' = r
        /\ state' = [state EXCEPT ![r] = "STARTING"]
        /\ starting' = [starting EXCEPT ![r] = "preflight"]
        /\ UNCHANGED releasing
  /\ UNCHANGED <<closing, notified, launched, engine, attemptVars, queueVars, active, faults>>

(* Mutant: a profile that is already persisted is taken as it is.          *)
PreflightUnread(r) ==
  /\ starting[r] = "preflight" /\ active
  /\ registered' = IF registered = None THEN profile[r] ELSE registered
  /\ starting' = [starting EXCEPT ![r] = "launching"]
  /\ launched' = [launched EXCEPT ![r] = TRUE]
  /\ UNCHANGED <<state, releasing>>
  /\ UNCHANGED <<closing, notified, pool, engine, bound, attemptVars, profile, active, faults>>

(* projectWorkQueueProfiles: a queue is registered unless it is there, and *)
(* what is there must match the profile.                                   *)
Preflight(r) ==
  /\ starting[r] = "preflight" /\ active
  /\ registered' = IF registered = None THEN profile[r] ELSE registered
  /\ IF registered' = profile[r]
     THEN /\ starting' = [starting EXCEPT ![r] = "launching"]
          /\ launched' = [launched EXCEPT ![r] = TRUE]
          /\ UNCHANGED <<state, releasing>>
     ELSE StartFails(r) /\ UNCHANGED launched
  /\ UNCHANGED <<closing, notified, pool, engine, bound, attemptVars, profile, active, faults>>

PreflightFails(r) ==
  /\ starting[r] = "preflight"
  /\ IF active THEN Fault ELSE UNCHANGED faults
  /\ StartFails(r)
  /\ UNCHANGED <<closing, notified, resourceVars, attemptVars, queueVars, active>>

Launch(r) ==
  /\ starting[r] = "launching"
  /\ \/ /\ engine' = r
        /\ starting' = [starting EXCEPT ![r] = "launched"]
        /\ UNCHANGED <<state, releasing, faults>>
     \/ /\ Fault
        /\ StartFails(r)
        /\ engine' \in {engine, r}
  /\ UNCHANGED <<closing, notified, pool, launched, bound, attemptVars, queueVars, active>>

Opened(r) ==
  /\ starting[r] = "launched"
  /\ IF active
     THEN /\ state' = [state EXCEPT ![r] = "OPEN"]
          /\ starting' = [starting EXCEPT ![r] = "no"]
          /\ UNCHANGED releasing
     ELSE StartFails(r)
  /\ UNCHANGED <<closing, notified, resourceVars, attemptVars, queueVars, active, faults>>

(***************************************************************************)
(* shutdownDbosAndPool, by one of its callers                              *)
(***************************************************************************)
BeginRelease(r, c) ==
  /\ releasing[r][c] = "begin"
  /\ To(r, c, IF launched[r] THEN "stopping" ELSE "stopped")
  /\ UNCHANGED <<state, starting, closing, notified, resourceVars, attemptVars, queueVars, active, faults>>

(* DBOS.shutdown returns when nothing runs or its timeout has passed.      *)
EngineStops(r, c) ==
  /\ releasing[r][c] = "stopping"
  /\ engine' = IF engine = r THEN None ELSE engine
  /\ IF NoInvocation
     THEN To(r, c, "stopped") /\ launched' = [launched EXCEPT ![r] = FALSE]
     ELSE To(r, c, "rejected") /\ UNCHANGED launched
  /\ UNCHANGED <<state, starting, closing, notified, pool, bound, attemptVars, queueVars, active, faults>>

EngineStopFails(r, c) ==
  /\ releasing[r][c] = "stopping" /\ Fault
  /\ To(r, c, "rejected")
  /\ UNCHANGED <<state, starting, closing, notified, resourceVars, attemptVars, queueVars, active>>

(* The caller is told: close() settles the state, a cleanup reports what   *)
(* went wrong as a terminal failure.                                       *)
Settle(r, c, ok) ==
  /\ IF c = "close"
     THEN /\ state' = [state EXCEPT ![r] = IF ok THEN "CLOSED" ELSE "FAILED"]
          /\ closing' = [closing EXCEPT ![r] = "no"]
          /\ UNCHANGED notified
     ELSE /\ notified' = [notified EXCEPT ![r] = @ \/ ~ok]
          /\ UNCHANGED <<state, closing>>
  /\ To(r, c, "no")

releaseBinding(r) == bound' = IF bound = r THEN None ELSE bound

Rejected(r, c) ==
  /\ releasing[r][c] = "rejected"
  /\ Settle(r, c, FALSE)
  /\ UNCHANGED <<starting, resourceVars, attemptVars, queueVars, active, faults>>

EndPool(r, c) ==
  /\ releasing[r][c] = "stopped"
  /\ NoInvocation /\ pool[r] = "open"
  /\ pool' = [pool EXCEPT ![r] = "ending"]
  /\ To(r, c, "ending")
  /\ UNCHANGED <<state, starting, closing, notified, launched, engine, bound, attemptVars, queueVars, active, faults>>

(* Nothing to end, or the other caller is ending it, whereupon the second  *)
(* end() rejects; the binding goes in either case.                         *)
NothingToEnd(r, c) ==
  /\ releasing[r][c] = "stopped"
  /\ NoInvocation /\ pool[r] # "open"
  /\ releaseBinding(r)
  /\ Settle(r, c, pool[r] # "ending")
  /\ UNCHANGED <<starting, pool, launched, engine, attemptVars, queueVars, active, faults>>

StillRunning(r, c) ==
  /\ releasing[r][c] = "stopped" /\ ~NoInvocation
  /\ Settle(r, c, FALSE)
  /\ UNCHANGED <<starting, resourceVars, attemptVars, queueVars, active, faults>>

PoolEnded(r, c) ==
  /\ releasing[r][c] = "ending"
  /\ pool' = [pool EXCEPT ![r] = "ended"]
  /\ releaseBinding(r)
  /\ Settle(r, c, TRUE)
  /\ UNCHANGED <<starting, launched, engine, attemptVars, queueVars, active, faults>>

(***************************************************************************)
(* close                                                                   *)
(***************************************************************************)
BeginClose(r) ==
  /\ closing' = [closing EXCEPT ![r] = "closing"]
  /\ state' = [state EXCEPT ![r] = "CLOSING"]
  /\ To(r, "close", "begin")

(* The Host closes the runtime after its start() has settled, unless it    *)
(* loses its authority: then the runtime closes itself at any time.        *)
close(r) ==
  /\ closing[r] = "no" /\ state[r] \in {"CREATED", "OPEN", "FAILED"}
  /\ ~active \/ releasing[r]["cleanup"] = "no"
  /\ BeginClose(r)
  /\ UNCHANGED <<starting, notified, resourceVars, attemptVars, queueVars, active, faults>>

closeWhileStarting(r) ==
  /\ closing[r] = "no" /\ state[r] = "STARTING" /\ ~active
  /\ closing' = [closing EXCEPT ![r] = "waiting"]
  /\ UNCHANGED <<state, starting, releasing, notified, resourceVars, attemptVars, queueVars, active, faults>>

(* start() has settled, its cleanup included.                              *)
StartSettled(r) ==
  /\ closing[r] = "waiting" /\ starting[r] = "no" /\ releasing[r]["cleanup"] = "no"
  /\ BeginClose(r)
  /\ UNCHANGED <<starting, notified, resourceVars, attemptVars, queueVars, active, faults>>

(***************************************************************************)
(* Dispatches and attempts                                                 *)
(***************************************************************************)
dispatch(r) ==
  /\ state[r] = "OPEN" /\ active /\ sent < MaxQueued
  /\ sent' = sent + 1 /\ queued' = queued + 1
  /\ UNCHANGED <<running, lifeVars, resourceVars, queueVars, active, faults>>

(* The engine starts an attempt with the executor that is bound; without   *)
(* one the attempt fails.                                                  *)
executeAtInvocation ==
  /\ engine # None /\ queued > 0
  /\ queued' = queued - 1
  /\ running' = IF bound = None THEN running ELSE [running EXCEPT ![bound] = @ + 1]
  /\ UNCHANGED <<sent, lifeVars, resourceVars, queueVars, active, faults>>

AttemptEnds(r) ==
  /\ running[r] > 0
  /\ running' = [running EXCEPT ![r] = @ - 1]
  /\ UNCHANGED <<queued, sent, lifeVars, resourceVars, queueVars, active, faults>>

Abort ==
  /\ active /\ active' = FALSE
  /\ UNCHANGED <<lifeVars, resourceVars, attemptVars, queueVars, faults>>

Next ==
  \/ \E r \in Runtimes :
       \/ start(r) \/ Preflight(r) \/ PreflightFails(r) \/ Launch(r) \/ Opened(r)
       \/ close(r) \/ closeWhileStarting(r) \/ StartSettled(r)
       \/ dispatch(r) \/ AttemptEnds(r)
       \/ \E c \in Callers :
            \/ BeginRelease(r, c) \/ EngineStops(r, c) \/ EngineStopFails(r, c) \/ Rejected(r, c)
            \/ EndPool(r, c) \/ NothingToEnd(r, c) \/ StillRunning(r, c) \/ PoolEnded(r, c)
  \/ executeAtInvocation \/ Abort

Spec == Init /\ [][Next]_vars

(***************************************************************************)
(* Properties                                                              *)
(***************************************************************************)
(* No attempt runs on a pool that is being ended: what drains the engine   *)
(* comes before what takes its connections away, whichever caller does it. *)
DrainedBeforeEnd ==
  \A r \in Runtimes : running[r] # 0 => pool[r] = "open"

(* CLOSED means released: no engine, no pool, no binding and no attempt is *)
(* left of the runtime, even when close() met the cleanup of a failed      *)
(* start.                                                                  *)
ClosedIsReleased ==
  \A r \in Runtimes : state[r] = "CLOSED" =>
    engine # r /\ bound # r /\ pool[r] \in {"none", "ended"} /\ running[r] = 0

(* An engine that opens polls a queue persisted as its own profile says,   *)
(* and a runtime that has opened is one whose authority it asked after the *)
(* launch.                                                                 *)
OpensAsProjected ==
  \A r \in Runtimes : state[r] # "OPEN" /\ state'[r] = "OPEN" =>
    active /\ registered = profile[r]
OpenedAsProjected == [][OpensAsProjected]_vars

(***************************************************************************)
(* The inductive invariant                                                 *)
(***************************************************************************)
Unreleased(r) == \A c \in Callers : releasing[r][c] = "no"

Counted(r) == queued + running[r] <= sent

(* What is started is bound, on its own profile, and nobody releases it.   *)
StartedOK(r) ==
  /\ state[r] = "CREATED" => pool[r] = "none" /\ Unreleased(r)
  /\ starting[r] # "no" =>
       state[r] = "STARTING" /\ bound = r /\ pool[r] = "open" /\ Unreleased(r)
  /\ starting[r] \in {"launching", "launched"} => registered = profile[r] /\ launched[r]

(* The engine that takes attempts runs them on the executor and the pool   *)
(* of its own runtime.                                                     *)
EngineOK(r) == engine = r => launched[r] /\ bound = r /\ pool[r] = "open"

(* Whoever is past the engine has stopped it, and it is not started again. *)
ReleasedOK(r) ==
  /\ \A c \in Callers :
       /\ releasing[r][c] \in {"stopped", "ending"} => ~launched[r]
       /\ releasing[r][c] = "ending" => pool[r] \in {"ending", "ended"}
  /\ pool[r] \in {"ending", "ended"} => ~launched[r]

Inv ==
  /\ TypeOK /\ DrainedBeforeEnd /\ ClosedIsReleased
  /\ \A r \in Runtimes : Counted(r) /\ StartedOK(r) /\ EngineOK(r) /\ ReleasedOK(r)

(* The engine, its pool and its notification client from start to close.     *)
RuntimeIsReleased == [](TypeOK /\ DrainedBeforeEnd /\ ClosedIsReleased) /\ OpenedAsProjected
=============================================================================
