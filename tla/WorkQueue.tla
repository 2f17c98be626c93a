------------------------------- MODULE WorkQueue -------------------------------
(***************************************************************************)
(* The WorkQueue of packages/execution/work-queue together with the        *)
(* durable engine it projects to (DBOS, seen through                       *)
(* packages/execution/durable-execution) and the Host processes that run   *)
(* both.                                                                   *)
(*                                                                         *)
(*   row        the canonical work_item table, one row per item            *)
(*   engine     the engine's workflow table, one workflow per attempt; an  *)
(*              attempt is a pair <<item, dispatch revision>>              *)
(*   exec       the executor invocations: one per attempt and Host process *)
(*   candidates attempts the reconciler read as PENDING and will dispatch  *)
(*                                                                         *)
(* Hosts are numbered in the order in which they own the canonical fence;  *)
(* the highest, owner, is the one whose mutations commit.  A replaced Host *)
(* may linger: it reads, dequeues and runs handlers, but its mutations are *)
(* refused by the host fence (persistence-service.ts:104-138).             *)
(***************************************************************************)
EXTENDS Integers, FiniteSets

CONSTANTS
    Items,            \* the WorkItems that may be created
    Rejectable,       \* items whose payload the handler's validator may reject
    MayRunLong,       \* items whose handler may return only once it is aborted
    HostsLinger,      \* whether a replaced Host process may keep running
    RetryLimit,       \* last revision at which the classifier answers RETRY
    MaxRecovery,      \* the engine's maxRecoveryAttempts
    MaxRev,           \* bound: dispatch revisions
    MaxHost,          \* bound: Host processes
    MaxTime,          \* bound: the clock
    MaxFaults,        \* bound: failing database and engine calls
    MaxRetirements    \* bound: handler generations retired

ASSUME ItemsAssumption ==
    /\ Rejectable \subseteq Items
    /\ MayRunLong \subseteq Items
    /\ HostsLinger \in BOOLEAN

ASSUME BoundsAssumption ==
    /\ {MaxRev, MaxHost} \subseteq Nat \ {0}
    /\ {RetryLimit, MaxRecovery, MaxTime, MaxFaults, MaxRetirements} \subseteq Nat

Revs == 1 .. MaxRev
Hosts == 1 .. MaxHost
Times == 0 .. MaxTime
Attempts == Items \X Revs

Terminal == {"SUCCEEDED", "FAILED", "CANCELLED", "SUPERSEDED"}
Idle == {"PENDING", "WAITING_DEPENDENCY", "RETRY_WAIT"}
RetryClasses == {"NONE", "transient", "invalid", "permanent"}

VARIABLES
    row, engine, exec, candidates,
    recoverable,      \* workflows the engine found PENDING when it was launched
    available,        \* items whose exact handler generation is registered
    owner, alive,     \* the fence's current Host and the running Host processes
    now, faults, retirements,
    longRunning,      \* the items of MayRunLong whose handler does run so
    succeeded         \* history: attempts whose handler has returned success

durable == <<row, engine>>
environment == <<available, owner, alive, now, retirements, longRunning>>
vars == <<row, engine, exec, candidates, recoverable, environment, faults, succeeded>>

------------------------------------------------------------------------------
(* The row and the repository's conditional updates of it.                  *)

NoOutcome == [kind |-> "NONE", retryClass |-> "NONE"]

Fresh(state, rev, notBefore) ==
    [state |-> state, rev |-> rev, active |-> 0, cancel |-> FALSE,
     superseded |-> FALSE, notBefore |-> notBefore, retryClass |-> "NONE",
     outcome |-> NoOutcome]

Absent == Fresh("ABSENT", 1, 0)

(* The row of the statement's WHERE clause.  The DispatchAttemptId is a     *)
(* digest of item and revision, so the revision stands for it.              *)
UpdateGuard(w, rev, state) ==
    /\ w.rev = rev
    /\ w.state = state
    /\ state = "RUNNING" => w.active = rev

NoIntent(w) == ~w.cancel /\ ~w.superseded

(* cancellationOutcome: the terminal state that a recorded intent asks for. *)
Intent(w) ==
    IF w.cancel THEN "CANCELLED" ELSE IF w.superseded THEN "SUPERSEDED" ELSE "NONE"

Ended(w, kind, retryClass) ==
    [w EXCEPT !.state = kind, !.active = 0, !.retryClass = retryClass,
              !.outcome = [kind |-> kind, retryClass |-> retryClass]]

MarkRunning(w) == [w EXCEPT !.state = "RUNNING", !.active = w.rev]

MarkWaitingDependency(w) == [w EXCEPT !.state = "WAITING_DEPENDENCY"]

MarkRetryWait(w, notBefore) ==
    IF NoIntent(w)
    THEN [w EXCEPT !.state = "RETRY_WAIT", !.active = 0, !.retryClass = "transient",
                   !.notBefore = notBefore]
    ELSE Ended(w, Intent(w), "NONE")

(* A mistake: the result of the handler overrides the recorded intent.      *)
CommitTerminalBlindly(w, kind, retryClass) == Ended(w, kind, retryClass)

CommitTerminal(w, kind, retryClass) ==
    IF NoIntent(w) THEN Ended(w, kind, retryClass) ELSE Ended(w, Intent(w), "NONE")

(* A mistake: the revision, and so the engine's workflow id, is kept.       *)
WakeInPlace(w) == [w EXCEPT !.state = "PENDING", !.retryClass = "NONE"]

Wake(w) == [w EXCEPT !.state = "PENDING", !.rev = w.rev + 1, !.retryClass = "NONE"]

RecordCancel(w) ==
    LET marked == [w EXCEPT !.cancel = TRUE]
    IN  IF w.state \in Idle THEN Ended(marked, "CANCELLED", "NONE") ELSE marked

RecordSupersede(w) ==
    LET marked == [w EXCEPT !.superseded = TRUE]
    IN  IF w.state \in Idle THEN Ended(marked, "SUPERSEDED", "NONE") ELSE marked

(* parsePersistedWorkItem: a row that fails it makes every read, list and   *)
(* update of the item throw.  RETRY_WAIT's not_before is never null here:   *)
(* only MarkRetryWait enters the state, and it writes an instant.           *)
Parses(w) ==
    /\ (w.active # 0) = (w.state = "RUNNING")
    /\ (w.state \in Terminal) = (w.outcome.kind # "NONE")
    /\ w.outcome.kind # "NONE" => w.outcome.kind = w.state
    /\ w.state = "FAILED" => w.retryClass = w.outcome.retryClass
    /\ w.state \in Terminal \ {"FAILED"} => w.retryClass = "NONE"
    /\ w.state = "RETRY_WAIT" => w.retryClass # "NONE"
    /\ ~(w.cancel /\ w.superseded)

------------------------------------------------------------------------------
(* The executor's invocations.                                              *)

Invocation(pc, expect, lease, notBefore) ==
    [pc |-> pc, expect |-> expect, lease |-> lease, write |-> "NONE",
     notBefore |-> notBefore, aborted |-> FALSE]

Outside(pc) == Invocation(pc, "PENDING", FALSE, 0)

Resting == Outside("idle")
Reading == Outside("read")
Returned == Outside("returned")
Threw == Outside("threw")
Handling == Invocation("handler", "RUNNING", FALSE, 0)

Goto(i, r, h, x) == exec' = [exec EXCEPT ![<<i, r, h>>] = x]

(* The executor is about to send one of the repository's mutations.         *)
Send(x, write, notBefore) ==
    [x EXCEPT !.pc = "write", !.write = write, !.notBefore = notBefore]

(* CLAIM is markRunning, WAIT markWaitingDependency, RETRY markRetryWait;   *)
(* INVALID and FAILED are commitTerminal with a FAILED outcome, the others  *)
(* commitTerminal with the outcome they name.                               *)
Writes == {"NONE", "CLAIM", "WAIT", "RETRY", "INVALID"} \cup Terminal

Applies(w, x, r) ==
    IF x.write \in {"CLAIM", "WAIT"}
    THEN UpdateGuard(w, r, "PENDING") /\ NoIntent(w)
    ELSE UpdateGuard(w, r, x.expect)

Applied(w, x) ==
    CASE x.write = "CLAIM" -> MarkRunning(w)
      [] x.write = "WAIT" -> MarkWaitingDependency(w)
      [] x.write = "RETRY" -> MarkRetryWait(w, x.notBefore)
      [] x.write = "INVALID" -> CommitTerminal(w, "FAILED", "invalid")
      [] x.write = "FAILED" -> CommitTerminal(w, "FAILED", "permanent")
      [] x.write \in Terminal \ {"FAILED"} -> CommitTerminal(w, x.write, "NONE")
      [] OTHER -> w

After(w, x, r) == IF Applies(w, x, r) THEN Applied(w, x) ELSE w

------------------------------------------------------------------------------
Init ==
    /\ row = [i \in Items |-> Absent]
    /\ engine = [a \in Attempts |-> [status |-> "NONE", recoveries |-> 0]]
    /\ exec = [c \in Items \X Revs \X Hosts |-> Resting]
    /\ candidates = {}
    /\ recoverable = {}
    /\ available = [i \in Items |-> TRUE]
    /\ owner = 1
    /\ alive = {1}
    /\ now = 0
    /\ faults = 0
    /\ retirements = 0
    /\ longRunning \in SUBSET MayRunLong
    /\ succeeded = {}

(* WorkQueueService.create on the owning Host: it needs the exact handler;  *)
(* not_before 0 stands for an absent one.                                   *)
Create(i) ==
    /\ row[i].state = "ABSENT"
    /\ available[i]
    /\ \E t \in Times : row' = [row EXCEPT ![i] = Fresh("PENDING", 1, t)]
    /\ UNCHANGED <<engine, exec, candidates, recoverable, environment, faults, succeeded>>

(* The two requests are compare-and-set on what the caller read; a caller   *)
(* whose reading is out of date changes nothing.                            *)
Request(i, recorded) ==
    /\ row[i].state \in Idle \cup {"RUNNING"}
    /\ NoIntent(row[i])
    /\ row' = [row EXCEPT ![i] = recorded]
    /\ UNCHANGED <<engine, exec, candidates, recoverable, environment, faults, succeeded>>

RequestCancel(i) == Request(i, RecordCancel(row[i]))
RequestSupersede(i) == Request(i, RecordSupersede(row[i]))

------------------------------------------------------------------------------
(* The reconciler's scan, one statement or one dispatch at a time.          *)

WakeDueRetry(i) ==
    /\ row[i].state = "RETRY_WAIT"
    /\ NoIntent(row[i])
    /\ row[i].notBefore <= now
    /\ row[i].rev < MaxRev
    /\ row' = [row EXCEPT ![i] = Wake(row[i])]
    /\ UNCHANGED <<engine, exec, candidates, recoverable, environment, faults, succeeded>>

WakeDependency(i) ==
    /\ row[i].state = "WAITING_DEPENDENCY"
    /\ NoIntent(row[i])
    /\ available[i]
    /\ row[i].rev < MaxRev
    /\ row' = [row EXCEPT ![i] = Wake(row[i])]
    /\ UNCHANGED <<engine, exec, candidates, recoverable, environment, faults, succeeded>>

ListPending(i) ==
    /\ row[i].state = "PENDING"
    /\ candidates' = candidates \cup {<<i, row[i].rev>>}
    /\ UNCHANGED <<row, engine, exec, recoverable, environment, faults, succeeded>>

(* The workflow id is derived from the attempt, so the engine keeps the     *)
(* workflow it already has, whatever its status: dispatching twice is once. *)
(* The queue's delay runs on the database's clock, not on the Host's, so a  *)
(* dequeue may come before the Host's clock reaches not_before.             *)
Dispatch(i, r) ==
    /\ <<i, r>> \in candidates
    /\ candidates' = candidates \ {<<i, r>>}
    /\ engine' = IF engine[<<i, r>>].status = "NONE"
                 THEN [engine EXCEPT ![<<i, r>>].status = "ENQUEUED"]
                 ELSE engine
    /\ UNCHANGED <<row, exec, recoverable, environment, faults, succeeded>>

DispatchFails(i, r) ==
    /\ <<i, r>> \in candidates
    /\ faults < MaxFaults
    /\ candidates' = candidates \ {<<i, r>>}
    /\ faults' = faults + 1
    /\ UNCHANGED <<row, engine, exec, recoverable, environment, succeeded>>

------------------------------------------------------------------------------
(* The engine: it starts an enqueued workflow in some running Host process, *)
(* and starts again, when it is launched, the workflows it finds PENDING.   *)

Dequeue(i, r, h) ==
    /\ h \in alive
    /\ engine[<<i, r>>].status = "ENQUEUED"
    /\ engine' = [engine EXCEPT ![<<i, r>>].status = "PENDING"]
    /\ Goto(i, r, h, Reading)
    /\ UNCHANGED <<row, candidates, recoverable, environment, faults, succeeded>>

Recover(i, r) ==
    /\ <<i, r>> \in recoverable
    /\ engine[<<i, r>>].status = "PENDING"
    /\ recoverable' = recoverable \ {<<i, r>>}
    /\ IF engine[<<i, r>>].recoveries < MaxRecovery
       THEN /\ engine' = [engine EXCEPT ![<<i, r>>].recoveries = @ + 1]
            /\ Goto(i, r, owner, Reading)
       ELSE /\ engine' = [engine EXCEPT ![<<i, r>>].status = "EXHAUSTED"]
            /\ UNCHANGED exec
    /\ UNCHANGED <<row, candidates, environment, faults, succeeded>>

(* The workflow ends with the result or the error of its only step.         *)
Record(i, r, h) ==
    /\ exec[<<i, r, h>>].pc \in {"returned", "threw"}
    /\ engine' = [engine EXCEPT ![<<i, r>>].status =
                    IF exec[<<i, r, h>>].pc = "returned" THEN "SUCCESS" ELSE "ERROR"]
    /\ Goto(i, r, h, Resting)
    /\ UNCHANGED <<row, candidates, recoverable, environment, faults, succeeded>>

------------------------------------------------------------------------------
(* WorkAttemptExecutor.execute(i, r) in Host h.                             *)

(* A mistake: a recovered RUNNING row is taken for a handler that finished. *)
ReadRowInferring(i, r, h) ==
    LET w == row[i]
    IN  /\ exec[<<i, r, h>>].pc = "read"
        /\ Goto(i, r, h,
             IF w.rev # r THEN Returned
             ELSE IF w.state = "RUNNING"
                  THEN Send(Invocation("read", "RUNNING", FALSE, 0), "SUCCEEDED", 0)
             ELSE IF w.state = "PENDING"
                  THEN Invocation("prepare", "PENDING", available[i], w.notBefore)
             ELSE Returned)
        /\ UNCHANGED <<row, engine, candidates, recoverable, environment, faults, succeeded>>

(* getWorkItem and the decisions on what it returned.  A PENDING row never  *)
(* carries an intent and a RUNNING row always names its own revision's      *)
(* attempt (RowShape), so those two error paths are not modelled.           *)
ReadRow(i, r, h) ==
    LET w == row[i]
        expect == IF w.state = "RUNNING" THEN "RUNNING" ELSE "PENDING"
    IN  /\ exec[<<i, r, h>>].pc = "read"
        /\ Goto(i, r, h,
             IF w.state \notin {"PENDING", "RUNNING"} \/ w.rev # r THEN Returned
             ELSE IF ~NoIntent(w) THEN Send(Invocation("read", expect, FALSE, 0), Intent(w), 0)
             ELSE IF w.state = "RUNNING" /\ ~available[i] THEN Threw
             ELSE Invocation("prepare", expect, available[i], w.notBefore))
        /\ UNCHANGED <<row, engine, candidates, recoverable, environment, faults, succeeded>>

(* A mistake: the engine's delay is trusted to have run out.                *)
PrepareUndelayed(i, r, h) ==
    LET x == exec[<<i, r, h>>]
    IN  /\ x.pc = "prepare"
        /\ Goto(i, r, h, IF x.expect = "PENDING" THEN Send(x, "CLAIM", 0)
                         ELSE [x EXCEPT !.pc = "handler"])
        /\ UNCHANGED <<row, engine, candidates, recoverable, environment, faults, succeeded>>

(* The synchronous stretch from the lease to the first write or the handler:*)
(* a generation retired meanwhile refuses to validate the payload.          *)
Prepare(i, r, h) ==
    LET x == exec[<<i, r, h>>]
        usable == x.lease /\ available[i]
    IN  /\ x.pc = "prepare"
        /\ \/ Goto(i, r, h,
                 IF ~usable
                 THEN IF x.expect = "RUNNING" THEN Threw ELSE Send(x, "WAIT", 0)
                 ELSE IF x.notBefore > now THEN Send(x, "RETRY", x.notBefore)
                 ELSE IF x.expect = "PENDING" THEN Send(x, "CLAIM", 0)
                 ELSE [x EXCEPT !.pc = "handler"])
           \/ /\ usable /\ i \in Rejectable
              /\ Goto(i, r, h, Send(x, "INVALID", 0))
        /\ UNCHANGED <<row, engine, candidates, recoverable, environment, faults, succeeded>>

(* markRunning commits and the handler starts; if the row has moved on the  *)
(* attempt is over.                                                         *)
Claim(i, r, h) ==
    LET x == exec[<<i, r, h>>]
    IN  /\ h = owner
        /\ x.pc = "write"
        /\ x.write = "CLAIM"
        /\ row' = [row EXCEPT ![i] = After(@, x, r)]
        /\ Goto(i, r, h, IF Applies(row[i], x, r) THEN Handling ELSE Returned)
        /\ UNCHANGED <<engine, candidates, recoverable, environment, faults, succeeded>>

(* A mistake: the settling mutation does not verify the host fence.         *)
SettleUnfenced(i, r, h) ==
    LET x == exec[<<i, r, h>>]
    IN  /\ x.pc = "write"
        /\ x.write # "CLAIM"
        /\ row' = [row EXCEPT ![i] = After(@, x, r)]
        /\ Goto(i, r, h, Returned)
        /\ UNCHANGED <<engine, candidates, recoverable, environment, faults, succeeded>>

(* Every other mutation is the attempt's last: applied, stale or terminal,  *)
(* the invocation returns.                                                  *)
Settle(i, r, h) ==
    LET x == exec[<<i, r, h>>]
    IN  /\ h = owner
        /\ x.pc = "write"
        /\ x.write # "CLAIM"
        /\ row' = [row EXCEPT ![i] = After(@, x, r)]
        /\ Goto(i, r, h, Returned)
        /\ UNCHANGED <<engine, candidates, recoverable, environment, faults, succeeded>>

(* The mutation of a replaced Host is refused and the invocation throws.    *)
Refused(i, r, h) ==
    /\ h # owner
    /\ exec[<<i, r, h>>].pc = "write"
    /\ Goto(i, r, h, Threw)
    /\ UNCHANGED <<row, engine, candidates, recoverable, environment, faults, succeeded>>

(* A database call fails; of a mutation it is not known whether it          *)
(* committed.                                                               *)
Fails(i, r, h) ==
    LET x == exec[<<i, r, h>>]
    IN  /\ faults < MaxFaults
        /\ h = owner
        /\ x.pc \in {"read", "write"}
        /\ row' \in {row} \cup IF x.pc = "write"
                               THEN {[row EXCEPT ![i] = After(@, x, r)]} ELSE {}
        /\ Goto(i, r, h, Threw)
        /\ faults' = faults + 1
        /\ UNCHANGED <<engine, candidates, recoverable, environment, succeeded>>

(* The handler ends and its result is classified: success, a retry at some  *)
(* instant while the classifier allows one, or a permanent failure.         *)
HandlerReturns(i, r, h) ==
    LET x == exec[<<i, r, h>>]
    IN  /\ x.pc = "handler"
        /\ i \in longRunning => x.aborted
        /\ \/ /\ Goto(i, r, h, Send(x, "SUCCEEDED", 0))
              /\ succeeded' = succeeded \cup {<<i, r, h>>}
           \/ /\ Goto(i, r, h, Send(x, "FAILED", 0))
              /\ UNCHANGED succeeded
           \/ /\ r <= RetryLimit
              /\ \E t \in Times : Goto(i, r, h, Send(x, "RETRY", t))
              /\ UNCHANGED succeeded
        /\ UNCHANGED <<row, engine, candidates, recoverable, environment, faults>>

(* A mistake: the monitor looks for a supersession only.                    *)
ObserveSupersession(i, r, h) ==
    /\ exec[<<i, r, h>>].pc = "handler"
    /\ row[i].rev = r
    /\ row[i].superseded
    /\ Goto(i, r, h, [exec[<<i, r, h>>] EXCEPT !.aborted = TRUE])
    /\ UNCHANGED <<row, engine, candidates, recoverable, environment, faults, succeeded>>

(* monitorCancellation: one poll of the row that finds an intent.           *)
ObserveIntent(i, r, h) ==
    /\ exec[<<i, r, h>>].pc = "handler"
    /\ row[i].rev = r
    /\ ~NoIntent(row[i])
    /\ Goto(i, r, h, [exec[<<i, r, h>>] EXCEPT !.aborted = TRUE])
    /\ UNCHANGED <<row, engine, candidates, recoverable, environment, faults, succeeded>>

------------------------------------------------------------------------------
(* The surroundings: the clock, the handler generations and the Hosts.      *)

Tick ==
    /\ now < MaxTime
    /\ now' = now + 1
    /\ UNCHANGED <<durable, exec, candidates, recoverable, available, owner, alive,
                   retirements, longRunning, faults, succeeded>>

Retire(i) ==
    /\ available[i]
    /\ retirements < MaxRetirements
    /\ available' = [available EXCEPT ![i] = FALSE]
    /\ retirements' = retirements + 1
    /\ UNCHANGED <<durable, exec, candidates, recoverable, owner, alive, now,
                   longRunning, faults, succeeded>>

Register(i) ==
    /\ ~available[i]
    /\ available' = [available EXCEPT ![i] = TRUE]
    /\ UNCHANGED <<durable, exec, candidates, recoverable, owner, alive, now, retirements,
                   longRunning, faults, succeeded>>

(* What a dead process leaves behind is only what is durable.               *)
Kill(dead) ==
    exec' = [c \in DOMAIN exec |-> IF c[3] \in dead THEN Resting ELSE exec[c]]

(* A new Host takes over the fence after the old one crashed, stopped or    *)
(* lost its lease.  Its composition registers the handlers before it        *)
(* launches the engine (host.ts), its reconciler starts with an empty scan, *)
(* and its wall clock may differ.                                           *)
HostReplace ==
    /\ owner < MaxHost
    /\ owner' = owner + 1
    /\ \E dead \in SUBSET {owner} :
          /\ dead = {} => HostsLinger
          /\ alive' = (alive \ dead) \cup {owner + 1}
          /\ Kill(dead)
    /\ recoverable' = {a \in Attempts : engine[a].status = "PENDING"}
    /\ candidates' = {}
    /\ available' = [i \in Items |-> TRUE]
    /\ now' \in Times
    /\ UNCHANGED <<durable, retirements, longRunning, faults, succeeded>>

HostStop(h) ==
    /\ h \in alive \ {owner}
    /\ alive' = alive \ {h}
    /\ Kill({h})
    /\ UNCHANGED <<durable, candidates, recoverable, available, owner, now, retirements,
                   longRunning, faults, succeeded>>

------------------------------------------------------------------------------
Execute(i, r, h) ==
    \/ ReadRow(i, r, h)
    \/ Prepare(i, r, h)
    \/ Claim(i, r, h)
    \/ Settle(i, r, h)
    \/ Refused(i, r, h)
    \/ HandlerReturns(i, r, h)
    \/ Record(i, r, h)

Next ==
    \/ \E i \in Items :
          \/ Create(i) \/ RequestCancel(i) \/ RequestSupersede(i)
          \/ WakeDueRetry(i) \/ WakeDependency(i) \/ ListPending(i)
          \/ Retire(i) \/ Register(i)
    \/ \E i \in Items, r \in Revs :
          Dispatch(i, r) \/ DispatchFails(i, r) \/ Recover(i, r)
    \/ \E i \in Items, r \in Revs, h \in Hosts :
          Dequeue(i, r, h) \/ Execute(i, r, h) \/ Fails(i, r, h) \/ ObserveIntent(i, r, h)
    \/ Tick
    \/ HostReplace
    \/ \E h \in Hosts : HostStop(h)

Spec == Init /\ [][Next]_vars

(* The anti-entropy timer rescans forever, the engine polls its queue and   *)
(* recovers what it found at launch, an invocation's awaits settle, a       *)
(* cooperative handler returns, the monitor polls while the handler runs,   *)
(* the clock advances and a retired generation is eventually replaced.  No  *)
(* fairness is asked of callers, faults, retirements or Host replacements.  *)
Fairness ==
    /\ \A i \in Items :
          /\ WF_vars(WakeDueRetry(i))
          /\ WF_vars(WakeDependency(i))
          /\ WF_vars(ListPending(i))
          /\ WF_vars(Register(i))
    /\ \A i \in Items, r \in Revs :
          /\ WF_vars(Dispatch(i, r))
          /\ WF_vars(Recover(i, r))
    /\ \A i \in Items, r \in Revs, h \in Hosts :
          /\ WF_vars(h = owner /\ Dequeue(i, r, h))
          /\ WF_vars(Execute(i, r, h))
          /\ WF_vars(ObserveIntent(i, r, h))
    /\ WF_vars(Tick)

LiveSpec == Spec /\ Fairness

------------------------------------------------------------------------------
(* Properties.                                                              *)

RowType ==
    [state : {"ABSENT", "RUNNING"} \cup Idle \cup Terminal,
     rev : Revs, active : 0 .. MaxRev, cancel : BOOLEAN, superseded : BOOLEAN,
     notBefore : Times, retryClass : RetryClasses,
     outcome : [kind : {"NONE"} \cup Terminal, retryClass : RetryClasses]]

ExecType ==
    [pc : {"idle", "read", "prepare", "write", "handler", "returned", "threw"},
     expect : {"PENDING", "RUNNING"}, lease : BOOLEAN, write : Writes,
     notBefore : Times, aborted : BOOLEAN]

EngineType ==
    [status : {"NONE", "ENQUEUED", "PENDING", "SUCCESS", "ERROR", "EXHAUSTED"},
     recoveries : 0 .. MaxRecovery]

(* The type invariant: every variable keeps its type.                       *)
TypeOK ==
    /\ row \in [Items -> RowType]
    /\ engine \in [Attempts -> EngineType]
    /\ exec \in [Items \X Revs \X Hosts -> ExecType]
    /\ candidates \subseteq Attempts
    /\ recoverable \subseteq Attempts
    /\ available \in [Items -> BOOLEAN]
    /\ owner \in Hosts
    /\ alive \subseteq Hosts
    /\ now \in Times
    /\ faults \in 0 .. MaxFaults
    /\ retirements \in 0 .. MaxRetirements
    /\ longRunning \subseteq Items
    /\ succeeded \subseteq Items \X Revs \X Hosts

(* No sequence of statements leaves a row that parsePersistedWorkItem       *)
(* rejects: such a row would make every later scan and attempt throw.       *)
EveryRowParses == \A i \in Items : Parses(row[i])

(* WI-006, the first accepted intent wins: it is found only on the attempt  *)
(* it must stop or on an item that ended as it asked, and no item ends      *)
(* CANCELLED or SUPERSEDED without the request.                             *)
IntentDecides ==
    \A i \in Items :
        LET w == row[i] IN
        /\ w.cancel => w.state \in {"RUNNING", "CANCELLED"}
        /\ w.superseded => w.state \in {"RUNNING", "SUPERSEDED"}
        /\ w.state = "CANCELLED" => w.cancel
        /\ w.state = "SUPERSEDED" => w.superseded

Engaged(x) == x.pc \in {"prepare", "write", "handler"} /\ x.expect = "RUNNING"

(* WI-005: whatever the callers, the reconciler, the engine and replaced    *)
(* Hosts do, an attempt that the owning Host runs (recovered, in its        *)
(* handler, or about to settle) is the one its row names, so it is never    *)
(* run beside another attempt of the item and its result is never stale.    *)
AttemptHoldsItsRow ==
    \A i \in Items, r \in Revs :
        Engaged(exec[<<i, r, owner>>]) =>
            /\ row[i].state = "RUNNING"
            /\ row[i].rev = r
            /\ row[i].active = r

(* A WorkItem is SUCCEEDED only on the word of a handler that ran that very *)
(* revision in a Host owning the fence then: no crash, redelivery, late     *)
(* Host or recovery invents a success.                                      *)
SuccessIsEarned ==
    \A i \in Items :
        row[i].state = "SUCCEEDED" =>
            \E h \in 1 .. owner : <<i, row[i].rev, h>> \in succeeded

(* No attempt starts before the item's not_before, although the engine may  *)
(* deliver it early and the executor decides on a copy of the row.          *)
StartsWhenDue ==
    [][\A i \in Items :
          row[i].state = "PENDING" /\ row'[i].state = "RUNNING" => row[i].notBefore <= now]_vars

(* The life cycle every WorkItem follows.                                   *)
Phase(w) ==
    CASE w.state = "ABSENT" -> "absent"
      [] w.state = "PENDING" -> "pending"
      [] w.state = "RUNNING" -> "running"
      [] w.state \in {"WAITING_DEPENDENCY", "RETRY_WAIT"} -> "waiting"
      [] OTHER -> "ended"

Abstracted(w) ==
    [phase |-> Phase(w), rev |-> w.rev, intent |-> Intent(w), outcome |-> w.outcome.kind]

Lifecycle == INSTANCE WorkItemLifecycle WITH item <- [i \in Items |-> Abstracted(row[i])]

ImplementsLifecycle == Lifecycle!Spec

(* A row under every writer of its item: it can be read, its intent decides *)
(* it, and the attempt that runs is the one it names.                       *)
RowsAreSound == TypeOK /\ EveryRowParses /\ IntentDecides /\ AttemptHoldsItsRow

(* The one loss the contract accepts without a fault: a RUNNING attempt     *)
(* that recovery found without its exact handler generation (WI-008).       *)
Abandoned(i) == row[i].state = "RUNNING" /\ engine[<<i, row[i].rev>>].status = "ERROR"

(* Through crashes, lost wakeups, retirements and retries, an item whose    *)
(* handler returns by itself is decided, or its attempt was abandoned.      *)
EventuallyDecided ==
    \A i \in Items :
        row[i].state # "ABSENT" /\ i \notin longRunning
            ~> row[i].state \in Terminal \/ Abandoned(i)

(* A cancellation reaches even a handler that never returns by itself.      *)
CancelTakesEffect ==
    \A i \in Items : row[i].cancel ~> (row[i].state = "CANCELLED" \/ Abandoned(i))

(* WI-008: a failure before RUNNING leaves the PENDING item recoverable.    *)
PendingIsRecovered ==
    \A i \in Items : row[i].state = "PENDING" ~> row[i].state # "PENDING"
=============================================================================
