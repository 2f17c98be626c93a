--------------------------- MODULE RuntimeSupervisor ---------------------------
(***************************************************************************)
(* packages/runtime/runtime-kernel/src: MicroSystemSupervisor, with the    *)
(* plan of RuntimeReconciler, the order of RuntimeGraph and the fences of  *)
(* its generations.                                                        *)
(*                                                                         *)
(*   lifecycle  lifecycleState                                             *)
(*   actual     the observed state of each MicroSystem                     *)
(*   running    the generation that runs it, or None                       *)
(*   unsettled  its generation whose retirement timed out, or None         *)
(*   bound      serviceBindings: the provider selected for each Service    *)
(*   gen        each activation: its fence, whether retire() was called,   *)
(*              whether it published, the calls in flight, the generations *)
(*              it leases from; committed and hurt (failed in background)  *)
(*   job        the mutation being run: what is left of its plan           *)
(*   op         the start or the stop in progress                          *)
(*   queue      the mutations behind it (mutationChain)                    *)
(*   accepted, faults    bounds: reconciles, and lifecycle records that    *)
(*              could not be written                                       *)
(*                                                                         *)
(* Calls, background failures, close and owner abort come between any two  *)
(* steps of a mutation.  A MicroSystem publishes a Service as one provider *)
(* and in one contract version; Capabilities and WorkHandlers, which bind  *)
(* no lifecycle, share its fence.                                          *)
(***************************************************************************)
EXTENDS Naturals, Sequences, FiniteSets

CONSTANTS
    Systems, Services,
    Provides, Requires,   \* [Systems -> SUBSET Services]
    Order,                \* the systems in the order of their ids
    Desires,              \* the snapshots a caller may submit
    Gens,                 \* activations, numbered
    MaxReconciles, MaxFaults,   \* bounds: reconciles, lifecycle records not written,
    MaxHurt, MaxCalls,          \* background failures, generations with a call in flight
    None

ASSUME GraphAssumption ==
    /\ Provides \in [Systems -> SUBSET Services] /\ Requires \in [Systems -> SUBSET Services]
    /\ Desires \subseteq [want : SUBSET Systems, eligible : SUBSET Systems,
                          bind : [Services -> Systems \cup {None}]]
    /\ Gens \subseteq Nat /\ MaxReconciles \in Nat /\ MaxFaults \in Nat
    /\ MaxHurt \in Nat /\ MaxCalls \in Nat
    /\ None \notin Systems /\ None \notin Gens

VARIABLES lifecycle, actual, running, unsettled, bound, gen, job, op, queue, accepted, faults

vars == <<lifecycle, actual, running, unsettled, bound, gen, job, op, queue, accepted, faults>>
bounds == <<accepted, faults>>

NoJob == [kind |-> "none", rebinds |-> {}, stops |-> {}, starts |-> {}, blocked |-> {},
          bind |-> [v \in Services |-> None], was |-> [v \in Services |-> None],
          closed |-> {}, of |-> None, failed |-> FALSE]
NoOp == [kind |-> "none", of |-> None, gen |-> None, step |-> "none", failed |-> FALSE,
         terminal |-> "STOPPED"]
Unborn == [of |-> None, fence |-> "ACTIVE", retire |-> FALSE, leased |-> FALSE, calls |-> 0,
           uses |-> {}, committed |-> FALSE, hurt |-> FALSE]

Init ==
    /\ lifecycle = "ACTIVE"
    /\ actual = [s \in Systems |-> "STOPPED"]
    /\ running = [s \in Systems |-> None] /\ unsettled = [s \in Systems |-> None]
    /\ bound = [v \in Services |-> None]
    /\ gen = [g \in Gens |-> Unborn]
    /\ job = NoJob /\ op = NoOp /\ queue = <<>>
    /\ accepted = 0 /\ faults = 0

------------------------------------------------------------------------------
(* GenerationFence.                                                         *)

Begun(g) == IF g.fence = "ACTIVE" THEN [g EXCEPT !.fence = "RETIRING"] ELSE g

(* retire(): what is in flight is awaited, and the fence retires without it *)
(* being asked again.                                                       *)
Retired(g) ==
    [g EXCEPT !.retire = TRUE,
              !.fence = IF g.calls = 0 THEN "RETIRED" ELSE "RETIRING"]

Settled(g) ==
    [g EXCEPT !.calls = 0,
              !.fence = IF g.retire /\ g.fence = "RETIRING" THEN "RETIRED" ELSE @]

(* Withdrawing the providers retires the fence of a generation that         *)
(* published any (retireRegistryGeneration).                                *)
Withdrawn(g) == IF g.leased THEN Retired(g) ELSE g

Unresolved(s) == unsettled[s] # None /\ gen[unsettled[s]].fence # "RETIRED"

------------------------------------------------------------------------------
(* RuntimeGraph and RuntimeReconciler.                                      *)

(* The candidates for v among S, under explicit bindings b.                 *)
Candidates(v, S, b) == {p \in S : v \in Provides[p] /\ b[v] \in {None, p}}
Served(s, S, b) == \A v \in Requires[s] : \E p \in S : Candidates(v, S, b) = {p}
GraphOK(S, b) == \A s \in S : Served(s, S, b)
Consumes(c, p, S, b) == \E v \in Requires[c] : p \in Candidates(v, S, b)

Wanted(d) == d.want \cap d.eligible

(* The systems are visited in order, again and again, and one whose Service *)
(* has not exactly one provider left is taken off.                          *)
Resolvable(d) ==
    LET n == Len(Order)
        Left[k \in 0..(n * n)] ==
            IF k = 0 THEN Wanted(d)
            ELSE LET s == Order[((k - 1) % n) + 1]
                 IN {r \in Left[k - 1] : r # s \/ Served(r, Left[k - 1], d.bind)}
    IN {s \in Wanted(d) : s \in Left[n * n]}

Selected(d) ==
    LET R == Resolvable(d)
        Chosen(v) == {p \in R : \E c \in R : v \in Requires[c] /\ p \in Candidates(v, R, d.bind)}
    IN [v \in Services |-> IF Chosen(v) = {} THEN None ELSE CHOOSE p \in Chosen(v) : TRUE]

Current == {s \in Systems : actual[s] = "RUNNING" \/ \E v \in Services : bound[v] = s}

(* What a changed binding restarts: its consumers.                          *)
Rebinds(d) ==
    {s \in Systems : /\ actual[s] = "RUNNING"
                     /\ \E v \in Requires[s] : bound[v] # Selected(d)[v]}

(* collectUnsettledServiceIds                                               *)
ClosedServices == UNION {Provides[s] : s \in {r \in Systems : Unresolved(r)}}

Plan(d) ==
    [kind |-> "reconcile",
     rebinds |-> Rebinds(d),
     stops |-> {s \in Systems : actual[s] = "RUNNING" /\ s \notin Resolvable(d)} \ Rebinds(d),
     starts |-> {s \in Systems : s \in Resolvable(d) /\ (actual[s] # "RUNNING" \/ s \in Rebinds(d))},
     blocked |-> d.want \ Resolvable(d),
     bind |-> Selected(d), was |-> bound,
     closed |-> ClosedServices, of |-> None, failed |-> FALSE]

------------------------------------------------------------------------------
(* The mutation chain.                                                      *)

Reconcile(d) ==
    /\ lifecycle = "ACTIVE" /\ accepted < MaxReconciles
    /\ queue' = Append(queue, [kind |-> "reconcile", desired |-> d])
    /\ accepted' = accepted + 1
    /\ UNCHANGED <<lifecycle, actual, running, unsettled, bound, gen, job, op, faults>>

(* close(), or the owner's abort: admission ends at once, the cleanup waits *)
(* for its turn.                                                            *)
BeginTerminalClose ==
    /\ lifecycle = "ACTIVE"
    /\ lifecycle' = "CLOSING"
    /\ gen' = [g \in Gens |->
                 IF (\E s \in Systems : running[s] = g) \/ (op.kind = "start" /\ op.gen = g)
                 THEN Begun(gen[g]) ELSE gen[g]]
    /\ queue' = Append(queue, [kind |-> "close"])
    /\ UNCHANGED <<actual, running, unsettled, bound, job, op, bounds>>

Take(kind) == job.kind = "none" /\ queue # <<>> /\ Head(queue).kind = kind /\ queue' = Tail(queue)

(* A plan that cannot be made changes nothing.                              *)
BeginReconcile ==
    /\ Take("reconcile")
    /\ IF lifecycle = "ACTIVE" /\ GraphOK(Current, bound)
       THEN /\ job' = Plan(Head(queue).desired)
            /\ unsettled' = [s \in Systems |-> IF Unresolved(s) THEN unsettled[s] ELSE None]
       ELSE UNCHANGED <<job, unsettled>>
    /\ UNCHANGED <<lifecycle, actual, running, bound, gen, op, bounds>>

Changes(plan) ==
    \/ plan.rebinds \cup plan.stops \cup plan.starts # {}
    \/ \E v \in Services : plan.bind[v] \notin {None, bound[v]}
    \/ \E s \in plan.blocked : actual[s] # "BLOCKED"

(* runtime.reconcile could not be retained: the plan is not executed.       *)
ReconcileNotRetained ==
    /\ Take("reconcile") /\ lifecycle = "ACTIVE" /\ faults < MaxFaults
    /\ GraphOK(Current, bound) /\ Changes(Plan(Head(queue).desired))
    /\ faults' = faults + 1
    /\ UNCHANGED <<lifecycle, actual, running, unsettled, bound, gen, job, op, accepted>>

RunningSystems == {s \in Systems : running[s] # None}

(* Mutant: only the failed system is stopped. *)
ClosureAlone(s) == {s}

(* The systems that fall with s: those it serves, and so on, which are the  *)
(* least set that has s and the consumers of whatever it has.               *)
Closure(s) ==
    LET R == RunningSystems
        Closed(S) == \A c \in R, p \in S : Consumes(c, p, R, bound) => c \in S
    IN IF GraphOK(R, bound)
       THEN {c \in R \cup {s} : \A S \in SUBSET (R \cup {s}) : s \in S /\ Closed(S) => c \in S}
       ELSE {s}

(* Mutant: the event is applied to whatever generation runs now. *)
BeginFailureOfSystem ==
    /\ Take("failure")
    /\ LET g == Head(queue).gen
           s == gen[g].of
       IN IF running[s] # None
          THEN /\ actual' = [actual EXCEPT ![s] = "FAILED"]
               /\ job' = [NoJob EXCEPT !.kind = "failure", !.of = s, !.rebinds = Closure(s) \ {s},
                                       !.stops = {s}, !.was = bound]
          ELSE UNCHANGED <<actual, job>>
    /\ UNCHANGED <<lifecycle, running, unsettled, bound, gen, op, bounds>>

(* handleBackgroundFailure: of a generation that still runs.                *)
BeginFailure ==
    /\ Take("failure")
    /\ LET g == Head(queue).gen
           s == gen[g].of
       IN IF running[s] = g
          THEN /\ actual' = [actual EXCEPT ![s] = "FAILED"]
               /\ job' = [NoJob EXCEPT !.kind = "failure", !.of = s, !.rebinds = Closure(s) \ {s},
                                       !.stops = {s}, !.was = bound]
          ELSE UNCHANGED <<actual, job>>
    /\ UNCHANGED <<lifecycle, running, unsettled, bound, gen, op, bounds>>

BeginClose ==
    /\ Take("close")
    /\ job' = [NoJob EXCEPT !.kind = "close", !.rebinds = RunningSystems, !.was = bound]
    /\ UNCHANGED <<lifecycle, actual, running, unsettled, bound, gen, op, bounds>>

(* What is left of the plan without s.                                      *)
Without(s) ==
    [job EXCEPT !.rebinds = @ \ {s},
                !.stops = IF s \in job.rebinds THEN @ ELSE @ \ {s},
                !.starts = IF s \in job.rebinds \cup job.stops THEN @ ELSE @ \ {s}]

(* The REBIND_SERVICE actions, after the consumers were stopped.            *)
Rebind ==
    /\ job.kind = "reconcile" /\ op = NoOp /\ job.rebinds = {}
    /\ \E v \in Services : job.bind[v] # None /\ bound[v] # job.bind[v]
    /\ bound' = [v \in Services |-> IF job.bind[v] = None THEN bound[v] ELSE job.bind[v]]
    /\ UNCHANGED <<lifecycle, actual, running, unsettled, gen, job, op, queue, bounds>>

Rebound == \A v \in Services : job.bind[v] = None \/ bound[v] = job.bind[v]

(* The end of executePlan: what the plan blocked and does not run is        *)
(* BLOCKED, and the selected bindings replace the current ones.             *)
EndReconcile ==
    /\ job.kind = "reconcile" /\ op = NoOp
    /\ job.rebinds = {} /\ Rebound /\ job.stops = {} /\ job.starts = {}
    /\ actual' = [s \in Systems |->
                    IF s \in job.blocked /\ actual[s] # "RUNNING" THEN "BLOCKED" ELSE actual[s]]
    /\ bound' = job.bind /\ job' = NoJob
    /\ UNCHANGED <<lifecycle, running, unsettled, gen, op, queue, bounds>>

EndFailure ==
    /\ job.kind = "failure" /\ op = NoOp /\ job.rebinds = {} /\ job.stops = {}
    /\ job' = NoJob
    /\ UNCHANGED <<lifecycle, actual, running, unsettled, bound, gen, op, queue, bounds>>

(* The substrate closes, or fails to.                                       *)
EndClose ==
    /\ job.kind = "close" /\ op = NoOp /\ job.rebinds = {}
    /\ \/ ~job.failed /\ (\A s \in Systems : ~Unresolved(s)) /\ lifecycle' = "CLOSED"
       \/ lifecycle' = "FAILED"
    /\ job' = NoJob
    /\ UNCHANGED <<actual, running, unsettled, bound, gen, op, queue, bounds>>

------------------------------------------------------------------------------
(* stop()                                                                   *)

(* Consumers go before their provider (shutdownOrder).                      *)
LastOf(s, S) == s \in S /\ \A c \in S \ {s} : ~Consumes(c, s, S, job.was)
Due(s) == \/ LastOf(s, job.rebinds)
          \/ job.rebinds = {} /\ Rebound /\ LastOf(s, job.stops)

Terminal(s) ==
    CASE job.kind = "failure" -> IF s = job.of THEN "FAILED" ELSE "BLOCKED"
      [] OTHER -> "STOPPED"

(* stop() of a running system, as the plan asks or to undo a start.         *)
StopOf(s, kind, terminal) ==
    /\ actual' = [actual EXCEPT ![s] = "QUIESCING"]
    /\ running' = [running EXCEPT ![s] = None]
    /\ gen' = [gen EXCEPT ![running[s]] = Withdrawn(@)]
    /\ op' = [kind |-> kind, of |-> s, gen |-> running[s], step |-> "withdraw",
              failed |-> FALSE, terminal |-> terminal]

Stop(s) ==
    /\ job.kind # "none" /\ op = NoOp /\ Due(s) /\ running[s] # None
    /\ StopOf(s, "stop", Terminal(s))
    /\ UNCHANGED <<lifecycle, unsettled, bound, job, queue, bounds>>

(* runtime.lifecycle.deactivate could not be retained: stop() is not called.*)
StopNotRetained(s) ==
    /\ job.kind = "reconcile" /\ op = NoOp /\ Due(s) /\ running[s] # None /\ faults < MaxFaults
    /\ actual' = [actual EXCEPT ![s] = "FAILED"]
    /\ job' = Without(s) /\ faults' = faults + 1
    /\ UNCHANGED <<lifecycle, running, unsettled, bound, gen, op, queue, accepted>>

(* Mutant: what is in flight is waited for without a timer. *)
WithdrawalDrains ==
    /\ op.step = "withdraw"
    /\ gen[op.gen].leased => gen[op.gen].fence = "RETIRED"
    /\ op' = [op EXCEPT !.step = "dispose"]
    /\ UNCHANGED <<lifecycle, actual, running, unsettled, bound, gen, job, queue, bounds>>

(* The fence has drained, or its timer fires.                               *)
WithdrawalEnds ==
    /\ op.step = "withdraw"
    /\ \E timeout \in BOOLEAN :
         /\ timeout <=> gen[op.gen].leased /\ gen[op.gen].fence # "RETIRED"
         /\ op' = [op EXCEPT !.step = "dispose", !.failed = @ \/ timeout]
    /\ UNCHANGED <<lifecycle, actual, running, unsettled, bound, gen, job, queue, bounds>>

(* The handle is disposed, or fails to; retire() again says what withdrawal *)
(* said, and a fence that has not drained is kept.                          *)
StopEnds ==
    /\ op.kind = "stop" /\ op.step = "dispose"
    /\ \E failed \in IF op.failed THEN {TRUE} ELSE BOOLEAN :
         LET s == op.of
             g == IF gen[op.gen].leased THEN gen[op.gen] ELSE Retired(gen[op.gen])
         IN /\ gen' = [gen EXCEPT ![op.gen] = g]
            /\ unsettled' = [unsettled EXCEPT ![s] = IF g.fence = "RETIRED" THEN @ ELSE op.gen]
            /\ actual' = [actual EXCEPT ![s] = IF failed THEN "FAILED" ELSE op.terminal]
            /\ job' = [Without(s) EXCEPT
                         !.failed = @ \/ failed,
                         !.closed = IF g.fence = "RETIRED" THEN @ ELSE @ \cup Provides[s]]
    /\ op' = NoOp
    /\ UNCHANGED <<lifecycle, running, bound, queue, bounds>>

(* As StopEnds, in the catch block of a START: whatever comes of it, the    *)
(* system is FAILED or BLOCKED.                                             *)
UndoEnds ==
    /\ op.kind = "undo" /\ op.step = "dispose"
    /\ LET g == IF gen[op.gen].leased THEN gen[op.gen] ELSE Retired(gen[op.gen])
       IN /\ gen' = [gen EXCEPT ![op.gen] = g]
          /\ unsettled' = [unsettled EXCEPT ![op.of] = IF g.fence = "RETIRED" THEN @ ELSE op.gen]
    /\ actual' = [actual EXCEPT ![op.of] = op.terminal]
    /\ op' = NoOp /\ job' = Without(op.of)
    /\ UNCHANGED <<lifecycle, running, bound, queue, bounds>>

------------------------------------------------------------------------------
(* start()                                                                  *)

(* The provider of v under the bindings b is there to be leased.            *)
Eligible(v, b) ==
    /\ b[v] # None
    /\ \E g \in Gens : gen[g].of = b[v] /\ gen[g].leased /\ gen[g].fence = "ACTIVE"

(* hardPrerequisiteBlockReason                                              *)
Ready(s) ==
    \A v \in Requires[s] :
        v \notin job.closed /\ Eligible(v, job.bind) /\ actual[job.bind[v]] = "RUNNING"

(* Providers start before their consumers (startOrder).                     *)
Startable(s) ==
    /\ job.kind = "reconcile" /\ op = NoOp
    /\ job.rebinds = {} /\ Rebound /\ job.stops = {}
    /\ s \in job.starts /\ \A v \in Requires[s] : job.bind[v] \notin job.starts

(* The supervisor closes: the rest of the plan is dropped.                  *)
DropPlan ==
    /\ lifecycle # "ACTIVE" /\ \E s \in Systems : Startable(s)
    /\ bound' = job.bind /\ job' = NoJob
    /\ UNCHANGED <<lifecycle, actual, running, unsettled, gen, op, queue, bounds>>

(* Mutant: an earlier generation is not waited for. *)
BlockedBy(s) == ~Ready(s)

(* generationRetirementBlockReason, hardPrerequisiteBlockReason             *)
Blocked(s) == Unresolved(s) \/ ~Ready(s)

BlockStart(s) ==
    /\ lifecycle = "ACTIVE" /\ Startable(s) /\ Blocked(s)
    /\ actual' = [actual EXCEPT ![s] = "BLOCKED"] /\ job' = Without(s)
    /\ unsettled' = [unsettled EXCEPT ![s] = IF Unresolved(s) THEN @ ELSE None]
    /\ UNCHANGED <<lifecycle, running, bound, gen, op, queue, bounds>>

(* runtime.lifecycle.activate could not be retained: start() is not called, *)
(* and what runs is stopped.                                                *)
StartNotRetained(s) ==
    /\ lifecycle = "ACTIVE" /\ Startable(s) /\ ~Blocked(s) /\ faults < MaxFaults
    /\ IF running[s] = None
       THEN /\ actual' = [actual EXCEPT ![s] = "FAILED"]
            /\ job' = Without(s) /\ UNCHANGED <<running, gen, op>>
       ELSE StopOf(s, "undo", "FAILED") /\ UNCHANGED job
    /\ unsettled' = [unsettled EXCEPT ![s] = None]
    /\ faults' = faults + 1
    /\ UNCHANGED <<lifecycle, bound, queue, accepted>>

(* A generation whose stop was not retained runs on; one that no longer     *)
(* admits is stopped now.                                                   *)
StartExisting(s) ==
    /\ lifecycle = "ACTIVE" /\ Startable(s) /\ ~Blocked(s) /\ running[s] # None
    /\ IF gen[running[s]].fence = "ACTIVE"
       THEN /\ actual' = [actual EXCEPT ![s] = "RUNNING"]
            /\ job' = Without(s) /\ UNCHANGED <<running, gen, op>>
       ELSE StopOf(s, "undo", "FAILED") /\ UNCHANGED job
    /\ unsettled' = [unsettled EXCEPT ![s] = None]
    /\ UNCHANGED <<lifecycle, bound, queue, bounds>>

Start(s) ==
    /\ lifecycle = "ACTIVE" /\ Startable(s) /\ ~Blocked(s) /\ running[s] = None
    /\ \E g \in Gens :
         /\ gen[g].of = None /\ \A h \in Gens : gen[h].of = None => g <= h
         /\ gen' = [gen EXCEPT ![g].of = s]
         /\ op' = [kind |-> "start", of |-> s, gen |-> g, step |-> "activating",
                   failed |-> FALSE, terminal |-> "FAILED"]
    /\ actual' = [actual EXCEPT ![s] = "STARTING"]
    /\ unsettled' = [unsettled EXCEPT ![s] = None]
    /\ UNCHANGED <<lifecycle, running, bound, job, queue, bounds>>

(* activate(context) leases what it requires and publishes what it          *)
(* provides, then goes on.                                                  *)
Publish ==
    /\ op.kind = "start" /\ op.step = "activating"
    /\ \A v \in Requires[op.of] : Eligible(v, bound)
    /\ Provides[op.of] # {} => gen[op.gen].fence = "ACTIVE"
    /\ gen' = [gen EXCEPT ![op.gen].leased = Provides[op.of] # {},
                          ![op.gen].uses =
                              {g \in Gens : \E v \in Requires[op.of] :
                                   gen[g].of = bound[v] /\ gen[g].leased /\ gen[g].fence = "ACTIVE"}]
    /\ op' = [op EXCEPT !.step = "published"]
    /\ UNCHANGED <<lifecycle, actual, running, unsettled, bound, job, queue, bounds>>

ActivationFails ==
    /\ op.kind = "start" /\ op.step \in {"activating", "published"}
    /\ op' = [op EXCEPT !.step = "failed"]
    /\ UNCHANGED <<lifecycle, actual, running, unsettled, bound, gen, job, queue, bounds>>

(* activate() returned: if neither a close nor a background failure came    *)
(* meanwhile, the generation runs.                                          *)
Commit ==
    /\ op.kind = "start" /\ op.step = "published"
    /\ lifecycle = "ACTIVE" /\ gen[op.gen].fence = "ACTIVE"
    /\ running' = [running EXCEPT ![op.of] = op.gen]
    /\ actual' = [actual EXCEPT ![op.of] = "RUNNING"]
    /\ gen' = [gen EXCEPT ![op.gen].committed = TRUE]
    /\ op' = NoOp /\ job' = Without(op.of)
    /\ UNCHANGED <<lifecycle, unsettled, bound, queue, bounds>>

(* It runs, but its success could not be recorded: it is stopped again.     *)
CommitNotRecorded ==
    /\ op.kind = "start" /\ op.step = "published"
    /\ lifecycle = "ACTIVE" /\ gen[op.gen].fence = "ACTIVE" /\ faults < MaxFaults
    /\ actual' = [actual EXCEPT ![op.of] = "QUIESCING"]
    /\ gen' = [gen EXCEPT ![op.gen] = Withdrawn([@ EXCEPT !.committed = TRUE])]
    /\ op' = [op EXCEPT !.kind = "undo", !.step = "withdraw",
                        !.terminal = IF Ready(op.of) THEN "FAILED" ELSE "BLOCKED"]
    /\ faults' = faults + 1
    /\ UNCHANGED <<lifecycle, running, unsettled, bound, job, queue, accepted>>

NotAdmitted ==
    /\ op.kind = "start" /\ op.step = "published"
    /\ lifecycle # "ACTIVE" \/ gen[op.gen].fence # "ACTIVE"
    /\ op' = [op EXCEPT !.step = "failed"]
    /\ UNCHANGED <<lifecycle, actual, running, unsettled, bound, gen, job, queue, bounds>>

(* The catch block of start(): withdraw what was published.                 *)
Abandon ==
    /\ op.kind = "start" /\ op.step = "failed"
    /\ gen' = [gen EXCEPT ![op.gen] = Withdrawn(@)]
    /\ op' = [op EXCEPT !.kind = "abandon", !.step = "withdraw"]
    /\ UNCHANGED <<lifecycle, actual, running, unsettled, bound, job, queue, bounds>>

(* Nothing keeps the fence of an activation that failed, drained or not.    *)
AbandonEnds ==
    /\ op.kind = "abandon" /\ op.step = "dispose"
    /\ gen' = [gen EXCEPT ![op.gen] = IF @.leased THEN @ ELSE Retired(@)]
    /\ actual' = [actual EXCEPT ![op.of] = IF Ready(op.of) THEN "FAILED" ELSE "BLOCKED"]
    /\ op' = NoOp /\ job' = Without(op.of)
    /\ UNCHANGED <<lifecycle, running, unsettled, bound, queue, bounds>>

------------------------------------------------------------------------------
(* What comes between.                                                      *)

Call(g) ==
    /\ gen[g].leased /\ gen[g].fence = "ACTIVE" /\ gen[g].calls = 0
    /\ Cardinality({h \in Gens : gen[h].calls > 0}) < MaxCalls
    /\ gen' = [gen EXCEPT ![g].calls = 1]
    /\ UNCHANGED <<lifecycle, actual, running, unsettled, bound, job, op, queue, bounds>>

Return(g) ==
    /\ gen[g].calls = 1
    /\ gen' = [gen EXCEPT ![g] = Settled(@)]
    /\ UNCHANGED <<lifecycle, actual, running, unsettled, bound, job, op, queue, bounds>>

(* A tracked task fails: admission to the generation ends at once; if the   *)
(* activation was committed, and is not disposed, its stop is queued.       *)
BackgroundFails(g) ==
    /\ ~gen[g].hurt /\ Cardinality({h \in Gens : gen[h].hurt}) < MaxHurt
    /\ \/ /\ op.kind = "start" /\ op.gen = g /\ op.step \in {"activating", "published"}
          /\ UNCHANGED queue
       \/ /\ \/ \E s \in Systems : running[s] = g
             \/ op.kind \in {"stop", "undo"} /\ op.gen = g /\ op.step = "withdraw"
          /\ queue' = Append(queue, [kind |-> "failure", gen |-> g])
    /\ gen' = [gen EXCEPT ![g] = [Begun(@) EXCEPT !.hurt = TRUE]]
    /\ UNCHANGED <<lifecycle, actual, running, unsettled, bound, job, op, bounds>>

------------------------------------------------------------------------------
JobStep ==
    \/ BeginReconcile \/ BeginFailure \/ BeginClose
    \/ Rebind \/ EndReconcile \/ EndFailure \/ EndClose \/ DropPlan
    \/ \E s \in Systems : Stop(s) \/ BlockStart(s) \/ StartExisting(s) \/ Start(s)

OpStep ==
    \/ WithdrawalEnds \/ StopEnds \/ UndoEnds
    \/ Publish \/ ActivationFails \/ Commit \/ NotAdmitted \/ Abandon \/ AbandonEnds

NotRecorded ==
    \/ ReconcileNotRetained \/ CommitNotRecorded
    \/ \E s \in Systems : StopNotRetained(s) \/ StartNotRetained(s)

Environment ==
    \/ \E d \in Desires : Reconcile(d)
    \/ BeginTerminalClose
    \/ \E g \in Gens : Call(g) \/ Return(g) \/ BackgroundFails(g)

Next == JobStep \/ OpStep \/ NotRecorded \/ Environment

(* Mutations are awaited steps, timers fire, a disposer settles and an      *)
(* activation settles once its signal is aborted.  Calls need not return.   *)
Fairness == WF_vars(JobStep) /\ WF_vars(OpStep)

Spec == Init /\ [][Next]_vars /\ Fairness

------------------------------------------------------------------------------
States == {"STOPPED", "STARTING", "RUNNING", "QUIESCING", "FAILED", "BLOCKED"}

TypeOK ==
    /\ lifecycle \in {"ACTIVE", "CLOSING", "CLOSED", "FAILED"}
    /\ actual \in [Systems -> States]
    /\ running \in [Systems -> Gens \cup {None}] /\ unsettled \in [Systems -> Gens \cup {None}]
    /\ bound \in [Services -> Systems \cup {None}]
    /\ gen \in [Gens -> [of : Systems \cup {None}, fence : {"ACTIVE", "RETIRING", "RETIRED"},
                         retire : BOOLEAN, leased : BOOLEAN, calls : 0..1, uses : SUBSET Gens,
                         committed : BOOLEAN, hurt : BOOLEAN]]
    /\ job \in [kind : {"none", "reconcile", "failure", "close"}, rebinds : SUBSET Systems,
                stops : SUBSET Systems, starts : SUBSET Systems, blocked : SUBSET Systems,
                bind : [Services -> Systems \cup {None}], was : [Services -> Systems \cup {None}],
                closed : SUBSET Services, of : Systems \cup {None}, failed : BOOLEAN]
    /\ op \in [kind : {"none", "start", "stop", "undo", "abandon"}, of : Systems \cup {None},
               gen : Gens \cup {None}, failed : BOOLEAN,
               step : {"none", "activating", "published", "failed", "withdraw", "dispose"},
               terminal : {"STOPPED", "FAILED", "BLOCKED"}]
    /\ queue \in Seq([kind : {"reconcile"}, desired : Desires]
                     \cup [kind : {"close"}] \cup [kind : {"failure"}, gen : Gens])
    /\ accepted \in 0..MaxReconciles /\ faults \in 0..MaxFaults

(* "A generation fence MUST prevent retired or stale generation work from   *)
(* receiving new calls" (RT-002): a published generation that still admits  *)
(* calls is the one that runs its system or is being started, under a       *)
(* supervisor that is not closing.                                          *)
AdmittedIsCurrent ==
    \A g \in Gens :
        gen[g].leased /\ gen[g].fence = "ACTIVE" =>
            /\ lifecycle = "ACTIVE"
            /\ running[gen[g].of] = g \/ (op.kind = "start" /\ op.gen = g)

(* "settlement timeout leaves a generation RETIRING and blocks replacement":*)
(* beside a generation that runs or is starting no earlier one that was     *)
(* committed still has calls in flight.                                     *)
ReplacementWaits ==
    \A g, h \in Gens :
        g # h /\ gen[g].of = gen[h].of /\ gen[g].committed /\ gen[g].calls > 0
        => running[gen[h].of] # h /\ ~(op.kind = "start" /\ op.gen = h)

(* close() "rejects on ... unresolved-retirement failure": CLOSED means     *)
(* that every generation that ever ran has drained.                         *)
ClosedIsSettled ==
    lifecycle = "CLOSED" =>
        \A g \in Gens : gen[g].committed => gen[g].fence = "RETIRED" /\ gen[g].calls = 0

(* A generation from its start to its retirement.                           *)
GenerationsAreSound == TypeOK /\ AdmittedIsCurrent /\ ReplacementWaits /\ ClosedIsSettled

(* A background failure is handled behind whatever was queued before it,    *)
(* and stops no generation that took the failed one's place meanwhile       *)
(* (handleBackgroundFailure).                                               *)
OnlyTheFailed ==
    job.kind = "failure" /\ running[job.of] # None => gen[running[job.of]].hurt

(* Nothing is running or queued. *)
AtRest == lifecycle = "ACTIVE" /\ job = NoJob /\ queue = <<>>

(* "It identifies the affected dependency graph, quiesces and disposes      *)
(* dependents": at rest a RUNNING system leases from generations that still *)
(* run, provided every lifecycle record was written.                        *)
RunningIsServed ==
    faults = 0 /\ AtRest =>
        \A s \in Systems : actual[s] = "RUNNING" =>
            \A g \in gen[running[s]].uses : running[gen[g].of] = g

(* A close ends, whatever it finds in progress (terminal close of           *)
(* beginTerminalClose and performClose).                                    *)
CloseEnds == lifecycle = "CLOSING" ~> lifecycle \in {"CLOSED", "FAILED"}
==============================================================================
