-------------------------- MODULE CognitionGateway --------------------------
(***************************************************************************)
(* The runtime in which a Subject thinks: one child process, the Gateway,  *)
(* started for one projection of the configuration and replaced when the   *)
(* projection changes.                                                     *)
(*                                                                         *)
(* Starts and the final stop are transitions that run one after the other; *)
(* reconciliations and Reactions only ask for one and wait for its result. *)
(* A descriptor of the running Gateway is written and removed by a second  *)
(* line of tasks.  Any call, any event of a run and the death of the       *)
(* process may come between two steps of a transition.  The process, its   *)
(* protocol client and the file system are external.                       *)
(***************************************************************************)
EXTENDS Naturals, Sequences, FiniteSets

CONSTANTS
  Callers,       \* reconciliations and Reactions that run side by side
  Projections,   \* projections of the configuration, one fingerprint each
  None,
  MaxGateways,   \* processes that are started
  MaxChanges,    \* changes of the configuration
  MaxWaiting,    \* descriptor tasks that wait when a run announces one more
  MaxFaults      \* deaths, failed starts, stops and publications

VARIABLES
  current,       \* the projection that is current
  call,          \* caller -> the call it is in
  transitions,   \* the line of transitions, the first one under way
  phase,         \* where the first one is
  live, lifecycle, closed,
  gateway,       \* generation -> the process and its projection
  tasks,         \* the line of descriptor tasks
  writing,       \* the Gateway whose descriptor is being written
  descriptor,    \* the Gateway the descriptor names
  stopped,       \* what stop() has come to
  untidy,        \* Gateways whose stop or publication failed
  changes, faults

vars == <<current, call, transitions, phase, live, lifecycle, closed, gateway, tasks,
          writing, descriptor, stopped, untidy, changes, faults>>
process == <<current, changes>>
files == <<tasks, writing, descriptor>>

Generations == 1..MaxGateways
NoCall == [kind |-> "none", pc |-> "none", projection |-> None, gateway |-> 0, event |-> "none"]
Task(op, g, awaited) == [op |-> op, gateway |-> g, awaited |-> awaited]

TypeOK ==
  /\ current \in Projections
  /\ call \in [Callers ->
       [kind : {"none", "reconcile", "reaction"},
        pc : {"none", "read", "ask", "await", "run", "requested", "waiting", "settling"},
        projection : Projections \cup {None}, gateway : {0} \cup Generations,
        event : {"none", "proposal", "error"}]]
  /\ phase \in {"idle", "stopping", "removing", "starting", "publishing", "abandoning"}
  /\ live \in {0} \cup Generations /\ descriptor \in {0} \cup Generations
  /\ lifecycle \in {"STOPPED", "STARTING", "READY", "FAILED", "STOPPING"}
  /\ gateway \in [Generations ->
       [state : {"none", "starting", "up", "stopping", "gone", "stuck"},
        of : Projections \cup {None}]]
  /\ writing \in {0} \cup Generations
  /\ stopped \in {"no", "asked", "done", "failed"}
  /\ untidy \subseteq Generations /\ closed \in BOOLEAN
  /\ tasks \in Seq([op : {"publish", "remove"}, gateway : {0} \cup Generations, awaited : BOOLEAN])
  /\ transitions \in Seq(Projections \cup {"stop"})
  /\ faults \in 0..MaxFaults /\ changes \in 0..MaxChanges

Init ==
  /\ current \in Projections
  /\ call = [c \in Callers |-> NoCall]
  /\ transitions = <<>> /\ phase = "idle"
  /\ live = 0 /\ lifecycle = "STOPPED" /\ closed = FALSE
  /\ gateway = [g \in Generations |-> [state |-> "none", of |-> None]]
  /\ tasks = <<>> /\ writing = 0 /\ descriptor = 0
  /\ stopped = "no" /\ untidy = {} /\ changes = 0 /\ faults = 0

(***************************************************************************)
(* Helpers                                                                 *)
(***************************************************************************)
Head1 == transitions[1]
Underway(p) == phase = p
Asked(item) == \E n \in 1..Len(transitions) : transitions[n] = item
Serves(projection) == live # 0 /\ gateway[live].of = projection /\ lifecycle = "READY"
Fault == faults < MaxFaults /\ faults' = faults + 1
Becomes(g, state) == [gateway EXCEPT ![g].state = state]

(* The newest Gateway is the one a transition works on.                    *)
Newest == CHOOSE g \in {0} \cup Generations :
            /\ g = 0 \/ gateway[g].state # "none"
            /\ \A h \in Generations : h > g => gateway[h].state = "none"

(* What the calls that wait for the transition to a projection get.        *)
Resolved(f, g) ==
  [c \in Callers |->
     IF call[c].pc = "await" /\ call[c].projection = f
     THEN IF g # 0 /\ call[c].kind = "reaction"
          THEN [call[c] EXCEPT !.pc = "run", !.gateway = g] ELSE NoCall
     ELSE call[c]]

(* rejectPendingRuns                                                       *)
Rejected(g) ==
  [c \in Callers |-> IF call[c].pc = "waiting" /\ call[c].gateway = g THEN NoCall ELSE call[c]]

Settles == transitions' = Tail(transitions) /\ phase' = "idle"

(* Every task is put at the end of the line, whatever waits there already. *)
Queued(task) == Append(tasks, task)

(* onChanged: the Gateway that runs is announced once more.  The code does *)
(* not bound the line; here a run that would make it longer than           *)
(* MaxWaiting waits.                                                       *)
Announces ==
  \/ live = 0 /\ UNCHANGED tasks
  \/ live # 0 /\ Len(tasks) < MaxWaiting /\ tasks' = Queued(Task("publish", live, FALSE))

(* The client is connected: a listener, the handshake, the protocol, the   *)
(* proposal tools.                                                         *)
connectClient(state) == Underway("starting") /\ gateway' = Becomes(Newest, state)

(* Nobody listens in time, the child has gone, or connecting fails: what   *)
(* is left of the child is stopped, as far as it can be.                   *)
NotConnected(state) ==
  /\ Underway("starting") /\ Fault
  /\ gateway' = Becomes(Newest, state)

(* The child is gone and was not asked to: its pending runs are rejected.  *)
ChildExits(g) == gateway[g].state = "up" /\ gateway' = Becomes(g, "gone") /\ call' = Rejected(g)

(***************************************************************************)
(* start, runConversationReaction                                          *)
(***************************************************************************)
ConfigurationChanges ==
  /\ changes < MaxChanges /\ changes' = changes + 1
  /\ current' \in Projections \ {current}
  /\ UNCHANGED <<call, transitions, phase, live, lifecycle, closed, gateway, files, stopped, untidy, faults>>

start(c) ==
  /\ call[c] = NoCall /\ ~closed
  /\ call' = [call EXCEPT ![c].kind = "reconcile", ![c].pc = "read"]
  /\ UNCHANGED <<process, transitions, phase, live, lifecycle, closed, gateway, files, stopped, untidy, faults>>

runConversationReaction(c) ==
  /\ call[c] = NoCall
  /\ call' = [call EXCEPT ![c].kind = "reaction", ![c].pc = "read"]
  /\ UNCHANGED <<process, transitions, phase, live, lifecycle, closed, gateway, files, stopped, untidy, faults>>

(* Read in several steps that end with the fingerprint; the configuration  *)
(* may have moved on when it is used.                                      *)
readSubjectOpenClawProjection(c) ==
  /\ call[c].pc = "read"
  /\ call' = [call EXCEPT ![c].pc = "ask", ![c].projection = current]
  /\ UNCHANGED <<process, transitions, phase, live, lifecycle, closed, gateway, files, stopped, untidy, faults>>

ServesCaller(c) == Serves(call[c].projection)

startProcess(c) ==
  LET f == call[c].projection IN
  /\ call[c].pc = "ask"
  /\ \/ closed /\ call' = [call EXCEPT ![c] = NoCall] /\ UNCHANGED transitions
     \/ /\ ~closed /\ ServesCaller(c)
        /\ call' = [call EXCEPT ![c] = IF @.kind = "reaction"
                                       THEN [@ EXCEPT !.pc = "run", !.gateway = live] ELSE NoCall]
        /\ UNCHANGED transitions
     \/ /\ ~closed /\ ~ServesCaller(c)
        /\ call' = [call EXCEPT ![c].pc = "await"]
        /\ transitions' = IF Asked(f) THEN transitions ELSE Append(transitions, f)
  /\ UNCHANGED <<process, phase, live, lifecycle, closed, gateway, files, stopped, untidy, faults>>

(***************************************************************************)
(* Transitions                                                             *)
(***************************************************************************)
(* One that has nothing to do: terminal shutdown has begun, or the Gateway *)
(* of an earlier one will do.                                              *)
NothingToStart ==
  /\ Underway("idle") /\ transitions # <<>> /\ Head1 # "stop"
  /\ closed \/ Serves(Head1)
  /\ call' = Resolved(Head1, IF closed THEN 0 ELSE live)
  /\ Settles
  /\ UNCHANGED <<process, live, lifecycle, closed, gateway, files, stopped, untidy, faults>>

(* Mutant: the Gateway that runs is left to itself.                        *)
StopPreviousNot ==
  /\ Underway("idle") /\ transitions # <<>> /\ live # 0
  /\ Head1 = "stop" \/ (~closed /\ ~Serves(Head1))
  /\ live' = 0 /\ lifecycle' = "STOPPING"
  /\ tasks' = Queued(Task("remove", 0, TRUE)) /\ phase' = "removing"
  /\ UNCHANGED <<process, call, transitions, closed, gateway, writing, descriptor, stopped, untidy, faults>>

(* The Gateway that runs is stopped; its pending runs are rejected.        *)
StopPrevious ==
  /\ Underway("idle") /\ transitions # <<>> /\ live # 0
  /\ Head1 = "stop" \/ (~closed /\ ~Serves(Head1))
  /\ live' = 0 /\ lifecycle' = "STOPPING"
  /\ gateway' = Becomes(live, "stopping") /\ call' = Rejected(live)
  /\ phase' = "stopping"
  /\ UNCHANGED <<process, transitions, closed, files, stopped, untidy, faults>>

NothingToStop ==
  /\ Underway("idle") /\ transitions # <<>> /\ live = 0
  /\ \/ /\ Head1 = "stop"
        /\ tasks' = Queued(Task("remove", 0, TRUE)) /\ phase' = "removing"
        /\ UNCHANGED <<lifecycle, gateway>>
     \/ /\ Head1 # "stop" /\ ~closed /\ Newest < MaxGateways
        /\ lifecycle' = "STARTING" /\ phase' = "starting"
        /\ gateway' = [gateway EXCEPT ![Newest + 1] = [state |-> "starting", of |-> Head1]]
        /\ UNCHANGED tasks
  /\ UNCHANGED <<process, call, transitions, live, closed, writing, descriptor, stopped, untidy, faults>>

GatewayStops ==
  /\ Underway("stopping")
  /\ \E g \in Generations : gateway[g].state = "stopping" /\ gateway' = Becomes(g, "gone")
  /\ tasks' = Queued(Task("remove", 0, TRUE)) /\ phase' = "removing"
  /\ UNCHANGED <<process, call, transitions, live, lifecycle, closed, writing, descriptor, stopped, untidy, faults>>

(* The client or the child does not end in time.  That is an error even    *)
(* when force has ended the child; the transition fails with it and leaves *)
(* the descriptor.                                                         *)
StopFails ==
  /\ Underway("stopping") /\ Fault
  /\ \E g \in Generations :
       /\ gateway[g].state = "stopping"
       /\ \E state \in {"gone", "stuck"} : gateway' = Becomes(g, state)
       /\ untidy' = untidy \cup {g}
  /\ IF Head1 = "stop" THEN stopped' = "failed" /\ lifecycle' = "FAILED" /\ UNCHANGED call
     ELSE call' = Resolved(Head1, 0) /\ UNCHANGED <<stopped, lifecycle>>
  /\ Settles
  /\ UNCHANGED <<process, live, closed, files>>

(* The descriptor is removed and the next process is started, or there is  *)
(* none to start.                                                          *)
Removed ==
  /\ Underway("removing") /\ \A n \in 1..Len(tasks) : ~tasks[n].awaited
  /\ IF Head1 = "stop"
     THEN /\ stopped' = "done" /\ lifecycle' = "STOPPED" /\ Settles /\ UNCHANGED gateway
     ELSE /\ Newest < MaxGateways
          /\ lifecycle' = "STARTING" /\ phase' = "starting"
          /\ gateway' = [gateway EXCEPT ![Newest + 1] = [state |-> "starting", of |-> Head1]]
          /\ UNCHANGED <<stopped, transitions>>
  /\ UNCHANGED <<process, call, live, closed, files, untidy, faults>>

(* A start that ends after stop() was called is undone.                    *)
GatewayStarts ==
  /\ IF closed
     THEN /\ connectClient("stopping") /\ phase' = "abandoning"
          /\ UNCHANGED <<live, lifecycle, tasks>>
     ELSE /\ connectClient("up")
          /\ live' = Newest /\ lifecycle' = "READY"
          /\ tasks' = Queued(Task("publish", Newest, TRUE)) /\ phase' = "publishing"
  /\ UNCHANGED <<process, call, transitions, closed, writing, descriptor, stopped, untidy, faults>>

StartFails ==
  /\ \E state \in {"gone", "stuck"} :
       /\ NotConnected(state)
       /\ untidy' = IF state = "stuck" THEN untidy \cup {Newest} ELSE untidy
  /\ lifecycle' = IF closed THEN "STOPPED" ELSE "FAILED"
  /\ call' = Resolved(Head1, 0) /\ Settles
  /\ UNCHANGED <<process, live, closed, files, stopped>>

Published ==
  /\ Underway("publishing") /\ \A n \in 1..Len(tasks) : ~tasks[n].awaited
  /\ call' = Resolved(Head1, Newest) /\ Settles
  /\ UNCHANGED <<process, live, lifecycle, closed, gateway, files, stopped, untidy, faults>>

(* A Gateway that could not be announced is stopped, as far as it can be.  *)
PublishFails ==
  /\ writing # 0 /\ Fault
  /\ writing' = 0 /\ tasks' = Tail(tasks)
  /\ IF tasks[1].awaited
     THEN /\ untidy' = untidy \cup {writing} /\ live' = 0 /\ phase' = "abandoning" /\ call' = Rejected(Newest)
          /\ gateway' = IF gateway[Newest].state = "up" THEN Becomes(Newest, "stopping") ELSE gateway
     ELSE UNCHANGED <<untidy, live, phase, call, gateway>>
  /\ UNCHANGED <<process, transitions, lifecycle, closed, descriptor, stopped>>

Abandoned ==
  /\ Underway("abandoning")
  /\ \/ /\ gateway' = IF gateway[Newest].state = "stopping" THEN Becomes(Newest, "gone") ELSE gateway
        /\ UNCHANGED <<untidy, faults>>
     \/ /\ gateway[Newest].state = "stopping" /\ Fault
        /\ gateway' = Becomes(Newest, "stuck") /\ untidy' = untidy \cup {Newest}
  /\ lifecycle' = IF closed THEN "STOPPED" ELSE "FAILED"
  /\ call' = Resolved(Head1, 0) /\ Settles
  /\ UNCHANGED <<process, live, closed, files, stopped>>

stop ==
  /\ stopped = "no" /\ stopped' = "asked"
  /\ closed' = TRUE /\ lifecycle' = "STOPPING"
  /\ transitions' = Append(transitions, "stop")
  /\ UNCHANGED <<process, call, phase, live, gateway, files, untidy, faults>>

(***************************************************************************)
(* The process                                                             *)
(***************************************************************************)
onUnexpectedExit(g) ==
  /\ ChildExits(g) /\ Fault
  /\ IF live = g
     THEN live' = 0 /\ lifecycle' = "FAILED" /\ tasks' = Queued(Task("remove", 0, FALSE))
     ELSE UNCHANGED <<live, lifecycle, tasks>>
  /\ UNCHANGED <<process, transitions, phase, closed, writing, descriptor, stopped, untidy>>

(***************************************************************************)
(* Descriptor tasks                                                        *)
(***************************************************************************)
publishDescriptor ==
  /\ tasks # <<>> /\ tasks[1].op = "publish" /\ writing = 0
  /\ IF closed \/ live # tasks[1].gateway
     THEN tasks' = Tail(tasks) /\ UNCHANGED writing
     ELSE writing' = tasks[1].gateway /\ UNCHANGED tasks
  /\ UNCHANGED <<process, call, transitions, phase, live, lifecycle, closed, gateway, descriptor,
                 stopped, untidy, faults>>

DescriptorWritten ==
  /\ writing # 0
  /\ descriptor' = writing /\ writing' = 0 /\ tasks' = Tail(tasks)
  /\ UNCHANGED <<process, call, transitions, phase, live, lifecycle, closed, gateway, stopped, untidy, faults>>

removeDescriptor ==
  /\ tasks # <<>> /\ tasks[1].op = "remove"
  /\ descriptor' = 0 /\ tasks' = Tail(tasks)
  /\ UNCHANGED <<process, call, transitions, phase, live, lifecycle, closed, gateway, writing,
                 stopped, untidy, faults>>

(***************************************************************************)
(* A run                                                                   *)
(***************************************************************************)
Up(c) == gateway[call[c].gateway].state = "up"
Ends(c) == call' = [call EXCEPT ![c] = NoCall]

requestAgent(c) ==
  /\ call[c].pc = "run" /\ Up(c)
  /\ call' = [call EXCEPT ![c].pc = "requested"]
  /\ UNCHANGED <<process, transitions, phase, live, lifecycle, closed, gateway, files, stopped, untidy, faults>>

(* A tool event of a run that is not registered yet is kept, the last one  *)
(* of several; the first one settles a run that is.  The event is          *)
(* announced first.                                                        *)
onEvent(c) ==
  /\ call[c].pc \in {"requested", "waiting"} /\ Up(c)
  /\ \E event \in {"proposal", "error"} :
       IF call[c].pc = "requested" THEN call' = [call EXCEPT ![c].event = event]
       ELSE IF event = "error" THEN Ends(c)
       ELSE call' = [call EXCEPT ![c].pc = "settling", ![c].event = event]
  /\ Announces
  /\ UNCHANGED <<process, transitions, phase, live, lifecycle, closed, gateway, writing, descriptor,
                 stopped, untidy, faults>>

Accepted(c) ==
  /\ call[c].pc = "requested" /\ Up(c)
  /\ IF call[c].event = "error" THEN Ends(c)
     ELSE call' = [call EXCEPT ![c].pc = IF @ = "requested" /\ call[c].event = "proposal"
                                         THEN "settling" ELSE "waiting"]
  /\ Announces
  /\ UNCHANGED <<process, transitions, phase, live, lifecycle, closed, gateway, writing, descriptor,
                 stopped, untidy, faults>>

(* Announced of a run that is not over, or that its caller has given up:   *)
(* another tool event, the stages before and after chat.abort, the failure *)
(* of a run that was rejected.                                             *)
setRunStage ==
  /\ live # 0 /\ Announces
  /\ UNCHANGED <<process, call, transitions, phase, live, lifecycle, closed, gateway, writing, descriptor,
                 stopped, untidy, faults>>

(* After agent.wait the proposal goes back to the Reaction.                *)
RunEnds(c) ==
  /\ call[c].pc = "settling" /\ Up(c)
  /\ Ends(c) /\ Announces
  /\ UNCHANGED <<process, transitions, phase, live, lifecycle, closed, gateway, writing, descriptor,
                 stopped, untidy, faults>>

(* A projection without its parts, a request that its client rejects, a    *)
(* timeout, a run that does not end; the failure of a run is announced.    *)
CallFails(c) ==
  /\ call[c].pc \in {"read", "run", "requested", "waiting", "settling"}
  /\ Ends(c)
  /\ IF call[c].pc = "read" THEN UNCHANGED tasks ELSE Announces
  /\ UNCHANGED <<process, transitions, phase, live, lifecycle, closed, gateway, writing, descriptor,
                 stopped, untidy, faults>>

Next ==
  \/ \E c \in Callers :
       \/ start(c) \/ runConversationReaction(c) \/ readSubjectOpenClawProjection(c) \/ startProcess(c)
       \/ requestAgent(c) \/ onEvent(c) \/ Accepted(c) \/ RunEnds(c) \/ CallFails(c)
  \/ ConfigurationChanges \/ setRunStage
  \/ NothingToStart \/ StopPrevious \/ NothingToStop \/ GatewayStops \/ StopFails \/ Removed
  \/ GatewayStarts \/ StartFails \/ Published \/ PublishFails \/ Abandoned
  \/ stop \/ \E g \in Generations : onUnexpectedExit(g)
  \/ publishDescriptor \/ DescriptorWritten \/ removeDescriptor

Spec == Init /\ [][Next]_vars

(***************************************************************************)
(* Properties                                                              *)
(***************************************************************************)
(* There is never a second Gateway process, however starts, deaths and the *)
(* stop overlap, but for one that outlived force.                          *)
Alive == {g \in Generations : gateway[g].state \in {"starting", "up", "stopping"}}
OneGateway == Cardinality(Alive) <= 1

(* When stop() has returned, no process is left that it knew how to stop,  *)
(* and none is started again.                                              *)
StoppedIsFinal == stopped \in {"done", "failed"} => Alive = {}

(* A Reaction runs on a Gateway of the projection it has read, whatever    *)
(* was current before it asked and since.                                  *)
RunsItsProjection ==
  \A c \in Callers : call[c].gateway # 0 => gateway[call[c].gateway].of = call[c].projection

(* No run waits for a process that is known to be gone.                    *)
NoRunIsForgotten == \A c \in Callers : call[c].pc = "waiting" => Up(c)

(* Once its tasks are done, the descriptor names the Gateway that is live. *)
DescriptorIsLive ==
  tasks = <<>> /\ phase = "idle" /\ descriptor \notin untidy => descriptor \in {0, live}

(***************************************************************************)
(* The inductive invariant                                                 *)
(***************************************************************************)
(* The generations are used one after the other.                           *)
Numbered ==
  /\ Newest \in 0..MaxGateways
  /\ \A g \in Generations : gateway[g].state # "none" <=> g <= Newest

(* Only the newest Gateway lives; where the transition stands tells how,   *)
(* and for which projection it was started.                                *)
NewestLives ==
  /\ \A g \in Alive : g = Newest
  /\ live # 0 => live = Newest /\ gateway[Newest].state = "up" /\ phase \in {"idle", "publishing"}
  /\ \A g \in Alive :
       /\ gateway[g].state = "up" => live = g
       /\ gateway[g].state = "starting" => phase = "starting"
       /\ gateway[g].state = "stopping" => phase \in {"stopping", "abandoning"}
  /\ phase \in {"stopping", "starting", "publishing", "abandoning"} => Newest # 0
  /\ phase = "starting" => gateway[Newest].state = "starting"
  /\ phase \in {"starting", "publishing"} => gateway[Newest].of = Head1

(* Who runs has the Gateway it was given.                                  *)
CallOK(c) ==
  /\ call[c].gateway # 0 => gateway[call[c].gateway].state # "none"
  /\ call[c].gateway # 0 <=> call[c].pc \in {"run", "requested", "waiting", "settling"}
  /\ call[c].pc \in {"ask", "await"} => call[c].projection \in Projections

(* The stop comes last and once.                                           *)
StopIsLast ==
  /\ stopped = "no" <=> ~closed
  /\ \A n \in 1..Len(transitions) :
       transitions[n] = "stop" => n = Len(transitions) /\ stopped = "asked"
  /\ phase # "idle" => transitions # <<>>
  /\ stopped \in {"done", "failed"} => transitions = <<>> /\ live = 0

(* A task that is awaited is that of the transition, and the one that      *)
(* writes is the first.                                                    *)
TasksOK ==
  /\ \A n \in 1..Len(tasks) :
       /\ tasks[n].gateway <= Newest
       /\ tasks[n].awaited =>
            \/ phase = "removing" /\ tasks[n] = Task("remove", 0, TRUE)
            \/ phase = "publishing" /\ tasks[n] = Task("publish", Newest, TRUE)
  /\ writing # 0 => tasks # <<>> /\ tasks[1].op = "publish" /\ tasks[1].gateway = writing

(* A transition waits for one descriptor task at a time, however often the *)
(* same Gateway is announced before and behind it.                         *)
AwaitedOnce == \A m, n \in 1..Len(tasks) : tasks[m].awaited /\ tasks[n].awaited => m = n

(* A descriptor of a Gateway that has gone is about to be removed.         *)
RemoveWaits == \E n \in 1..Len(tasks) : tasks[n].op = "remove"

DescriptorOK ==
  \A d \in {descriptor, writing} \ {0} :
    /\ d <= Newest
    /\ d \in untidy \/ RemoveWaits \/ (d = Newest /\ (live = d \/ phase = "stopping"))

Inv ==
  /\ TypeOK /\ Numbered /\ NewestLives /\ StopIsLast /\ TasksOK /\ AwaitedOnce /\ DescriptorOK
  /\ RunsItsProjection /\ NoRunIsForgotten /\ \A c \in Callers : CallOK(c)

(* The child process that thinks, and what is known of it on disk.           *)
GatewayIsOne ==
  /\ TypeOK /\ OneGateway /\ StoppedIsFinal /\ RunsItsProjection /\ NoRunIsForgotten /\ DescriptorIsLive
=============================================================================
