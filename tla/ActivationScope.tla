--------------------------- MODULE ActivationScope ---------------------------
(***************************************************************************)
(* The substrate under a MicroSystem: an activation owns the resources its *)
(* scope has deferred and the tasks it tracks, and gives them back when it *)
(* is disposed.                                                            *)
(*                                                                         *)
(* The code of an activation runs on while it is disposed: it may defer,   *)
(* track and fail at any time, from the activation's own function, from a  *)
(* task or from a disposer.  Disposal waits for the disposers and, for a   *)
(* limited time, for the tasks; close() disposes what is left, activations *)
(* that have not come up included.  The Cordis Fiber that runs the         *)
(* activation's function and its disposers is external.                    *)
(***************************************************************************)
EXTENDS Naturals, Sequences

CONSTANTS
  MaxActivations,  \* activations, numbered in the order they are begun
  MaxResources,    \* resources of an activation
  MaxTasks         \* tasks of an activation

VARIABLES
  activation,  \* activation -> its state, and where its start and disposal are
  fiber,       \* activation -> its Fiber and the disposers it holds, in order
  resource,    \* activation -> its resources
  task,        \* activation -> its tasks
  awaited,     \* activation -> the tasks its disposal waits for
  closing      \* close(): whether it was called, and what it is at

vars == <<activation, fiber, resource, task, awaited, closing>>

Activations == 1..MaxActivations
Resources == 1..MaxResources
Tasks == 1..MaxTasks

States == {"NONE", "ACTIVATING", "ACTIVE", "FAILED", "DISPOSING", "DISPOSED"}

Activation ==
  [state : States,
   start : {"none", "applying", "resolved", "rejected", "failing", "ended"},
   dispose : {"none", "fiber", "draining", "tasks", "last", "done"},
   cause : BOOLEAN, cancelled : BOOLEAN]
Fiber == [state : {"none", "active", "disposing", "disposed"}, effects : Seq(Resources)]

TypeOK ==
  /\ activation \in [Activations -> Activation] /\ fiber \in [Activations -> Fiber]
  /\ resource \in [Activations -> [Resources -> {"none", "held", "disposing", "late", "released"}]]
  /\ task \in [Activations -> [Tasks -> {"none", "running", "settled", "rejected"}]]
  /\ awaited \in [Activations -> SUBSET Tasks]
  /\ closing \in [state : {"open", "closing", "closed"}, at : 0..MaxActivations]

Init ==
  /\ activation = [a \in Activations |->
       [state |-> "NONE", start |-> "none", dispose |-> "none", cause |-> FALSE,
        cancelled |-> FALSE]]
  /\ fiber = [a \in Activations |-> [state |-> "none", effects |-> <<>>]]
  /\ resource = [a \in Activations |-> [r \in Resources |-> "none"]]
  /\ task = [a \in Activations |-> [t \in Tasks |-> "none"]]
  /\ awaited = [a \in Activations |-> {}]
  /\ closing = [state |-> "open", at |-> 0]

(***************************************************************************)
(* Helpers                                                                 *)
(***************************************************************************)
state(a) == activation[a].state
Late(a) == {r \in Resources : resource[a][r] = "late"}
Running(a) == {t \in Tasks : task[a][t] = "running"}
Begun(a) == state(a) # "NONE"

(* What the disposal of an activation does first: no more tasks, an abort, *)
(* and the disposal of the Fiber.                                          *)
Disposing(a) ==
  /\ activation' = [activation EXCEPT ![a].state = "DISPOSING", ![a].dispose = "fiber",
                                      ![a].cancelled = activation[a].start \in {"applying", "resolved", "rejected"}]
  /\ fiber' = [fiber EXCEPT ![a].state = "disposing"]

(***************************************************************************)
(* activate                                                                *)
(***************************************************************************)
activate(a) ==
  /\ ~Begun(a) /\ closing.state = "open" /\ \A b \in Activations : b < a => Begun(b)
  /\ activation' = [activation EXCEPT ![a].state = "ACTIVATING", ![a].start = "applying"]
  /\ fiber' = [fiber EXCEPT ![a].state = "active"]
  /\ UNCHANGED <<resource, task, awaited, closing>>

(* The activation's function ends, or its Fiber is gone before it does.    *)
Applied(a) ==
  /\ activation[a].start = "applying"
  /\ \/ activation' = [activation EXCEPT ![a].start = "resolved"]
     \/ activation' = [activation EXCEPT ![a].start = "rejected"]
  /\ UNCHANGED <<fiber, resource, task, awaited, closing>>

Started(a) ==
  /\ activation[a].start = "resolved"
  /\ activation' =
       IF state(a) = "ACTIVATING"
       THEN [activation EXCEPT ![a].state = "ACTIVE", ![a].start = "ended"]
       ELSE [activation EXCEPT ![a].start = "rejected"]
  /\ UNCHANGED <<fiber, resource, task, awaited, closing>>

(* The catch of start(): the state is FAILED, whatever it was, and the     *)
(* activation is disposed, or its disposal awaited.                        *)
StartFails(a) ==
  /\ activation[a].start = "rejected"
  /\ IF activation[a].dispose = "none"
     THEN /\ activation' = [activation EXCEPT ![a].start = "failing", ![a].state = "DISPOSING",
                                              ![a].dispose = "fiber"]
          /\ fiber' = [fiber EXCEPT ![a].state = "disposing"]
     ELSE /\ activation' = [activation EXCEPT ![a].start = "failing", ![a].state = "FAILED"]
          /\ UNCHANGED fiber
  /\ UNCHANGED <<resource, task, awaited, closing>>

StartRejected(a) ==
  /\ activation[a].start = "failing" /\ activation[a].dispose = "done"
  /\ activation' = [activation EXCEPT ![a].start = "ended"]
  /\ UNCHANGED <<fiber, resource, task, awaited, closing>>

(***************************************************************************)
(* The scope                                                               *)
(***************************************************************************)
(* A Fiber that is being disposed takes no more disposers; a late one is   *)
(* run at once.                                                            *)
defer(a, r) ==
  /\ state(a) \notin {"NONE", "DISPOSED"} /\ resource[a][r] = "none"
  /\ IF state(a) # "DISPOSING" /\ fiber[a].state = "active"
     THEN /\ resource' = [resource EXCEPT ![a][r] = "held"]
          /\ fiber' = [fiber EXCEPT ![a].effects = Append(@, r)]
     ELSE resource' = [resource EXCEPT ![a][r] = "late"] /\ UNCHANGED fiber
  /\ UNCHANGED <<activation, task, awaited, closing>>

track(a, t) ==
  /\ state(a) \notin {"NONE", "DISPOSING", "DISPOSED"} /\ task[a][t] = "none"
  /\ task' = [task EXCEPT ![a][t] = "running"]
  /\ UNCHANGED <<activation, fiber, resource, awaited, closing>>

TaskSettles(a, t) ==
  /\ task[a][t] = "running"
  /\ task' = [task EXCEPT ![a][t] = "settled"]
  /\ UNCHANGED <<activation, fiber, resource, awaited, closing>>

(* The first failure of an activation that is coming up or is up fails it. *)
TaskRejects(a, t) ==
  /\ task[a][t] = "running"
  /\ task' = [task EXCEPT ![a][t] = "rejected"]
  /\ activation' = IF state(a) \in {"ACTIVATING", "ACTIVE"}
                   THEN [activation EXCEPT ![a].state = "FAILED"] ELSE activation
  /\ UNCHANGED <<fiber, resource, awaited, closing>>

(***************************************************************************)
(* dispose                                                                 *)
(***************************************************************************)
(* The owner of the handle; a second call gets the same disposal.          *)
dispose(a) ==
  /\ activation[a].start = "ended" /\ activation[a].dispose = "none"
  /\ Disposing(a)
  /\ UNCHANGED <<resource, task, awaited, closing>>

Last(s) == s[Len(s)]

(* Last in, first out.                                                     *)
EffectBegins(a) ==
  /\ fiber[a].state = "disposing" /\ fiber[a].effects # <<>>
  /\ \A r \in Resources : resource[a][r] # "disposing"
  /\ resource' = [resource EXCEPT ![a][Last(fiber[a].effects)] = "disposing"]
  /\ fiber' = [fiber EXCEPT ![a].effects = SubSeq(@, 1, Len(@) - 1)]
  /\ UNCHANGED <<activation, task, awaited, closing>>

(* A disposer ends; the first that fails is the cause the disposal fails   *)
(* with.                                                                   *)
DisposerEnds(a, r) ==
  /\ resource[a][r] \in {"disposing", "late"}
  /\ resource' = [resource EXCEPT ![a][r] = "released"]
  /\ activation' \in {activation, [activation EXCEPT ![a].cause = TRUE]}
  /\ UNCHANGED <<fiber, task, awaited, closing>>

FiberDisposed(a) ==
  /\ activation[a].dispose = "fiber" /\ fiber[a].effects = <<>>
  /\ \A r \in Resources : resource[a][r] # "disposing"
  /\ fiber' = [fiber EXCEPT ![a].state = "disposed"]
  /\ activation' = [activation EXCEPT ![a].dispose = "draining"]
  /\ UNCHANGED <<resource, task, awaited, closing>>

(* drainLateDisposers, and the tasks there are now.                        *)
Drained(a) ==
  /\ activation[a].dispose = "draining" /\ Late(a) = {}
  /\ awaited' = [awaited EXCEPT ![a] = Running(a)]
  /\ activation' = [activation EXCEPT ![a].dispose = IF Running(a) = {} THEN "last" ELSE "tasks"]
  /\ UNCHANGED <<fiber, resource, task, closing>>

TasksSettled(a) ==
  /\ activation[a].dispose = "tasks" /\ awaited[a] \cap Running(a) = {}
  /\ activation' = [activation EXCEPT ![a].dispose = "last"]
  /\ UNCHANGED <<fiber, resource, task, awaited, closing>>

SettlementTimeout(a) ==
  /\ activation[a].dispose = "tasks" /\ awaited[a] \cap Running(a) # {}
  /\ activation' = [activation EXCEPT ![a].dispose = "last", ![a].cause = TRUE]
  /\ UNCHANGED <<fiber, resource, task, awaited, closing>>

(* Mutant: disposers that came while the tasks settled are left behind.    *)
DisposedAtOnce(a) ==
  /\ activation[a].dispose = "last"
  /\ activation' = [activation EXCEPT ![a].dispose = "done", ![a].state = "DISPOSED"]
  /\ UNCHANGED <<fiber, resource, task, awaited, closing>>

Disposed(a) ==
  /\ activation[a].dispose = "last" /\ Late(a) = {}
  /\ activation' = [activation EXCEPT ![a].dispose = "done", ![a].state = "DISPOSED"]
  /\ UNCHANGED <<fiber, resource, task, awaited, closing>>

(***************************************************************************)
(* close                                                                   *)
(***************************************************************************)
Left == {a \in Activations : Begun(a) /\ activation[a].dispose # "done" /\ activation[a].start # "none"}

close ==
  /\ closing.state = "open"
  /\ closing' = [state |-> "closing", at |-> MaxActivations]
  /\ UNCHANGED <<activation, fiber, resource, task, awaited>>

(* In reverse order, one after the other, failed ones included.            *)
CloseNext ==
  LET a == closing.at IN
  /\ closing.state = "closing" /\ a > 0
  /\ \/ /\ a \in Left /\ activation[a].dispose = "none"
        /\ Disposing(a) /\ UNCHANGED closing
     \/ /\ a \notin Left
        /\ closing' = [closing EXCEPT !.at = a - 1]
        /\ UNCHANGED <<activation, fiber>>
  /\ UNCHANGED <<resource, task, awaited>>

Closed ==
  /\ closing.state = "closing" /\ closing.at = 0
  /\ closing' = [closing EXCEPT !.state = "closed"]
  /\ UNCHANGED <<activation, fiber, resource, task, awaited>>

Next ==
  \/ \E a \in Activations :
       \/ activate(a) \/ Applied(a) \/ Started(a) \/ StartFails(a) \/ StartRejected(a)
       \/ dispose(a) \/ EffectBegins(a) \/ FiberDisposed(a) \/ Drained(a) \/ TasksSettled(a)
       \/ SettlementTimeout(a) \/ Disposed(a)
       \/ \E r \in Resources : defer(a, r) \/ DisposerEnds(a, r)
       \/ \E t \in Tasks : track(a, t) \/ TaskSettles(a, t) \/ TaskRejects(a, t)
  \/ close \/ CloseNext \/ Closed

Spec == Init /\ [][Next]_vars

(***************************************************************************)
(* Properties                                                              *)
(***************************************************************************)
(* An activation that has been disposed without a failure leaves nothing   *)
(* behind: every resource its scope took is released, however late it      *)
(* came, and every task it tracked has settled, unless the activation was  *)
(* cancelled while it was coming up.                                       *)
DisposedIsClean ==
  \A a \in Activations :
    activation[a].dispose = "done" /\ state(a) = "DISPOSED" =>
      /\ \A r \in Resources : resource[a][r] \in {"none", "released"}
      /\ ~activation[a].cause /\ ~activation[a].cancelled => Running(a) = {}

(* An activation is only up if none of its tasks has failed and nobody has *)
(* disposed it; whoever starts it never gets a handle of one that has.     *)
ActiveIsSound ==
  \A a \in Activations :
    state(a) = "ACTIVE" =>
      /\ activation[a].dispose = "none"
      /\ \A t \in Tasks : task[a][t] # "rejected"

(* close() leaves no activation undisposed, be it up, failed or on its way.*)
ClosedIsDisposed ==
  closing.state = "closed" => \A a \in Activations : Begun(a) => activation[a].dispose = "done"

(* An activation's resources and tasks from start to disposal.             *)
ScopeIsSettled == TypeOK /\ DisposedIsClean /\ ActiveIsSound /\ ClosedIsDisposed

(***************************************************************************)
(* The inductive invariant                                                 *)
(***************************************************************************)
(* Where the start is, where the disposal is and what the state says.      *)
StageOK(a) ==
  LET x == activation[a] IN
  /\ x.state = "NONE" <=> x.start = "none"
  /\ x.state = "NONE" => x.dispose = "none" /\ \A t \in Tasks : task[a][t] = "none"
  /\ x.state \in {"ACTIVATING", "ACTIVE"} =>
        x.dispose = "none" /\ \A t \in Tasks : task[a][t] # "rejected"
  /\ x.dispose # "none" /\ ~x.cancelled =>
        x.start \in {"failing", "ended"} /\ x.state \in {"DISPOSING", "DISPOSED"}

(* A Fiber being disposed has every disposer that is still to run.         *)
FiberOK(a) ==
  /\ activation[a].dispose = "fiber" => fiber[a].state = "disposing"
  /\ activation[a].dispose \in {"draining", "tasks", "last", "done"} =>
        /\ fiber[a].state = "disposed"
        /\ \A r \in Resources : resource[a][r] \notin {"held", "disposing"}
  /\ \A r \in Resources :
        resource[a][r] = "held" => \E n \in 1..Len(fiber[a].effects) : fiber[a].effects[n] = r

(* Tasks of an activation that was up are awaited, unless time runs out.   *)
TasksOK(a) ==
  /\ activation[a].dispose = "tasks" /\ ~activation[a].cancelled => Running(a) \subseteq awaited[a]
  /\ activation[a].dispose \in {"last", "done"} /\ ~activation[a].cancelled /\ ~activation[a].cause
        => Running(a) = {}
  /\ state(a) = "DISPOSED" =>
        activation[a].dispose = "done" /\ \A r \in Resources : resource[a][r] \in {"none", "released"}

Inv ==
  /\ TypeOK
  /\ \A a \in Activations : StageOK(a) /\ FiberOK(a) /\ TasksOK(a)
  /\ closing.state # "open" =>
        \A a \in Activations : a > closing.at /\ Begun(a) => activation[a].dispose = "done"
  /\ closing.state = "closed" => closing.at = 0
=============================================================================
