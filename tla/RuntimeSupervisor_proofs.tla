------------------------ MODULE RuntimeSupervisor_proofs ------------------------
(***************************************************************************)
(* Proofs, for every set of MicroSystems, Services and snapshots and any   *)
(* number of activations, reconciles, failures and calls, of what the run  *)
(* of MCRuntimeSupervisor checks.  The argument for the generations: a     *)
(* system has at most one of a running generation, an operation in         *)
(* progress and an unsettled generation, and a committed generation that   *)
(* is none of the three has retired, which it does only once drained.      *)
(* For who is served, where nobody both provides and requires: a plan or   *)
(* a failure that stops a provider also stops whoever is bound to it.      *)
(***************************************************************************)
EXTENDS RuntimeSupervisor, TLAPS

(* A generation: unborn, admitting, or accounted for until it has drained.  *)
GenOK(g) ==
    LET x == gen[g] IN
    /\ x.of = None => x = Unborn
    /\ x.fence = "RETIRED" => x.calls = 0
    /\ x.leased /\ x.fence = "ACTIVE" =>
          /\ lifecycle = "ACTIVE"
          /\ running[x.of] = g \/ (op.kind = "start" /\ op.gen = g)
    /\ x.committed =>
          \/ running[x.of] = g
          \/ op.kind \in {"stop", "undo"} /\ op.gen = g
          \/ unsettled[x.of] = g
          \/ x.fence = "RETIRED"

(* A system that runs has settled what ran before.                          *)
SystemOK(s) ==
    running[s] # None => gen[running[s]].of = s /\ unsettled[s] = None

(* The operation in progress: of a system that does not run meanwhile.      *)
OpOK ==
    /\ op.kind = "none" => op = NoOp
    /\ op.kind # "none" =>
          /\ op.of \in Systems /\ op.gen \in Gens /\ gen[op.gen].of = op.of
          /\ running[op.of] = None /\ unsettled[op.of] = None /\ job.kind # "none"
    /\ op.kind \in {"start", "undo", "abandon"} => job.kind = "reconcile"
    /\ op.kind \in {"start", "abandon"} => ~gen[op.gen].committed
    /\ op.kind = "start" => op.step \in {"activating", "published", "failed"}
    /\ op.kind \in {"stop", "undo", "abandon"} => op.step \in {"withdraw", "dispose"}
    /\ op.kind = "start" /\ lifecycle # "ACTIVE" => gen[op.gen].fence # "ACTIVE"

(* What is left to a close and to a failure, and what a close leaves.       *)
JobOK ==
    /\ job.kind = "close" => \A s \in Systems : running[s] # None => s \in job.rebinds
    /\ job.kind = "failure" =>
          /\ job.of \in Systems
          /\ running[job.of] # None => gen[running[job.of]].hurt
    /\ \A k \in 1 .. Len(queue) : queue[k].kind = "failure" => gen[queue[k].gen].hurt
    /\ lifecycle = "CLOSED" =>
          /\ op.kind = "none" /\ \A s \in Systems : running[s] = None
          /\ \A g \in Gens : gen[g].committed => gen[g].fence = "RETIRED"

Inv ==
    /\ TypeOK
    /\ \A g \in Gens : GenOK(g)
    /\ \A s \in Systems : SystemOK(s)
    /\ OpOK
    /\ JobOK

------------------------------------------------------------------------------
(* Types.                                                                   *)

GenType == [of : Systems \cup {None}, fence : {"ACTIVE", "RETIRING", "RETIRED"},
            retire : BOOLEAN, leased : BOOLEAN, calls : 0..1, uses : SUBSET Gens,
            committed : BOOLEAN, hurt : BOOLEAN]
JobType == [kind : {"none", "reconcile", "failure", "close"}, rebinds : SUBSET Systems,
            stops : SUBSET Systems, starts : SUBSET Systems, blocked : SUBSET Systems,
            bind : [Services -> Systems \cup {None}], was : [Services -> Systems \cup {None}],
            closed : SUBSET Services, of : Systems \cup {None}, failed : BOOLEAN]
OpType == [kind : {"none", "start", "stop", "undo", "abandon"}, of : Systems \cup {None},
           gen : Gens \cup {None}, failed : BOOLEAN,
           step : {"none", "activating", "published", "failed", "withdraw", "dispose"},
           terminal : {"STOPPED", "FAILED", "BLOCKED"}]
Mutations == [kind : {"reconcile"}, desired : Desires]
             \cup [kind : {"close"}] \cup [kind : {"failure"}, gen : Gens]

LifecycleOK == lifecycle \in {"ACTIVE", "CLOSING", "CLOSED", "FAILED"}
ActualOK == actual \in [Systems -> States]
RunningOK == running \in [Systems -> Gens \cup {None}] /\ unsettled \in [Systems -> Gens \cup {None}]
BoundOK == bound \in [Services -> Systems \cup {None}]
BoundsOK == accepted \in 0..MaxReconciles /\ faults \in 0..MaxFaults

(* The type invariant by its parts.                                         *)
LEMMA TypeParts ==
    TypeOK <=> /\ LifecycleOK /\ ActualOK /\ RunningOK /\ BoundOK /\ BoundsOK
               /\ gen \in [Gens -> GenType] /\ job \in JobType /\ op \in OpType
               /\ queue \in Seq(Mutations)
  BY DEF TypeOK, LifecycleOK, ActualOK, RunningOK, BoundOK, BoundsOK, GenType, JobType, OpType,
         Mutations

(* The same of the next state.                                              *)
LEMMA NextTypeParts ==
    TypeOK' <=> /\ LifecycleOK' /\ ActualOK' /\ RunningOK' /\ BoundOK' /\ BoundsOK'
                /\ gen' \in [Gens -> GenType] /\ job' \in JobType /\ op' \in OpType
                /\ queue' \in Seq(Mutations)
  BY DEF TypeOK, LifecycleOK, ActualOK, RunningOK, BoundOK, BoundsOK, GenType, JobType, OpType,
         Mutations

(* No job, no operation and an unborn generation are typed.                 *)
LEMMA NothingType ==
    /\ NoJob \in JobType /\ NoJob.kind = "none"
    /\ NoOp \in OpType /\ NoOp.kind = "none" /\ NoOp.step = "none"
    /\ Unborn \in GenType /\ Unborn.of = None /\ Unborn.fence = "ACTIVE" /\ Unborn.calls = 0
    /\ ~Unborn.leased /\ ~Unborn.committed /\ ~Unborn.hurt
  BY DEF NoJob, JobType, NoOp, OpType, Unborn, GenType

(* What the fence operations do to a generation.                            *)
LEMMA Fences ==
    ASSUME NEW x \in GenType
    PROVE  /\ Begun(x) \in GenType /\ Retired(x) \in GenType
           /\ Settled(x) \in GenType /\ Withdrawn(x) \in GenType
           /\ Begun(x).fence # "ACTIVE" /\ Retired(x).fence # "ACTIVE"
           /\ Withdrawn(x).leased => Withdrawn(x).fence # "ACTIVE"
           /\ x.fence # "ACTIVE" => Settled(x).fence # "ACTIVE" /\ Withdrawn(x).fence # "ACTIVE"
           /\ Settled(x).fence = "ACTIVE" => x.fence = "ACTIVE"
           /\ Settled(x).calls = 0
           /\ \A y \in {Begun(x), Retired(x), Withdrawn(x)} : y.calls = x.calls
           /\ \A y \in {Begun(x), Retired(x), Settled(x), Withdrawn(x)} :
                 /\ y.of = x.of /\ y.committed = x.committed /\ y.hurt = x.hurt /\ y.leased = x.leased
                 /\ x.fence = "RETIRED" /\ x.calls = 0 => y.fence = "RETIRED"
                 /\ (x.fence = "RETIRED" => x.calls = 0) => (y.fence = "RETIRED" => y.calls = 0)
  <1>1. ASSUME NEW y \in {Begun(x)}
        PROVE  /\ y \in GenType /\ y.fence # "ACTIVE" /\ y.calls = x.calls
               /\ y.of = x.of /\ y.committed = x.committed /\ y.hurt = x.hurt /\ y.leased = x.leased
               /\ y.fence = "RETIRED" <=> x.fence = "RETIRED"
    <2>1. CASE x.fence = "ACTIVE"
      BY <1>1, <2>1 DEF Begun, GenType
    <2>2. CASE x.fence # "ACTIVE"
      BY <1>1, <2>2 DEF Begun, GenType
    <2> QED BY <2>1, <2>2
  <1>2. ASSUME NEW y \in {Retired(x)}
        PROVE  /\ y \in GenType /\ y.fence # "ACTIVE" /\ y.calls = x.calls
               /\ y.of = x.of /\ y.committed = x.committed /\ y.hurt = x.hurt /\ y.leased = x.leased
               /\ y.fence = "RETIRED" <=> x.calls = 0
    <2>1. CASE x.calls = 0
      <3>1. y = [x EXCEPT !.retire = TRUE, !.fence = "RETIRED"]
        BY <1>2, <2>1 DEF Retired
      <3> QED BY <2>1, <3>1 DEF GenType
    <2>2. CASE x.calls # 0
      <3>1. y = [x EXCEPT !.retire = TRUE, !.fence = "RETIRING"]
        BY <1>2, <2>2 DEF Retired
      <3> QED BY <2>2, <3>1 DEF GenType
    <2> QED BY <2>1, <2>2
  <1>3. ASSUME NEW y \in {Settled(x)}
        PROVE  /\ y \in GenType /\ y.calls = 0
               /\ y.of = x.of /\ y.committed = x.committed /\ y.hurt = x.hurt /\ y.leased = x.leased
               /\ y.fence = "ACTIVE" <=> x.fence = "ACTIVE"
               /\ x.fence = "RETIRED" => y.fence = "RETIRED"
    <2>1. CASE x.retire /\ x.fence = "RETIRING"
      <3>1. y = [x EXCEPT !.calls = 0, !.fence = "RETIRED"]
        BY <1>3, <2>1 DEF Settled
      <3>2. x.fence \in {"ACTIVE", "RETIRING", "RETIRED"} /\ 0 \in 0..1
        BY DEF GenType
      <3>3. y \in GenType
        BY <3>1, <3>2 DEF GenType
      <3> QED BY <2>1, <3>1, <3>3 DEF GenType
    <2>2. CASE ~(x.retire /\ x.fence = "RETIRING")
      <3>1. y = [x EXCEPT !.calls = 0, !.fence = x.fence]
        BY <1>3, <2>2 DEF Settled
      <3>2. x.fence \in {"ACTIVE", "RETIRING", "RETIRED"} /\ 0 \in 0..1
        BY DEF GenType
      <3>3. y \in GenType
        BY <3>1, <3>2 DEF GenType
      <3> QED BY <2>2, <3>1, <3>3 DEF GenType
    <2> QED BY <2>1, <2>2
  <1>4. Withdrawn(x) = IF x.leased THEN Retired(x) ELSE x
    BY DEF Withdrawn
  <1> QED BY <1>1, <1>2, <1>3, <1>4

(* A plan over the systems there are.                                       *)
LEMMA PlanType ==
    ASSUME TypeOK, NEW d \in Desires
    PROVE  Plan(d) \in JobType /\ Plan(d).kind = "reconcile"
  <1>1. d \in [want : SUBSET Systems, eligible : SUBSET Systems,
               bind : [Services -> Systems \cup {None}]]
    BY GraphAssumption
  <1>2. Resolvable(d) \subseteq Systems
    BY <1>1 DEF Resolvable, Wanted
  <1>3. Selected(d) \in [Services -> Systems \cup {None}]
    <2> DEFINE R == Resolvable(d)
               Chosen(v) == {p \in R : \E c \in R : v \in Requires[c] /\ p \in Candidates(v, R, d.bind)}
    <2>1. \A v \in Services : Chosen(v) # {} => (CHOOSE p \in Chosen(v) : TRUE) \in Chosen(v)
      OBVIOUS
    <2>2. Selected(d) = [v \in Services |-> IF Chosen(v) = {} THEN None ELSE CHOOSE p \in Chosen(v) : TRUE]
      BY DEF Selected
    <2>3. \A v \in Services : Chosen(v) \subseteq Systems
      BY <1>2
    <2> QED BY <2>1, <2>2, <2>3
  <1>4. ClosedServices \subseteq Services
    BY GraphAssumption DEF ClosedServices
  <1>5. Rebinds(d) \subseteq Systems
    BY DEF Rebinds
  <1>6. bound \in [Services -> Systems \cup {None}]
    BY TypeParts DEF BoundOK
  <1>7. d.want \ Resolvable(d) \subseteq Systems
    BY <1>1
  <1> HIDE DEF Resolvable, Selected
  <1> QED BY <1>3, <1>4, <1>5, <1>6, <1>7 DEF Plan, JobType

(* The systems that fall together are systems.                              *)
LEMMA ClosureType == \A s \in Systems : Closure(s) \subseteq Systems
  BY DEF Closure, RunningSystems

(* What is left of a plan is a plan of the same kind.                       *)
LEMMA WithoutType ==
    ASSUME TypeOK, NEW s \in Systems
    PROVE  /\ Without(s) \in JobType
           /\ Without(s).kind = job.kind /\ Without(s).of = job.of
           /\ Without(s).rebinds = job.rebinds \ {s} /\ Without(s).closed = job.closed
  <1>1. job \in JobType
    BY TypeParts
  <1> QED BY <1>1 DEF Without, JobType

(* Taking a mutation off the queue.                                         *)
LEMMA TakeType ==
    ASSUME TypeOK, NEW kind, Take(kind)
    PROVE  /\ queue' \in Seq(Mutations)
           /\ Head(queue) \in Mutations /\ Head(queue).kind = kind
           /\ kind = "reconcile" => Head(queue).desired \in Desires
           /\ kind = "failure" => Head(queue).gen \in Gens
           /\ queue[1] = Head(queue) /\ 1 \in 1 .. Len(queue)
           /\ \A k \in 1 .. Len(queue') : k + 1 \in 1 .. Len(queue) /\ queue'[k] = queue[k + 1]
  <1>1. queue \in Seq(Mutations) /\ queue # <<>> /\ queue' = Tail(queue) /\ Head(queue).kind = kind
    BY TypeParts DEF Take
  <1>2. Head(queue) \in Mutations /\ Tail(queue) \in Seq(Mutations) /\ Head(queue) = queue[1]
    BY <1>1
  <1>3. Len(queue) \in Nat /\ Len(queue) > 0 /\ Len(queue') = Len(queue) - 1
    BY <1>1
  <1>4. \A k \in 1 .. Len(queue') : queue'[k] = queue[k + 1]
    BY <1>1
  <1> QED BY <1>1, <1>2, <1>3, <1>4 DEF Mutations

(* Queueing a mutation behind the others.                                   *)
LEMMA QueueType ==
    ASSUME TypeOK, NEW m \in Mutations, queue' = Append(queue, m)
    PROVE  /\ queue' \in Seq(Mutations)
           /\ \A k \in 1 .. Len(queue') :
                 \/ k \in 1 .. Len(queue) /\ queue'[k] = queue[k]
                 \/ queue'[k] = m
  <1>1. queue \in Seq(Mutations)
    BY TypeParts
  <1> QED BY <1>1

(* Nothing is running, queued or accepted at first.                         *)
LEMMA InitType == Init => TypeOK
  <1> SUFFICES ASSUME Init PROVE TypeOK
    OBVIOUS
  <1>1. queue \in Seq(Mutations)
    BY DEF Init
  <1>2. accepted \in 0..MaxReconciles /\ faults \in 0..MaxFaults
    BY GraphAssumption DEF Init
  <1> HIDE DEF NoJob, NoOp, Unborn
  <1> QED BY <1>1, <1>2, NothingType, TypeParts
      DEF Init, LifecycleOK, ActualOK, RunningOK, BoundOK, BoundsOK, States

(* Taking and ending mutations keeps the types.                             *)
LEMMA ChainType ==
    ASSUME Inv,
           \/ BeginReconcile \/ BeginFailure \/ BeginClose \/ ReconcileNotRetained
           \/ Rebind \/ EndReconcile \/ EndFailure \/ EndClose \/ DropPlan
           \/ \E d \in Desires : Reconcile(d)
    PROVE  TypeOK'
  <1>a. TypeOK
    BY DEF Inv
  <1> USE <1>a, TypeParts, NextTypeParts
  <1>0. job.bind \in [Services -> Systems \cup {None}]
    BY DEF JobType
  <1>1. CASE BeginReconcile
    <2>1. queue' \in Seq(Mutations) /\ Head(queue).desired \in Desires
      BY <1>1, TakeType DEF BeginReconcile
    <2>2. job' \in JobType /\ RunningOK'
      BY <1>1, <2>1, PlanType DEF BeginReconcile, RunningOK
    <2> QED BY <1>1, <2>1, <2>2
        DEF BeginReconcile, LifecycleOK, ActualOK, BoundOK, BoundsOK, bounds
  <1>2. CASE BeginFailure
    <2>1. queue' \in Seq(Mutations) /\ Head(queue).gen \in Gens
      BY <1>2, TakeType DEF BeginFailure
    <2> DEFINE g == Head(queue).gen
               s == gen[g].of
    <2>2. s \in Systems
      <3>1. gen[g].hurt
        BY <1>2, TakeType DEF BeginFailure, Inv, JobOK
      <3> QED BY <2>1, <3>1, NothingType DEF Inv, GenOK, GenType
    <2>3. ActualOK'
      BY <1>2, <2>2 DEF BeginFailure, ActualOK, States
    <2>4. Closure(s) \ {s} \subseteq Systems /\ {s} \subseteq Systems
      BY <2>2, ClosureType
    <2>5. job' \in JobType
      <3>1. CASE running[s] = g
        <4>1. job' = [NoJob EXCEPT !.kind = "failure", !.of = s, !.rebinds = Closure(s) \ {s},
                                   !.stops = {s}, !.was = bound]
          BY <1>2, <3>1 DEF BeginFailure
        <4>2. bound \in [Services -> Systems \cup {None}]
          BY DEF BoundOK
        <4> HIDE DEF s
        <4> QED BY <2>2, <2>4, <4>1, <4>2, NothingType DEF JobType
      <3>2. CASE running[s] # g
        BY <1>2, <3>2 DEF BeginFailure
      <3> QED BY <3>1, <3>2
    <2> QED BY <1>2, <2>1, <2>3, <2>5
        DEF BeginFailure, LifecycleOK, RunningOK, BoundOK, BoundsOK, bounds
  <1>3. CASE BeginClose
    <2>1. queue' \in Seq(Mutations)
      BY <1>3, TakeType DEF BeginClose
    <2>2. RunningSystems \subseteq Systems /\ bound \in [Services -> Systems \cup {None}]
      BY DEF RunningSystems, BoundOK
    <2>3. job' \in JobType
      BY <1>3, <2>2, NothingType DEF BeginClose, JobType
    <2> QED BY <1>3, <2>1, <2>3
        DEF BeginClose, LifecycleOK, ActualOK, RunningOK, BoundOK, BoundsOK, bounds
  <1>4. CASE ReconcileNotRetained
    <2>1. queue' \in Seq(Mutations)
      BY <1>4, TakeType DEF ReconcileNotRetained
    <2>2. BoundsOK'
      BY <1>4, GraphAssumption DEF ReconcileNotRetained, BoundsOK
    <2> QED BY <1>4, <2>1, <2>2
        DEF ReconcileNotRetained, LifecycleOK, ActualOK, RunningOK, BoundOK
  <1>5. CASE Rebind
    <2>1. BoundOK'
      BY <1>0, <1>5 DEF Rebind, BoundOK
    <2> QED BY <1>5, <2>1 DEF Rebind, LifecycleOK, ActualOK, RunningOK, BoundsOK, bounds
  <1>6. CASE EndReconcile
    <2>1. ActualOK'
      BY <1>6 DEF EndReconcile, ActualOK, States
    <2> QED BY <1>0, <1>6, <2>1, NothingType
        DEF EndReconcile, LifecycleOK, BoundOK, RunningOK, BoundsOK, bounds
  <1>7. CASE EndFailure \/ EndClose \/ DropPlan
    BY <1>0, <1>7, NothingType
       DEF EndFailure, EndClose, DropPlan, LifecycleOK, ActualOK, BoundOK, RunningOK, BoundsOK, bounds
  <1>8. ASSUME NEW d \in Desires, Reconcile(d) PROVE TypeOK'
    <2>1. [kind |-> "reconcile", desired |-> d] \in Mutations
      BY DEF Mutations
    <2>2. queue' \in Seq(Mutations)
      BY <1>8, <2>1, QueueType DEF Reconcile
    <2>3. BoundsOK'
      BY <1>8, GraphAssumption DEF Reconcile, BoundsOK
    <2> QED BY <1>8, <2>2, <2>3 DEF Reconcile, LifecycleOK, ActualOK, BoundOK, RunningOK
  <1> QED BY <1>1, <1>2, <1>3, <1>4, <1>5, <1>6, <1>7, <1>8

(* Beginning to stop a running system.                                      *)
LEMMA StopOfType ==
    ASSUME Inv, NEW s \in Systems, running[s] # None, NEW kind \in {"stop", "undo"},
           NEW terminal \in {"STOPPED", "FAILED", "BLOCKED"}, StopOf(s, kind, terminal)
    PROVE  /\ ActualOK' /\ op' \in OpType /\ gen' \in [Gens -> GenType]
           /\ running' \in [Systems -> Gens \cup {None}]
           /\ running[s] \in Gens /\ running' = [running EXCEPT ![s] = None]
           /\ gen' = [gen EXCEPT ![running[s]] = Withdrawn(gen[running[s]])]
           /\ op'.kind = kind /\ op'.of = s /\ op'.gen = running[s] /\ op'.step = "withdraw"
  <1>1. ActualOK /\ RunningOK /\ gen \in [Gens -> GenType]
    BY TypeParts DEF Inv
  <1>2. running[s] \in Gens /\ running' = [running EXCEPT ![s] = None]
    BY <1>1 DEF StopOf, RunningOK
  <1>3. running' \in [Systems -> Gens \cup {None}]
    BY <1>1, <1>2 DEF RunningOK
  <1>4. gen' = [gen EXCEPT ![running[s]] = Withdrawn(gen[running[s]])]
    BY <1>1, <1>2 DEF StopOf
  <1>5. gen' \in [Gens -> GenType]
    BY <1>1, <1>2, <1>4, Fences
  <1>6. ActualOK'
    BY <1>1 DEF StopOf, ActualOK, States
  <1>7. op' = [kind |-> kind, of |-> s, gen |-> running[s], step |-> "withdraw",
               failed |-> FALSE, terminal |-> terminal]
    BY DEF StopOf
  <1>8. op' \in OpType
    BY <1>2, <1>7 DEF OpType
  <1> QED BY <1>2, <1>3, <1>4, <1>5, <1>6, <1>7, <1>8

(* Stopping, starting and blocking systems keeps the types.                 *)
LEMMA PlanStepType ==
    ASSUME Inv, NEW s \in Systems,
           \/ Stop(s) \/ StopNotRetained(s) \/ BlockStart(s)
           \/ StartNotRetained(s) \/ StartExisting(s) \/ Start(s)
    PROVE  TypeOK'
  <1>a. TypeOK
    BY DEF Inv
  <1> USE <1>a, TypeParts, NextTypeParts
  <1>b. Without(s) \in JobType
    BY WithoutType
  <1>c. Terminal(s) \in {"STOPPED", "FAILED", "BLOCKED"}
    BY DEF Terminal
  <1>d. unsettled' \in [Systems -> Gens \cup {None}]
    BY DEF Stop, StopNotRetained, BlockStart, StartNotRetained, StartExisting, Start, RunningOK
  <1>e. BoundsOK' /\ LifecycleOK' /\ BoundOK'
    BY GraphAssumption DEF Stop, StopNotRetained, BlockStart, StartNotRetained, StartExisting, Start,
       BoundsOK, LifecycleOK, BoundOK, bounds
  <1>1. CASE Stop(s)
    BY <1>1, <1>c, <1>d, <1>e, StopOfType DEF Stop, RunningOK
  <1>2. CASE StopNotRetained(s) \/ BlockStart(s)
    <2>1. ActualOK'
      BY <1>2 DEF StopNotRetained, BlockStart, ActualOK, States
    <2> QED BY <1>2, <1>b, <1>d, <1>e, <2>1 DEF StopNotRetained, BlockStart, RunningOK
  <1>3. CASE StartNotRetained(s) \/ StartExisting(s)
    <2>1. CASE StopOf(s, "undo", "FAILED") /\ UNCHANGED job /\ running[s] # None
      BY <1>3, <1>d, <1>e, <2>1, StopOfType DEF StartNotRetained, StartExisting, RunningOK
    <2>2. CASE UNCHANGED <<running, gen, op>> /\ job' = Without(s)
      <3>1. ActualOK'
        BY <1>3 DEF StartNotRetained, StartExisting, StopOf, ActualOK, States
      <3> QED BY <1>3, <1>b, <1>d, <1>e, <2>2, <3>1 DEF StartNotRetained, StartExisting, RunningOK
    <2> QED BY <1>3, <2>1, <2>2 DEF StartNotRetained, StartExisting
  <1>4. CASE Start(s)
    <2>1. PICK g \in Gens :
             /\ gen' = [gen EXCEPT ![g].of = s]
             /\ op' = [kind |-> "start", of |-> s, gen |-> g, step |-> "activating",
                       failed |-> FALSE, terminal |-> "FAILED"]
      BY <1>4 DEF Start
    <2>2. op' \in OpType
      BY <2>1 DEF OpType
    <2>3. gen' \in [Gens -> GenType]
      BY <2>1 DEF GenType
    <2>4. ActualOK'
      BY <1>4 DEF Start, ActualOK, States
    <2> QED BY <1>4, <1>d, <1>e, <2>2, <2>3, <2>4 DEF Start, RunningOK
  <1> QED BY <1>1, <1>2, <1>3, <1>4

(* The steps of the operation in progress keep the types.                   *)
LEMMA OperationType ==
    ASSUME Inv, OpStep \/ CommitNotRecorded
    PROVE  TypeOK'
  <1>a. TypeOK /\ OpOK
    BY DEF Inv
  <1> USE <1>a, TypeParts, NextTypeParts
  <1>0. op.kind # "none" => op.of \in Systems /\ op.gen \in Gens /\ gen[op.gen] \in GenType
    BY DEF OpOK
  <1>b. op.step # "none" => op.kind # "none"
    BY NothingType DEF OpOK
  <1>1. CASE WithdrawalEnds \/ ActivationFails \/ NotAdmitted
    <2>1. op' \in OpType
      BY <1>1 DEF WithdrawalEnds, ActivationFails, NotAdmitted, OpType
    <2> QED BY <1>1, <2>1 DEF WithdrawalEnds, ActivationFails, NotAdmitted, LifecycleOK, ActualOK,
            RunningOK, BoundOK, BoundsOK, bounds
  <1>2. CASE StopEnds
    <2>1. PICK failed \in BOOLEAN :
         LET s == op.of
             g == IF gen[op.gen].leased THEN gen[op.gen] ELSE Retired(gen[op.gen])
         IN /\ gen' = [gen EXCEPT ![op.gen] = g]
            /\ unsettled' = [unsettled EXCEPT ![s] = IF g.fence = "RETIRED" THEN @ ELSE op.gen]
            /\ actual' = [actual EXCEPT ![s] = IF failed THEN "FAILED" ELSE op.terminal]
            /\ job' = [Without(s) EXCEPT
                         !.failed = @ \/ failed,
                         !.closed = IF g.fence = "RETIRED" THEN @ ELSE @ \cup Provides[s]]
      BY <1>2 DEF StopEnds
    <2>2. op.of \in Systems /\ op.gen \in Gens /\ gen[op.gen] \in GenType
      BY <1>0, <1>2 DEF StopEnds
    <2>3. gen' \in [Gens -> GenType]
      BY <2>1, <2>2, Fences
    <2>4. RunningOK'
      BY <1>2, <2>1, <2>2 DEF RunningOK, StopEnds
    <2>5. ActualOK'
      BY <2>1, <2>2 DEF ActualOK, States, OpType
    <2>6. job' \in JobType
      <3>1. Without(op.of) \in JobType /\ Provides[op.of] \subseteq Services
        BY <2>2, WithoutType, GraphAssumption
      <3>2. PICK failure \in BOOLEAN, more \in SUBSET Services :
               job' = [Without(op.of) EXCEPT !.failed = @ \/ failure, !.closed = @ \cup more]
        BY <2>1, <3>1 DEF JobType
      <3> QED BY <3>1, <3>2 DEF JobType
    <2> QED BY <1>2, <2>3, <2>4, <2>5, <2>6, NothingType
            DEF StopEnds, LifecycleOK, BoundOK, BoundsOK, bounds
  <1>3. CASE UndoEnds \/ AbandonEnds
    <2>1. op.of \in Systems /\ op.gen \in Gens /\ gen[op.gen] \in GenType
      BY <1>0, <1>3 DEF UndoEnds, AbandonEnds
    <2>2. gen' \in [Gens -> GenType]
      BY <1>3, <2>1, Fences DEF UndoEnds, AbandonEnds
    <2>3. RunningOK'
      BY <1>3, <2>1 DEF RunningOK, UndoEnds, AbandonEnds
    <2>4. ActualOK'
      BY <1>3, <2>1 DEF ActualOK, States, OpType, UndoEnds, AbandonEnds
    <2>5. job' \in JobType /\ op' \in OpType
      BY <1>3, <2>1, WithoutType, NothingType DEF UndoEnds, AbandonEnds
    <2> QED BY <1>3, <2>2, <2>3, <2>4, <2>5
            DEF UndoEnds, AbandonEnds, LifecycleOK, BoundOK, BoundsOK, bounds
  <1>4. CASE Publish
    <2>1. op.gen \in Gens /\ op' \in OpType
      BY <1>0, <1>4 DEF Publish, OpType
    <2>2. gen' \in [Gens -> GenType]
      <3>1. PICK leased \in BOOLEAN, uses \in SUBSET Gens :
               gen' = [gen EXCEPT ![op.gen].leased = leased, ![op.gen].uses = uses]
        BY <1>4 DEF Publish
      <3>2. [gen[op.gen] EXCEPT !.leased = leased, !.uses = uses] \in GenType
        BY <1>0, <2>1 DEF GenType
      <3>3. gen' = [gen EXCEPT ![op.gen] = [gen[op.gen] EXCEPT !.leased = leased, !.uses = uses]]
        BY <2>1, <3>1
      <3> QED BY <2>1, <3>2, <3>3
    <2> QED BY <1>4, <2>1, <2>2 DEF Publish, LifecycleOK, ActualOK, RunningOK, BoundOK, BoundsOK, bounds
  <1>5. CASE Commit
    <2>1. op.of \in Systems /\ op.gen \in Gens /\ gen[op.gen] \in GenType
      BY <1>0, <1>5 DEF Commit
    <2>2. gen' \in [Gens -> GenType]
      <3>1. [gen[op.gen] EXCEPT !.committed = TRUE] \in GenType
        BY <2>1 DEF GenType
      <3>2. gen' = [gen EXCEPT ![op.gen] = [gen[op.gen] EXCEPT !.committed = TRUE]]
        BY <1>5, <2>1 DEF Commit
      <3> QED BY <2>1, <3>1, <3>2
    <2>3. job' \in JobType /\ op' \in OpType
      BY <1>5, <2>1, WithoutType, NothingType DEF Commit
    <2>4. ActualOK' /\ RunningOK'
      BY <1>5, <2>1 DEF Commit, ActualOK, RunningOK, States
    <2> QED BY <1>5, <2>2, <2>3, <2>4 DEF Commit, LifecycleOK, BoundOK, BoundsOK, bounds
  <1>6. CASE CommitNotRecorded
    <2>1. op.of \in Systems /\ op.gen \in Gens /\ gen[op.gen] \in GenType
      BY <1>0, <1>6 DEF CommitNotRecorded
    <2>2. [gen[op.gen] EXCEPT !.committed = TRUE] \in GenType
      BY <2>1 DEF GenType
    <2>3. gen' \in [Gens -> GenType]
      BY <1>6, <2>1, <2>2, Fences DEF CommitNotRecorded
    <2>4. op' \in OpType
      BY <1>6 DEF CommitNotRecorded, OpType
    <2>5. ActualOK' /\ BoundsOK'
      BY <1>6, <2>1, GraphAssumption DEF CommitNotRecorded, ActualOK, States, BoundsOK
    <2> QED BY <1>6, <2>3, <2>4, <2>5 DEF CommitNotRecorded, LifecycleOK, RunningOK, BoundOK
  <1>7. CASE Abandon
    <2>1. op.gen \in Gens /\ gen[op.gen] \in GenType
      BY <1>0, <1>7 DEF Abandon
    <2>2. gen' \in [Gens -> GenType]
      BY <1>7, <2>1, Fences DEF Abandon
    <2>3. op' \in OpType
      BY <1>7 DEF Abandon, OpType
    <2> QED BY <1>7, <2>2, <2>3 DEF Abandon, LifecycleOK, ActualOK, RunningOK, BoundOK, BoundsOK, bounds
  <1> QED BY <1>1, <1>2, <1>3, <1>4, <1>5, <1>6, <1>7 DEF OpStep

(* Close, calls and background failures keep the types.                     *)
LEMMA EnvironmentType ==
    ASSUME Inv, BeginTerminalClose \/ \E g \in Gens : Call(g) \/ Return(g) \/ BackgroundFails(g)
    PROVE  TypeOK'
  <1>a. TypeOK
    BY DEF Inv
  <1> USE <1>a, TypeParts, NextTypeParts
  <1>1. CASE BeginTerminalClose
    <2>1. [kind |-> "close"] \in Mutations
      BY DEF Mutations
    <2>2. queue' \in Seq(Mutations)
      BY <1>1, <2>1, QueueType DEF BeginTerminalClose
    <2>3. gen' \in [Gens -> GenType]
      BY <1>1, Fences DEF BeginTerminalClose
    <2> QED BY <1>1, <2>2, <2>3
            DEF BeginTerminalClose, LifecycleOK, ActualOK, RunningOK, BoundOK, BoundsOK, bounds
  <1>2. ASSUME NEW g \in Gens, Call(g) \/ Return(g) PROVE TypeOK'
    <2>1. gen' \in [Gens -> GenType]
      <3>1. CASE Call(g)
        BY <3>1 DEF Call, GenType
      <3>2. CASE Return(g)
        BY <3>2, Fences DEF Return
      <3> QED BY <1>2, <3>1, <3>2
    <2> QED BY <1>2, <2>1 DEF Call, Return, LifecycleOK, ActualOK, RunningOK, BoundOK, BoundsOK, bounds
  <1>3. ASSUME NEW g \in Gens, BackgroundFails(g) PROVE TypeOK'
    <2>1. [kind |-> "failure", gen |-> g] \in Mutations
      BY DEF Mutations
    <2>2. queue' \in Seq(Mutations)
      BY <1>3, <2>1, QueueType DEF BackgroundFails
    <2>3. [Begun(gen[g]) EXCEPT !.hurt = TRUE] \in GenType
      <3>1. Begun(gen[g]) \in GenType
        BY Fences
      <3> QED BY <3>1 DEF GenType
    <2>4. gen' \in [Gens -> GenType]
      BY <1>3, <2>3 DEF BackgroundFails
    <2> QED BY <1>3, <2>2, <2>4
            DEF BackgroundFails, LifecycleOK, ActualOK, RunningOK, BoundOK, BoundsOK, bounds
  <1> QED BY <1>1, <1>2, <1>3

------------------------------------------------------------------------------
(* The invariant, step by step.                                             *)

(* A step that leaves generations, operation and lifecycle alone, and may   *)
(* forget an unsettled generation that has retired.                         *)
LEMMA ForgetStep ==
    ASSUME Inv, UNCHANGED <<lifecycle, running, gen, op>>,
           \A s \in Systems : unsettled'[s] = unsettled[s] \/ (~Unresolved(s) /\ unsettled'[s] = None),
           job'.kind = job.kind \/ op = NoOp
    PROVE  (\A g \in Gens : GenOK(g)') /\ (\A s \in Systems : SystemOK(s)') /\ OpOK'
  <1>1. TypeOK /\ RunningOK /\ gen \in [Gens -> GenType]
    BY TypeParts DEF Inv
  <1>2. ASSUME NEW g \in Gens PROVE GenOK(g)'
    <2>1. gen[g].committed => gen[g].of \in Systems
      BY <1>1, NothingType DEF Inv, GenOK, GenType
    <2>2. gen[g].committed /\ unsettled[gen[g].of] = g =>
             unsettled'[gen[g].of] = g \/ gen[g].fence = "RETIRED"
      BY <2>1, GraphAssumption DEF Unresolved
    <2> QED BY <1>1, <2>1, <2>2 DEF Inv, GenOK
  <1>3. ASSUME NEW s \in Systems PROVE SystemOK(s)'
    BY <1>1, <1>3 DEF Inv, SystemOK
  <1>4. OpOK'
    BY <1>1, NothingType DEF Inv, OpOK
  <1> QED BY <1>2, <1>3, <1>4

(* Taking, planning and ending mutations.                                   *)
LEMMA ChainStep ==
    ASSUME Inv,
           \/ BeginReconcile \/ BeginFailure \/ BeginClose \/ ReconcileNotRetained
           \/ Rebind \/ EndReconcile \/ EndFailure \/ DropPlan
           \/ \E d \in Desires : Reconcile(d)
    PROVE  Inv'
  <1>0. TypeOK /\ TypeOK' /\ job \in JobType /\ queue \in Seq(Mutations)
    BY ChainType, TypeParts DEF Inv
  <1>1. UNCHANGED <<lifecycle, running, gen, op>>
    BY DEF BeginReconcile, BeginFailure, BeginClose, ReconcileNotRetained, Rebind, EndReconcile,
       EndFailure, DropPlan, Reconcile
  <1>2. \A s \in Systems : unsettled'[s] = unsettled[s] \/ (~Unresolved(s) /\ unsettled'[s] = None)
    BY DEF BeginReconcile, BeginFailure, BeginClose, ReconcileNotRetained, Rebind, EndReconcile,
       EndFailure, DropPlan, Reconcile
  <1>3. job'.kind = job.kind \/ op = NoOp
    BY DEF Inv, OpOK, BeginReconcile, BeginFailure, BeginClose, ReconcileNotRetained, Rebind,
       EndReconcile, EndFailure, DropPlan, Reconcile, Take, Startable
  <1>4. (\A g \in Gens : GenOK(g)') /\ (\A s \in Systems : SystemOK(s)') /\ OpOK'
    BY <1>1, <1>2, <1>3, ForgetStep
  <1>5. \A k \in 1 .. Len(queue') : queue'[k].kind = "failure" => gen[queue'[k].gen].hurt
    <2>1. ASSUME NEW kind, Take(kind)
          PROVE  \A k \in 1 .. Len(queue') : queue'[k].kind = "failure" => gen[queue'[k].gen].hurt
      BY <1>0, <2>1, TakeType DEF Inv, JobOK
    <2>2. ASSUME NEW d \in Desires, Reconcile(d)
          PROVE  \A k \in 1 .. Len(queue') : queue'[k].kind = "failure" => gen[queue'[k].gen].hurt
      <3>1. [kind |-> "reconcile", desired |-> d] \in Mutations
        BY DEF Mutations
      <3> QED BY <1>0, <2>2, <3>1, QueueType DEF Reconcile, Inv, JobOK
    <2>3. CASE UNCHANGED queue
      BY <2>3 DEF Inv, JobOK
    <2> QED BY <2>1, <2>2, <2>3 DEF BeginReconcile, BeginFailure, BeginClose, ReconcileNotRetained,
            Rebind, EndReconcile, EndFailure, DropPlan
  <1>6. /\ job'.kind = "close" => \A s \in Systems : running[s] # None => s \in job'.rebinds
        /\ job'.kind = "failure" =>
              /\ job'.of \in Systems
              /\ running[job'.of] # None => gen[running[job'.of]].hurt
    <2>1. CASE UNCHANGED job
      BY <2>1 DEF Inv, JobOK
    <2>2. CASE job' = NoJob
      BY <2>2, NothingType
    <2>3. CASE BeginReconcile
      <3>1. CASE job' = Plan(Head(queue).desired)
        BY <1>0, <2>3, <3>1, PlanType, TakeType DEF BeginReconcile
      <3> QED BY <2>1, <2>3, <3>1 DEF BeginReconcile
    <2>4. CASE BeginFailure
      <3> DEFINE g == Head(queue).gen
                 s == gen[g].of
      <3>1. g \in Gens /\ gen[g].hurt
        BY <1>0, <2>4, TakeType DEF BeginFailure, Inv, JobOK
      <3>2. s \in Systems
        BY <1>0, <3>1, NothingType, TypeParts DEF Inv, GenOK, GenType
      <3>3. CASE running[s] = g
        <4>1. job' = [NoJob EXCEPT !.kind = "failure", !.of = s, !.rebinds = Closure(s) \ {s},
                                   !.stops = {s}, !.was = bound]
          BY <2>4, <3>3 DEF BeginFailure
        <4>2. job'.kind = "failure" /\ job'.of = s
          <5> HIDE DEF s
          <5> QED BY <4>1, NothingType DEF JobType
        <4> QED BY <3>1, <3>2, <3>3, <4>2
      <3>4. CASE running[s] # g
        BY <2>1, <2>4, <3>4 DEF BeginFailure
      <3> QED BY <3>3, <3>4
    <2>5. CASE BeginClose
      <3>1. job'.kind = "close" /\ job'.rebinds = RunningSystems
        BY <2>5, NothingType DEF BeginClose, JobType
      <3> QED BY <3>1 DEF RunningSystems
    <2> QED BY <2>1, <2>2, <2>3, <2>4, <2>5
        DEF ReconcileNotRetained, Rebind, EndReconcile, EndFailure, DropPlan, Reconcile
  <1>7. JobOK'
    BY <1>1, <1>5, <1>6 DEF Inv, JobOK
  <1> QED BY <1>0, <1>4, <1>7 DEF Inv

(* A close ends CLOSED only when nothing is left that ever ran.             *)
LEMMA EndCloseStep ==
    ASSUME Inv, EndClose
    PROVE  Inv'
  <1>0. TypeOK /\ TypeOK' /\ RunningOK /\ gen \in [Gens -> GenType] /\ op.kind = "none"
    BY ChainType, TypeParts, NothingType DEF Inv, EndClose
  <1>1. /\ lifecycle' \in {"CLOSED", "FAILED"} /\ job.kind = "close" /\ job.rebinds = {}
        /\ UNCHANGED <<running, unsettled, gen, op, queue>> /\ job'.kind = "none"
        /\ lifecycle' = "CLOSED" => \A s \in Systems : ~Unresolved(s)
    BY NothingType DEF EndClose
  <1>2. \A s \in Systems : running[s] = None
    BY <1>1 DEF Inv, JobOK
  <1>3. ASSUME lifecycle' = "CLOSED", NEW g \in Gens, gen[g].committed PROVE gen[g].fence = "RETIRED"
    <2>1. gen[g].of \in Systems
      BY <1>0, <1>3, NothingType DEF Inv, GenOK, GenType
    <2>2. unsettled[gen[g].of] = g \/ gen[g].fence = "RETIRED"
      BY <1>0, <1>2, <1>3, <2>1, GraphAssumption DEF Inv, GenOK
    <2> QED BY <1>1, <1>3, <2>1, <2>2, GraphAssumption DEF Unresolved
  <1>4. ASSUME NEW g \in Gens PROVE GenOK(g)'
    <2>1. gen[g].leased /\ gen[g].fence = "ACTIVE" => FALSE
      <3>1. gen[g].leased => gen[g].of \in Systems
        BY <1>0, NothingType DEF Inv, GenOK, GenType
      <3> QED BY <1>0, <1>2, <3>1, GraphAssumption DEF Inv, GenOK
    <2> QED BY <1>1, <2>1 DEF Inv, GenOK
  <1>5. ASSUME NEW s \in Systems PROVE SystemOK(s)'
    BY <1>1, <1>5 DEF Inv, SystemOK
  <1>6. OpOK'
    BY <1>0, <1>1 DEF Inv, OpOK
  <1>7. JobOK'
    BY <1>0, <1>1, <1>2, <1>3 DEF Inv, JobOK
  <1> QED BY <1>0, <1>4, <1>5, <1>6, <1>7 DEF Inv

(* Beginning to stop what runs: its generation admits nothing any more.     *)
LEMMA StopOfStep ==
    ASSUME Inv, TypeOK', NEW s \in Systems, running[s] # None, NEW kind \in {"stop", "undo"},
           NEW terminal \in {"STOPPED", "FAILED", "BLOCKED"}, StopOf(s, kind, terminal),
           op = NoOp, job.kind # "none", kind = "undo" => job.kind = "reconcile",
           unsettled' = [unsettled EXCEPT ![s] = None] \/ UNCHANGED unsettled,
           UNCHANGED <<lifecycle, job, queue>>
    PROVE  Inv'
  <1>h. PICK h \in Gens : h = running[s]
    BY StopOfType
  <1>1. /\ h = running[s] /\ running' = [running EXCEPT ![s] = None]
        /\ gen' = [gen EXCEPT ![h] = Withdrawn(gen[h])]
        /\ op'.kind = kind /\ op'.of = s /\ op'.gen = h /\ op'.step = "withdraw"
    BY <1>h, StopOfType
  <1>2. TypeOK /\ RunningOK /\ gen \in [Gens -> GenType]
    BY TypeParts DEF Inv
  <1>3. gen[h].of = s /\ unsettled[s] = None /\ lifecycle # "CLOSED" /\ op.kind = "none"
    BY <1>h, NothingType DEF Inv, SystemOK, JobOK
  <1>4. unsettled' = unsettled
    BY <1>2, <1>3 DEF RunningOK
  <1>5. /\ gen'[h].of = s /\ gen'[h].committed = gen[h].committed /\ gen'[h].hurt = gen[h].hurt
        /\ gen'[h].leased => gen'[h].fence # "ACTIVE"
        /\ (gen[h].fence = "RETIRED" => gen[h].calls = 0) => (gen'[h].fence = "RETIRED" => gen'[h].calls = 0)
        /\ \A g \in Gens \ {h} : gen'[g] = gen[g]
    BY <1>1, <1>2, <1>3, Fences
  <1>6. GenOK(h)'
    BY <1>1, <1>3, <1>5, GraphAssumption DEF Inv, GenOK
  <1>7. ASSUME NEW g \in Gens \ {h} PROVE GenOK(g)'
    <2>1. gen[g].of # None => gen[g].of \in Systems
      BY <1>2 DEF GenType
    <2>2. gen[g].committed \/ gen[g].leased => gen[g].of # None
      BY NothingType DEF Inv, GenOK
    <2>3. gen[g].of \in Systems => (running[gen[g].of] = g => running'[gen[g].of] = g)
      BY <1>1, <1>2 DEF RunningOK
    <2> QED BY <1>3, <1>4, <1>5, <2>1, <2>2, <2>3 DEF Inv, GenOK
  <1>8. ASSUME NEW r \in Systems PROVE SystemOK(r)'
    <2>1. CASE r = s
      BY <1>1, <1>2, <2>1 DEF SystemOK, RunningOK
    <2>2. CASE r # s
      <3>1. running'[r] = running[r]
        BY <1>1, <1>2, <2>2 DEF RunningOK
      <3>2. running[r] # None => running[r] # h
        BY <1>3, <2>2 DEF Inv, SystemOK
      <3>3. running[r] # None => running[r] \in Gens
        BY <1>2 DEF RunningOK
      <3> QED BY <1>4, <1>5, <3>1, <3>2, <3>3 DEF Inv, SystemOK
    <2> QED BY <2>1, <2>2
  <1>9. OpOK'
    <2>1. running'[s] = None
      BY <1>1, <1>2 DEF RunningOK
    <2> QED BY <1>1, <1>3, <1>4, <1>5, <2>1 DEF Inv, OpOK
  <1>10. JobOK'
    <2>1. \A g \in Gens : gen'[g].hurt = gen[g].hurt
      BY <1>5
    <2>2. \A k \in 1 .. Len(queue) : queue[k].kind = "failure" => queue[k].gen \in Gens
      <3>1. queue \in Seq(Mutations)
        BY TypeParts DEF Inv
      <3>2. \A k \in 1 .. Len(queue) : queue[k] \in Mutations
        BY <3>1
      <3> QED BY <3>2 DEF Mutations
    <2>3. \A r \in Systems : running'[r] # None => running'[r] = running[r] /\ running[r] \in Gens
      BY <1>1, <1>2 DEF RunningOK
    <2> QED BY <1>3, <2>1, <2>2, <2>3 DEF Inv, JobOK
  <1> QED BY <1>6, <1>7, <1>8, <1>9, <1>10 DEF Inv

(* Steps of the plan over what does not start anything.                     *)
LEMMA PlanStep ==
    ASSUME Inv, NEW s \in Systems,
           Stop(s) \/ StopNotRetained(s) \/ BlockStart(s) \/ StartNotRetained(s) \/ StartExisting(s)
    PROVE  Inv'
  <1>0. TypeOK /\ TypeOK' /\ RunningOK
    BY PlanStepType, TypeParts DEF Inv
  <1>1. CASE Stop(s)
    <2>1. Terminal(s) \in {"STOPPED", "FAILED", "BLOCKED"}
      BY DEF Terminal
    <2> QED BY <1>0, <1>1, <2>1, StopOfStep DEF Stop
  <1>2. CASE (StartNotRetained(s) \/ StartExisting(s)) /\ StopOf(s, "undo", "FAILED") /\ UNCHANGED job
             /\ running[s] # None
    <2>1. job.kind = "reconcile" /\ op = NoOp /\ UNCHANGED <<lifecycle, queue>>
          /\ unsettled' = [unsettled EXCEPT ![s] = None]
      BY <1>2 DEF StartNotRetained, StartExisting, Startable
    <2> QED BY <1>0, <1>2, <2>1, StopOfStep
  <1>3. CASE UNCHANGED <<running, gen, op>> /\ job' = Without(s) /\ ~Stop(s)
    <2>1. /\ job.kind = "reconcile" /\ op = NoOp /\ UNCHANGED <<lifecycle, queue>>
          /\ \A r \in Systems : unsettled'[r] = unsettled[r] \/ (~Unresolved(r) /\ unsettled'[r] = None)
      BY <1>0, <1>3 DEF StopNotRetained, BlockStart, StartNotRetained, StartExisting, Startable,
         Blocked, RunningOK
    <2>2. job'.kind = "reconcile"
      BY <1>0, <1>3, <2>1, WithoutType
    <2>3. (\A g \in Gens : GenOK(g)') /\ (\A r \in Systems : SystemOK(r)') /\ OpOK'
      BY <1>3, <2>1, <2>2, ForgetStep
    <2>4. JobOK'
      BY <1>3, <2>1, <2>2 DEF Inv, JobOK
    <2> QED BY <1>0, <2>3, <2>4 DEF Inv
  <1> QED BY <1>1, <1>2, <1>3 DEF StopNotRetained, BlockStart, StartNotRetained, StartExisting

(* A replacement starts only when what ran before has retired.              *)
LEMMA StartStep ==
    ASSUME Inv, NEW s \in Systems, Start(s)
    PROVE  Inv'
  <1>0. TypeOK /\ TypeOK' /\ RunningOK /\ gen \in [Gens -> GenType]
    BY PlanStepType, TypeParts DEF Inv
  <1>1. PICK h \in Gens :
             /\ gen[h].of = None
             /\ gen' = [gen EXCEPT ![h].of = s]
             /\ op' = [kind |-> "start", of |-> s, gen |-> h, step |-> "activating",
                       failed |-> FALSE, terminal |-> "FAILED"]
    BY DEF Start
  <1>2. /\ op = NoOp /\ op.kind = "none" /\ job.kind = "reconcile" /\ lifecycle = "ACTIVE"
        /\ running[s] = None /\ ~Unresolved(s)
        /\ unsettled' = [unsettled EXCEPT ![s] = None] /\ UNCHANGED <<lifecycle, running, job, queue>>
    BY NothingType DEF Start, Startable, Blocked
  <1>3. /\ gen[h] = Unborn /\ gen'[h].of = s /\ gen'[h].fence = "ACTIVE" /\ gen'[h].calls = 0
        /\ ~gen'[h].leased /\ ~gen'[h].committed /\ ~gen'[h].hurt
        /\ \A g \in Gens \ {h} : gen'[g] = gen[g]
    <2>1. gen[h] = Unborn /\ Unborn \in GenType
      BY <1>1, NothingType DEF Inv, GenOK
    <2>2. gen'[h] = [gen[h] EXCEPT !.of = s] /\ \A g \in Gens \ {h} : gen'[g] = gen[g]
      BY <1>0, <1>1
    <2> QED BY <2>1, <2>2, NothingType DEF GenType
  <1>4. \A r \in Systems : running[r] # h
    BY <1>1, <1>2, GraphAssumption DEF Inv, SystemOK
  <1>5. GenOK(h)'
    BY <1>3, GraphAssumption DEF GenOK
  <1>6. ASSUME NEW g \in Gens \ {h} PROVE GenOK(g)'
    <2>1. gen[g].committed => gen[g].of \in Systems
      BY <1>0, NothingType DEF Inv, GenOK, GenType
    <2>2. gen[g].committed /\ unsettled[gen[g].of] = g =>
             unsettled'[gen[g].of] = g \/ gen[g].fence = "RETIRED"
      BY <1>0, <1>2, <2>1, GraphAssumption DEF Unresolved, RunningOK
    <2> QED BY <1>2, <1>3, <2>1, <2>2 DEF Inv, GenOK
  <1>7. ASSUME NEW r \in Systems PROVE SystemOK(r)'
    <2>1. running[r] # None => running[r] \in Gens \ {h}
      BY <1>0, <1>4 DEF RunningOK
    <2>2. unsettled[r] = None => unsettled'[r] = None
      BY <1>0, <1>2 DEF RunningOK
    <2> QED BY <1>2, <1>3, <2>1, <2>2 DEF Inv, SystemOK
  <1>8. OpOK'
    <2>1. unsettled'[s] = None
      BY <1>0, <1>2 DEF RunningOK
    <2> QED BY <1>1, <1>2, <1>3, <2>1, NothingType DEF OpOK
  <1>9. JobOK'
    <2>1. \A g \in Gens : gen[g].hurt => gen'[g].hurt
      BY <1>3, NothingType
    <2>2. \A k \in 1 .. Len(queue) : queue[k].kind = "failure" => queue[k].gen \in Gens
      <3>1. queue \in Seq(Mutations)
        BY TypeParts DEF Inv
      <3>2. \A k \in 1 .. Len(queue) : queue[k] \in Mutations
        BY <3>1
      <3> QED BY <3>2 DEF Mutations
    <2> QED BY <1>2, <2>1, <2>2 DEF Inv, JobOK
  <1> QED BY <1>0, <1>5, <1>6, <1>7, <1>8, <1>9 DEF Inv

(* A step of the operation in progress leaves other generations and systems *)
(* as they were, and the failures in the queue genuine.                     *)
LEMMA OthersStep ==
    ASSUME Inv, TypeOK', op.kind # "none", NEW h \in Gens, h = op.gen, NEW r \in Systems, r = op.of,
           \A g \in Gens \ {h} : gen'[g] = gen[g],
           \A s \in Systems \ {r} : running'[s] = running[s] /\ unsettled'[s] = unsettled[s],
           gen'[h].hurt = gen[h].hurt, running'[r] \in {None, h},
           UNCHANGED <<lifecycle, queue>>,
           job'.kind = job.kind, job'.of = job.of, job'.kind = "close" => UNCHANGED running,
           job.rebinds \ {r} \subseteq job'.rebinds,
           job'.kind = "failure" => UNCHANGED running
    PROVE  /\ \A g \in Gens \ {h} : GenOK(g)'
           /\ \A s \in Systems \ {r} : SystemOK(s)'
           /\ JobOK'
  <1>1. TypeOK /\ RunningOK /\ gen \in [Gens -> GenType] /\ job \in JobType
    BY TypeParts DEF Inv
  <1>2. /\ gen[h].of = r /\ running[r] = None /\ unsettled[r] = None /\ job.kind # "none"
        /\ lifecycle # "CLOSED"
    BY DEF Inv, OpOK, JobOK
  <1>3. ASSUME NEW g \in Gens \ {h} PROVE GenOK(g)'
    <2>1. gen[g].committed \/ gen[g].leased => gen[g].of \in Systems
      BY <1>1, NothingType DEF Inv, GenOK, GenType
    <2>2. gen[g].of \in Systems /\ running[gen[g].of] = g => running'[gen[g].of] = g
      BY <1>2, GraphAssumption
    <2>3. gen[g].of \in Systems /\ unsettled[gen[g].of] = g => unsettled'[gen[g].of] = g
      BY <1>2, GraphAssumption
    <2>4. gen[g].leased /\ gen[g].fence = "ACTIVE" => lifecycle = "ACTIVE" /\ running'[gen[g].of] = g
      BY <2>1, <2>2 DEF Inv, GenOK
    <2>5. gen[g].committed =>
             running'[gen[g].of] = g \/ unsettled'[gen[g].of] = g \/ gen[g].fence = "RETIRED"
      BY <2>1, <2>2, <2>3 DEF Inv, GenOK
    <2>6. (gen[g].of = None => gen[g] = Unborn) /\ (gen[g].fence = "RETIRED" => gen[g].calls = 0)
      BY DEF Inv, GenOK
    <2> QED BY <2>4, <2>5, <2>6 DEF GenOK
  <1>4. ASSUME NEW s \in Systems \ {r} PROVE SystemOK(s)'
    <2>1. running[s] # None => running[s] \in Gens \ {h}
      BY <1>1, <1>2 DEF Inv, SystemOK, RunningOK
    <2> QED BY <1>4, <2>1 DEF Inv, SystemOK
  <1>5. \A g \in Gens : gen'[g].hurt = gen[g].hurt
    OBVIOUS
  <1>6. \A k \in 1 .. Len(queue) : queue[k].kind = "failure" => queue[k].gen \in Gens
    <2>1. queue \in Seq(Mutations)
      BY TypeParts DEF Inv
    <2>2. \A k \in 1 .. Len(queue) : queue[k] \in Mutations
      BY <2>1
    <2> QED BY <2>2 DEF Mutations
  <1>7. job'.kind = "close" => \A s \in Systems : running'[s] # None => s \in job'.rebinds
    BY <1>2 DEF Inv, JobOK
  <1>8. job'.kind = "failure" =>
          job'.of \in Systems /\ (running'[job'.of] # None => gen'[running'[job'.of]].hurt)
    BY <1>1, <1>5 DEF Inv, JobOK, RunningOK
  <1>9. JobOK'
    BY <1>2, <1>5, <1>6, <1>7, <1>8 DEF Inv, JobOK
  <1> QED BY <1>3, <1>4, <1>9

(* The stages of an operation that change no generation.                    *)
LEMMA StageStep ==
    ASSUME Inv, WithdrawalEnds \/ ActivationFails \/ NotAdmitted
    PROVE  Inv'
  <1>0. TypeOK' /\ TypeOK /\ op \in OpType
    BY OperationType, TypeParts DEF Inv, OpStep
  <1>1. /\ op.step \in {"withdraw", "activating", "published"} /\ op.kind # "none"
        /\ op'.kind = op.kind /\ op'.of = op.of /\ op'.gen = op.gen
        /\ op'.step = IF op.step = "withdraw" THEN "dispose" ELSE "failed"
        /\ UNCHANGED <<lifecycle, running, unsettled, gen, job, queue>>
    BY <1>0, NothingType DEF WithdrawalEnds, ActivationFails, NotAdmitted, OpType, Inv, OpOK
  <1>2. ASSUME NEW g \in Gens PROVE GenOK(g)'
    BY <1>1, <1>2 DEF Inv, GenOK
  <1>3. ASSUME NEW s \in Systems PROVE SystemOK(s)'
    BY <1>1, <1>3 DEF Inv, SystemOK
  <1>4. OpOK'
    <2>1. op.kind = "start" => op'.step = "failed"
      BY <1>1 DEF Inv, OpOK
    <2>2. op.kind # "start" => op'.step = "dispose"
      BY <1>0, <1>1 DEF Inv, OpOK, OpType
    <2> QED BY <1>0, <1>1, <2>1, <2>2 DEF Inv, OpOK, OpType
  <1>5. JobOK'
    BY <1>1 DEF Inv, JobOK
  <1> QED BY <1>0, <1>2, <1>3, <1>4, <1>5 DEF Inv

(* A stopped generation is kept as unsettled until it retires.              *)
LEMMA DisposeStep ==
    ASSUME Inv, StopEnds \/ UndoEnds \/ AbandonEnds
    PROVE  Inv'
  <1>0. TypeOK' /\ TypeOK /\ RunningOK /\ gen \in [Gens -> GenType] /\ job \in JobType
    BY OperationType, TypeParts DEF Inv, OpStep
  <1>1. op.kind \in {"stop", "undo", "abandon"} /\ op' = NoOp
        /\ UNCHANGED <<lifecycle, running, queue>>
    BY DEF StopEnds, UndoEnds, AbandonEnds
  <1>2. PICK h \in Gens, r \in Systems : h = op.gen /\ r = op.of
    BY <1>1 DEF Inv, OpOK
  <1>3. gen[h].of = r /\ running[r] = None /\ unsettled[r] = None /\ lifecycle # "CLOSED"
    BY <1>1, <1>2 DEF Inv, OpOK, JobOK
  <1> DEFINE x == IF gen[h].leased THEN gen[h] ELSE Retired(gen[h])
  <1>4. gen' = [gen EXCEPT ![h] = x]
    BY <1>0, <1>2 DEF StopEnds, UndoEnds, AbandonEnds
  <1>5. /\ x.of = r /\ x.committed = gen[h].committed /\ x.hurt = gen[h].hurt
        /\ (gen[h].fence = "RETIRED" => gen[h].calls = 0) => (x.fence = "RETIRED" => x.calls = 0)
        /\ gen'[h] = x /\ \A g \in Gens \ {h} : gen'[g] = gen[g]
        /\ x.leased /\ x.fence = "ACTIVE" => gen[h].leased /\ gen[h].fence = "ACTIVE"
    BY <1>0, <1>3, <1>4, Fences
  <1>6. /\ \A s \in Systems \ {r} : unsettled'[s] = unsettled[s]
        /\ op.kind \in {"stop", "undo"} => unsettled'[r] = h \/ x.fence = "RETIRED"
    <2>1. CASE op.kind = "abandon"
      BY <2>1 DEF StopEnds, UndoEnds, AbandonEnds
    <2>2. CASE op.kind \in {"stop", "undo"}
      <3>1. unsettled' = [unsettled EXCEPT ![r] = IF x.fence = "RETIRED" THEN @ ELSE h]
        BY <1>0, <1>2, <2>2 DEF StopEnds, UndoEnds, AbandonEnds
      <3> QED BY <1>0, <3>1 DEF RunningOK
    <2> QED BY <1>1, <2>1, <2>2
  <1>7. job'.kind = job.kind /\ job'.of = job.of /\ job'.rebinds = job.rebinds \ {r}
    <2>1. /\ Without(r) \in JobType /\ Without(r).kind = job.kind /\ Without(r).of = job.of
          /\ Without(r).rebinds = job.rebinds \ {r}
      BY <1>0, WithoutType
    <2>2. CASE job' = Without(r)
      BY <2>1, <2>2
    <2>3. CASE StopEnds
      <3>1. PICK failed \in BOOLEAN :
               job' = [Without(r) EXCEPT !.failed = @ \/ failed,
                                         !.closed = IF x.fence = "RETIRED" THEN @ ELSE @ \cup Provides[r]]
        BY <1>2, <2>3 DEF StopEnds
      <3> HIDE DEF x
      <3> QED BY <2>1, <3>1 DEF JobType
    <2> QED BY <1>2, <2>2, <2>3 DEF UndoEnds, AbandonEnds
  <1>8. /\ \A g \in Gens \ {h} : GenOK(g)'
        /\ \A s \in Systems \ {r} : SystemOK(s)'
        /\ JobOK'
    <2> HIDE DEF x
    <2> QED BY <1>0, <1>1, <1>2, <1>3, <1>5, <1>6, <1>7, OthersStep
  <1>9. GenOK(h)'
    <2>1. ~(x.leased /\ x.fence = "ACTIVE")
      BY <1>1, <1>2, <1>3, <1>5, GraphAssumption DEF Inv, GenOK
    <2>2. op.kind = "abandon" => ~x.committed
      BY <1>2, <1>5 DEF Inv, OpOK
    <2>3. x.fence = "RETIRED" => x.calls = 0
      BY <1>5 DEF Inv, GenOK
    <2>4. x.committed => unsettled'[r] = h \/ x.fence = "RETIRED"
      BY <1>1, <1>6, <2>2
    <2>5. r # None
      BY GraphAssumption
    <2> HIDE DEF x
    <2> QED BY <1>5, <2>1, <2>3, <2>4, <2>5 DEF GenOK
  <1>10. SystemOK(r)'
    BY <1>1, <1>3 DEF SystemOK
  <1>11. OpOK'
    BY <1>1, NothingType DEF OpOK
  <1> QED BY <1>0, <1>8, <1>9, <1>10, <1>11 DEF Inv

(* Publishing, committing and giving up an activation.                      *)
LEMMA ActivationStep ==
    ASSUME Inv, Publish \/ Commit \/ CommitNotRecorded \/ Abandon
    PROVE  Inv'
  <1>0. /\ TypeOK' /\ TypeOK /\ RunningOK /\ gen \in [Gens -> GenType] /\ job \in JobType
        /\ op \in OpType
    BY OperationType, TypeParts DEF Inv, OpStep
  <1>1. op.kind = "start" /\ op.step \in {"activating", "published", "failed"}
        /\ job.kind = "reconcile" /\ UNCHANGED <<lifecycle, unsettled, queue>>
    BY DEF Publish, Commit, CommitNotRecorded, Abandon, Inv, OpOK
  <1>2. PICK h \in Gens, r \in Systems : h = op.gen /\ r = op.of
    BY <1>1 DEF Inv, OpOK
  <1>3. /\ gen[h].of = r /\ running[r] = None /\ unsettled[r] = None /\ lifecycle # "CLOSED"
        /\ ~gen[h].committed /\ (lifecycle # "ACTIVE" => gen[h].fence # "ACTIVE")
        /\ (gen[h].fence = "RETIRED" => gen[h].calls = 0) /\ r # None /\ h # None
        /\ gen[h] \in GenType
    BY <1>0, <1>1, <1>2, GraphAssumption DEF Inv, OpOK, JobOK, GenOK
  <1>4. ASSUME NEW x \in GenType, gen' = [gen EXCEPT ![h] = x],
               x.of = r, x.hurt = gen[h].hurt, x.fence = "RETIRED" => x.calls = 0,
               x.leased /\ x.fence = "ACTIVE" =>
                  lifecycle = "ACTIVE" /\ (running'[r] = h \/ (op'.kind = "start" /\ op'.gen = h)),
               x.committed => running'[r] = h \/ (op'.kind = "undo" /\ op'.gen = h),
               UNCHANGED running \/ running' = [running EXCEPT ![r] = h],
               UNCHANGED job \/ job' = Without(r)
        PROVE  /\ \A g \in Gens : GenOK(g)'
               /\ \A s \in Systems : SystemOK(s)'
               /\ JobOK'
    <2>1. gen'[h] = x /\ \A g \in Gens \ {h} : gen'[g] = gen[g]
      BY <1>0, <1>4
    <2>2. /\ \A s \in Systems \ {r} : running'[s] = running[s] /\ unsettled'[s] = unsettled[s]
          /\ running'[r] \in {None, h}
      BY <1>0, <1>1, <1>3, <1>4 DEF RunningOK
    <2>3. job'.kind = job.kind /\ job'.of = job.of /\ job.rebinds \ {r} \subseteq job'.rebinds
      BY <1>0, <1>4, WithoutType
    <2>4. /\ op.kind # "none" /\ UNCHANGED <<lifecycle, queue>>
          /\ gen'[h].hurt = gen[h].hurt /\ job'.kind = "reconcile"
      BY <1>1, <1>4, <2>1, <2>3
    <2>5. /\ \A g \in Gens \ {h} : GenOK(g)'
          /\ \A s \in Systems \ {r} : SystemOK(s)'
          /\ JobOK'
      BY <1>0, <1>2, <2>1, <2>2, <2>3, <2>4, OthersStep
    <2>6. GenOK(h)'
      BY <1>1, <1>3, <1>4, <2>1 DEF GenOK
    <2>7. SystemOK(r)'
      BY <1>1, <1>3, <1>4, <2>1, <2>2 DEF SystemOK
    <2> QED BY <2>5, <2>6, <2>7
  <1>5. CASE Publish
    <2>1. PICK leased \in BOOLEAN, uses \in SUBSET Gens :
             /\ gen' = [gen EXCEPT ![op.gen].leased = leased, ![op.gen].uses = uses]
             /\ leased => gen[op.gen].fence = "ACTIVE"
      <3>1. \E leased \in BOOLEAN : leased = (Provides[op.of] # {})
        BY Zenon
      <3> DEFINE used == {g \in Gens : \E v \in Requires[op.of] :
                            gen[g].of = bound[v] /\ gen[g].leased /\ gen[g].fence = "ACTIVE"}
      <3>2. /\ gen' = [gen EXCEPT ![op.gen].leased = Provides[op.of] # {}, ![op.gen].uses = used]
            /\ Provides[op.of] # {} => gen[op.gen].fence = "ACTIVE"
        BY <1>5, Zenon DEF Publish
      <3>3. used \in SUBSET Gens
        BY Zenon
      <3> HIDE DEF used
      <3> QED BY <3>1, <3>2, <3>3
    <2> DEFINE x == [gen[h] EXCEPT !.leased = leased, !.uses = uses]
    <2>2. gen' = [gen EXCEPT ![h] = x]
      BY <1>0, <1>2, <2>1
    <2>3. /\ x \in GenType /\ x.of = r /\ x.hurt = gen[h].hurt /\ x.leased = leased
          /\ x.fence = gen[h].fence /\ x.calls = gen[h].calls /\ x.committed = gen[h].committed
      BY <1>3 DEF GenType
    <2>4. op'.kind = "start" /\ op'.of = r /\ op'.gen = h /\ op'.step = "published"
          /\ UNCHANGED <<running, job>>
      BY <1>0, <1>1, <1>2, <1>5 DEF Publish, OpType
    <2> HIDE DEF x
    <2>5. /\ \A g \in Gens : GenOK(g)'
          /\ \A s \in Systems : SystemOK(s)'
          /\ JobOK'
      BY <1>1, <1>2, <1>3, <1>4, <2>1, <2>2, <2>3, <2>4
    <2>6. OpOK'
      BY <1>0, <1>1, <1>3, <2>2, <2>3, <2>4 DEF OpOK
    <2> QED BY <1>0, <2>5, <2>6 DEF Inv
  <1>6. CASE Commit
    <2> DEFINE x == [gen[h] EXCEPT !.committed = TRUE]
    <2>1. gen' = [gen EXCEPT ![h] = x]
      BY <1>0, <1>2, <1>6 DEF Commit
    <2>2. /\ x \in GenType /\ x.of = r /\ x.hurt = gen[h].hurt /\ x.leased = gen[h].leased
          /\ x.fence = gen[h].fence /\ x.calls = gen[h].calls /\ x.committed
      BY <1>3 DEF GenType
    <2>3. /\ op' = NoOp /\ job' = Without(r) /\ lifecycle = "ACTIVE"
          /\ running' = [running EXCEPT ![r] = h] /\ running'[r] = h
      BY <1>0, <1>2, <1>6 DEF Commit, RunningOK
    <2> HIDE DEF x
    <2>4. /\ \A g \in Gens : GenOK(g)'
          /\ \A s \in Systems : SystemOK(s)'
          /\ JobOK'
      BY <1>3, <1>4, <2>1, <2>2, <2>3
    <2>5. OpOK'
      BY <2>3, NothingType DEF OpOK
    <2> QED BY <1>0, <2>4, <2>5 DEF Inv
  <1>7. CASE CommitNotRecorded
    <2> DEFINE y == [gen[h] EXCEPT !.committed = TRUE]
               x == Withdrawn(y)
    <2>1. gen' = [gen EXCEPT ![h] = x]
      BY <1>0, <1>2, <1>7 DEF CommitNotRecorded
    <2>2. /\ y \in GenType /\ y.of = r /\ y.hurt = gen[h].hurt
          /\ y.fence = gen[h].fence /\ y.calls = gen[h].calls /\ y.committed
      BY <1>3 DEF GenType
    <2>3. /\ x \in GenType /\ x.of = r /\ x.hurt = gen[h].hurt
          /\ (x.fence = "RETIRED" => x.calls = 0) /\ ~(x.leased /\ x.fence = "ACTIVE")
      <3> HIDE DEF y
      <3> QED BY <1>3, <2>2, Fences
    <2>4. op'.kind = "undo" /\ op'.of = r /\ op'.gen = h /\ op'.step = "withdraw"
          /\ UNCHANGED <<running, job>>
      BY <1>0, <1>1, <1>2, <1>7 DEF CommitNotRecorded, OpType
    <2> HIDE DEF x
    <2>5. /\ \A g \in Gens : GenOK(g)'
          /\ \A s \in Systems : SystemOK(s)'
          /\ JobOK'
      BY <1>3, <1>4, <2>1, <2>3, <2>4
    <2>6. OpOK'
      BY <1>0, <1>1, <1>3, <2>1, <2>3, <2>4 DEF OpOK
    <2> QED BY <1>0, <2>5, <2>6 DEF Inv
  <1>8. CASE Abandon
    <2> DEFINE x == Withdrawn(gen[h])
    <2>1. gen' = [gen EXCEPT ![h] = x]
      BY <1>0, <1>2, <1>8 DEF Abandon
    <2>2. /\ x \in GenType /\ x.of = r /\ x.hurt = gen[h].hurt /\ ~x.committed
          /\ (x.fence = "RETIRED" => x.calls = 0) /\ ~(x.leased /\ x.fence = "ACTIVE")
      BY <1>3, Fences
    <2>3. op'.kind = "abandon" /\ op'.of = r /\ op'.gen = h /\ op'.step = "withdraw"
          /\ UNCHANGED <<running, job>>
      BY <1>0, <1>1, <1>2, <1>8 DEF Abandon, OpType
    <2> HIDE DEF x
    <2>4. /\ \A g \in Gens : GenOK(g)'
          /\ \A s \in Systems : SystemOK(s)'
          /\ JobOK'
      BY <1>3, <1>4, <2>1, <2>2, <2>3
    <2>5. OpOK'
      BY <1>0, <1>1, <1>3, <2>1, <2>2, <2>3 DEF OpOK
    <2> QED BY <1>0, <2>4, <2>5 DEF Inv
  <1> QED BY <1>5, <1>6, <1>7, <1>8

(* A step that may end admission and drain calls, but replaces nothing.     *)
LEMMA FenceStep ==
    ASSUME Inv, TypeOK', UNCHANGED <<running, unsettled, job, op>>,
           \A g \in Gens :
              /\ gen'[g].of = gen[g].of /\ gen'[g].committed = gen[g].committed
              /\ gen'[g].leased = gen[g].leased /\ (gen[g].hurt => gen'[g].hurt)
              /\ gen[g].of = None => gen'[g] = gen[g]
              /\ gen[g].fence = "RETIRED" => gen'[g].fence = "RETIRED"
              /\ gen'[g].fence = "RETIRED" => gen'[g].calls = 0
              /\ gen'[g].fence = "ACTIVE" => gen[g].fence = "ACTIVE",
           \/ lifecycle' = lifecycle
           \/ /\ lifecycle' = "CLOSING"
              /\ \A g \in Gens : (\E s \in Systems : running[s] = g) \/ (op.kind = "start" /\ op.gen = g)
                                 => gen'[g].fence # "ACTIVE",
           \A k \in 1 .. Len(queue') : queue'[k].kind = "failure" => gen'[queue'[k].gen].hurt
    PROVE  Inv'
  <1>1. TypeOK /\ RunningOK /\ gen \in [Gens -> GenType] /\ op \in OpType
    BY TypeParts DEF Inv
  <1>2. ASSUME NEW g \in Gens PROVE GenOK(g)'
    <2>1. gen'[g].of = None => gen'[g] = Unborn
      BY DEF Inv, GenOK
    <2>2. gen'[g].leased /\ gen'[g].fence = "ACTIVE" =>
             lifecycle' = "ACTIVE" /\ (running[gen[g].of] = g \/ (op.kind = "start" /\ op.gen = g))
      <3>1. gen[g].leased => gen[g].of \in Systems
        BY <1>1, NothingType DEF Inv, GenOK, GenType
      <3> QED BY <3>1 DEF Inv, GenOK
    <2>3. gen'[g].committed =>
             \/ running[gen[g].of] = g
             \/ op.kind \in {"stop", "undo"} /\ op.gen = g
             \/ unsettled[gen[g].of] = g
             \/ gen'[g].fence = "RETIRED"
      BY DEF Inv, GenOK
    <2> QED BY <2>1, <2>2, <2>3 DEF GenOK
  <1>3. ASSUME NEW s \in Systems PROVE SystemOK(s)'
    BY <1>1 DEF Inv, SystemOK, RunningOK
  <1>4. OpOK'
    <2>1. op.kind # "none" => op.gen \in Gens
      BY DEF Inv, OpOK
    <2>2. op.kind = "start" /\ lifecycle' # "ACTIVE" => gen'[op.gen].fence # "ACTIVE"
      BY <2>1 DEF Inv, OpOK
    <2> QED BY <1>1, <2>1, <2>2 DEF Inv, OpOK, OpType
  <1>5. JobOK'
    <2>1. job.kind = "failure" =>
             job.of \in Systems /\ (running[job.of] # None => gen'[running[job.of]].hurt)
      BY <1>1 DEF Inv, JobOK, RunningOK
    <2>2. lifecycle' = "CLOSED" =>
             /\ op.kind = "none" /\ \A s \in Systems : running[s] = None
             /\ \A g \in Gens : gen'[g].committed => gen'[g].fence = "RETIRED"
      BY DEF Inv, JobOK
    <2> QED BY <2>1, <2>2 DEF Inv, JobOK
  <1> QED BY <1>2, <1>3, <1>4, <1>5 DEF Inv

(* What comes between the steps of a mutation.                              *)
LEMMA EnvironmentStep ==
    ASSUME Inv, BeginTerminalClose \/ \E g \in Gens : Call(g) \/ Return(g) \/ BackgroundFails(g)
    PROVE  Inv'
  <1>0. /\ TypeOK' /\ TypeOK /\ RunningOK /\ gen \in [Gens -> GenType] /\ queue \in Seq(Mutations)
    BY EnvironmentType, TypeParts DEF Inv
  <1>1. \A k \in 1 .. Len(queue) : queue[k].kind = "failure" => queue[k].gen \in Gens /\ gen[queue[k].gen].hurt
    <2>1. \A k \in 1 .. Len(queue) : queue[k] \in Mutations
      BY <1>0
    <2> QED BY <2>1 DEF Mutations, Inv, JobOK
  <1>2. \A g \in Gens : gen[g].fence = "RETIRED" => gen[g].calls = 0
    BY DEF Inv, GenOK
  <1>3. \A g \in Gens : (\E s \in Systems : running[s] = g) \/ (op.kind # "none" /\ op.gen = g)
                        => gen[g].of \in Systems
    BY GraphAssumption DEF Inv, SystemOK, OpOK
  <1>4. CASE BeginTerminalClose
    <2>1. /\ UNCHANGED <<running, unsettled, job, op>> /\ lifecycle' = "CLOSING"
          /\ queue' = Append(queue, [kind |-> "close"]) /\ [kind |-> "close"] \in Mutations
      BY <1>4 DEF BeginTerminalClose, Mutations
    <2>2. ASSUME NEW g \in Gens
          PROVE  gen'[g] = IF (\E s \in Systems : running[s] = g) \/ (op.kind = "start" /\ op.gen = g)
                           THEN Begun(gen[g]) ELSE gen[g]
      BY <1>4 DEF BeginTerminalClose
    <2>3. ASSUME NEW g \in Gens
          PROVE  /\ gen'[g].of = gen[g].of /\ gen'[g].committed = gen[g].committed
                 /\ gen'[g].leased = gen[g].leased /\ gen'[g].hurt = gen[g].hurt
                 /\ gen[g].of = None => gen'[g] = gen[g]
                 /\ gen[g].fence = "RETIRED" => gen'[g].fence = "RETIRED"
                 /\ gen'[g].fence = "RETIRED" => gen'[g].calls = 0
                 /\ gen'[g].fence = "ACTIVE" => gen[g].fence = "ACTIVE"
                 /\ (\E s \in Systems : running[s] = g) \/ (op.kind = "start" /\ op.gen = g)
                        => gen'[g].fence # "ACTIVE"
      <3>1. CASE (\E s \in Systems : running[s] = g) \/ (op.kind = "start" /\ op.gen = g)
        <4>1. gen'[g] = Begun(gen[g]) /\ gen[g] \in GenType /\ gen[g].of # None
          BY <1>0, <1>3, <2>2, <3>1, GraphAssumption
        <4> QED BY <1>2, <4>1, Fences
      <3>2. CASE ~((\E s \in Systems : running[s] = g) \/ (op.kind = "start" /\ op.gen = g))
        BY <1>2, <2>2, <3>2
      <3> QED BY <3>1, <3>2
    <2>4. \A k \in 1 .. Len(queue') : queue'[k].kind = "failure" => gen'[queue'[k].gen].hurt
      BY <1>0, <1>1, <2>1, <2>3, QueueType
    <2> QED BY <1>0, <2>1, <2>3, <2>4, FenceStep
  <1>5. ASSUME NEW h \in Gens, Call(h) \/ Return(h) \/ BackgroundFails(h)
        PROVE  Inv'
    <2>1. UNCHANGED <<lifecycle, running, unsettled, job, op>>
      BY <1>5 DEF Call, Return, BackgroundFails
    <2>2. PICK x \in GenType :
             /\ gen' = [gen EXCEPT ![h] = x]
             /\ x.of = gen[h].of /\ x.committed = gen[h].committed /\ x.leased = gen[h].leased
             /\ (gen[h].hurt => x.hurt) /\ gen[h].of # None
             /\ gen[h].fence = "RETIRED" => x.fence = "RETIRED"
             /\ x.fence = "RETIRED" => x.calls = 0
             /\ x.fence = "ACTIVE" => gen[h].fence = "ACTIVE"
      <3>0. gen[h] \in GenType
        BY <1>0
      <3>1. CASE Call(h)
        <4> DEFINE x == [gen[h] EXCEPT !.calls = 1]
        <4>1. gen' = [gen EXCEPT ![h] = x] /\ gen[h].leased /\ gen[h].fence = "ACTIVE"
          BY <1>0, <3>1 DEF Call
        <4>2. gen[h].of # None
          BY <4>1, NothingType DEF Inv, GenOK
        <4>3. /\ x \in GenType /\ x.of = gen[h].of /\ x.committed = gen[h].committed
              /\ x.leased = gen[h].leased /\ x.hurt = gen[h].hurt /\ x.fence = gen[h].fence
          BY <3>0 DEF GenType
        <4> HIDE DEF x
        <4> QED BY <4>1, <4>2, <4>3
      <3>2. CASE Return(h)
        <4> DEFINE x == Settled(gen[h])
        <4>1. gen' = [gen EXCEPT ![h] = x] /\ gen[h].calls = 1
          BY <1>0, <3>2 DEF Return
        <4>2. gen[h].of # None
          BY <4>1, NothingType DEF Inv, GenOK
        <4>3. /\ x \in GenType /\ x.of = gen[h].of /\ x.committed = gen[h].committed
              /\ x.leased = gen[h].leased /\ x.hurt = gen[h].hurt /\ x.calls = 0
              /\ x.fence = "ACTIVE" => gen[h].fence = "ACTIVE"
              /\ gen[h].fence # "RETIRED"
          BY <1>2, <3>0, <4>1, Fences
        <4> HIDE DEF x
        <4> QED BY <4>1, <4>2, <4>3
      <3>3. CASE BackgroundFails(h)
        <4> DEFINE y == Begun(gen[h])
                   x == [y EXCEPT !.hurt = TRUE]
        <4>1. gen' = [gen EXCEPT ![h] = x]
          BY <1>0, <3>3 DEF BackgroundFails
        <4>2. gen[h].of # None
          BY <1>3, <3>3, GraphAssumption DEF BackgroundFails
        <4>3. /\ y \in GenType /\ y.of = gen[h].of /\ y.committed = gen[h].committed
              /\ y.leased = gen[h].leased /\ y.fence # "ACTIVE"
              /\ (y.fence = "RETIRED" => y.calls = 0)
              /\ gen[h].fence = "RETIRED" => y.fence = "RETIRED"
          BY <1>2, <3>0, Fences
        <4>4. /\ x \in GenType /\ x.of = y.of /\ x.committed = y.committed
              /\ x.leased = y.leased /\ x.fence = y.fence /\ x.calls = y.calls /\ (gen[h].hurt => x.hurt)
          <5> HIDE DEF y
          <5> QED BY <4>3 DEF GenType
        <4> HIDE DEF x, y
        <4> QED BY <4>1, <4>2, <4>3, <4>4
      <3> QED BY <1>5, <3>1, <3>2, <3>3
    <2>3. \A g \in Gens :
             /\ gen'[g].of = gen[g].of /\ gen'[g].committed = gen[g].committed
             /\ gen'[g].leased = gen[g].leased /\ (gen[g].hurt => gen'[g].hurt)
             /\ gen[g].of = None => gen'[g] = gen[g]
             /\ gen[g].fence = "RETIRED" => gen'[g].fence = "RETIRED"
             /\ gen'[g].fence = "RETIRED" => gen'[g].calls = 0
             /\ gen'[g].fence = "ACTIVE" => gen[g].fence = "ACTIVE"
      BY <1>0, <1>2, <2>2
    <2>4. \A k \in 1 .. Len(queue') : queue'[k].kind = "failure" => gen'[queue'[k].gen].hurt
      <3>1. CASE UNCHANGED queue
        BY <1>1, <2>3, <3>1
      <3>2. CASE BackgroundFails(h) /\ queue' = Append(queue, [kind |-> "failure", gen |-> h])
        <4>1. [kind |-> "failure", gen |-> h] \in Mutations
          BY DEF Mutations
        <4>2. gen'[h].hurt
          <5>1. Begun(gen[h]) \in GenType
            BY <1>0, Fences
          <5> QED BY <1>0, <3>2, <5>1 DEF BackgroundFails, GenType
        <4> QED BY <1>0, <1>1, <2>3, <3>2, <4>1, <4>2, QueueType
      <3> QED BY <1>5, <3>1, <3>2 DEF Call, Return, BackgroundFails
    <2> QED BY <1>0, <2>1, <2>3, <2>4, FenceStep
  <1> QED BY <1>4, <1>5

------------------------------------------------------------------------------
(* The theorems.                                                            *)

(* Nothing has been activated at first.                                     *)
LEMMA InitInv == Init => Inv
  <1> SUFFICES ASSUME Init PROVE Inv
    OBVIOUS
  <1>1. TypeOK
    BY InitType
  <1>2. \A g \in Gens : GenOK(g)
    <2> HIDE DEF NoJob, NoOp, Unborn
    <2> QED BY NothingType DEF Init, GenOK
  <1>3. \A s \in Systems : SystemOK(s)
    BY DEF Init, SystemOK
  <1>4. OpOK /\ JobOK
    <2>1. op.kind = "none" /\ op = NoOp /\ job.kind = "none" /\ queue = <<>> /\ lifecycle = "ACTIVE"
      BY NothingType DEF Init
    <2> QED BY <2>1 DEF OpOK, JobOK
  <1> QED BY <1>1, <1>2, <1>3, <1>4 DEF Inv

(* Every step of the supervisor, and of what it serves, keeps the invariant.*)
LEMMA InvStep == Inv /\ [Next]_vars => Inv'
  <1> SUFFICES ASSUME Inv, [Next]_vars PROVE Inv'
    OBVIOUS
  <1>1. CASE UNCHANGED vars
    BY <1>1 DEF vars, Inv, TypeOK, GenOK, SystemOK, OpOK, JobOK, Unborn, NoOp
  <1>2. CASE JobStep
    BY <1>2, ChainStep, EndCloseStep, PlanStep, StartStep DEF JobStep
  <1>3. CASE OpStep
    BY <1>3, StageStep, DisposeStep, ActivationStep DEF OpStep
  <1>4. CASE NotRecorded
    BY <1>4, ChainStep, PlanStep, ActivationStep DEF NotRecorded
  <1>5. CASE Environment
    BY <1>5, ChainStep, EnvironmentStep DEF Environment
  <1> QED BY <1>1, <1>2, <1>3, <1>4, <1>5 DEF Next

(* The invariant of the supervisor: every generation that was committed is  *)
(* the running one of its system, the one being stopped, its unsettled one, *)
(* or has drained.                                                          *)
THEOREM Invariance == Spec => []Inv
  BY InitInv, InvStep, PTL DEF Spec

(* "A generation fence MUST prevent retired or stale generation work from   *)
(* receiving new calls", a retirement that timed out blocks the replacement,*)
(* and CLOSED means drained, in whatever order calls, failures, stops,      *)
(* starts, unwritten records and the close come.                            *)
THEOREM GenerationsSound == Spec => []GenerationsAreSound
  <1>1. Inv => GenerationsAreSound
    <2> SUFFICES ASSUME Inv PROVE GenerationsAreSound
      OBVIOUS
    <2>0. TypeOK /\ gen \in [Gens -> GenType]
      BY TypeParts DEF Inv
    <2>1. AdmittedIsCurrent
      BY DEF Inv, GenOK, AdmittedIsCurrent
    <2>2. ReplacementWaits
      <3> SUFFICES ASSUME NEW g \in Gens, NEW h \in Gens, g # h, gen[g].of = gen[h].of,
                          gen[g].committed, gen[g].calls > 0
                   PROVE  running[gen[h].of] # h /\ ~(op.kind = "start" /\ op.gen = h)
        BY DEF ReplacementWaits
      <3>1. gen[g].of \in Systems /\ gen[g].fence # "RETIRED"
        BY <2>0, NothingType DEF Inv, GenOK, GenType
      <3>2. \/ running[gen[g].of] = g
            \/ op.kind \in {"stop", "undo"} /\ op.gen = g
            \/ unsettled[gen[g].of] = g
        BY <3>1 DEF Inv, GenOK
      <3> QED BY <3>1, <3>2, GraphAssumption DEF Inv, SystemOK, OpOK
    <2>3. ClosedIsSettled
      BY DEF Inv, GenOK, JobOK, ClosedIsSettled
    <2> QED BY <2>0, <2>1, <2>2, <2>3 DEF GenerationsAreSound
  <1> QED BY <1>1, Invariance, PTL

(* A background failure stops only the generation that failed: when its     *)
(* turn comes, what runs in that place, if anything, is that generation.    *)
THEOREM FailedOnly == Spec => []OnlyTheFailed
  <1>1. Inv => OnlyTheFailed
    BY DEF Inv, JobOK, OnlyTheFailed
  <1> QED BY <1>1, Invariance, PTL

------------------------------------------------------------------------------
(* Who is served.                                                           *)

(* No MicroSystem both provides and requires.                               *)
NobodyDoesBoth == \A s \in Systems : Provides[s] = {} \/ Requires[s] = {}

(* What the job still stops.                                                *)
Leaving == job.rebinds \cup job.stops

(* A binding names a provider.                                              *)
BindOK == \A v \in Services :
    /\ bound[v] # None => v \in Provides[bound[v]]
    /\ job.bind[v] # None => v \in Provides[job.bind[v]]

(* What is RUNNING runs, and what runs is RUNNING but for the system whose  *)
(* failure is being handled.                                                *)
RunsOK(s) ==
    /\ actual[s] = "RUNNING" => running[s] # None
    /\ running[s] # None =>
          actual[s] = "RUNNING" \/ (job.kind = "failure" /\ s = job.of /\ s \in job.stops)

(* What runs and stays has its Services from systems that run and stay, the *)
(* rest of the plan does not bind them otherwise, and leases from the       *)
(* generations that run those.                                              *)
ServedOK(c) ==
    running[c] # None /\ c \notin Leaving =>
        /\ \A v \in Requires[c] :
              /\ bound[v] \in Systems /\ running[bound[v]] # None /\ bound[v] \notin Leaving
              /\ job.kind = "reconcile" => job.bind[v] = bound[v]
        /\ \A g \in gen[running[c]].uses : \E v \in Requires[c] : running[bound[v]] = g

(* Starts come after the stops and the rebinding, and what was published    *)
(* leases from what runs.                                                   *)
StartsOK ==
    /\ job.kind = "none" => Leaving = {}
    /\ job.kind = "reconcile" =>
          \A s \in job.starts : running[s] # None => s \in job.rebinds
    /\ op.kind # "undo"
    /\ op.kind = "start" =>
          /\ Leaving = {}
          /\ \A v \in Services : job.bind[v] = None \/ bound[v] = job.bind[v]
          /\ \A v \in Requires[op.of] : job.bind[v] # None
    /\ op.kind = "start" /\ op.step = "published" =>
          /\ \A v \in Requires[op.of] : running[bound[v]] # None
          /\ \A g \in gen[op.gen].uses : \E v \in Requires[op.of] : running[bound[v]] = g

(* The four together, as long as nobody closes and every record is written. *)
Serving == BindOK /\ StartsOK /\ \A s \in Systems : RunsOK(s) /\ ServedOK(s)
ServeInv == faults = 0 /\ lifecycle = "ACTIVE" => Serving

(* The fence operations leave what a generation leases.                     *)
LEMMA FencesUses ==
    ASSUME NEW x \in GenType
    PROVE  \A y \in {Begun(x), Retired(x), Settled(x), Withdrawn(x)} : y.uses = x.uses
  <1>1. Begun(x).uses = x.uses
    <2>1. CASE x.fence = "ACTIVE"
      BY <2>1 DEF Begun, GenType
    <2>2. CASE x.fence # "ACTIVE"
      BY <2>2 DEF Begun
    <2> QED BY <2>1, <2>2
  <1>2. Retired(x).uses = x.uses
    BY DEF Retired, GenType
  <1>3. Settled(x).uses = x.uses
    BY DEF Settled, GenType
  <1>4. Withdrawn(x) \in {x, Retired(x)}
    BY DEF Withdrawn
  <1> QED BY <1>1, <1>2, <1>3, <1>4

(* The types the proofs of the service need.                                *)
LEMMA ServeTypes ==
    ASSUME Inv
    PROVE  /\ actual \in [Systems -> States] /\ running \in [Systems -> Gens \cup {None}]
           /\ bound \in [Services -> Systems \cup {None}] /\ gen \in [Gens -> GenType]
           /\ job \in JobType /\ op \in OpType
           /\ job.rebinds \subseteq Systems /\ job.stops \subseteq Systems /\ job.starts \subseteq Systems
           /\ job.bind \in [Services -> Systems \cup {None}]
           /\ \A g \in Gens : gen[g].uses \subseteq Gens
           /\ \A s \in Systems : running[s] # None => running[s] \in Gens /\ gen[running[s]].of = s
           /\ \A s \in Systems : Requires[s] \subseteq Services
           /\ None \notin Systems /\ None \notin Gens /\ faults \in Nat
  <1>1. /\ LifecycleOK /\ ActualOK /\ RunningOK /\ BoundOK /\ BoundsOK
        /\ gen \in [Gens -> GenType] /\ job \in JobType /\ op \in OpType
    BY TypeParts DEF Inv
  <1>2. faults \in Nat
    BY <1>1, GraphAssumption DEF BoundsOK
  <1>3. \A g \in Gens : gen[g].uses \subseteq Gens
    BY <1>1 DEF GenType
  <1>4. \A s \in Systems : running[s] # None => running[s] \in Gens /\ gen[running[s]].of = s
    BY <1>1 DEF Inv, SystemOK, RunningOK
  <1>5. /\ job.rebinds \subseteq Systems /\ job.stops \subseteq Systems /\ job.starts \subseteq Systems
        /\ job.bind \in [Services -> Systems \cup {None}]
    BY <1>1 DEF JobType
  <1> QED BY <1>1, <1>2, <1>3, <1>4, <1>5, GraphAssumption DEF ActualOK, RunningOK, BoundOK

(* What is left of a plan, part by part, whatever is noted of a stop.       *)
LeftOf(s, j) ==
    /\ j.kind = job.kind /\ j.of = job.of /\ j.bind = job.bind
    /\ j.rebinds = job.rebinds \ {s} /\ j.starts \subseteq job.starts
    /\ j.stops = IF s \in job.rebinds THEN job.stops ELSE job.stops \ {s}

(* That is what stays of it.                                                *)
LEMMA WithoutParts ==
    ASSUME job \in JobType, NEW s, NEW failed, NEW closed
    PROVE  /\ LeftOf(s, Without(s))
           /\ LeftOf(s, [Without(s) EXCEPT !.failed = @ \/ failed, !.closed = closed])
  <1>1. LeftOf(s, Without(s))
    BY DEF Without, JobType, LeftOf
  <1>2. DOMAIN Without(s) = DOMAIN job
    BY DEF Without, JobType
  <1>3. \A k \in {"kind", "of", "bind", "rebinds", "starts", "stops"} :
           /\ k \in DOMAIN job
           /\ [Without(s) EXCEPT !.failed = @ \/ failed, !.closed = closed][k] = Without(s)[k]
    BY <1>2 DEF Without, JobType
  <1> QED BY <1>1, <1>3 DEF LeftOf

(* What a start that is over leaves of it.                                  *)
LEMMA WithoutStart ==
    ASSUME job \in JobType, NEW s, job.rebinds = {}, job.stops = {}
    PROVE  Without(s).starts = job.starts \ {s}
  BY DEF Without, JobType

(* At first nothing runs.                                                   *)
LEMMA ServeInit == Init => ServeInv
  <1> SUFFICES ASSUME Init PROVE Serving
    BY DEF ServeInv
  <1>1. BindOK
    BY DEF Init, BindOK, NoJob
  <1>2. StartsOK
    BY DEF Init, StartsOK, Leaving, NoJob, NoOp
  <1>3. \A s \in Systems : RunsOK(s) /\ ServedOK(s)
    BY DEF Init, RunsOK, ServedOK
  <1> QED BY <1>1, <1>2, <1>3 DEF Serving

(* A step of a fence, or of a start on its way to its end.                  *)
LEMMA ServeFenceStep ==
    ASSUME Inv, Serving,
           UNCHANGED <<actual, running, bound, job>>,
           \A g \in Gens : gen'[g].uses = gen[g].uses,
           op'.kind # "undo",
           op'.kind = "start" =>
              /\ op.kind = "start" /\ op'.of = op.of /\ op'.gen = op.gen
              /\ op'.step = "published" => op.step = "published"
    PROVE  Serving'
  <1>1. BindOK'
    BY DEF Serving, BindOK
  <1>2. \A s \in Systems : RunsOK(s)'
    BY DEF Serving, RunsOK
  <1>3. \A s \in Systems : ServedOK(s)'
    BY ServeTypes DEF Serving, ServedOK, Leaving
  <1>4. StartsOK'
    <2>1. op.kind = "start" => op.gen \in Gens
      BY DEF Inv, OpOK
    <2> QED BY <2>1 DEF Serving, StartsOK, Leaving
  <1> QED BY <1>1, <1>2, <1>3, <1>4 DEF Serving

(* The calls, failures and operations that change no plan.                  *)
LEMMA ServeOthersStep ==
    ASSUME Inv, Serving,
           \/ WithdrawalEnds \/ ActivationFails \/ NotAdmitted \/ Abandon
           \/ \E d \in Desires : Reconcile(d)
           \/ \E g \in Gens : Call(g) \/ Return(g) \/ BackgroundFails(g)
    PROVE  Serving'
  <1>t. gen \in [Gens -> GenType] /\ op \in OpType
    BY ServeTypes
  <1>u. op.kind # "undo"
    BY DEF Serving, StartsOK
  <1>o. op.kind # "none" => op.gen \in Gens
    BY DEF Inv, OpOK
  <1>1. CASE WithdrawalEnds \/ ActivationFails \/ NotAdmitted
    <2>1. /\ UNCHANGED <<actual, running, bound, job, gen>>
          /\ op'.kind = op.kind /\ op'.of = op.of /\ op'.gen = op.gen /\ op'.step # "published"
      BY <1>1, <1>t DEF WithdrawalEnds, ActivationFails, NotAdmitted, OpType, bounds
    <2> QED BY <2>1, <1>u, ServeFenceStep
  <1>2. CASE Abandon
    <2>1. /\ UNCHANGED <<actual, running, bound, job>>
          /\ op'.kind = "abandon" /\ gen' = [gen EXCEPT ![op.gen] = Withdrawn(@)] /\ op.gen \in Gens
      BY <1>2, <1>t, <1>o DEF Abandon, OpType, bounds
    <2>2. \A g \in Gens : gen'[g].uses = gen[g].uses
      BY <2>1, <1>t, FencesUses
    <2> QED BY <2>1, <2>2, ServeFenceStep
  <1>3. CASE \E d \in Desires : Reconcile(d)
    <2>1. UNCHANGED <<actual, running, bound, job, gen, op>>
      BY <1>3 DEF Reconcile, bounds
    <2> QED BY <2>1, <1>u, ServeFenceStep
  <1>4. ASSUME NEW g \in Gens, Call(g) \/ Return(g) \/ BackgroundFails(g) PROVE Serving'
    <2>1. UNCHANGED <<actual, running, bound, job, op>>
      BY <1>4 DEF Call, Return, BackgroundFails, bounds
    <2>2. \A h \in Gens : gen'[h].uses = gen[h].uses
      <3>1. CASE Call(g)
        BY <3>1, <1>t DEF Call, GenType
      <3>2. CASE Return(g)
        BY <3>2, <1>t, FencesUses DEF Return
      <3>3. CASE BackgroundFails(g)
        <4>1. gen' = [gen EXCEPT ![g] = [Begun(@) EXCEPT !.hurt = TRUE]]
          BY <3>3 DEF BackgroundFails
        <4>2. Begun(gen[g]) \in GenType /\ Begun(gen[g]).uses = gen[g].uses
          BY <1>t, Fences, FencesUses
        <4>3. [Begun(gen[g]) EXCEPT !.hurt = TRUE].uses = gen[g].uses
          BY <4>2 DEF GenType
        <4> QED BY <4>1, <4>3, <1>t
      <3> QED BY <1>4, <3>1, <3>2, <3>3
    <2> QED BY <2>1, <2>2, <1>u, ServeFenceStep
  <1> QED BY <1>1, <1>2, <1>3, <1>4

(* Whoever does not run leaves a plan that stops nobody else.               *)
LEMMA ServeShrinks ==
    ASSUME Inv, Serving, NEW s \in Systems, running[s] = None \/ Leaving = {},
           UNCHANGED <<running, bound>>,
           \A g \in Gens : gen'[g].uses = gen[g].uses,
           LeftOf(s, job')
    PROVE  /\ BindOK' /\ \A c \in Systems : ServedOK(c)'
           /\ Leaving' \subseteq Leaving /\ Leaving \ {s} \subseteq Leaving'
  <1>1. Leaving' \subseteq Leaving /\ Leaving \ {s} \subseteq Leaving'
    BY DEF Leaving, LeftOf
  <1>u. job'.kind = job.kind /\ job'.bind = job.bind
    BY DEF LeftOf
  <1>2. BindOK'
    BY <1>u DEF Serving, BindOK
  <1>3. ASSUME NEW c \in Systems, running'[c] # None, c \notin Leaving'
        PROVE  ServedOK(c)'
    <2>1. running[c] # None /\ c \notin Leaving
      BY <1>1, <1>3
    <2>2. ServedOK(c)
      BY DEF Serving
    <2>3. running[c] \in Gens
      BY <2>1, ServeTypes
    <2> QED BY <1>1, <1>u, <2>1, <2>2, <2>3 DEF ServedOK
  <1>4. \A c \in Systems : ServedOK(c)'
    BY <1>3 DEF ServedOK
  <1> QED BY <1>1, <1>2, <1>4

(* A stop: who leaves serves nobody that stays.                             *)
LEMMA ServeStopStep ==
    ASSUME Inv, Serving, NEW s \in Systems, Stop(s)
    PROVE  Serving'
  <1>t. /\ gen \in [Gens -> GenType] /\ running \in [Systems -> Gens \cup {None}]
        /\ actual \in [Systems -> States]
    BY ServeTypes
  <1>1. /\ job.kind # "none" /\ running[s] # None /\ s \in Leaving
        /\ actual' = [actual EXCEPT ![s] = "QUIESCING"]
        /\ running' = [running EXCEPT ![s] = None]
        /\ gen' = [gen EXCEPT ![running[s]] = Withdrawn(@)]
        /\ op'.kind = "stop" /\ UNCHANGED <<bound, job>>
    BY DEF Stop, StopOf, Due, LastOf, Leaving, bounds
  <1>2. \A g \in Gens : gen'[g].uses = gen[g].uses
    <2>1. running[s] \in Gens
      BY <1>1, <1>t
    <2> QED BY <1>1, <1>t, <2>1, FencesUses
  <1>3. running'[s] = None /\ \A c \in Systems \ {s} : running'[c] = running[c]
    BY <1>1, <1>t
  <1>4. BindOK'
    BY <1>1 DEF Serving, BindOK
  <1>5. StartsOK'
    BY <1>1, <1>3 DEF Serving, StartsOK, Leaving
  <1>6. \A c \in Systems : RunsOK(c)'
    BY <1>1, <1>3, <1>t DEF Serving, RunsOK
  <1>7. ASSUME NEW c \in Systems, running'[c] # None, c \notin Leaving'
        PROVE  ServedOK(c)'
    <2>1. running[c] # None /\ c # s /\ c \notin Leaving /\ Leaving' = Leaving /\ running[c] \in Gens
      BY <1>1, <1>3, <1>7, <1>t DEF Leaving
    <2>2. ServedOK(c)
      BY DEF Serving
    <2>3. \A v \in Requires[c] : bound[v] \in Systems \ {s}
      BY <1>1, <2>1, <2>2 DEF ServedOK
    <2> QED BY <1>1, <1>2, <1>3, <2>1, <2>2, <2>3 DEF ServedOK
  <1>8. \A c \in Systems : ServedOK(c)'
    BY <1>7 DEF ServedOK
  <1> QED BY <1>4, <1>5, <1>6, <1>8 DEF Serving

(* A start, which waits for its providers; nothing runs in its place.       *)
LEMMA ServeStartStep ==
    ASSUME Inv, Serving, NEW s \in Systems, BlockStart(s) \/ StartExisting(s) \/ Start(s)
    PROVE  Serving'
  <1>t. /\ gen \in [Gens -> GenType] /\ running \in [Systems -> Gens \cup {None}]
        /\ actual \in [Systems -> States] /\ job \in JobType /\ bound \in [Services -> Systems \cup {None}]
        /\ Requires[s] \subseteq Services
    BY ServeTypes
  <1>1. Startable(s)
    BY DEF BlockStart, StartExisting, Start
  <1>2. job.kind = "reconcile" /\ op = NoOp /\ Leaving = {} /\ job.rebinds = {} /\ job.stops = {} /\ Rebound
    BY <1>1 DEF Startable, Leaving
  <1>3. running[s] = None
    BY <1>1, <1>2 DEF Startable, Serving, StartsOK
  <1>4. CASE BlockStart(s)
    <2>1. /\ UNCHANGED <<running, bound, gen, op>> /\ job' = Without(s)
          /\ actual' = [actual EXCEPT ![s] = "BLOCKED"]
      BY <1>4 DEF BlockStart, bounds
    <2>2. LeftOf(s, job')
      BY <2>1, <1>t, WithoutParts
    <2>3. BindOK' /\ (\A c \in Systems : ServedOK(c)') /\ Leaving' = {}
      BY <1>2, <1>3, <2>1, <2>2, ServeShrinks
    <2>4. \A c \in Systems : RunsOK(c)'
      BY <1>2, <1>3, <1>t, <2>1, <2>2 DEF Serving, RunsOK, LeftOf
    <2>5. StartsOK'
      BY <1>2, <2>1, <2>2, <2>3 DEF Serving, StartsOK, NoOp, LeftOf
    <2> QED BY <2>3, <2>4, <2>5 DEF Serving
  <1>5. CASE Start(s)
    <2>1. PICK g \in Gens :
            /\ gen' = [gen EXCEPT ![g].of = s]
            /\ op' = [kind |-> "start", of |-> s, gen |-> g, step |-> "activating",
                      failed |-> FALSE, terminal |-> "FAILED"]
      BY <1>5 DEF Start
    <2>2. UNCHANGED <<running, bound, job>> /\ actual' = [actual EXCEPT ![s] = "STARTING"] /\ ~Blocked(s)
      BY <1>5 DEF Start, bounds
    <2>3. \A h \in Gens : gen'[h].uses = gen[h].uses
      BY <2>1, <1>t DEF GenType
    <2>4. \A v \in Requires[s] : job.bind[v] # None
      BY <2>2 DEF Blocked, Ready, Eligible
    <2>5. BindOK'
      BY <2>2 DEF Serving, BindOK
    <2>6. \A c \in Systems : RunsOK(c)'
      BY <1>2, <1>3, <1>t, <2>2 DEF Serving, RunsOK
    <2>7. \A c \in Systems : ServedOK(c)'
      BY <1>t, <2>2, <2>3 DEF Serving, ServedOK, Leaving
    <2>8. StartsOK'
      BY <1>2, <2>1, <2>2, <2>4 DEF Serving, StartsOK, Leaving, Rebound
    <2> QED BY <2>5, <2>6, <2>7, <2>8 DEF Serving
  <1> QED BY <1>3, <1>4, <1>5 DEF StartExisting

(* Rebinding, and the end of a plan or of a failure.                        *)
LEMMA ServeEndStep ==
    ASSUME Inv, Serving, Rebind \/ EndReconcile \/ EndFailure
    PROVE  Serving'
  <1>t. /\ running \in [Systems -> Gens \cup {None}] /\ actual \in [Systems -> States]
        /\ job.bind \in [Services -> Systems \cup {None}] /\ bound \in [Services -> Systems \cup {None}]
        /\ \A s \in Systems : Requires[s] \subseteq Services
    BY ServeTypes
  <1>1. op = NoOp
    BY DEF Rebind, EndReconcile, EndFailure
  <1>n. /\ NoJob.kind = "none" /\ NoJob.rebinds = {} /\ NoJob.stops = {}
        /\ \A v \in Services : NoJob.bind[v] = None
    BY DEF NoJob
  <1>2. CASE Rebind
    <2>1. /\ job.kind = "reconcile" /\ UNCHANGED <<actual, running, gen, job, op>>
          /\ bound' = [v \in Services |-> IF job.bind[v] = None THEN bound[v] ELSE job.bind[v]]
      BY <1>2 DEF Rebind, bounds
    <2>2. BindOK'
      BY <2>1 DEF Serving, BindOK
    <2>3. \A c \in Systems : RunsOK(c)'
      BY <2>1 DEF Serving, RunsOK
    <2>4. ASSUME NEW c \in Systems, running[c] # None, c \notin Leaving PROVE ServedOK(c)'
      <3>1. ServedOK(c)
        BY DEF Serving
      <3>2. \A v \in Requires[c] : bound'[v] = bound[v]
        BY <1>t, <2>1, <2>4, <3>1 DEF ServedOK
      <3> QED BY <2>1, <2>4, <3>1, <3>2 DEF ServedOK, Leaving
    <2>5. \A c \in Systems : ServedOK(c)'
      BY <2>1, <2>4 DEF ServedOK, Leaving
    <2>6. StartsOK'
      BY <1>1, <2>1 DEF Serving, StartsOK, Leaving, NoOp
    <2> QED BY <2>2, <2>3, <2>5, <2>6 DEF Serving
  <1>3. CASE EndReconcile
    <2>1. /\ job.kind = "reconcile" /\ Leaving = {} /\ UNCHANGED <<running, gen, op>>
          /\ actual' = [s \in Systems |->
                          IF s \in job.blocked /\ actual[s] # "RUNNING" THEN "BLOCKED" ELSE actual[s]]
          /\ bound' = job.bind /\ job' = NoJob
      BY <1>3 DEF EndReconcile, Leaving, bounds
    <2>2. BindOK'
      BY <2>1, <1>n DEF Serving, BindOK
    <2>3. \A c \in Systems : RunsOK(c)'
      BY <2>1 DEF Serving, RunsOK
    <2>4. ASSUME NEW c \in Systems, running[c] # None PROVE ServedOK(c)'
      <3>1. ServedOK(c)
        BY DEF Serving
      <3>2. \A v \in Requires[c] : bound'[v] = bound[v]
        BY <2>1, <2>4, <3>1 DEF ServedOK
      <3>3. Leaving' = {}
        BY <2>1, <1>n DEF Leaving
      <3> QED BY <1>n, <2>1, <2>4, <3>1, <3>2, <3>3 DEF ServedOK
    <2>5. \A c \in Systems : ServedOK(c)'
      BY <2>1, <2>4 DEF ServedOK
    <2>6. StartsOK'
      BY <1>1, <1>n, <2>1 DEF StartsOK, Leaving, NoOp
    <2> QED BY <2>2, <2>3, <2>5, <2>6 DEF Serving
  <1>4. CASE EndFailure
    <2>1. /\ job.kind = "failure" /\ Leaving = {} /\ job.stops = {}
          /\ UNCHANGED <<actual, running, bound, gen, op>> /\ job' = NoJob
      BY <1>4 DEF EndFailure, Leaving, bounds
    <2>2. BindOK'
      BY <2>1, <1>n DEF Serving, BindOK
    <2>3. \A c \in Systems : RunsOK(c)'
      BY <2>1 DEF Serving, RunsOK
    <2>4. Leaving' = {}
      BY <2>1, <1>n DEF Leaving
    <2>5. \A c \in Systems : ServedOK(c)'
      BY <1>n, <2>1, <2>4 DEF Serving, ServedOK
    <2>6. StartsOK'
      BY <1>1, <1>n, <2>1, <2>4 DEF StartsOK, NoOp
    <2> QED BY <2>2, <2>3, <2>5, <2>6 DEF Serving
  <1> QED BY <1>2, <1>3, <1>4

(* The ends of a stop and of a start that failed.                           *)
LEMMA ServeSettleStep ==
    ASSUME Inv, Serving, StopEnds \/ AbandonEnds
    PROVE  Serving'
  <1>t. /\ gen \in [Gens -> GenType] /\ running \in [Systems -> Gens \cup {None}]
        /\ actual \in [Systems -> States] /\ job \in JobType
    BY ServeTypes
  <1>1. op.kind # "none"
    BY DEF StopEnds, AbandonEnds
  <1>2. op.of \in Systems /\ op.gen \in Gens /\ running[op.of] = None /\ job.kind # "none"
    BY <1>1 DEF Inv, OpOK
  <1>3. /\ UNCHANGED <<running, bound>> /\ op' = NoOp /\ LeftOf(op.of, job')
        /\ actual'[op.of] # "RUNNING" /\ \A c \in Systems \ {op.of} : actual'[c] = actual[c]
        /\ gen' \in {gen, [gen EXCEPT ![op.gen] = Retired(gen[op.gen])]}
    <2>1. CASE StopEnds
      <3>1. PICK failed \in BOOLEAN :
              /\ gen' = [gen EXCEPT ![op.gen] =
                            IF gen[op.gen].leased THEN gen[op.gen] ELSE Retired(gen[op.gen])]
              /\ actual' = [actual EXCEPT ![op.of] = IF failed THEN "FAILED" ELSE op.terminal]
              /\ \E c : job' = [Without(op.of) EXCEPT !.failed = @ \/ failed, !.closed = c]
        BY <2>1 DEF StopEnds
      <3>2. PICK c : job' = [Without(op.of) EXCEPT !.failed = @ \/ failed, !.closed = c]
        BY <3>1
      <3>3. LeftOf(op.of, job')
        BY <3>2, <1>t, WithoutParts
      <3>4. UNCHANGED <<running, bound>> /\ op' = NoOp
        BY <2>1 DEF StopEnds, bounds
      <3>5. op.terminal # "RUNNING"
        BY ServeTypes DEF OpType
      <3>6. actual'[op.of] # "RUNNING" /\ \A x \in Systems \ {op.of} : actual'[x] = actual[x]
        BY <3>1, <3>5, <1>2, <1>t
      <3>7. gen' \in {gen, [gen EXCEPT ![op.gen] = Retired(gen[op.gen])]}
        BY <3>1, <1>2, <1>t
      <3> QED BY <3>3, <3>4, <3>6, <3>7
    <2>2. CASE AbandonEnds
      <3>1. /\ gen' = [gen EXCEPT ![op.gen] = IF @.leased THEN @ ELSE Retired(@)]
            /\ actual' = [actual EXCEPT ![op.of] = IF Ready(op.of) THEN "FAILED" ELSE "BLOCKED"]
            /\ job' = Without(op.of) /\ UNCHANGED <<running, bound>> /\ op' = NoOp
        BY <2>2 DEF AbandonEnds, bounds
      <3>2. LeftOf(op.of, job')
        BY <3>1, <1>t, WithoutParts
      <3>3. actual'[op.of] # "RUNNING" /\ \A x \in Systems \ {op.of} : actual'[x] = actual[x]
        BY <3>1, <1>2, <1>t
      <3>4. gen' \in {gen, [gen EXCEPT ![op.gen] = Retired(gen[op.gen])]}
        BY <3>1, <1>2, <1>t
      <3> QED BY <3>1, <3>2, <3>3, <3>4
    <2> QED BY <2>1, <2>2
  <1>4. \A g \in Gens : gen'[g].uses = gen[g].uses
    BY <1>2, <1>3, <1>t, FencesUses
  <1>5. /\ BindOK' /\ \A c \in Systems : ServedOK(c)'
        /\ Leaving' \subseteq Leaving /\ Leaving \ {op.of} \subseteq Leaving'
    BY <1>2, <1>3, <1>4, ServeShrinks
  <1>6. \A c \in Systems : RunsOK(c)'
    BY <1>2, <1>3, <1>t DEF Serving, RunsOK, LeftOf
  <1>7. StartsOK'
    BY <1>2, <1>3, <1>5 DEF Serving, StartsOK, NoOp, LeftOf
  <1> QED BY <1>5, <1>6, <1>7 DEF Serving

(* What is published leases from what runs.                                 *)
LEMMA ServePublishStep ==
    ASSUME Inv, Serving, NobodyDoesBoth, Publish
    PROVE  Serving'
  <1>t. /\ gen \in [Gens -> GenType] /\ running \in [Systems -> Gens \cup {None}]
        /\ bound \in [Services -> Systems \cup {None}] /\ op \in OpType
        /\ \A s \in Systems : Requires[s] \subseteq Services
    BY ServeTypes
  <1> DEFINE c == op.of
             Used(g, v) == gen[g].of = bound[v] /\ gen[g].leased /\ gen[g].fence = "ACTIVE"
  <1>1. /\ op.kind = "start" /\ \A v \in Requires[c] : Eligible(v, bound)
        /\ gen' = [gen EXCEPT ![op.gen].leased = Provides[c] # {},
                              ![op.gen].uses = {g \in Gens : \E v \in Requires[c] : Used(g, v)}]
        /\ op' = [op EXCEPT !.step = "published"]
        /\ UNCHANGED <<actual, running, bound, job>>
    BY DEF Publish, bounds
  <1>2. c \in Systems /\ op.gen \in Gens /\ gen[op.gen].of = c /\ running[c] = None
    BY <1>1 DEF Inv, OpOK
  <1>3. /\ gen'[op.gen].uses = {g \in Gens : \E v \in Requires[c] : Used(g, v)}
        /\ \A g \in Gens \ {op.gen} : gen'[g] = gen[g]
        /\ op'.kind = "start" /\ op'.of = c /\ op'.gen = op.gen
    BY <1>1, <1>2, <1>t DEF GenType, OpType
  <1>4. ASSUME NEW v \in Requires[c], NEW g \in Gens, Used(g, v), bound[v] # None
        PROVE  running[bound[v]] = g
    <2>1. v \in Services /\ v \in Provides[bound[v]] /\ bound[v] \in Systems
      BY <1>2, <1>4, <1>t DEF Serving, BindOK
    <2>2. bound[v] # c
      BY <1>2, <2>1 DEF NobodyDoesBoth
    <2>3. running[gen[g].of] = g \/ op.gen = g
      BY <1>4 DEF Inv, GenOK
    <2> QED BY <1>2, <1>4, <2>2, <2>3
  <1>5. \A v \in Requires[c] : bound[v] # None /\ \E g \in Gens : Used(g, v)
    BY <1>1 DEF Eligible
  <1>6. StartsOK'
    <2>1. \A v \in Requires[c] : running[bound[v]] # None
      BY <1>4, <1>5, ServeTypes
    <2>2. \A g \in gen'[op.gen].uses : \E v \in Requires[c] : running[bound[v]] = g
      BY <1>3, <1>4, <1>5
    <2> QED BY <1>1, <1>3, <2>1, <2>2 DEF Serving, StartsOK, Leaving
  <1>7. \A s \in Systems : ServedOK(s)'
    <2> SUFFICES ASSUME NEW s \in Systems, running[s] # None PROVE ServedOK(s)'
      BY <1>1 DEF ServedOK
    <2>1. running[s] \in Gens /\ gen[running[s]].of = s /\ s # c
      BY <1>2, ServeTypes
    <2>2. gen'[running[s]] = gen[running[s]]
      BY <1>2, <1>3, <2>1
    <2>3. ServedOK(s)
      BY DEF Serving
    <2> QED BY <1>1, <2>2, <2>3 DEF ServedOK, Leaving
  <1>8. BindOK' /\ \A s \in Systems : RunsOK(s)'
    BY <1>1 DEF Serving, BindOK, RunsOK
  <1> QED BY <1>6, <1>7, <1>8 DEF Serving

(* A generation that is committed runs beside those it leases from.         *)
LEMMA ServeCommitStep ==
    ASSUME Inv, Serving, Commit
    PROVE  Serving'
  <1>t. /\ gen \in [Gens -> GenType] /\ running \in [Systems -> Gens \cup {None}]
        /\ bound \in [Services -> Systems \cup {None}] /\ actual \in [Systems -> States]
        /\ job \in JobType /\ None \notin Gens
        /\ \A s \in Systems : Requires[s] \subseteq Services
    BY ServeTypes
  <1>c. PICK c \in Systems : c = op.of
    <2>1. op.kind # "none"
      BY DEF Commit
    <2> QED BY <2>1 DEF Inv, OpOK
  <1>1. /\ op.kind = "start" /\ op.step = "published"
        /\ running' = [running EXCEPT ![c] = op.gen]
        /\ actual' = [actual EXCEPT ![c] = "RUNNING"]
        /\ gen' = [gen EXCEPT ![op.gen].committed = TRUE]
        /\ op' = NoOp /\ job' = Without(c) /\ UNCHANGED bound
    BY <1>c DEF Commit, bounds
  <1>2. c \in Systems /\ op.gen \in Gens /\ running[c] = None /\ job.kind = "reconcile"
    BY <1>1, <1>c DEF Inv, OpOK
  <1>3. /\ job.rebinds = {} /\ job.stops = {}
        /\ \A v \in Services : job.bind[v] = None \/ bound[v] = job.bind[v]
        /\ \A v \in Requires[c] : job.bind[v] # None /\ running[bound[v]] # None
        /\ \A g \in gen[op.gen].uses : \E v \in Requires[c] : running[bound[v]] = g
    BY <1>1, <1>c DEF Serving, StartsOK, Leaving
  <1>4. LeftOf(c, job') /\ job'.starts = job.starts \ {c}
    BY <1>1, <1>3, <1>t, WithoutParts, WithoutStart
  <1>5. /\ job'.kind = job.kind /\ job'.bind = job.bind /\ job'.of = job.of
        /\ Leaving = {} /\ Leaving' = {} /\ job'.rebinds = {}
    BY <1>3, <1>4 DEF LeftOf, Leaving
  <1>6. \A g \in Gens : gen'[g].uses = gen[g].uses
    BY <1>1, <1>t DEF GenType
  <1>7. running'[c] = op.gen /\ \A s \in Systems \ {c} : running'[s] = running[s]
    BY <1>1, <1>2, <1>t
  <1>8. BindOK'
    BY <1>1, <1>5 DEF Serving, BindOK
  <1>9. \A s \in Systems : RunsOK(s)'
    BY <1>1, <1>2, <1>3, <1>5, <1>7, <1>t DEF Serving, RunsOK
  <1>10. ServedOK(c)'
    <2>1. ASSUME NEW v \in Requires[c]
          PROVE  bound[v] \in Systems /\ bound[v] # c /\ job.bind[v] = bound[v]
      BY <1>2, <1>3, <1>t
    <2>2. \A v \in Requires[c] : running'[bound[v]] = running[bound[v]]
      BY <1>7, <2>1
    <2>3. \A g \in gen'[running'[c]].uses : \E v \in Requires[c] : running'[bound[v]] = g
      BY <1>2, <1>3, <1>6, <1>7, <2>2
    <2>4. \A v \in Requires[c] : running'[bound[v]] # None
      BY <1>3, <2>2
    <2> QED BY <1>1, <1>5, <2>1, <2>3, <2>4 DEF ServedOK
  <1>11. ASSUME NEW s \in Systems \ {c}, running[s] # None PROVE ServedOK(s)'
    <2>1. ServedOK(s) /\ running[s] \in Gens
      BY <1>11, <1>t DEF Serving
    <2>2. \A v \in Requires[s] : bound[v] \in Systems \ {c}
      BY <1>2, <1>5, <1>11, <2>1 DEF ServedOK
    <2> QED BY <1>1, <1>5, <1>6, <1>7, <1>11, <2>1, <2>2 DEF ServedOK
  <1>12. \A s \in Systems : ServedOK(s)'
    <2> SUFFICES ASSUME NEW s \in Systems PROVE ServedOK(s)'
      OBVIOUS
    <2>1. CASE s = c
      BY <1>10, <2>1
    <2>2. CASE s # c /\ running[s] # None
      BY <1>11, <2>2
    <2>3. CASE s # c /\ running[s] = None
      BY <1>7, <2>3 DEF ServedOK
    <2> QED BY <2>1, <2>2, <2>3
  <1>13. StartsOK'
    <2>1. \A s \in job'.starts : running'[s] # None => s \in job'.rebinds
      <3>1. \A s \in job.starts : s \in Systems /\ (running[s] # None => s \in job.rebinds)
        BY <1>2, ServeTypes DEF Serving, StartsOK
      <3> QED BY <1>3, <1>4, <1>7, <3>1
    <2>2. op'.kind = "none"
      BY <1>1 DEF NoOp
    <2> QED BY <1>2, <1>5, <2>1, <2>2 DEF StartsOK
  <1> QED BY <1>8, <1>9, <1>12, <1>13 DEF Serving

(* A plan restarts the consumers of what it stops or binds otherwise.       *)
LEMMA ServePlanStep ==
    ASSUME Inv, Serving, NobodyDoesBoth, BeginReconcile
    PROVE  Serving'
  <1>t. /\ running \in [Systems -> Gens \cup {None}] /\ actual \in [Systems -> States]
        /\ bound \in [Services -> Systems \cup {None}] /\ None \notin Systems
        /\ \A s \in Systems : Requires[s] \subseteq Services
    BY ServeTypes
  <1>0. TypeOK
    BY DEF Inv
  <1>1. /\ Take("reconcile") /\ job.kind = "none" /\ op.kind = "none" /\ Leaving = {}
        /\ UNCHANGED <<actual, running, bound, gen, op>>
    BY DEF BeginReconcile, Take, bounds, Inv, OpOK, Serving, StartsOK
  <1>2. CASE job' = job
    BY <1>1, <1>2, ServeFenceStep
  <1>3. CASE job' # job
    <2> DEFINE d == Head(queue).desired
    <2>1. d \in Desires /\ job' = Plan(d)
      BY <1>0, <1>1, <1>3, TakeType DEF BeginReconcile
    <2>2. /\ job'.kind = "reconcile" /\ job'.rebinds = Rebinds(d) /\ job'.bind = Selected(d)
          /\ job'.stops = {s \in Systems : actual[s] = "RUNNING" /\ s \notin Resolvable(d)} \ Rebinds(d)
          /\ job'.starts =
                {s \in Systems : s \in Resolvable(d) /\ (actual[s] # "RUNNING" \/ s \in Rebinds(d))}
      BY <2>1 DEF Plan
    <2>3. Resolvable(d) \subseteq Systems
      BY <2>1, GraphAssumption DEF Resolvable, Wanted
    <2>4. ASSUME NEW v \in Services, Selected(d)[v] # None
          PROVE  Selected(d)[v] \in Resolvable(d) /\ v \in Provides[Selected(d)[v]]
      <3> DEFINE R == Resolvable(d)
                 Chosen == {p \in R : \E c \in R : v \in Requires[c] /\ p \in Candidates(v, R, d.bind)}
      <3>1. Selected(d)[v] = IF Chosen = {} THEN None ELSE CHOOSE p \in Chosen : TRUE
        BY DEF Selected
      <3>2. Selected(d)[v] \in Chosen
        BY <2>4, <3>1
      <3> QED BY <3>2 DEF Candidates
    <2>5. BindOK'
      BY <1>1, <2>2, <2>4 DEF Serving, BindOK
    <2>6. \A s \in Systems : running[s] # None <=> actual[s] = "RUNNING"
      BY <1>1 DEF Serving, RunsOK
    <2>7. \A s \in Systems : RunsOK(s)'
      BY <1>1, <2>6 DEF RunsOK
    <2>8. StartsOK'
      <3> HIDE DEF d
      <3> QED BY <1>1, <2>2, <2>6 DEF StartsOK
    <2>9. ASSUME NEW c \in Systems, running[c] # None, c \notin Leaving' PROVE ServedOK(c)'
      <3>1. ServedOK(c) /\ actual[c] = "RUNNING" /\ c \notin Rebinds(d)
        BY <2>2, <2>6, <2>9 DEF Serving, Leaving
      <3>2. \A v \in Requires[c] : bound[v] = Selected(d)[v]
        BY <3>1 DEF Rebinds
      <3>3. ASSUME NEW v \in Requires[c]
            PROVE  bound[v] \in Systems /\ running[bound[v]] # None /\ bound[v] \notin Leaving'
        <4>1. bound[v] \in Systems /\ running[bound[v]] # None
          BY <1>1, <2>9, <3>1 DEF ServedOK
        <4>2. v \in Services /\ bound[v] \in Resolvable(d) /\ v \in Provides[bound[v]]
          BY <1>t, <2>4, <3>2, <4>1
        <4>3. bound[v] \notin Rebinds(d)
          BY <4>1, <4>2 DEF NobodyDoesBoth, Rebinds
        <4> QED BY <2>2, <4>1, <4>2, <4>3 DEF Leaving
      <3>4. \A g \in gen[running[c]].uses : \E v \in Requires[c] : running[bound[v]] = g
        BY <1>1, <2>9, <3>1 DEF ServedOK
      <3> HIDE DEF d
      <3> QED BY <1>1, <2>2, <3>2, <3>3, <3>4 DEF ServedOK
    <2>10. \A c \in Systems : ServedOK(c)'
      BY <1>1, <2>9 DEF ServedOK
    <2> QED BY <2>5, <2>7, <2>8, <2>10 DEF Serving
  <1> QED BY <1>2, <1>3

(* Whoever is served by the failed one falls with it.                       *)
LEMMA ServeFailureStep ==
    ASSUME Inv, Serving, BeginFailure
    PROVE  Serving'
  <1>t. /\ running \in [Systems -> Gens \cup {None}] /\ actual \in [Systems -> States]
        /\ bound \in [Services -> Systems \cup {None}] /\ None \notin Systems /\ None \notin Gens
        /\ \A s \in Systems : Requires[s] \subseteq Services
    BY ServeTypes
  <1>0. TypeOK
    BY DEF Inv
  <1> DEFINE g == Head(queue).gen
             s == gen[g].of
             R == RunningSystems
             Closed(S) == \A c \in R, p \in S : Consumes(c, p, R, bound) => c \in S
  <1>1. /\ Take("failure") /\ job.kind = "none" /\ op.kind = "none" /\ Leaving = {}
        /\ UNCHANGED <<running, bound, gen, op>>
    BY DEF BeginFailure, Take, bounds, Inv, OpOK, Serving, StartsOK
  <1>2. CASE running[s] # g
    BY <1>1, <1>2, ServeFenceStep DEF BeginFailure
  <1>3. CASE running[s] = g
    <2>1. /\ actual' = [actual EXCEPT ![s] = "FAILED"]
          /\ job' = [NoJob EXCEPT !.kind = "failure", !.of = s, !.rebinds = Closure(s) \ {s},
                                  !.stops = {s}, !.was = bound]
      BY <1>3 DEF BeginFailure
    <2>2. g \in Gens /\ gen[g].hurt
      BY <1>0, <1>1, TakeType DEF Inv, JobOK
    <2>3. s \in Systems
      <3>1. gen \in [Gens -> GenType]
        BY ServeTypes
      <3> QED BY <2>2, <3>1, NothingType DEF Inv, GenOK, GenType
    <2>4. /\ job'.kind = "failure" /\ job'.of = s /\ job'.stops = {s}
          /\ job'.rebinds = Closure(s) \ {s} /\ job'.bind = NoJob.bind
      BY <2>1 DEF NoJob
    <2>5. \A v \in Services : job'.bind[v] = None
      BY <2>4 DEF NoJob
    <2>6. Leaving' = Closure(s) \cup {s}
      BY <2>4 DEF Leaving
    <2>7. BindOK'
      BY <1>1, <2>5 DEF Serving, BindOK
    <2>8. \A c \in Systems : RunsOK(c)'
      BY <1>1, <1>t, <2>1, <2>3, <2>4, <1>3, <2>2 DEF Serving, RunsOK
    <2>9. StartsOK'
      BY <1>1, <2>4 DEF StartsOK
    <2>10. \A c \in R : c \in Systems /\ running[c] # None /\ ServedOK(c)
      BY DEF RunningSystems, Serving
    <2>11. \A c \in R : \A v \in Requires[c] :
              bound[v] \in R /\ v \in Provides[bound[v]] /\ Candidates(v, R, bound) = {bound[v]}
      <3> SUFFICES ASSUME NEW c \in R, NEW v \in Requires[c]
                   PROVE  bound[v] \in R /\ v \in Provides[bound[v]]
                          /\ Candidates(v, R, bound) = {bound[v]}
        OBVIOUS
      <3>1. bound[v] \in Systems /\ running[bound[v]] # None /\ v \in Services
        BY <1>1, <1>t, <2>10 DEF ServedOK
      <3>2. bound[v] \in R /\ v \in Provides[bound[v]] /\ bound[v] # None
        BY <1>t, <3>1 DEF RunningSystems, Serving, BindOK
      <3> QED BY <3>2 DEF Candidates
    <2>12. GraphOK(R, bound)
      BY <2>11 DEF GraphOK, Served
    <2>13. Closure(s) = {c \in R \cup {s} : \A S \in SUBSET (R \cup {s}) : s \in S /\ Closed(S) => c \in S}
      BY <2>12 DEF Closure
    <2>14. ASSUME NEW c \in R, NEW v \in Requires[c], bound[v] \in Closure(s) \cup {s}
           PROVE  c \in Closure(s)
      <3> SUFFICES ASSUME NEW S \in SUBSET (R \cup {s}), s \in S, Closed(S)
                   PROVE  c \in S
        BY <2>13
      <3>1. bound[v] \in S
        BY <2>13, <2>14
      <3>2. Consumes(c, bound[v], R, bound)
        BY <2>11 DEF Consumes
      <3> QED BY <3>1, <3>2
    <2>15. ASSUME NEW c \in Systems, running[c] # None, c \notin Leaving' PROVE ServedOK(c)'
      <3>1. c \in R /\ ServedOK(c)
        BY <2>10, <2>15 DEF RunningSystems
      <3>2. \A v \in Requires[c] :
               bound[v] \in Systems /\ running[bound[v]] # None /\ bound[v] \notin Leaving'
        BY <2>6, <2>10, <2>11, <2>14, <2>15, <3>1
      <3> HIDE DEF s
      <3> QED BY <1>1, <2>4, <2>15, <3>1, <3>2 DEF ServedOK
    <2>16. \A c \in Systems : ServedOK(c)'
      BY <1>1, <2>15 DEF ServedOK
    <2> QED BY <2>7, <2>8, <2>9, <2>16 DEF Serving
  <1> QED BY <1>2, <1>3

(* A close stops whatever runs.                                             *)
LEMMA ServeCloseStep ==
    ASSUME Inv, Serving, BeginClose
    PROVE  Serving'
  <1>1. /\ job.kind = "none" /\ op.kind = "none" /\ UNCHANGED <<actual, running, bound, gen, op>>
        /\ job' = [NoJob EXCEPT !.kind = "close", !.rebinds = RunningSystems, !.was = bound]
    BY DEF BeginClose, Take, bounds, Inv, OpOK
  <1>2. job'.kind = "close" /\ job'.rebinds = RunningSystems /\ \A v \in Services : job'.bind[v] = None
    BY <1>1 DEF NoJob
  <1>3. BindOK' /\ \A s \in Systems : RunsOK(s)'
    BY <1>1, <1>2 DEF Serving, BindOK, RunsOK
  <1>4. \A s \in Systems : ServedOK(s)'
    BY <1>1, <1>2 DEF ServedOK, Leaving, RunningSystems
  <1>5. StartsOK'
    BY <1>1, <1>2 DEF StartsOK
  <1> QED BY <1>3, <1>4, <1>5 DEF Serving

(* Every step keeps it: nobody reopens a supervisor that closes, and an     *)
(* unwritten record is not forgotten.                                       *)
LEMMA ServeStep ==
    ASSUME NobodyDoesBoth
    PROVE  Inv /\ ServeInv /\ [Next]_vars => ServeInv'
  <1> SUFFICES ASSUME Inv, ServeInv, [Next]_vars, faults' = 0, lifecycle' = "ACTIVE"
               PROVE  Serving'
    BY DEF ServeInv
  <1>t. faults \in Nat
    BY ServeTypes
  <1>1. CASE UNCHANGED vars
    BY <1>1 DEF vars, ServeInv, Serving, BindOK, StartsOK, RunsOK, ServedOK, Leaving
  <1>2. CASE JobStep
    <2>1. faults = 0 /\ lifecycle = "ACTIVE"
      BY <1>2 DEF JobStep, BeginReconcile, BeginFailure, BeginClose, Rebind, EndReconcile, EndFailure,
                  EndClose, DropPlan, Stop, BlockStart, StartExisting, Start, bounds
    <2>2. Serving
      BY <2>1 DEF ServeInv
    <2> QED BY <1>2, <2>1, <2>2, ServePlanStep, ServeFailureStep, ServeCloseStep, ServeEndStep,
               ServeStopStep, ServeStartStep DEF JobStep, EndClose, DropPlan
  <1>3. CASE OpStep
    <2>1. faults = 0 /\ lifecycle = "ACTIVE"
      BY <1>3 DEF OpStep, WithdrawalEnds, StopEnds, UndoEnds, Publish, ActivationFails, Commit,
                  NotAdmitted, Abandon, AbandonEnds, bounds
    <2>2. Serving
      BY <2>1 DEF ServeInv
    <2>3. ~UndoEnds
      BY <2>2 DEF UndoEnds, Serving, StartsOK
    <2> QED BY <1>3, <2>2, <2>3, ServeOthersStep, ServeSettleStep, ServePublishStep, ServeCommitStep
            DEF OpStep
  <1>4. CASE NotRecorded
    <2>1. faults' = faults + 1
      BY <1>4 DEF NotRecorded, ReconcileNotRetained, CommitNotRecorded, StopNotRetained, StartNotRetained
    <2> QED BY <1>t, <2>1
  <1>5. CASE Environment
    <2>1. ~BeginTerminalClose
      BY DEF BeginTerminalClose
    <2>2. faults = 0 /\ lifecycle = "ACTIVE"
      BY <1>5, <2>1 DEF Environment, Reconcile, Call, Return, BackgroundFails, bounds
    <2>3. Serving
      BY <2>2 DEF ServeInv
    <2> QED BY <1>5, <2>1, <2>3, ServeOthersStep DEF Environment
  <1> QED BY <1>1, <1>2, <1>3, <1>4, <1>5 DEF Next

(* "It identifies the affected dependency graph, quiesces and disposes      *)
(* dependents": in any graph in which no MicroSystem both requires and      *)
(* provides, with any bindings, failures and calls, whatever is RUNNING at  *)
(* rest leases from generations that still run, unless a lifecycle record   *)
(* could not be written.  RuntimeSupervisorChain shows that the hypothesis  *)
(* is needed.                                                               *)
THEOREM RunningServed ==
    ASSUME NobodyDoesBoth
    PROVE  Spec => []RunningIsServed
  <1>1. Inv /\ ServeInv => RunningIsServed
    <2> SUFFICES ASSUME Inv, ServeInv, faults = 0, AtRest, NEW s \in Systems, actual[s] = "RUNNING",
                        NEW g \in gen[running[s]].uses
                 PROVE  running[gen[g].of] = g
      BY DEF RunningIsServed
    <2>1. Serving /\ Leaving = {}
      BY NothingType DEF ServeInv, AtRest, Serving, StartsOK
    <2>2. running[s] # None
      BY <2>1 DEF Serving, RunsOK
    <2>3. PICK v \in Requires[s] : running[bound[v]] = g
      BY <2>1, <2>2 DEF Serving, ServedOK
    <2>4. bound[v] \in Systems /\ running[bound[v]] # None
      BY <2>1, <2>2 DEF Serving, ServedOK
    <2>5. gen[running[bound[v]]].of = bound[v]
      BY <2>4, ServeTypes
    <2> QED BY <2>3, <2>5
  <1> QED BY <1>1, Invariance, ServeInit, ServeStep, PTL DEF Spec
=============================================================================
