---------------------------- MODULE ManagedChange ----------------------------
(***************************************************************************)
(* SystemActions of Management: a client plans a change of one resource,   *)
(* confirms the plan and has it executed, possibly more than once and side *)
(* by side with other plans.  An execution runs inside a retained Activity *)
(*                                                                         *)
(*   retain - check the plan - owner's transaction - verify -              *)
(*   evidence - completion                                                 *)
(*                                                                         *)
(* where every transaction is fenced by the boot it belongs to, may fail,  *)
(* and may commit although its caller is told that it failed.              *)
(***************************************************************************)
EXTENDS Naturals, FiniteSets

CONSTANTS
  Callers,        \* requests that run at a time
  Plans,          \* confirmed plans
  None,
  MaxExecutions,  \* executions, each with an Activity
  MaxVersion,     \* changes of the resource
  MaxFaults       \* failed or uncertain transactions, failed reads, new boots

VARIABLES
  kind,        \* the kind of resource, fixed
  resource,    \* its version and content
  plan,        \* plan -> the resource it was made on and the input confirmed
  call,        \* caller -> where its execution is
  activity,    \* execution -> its Activity, evidence and effect
  executions,  \* executions begun
  boot,        \* the boot that owns the database
  faults

vars == <<kind, resource, plan, call, activity, executions, boot, faults>>

Kinds == {"model-binding", "gateway-profile", "configuration-activation",
          "configuration-revision", "secret", "subject"}
Contents == {"a", "b"}
\* A scope may have no active revision.
Resource == [version : 1..MaxVersion, content : Contents \cup {None}]
\* What the client wants, and of which resource it says that it wants it.
Input == [content : Contents, expects : Resource]
Plan == [seen : Resource, input : Input]
Executions == 1..MaxExecutions

NoPlan == [seen |-> None, input |-> None]
NoCall == [pc |-> "no", id |-> 0, boot |-> 0, plan |-> None, input |-> None, seen |-> None]
NoActivity == [plan |-> None, retained |-> FALSE, boot |-> 0, outcome |-> None,
               effect |-> FALSE, changed |-> FALSE, evidence |-> FALSE, broken |-> FALSE]

Steps == {"no", "retain", "check", "read", "commit", "verify", "evidence", "complete", "failing"}
Call == [pc : Steps, id : 0..MaxExecutions, boot : 0..(MaxFaults + 1), plan : Plans \cup {None},
         input : Input \cup {None}, seen : Resource \cup {None}]
Activity == [plan : Plans \cup {None}, retained : BOOLEAN, boot : 0..(MaxFaults + 1),
             outcome : {None, "SUCCEEDED", "FAILED"}, effect : BOOLEAN, changed : BOOLEAN,
             evidence : BOOLEAN, broken : BOOLEAN]

TypeOK ==
  /\ kind \in Kinds /\ resource \in Resource
  /\ plan \in [Plans -> {NoPlan} \cup Plan]
  /\ call \in [Callers -> Call] /\ activity \in [Executions -> Activity]
  /\ executions \in 0..MaxExecutions
  /\ boot \in 1..(MaxFaults + 1) /\ faults \in 0..MaxFaults /\ boot <= faults + 1

Init ==
  /\ kind \in Kinds
  /\ resource = [version |-> 1, content |-> IF kind = "configuration-activation" THEN None ELSE "a"]
  /\ plan = [p \in Plans |-> NoPlan] /\ call = [c \in Callers |-> NoCall]
  /\ activity = [x \in Executions |-> NoActivity]
  /\ executions = 0 /\ boot = 1 /\ faults = 0

(***************************************************************************)
(* What the families of actions compare                                    *)
(***************************************************************************)
(* A gateway profile has no generation; the others carry a number or an    *)
(* instant that every change renews.                                       *)
precondition(value) == IF kind = "gateway-profile" THEN value.content ELSE value

samePreconditions(one, other) == precondition(one) = precondition(other)

(* expectedDigest: the digest that was compared is compared again, under   *)
(* the lock of the row.                                                    *)
aiRuntimeAdmits(c) == samePreconditions(resource, call[c].seen)

(* The input names the revision that is expected to be active, or none; a  *)
(* new revision expects nothing.                                           *)
configurationAdmits(c) ==
  kind = "configuration-revision" \/ resource.content = call[c].input.expects.content

(* The generation is the one the owner has read, after the check.          *)
secretAdmits(c) == resource.version = call[c].seen.version

(* The input names the authority revision.                                 *)
subjectAdmits(c) == resource.version = call[c].input.expects.version

(* Mutant: the owner is not told what the change was confirmed for.        *)
AdmitsAny(c) == TRUE

Admits(c) ==
  CASE kind \in {"model-binding", "gateway-profile"} -> aiRuntimeAdmits(c)
    [] kind \in {"configuration-activation", "configuration-revision"} -> configurationAdmits(c)
    [] kind = "secret" -> secretAdmits(c)
    [] kind = "subject" -> subjectAdmits(c)

(***************************************************************************)
(* Transactions of an execution                                            *)
(***************************************************************************)
Fenced(c) == call[c].boot = boot
Goes(c, pc) == call' = [call EXCEPT ![c].pc = pc]
Answers(c) == call' = [call EXCEPT ![c] = NoCall]
Fault == faults < MaxFaults /\ faults' = faults + 1
Breaks(x) == [activity EXCEPT ![x].broken = TRUE]

(***************************************************************************)
(* Planning                                                                *)
(***************************************************************************)
(* The revision a client names is its own; nobody compares it with the one *)
(* that is observed here.                                                  *)
Nameable ==
  CASE kind = "subject" -> {[resource EXCEPT !.version = version] : version \in 1..MaxVersion}
    [] kind = "configuration-activation" ->
         {[resource EXCEPT !.content = content] : content \in Contents \cup {None}}
    [] OTHER -> {resource}

planAction(p) ==
  /\ plan[p] = NoPlan
  /\ \E content \in Contents, expects \in Nameable :
       plan' = [plan EXCEPT ![p] = [seen |-> resource, input |-> [content |-> content, expects |-> expects]]]
  /\ UNCHANGED <<kind, resource, call, activity, executions, boot, faults>>

(***************************************************************************)
(* Execution                                                               *)
(***************************************************************************)
(* The input comes with the plan and need not be the planned one; what it  *)
(* differs in makes no difference.                                         *)
executeAction(c, p) ==
  /\ call[c] = NoCall /\ plan[p] # NoPlan /\ executions < MaxExecutions
  /\ executions' = executions + 1
  /\ \E content \in Contents :
       call' = [call EXCEPT ![c] = [pc |-> "retain", id |-> executions', boot |-> boot,
                                    plan |-> p, input |-> [plan[p].input EXCEPT !.content = content],
                                    seen |-> None]]
  /\ activity' = [activity EXCEPT ![executions'].plan = p]
  /\ UNCHANGED <<kind, resource, plan, boot, faults>>

(* A failed retention ends the request before anything was done; if its    *)
(* commit was uncertain the Activity stays open.                           *)
retainCurrent(c) ==
  LET x == call[c].id
      Retained == [activity EXCEPT ![x].retained = TRUE, ![x].boot = call[c].boot] IN
  /\ call[c].pc = "retain"
  /\ \/ Fenced(c) /\ Goes(c, "check") /\ activity' = Retained /\ UNCHANGED faults
     \/ ~Fenced(c) /\ Answers(c) /\ UNCHANGED <<activity, faults>>
     \/ /\ Fault /\ Answers(c)
        /\ activity' \in {activity, IF Fenced(c) THEN [Retained EXCEPT ![x].broken = TRUE] ELSE activity}
  /\ UNCHANGED <<kind, resource, plan, executions, boot>>

(* The plan's own digest, its input and its targets.  A Subject's status   *)
(* has its actual state in it, which may have changed as well.             *)
CheckPlan(c) ==
  LET AsPlanned == /\ call[c].input = plan[call[c].plan].input
                   /\ samePreconditions(resource, plan[call[c].plan].seen) IN
  /\ call[c].pc = "check"
  /\ \/ /\ AsPlanned
        /\ call' = [call EXCEPT ![c].pc = IF kind = "secret" THEN "read" ELSE "commit",
                               ![c].seen = resource]
     \/ ~AsPlanned /\ Goes(c, "failing")
     \/ kind = "subject" /\ Goes(c, "failing")
  /\ UNCHANGED <<kind, resource, plan, activity, executions, boot, faults>>

(* SecretService.replace reads the row for itself.                         *)
ReadSecret(c) ==
  /\ call[c].pc = "read"
  /\ call' = [call EXCEPT ![c].pc = "commit", ![c].seen = resource]
  /\ UNCHANGED <<kind, resource, plan, activity, executions, boot, faults>>

(* A new revision leaves the activation alone, and a Subject that is       *)
(* already as desired stays as it is.                                      *)
Changed(c) ==
  IF \/ kind = "configuration-revision"
     \/ kind = "subject" /\ resource.content = call[c].input.content
  THEN resource
  ELSE [version |-> resource.version + 1, content |-> call[c].input.content]

(* recordRequired: evidence refers to the Activity it belongs to.          *)
recordRequired(x) == activity[x].retained

(* The owner's transaction, with its evidence where it records any.  An    *)
(* uncertain commit is an error to the caller.                             *)
execute(c) ==
  LET x == call[c].id
      Done == [activity EXCEPT ![x].effect = TRUE, ![x].changed = (Changed(c) # resource)]
      Accepted == Fenced(c) /\ Admits(c) /\ (kind = "subject" \/ recordRequired(x)) IN
  /\ call[c].pc = "commit" /\ resource.version < MaxVersion
  /\ \/ /\ Accepted
        /\ resource' = Changed(c)
        /\ \/ activity' = Done /\ Goes(c, "verify") /\ UNCHANGED faults
           \/ activity' = [Done EXCEPT ![x].broken = TRUE] /\ Goes(c, "failing") /\ Fault
     \/ /\ ~Accepted
        /\ Goes(c, "failing") /\ UNCHANGED <<resource, activity, faults>>
     \/ Fault /\ Goes(c, "failing") /\ UNCHANGED <<resource, activity>>
  /\ UNCHANGED <<kind, plan, executions, boot>>

(* The Subject's runtime is reconciled, whatever comes of it, and the      *)
(* resource is read once more.                                             *)
verify(c) ==
  /\ call[c].pc = "verify"
  /\ \/ Goes(c, "evidence") /\ UNCHANGED <<activity, faults>>
     \/ Fault /\ Goes(c, "failing") /\ activity' = Breaks(call[c].id)
  /\ UNCHANGED <<kind, resource, plan, executions, boot>>

(* Evidence of the mutation, in a transaction that nothing catches.        *)
recordMutation(c) ==
  LET x == call[c].id IN
  /\ call[c].pc = "evidence"
  /\ \/ /\ Fenced(c) /\ recordRequired(x)
        /\ activity' = [activity EXCEPT ![x].evidence = TRUE]
        /\ Goes(c, "complete") /\ UNCHANGED faults
     \/ ~Fenced(c) /\ Answers(c) /\ UNCHANGED <<activity, faults>>
     \/ Fault /\ Answers(c) /\ activity' = Breaks(x)
  /\ UNCHANGED <<kind, resource, plan, executions, boot>>

(* complete_activity_record                                                *)
Completes(c, outcome) ==
  LET x == call[c].id IN
  IF activity[x].retained /\ activity[x].boot = call[c].boot /\ activity[x].outcome = None
  THEN [activity EXCEPT ![x].outcome = outcome] ELSE activity

completeCurrent(c) ==
  LET outcome == IF call[c].pc = "complete" THEN "SUCCEEDED" ELSE "FAILED" IN
  /\ call[c].pc \in {"complete", "failing"} /\ Fenced(c)
  /\ activity' = Completes(c, outcome)
  /\ Answers(c)
  /\ UNCHANGED <<kind, resource, plan, executions, boot, faults>>

(* The completion is fenced off, fails, or commits without an answer.      *)
CompletionFails(c) ==
  LET outcome == IF call[c].pc = "complete" THEN "SUCCEEDED" ELSE "FAILED" IN
  /\ call[c].pc \in {"complete", "failing"}
  /\ \/ ~Fenced(c) /\ UNCHANGED <<activity, faults>>
     \/ Fenced(c) /\ Fault /\ activity' \in {Breaks(call[c].id), Completes(c, outcome)}
  /\ Answers(c)
  /\ UNCHANGED <<kind, resource, plan, executions, boot>>

(***************************************************************************)
(* Boots                                                                   *)
(***************************************************************************)
(* The Host dies, or another one takes its database and it goes on for a   *)
(* while.                                                                  *)
NextBoot ==
  /\ Fault /\ boot' = boot + 1
  /\ call' \in {call, [c \in Callers |-> NoCall]}
  /\ UNCHANGED <<kind, resource, plan, activity, executions>>

Next ==
  \/ \E p \in Plans : planAction(p) \/ \E c \in Callers : executeAction(c, p)
  \/ \E c \in Callers :
       \/ retainCurrent(c) \/ CheckPlan(c) \/ ReadSecret(c) \/ execute(c) \/ verify(c)
       \/ recordMutation(c) \/ completeCurrent(c) \/ CompletionFails(c)
  \/ NextBoot

Spec == Init /\ [][Next]_vars

(***************************************************************************)
(* Properties                                                              *)
(***************************************************************************)
Underway(x) == \E c \in Callers : call[c].pc # "no" /\ call[c].id = x

(* The outcome of an Activity is the truth: SUCCEEDED stands over a change *)
(* that is committed and evidenced, and FAILED over none, unless the       *)
(* change was committed without an answer or could not be verified.        *)
OutcomeIsTrue ==
  \A x \in Executions :
    /\ activity[x].outcome = "SUCCEEDED" => activity[x].effect /\ activity[x].evidence
    /\ activity[x].outcome = "FAILED" /\ activity[x].effect => activity[x].broken

(* A retained Activity is only left open by a fault of its transactions or *)
(* by the end of its boot.                                                 *)
NothingLeftOpen ==
  \A x \in Executions :
    activity[x].retained /\ activity[x].outcome = None /\ ~activity[x].broken =>
      Underway(x) \/ activity[x].boot # boot

(* A confirmed plan changes a resource with a revision at most once,       *)
(* however often and however concurrently it is executed.                  *)
AtMostOnce ==
  kind \in {"model-binding", "subject"} =>
    \A p \in Plans : Cardinality({x \in Executions : activity[x].plan = p /\ activity[x].changed}) <= 1

(* MGMT-009, as far as the owners are told what was planned on: a plan     *)
(* takes effect with the content confirmed, in AI Runtime on the resource  *)
(* it was made on, and elsewhere on the one its input names.  That is the  *)
(* one it was made on if the input names what the plan has seen, and may   *)
(* be a later one if it does not.                                          *)
TakesEffectAsPlanned(x) ==
  LET p == plan[activity[x].plan]
      Named(one) == IF kind = "subject" THEN one.version = p.input.expects.version
                    ELSE one.content = p.input.expects.content IN
  /\ resource'.content = p.input.content
  /\ IF kind \in {"model-binding", "gateway-profile"} THEN samePreconditions(resource, p.seen)
     ELSE Named(resource)
  /\ kind = "subject" /\ Named(p.seen) => resource = p.seen
Effected(x) == activity'[x].effect /\ ~activity[x].effect
ExecutesTheConfirmed ==
  kind \notin {"secret", "configuration-revision"} =>
    \A x \in Executions : Effected(x) => TakesEffectAsPlanned(x)
ExecutesAsPlanned == [][ExecutesTheConfirmed]_vars

(* A change from its plan to the outcome that is recorded of it.             *)
ChangesAsConfirmed == [](TypeOK /\ OutcomeIsTrue /\ NothingLeftOpen /\ AtMostOnce) /\ ExecutesAsPlanned

(***************************************************************************)
(* The inductive invariant                                                 *)
(***************************************************************************)
(* What an execution knows is true of its Activity, which is its own: the  *)
(* plan it executes, how far it got, and what it checked.                  *)
CallOK(c) ==
  LET one == call[c]
      its == activity[one.id] IN
  one.pc # "no" =>
    /\ one.id \in 1..executions /\ one.boot <= boot
    /\ one.plan \in Plans /\ plan[one.plan] # NoPlan
    /\ its.plan = one.plan /\ its.outcome = None
    /\ its.retained <=> one.pc # "retain"
    /\ its.retained => its.boot = one.boot
    /\ its.effect => one.pc \in {"verify", "evidence", "complete"} \/ (one.pc = "failing" /\ its.broken)
    /\ one.pc \in {"verify", "evidence", "complete"} => its.effect
    /\ one.pc = "complete" => its.evidence
    /\ one.pc = "read" => kind = "secret"
    /\ one.pc \in {"read", "commit"} =>
         /\ one.input = plan[one.plan].input
         /\ kind # "secret" => samePreconditions(one.seen, plan[one.plan].seen)
OwnExecutions ==
  \A c, d \in Callers : call[c].pc # "no" /\ call[d].pc # "no" /\ call[c].id = call[d].id => c = d

(* A change renews the version, so a resource of the planned version is    *)
(* the one that was planned on.                                            *)
PlanOK(p) ==
  plan[p] # NoPlan =>
    /\ plan[p].seen.version <= resource.version
    /\ plan[p].seen.version = resource.version => plan[p].seen = resource

(* The version that a change of the plan needs.                            *)
Needs(p) == IF kind = "subject" THEN plan[p].input.expects.version ELSE plan[p].seen.version

ActivityOK(x) ==
  LET one == activity[x] IN
  /\ x > executions => one.plan = None /\ ~one.retained /\ ~one.effect /\ ~one.changed /\ one.outcome = None
  /\ x <= executions => one.plan \in Plans /\ plan[one.plan] # NoPlan
  /\ one.boot <= boot
  /\ one.changed /\ kind \in {"model-binding", "subject"} => Needs(one.plan) < resource.version
EffectsDiffer ==
  kind \in {"model-binding", "subject"} =>
    \A x, y \in Executions :
      activity[x].changed /\ activity[y].changed /\ activity[x].plan = activity[y].plan => x = y

Inv ==
  /\ TypeOK
  /\ \A c \in Callers : CallOK(c)
  /\ OwnExecutions
  /\ \A p \in Plans : PlanOK(p)
  /\ \A x \in Executions : ActivityOK(x)
  /\ EffectsDiffer
  /\ OutcomeIsTrue
  /\ NothingLeftOpen
=============================================================================
