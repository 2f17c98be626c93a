---------------------------- MODULE EffectOperation ----------------------------
(***************************************************************************)
(* packages/execution/effect-operation: the record of a consequential      *)
(* external effect, and the callers in several Host processes that prepare *)
(* it, dispatch it, recover it to UNCERTAIN and reconcile it.              *)
(*                                                                         *)
(*   op        the effect_operation table, one row per EffectOperationId   *)
(*   evidence  the retained evidence of the mutations that committed       *)
(*   caller    one in-progress call of the service per caller              *)
(*   world     the provider behind the port: what it did with the request  *)
(*   calls     history: how often port.dispatch was entered for an id      *)
(*   acked     history: the requests whose prepare was acknowledged        *)
(*                                                                         *)
(* A caller's step ends where the code awaits.  Every mutation is one      *)
(* transaction that the host fence admits only for the current owner       *)
(* (persistence-service.ts:262-305); reads are not fenced.  Hosts are      *)
(* numbered in the order in which they own the fence.                      *)
(***************************************************************************)
EXTENDS Integers, FiniteSets

CONSTANTS
    Ids,          \* the EffectOperationIds in use
    Requests,     \* canonical requests a preparer may bring
    Callers,      \* concurrent calls of the service
    MaxHost,      \* bound: Host processes
    MaxFaults     \* bound: failing transactions

ASSUME BoundsAssumption == MaxHost \in Nat \ {0} /\ MaxFaults \in Nat

Hosts == 1 .. MaxHost

States == {"ABSENT", "PREPARED", "DISPATCHING", "SUCCEEDED", "FAILED", "UNCERTAIN"}
Outcomes == {"SUCCEEDED", "FAILED", "UNCERTAIN"}

VARIABLES op, evidence, caller, world, calls, acked, owner, alive, faults

hosts == <<owner, alive>>
vars == <<op, evidence, caller, world, calls, acked, hosts, faults>>

------------------------------------------------------------------------------
(* A call of the service, from its first read to its last mutation.         *)
(* outcome: what it is about to record ("NONE" when it learnt nothing).     *)
Call(pc, e, h, outcome) == [pc |-> pc, id |-> e, host |-> h, outcome |-> outcome]

Mutating == {"admit", "complete", "recover", "refine"}
Dispatching == {"admitted", "calling", "complete"}

Become(c, x) == caller' = [caller EXCEPT ![c] = x]
Goto(c, pc) == caller' = [caller EXCEPT ![c].pc = pc]
Learn(c, pc, outcome) == caller' = [caller EXCEPT ![c].pc = pc, ![c].outcome = outcome]

Init ==
    /\ op \in [Ids -> {[state |-> "ABSENT", request |-> q, token |-> 0] : q \in Requests}]
    /\ evidence = {}
    /\ \E e \in Ids : caller = [c \in Callers |-> Call("idle", e, 1, "NONE")]
    /\ world = [e \in Ids |-> "unasked"]
    /\ calls = [e \in Ids |-> 0]
    /\ acked = {}
    /\ owner = 1
    /\ alive = {1}
    /\ faults = 0

------------------------------------------------------------------------------
(* The repository's conditional statements, and the evidence of each.       *)

(* insertPrepared: the row is created or its immutable request compared; a  *)
(* different request raises an identity conflict and changes nothing.       *)
InsertPrepared(e, q) ==
    /\ op[e].state = "ABSENT" \/ op[e].request = q
    /\ op' = IF op[e].state = "ABSENT"
             THEN [op EXCEPT ![e] = [state |-> "PREPARED", request |-> q, token |-> 0]]
             ELSE op
    /\ evidence' = evidence \cup {<<e, "prepared", op'[e].state>>}

(* A mistake: an admission that an earlier caller left behind is taken over.*)
BeginDispatchAnyway(e, h) ==
    /\ op[e].state \in {"PREPARED", "DISPATCHING"}
    /\ op' = [op EXCEPT ![e].state = "DISPATCHING", ![e].token = h]
    /\ evidence' = evidence \cup {<<e, "dispatch-started", "DISPATCHING">>}

(* A mistake: an uncertain effect is dispatched again.                      *)
BeginDispatchAgain(e, h) ==
    /\ op[e].state \in {"PREPARED", "UNCERTAIN"}
    /\ op' = [op EXCEPT ![e].state = "DISPATCHING", ![e].token = h]
    /\ evidence' = evidence \cup {<<e, "dispatch-started", "DISPATCHING">>}

BeginDispatch(e, h) ==
    /\ op[e].state = "PREPARED"
    /\ op' = [op EXCEPT ![e].state = "DISPATCHING", ![e].token = h]
    /\ evidence' = evidence \cup {<<e, "dispatch-started", "DISPATCHING">>}

CompleteDispatch(e, h, outcome) ==
    /\ op[e].state = "DISPATCHING"
    /\ op[e].token = h
    /\ op' = [op EXCEPT ![e].state = outcome]
    /\ evidence' = evidence \cup {<<e, "outcome", outcome>>}

(* A mistake: an interrupted dispatch is taken for one that had no effect.  *)
RecoverDispatchAsFailed(e) ==
    /\ op[e].state = "DISPATCHING"
    /\ op' = [op EXCEPT ![e].state = "FAILED"]
    /\ evidence' = evidence \cup {<<e, "outcome", "FAILED">>}

RecoverDispatchAsUncertain(e) ==
    /\ op[e].state = "DISPATCHING"
    /\ op' = [op EXCEPT ![e].state = "UNCERTAIN"]
    /\ evidence' = evidence \cup {<<e, "outcome", "UNCERTAIN">>}

(* Without positive evidence, or when the row has left UNCERTAIN, only the  *)
(* observation is recorded, under the state the row then has.               *)
RefineUncertain(e, outcome) ==
    /\ op' = IF op[e].state = "UNCERTAIN" /\ outcome # "NONE"
             THEN [op EXCEPT ![e].state = outcome] ELSE op
    /\ evidence' = evidence \cup {<<e, "reconciled", op'[e].state>>}

------------------------------------------------------------------------------
(* prepare: one transaction of the owning Host.  The acknowledgement may be *)
(* lost with the connection although the transaction committed.             *)
Prepare(e, q) ==
    /\ InsertPrepared(e, q)
    /\ \/ /\ acked' = acked \cup {<<e, q>>}
          /\ UNCHANGED faults
       \/ /\ faults < MaxFaults
          /\ faults' = faults + 1
          /\ UNCHANGED acked
    /\ UNCHANGED <<caller, world, calls, hosts>>

(* The reads that open dispatch, recoverDispatch and reconcile: only the    *)
(* state each of them acts on lets it go further.                           *)
Start(c, e, h, state, pc) ==
    /\ caller[c].pc = "idle"
    /\ h \in alive
    /\ op[e].state = state
    /\ Become(c, Call(pc, e, h, "NONE"))
    /\ UNCHANGED <<op, evidence, world, calls, acked, hosts, faults>>

StartDispatch(c, e, h) == Start(c, e, h, "PREPARED", "admit")
StartRecover(c, e, h) == Start(c, e, h, "DISPATCHING", "recover")
StartReconcile(c, e, h) == Start(c, e, h, "UNCERTAIN", "observe")

(* dispatch: the admission; whoever does not win it only observes.          *)
Admit(c) ==
    LET x == caller[c]
    IN  /\ x.pc = "admit"
        /\ x.host = owner
        /\ \/ BeginDispatch(x.id, x.host) /\ Goto(c, "admitted")
           \/ /\ op[x.id].state # "PREPARED"
              /\ Goto(c, "idle")
              /\ UNCHANGED <<op, evidence>>
        /\ UNCHANGED <<world, calls, acked, hosts, faults>>

(* Between the admission and the call only the caller's signal is looked at.*)
AbortBeforeCall(c) ==
    /\ caller[c].pc = "admitted"
    /\ Learn(c, "complete", "FAILED")
    /\ UNCHANGED <<op, evidence, world, calls, acked, hosts, faults>>

CallPort(c) ==
    LET e == caller[c].id
    IN  /\ caller[c].pc = "admitted"
        /\ Goto(c, "calling")
        /\ calls' = [calls EXCEPT ![e] = @ + 1]
        /\ world' = [world EXCEPT ![e] = IF @ = "unasked" THEN "asked" ELSE @]
        /\ UNCHANGED <<op, evidence, acked, hosts, faults>>

(* The provider acts on the request in its own time, even after the caller  *)
(* is gone.                                                                 *)
ProviderActs(e) ==
    /\ world[e] = "asked"
    /\ \E result \in {"done", "rejected"} : world' = [world EXCEPT ![e] = result]
    /\ UNCHANGED <<op, evidence, caller, calls, acked, hosts, faults>>

(* What an adapter may know: a definitive answer has a positive basis, and  *)
(* it may always know nothing (a timeout, a lost answer).                   *)
Evident(e) ==
    IF world[e] = "done" THEN {"SUCCEEDED"}
    ELSE IF world[e] = "rejected" THEN {"FAILED"} ELSE {}

(* normalizeDispatchResult: a throw, or an answer without a positive basis  *)
(* in the expected form, is UNCERTAIN.                                      *)
PortAnswers(c) ==
    /\ caller[c].pc = "calling"
    /\ \E outcome \in Evident(caller[c].id) \cup {"UNCERTAIN"} : Learn(c, "complete", outcome)
    /\ UNCHANGED <<op, evidence, world, calls, acked, hosts, faults>>

(* A mistake: the completion does not verify the host fence.                *)
CompleteUnfenced(c) ==
    LET x == caller[c]
    IN  /\ x.pc = "complete"
        /\ \/ CompleteDispatch(x.id, x.host, x.outcome)
           \/ /\ op[x.id].state # "DISPATCHING" \/ op[x.id].token # x.host
              /\ UNCHANGED <<op, evidence>>
        /\ Goto(c, "idle")
        /\ UNCHANGED <<world, calls, acked, hosts, faults>>

(* A row that has left this dispatch makes the completion throw; what the   *)
(* call learnt is then lost.                                                *)
Complete(c) ==
    LET x == caller[c]
    IN  /\ x.pc = "complete"
        /\ x.host = owner
        /\ \/ CompleteDispatch(x.id, x.host, x.outcome)
           \/ /\ op[x.id].state # "DISPATCHING" \/ op[x.id].token # x.host
              /\ UNCHANGED <<op, evidence>>
        /\ Goto(c, "idle")
        /\ UNCHANGED <<world, calls, acked, hosts, faults>>

Recover(c) ==
    LET x == caller[c]
    IN  /\ x.pc = "recover"
        /\ x.host = owner
        /\ \/ RecoverDispatchAsUncertain(x.id)
           \/ op[x.id].state # "DISPATCHING" /\ UNCHANGED <<op, evidence>>
        /\ Goto(c, "idle")
        /\ UNCHANGED <<world, calls, acked, hosts, faults>>

(* normalizeReconciliationResult: anything but positive evidence, and an    *)
(* aborted signal, is UNKNOWN.                                              *)
Observe(c) ==
    /\ caller[c].pc = "observe"
    /\ \E outcome \in Evident(caller[c].id) \cup {"NONE"} : Learn(c, "refine", outcome)
    /\ UNCHANGED <<op, evidence, world, calls, acked, hosts, faults>>

(* A row that leaves UNCERTAIN between the transaction's own read and its   *)
(* update makes it throw, and nothing is recorded.                          *)
Refine(c) ==
    LET x == caller[c]
    IN  /\ x.pc = "refine"
        /\ x.host = owner
        /\ \/ RefineUncertain(x.id, x.outcome)
           \/ op[x.id].state # "UNCERTAIN" /\ UNCHANGED <<op, evidence>>
        /\ Goto(c, "idle")
        /\ UNCHANGED <<world, calls, acked, hosts, faults>>

(* The mutation of a replaced Host is refused by the fence and throws.      *)
Refused(c) ==
    /\ caller[c].pc \in Mutating
    /\ caller[c].host # owner
    /\ Goto(c, "idle")
    /\ UNCHANGED <<op, evidence, world, calls, acked, hosts, faults>>

(* A transaction of the owner fails: it did not commit, or it did and the   *)
(* caller is told that the commit is uncertain.  The call throws.           *)
Fails(c) ==
    LET x == caller[c]
    IN  /\ faults < MaxFaults
        /\ x.pc \in Mutating
        /\ x.host = owner
        /\ \/ UNCHANGED <<op, evidence>>
           \/ x.pc = "admit" /\ BeginDispatch(x.id, x.host)
           \/ x.pc = "complete" /\ CompleteDispatch(x.id, x.host, x.outcome)
           \/ x.pc = "recover" /\ RecoverDispatchAsUncertain(x.id)
           \/ x.pc = "refine" /\ RefineUncertain(x.id, x.outcome)
        /\ Goto(c, "idle")
        /\ faults' = faults + 1
        /\ UNCHANGED <<world, calls, acked, hosts>>

------------------------------------------------------------------------------
(* The Host processes.  The calls of a process that stops are gone; what    *)
(* they asked of the provider is not.                                       *)
Kill(dead) ==
    caller' = [c \in Callers |-> IF caller[c].host \in dead
                                 THEN [caller[c] EXCEPT !.pc = "idle"] ELSE caller[c]]

HostReplace ==
    /\ owner < MaxHost
    /\ owner' = owner + 1
    /\ \E dead \in SUBSET {owner} : alive' = (alive \ dead) \cup {owner + 1} /\ Kill(dead)
    /\ UNCHANGED <<op, evidence, world, calls, acked, faults>>

HostStop(h) ==
    /\ h \in alive \ {owner}
    /\ alive' = alive \ {h}
    /\ Kill({h})
    /\ UNCHANGED <<op, evidence, world, calls, acked, owner, faults>>

------------------------------------------------------------------------------
Next ==
    \/ \E e \in Ids, q \in Requests : Prepare(e, q)
    \/ \E e \in Ids : ProviderActs(e)
    \/ \E c \in Callers, e \in Ids, h \in Hosts :
          StartDispatch(c, e, h) \/ StartRecover(c, e, h) \/ StartReconcile(c, e, h)
    \/ \E c \in Callers :
          \/ Admit(c) \/ AbortBeforeCall(c) \/ CallPort(c) \/ PortAnswers(c) \/ Complete(c)
          \/ Recover(c) \/ Observe(c) \/ Refine(c) \/ Refused(c) \/ Fails(c)
    \/ HostReplace
    \/ \E h \in Hosts : HostStop(h)

Spec == Init /\ [][Next]_vars

------------------------------------------------------------------------------
(* Properties.                                                              *)

CallType ==
    [pc : {"idle", "admit", "admitted", "calling", "complete", "recover", "observe", "refine"},
     id : Ids, host : Hosts, outcome : Outcomes \cup {"NONE"}]

RowType == [state : States, request : Requests, token : 0 .. MaxHost]

EvidenceType == Ids \X {"prepared", "dispatch-started", "outcome", "reconciled"} \X States

(* The type invariant: every variable keeps its type.                       *)
TypeOK ==
    /\ op \in [Ids -> RowType]
    /\ evidence \subseteq EvidenceType
    /\ caller \in [Callers -> CallType]
    /\ world \in [Ids -> {"unasked", "asked", "done", "rejected"}]
    /\ calls \in [Ids -> Nat]
    /\ acked \subseteq Ids \X Requests
    /\ owner \in Hosts
    /\ alive \subseteq Hosts
    /\ faults \in 0 .. MaxFaults

(* EFFECT-004 to 006: whatever is retried, recovered, reconciled or lost,   *)
(* and whichever Hosts take part, the port is entered at most once.         *)
AtMostOneCall == \A e \in Ids : calls[e] <= 1

(* EFFECT-008 and 013: the record never contradicts the world.  What it     *)
(* calls SUCCEEDED was done; what it calls FAILED was not and, since no     *)
(* call is on its way, never will be.                                       *)
RecordIsTrue ==
    \A e \in Ids :
        /\ op[e].state = "SUCCEEDED" => world[e] = "done"
        /\ op[e].state = "FAILED" =>
              \/ world[e] = "rejected"
              \/ world[e] = "unasked" /\ \A c \in Callers :
                    caller[c].id = e => caller[c].pc # "admitted"

(* EFFECT-012: each stage the row has passed left its evidence, and no      *)
(* evidence of a definitive outcome exists beside a row that says otherwise.*)
EvidenceMatches ==
    \A e \in Ids :
        LET Seen(kind, state) == <<e, kind, state>> \in evidence IN
        /\ op[e].state # "ABSENT" => Seen("prepared", "PREPARED")
        /\ op[e].state \in Outcomes \cup {"DISPATCHING"} => Seen("dispatch-started", "DISPATCHING")
        /\ op[e].state \in Outcomes =>
              Seen("outcome", op[e].state) \/ Seen("reconciled", op[e].state)
        /\ \A kind \in {"outcome", "reconciled"}, state \in {"SUCCEEDED", "FAILED"} :
              Seen(kind, state) => op[e].state = state

(* EFFECT-002: every preparer that was acknowledged brought the request     *)
(* that the record holds, and so the one that is sent.                      *)
OneRequestPerKey == \A p \in acked : op[p[1]].state # "ABSENT" /\ op[p[1]].request = p[2]

(* EFFECT-013: a dispatch is completed only by the Host that admitted it,   *)
(* while that Host still owns the fence.                                    *)
CompletedByItsHost ==
    [][\A e \in Ids :
          op[e].state = "DISPATCHING" /\ op'[e].state \in {"SUCCEEDED", "FAILED"} =>
              op[e].token = owner]_vars

(* The record, its evidence and what preparers were told agree with what    *)
(* was done.                                                                *)
RecordsAreTrue == TypeOK /\ RecordIsTrue /\ EvidenceMatches /\ OneRequestPerKey

Truth == INSTANCE EffectTruth WITH
             record <- [e \in Ids |-> op[e].state],
             asked <- [e \in Ids |-> op[e].request]

(* The service, with its Hosts, callers and failures, keeps the promise.    *)
ImplementsTruth == Truth!Spec
=============================================================================
