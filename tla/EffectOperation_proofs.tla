------------------------- MODULE EffectOperation_proofs -------------------------
(***************************************************************************)
(* Proofs, for every set of ids, requests and callers and any number of    *)
(* Hosts and failures, of what the run of MCEffectOperation checks.  The    *)
(* argument: only the caller that won the admission of an id can enter the *)
(* port, there is at most one such caller, and it can win only before the  *)
(* port was ever entered.                                                  *)
(***************************************************************************)
EXTENDS EffectOperation, TLAPS

(* What a call of the service knows when it stands where it stands.         *)
CallOK(c) ==
    LET x == caller[c]
        e == x.id
    IN  /\ x.pc \in Dispatching => op[e].state \notin {"ABSENT", "PREPARED"}
        /\ x.pc = "admitted" => calls[e] = 0
        /\ x.pc = "complete" => x.outcome # "NONE"
        /\ x.pc \in {"complete", "refine"} /\ x.outcome = "SUCCEEDED" => world[e] = "done"
        /\ x.pc = "complete" /\ x.outcome = "FAILED" => world[e] \in {"rejected", "unasked"}
        /\ x.pc = "refine" => x.outcome # "UNCERTAIN"
        /\ x.pc = "refine" /\ x.outcome = "FAILED" => world[e] = "rejected"

(* At most one call of the service dispatches an id at any time.            *)
Alone(c, d) ==
    caller[c].pc \in Dispatching /\ caller[d].pc \in Dispatching /\ caller[c].id = caller[d].id
        => c = d

RowOK(e) ==
    /\ calls[e] <= 1
    /\ calls[e] = 0 <=> world[e] = "unasked"
    /\ op[e].state \in {"ABSENT", "PREPARED"} => calls[e] = 0
    /\ op[e].state = "SUCCEEDED" => world[e] = "done"
    /\ op[e].state = "FAILED" =>
          \/ world[e] = "rejected"
          \/ world[e] = "unasked" /\ \A c \in Callers :
                caller[c].id = e => caller[c].pc # "admitted"

Inv ==
    /\ TypeOK
    /\ \A c \in Callers : CallOK(c)
    /\ \A c, d \in Callers : Alone(c, d)
    /\ \A e \in Ids : RowOK(e)

------------------------------------------------------------------------------
(* Type correctness.                                                        *)

(* The empty table, one idle call per caller and the first Host are typed.   *)
LEMMA InitType == Init => TypeOK
  BY BoundsAssumption DEF Init, TypeOK, RowType, EvidenceType, States, CallType, Call, Hosts, Outcomes

Stages == {"idle", "admit", "admitted", "calling", "complete", "recover", "observe", "refine"}

(* Moving a call to another stage keeps it a typed call.                     *)
LEMMA MovedType ==
    ASSUME TypeOK, NEW c \in Callers, NEW pc \in Stages
    PROVE  /\ Goto(c, pc) => caller' \in [Callers -> CallType]
           /\ \A outcome \in Outcomes \cup {"NONE"} :
                 Learn(c, pc, outcome) => caller' \in [Callers -> CallType]
           /\ \A e \in Ids, h \in Hosts :
                 Become(c, Call(pc, e, h, "NONE")) => caller' \in [Callers -> CallType]
  <1>1. caller \in [Callers -> CallType]
    BY DEF TypeOK
  <1>2. ASSUME Goto(c, pc) PROVE caller' \in [Callers -> CallType]
    BY <1>1, <1>2 DEF Goto, CallType, Stages
  <1>3. ASSUME NEW outcome \in Outcomes \cup {"NONE"}, Learn(c, pc, outcome)
        PROVE  caller' \in [Callers -> CallType]
    <2>1. caller' = [caller EXCEPT ![c] = [caller[c] EXCEPT !.pc = pc, !.outcome = outcome]]
      BY <1>1, <1>3 DEF Learn
    <2>2. [caller[c] EXCEPT !.pc = pc, !.outcome = outcome] \in CallType
      BY <1>1, <1>3 DEF CallType, Stages
    <2> QED BY <1>1, <2>1, <2>2
  <1>4. ASSUME NEW e \in Ids, NEW h \in Hosts, Become(c, Call(pc, e, h, "NONE"))
        PROVE  caller' \in [Callers -> CallType]
    BY <1>1, <1>4 DEF Become, Call, CallType, Stages
  <1> QED BY <1>2, <1>3, <1>4

(* What each statement may make of the row, and the evidence it leaves.     *)
LEMMA StatementType ==
    ASSUME TypeOK, NEW e \in Ids,
           \/ \E q \in Requests : InsertPrepared(e, q)
           \/ \E h \in Hosts : BeginDispatch(e, h)
           \/ \E h \in Hosts, outcome \in Outcomes : CompleteDispatch(e, h, outcome)
           \/ RecoverDispatchAsUncertain(e)
           \/ \E outcome \in Outcomes \cup {"NONE"} : RefineUncertain(e, outcome)
    PROVE  op' \in [Ids -> RowType] /\ evidence' \subseteq EvidenceType
  <1>1. op \in [Ids -> RowType] /\ evidence \subseteq EvidenceType
    BY DEF TypeOK
  <1>2. 0 \in 0 .. MaxHost /\ Hosts \subseteq 0 .. MaxHost
    BY BoundsAssumption DEF Hosts
  <1>3. Outcomes \subseteq States /\ {"PREPARED", "DISPATCHING", "UNCERTAIN"} \subseteq States
    BY DEF Outcomes, States
  <1>4. ASSUME NEW q \in Requests, InsertPrepared(e, q)
        PROVE  op' \in [Ids -> RowType] /\ evidence' \subseteq EvidenceType
    <2>1. op' \in [Ids -> RowType]
      BY <1>1, <1>2, <1>3, <1>4 DEF InsertPrepared, RowType
    <2>2. op'[e].state \in States
      BY <2>1 DEF RowType
    <2> QED BY <1>1, <1>4, <2>1, <2>2 DEF InsertPrepared, EvidenceType
  <1>5. ASSUME NEW h \in Hosts, BeginDispatch(e, h)
        PROVE  op' \in [Ids -> RowType] /\ evidence' \subseteq EvidenceType
    <2>1. op' \in [Ids -> RowType]
      BY <1>1, <1>2, <1>3, <1>5 DEF BeginDispatch, RowType
    <2>2. <<e, "dispatch-started", "DISPATCHING">> \in EvidenceType
      BY <1>3 DEF EvidenceType
    <2> QED BY <1>1, <1>5, <2>1, <2>2 DEF BeginDispatch
  <1>6. ASSUME NEW h \in Hosts, NEW outcome \in Outcomes, CompleteDispatch(e, h, outcome)
        PROVE  op' \in [Ids -> RowType] /\ evidence' \subseteq EvidenceType
    <2>1. op' \in [Ids -> RowType]
      BY <1>1, <1>3, <1>6 DEF CompleteDispatch, RowType
    <2> QED BY <1>1, <1>3, <1>6, <2>1 DEF CompleteDispatch, EvidenceType
  <1>7. ASSUME RecoverDispatchAsUncertain(e)
        PROVE  op' \in [Ids -> RowType] /\ evidence' \subseteq EvidenceType
    <2>1. op' \in [Ids -> RowType]
      BY <1>1, <1>3, <1>7 DEF RecoverDispatchAsUncertain, RowType
    <2> QED BY <1>1, <1>3, <1>7, <2>1 DEF RecoverDispatchAsUncertain, EvidenceType
  <1>8. ASSUME NEW outcome \in Outcomes \cup {"NONE"}, RefineUncertain(e, outcome)
        PROVE  op' \in [Ids -> RowType] /\ evidence' \subseteq EvidenceType
    <2>1. op' \in [Ids -> RowType]
      <3>1. CASE op[e].state = "UNCERTAIN" /\ outcome # "NONE"
        <4>1. outcome \in States /\ op' = [op EXCEPT ![e].state = outcome]
          BY <1>3, <1>8, <3>1 DEF RefineUncertain
        <4> QED BY <1>1, <4>1 DEF RowType
      <3>2. CASE ~(op[e].state = "UNCERTAIN" /\ outcome # "NONE")
        BY <1>1, <1>8, <3>2 DEF RefineUncertain
      <3> QED BY <3>1, <3>2
    <2>2. op'[e].state \in States
      BY <2>1 DEF RowType
    <2> QED BY <1>1, <1>8, <2>1, <2>2 DEF RefineUncertain, EvidenceType
  <1> QED BY <1>4, <1>5, <1>6, <1>7, <1>8

(* Every action of the service keeps the types.                              *)
LEMMA TypeStep ==
    ASSUME Inv, Next
    PROVE  TypeOK'
  <1> USE DEF Inv
  <1>1. ASSUME NEW e \in Ids, NEW q \in Requests, Prepare(e, q) PROVE TypeOK'
    <2>1. op' \in [Ids -> RowType] /\ evidence' \subseteq EvidenceType
      BY <1>1, StatementType DEF Prepare
    <2> QED BY <1>1, <2>1, BoundsAssumption DEF Prepare, TypeOK, hosts
  <1>2. ASSUME NEW e \in Ids, ProviderActs(e) PROVE TypeOK'
    BY <1>2 DEF ProviderActs, TypeOK, hosts
  <1>3. ASSUME NEW c \in Callers, NEW e \in Ids, NEW h \in Hosts,
               StartDispatch(c, e, h) \/ StartRecover(c, e, h) \/ StartReconcile(c, e, h)
        PROVE  TypeOK'
    <2>1. PICK pc \in {"admit", "recover", "observe"} : Become(c, Call(pc, e, h, "NONE"))
      BY <1>3 DEF StartDispatch, StartRecover, StartReconcile, Start
    <2>2. caller' \in [Callers -> CallType]
      BY <2>1, MovedType DEF Stages
    <2> QED BY <1>3, <2>2 DEF StartDispatch, StartRecover, StartReconcile, Start, TypeOK, hosts
  <1>4. ASSUME NEW c \in Callers, Admit(c) \/ Complete(c) \/ Recover(c) \/ Refine(c)
        PROVE  TypeOK'
    <2>1. caller[c] \in CallType /\ owner \in Hosts
      BY DEF TypeOK
    <2>2. caller' \in [Callers -> CallType]
      BY <1>4, MovedType DEF Admit, Complete, Recover, Refine, Stages
    <2>3. op' \in [Ids -> RowType] /\ evidence' \subseteq EvidenceType
      <3>1. CASE Admit(c)
        BY <2>1, <3>1, StatementType DEF Admit, CallType, TypeOK
      <3>2. CASE Complete(c)
        <4>1. caller[c].outcome \in Outcomes
          BY <2>1, <3>2 DEF Complete, CallOK, CallType
        <4> QED BY <2>1, <3>2, <4>1, StatementType DEF Complete, CallType, TypeOK
      <3>3. CASE Recover(c)
        BY <2>1, <3>3, StatementType DEF Recover, CallType, TypeOK
      <3>4. CASE Refine(c)
        BY <2>1, <3>4, StatementType DEF Refine, CallType, TypeOK
      <3> QED BY <1>4, <3>1, <3>2, <3>3, <3>4
    <2> QED BY <1>4, <2>2, <2>3 DEF Admit, Complete, Recover, Refine, TypeOK, hosts
  <1>5. ASSUME NEW c \in Callers, AbortBeforeCall(c) \/ PortAnswers(c) \/ Observe(c)
        PROVE  TypeOK'
    <2>1. caller' \in [Callers -> CallType]
      <3>1. PICK pc \in {"complete", "refine"}, outcome \in Outcomes \cup {"NONE"} :
               Learn(c, pc, outcome)
        BY <1>5 DEF AbortBeforeCall, PortAnswers, Observe, Evident, Outcomes
      <3> QED BY <3>1, MovedType DEF Stages
    <2> QED BY <1>5, <2>1 DEF AbortBeforeCall, PortAnswers, Observe, TypeOK, hosts
  <1>6. ASSUME NEW c \in Callers, CallPort(c) PROVE TypeOK'
    <2>1. caller' \in [Callers -> CallType]
      BY <1>6, MovedType DEF CallPort, Stages
    <2>2. caller[c].id \in Ids
      BY DEF TypeOK, CallType
    <2>3. /\ calls' \in [Ids -> Nat]
          /\ world' \in [Ids -> {"unasked", "asked", "done", "rejected"}]
      BY <1>6, <2>2 DEF CallPort, TypeOK
    <2> QED BY <1>6, <2>1, <2>3 DEF CallPort, TypeOK, hosts
  <1>7. ASSUME NEW c \in Callers, Refused(c) PROVE TypeOK'
    <2>1. caller' \in [Callers -> CallType]
      BY <1>7, MovedType DEF Refused, Stages
    <2> QED BY <1>7, <2>1 DEF Refused, TypeOK, hosts
  <1>8. ASSUME NEW c \in Callers, Fails(c) PROVE TypeOK'
    <2>1. caller[c] \in CallType
      BY DEF TypeOK
    <2>2. caller' \in [Callers -> CallType]
      BY <1>8, MovedType DEF Fails, Stages
    <2>3. caller[c].pc = "complete" => caller[c].outcome \in Outcomes
      BY <2>1 DEF CallOK, CallType
    <2>4. op' \in [Ids -> RowType] /\ evidence' \subseteq EvidenceType
      BY <1>8, <2>1, <2>3, StatementType DEF Fails, CallType, TypeOK
    <2>5. faults' \in 0 .. MaxFaults
      BY <1>8, BoundsAssumption DEF Fails, TypeOK
    <2> QED BY <1>8, <2>2, <2>4, <2>5 DEF Fails, TypeOK, hosts
  <1>9. ASSUME HostReplace \/ \E h \in Hosts : HostStop(h) PROVE TypeOK'
    <2>1. caller' \in [Callers -> CallType]
      <3>1. PICK dead : Kill(dead)
        BY <1>9 DEF HostReplace, HostStop
      <3> QED BY <3>1 DEF Kill, TypeOK, CallType
    <2>2. owner' \in Hosts /\ alive' \subseteq Hosts
      <3>1. owner \in 1 .. MaxHost /\ alive \subseteq 1 .. MaxHost
        BY DEF TypeOK, Hosts
      <3>2. CASE HostReplace
        <4>1. PICK dead \in SUBSET {owner} : alive' = (alive \ dead) \cup {owner + 1}
          BY <3>2 DEF HostReplace
        <4>2. owner' = owner + 1 /\ owner + 1 \in 1 .. MaxHost
          BY <3>1, <3>2, BoundsAssumption DEF HostReplace
        <4> QED BY <3>1, <4>1, <4>2 DEF Hosts
      <3>3. CASE \E h \in Hosts : HostStop(h)
        BY <3>1, <3>3 DEF HostStop, Hosts
      <3> QED BY <1>9, <3>2, <3>3
    <2> QED BY <1>9, <2>1, <2>2 DEF HostReplace, HostStop, TypeOK
  <1> QED BY <1>1, <1>2, <1>3, <1>4, <1>5, <1>6, <1>7, <1>8, <1>9 DEF Next

------------------------------------------------------------------------------
(* Single callers and single rows.                                          *)

(* Where a moved call stands afterwards; the other calls stay as they are.  *)
LEMMA Moved ==
    ASSUME TypeOK, NEW c \in Callers, NEW pc
    PROVE  /\ Goto(c, pc) =>
                 /\ caller'[c].pc = pc /\ caller'[c].id = caller[c].id
                 /\ caller'[c].outcome = caller[c].outcome
                 /\ \A d \in Callers \ {c} : caller'[d] = caller[d]
           /\ \A outcome : Learn(c, pc, outcome) =>
                 /\ caller'[c].pc = pc /\ caller'[c].id = caller[c].id
                 /\ caller'[c].outcome = outcome
                 /\ \A d \in Callers \ {c} : caller'[d] = caller[d]
           /\ \A e, h : Become(c, Call(pc, e, h, "NONE")) =>
                 /\ caller'[c].pc = pc /\ caller'[c].id = e
                 /\ caller'[c].outcome = "NONE"
                 /\ \A d \in Callers \ {c} : caller'[d] = caller[d]
  <1>1. caller \in [Callers -> CallType]
    BY DEF TypeOK
  <1>2. ASSUME Goto(c, pc)
        PROVE  /\ caller'[c].pc = pc /\ caller'[c].id = caller[c].id
               /\ caller'[c].outcome = caller[c].outcome
               /\ \A d \in Callers \ {c} : caller'[d] = caller[d]
    BY <1>1, <1>2 DEF Goto, CallType
  <1>3. ASSUME NEW outcome, Learn(c, pc, outcome)
        PROVE  /\ caller'[c].pc = pc /\ caller'[c].id = caller[c].id
               /\ caller'[c].outcome = outcome
               /\ \A d \in Callers \ {c} : caller'[d] = caller[d]
    BY <1>1, <1>3 DEF Learn, CallType
  <1>4. ASSUME NEW e, NEW h, Become(c, Call(pc, e, h, "NONE"))
        PROVE  /\ caller'[c].pc = pc /\ caller'[c].id = e
               /\ caller'[c].outcome = "NONE"
               /\ \A d \in Callers \ {c} : caller'[d] = caller[d]
    BY <1>1, <1>4 DEF Become, Call
  <1> QED BY <1>2, <1>3, <1>4

(* What each statement makes of the row it names; the others stay.          *)
LEMMA StatementStep ==
    ASSUME TypeOK, NEW e \in Ids
    PROVE  /\ \A q : InsertPrepared(e, q) =>
                 /\ \A f \in Ids \ {e} : op'[f] = op[f]
                 /\ op[e].state = "ABSENT" => op'[e].state = "PREPARED" /\ op'[e].request = q
                 /\ op[e].state # "ABSENT" => op'[e] = op[e] /\ op[e].request = q
           /\ \A h : BeginDispatch(e, h) =>
                 /\ \A f \in Ids \ {e} : op'[f] = op[f]
                 /\ op[e].state = "PREPARED" /\ op'[e].state = "DISPATCHING"
                 /\ op'[e].request = op[e].request
           /\ \A h, outcome : CompleteDispatch(e, h, outcome) =>
                 /\ \A f \in Ids \ {e} : op'[f] = op[f]
                 /\ op[e].state = "DISPATCHING" /\ op[e].token = h /\ op'[e].state = outcome
                 /\ op'[e].request = op[e].request
           /\ RecoverDispatchAsUncertain(e) =>
                 /\ \A f \in Ids \ {e} : op'[f] = op[f]
                 /\ op[e].state = "DISPATCHING" /\ op'[e].state = "UNCERTAIN"
                 /\ op'[e].request = op[e].request
           /\ \A outcome : RefineUncertain(e, outcome) =>
                 /\ \A f \in Ids \ {e} : op'[f] = op[f]
                 /\ \/ /\ op[e].state = "UNCERTAIN" /\ outcome # "NONE" /\ op'[e].state = outcome
                       /\ op'[e].request = op[e].request
                    \/ /\ op'[e] = op[e]
                       /\ op[e].state # "UNCERTAIN" \/ outcome = "NONE"
  <1>1. op \in [Ids -> RowType]
    BY DEF TypeOK
  <1>2. ASSUME NEW q, InsertPrepared(e, q)
        PROVE  /\ \A f \in Ids \ {e} : op'[f] = op[f]
               /\ op[e].state = "ABSENT" => op'[e].state = "PREPARED" /\ op'[e].request = q
               /\ op[e].state # "ABSENT" => op'[e] = op[e] /\ op[e].request = q
    BY <1>1, <1>2 DEF InsertPrepared
  <1>3. ASSUME NEW h, BeginDispatch(e, h)
        PROVE  /\ \A f \in Ids \ {e} : op'[f] = op[f]
               /\ op[e].state = "PREPARED" /\ op'[e].state = "DISPATCHING"
               /\ op'[e].request = op[e].request
    BY <1>1, <1>3 DEF BeginDispatch, RowType
  <1>4. ASSUME NEW h, NEW outcome, CompleteDispatch(e, h, outcome)
        PROVE  /\ \A f \in Ids \ {e} : op'[f] = op[f]
               /\ op[e].state = "DISPATCHING" /\ op[e].token = h /\ op'[e].state = outcome
               /\ op'[e].request = op[e].request
    BY <1>1, <1>4 DEF CompleteDispatch, RowType
  <1>5. ASSUME RecoverDispatchAsUncertain(e)
        PROVE  /\ \A f \in Ids \ {e} : op'[f] = op[f]
               /\ op[e].state = "DISPATCHING" /\ op'[e].state = "UNCERTAIN"
               /\ op'[e].request = op[e].request
    BY <1>1, <1>5 DEF RecoverDispatchAsUncertain, RowType
  <1>6. ASSUME NEW outcome, RefineUncertain(e, outcome)
        PROVE  /\ \A f \in Ids \ {e} : op'[f] = op[f]
               /\ \/ /\ op[e].state = "UNCERTAIN" /\ outcome # "NONE" /\ op'[e].state = outcome
                     /\ op'[e].request = op[e].request
                  \/ /\ op'[e] = op[e]
                     /\ op[e].state # "UNCERTAIN" \/ outcome = "NONE"
    <2>1. CASE op[e].state = "UNCERTAIN" /\ outcome # "NONE"
      BY <1>1, <1>6, <2>1 DEF RefineUncertain, RowType
    <2>2. CASE ~(op[e].state = "UNCERTAIN" /\ outcome # "NONE")
      BY <1>6, <2>2 DEF RefineUncertain
    <2> QED BY <2>1, <2>2
  <1> QED BY <1>2, <1>3, <1>4, <1>5, <1>6

------------------------------------------------------------------------------
(* The inductive invariant.                                                 *)

(* The initial states satisfy the inductive invariant.                       *)
LEMMA InvInit == Init => Inv
  <1> SUFFICES ASSUME Init PROVE Inv
    OBVIOUS
  <1>1. TypeOK
    BY InitType
  <1>2. /\ \A c \in Callers : caller[c].pc = "idle"
        /\ \A e \in Ids : op[e].state = "ABSENT" /\ calls[e] = 0 /\ world[e] = "unasked"
    BY DEF Init, Call
  <1> QED BY <1>1, <1>2 DEF Inv, CallOK, Alone, RowOK, Dispatching

(* The part of the invariant that is not the types.                         *)
Rest ==
    /\ \A c \in Callers : CallOK(c)
    /\ \A c, d \in Callers : Alone(c, d)
    /\ \A e \in Ids : RowOK(e)

(* A call moves and nothing else does.                                      *)
LEMMA MoveStep ==
    ASSUME Inv, UNCHANGED <<op, world, calls>>, NEW c \in Callers,
           \A d \in Callers \ {c} : caller'[d] = caller[d],
           caller'[c].pc # "admitted",
           caller'[c].pc \in Dispatching =>
               caller[c].pc \in Dispatching /\ caller'[c].id = caller[c].id,
           CallOK(c)'
    PROVE  Rest'
  <1>1. ASSUME NEW d \in Callers PROVE CallOK(d)'
    BY <1>1 DEF Inv, CallOK
  <1>2. ASSUME NEW a \in Callers, NEW b \in Callers PROVE Alone(a, b)'
    BY <1>2 DEF Inv, Alone
  <1>3. ASSUME NEW e \in Ids PROVE RowOK(e)'
    BY <1>3 DEF Inv, RowOK
  <1> QED BY <1>1, <1>2, <1>3 DEF Rest

(* A row moves forward under a call that ends or is the one admitted.       *)
LEMMA WriteStep ==
    ASSUME Inv, UNCHANGED <<world, calls>>, NEW c \in Callers, NEW e \in Ids,
           caller[c].id = e,
           \A d \in Callers \ {c} : caller'[d] = caller[d],
           \A f \in Ids \ {e} : op'[f] = op[f],
           \/ caller'[c].pc = "idle" /\ (op'[e] = op[e] \/ op[e].state # "ABSENT")
           \/ /\ caller'[c].pc = "admitted" /\ caller'[c].id = e
              /\ op[e].state = "PREPARED",
           \/ op'[e] = op[e] /\ caller'[c].pc = "idle"
           \/ op'[e].state \in {"DISPATCHING", "UNCERTAIN"}
           \/ /\ op'[e].state = "SUCCEEDED" /\ caller'[c].pc = "idle"
              /\ world[e] = "done"
           \/ /\ op'[e].state = "FAILED" /\ caller'[c].pc = "idle"
              /\ \/ world[e] = "rejected"
                 \/ world[e] = "unasked" /\ caller[c].pc = "complete"
    PROVE  Rest'
  <1>1. ASSUME NEW d \in Callers PROVE CallOK(d)'
    <2>1. caller[d].id \in Ids
      BY DEF Inv, TypeOK, CallType
    <2>2. CASE d = c
      BY <2>2 DEF Inv, CallOK, RowOK, Dispatching
    <2>3. CASE d # c
      BY <2>1, <2>3 DEF Inv, CallOK
    <2> QED BY <2>2, <2>3
  <1>2. ASSUME NEW a \in Callers, NEW b \in Callers PROVE Alone(a, b)'
    BY <1>2 DEF Inv, Alone, CallOK, Dispatching
  <1>3. ASSUME NEW f \in Ids PROVE RowOK(f)'
    <2>1. CASE f # e
      <3>1. op'[f] = op[f] /\ \A d \in Callers : caller'[d].id = f /\ caller'[d].pc = "admitted"
                => caller[d].id = f /\ caller[d].pc = "admitted"
        BY <2>1
      <3> QED BY <3>1 DEF Inv, RowOK
    <2>2. CASE f = e
      <3>1. op'[e].state = "FAILED" => caller'[c].pc = "idle"
        BY DEF Inv, CallOK
      <3>2. ASSUME op'[e].state = "FAILED", op'[e] # op[e], world[e] # "rejected",
                   NEW d \in Callers, caller'[d].id = e
            PROVE  caller'[d].pc # "admitted"
        BY <3>1, <3>2 DEF Inv, Alone, Dispatching
      <3> QED BY <2>2, <3>1, <3>2 DEF Inv, RowOK
    <2> QED BY <2>1, <2>2
  <1> QED BY <1>1, <1>2, <1>3 DEF Rest

(* Every action keeps the part of the invariant beyond the types.            *)
LEMMA RestStep ==
    ASSUME Inv, Next
    PROVE  Rest'
  <1>0. TypeOK /\ \A c \in Callers : caller[c].id \in Ids /\ caller[c].pc \in Stages
    BY DEF Inv, TypeOK, CallType, Stages
  <1>1. ASSUME NEW e \in Ids, NEW q \in Requests, Prepare(e, q) PROVE Rest'
    <2>1. /\ \A f \in Ids \ {e} : op'[f] = op[f]
          /\ \/ op'[e] = op[e]
             \/ op[e].state = "ABSENT" /\ op'[e].state = "PREPARED"
          /\ UNCHANGED <<caller, world, calls>>
      BY <1>0, <1>1, StatementStep DEF Prepare
    <2>2. \A c \in Callers : CallOK(c)'
      BY <1>0, <2>1 DEF Inv, CallOK
    <2>3. \A c, d \in Callers : Alone(c, d)'
      BY <2>1 DEF Inv, Alone
    <2>4. \A f \in Ids : RowOK(f)'
      BY <2>1 DEF Inv, RowOK
    <2> QED BY <2>2, <2>3, <2>4 DEF Rest
  <1>2. ASSUME NEW e \in Ids, ProviderActs(e) PROVE Rest'
    <2>1. /\ \A f \in Ids \ {e} : world'[f] = world[f]
          /\ world[e] = "asked" /\ world'[e] \in {"done", "rejected"}
          /\ UNCHANGED <<op, caller, calls>>
      BY <1>0, <1>2 DEF ProviderActs, TypeOK
    <2>2. \A c \in Callers : CallOK(c)'
      BY <1>0, <2>1 DEF Inv, CallOK
    <2>3. \A c, d \in Callers : Alone(c, d)'
      BY <2>1 DEF Inv, Alone
    <2>4. \A f \in Ids : RowOK(f)'
      BY <2>1 DEF Inv, RowOK
    <2> QED BY <2>2, <2>3, <2>4 DEF Rest
  <1>3. ASSUME NEW c \in Callers, NEW e \in Ids, NEW h \in Hosts,
               StartDispatch(c, e, h) \/ StartRecover(c, e, h) \/ StartReconcile(c, e, h)
        PROVE  Rest'
    <2>1. PICK pc \in {"admit", "recover", "observe"} :
             Become(c, Call(pc, e, h, "NONE")) /\ UNCHANGED <<op, world, calls>>
      BY <1>3 DEF StartDispatch, StartRecover, StartReconcile, Start
    <2>2. caller'[c].pc = pc /\ \A d \in Callers \ {c} : caller'[d] = caller[d]
      BY <1>0, <2>1, Moved
    <2> QED BY <2>1, <2>2, MoveStep DEF CallOK, Dispatching
  <1>4. ASSUME NEW c \in Callers, Admit(c) PROVE Rest'
    <2>1. CASE BeginDispatch(caller[c].id, caller[c].host) /\ Goto(c, "admitted")
      <3>1. /\ caller'[c].pc = "admitted" /\ caller'[c].id = caller[c].id
            /\ \A d \in Callers \ {c} : caller'[d] = caller[d]
        BY <1>0, <2>1, Moved
      <3>2. /\ \A f \in Ids \ {caller[c].id} : op'[f] = op[f]
            /\ op[caller[c].id].state = "PREPARED" /\ op'[caller[c].id].state = "DISPATCHING"
        BY <1>0, <2>1, StatementStep
      <3>3. UNCHANGED <<world, calls>>
        BY <1>4 DEF Admit
      <3> QED BY <1>0, <3>1, <3>2, <3>3, WriteStep
    <2>2. CASE Goto(c, "idle") /\ UNCHANGED op
      <3>1. caller'[c].pc = "idle" /\ \A d \in Callers \ {c} : caller'[d] = caller[d]
        BY <1>0, <2>2, Moved
      <3> QED BY <1>4, <2>2, <3>1, MoveStep DEF Admit, CallOK, Dispatching
    <2> QED BY <1>4, <2>1, <2>2 DEF Admit
  <1>5. ASSUME NEW c \in Callers, AbortBeforeCall(c) PROVE Rest'
    <2>1. /\ caller'[c].pc = "complete" /\ caller'[c].id = caller[c].id
          /\ caller'[c].outcome = "FAILED"
          /\ \A d \in Callers \ {c} : caller'[d] = caller[d]
      BY <1>0, <1>5, Moved DEF AbortBeforeCall
    <2>2. caller[c].pc = "admitted" /\ UNCHANGED <<op, world, calls>>
      BY <1>5 DEF AbortBeforeCall
    <2>3. CallOK(c)'
      BY <1>0, <2>1, <2>2 DEF Inv, CallOK, RowOK, Dispatching
    <2> QED BY <2>1, <2>2, <2>3, MoveStep DEF Dispatching
  <1>6. ASSUME NEW c \in Callers, CallPort(c) PROVE Rest'
    <2> DEFINE e == caller[c].id
    <2>1. /\ caller'[c].pc = "calling" /\ caller'[c].id = e
          /\ \A d \in Callers \ {c} : caller'[d] = caller[d]
      BY <1>0, <1>6, Moved DEF CallPort
    <2>2. /\ caller[c].pc = "admitted" /\ calls[e] = 0 /\ world[e] = "unasked"
          /\ op[e].state \notin {"ABSENT", "PREPARED"} /\ e \in Ids
      BY <1>0, <1>6 DEF Inv, CallPort, CallOK, RowOK, Dispatching
    <2>3. /\ calls'[e] = 1 /\ world'[e] = "asked" /\ UNCHANGED op
          /\ \A f \in Ids \ {e} : calls'[f] = calls[f] /\ world'[f] = world[f]
      BY <1>0, <1>6, <2>2 DEF CallPort, TypeOK
    <2>4. ASSUME NEW d \in Callers \ {c} PROVE CallOK(d)'
      <3>1. CallOK(d) /\ Alone(c, d)
        BY DEF Inv
      <3>2. caller'[d] = caller[d] /\ caller[d].id \in Ids
        BY <1>0, <2>1
      <3>3. CASE caller[d].id = e
        <4>1. caller[d].pc \notin Dispatching
          BY <2>2, <3>1, <3>3 DEF Alone, Dispatching
        <4> QED BY <2>2, <2>3, <3>1, <3>2, <3>3, <4>1 DEF CallOK, Dispatching
      <3>4. CASE caller[d].id # e
        BY <2>3, <3>1, <3>2, <3>4 DEF CallOK
      <3> QED BY <3>3, <3>4
    <2>5. CallOK(c)'
      BY <2>1, <2>2, <2>3 DEF CallOK, Dispatching
    <2>6. \A a, b \in Callers : Alone(a, b)'
      BY <2>1, <2>2 DEF Inv, Alone, Dispatching
    <2>7. ASSUME NEW f \in Ids PROVE RowOK(f)'
      <3>1. CASE f = e
        BY <2>1, <2>2, <2>3, <3>1 DEF Inv, RowOK
      <3>2. CASE f # e
        BY <2>1, <2>3, <3>2 DEF Inv, RowOK
      <3> QED BY <3>1, <3>2
    <2> QED BY <2>4, <2>5, <2>6, <2>7 DEF Rest
  <1>7. ASSUME NEW c \in Callers, PortAnswers(c) PROVE Rest'
    <2>1. PICK outcome \in Evident(caller[c].id) \cup {"UNCERTAIN"} : Learn(c, "complete", outcome)
      BY <1>7 DEF PortAnswers
    <2>2. /\ caller'[c].pc = "complete" /\ caller'[c].id = caller[c].id
          /\ caller'[c].outcome = outcome
          /\ \A d \in Callers \ {c} : caller'[d] = caller[d]
      BY <1>0, <2>1, Moved
    <2>3. caller[c].pc = "calling" /\ UNCHANGED <<op, world, calls>>
      BY <1>7 DEF PortAnswers
    <2>4. CallOK(c)'
      BY <1>0, <2>1, <2>2, <2>3 DEF Inv, CallOK, Evident, Dispatching
    <2> QED BY <2>2, <2>3, <2>4, MoveStep DEF Dispatching
  <1>8. ASSUME NEW c \in Callers, Observe(c) PROVE Rest'
    <2>1. PICK outcome \in Evident(caller[c].id) \cup {"NONE"} : Learn(c, "refine", outcome)
      BY <1>8 DEF Observe
    <2>2. /\ caller'[c].pc = "refine" /\ caller'[c].id = caller[c].id
          /\ caller'[c].outcome = outcome
          /\ \A d \in Callers \ {c} : caller'[d] = caller[d]
      BY <1>0, <2>1, Moved
    <2>3. UNCHANGED <<op, world, calls>>
      BY <1>8 DEF Observe
    <2>4. CallOK(c)'
      BY <1>0, <2>1, <2>2, <2>3 DEF CallOK, Evident, Dispatching
    <2> QED BY <2>2, <2>3, <2>4, MoveStep DEF Dispatching
  <1>9. ASSUME NEW c \in Callers,
               Complete(c) \/ Recover(c) \/ Refine(c) \/ Refused(c) \/ Fails(c)
        PROVE  Rest'
    <2> DEFINE e == caller[c].id
               x == caller[c]
    <2>1. caller'[c].pc = "idle" /\ \A d \in Callers \ {c} : caller'[d] = caller[d]
      BY <1>0, <1>9, Moved DEF Complete, Recover, Refine, Refused, Fails
    <2>2. UNCHANGED <<world, calls>> /\ e \in Ids
      BY <1>0, <1>9 DEF Complete, Recover, Refine, Refused, Fails
    <2>3. CallOK(c)
      BY DEF Inv
    <2>4. \/ UNCHANGED op
          \/ x.pc = "admit" /\ BeginDispatch(x.id, x.host)
          \/ x.pc = "complete" /\ CompleteDispatch(x.id, x.host, x.outcome)
          \/ x.pc = "recover" /\ RecoverDispatchAsUncertain(x.id)
          \/ x.pc = "refine" /\ RefineUncertain(x.id, x.outcome)
      BY <1>9 DEF Complete, Recover, Refine, Refused, Fails
    <2>5. CASE UNCHANGED op
      BY <2>1, <2>2, <2>5, MoveStep DEF CallOK, Dispatching
    <2>6. CASE x.pc = "admit" /\ BeginDispatch(x.id, x.host)
      <3>1. /\ \A f \in Ids \ {e} : op'[f] = op[f]
            /\ op[e].state = "PREPARED" /\ op'[e].state = "DISPATCHING"
        BY <1>0, <2>2, <2>6, StatementStep
      <3> QED BY <2>1, <2>2, <3>1, WriteStep
    <2>7. CASE x.pc = "complete" /\ CompleteDispatch(x.id, x.host, x.outcome)
      <3>1. /\ \A f \in Ids \ {e} : op'[f] = op[f]
            /\ op[e].state = "DISPATCHING" /\ op'[e].state = x.outcome
        BY <1>0, <2>2, <2>7, StatementStep
      <3>2. x.outcome \in {"SUCCEEDED", "FAILED", "UNCERTAIN"}
        BY <1>0, <2>3, <2>7 DEF CallOK, TypeOK, CallType, Outcomes
      <3>3. /\ x.outcome = "SUCCEEDED" => world[e] = "done"
            /\ x.outcome = "FAILED" => world[e] \in {"rejected", "unasked"}
        BY <2>3, <2>7 DEF CallOK
      <3> QED BY <2>1, <2>2, <2>7, <3>1, <3>2, <3>3, WriteStep
    <2>8. CASE x.pc = "recover" /\ RecoverDispatchAsUncertain(x.id)
      <3>1. /\ \A f \in Ids \ {e} : op'[f] = op[f]
            /\ op[e].state = "DISPATCHING" /\ op'[e].state = "UNCERTAIN"
        BY <1>0, <2>2, <2>8, StatementStep
      <3> QED BY <2>1, <2>2, <3>1, WriteStep
    <2>9. CASE x.pc = "refine" /\ RefineUncertain(x.id, x.outcome)
      <3>1. /\ \A f \in Ids \ {e} : op'[f] = op[f]
            /\ \/ op[e].state = "UNCERTAIN" /\ x.outcome # "NONE" /\ op'[e].state = x.outcome
               \/ op'[e] = op[e]
        BY <1>0, <2>2, <2>9, StatementStep
      <3>2. x.outcome \in {"SUCCEEDED", "FAILED", "NONE"}
        BY <1>0, <2>3, <2>9 DEF CallOK, TypeOK, CallType, Outcomes
      <3>3. /\ x.outcome = "SUCCEEDED" => world[e] = "done"
            /\ x.outcome = "FAILED" => world[e] = "rejected"
        BY <2>3, <2>9 DEF CallOK
      <3>4. CASE op'[e] = op[e]
        BY <2>1, <2>2, <3>1, <3>4, WriteStep
      <3>5. CASE op[e].state = "UNCERTAIN" /\ op'[e].state = "SUCCEEDED" /\ world[e] = "done"
        BY <2>1, <2>2, <3>1, <3>5, WriteStep
      <3>6. CASE op[e].state = "UNCERTAIN" /\ op'[e].state = "FAILED" /\ world[e] = "rejected"
        BY <2>1, <2>2, <3>1, <3>6, WriteStep
      <3> QED BY <3>1, <3>2, <3>3, <3>4, <3>5, <3>6
    <2> QED BY <2>4, <2>5, <2>6, <2>7, <2>8, <2>9
  <1>10. ASSUME HostReplace \/ \E h \in Hosts : HostStop(h) PROVE Rest'
    <2>1. UNCHANGED <<op, world, calls>>
      BY <1>10 DEF HostReplace, HostStop
    <2>2. PICK dead : Kill(dead)
      BY <1>10 DEF HostReplace, HostStop
    <2>3. ASSUME NEW c \in Callers
          PROVE  \/ caller'[c] = caller[c]
                 \/ caller'[c].pc = "idle" /\ caller'[c].id = caller[c].id
      BY <1>0, <2>2 DEF Kill, TypeOK, CallType
    <2>4. \A c \in Callers : CallOK(c)'
      BY <2>1, <2>3 DEF Inv, CallOK, Dispatching
    <2>5. \A c, d \in Callers : Alone(c, d)'
      BY <2>3 DEF Inv, Alone, Dispatching
    <2>6. \A f \in Ids : RowOK(f)'
      BY <2>1, <2>3 DEF Inv, RowOK
    <2> QED BY <2>4, <2>5, <2>6 DEF Rest
  <1> QED BY <1>1, <1>2, <1>3, <1>4, <1>5, <1>6, <1>7, <1>8, <1>9, <1>10 DEF Next

(* The invariant is inductive.                                               *)
LEMMA InvStep == Inv /\ [Next]_vars => Inv'
  <1> SUFFICES ASSUME Inv, [Next]_vars PROVE Inv'
    OBVIOUS
  <1>1. CASE Next
    BY <1>1, TypeStep, RestStep DEF Inv, Rest
  <1>2. CASE UNCHANGED vars
    BY <1>2 DEF vars, hosts, Inv, TypeOK, CallOK, Alone, RowOK
  <1> QED BY <1>1, <1>2

(* Everything the argument needs of a state holds in every reachable one.   *)
THEOREM Invariance == Spec => []Inv
  BY InvInit, InvStep, PTL DEF Spec

(* Every variable of the service keeps its type.                            *)
THEOREM TypeCorrect == Spec => []TypeOK
  <1>1. Inv => TypeOK
    BY DEF Inv
  <1> QED BY <1>1, Invariance, PTL

(* However many callers and Hosts dispatch, recover and reconcile an effect, *)
(* port.dispatch is entered at most once for its id.                        *)
THEOREM CalledOnce == Spec => []AtMostOneCall
  <1>1. Inv => AtMostOneCall
    BY DEF Inv, RowOK, AtMostOneCall
  <1> QED BY <1>1, Invariance, PTL

(* A recorded success was done, a recorded failure was not and will not be. *)
THEOREM RecordTrue == Spec => []RecordIsTrue
  <1>1. Inv => RecordIsTrue
    BY DEF Inv, RowOK, RecordIsTrue
  <1> QED BY <1>1, Invariance, PTL

------------------------------------------------------------------------------
(* The evidence, the acknowledged requests and the completing Host.         *)

(* What one step may do to the table and its evidence.                      *)
Statement ==
    \/ UNCHANGED <<op, evidence>>
    \/ \E e \in Ids :
          \/ \E q \in Requests : InsertPrepared(e, q)
          \/ \E h \in Hosts : BeginDispatch(e, h)
          \/ \E h \in Hosts, outcome \in Outcomes : h = owner /\ CompleteDispatch(e, h, outcome)
          \/ RecoverDispatchAsUncertain(e)
          \/ \E outcome \in Outcomes \cup {"NONE"} : RefineUncertain(e, outcome)

(* A step executes at most one of the repository's statements.               *)
LEMMA OneStatement ==
    ASSUME Inv, [Next]_vars
    PROVE  Statement
  <1>1. \A c \in Callers :
           /\ caller[c].id \in Ids /\ caller[c].host \in Hosts
           /\ caller[c].outcome \in Outcomes \cup {"NONE"}
           /\ caller[c].pc = "complete" => caller[c].outcome \in Outcomes
    BY DEF Inv, TypeOK, CallType, CallOK
  <1>2. ASSUME NEW e \in Ids, NEW q \in Requests, Prepare(e, q) PROVE Statement
    BY <1>2 DEF Prepare, Statement
  <1>3. ASSUME NEW c \in Callers,
               Admit(c) \/ Complete(c) \/ Recover(c) \/ Refine(c) \/ Fails(c)
        PROVE  Statement
    <2>1. PICK e \in Ids, h \in Hosts, outcome \in Outcomes \cup {"NONE"} :
             caller[c].id = e /\ caller[c].host = h /\ caller[c].outcome = outcome
      BY <1>1
    <2>2. \/ UNCHANGED <<op, evidence>>
          \/ BeginDispatch(e, h)
          \/ /\ outcome \in Outcomes /\ h = owner
             /\ CompleteDispatch(e, h, outcome)
          \/ RecoverDispatchAsUncertain(e)
          \/ RefineUncertain(e, outcome)
      BY <1>1, <1>3, <2>1 DEF Admit, Complete, Recover, Refine, Fails
    <2> QED BY <2>2, Zenon DEF Statement
  <1>4. ASSUME UNCHANGED <<op, evidence>> PROVE Statement
    BY <1>4 DEF Statement
  <1>5. CASE Next
    BY <1>2, <1>3, <1>4, <1>5 DEF Next, ProviderActs, StartDispatch, StartRecover, StartReconcile,
       Start, AbortBeforeCall, CallPort, PortAnswers, Observe, Refused, HostReplace, HostStop
  <1>6. CASE UNCHANGED vars
    BY <1>4, <1>6 DEF vars
  <1> QED BY <1>5, <1>6

(* Whichever statement runs, row and evidence change together.               *)
LEMMA EvidenceStep ==
    ASSUME Inv, EvidenceMatches, Statement
    PROVE  EvidenceMatches'
  <1>0. TypeOK
    BY DEF Inv
  <1>1. CASE UNCHANGED <<op, evidence>>
    BY <1>1 DEF EvidenceMatches
  <1>2. ASSUME NEW e \in Ids, NEW q \in Requests, InsertPrepared(e, q) PROVE EvidenceMatches'
    <2>1. /\ \A f \in Ids \ {e} : op'[f] = op[f]
          /\ \/ op'[e] = op[e]
             \/ op[e].state = "ABSENT" /\ op'[e].state = "PREPARED"
      BY <1>0, <1>2, StatementStep
    <2>2. evidence' = evidence \cup {<<e, "prepared", op'[e].state>>}
      BY <1>2 DEF InsertPrepared
    <2> QED BY <2>1, <2>2 DEF EvidenceMatches, Outcomes
  <1>3. ASSUME NEW e \in Ids, NEW h \in Hosts, BeginDispatch(e, h) PROVE EvidenceMatches'
    <2>1. /\ \A f \in Ids \ {e} : op'[f] = op[f]
          /\ op[e].state = "PREPARED" /\ op'[e].state = "DISPATCHING"
      BY <1>0, <1>3, StatementStep
    <2>2. evidence' = evidence \cup {<<e, "dispatch-started", "DISPATCHING">>}
      BY <1>3 DEF BeginDispatch
    <2> QED BY <2>1, <2>2 DEF EvidenceMatches, Outcomes
  <1>4. ASSUME NEW e \in Ids, NEW h \in Hosts, NEW outcome \in Outcomes,
               CompleteDispatch(e, h, outcome)
        PROVE  EvidenceMatches'
    <2>1. /\ \A f \in Ids \ {e} : op'[f] = op[f]
          /\ op[e].state = "DISPATCHING" /\ op'[e].state = outcome
      BY <1>0, <1>4, StatementStep
    <2>2. evidence' = evidence \cup {<<e, "outcome", outcome>>}
      BY <1>4 DEF CompleteDispatch
    <2> QED BY <2>1, <2>2 DEF EvidenceMatches, Outcomes
  <1>5. ASSUME NEW e \in Ids, RecoverDispatchAsUncertain(e) PROVE EvidenceMatches'
    <2>1. /\ \A f \in Ids \ {e} : op'[f] = op[f]
          /\ op[e].state = "DISPATCHING" /\ op'[e].state = "UNCERTAIN"
      BY <1>0, <1>5, StatementStep
    <2>2. evidence' = evidence \cup {<<e, "outcome", "UNCERTAIN">>}
      BY <1>5 DEF RecoverDispatchAsUncertain
    <2> QED BY <2>1, <2>2 DEF EvidenceMatches, Outcomes
  <1>6. ASSUME NEW e \in Ids, NEW outcome \in Outcomes \cup {"NONE"}, RefineUncertain(e, outcome)
        PROVE  EvidenceMatches'
    <2>1. /\ \A f \in Ids \ {e} : op'[f] = op[f]
          /\ \/ op[e].state = "UNCERTAIN" /\ op'[e].state \in Outcomes
             \/ op'[e] = op[e]
      BY <1>0, <1>6, StatementStep
    <2>2. evidence' = evidence \cup {<<e, "reconciled", op'[e].state>>}
      BY <1>6 DEF RefineUncertain
    <2> QED BY <2>1, <2>2 DEF EvidenceMatches, Outcomes
  <1> QED BY <1>1, <1>2, <1>3, <1>4, <1>5, <1>6 DEF Statement

(* The retained evidence and the row tell the same story.                   *)
THEOREM EvidenceKept == Spec => []EvidenceMatches
  <1>1. Init => EvidenceMatches
    BY DEF Init, EvidenceMatches, Outcomes
  <1>2. Inv /\ EvidenceMatches /\ [Next]_vars => EvidenceMatches'
    BY EvidenceStep, OneStatement
  <1> QED BY <1>1, <1>2, Invariance, PTL DEF Spec

(* A row, once there, keeps its request.                                    *)
LEMMA RequestKept ==
    ASSUME Inv, Statement, NEW e \in Ids, op[e].state # "ABSENT"
    PROVE  op'[e].state # "ABSENT" /\ op'[e].request = op[e].request
  <1>0. TypeOK
    BY DEF Inv
  <1>1. CASE UNCHANGED <<op, evidence>>
    BY <1>1
  <1>2. ASSUME NEW f \in Ids,
               \/ \E q \in Requests : InsertPrepared(f, q)
               \/ \E h \in Hosts : BeginDispatch(f, h)
               \/ \E h \in Hosts, outcome \in Outcomes : h = owner /\ CompleteDispatch(f, h, outcome)
               \/ RecoverDispatchAsUncertain(f)
               \/ \E outcome \in Outcomes \cup {"NONE"} : RefineUncertain(f, outcome)
        PROVE  op'[e].state # "ABSENT" /\ op'[e].request = op[e].request
    <2>1. f # e => op'[e] = op[e]
      BY <1>0, <1>2, StatementStep
    <2>2. f = e => op'[e] = op[e] \/ /\ op'[e].state \in Outcomes \cup {"DISPATCHING"}
                                     /\ op'[e].request = op[e].request
      BY <1>0, <1>2, StatementStep DEF Outcomes
    <2> QED BY <2>1, <2>2 DEF Outcomes
  <1> QED BY <1>1, <1>2 DEF Statement

(* Every acknowledged preparer brought the request that the row holds.      *)
THEOREM RequestsAgree == Spec => []OneRequestPerKey
  <1>1. Init => OneRequestPerKey
    BY DEF Init, OneRequestPerKey
  <1>2. Inv /\ OneRequestPerKey /\ [Next]_vars => OneRequestPerKey'
    <2> SUFFICES ASSUME Inv, OneRequestPerKey, [Next]_vars PROVE OneRequestPerKey'
      OBVIOUS
    <2>1. Statement /\ TypeOK
      BY OneStatement DEF Inv
    <2>2. acked \subseteq Ids \X Requests
      BY <2>1 DEF TypeOK
    <2>3. ASSUME NEW p \in acked PROVE op'[p[1]].state # "ABSENT" /\ op'[p[1]].request = p[2]
      BY <2>1, <2>2, <2>3, RequestKept DEF OneRequestPerKey
    <2>4. ASSUME NEW e \in Ids, NEW q \in Requests, Prepare(e, q) PROVE OneRequestPerKey'
      <3>1. op'[e].state # "ABSENT" /\ op'[e].request = q
        <4>1. CASE op[e].state = "ABSENT"
          BY <2>1, <2>4, <4>1, StatementStep DEF Prepare
        <4>2. CASE op[e].state # "ABSENT"
          BY <2>1, <2>4, <4>2, StatementStep DEF Prepare
        <4> QED BY <4>1, <4>2
      <3>2. acked' \subseteq acked \cup {<<e, q>>}
        BY <2>4 DEF Prepare
      <3> QED BY <2>3, <3>1, <3>2 DEF OneRequestPerKey
    <2>5. CASE UNCHANGED acked
      BY <2>3, <2>5 DEF OneRequestPerKey
    <2>6. (\E e \in Ids, q \in Requests : Prepare(e, q)) \/ UNCHANGED acked
      BY DEF Next, vars, ProviderActs, StartDispatch, StartRecover, StartReconcile, Start, Admit,
         AbortBeforeCall, CallPort, PortAnswers, Complete, Recover, Observe, Refine, Refused,
         Fails, HostReplace, HostStop
    <2> QED BY <2>4, <2>5, <2>6
  <1> QED BY <1>1, <1>2, Invariance, PTL DEF Spec

(* Only the Host that admitted a dispatch, still the owner, completes it.   *)
THEOREM FencedCompletion == Spec => CompletedByItsHost
  <1>1. ASSUME Inv, [Next]_vars
        PROVE  [\A e \in Ids :
                  op[e].state = "DISPATCHING" /\ op'[e].state \in {"SUCCEEDED", "FAILED"} =>
                      op[e].token = owner]_vars
    <2>1. Statement /\ TypeOK
      BY <1>1, OneStatement DEF Inv
    <2>2. ASSUME NEW e \in Ids, op[e].state = "DISPATCHING",
                 op'[e].state \in {"SUCCEEDED", "FAILED"}
          PROVE  op[e].token = owner
      <3>1. PICK f \in Ids :
               \/ \E q \in Requests : InsertPrepared(f, q)
               \/ \E h \in Hosts : BeginDispatch(f, h)
               \/ \E h \in Hosts, outcome \in Outcomes : h = owner /\ CompleteDispatch(f, h, outcome)
               \/ RecoverDispatchAsUncertain(f)
               \/ \E outcome \in Outcomes \cup {"NONE"} : RefineUncertain(f, outcome)
        BY <2>1, <2>2 DEF Statement
      <3>2. f = e
        BY <2>1, <2>2, <3>1, StatementStep
      <3> QED BY <2>1, <2>2, <3>1, <3>2, StatementStep
    <2> QED BY <2>2
  <1> QED BY <1>1, Invariance, PTL DEF Spec, CompletedByItsHost

------------------------------------------------------------------------------
(* The refinement of EffectTruth.                                           *)

(* An unprepared effect is an unasked request of EffectTruth.                *)
LEMMA TruthInit == Init => Truth!Init
  <1> SUFFICES ASSUME Init PROVE Truth!Init
    OBVIOUS
  <1>1. PICK f \in [Ids -> {[state |-> "ABSENT", request |-> q, token |-> 0] : q \in Requests}] :
           op = f
    BY DEF Init
  <1>2. \A e \in Ids : op[e].state = "ABSENT" /\ op[e].request \in Requests
    BY <1>1
  <1>3. [e \in Ids |-> op[e].state] = [e \in Ids |-> "ABSENT"]
    BY <1>2
  <1>4. [e \in Ids |-> op[e].request] \in [Ids -> Requests]
    BY <1>2
  <1> QED BY <1>3, <1>4 DEF Init, Truth!Init

(* The image of a step that writes one row.                                 *)
LEMMA MappedWrite ==
    ASSUME NEW e \in Ids, \A f \in Ids \ {e} : op'[f] = op[f]
    PROVE  /\ [f \in Ids |-> op'[f].state]
                 = [[f \in Ids |-> op[f].state] EXCEPT ![e] = op'[e].state]
           /\ op'[e].request = op[e].request =>
                 [f \in Ids |-> op'[f].request] = [f \in Ids |-> op[f].request]
           /\ [f \in Ids |-> op'[f].request]
                 = [[f \in Ids |-> op[f].request] EXCEPT ![e] = op'[e].request]
  OBVIOUS

(* A statement of the table, as the abstract step it is.                    *)
LEMMA MappedStatement ==
    ASSUME NEW e \in Ids, \A f \in Ids \ {e} : op'[f] = op[f], UNCHANGED world,
           \/ op'[e] = op[e]
           \/ /\ op[e].state = "ABSENT" /\ op'[e].state = "PREPARED"
              /\ op'[e].request \in Requests
           \/ /\ op'[e].request = op[e].request
              /\ \/ op[e].state = "PREPARED" /\ op'[e].state = "DISPATCHING"
                 \/ op[e].state = "DISPATCHING" /\ op'[e].state = "UNCERTAIN"
                 \/ /\ op[e].state \in {"DISPATCHING", "UNCERTAIN"}
                    /\ op'[e].state = "SUCCEEDED" /\ world[e] = "done"
                 \/ /\ op[e].state \in {"DISPATCHING", "UNCERTAIN"}
                    /\ op'[e].state = "FAILED" /\ world[e] = "rejected"
                 \/ /\ op[e].state = "DISPATCHING"
                    /\ op'[e].state = "FAILED" /\ world[e] = "unasked"
    PROVE  [Truth!Next]_(Truth!vars)
  <1>1. /\ [f \in Ids |-> op'[f].state]
              = [[f \in Ids |-> op[f].state] EXCEPT ![e] = op'[e].state]
        /\ op'[e].request = op[e].request =>
              [f \in Ids |-> op'[f].request] = [f \in Ids |-> op[f].request]
        /\ [f \in Ids |-> op'[f].request]
              = [[f \in Ids |-> op[f].request] EXCEPT ![e] = op'[e].request]
    BY MappedWrite
  <1>2. [f \in Ids |-> op[f].state][e] = op[e].state
    OBVIOUS
  <1>3. CASE op'[e] = op[e]
    <2>1. \A f \in Ids : op'[f] = op[f]
      BY <1>3
    <2> QED BY <2>1 DEF Truth!vars
  <1>4. CASE op[e].state = "ABSENT" /\ op'[e].state = "PREPARED" /\ op'[e].request \in Requests
    <2>1. Truth!Prepare(e)
      BY <1>1, <1>2, <1>4 DEF Truth!Prepare, Truth!Record
    <2> QED BY <2>1 DEF Truth!Next
  <1>5. CASE op'[e].request = op[e].request /\ op[e].state = "PREPARED" /\ op'[e].state = "DISPATCHING"
    <2>1. Truth!Admit(e)
      BY <1>1, <1>2, <1>5 DEF Truth!Admit, Truth!Record
    <2> QED BY <2>1 DEF Truth!Next
  <1>6. CASE op'[e].request = op[e].request /\ op[e].state = "DISPATCHING" /\ op'[e].state = "UNCERTAIN"
    <2>1. Truth!Doubt(e)
      BY <1>1, <1>2, <1>6 DEF Truth!Doubt, Truth!Record
    <2> QED BY <2>1 DEF Truth!Next
  <1>7. CASE /\ op'[e].request = op[e].request
             /\ \/ /\ op[e].state \in {"DISPATCHING", "UNCERTAIN"}
                   /\ op'[e].state = "SUCCEEDED" /\ world[e] = "done"
                \/ /\ op[e].state \in {"DISPATCHING", "UNCERTAIN"}
                   /\ op'[e].state = "FAILED" /\ world[e] = "rejected"
                \/ /\ op[e].state = "DISPATCHING"
                   /\ op'[e].state = "FAILED" /\ world[e] = "unasked"
    <2>1. Truth!Learn(e)
      BY <1>1, <1>2, <1>7 DEF Truth!Learn, Truth!Record
    <2> QED BY <2>1 DEF Truth!Next
  <1> QED BY <1>3, <1>4, <1>5, <1>6, <1>7

(* Every step of the service is a step of EffectTruth or changes nothing of it. *)
LEMMA TruthStep ==
    ASSUME Inv, Inv', [Next]_vars
    PROVE  [Truth!Next]_(Truth!vars)
  <1>0. /\ TypeOK
        /\ \A c \in Callers :
              /\ CallOK(c) /\ caller[c].id \in Ids
              /\ caller[c].outcome \in {"SUCCEEDED", "FAILED", "UNCERTAIN", "NONE"}
    BY DEF Inv, TypeOK, CallType, Outcomes
  <1>1. ASSUME NEW e \in Ids, NEW q \in Requests, Prepare(e, q)
        PROVE  [Truth!Next]_(Truth!vars)
    <2>1. /\ \A f \in Ids \ {e} : op'[f] = op[f]
          /\ \/ op'[e] = op[e]
             \/ op[e].state = "ABSENT" /\ op'[e].state = "PREPARED" /\ op'[e].request = q
          /\ UNCHANGED world
      BY <1>0, <1>1, StatementStep DEF Prepare
    <2> QED BY <2>1, MappedStatement
  <1>2. ASSUME NEW e \in Ids, ProviderActs(e) PROVE [Truth!Next]_(Truth!vars)
    <2>1. Truth!Act(e)
      BY <1>2 DEF ProviderActs, Truth!Act
    <2> QED BY <2>1 DEF Truth!Next
  <1>3. ASSUME NEW c \in Callers, CallPort(c) PROVE [Truth!Next]_(Truth!vars)
    <2> DEFINE e == caller[c].id
    <2>1. /\ e \in Ids /\ op[e].state \in {"DISPATCHING", "UNCERTAIN"}
          /\ world[e] = "unasked"
      <3>1. /\ e \in Ids /\ caller[c].pc = "admitted" /\ RowOK(e) /\ calls[e] = 0
            /\ op[e].state \notin {"ABSENT", "PREPARED"}
        BY <1>0, <1>3 DEF Inv, CallPort, CallOK, Dispatching
      <3>2. op[e].state \in {"DISPATCHING", "SUCCEEDED", "FAILED", "UNCERTAIN"}
        BY <1>0, <3>1 DEF TypeOK, RowType, States
      <3> QED BY <3>1, <3>2 DEF RowOK
    <2>2. world' = [world EXCEPT ![e] = "asked"] /\ UNCHANGED op
      BY <1>3, <2>1 DEF CallPort
    <2>3. Truth!Ask(e)
      BY <2>1, <2>2 DEF Truth!Ask
    <2> QED BY <2>1, <2>3 DEF Truth!Next
  <1>4. ASSUME NEW c \in Callers,
               Admit(c) \/ Complete(c) \/ Recover(c) \/ Refine(c) \/ Fails(c)
        PROVE  [Truth!Next]_(Truth!vars)
    <2> DEFINE x == caller[c]
               e == caller[c].id
    <2>1. UNCHANGED world /\ e \in Ids
      BY <1>0, <1>4 DEF Admit, Complete, Recover, Refine, Fails
    <2>2. \/ UNCHANGED op
          \/ x.pc = "admit" /\ BeginDispatch(x.id, x.host)
          \/ x.pc = "complete" /\ CompleteDispatch(x.id, x.host, x.outcome)
          \/ x.pc = "recover" /\ RecoverDispatchAsUncertain(x.id)
          \/ x.pc = "refine" /\ RefineUncertain(x.id, x.outcome)
      BY <1>4 DEF Admit, Complete, Recover, Refine, Fails
    <2>3. CASE UNCHANGED op
      BY <2>1, <2>3, MappedStatement
    <2>4. CASE x.pc = "admit" /\ BeginDispatch(x.id, x.host)
      <3>1. /\ \A f \in Ids \ {e} : op'[f] = op[f]
            /\ op[e].state = "PREPARED" /\ op'[e].state = "DISPATCHING"
            /\ op'[e].request = op[e].request
        BY <1>0, <2>1, <2>4, StatementStep
      <3> QED BY <2>1, <3>1, MappedStatement
    <2>5. CASE x.pc = "complete" /\ CompleteDispatch(x.id, x.host, x.outcome)
      <3>1. /\ \A f \in Ids \ {e} : op'[f] = op[f]
            /\ op[e].state = "DISPATCHING" /\ op'[e].state = x.outcome
            /\ op'[e].request = op[e].request
        BY <1>0, <2>1, <2>5, StatementStep
      <3>2. \/ x.outcome = "UNCERTAIN"
            \/ x.outcome = "SUCCEEDED" /\ world[e] = "done"
            \/ x.outcome = "FAILED" /\ world[e] \in {"rejected", "unasked"}
        BY <1>0, <2>5 DEF CallOK
      <3> QED BY <2>1, <3>1, <3>2, MappedStatement
    <2>6. CASE x.pc = "recover" /\ RecoverDispatchAsUncertain(x.id)
      <3>1. /\ \A f \in Ids \ {e} : op'[f] = op[f]
            /\ op[e].state = "DISPATCHING" /\ op'[e].state = "UNCERTAIN"
            /\ op'[e].request = op[e].request
        BY <1>0, <2>1, <2>6, StatementStep
      <3> QED BY <2>1, <3>1, MappedStatement
    <2>7. CASE x.pc = "refine" /\ RefineUncertain(x.id, x.outcome)
      <3>1. /\ \A f \in Ids \ {e} : op'[f] = op[f]
            /\ \/ /\ op[e].state = "UNCERTAIN" /\ x.outcome # "NONE" /\ op'[e].state = x.outcome
                  /\ op'[e].request = op[e].request
               \/ op'[e] = op[e]
        BY <1>0, <2>1, <2>7, StatementStep
      <3>2. \/ x.outcome = "NONE"
            \/ x.outcome = "SUCCEEDED" /\ world[e] = "done"
            \/ x.outcome = "FAILED" /\ world[e] = "rejected"
        BY <1>0, <2>7 DEF CallOK
      <3> QED BY <2>1, <3>1, <3>2, MappedStatement
    <2> QED BY <2>2, <2>3, <2>4, <2>5, <2>6, <2>7
  <1>5. ASSUME UNCHANGED <<op, world>> PROVE [Truth!Next]_(Truth!vars)
    BY <1>5 DEF Truth!vars
  <1>6. CASE Next
    BY <1>1, <1>2, <1>3, <1>4, <1>5, <1>6 DEF Next, StartDispatch, StartRecover, StartReconcile,
       Start, AbortBeforeCall, PortAnswers, Observe, Refused, HostReplace, HostStop
  <1>7. CASE UNCHANGED vars
    BY <1>5, <1>7 DEF vars
  <1> QED BY <1>6, <1>7

(* The service, with its Hosts, callers and failures, implements EffectTruth. *)
THEOREM TruthImplemented == Spec => ImplementsTruth
  <1>1. Inv /\ Inv' /\ [Next]_vars => [Truth!Next]_(Truth!vars)
    BY TruthStep
  <1> QED BY Invariance, TruthInit, <1>1, PTL DEF Spec, ImplementsTruth, Truth!Spec

(* The record, its evidence and the requests that were acknowledged agree.  *)
THEOREM RecordsTrue == Spec => []RecordsAreTrue
  <1>1. TypeOK /\ RecordIsTrue /\ EvidenceMatches /\ OneRequestPerKey => RecordsAreTrue
    BY DEF RecordsAreTrue
  <1> QED BY TypeCorrect, RecordTrue, EvidenceKept, RequestsAgree, <1>1, PTL
=============================================================================
