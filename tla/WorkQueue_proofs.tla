--------------------------- MODULE WorkQueue_proofs ---------------------------
(***************************************************************************)
(* Proofs, for every set of items and every bound, of what the runs of     *)
(* MCWorkQueue check on small instances.  The argument: TypeOK is          *)
(* inductive; on top of it Inv says what each row, each invocation and     *)
(* each pair of them may look like.                                        *)
(***************************************************************************)
EXTENDS WorkQueue, TLAPS

Calls == Items \X Revs \X Hosts

(* The assumption, in the form the arithmetic steps use.                     *)
LEMMA BoundsAreNaturals ==
    /\ MaxRev \in Nat \ {0} /\ MaxHost \in Nat \ {0}
    /\ MaxTime \in Nat /\ MaxFaults \in Nat /\ MaxRetirements \in Nat
    /\ MaxRecovery \in Nat /\ RetryLimit \in Nat
  BY BoundsAssumption

------------------------------------------------------------------------------
(* The operators stay within their types.                                   *)

(* A call outside its mutation is a typed call.                              *)
LEMMA OutsideType ==
    ASSUME NEW pc \in {"idle", "read", "returned", "threw"}
    PROVE  Outside(pc) \in ExecType
  BY BoundsAreNaturals DEF Outside, Invocation, ExecType, Times, Writes

(* The named states of a call are typed.                                     *)
LEMMA CallTypes ==
    /\ Resting \in ExecType
    /\ Reading \in ExecType
    /\ Returned \in ExecType
    /\ Threw \in ExecType
    /\ Handling \in ExecType
  <1>1. Handling \in ExecType
    BY BoundsAreNaturals DEF Handling, Invocation, ExecType, Times, Writes
  <1> QED BY <1>1, OutsideType DEF Resting, Reading, Returned, Threw

(* Sending a mutation keeps the call typed.                                  *)
LEMMA SendType ==
    ASSUME NEW x \in ExecType, NEW write \in Writes, NEW t \in Times
    PROVE  Send(x, write, t) \in ExecType
  BY DEF Send, ExecType

(* A created row is typed.                                                   *)
LEMMA FreshType ==
    /\ Absent \in RowType
    /\ \A t \in Times : Fresh("PENDING", 1, t) \in RowType
  BY BoundsAreNaturals DEF Absent, Fresh, RowType, NoOutcome, Idle, Terminal, RetryClasses, Times, Revs

(* Ending a row keeps it typed.                                              *)
LEMMA EndedType ==
    ASSUME NEW w \in RowType, NEW kind \in Terminal, NEW class \in RetryClasses
    PROVE  Ended(w, kind, class) \in RowType
  <1>1. [kind |-> kind, retryClass |-> class] \in
            [kind : {"NONE"} \cup Terminal, retryClass : RetryClasses]
    OBVIOUS
  <1>2. 0 \in 0 .. MaxRev
    BY BoundsAreNaturals
  <1> QED BY <1>1, <1>2 DEF Ended, RowType

(* A recorded intent names a terminal state.                                 *)
LEMMA IntentIsTerminal ==
    ASSUME NEW w, ~NoIntent(w)
    PROVE  Intent(w) \in Terminal
  BY DEF Intent, NoIntent, Terminal

(* commitTerminal keeps a row typed, whatever intent it finds.               *)
LEMMA CommitTerminalType ==
    ASSUME NEW w \in RowType, NEW kind \in Terminal, NEW class \in RetryClasses
    PROVE  CommitTerminal(w, kind, class) \in RowType
  <1>1. "NONE" \in RetryClasses
    BY DEF RetryClasses
  <1> QED BY <1>1, EndedType, IntentIsTerminal DEF CommitTerminal

(* The three non-terminal mutations and a wake keep a row typed.             *)
LEMMA MarkType ==
    ASSUME NEW w \in RowType
    PROVE  /\ MarkRunning(w) \in RowType
           /\ MarkWaitingDependency(w) \in RowType
           /\ \A t \in Times : MarkRetryWait(w, t) \in RowType
           /\ w.rev < MaxRev => Wake(w) \in RowType
  <1>1. MarkRunning(w) \in RowType /\ MarkWaitingDependency(w) \in RowType
    <2>1. w.rev \in 0 .. MaxRev
      BY BoundsAreNaturals DEF RowType, Revs
    <2>2. "WAITING_DEPENDENCY" \in Idle
      BY DEF Idle
    <2> QED BY <2>1, <2>2 DEF MarkRunning, MarkWaitingDependency, RowType
  <1>2. ASSUME NEW t \in Times PROVE MarkRetryWait(w, t) \in RowType
    <2>1. "NONE" \in RetryClasses
      BY DEF RetryClasses
    <2>2. CASE NoIntent(w)
      <3>1. 0 \in 0 .. MaxRev /\ "RETRY_WAIT" \in Idle /\ "transient" \in RetryClasses
        BY BoundsAreNaturals DEF Idle, RetryClasses
      <3> QED BY <2>2, <3>1 DEF MarkRetryWait, RowType
    <2>3. CASE ~NoIntent(w)
      BY <2>1, <2>3, EndedType, IntentIsTerminal DEF MarkRetryWait
    <2> QED BY <2>2, <2>3
  <1>3. ASSUME w.rev < MaxRev PROVE Wake(w) \in RowType
    <2>1. w.rev + 1 \in Revs
      BY <1>3, BoundsAreNaturals DEF RowType, Revs
    <2>2. "PENDING" \in Idle /\ "NONE" \in RetryClasses
      BY DEF Idle, RetryClasses
    <2> QED BY <2>1, <2>2 DEF Wake, RowType
  <1> QED BY <1>1, <1>2, <1>3

(* Recording a cancellation or a supersession keeps a row typed.             *)
LEMMA RecordedType ==
    ASSUME NEW w \in RowType
    PROVE  RecordCancel(w) \in RowType /\ RecordSupersede(w) \in RowType
  <1> DEFINE c == [w EXCEPT !.cancel = TRUE]
             s == [w EXCEPT !.superseded = TRUE]
  <1>1. c \in RowType /\ s \in RowType
    BY DEF RowType
  <1>2. "NONE" \in RetryClasses /\ {"CANCELLED", "SUPERSEDED"} \subseteq Terminal
    BY DEF RetryClasses, Terminal
  <1>3. Ended(c, "CANCELLED", "NONE") \in RowType /\ Ended(s, "SUPERSEDED", "NONE") \in RowType
    BY <1>1, <1>2, EndedType
  <1> QED BY <1>1, <1>3 DEF RecordCancel, RecordSupersede

(* Whatever a call sends, the row it leaves is typed.                        *)
LEMMA AppliedType ==
    ASSUME NEW w \in RowType, NEW x \in ExecType, NEW r
    PROVE  After(w, x, r) \in RowType
  <1>1. x.notBefore \in Times /\ x.write \in Writes
    BY DEF ExecType
  <1>2. /\ {"NONE", "invalid", "permanent"} \subseteq RetryClasses
        /\ "FAILED" \in Terminal
    BY DEF RetryClasses, Terminal
  <1>3. CASE x.write \in Terminal \ {"FAILED"}
    BY <1>2, <1>3, CommitTerminalType DEF After, Applied, Terminal
  <1>4. CASE x.write \in {"FAILED", "INVALID"}
    BY <1>2, <1>4, CommitTerminalType DEF After, Applied
  <1>5. CASE x.write \in {"CLAIM", "WAIT", "RETRY"}
    <2>1. MarkRetryWait(w, x.notBefore) \in RowType
      BY <1>1, MarkType
    <2>2. MarkRunning(w) \in RowType /\ MarkWaitingDependency(w) \in RowType
      BY MarkType
    <2>3. CASE x.write = "CLAIM"
      BY <2>2, <2>3 DEF After, Applied, Terminal
    <2>4. CASE x.write = "WAIT"
      BY <2>2, <2>4 DEF After, Applied, Terminal
    <2>5. CASE x.write = "RETRY"
      BY <2>1, <2>5 DEF After, Applied, Terminal
    <2> QED BY <1>5, <2>3, <2>4, <2>5
  <1>6. CASE x.write = "NONE"
    BY <1>6 DEF After, Applied, Terminal
  <1> QED BY <1>1, <1>3, <1>4, <1>5, <1>6 DEF Writes

------------------------------------------------------------------------------
(* Type correctness.                                                        *)

(* The empty queue is typed.                                                 *)
LEMMA InitType == Init => TypeOK
  <1> SUFFICES ASSUME Init PROVE TypeOK
    OBVIOUS
  <1>1. engine \in [Attempts -> EngineType]
    BY BoundsAreNaturals DEF Init, EngineType
  <1>2. row \in [Items -> RowType] /\ exec \in [Calls -> ExecType]
    BY FreshType, CallTypes DEF Init, Calls
  <1>3. owner \in Hosts /\ alive \subseteq Hosts /\ now \in Times
    BY BoundsAreNaturals DEF Init, Hosts, Times
  <1> QED BY <1>1, <1>2, <1>3, ItemsAssumption, BoundsAreNaturals DEF Init, TypeOK, Calls

(* What a step of the row alone must show.                                  *)
LEMMA RowStepType ==
    ASSUME TypeOK, NEW i \in Items, NEW w \in RowType, row' = [row EXCEPT ![i] = w],
           UNCHANGED <<engine, exec, candidates, recoverable, environment, faults, succeeded>>
    PROVE  TypeOK'
  <1>1. row' \in [Items -> RowType]
    BY DEF TypeOK
  <1> QED BY <1>1 DEF TypeOK, environment

(* What a step of one invocation must show.                                 *)
LEMMA CallStepType ==
    ASSUME TypeOK, NEW i \in Items, NEW r \in Revs, NEW h \in Hosts,
           NEW x \in ExecType, Goto(i, r, h, x)
    PROVE  exec' \in [Calls -> ExecType]
  BY DEF TypeOK, Goto, Calls

(* The callers of the queue keep the types.                                  *)
LEMMA CallerType ==
    ASSUME TypeOK, NEW i \in Items,
           Create(i) \/ RequestCancel(i) \/ RequestSupersede(i)
    PROVE  TypeOK'
  <1>1. row[i] \in RowType
    BY DEF TypeOK
  <1>2. CASE Create(i)
    BY <1>2, FreshType, RowStepType DEF Create
  <1>3. CASE RequestCancel(i)
    BY <1>1, <1>3, RecordedType, RowStepType DEF RequestCancel, Request
  <1>4. CASE RequestSupersede(i)
    BY <1>1, <1>4, RecordedType, RowStepType DEF RequestSupersede, Request
  <1> QED BY <1>2, <1>3, <1>4

(* The reconciler's scan keeps the types.                                    *)
LEMMA ScanType ==
    ASSUME TypeOK, NEW i \in Items,
           WakeDueRetry(i) \/ WakeDependency(i) \/ ListPending(i)
    PROVE  TypeOK'
  <1>1. row[i] \in RowType
    BY DEF TypeOK
  <1>2. CASE WakeDueRetry(i)
    BY <1>1, <1>2, MarkType, RowStepType DEF WakeDueRetry
  <1>3. CASE WakeDependency(i)
    BY <1>1, <1>3, MarkType, RowStepType DEF WakeDependency
  <1>4. CASE ListPending(i)
    <2>1. row[i].rev \in Revs
      BY <1>1 DEF RowType
    <2> QED BY <1>4, <2>1 DEF TypeOK, ListPending, environment, Attempts
  <1> QED BY <1>2, <1>3, <1>4

(* Dispatch, its failure and the engine's recovery keep the types.           *)
LEMMA DispatchType ==
    ASSUME TypeOK, NEW i \in Items, NEW r \in Revs,
           Dispatch(i, r) \/ DispatchFails(i, r) \/ Recover(i, r)
    PROVE  TypeOK'
  <1>1. engine[<<i, r>>] \in EngineType
    BY DEF TypeOK, Attempts
  <1>2. CASE Dispatch(i, r)
    <2>1. engine' \in [Attempts -> EngineType]
      BY <1>2 DEF TypeOK, Dispatch, EngineType, Attempts
    <2> QED BY <1>2, <2>1 DEF TypeOK, Dispatch, environment
  <1>3. CASE DispatchFails(i, r)
    <2>1. faults' \in 0 .. MaxFaults
      BY <1>3, BoundsAreNaturals DEF TypeOK, DispatchFails
    <2> QED BY <1>3, <2>1 DEF TypeOK, DispatchFails, environment
  <1>4. CASE Recover(i, r)
    <2>1. engine' \in [Attempts -> EngineType]
      <3>1. CASE engine[<<i, r>>].recoveries < MaxRecovery
        <4>1. engine[<<i, r>>].recoveries + 1 \in 0 .. MaxRecovery
          BY <1>1, <3>1, BoundsAreNaturals DEF EngineType
        <4> DEFINE e == [engine[<<i, r>>] EXCEPT !.recoveries = engine[<<i, r>>].recoveries + 1]
        <4>2. e \in EngineType
          BY <1>1, <4>1 DEF EngineType
        <4>3. engine' = [engine EXCEPT ![<<i, r>>] = e]
          BY <1>4, <3>1 DEF Recover
        <4> QED BY <4>2, <4>3 DEF TypeOK, Attempts
      <3>2. CASE ~(engine[<<i, r>>].recoveries < MaxRecovery)
        BY <1>1, <1>4, <3>2 DEF TypeOK, Recover, EngineType, Attempts
      <3> QED BY <3>1, <3>2
    <2>2. exec' \in [Calls -> ExecType]
      BY <1>4, CallTypes, CallStepType DEF TypeOK, Recover, Calls
    <2> QED BY <1>4, <2>1, <2>2 DEF TypeOK, Recover, Calls, environment
  <1> QED BY <1>2, <1>3, <1>4

(* Starting a workflow and recording its end keep the types.                 *)
LEMMA WorkflowType ==
    ASSUME TypeOK, NEW i \in Items, NEW r \in Revs, NEW h \in Hosts,
           Dequeue(i, r, h) \/ Record(i, r, h)
    PROVE  TypeOK'
  <1>1. CASE Dequeue(i, r, h)
    <2>1. engine' \in [Attempts -> EngineType]
      BY <1>1 DEF TypeOK, Dequeue, EngineType, Attempts
    <2>2. exec' \in [Calls -> ExecType]
      BY <1>1, CallTypes, CallStepType DEF Dequeue
    <2> QED BY <1>1, <2>1, <2>2 DEF TypeOK, Dequeue, Calls, environment
  <1>2. CASE Record(i, r, h)
    <2>1. engine' \in [Attempts -> EngineType]
      BY <1>2 DEF TypeOK, Record, EngineType, Attempts
    <2>2. exec' \in [Calls -> ExecType]
      BY <1>2, CallTypes, CallStepType DEF Record
    <2> QED BY <1>2, <2>1, <2>2 DEF TypeOK, Record, Calls, environment
  <1> QED BY <1>1, <1>2

(* The steps of a call that write no row keep the types.                     *)
LEMMA PureCallType ==
    ASSUME TypeOK, NEW i \in Items, NEW r \in Revs, NEW h \in Hosts,
           ReadRow(i, r, h) \/ Prepare(i, r, h) \/ Refused(i, r, h) \/ ObserveIntent(i, r, h)
    PROVE  TypeOK'
  <1> DEFINE x == exec[<<i, r, h>>]
             w == row[i]
             expect == IF w.state = "RUNNING" THEN "RUNNING" ELSE "PENDING"
  <1>1. x \in ExecType /\ w \in RowType /\ w.notBefore \in Times /\ x.notBefore \in Times
    BY DEF TypeOK, RowType, ExecType
  <1>2. 0 \in Times
    BY BoundsAreNaturals DEF Times
  <1>3. ASSUME exec' \in [Calls -> ExecType],
               UNCHANGED <<row, engine, candidates, recoverable, environment, faults, succeeded>>
        PROVE  TypeOK'
    BY <1>3 DEF TypeOK, environment, Calls
  <1>4. CASE ReadRow(i, r, h)
    <2>1. CASE Goto(i, r, h, Send(Invocation("read", expect, FALSE, 0), Intent(w), 0)) /\ ~NoIntent(w)
      <3>1. Invocation("read", expect, FALSE, 0) \in ExecType
        BY <1>2 DEF Invocation, ExecType, Writes
      <3>2. Intent(w) \in Writes
        BY <2>1, IntentIsTerminal DEF Writes
      <3>3. Send(Invocation("read", expect, FALSE, 0), Intent(w), 0) \in ExecType
        BY <1>2, <3>1, <3>2, SendType
      <3> QED BY <1>3, <1>4, <2>1, <3>3, CallStepType DEF ReadRow
    <2>2. CASE Goto(i, r, h, Invocation("prepare", expect, available[i], w.notBefore))
      <3>1. available[i] \in BOOLEAN
        BY DEF TypeOK
      <3>2. Invocation("prepare", expect, available[i], w.notBefore) \in ExecType
        BY <1>1, <3>1 DEF Invocation, ExecType, Writes
      <3> QED BY <1>3, <1>4, <2>2, <3>2, CallStepType DEF ReadRow
    <2>3. CASE Goto(i, r, h, Returned) \/ Goto(i, r, h, Threw)
      BY <1>3, <1>4, <2>3, CallTypes, CallStepType DEF ReadRow
    <2> QED BY <1>4, <2>1, <2>2, <2>3 DEF ReadRow
  <1>5. CASE Prepare(i, r, h)
    <2>1. \A write \in {"WAIT", "CLAIM", "INVALID"} : Send(x, write, 0) \in ExecType
      BY <1>1, <1>2, SendType DEF Writes
    <2>2. Send(x, "RETRY", x.notBefore) \in ExecType
      BY <1>1, SendType DEF Writes
    <2>3. [x EXCEPT !.pc = "handler"] \in ExecType
      BY <1>1 DEF ExecType
    <2>4. \E y \in ExecType : Goto(i, r, h, y)
      BY <1>5, <2>1, <2>2, <2>3, CallTypes DEF Prepare
    <2> QED BY <1>3, <1>5, <2>4, CallStepType DEF Prepare
  <1>6. CASE Refused(i, r, h)
    BY <1>3, <1>6, CallTypes, CallStepType DEF Refused
  <1>7. CASE ObserveIntent(i, r, h)
    <2>1. [x EXCEPT !.aborted = TRUE] \in ExecType
      BY <1>1 DEF ExecType
    <2> QED BY <1>3, <1>7, <2>1, CallStepType DEF ObserveIntent
  <1> QED BY <1>4, <1>5, <1>6, <1>7

(* The steps of a call that write or may write its row keep the types.       *)
LEMMA WritingType ==
    ASSUME TypeOK, NEW i \in Items, NEW r \in Revs, NEW h \in Hosts,
           \/ Claim(i, r, h) \/ Settle(i, r, h)
           \/ Fails(i, r, h) \/ HandlerReturns(i, r, h)
    PROVE  TypeOK'
  <1> DEFINE x == exec[<<i, r, h>>]
             applied == [row EXCEPT ![i] = After(row[i], x, r)]
  <1>1. x \in ExecType /\ row[i] \in RowType
    BY DEF TypeOK
  <1>2. applied \in [Items -> RowType]
    BY <1>1, AppliedType DEF TypeOK
  <1>3. 0 \in Times
    BY BoundsAreNaturals DEF Times
  <1>4. CASE Claim(i, r, h)
    <2>1. exec' \in [Calls -> ExecType]
      BY <1>4, CallTypes, CallStepType DEF Claim
    <2> QED BY <1>2, <1>4, <2>1 DEF TypeOK, Claim, Calls, environment
  <1>5. CASE Settle(i, r, h)
    <2>1. exec' \in [Calls -> ExecType]
      BY <1>5, CallTypes, CallStepType DEF Settle
    <2> QED BY <1>2, <1>5, <2>1 DEF TypeOK, Settle, Calls, environment
  <1>6. CASE Fails(i, r, h)
    <2>1. exec' \in [Calls -> ExecType]
      BY <1>6, CallTypes, CallStepType DEF Fails
    <2>2. row' \in [Items -> RowType]
      BY <1>2, <1>6 DEF Fails, TypeOK
    <2>3. faults' \in 0 .. MaxFaults
      BY <1>6, BoundsAreNaturals DEF TypeOK, Fails
    <2> QED BY <1>6, <2>1, <2>2, <2>3 DEF TypeOK, Fails, Calls, environment
  <1>7. CASE HandlerReturns(i, r, h)
    <2>1. \A t \in Times : Send(x, "RETRY", t) \in ExecType
      BY <1>1, SendType DEF Writes
    <2>2. Send(x, "SUCCEEDED", 0) \in ExecType /\ Send(x, "FAILED", 0) \in ExecType
      BY <1>1, <1>3, SendType DEF Writes, Terminal
    <2>3. \E y \in ExecType : Goto(i, r, h, y)
      BY <1>7, <2>1, <2>2 DEF HandlerReturns
    <2>4. exec' \in [Calls -> ExecType]
      BY <2>3, CallStepType
    <2>5. succeeded' \subseteq Items \X Revs \X Hosts
      BY <1>7 DEF TypeOK, HandlerReturns
    <2> QED BY <1>7, <2>4, <2>5 DEF TypeOK, HandlerReturns, Calls, environment
  <1> QED BY <1>4, <1>5, <1>6, <1>7

(* A dead Host's calls rest, and stay typed.                                 *)
LEMMA KillType ==
    ASSUME TypeOK, NEW dead, Kill(dead)
    PROVE  exec' \in [Calls -> ExecType]
  BY CallTypes DEF TypeOK, Kill, Calls

(* Retirement, time and the Hosts keep the types.                            *)
LEMMA EnvironmentType ==
    ASSUME TypeOK,
           \/ \E i \in Items : Retire(i) \/ Register(i)
           \/ Tick \/ HostReplace
           \/ \E h \in Hosts : HostStop(h)
    PROVE  TypeOK'
  <1>1. ASSUME NEW i \in Items, Retire(i) PROVE TypeOK'
    <2>1. retirements' \in 0 .. MaxRetirements
      BY <1>1, BoundsAreNaturals DEF TypeOK, Retire
    <2> QED BY <1>1, <2>1 DEF TypeOK, Retire, durable
  <1>2. ASSUME NEW i \in Items, Register(i) PROVE TypeOK'
    BY <1>2 DEF TypeOK, Register, durable
  <1>3. CASE Tick
    <2>1. now' \in Times
      BY <1>3, BoundsAreNaturals DEF TypeOK, Tick, Times
    <2> QED BY <1>3, <2>1 DEF TypeOK, Tick, durable
  <1>4. CASE HostReplace
    <2>1. owner' \in Hosts
      BY <1>4, BoundsAreNaturals DEF TypeOK, HostReplace, Hosts
    <2>2. exec' \in [Calls -> ExecType]
      BY <1>4, KillType DEF HostReplace
    <2>3. alive' \subseteq Hosts
      BY <1>4, <2>1 DEF TypeOK, HostReplace
    <2> QED BY <1>4, <2>1, <2>2, <2>3 DEF TypeOK, HostReplace, durable, Calls
  <1>5. ASSUME NEW h \in Hosts, HostStop(h) PROVE TypeOK'
    <2>1. exec' \in [Calls -> ExecType]
      BY <1>5, KillType DEF HostStop
    <2> QED BY <1>5, <2>1 DEF TypeOK, HostStop, durable, Calls
  <1> QED BY <1>1, <1>2, <1>3, <1>4, <1>5

(* Every action keeps the types.                                             *)
LEMMA TypeStep == TypeOK /\ [Next]_vars => TypeOK'
  <1> SUFFICES ASSUME TypeOK, [Next]_vars PROVE TypeOK'
    OBVIOUS
  <1>1. CASE UNCHANGED vars
    BY <1>1 DEF TypeOK, vars, environment
  <1>2. CASE Next
    BY <1>2, CallerType, ScanType, DispatchType, WorkflowType, PureCallType, WritingType,
       EnvironmentType
       DEF Next, Execute
  <1> QED BY <1>1, <1>2

(* Every reachable state is well typed: revisions, clock and Host numbers   *)
(* stay within their bounds and the engine is asked only about attempts.    *)
THEOREM TypeCorrect == Spec => []TypeOK
  BY InitType, TypeStep, PTL DEF Spec

------------------------------------------------------------------------------
(* The inductive invariant.                                                 *)

RowShape(w) ==
    /\ w.state = "ABSENT" => w.rev = 1
    /\ w.active = IF w.state = "RUNNING" THEN w.rev ELSE 0
    /\ w.outcome.kind = IF w.state \in Terminal THEN w.state ELSE "NONE"
    /\ w.state \in Terminal => w.outcome.retryClass = w.retryClass
    /\ (w.retryClass = "NONE") = (w.state \notin {"RETRY_WAIT", "FAILED"})
    /\ w.cancel => w.state \in {"RUNNING", "CANCELLED"} /\ ~w.superseded
    /\ w.superseded => w.state \in {"RUNNING", "SUPERSEDED"}
    /\ w.state = "CANCELLED" => w.cancel
    /\ w.state = "SUPERSEDED" => w.superseded

(* What an invocation that is about to write knows.                         *)
WriteOK(x, w, c) ==
    /\ x.write # "NONE"
    /\ x.write \in {"CLAIM", "WAIT"} => x.expect = "PENDING"
    /\ x.write \in {"SUCCEEDED", "FAILED"} => x.expect = "RUNNING"
    /\ x.write = "SUCCEEDED" => c \in succeeded
    /\ x.write = "CANCELLED" => w.cancel
    /\ x.write = "SUPERSEDED" => w.superseded

Busy(x) == x.pc \in {"prepare", "write", "handler"}

Holds(x, w, r) == Engaged(x) => w.state = "RUNNING" /\ w.rev = r

(* While the row is still the one that was read, so is its due time.        *)
Current(x, w, r) ==
    w.state = "PENDING" /\ w.rev = r =>
        /\ x.pc = "prepare" => x.notBefore = w.notBefore
        /\ x.pc = "write" /\ x.write = "CLAIM" => w.notBefore <= now

CallOK(i, r, h) ==
    LET x == exec[<<i, r, h>>]
        w == row[i]
    IN  /\ h > owner => x.pc = "idle"
        /\ x.pc = "handler" => x.expect = "RUNNING"
        /\ x.pc = "write" => WriteOK(x, w, <<i, r, h>>)
        /\ Busy(x) => w.state # "ABSENT" /\ r <= w.rev
        /\ h = owner => Holds(x, w, r) /\ Current(x, w, r)

Inv ==
    /\ TypeOK
    /\ alive \subseteq 1 .. owner
    /\ \A i \in Items : RowShape(row[i])
    /\ \A i \in Items, r \in Revs, h \in Hosts : CallOK(i, r, h)
    /\ SuccessIsEarned

------------------------------------------------------------------------------
(* What the repository's statements do to the shape of a row.               *)

(* The way a row may change: intents and revisions only grow, and a row     *)
(* becomes PENDING only when it is created or under a new revision.         *)
Moves(w, v) ==
    /\ w.cancel => v.cancel
    /\ w.superseded => v.superseded
    /\ w.rev <= v.rev
    /\ v.state # "ABSENT"
    /\ v.state = "PENDING" => w.state = "ABSENT" \/ w.rev < v.rev

(* An ended row is coherent and a legal successor of the row it ends.        *)
LEMMA EndedShape ==
    ASSUME NEW w \in RowType, RowShape(w), NEW kind \in Terminal, NEW class,
           (class = "NONE") = (kind # "FAILED"),
           w.cancel => kind = "CANCELLED", w.superseded => kind = "SUPERSEDED",
           kind = "CANCELLED" => w.cancel, kind = "SUPERSEDED" => w.superseded
    PROVE  RowShape(Ended(w, kind, class)) /\ Moves(w, Ended(w, kind, class))
  BY DEF RowShape, Moves, Ended, RowType, Terminal, Revs

(* commitTerminal leaves a coherent row: an intent found replaces the outcome. *)
LEMMA CommitTerminalShape ==
    ASSUME NEW w \in RowType, RowShape(w), NEW kind \in Terminal, NEW class,
           (class = "NONE") = (kind # "FAILED"),
           kind = "CANCELLED" => w.cancel, kind = "SUPERSEDED" => w.superseded
    PROVE  /\ RowShape(CommitTerminal(w, kind, class))
           /\ Moves(w, CommitTerminal(w, kind, class))
  <1>1. CASE NoIntent(w)
    BY <1>1, EndedShape DEF CommitTerminal, NoIntent
  <1>2. CASE ~NoIntent(w)
    <2>1. /\ Intent(w) \in Terminal /\ Intent(w) # "FAILED"
          /\ w.cancel => Intent(w) = "CANCELLED"
          /\ w.superseded => Intent(w) = "SUPERSEDED"
          /\ Intent(w) = "CANCELLED" => w.cancel
          /\ Intent(w) = "SUPERSEDED" => w.superseded
      BY <1>2 DEF Intent, NoIntent, RowShape, Terminal
    <2> QED BY <1>2, <2>1, EndedShape DEF CommitTerminal
  <1> QED BY <1>1, <1>2

(* The non-terminal mutations leave coherent rows.                           *)
LEMMA MarkShape ==
    ASSUME NEW w \in RowType, RowShape(w)
    PROVE  /\ w.state = "PENDING" =>
                 /\ RowShape(MarkRunning(w)) /\ Moves(w, MarkRunning(w))
                 /\ RowShape(MarkWaitingDependency(w)) /\ Moves(w, MarkWaitingDependency(w))
           /\ w.state \in {"PENDING", "RUNNING"} =>
                 \A t \in Times : RowShape(MarkRetryWait(w, t)) /\ Moves(w, MarkRetryWait(w, t))
           /\ w.state \in {"RETRY_WAIT", "WAITING_DEPENDENCY"} =>
                 RowShape(Wake(w)) /\ Moves(w, Wake(w))
  <1>1. ASSUME w.state = "PENDING"
        PROVE  /\ RowShape(MarkRunning(w)) /\ Moves(w, MarkRunning(w))
               /\ RowShape(MarkWaitingDependency(w)) /\ Moves(w, MarkWaitingDependency(w))
    BY <1>1 DEF MarkRunning, MarkWaitingDependency, RowShape, Moves, RowType, Terminal, Revs
  <1>2. ASSUME w.state \in {"PENDING", "RUNNING"}, NEW t \in Times
        PROVE  RowShape(MarkRetryWait(w, t)) /\ Moves(w, MarkRetryWait(w, t))
    <2>1. CASE NoIntent(w)
      BY <1>2, <2>1 DEF MarkRetryWait, NoIntent, RowShape, Moves, RowType, Terminal, Revs
    <2>2. CASE ~NoIntent(w)
      <3>1. MarkRetryWait(w, t) = CommitTerminal(w, Intent(w), "NONE")
        BY <2>2 DEF MarkRetryWait, CommitTerminal
      <3>2. /\ Intent(w) \in Terminal \ {"FAILED"}
            /\ Intent(w) = "CANCELLED" => w.cancel
            /\ Intent(w) = "SUPERSEDED" => w.superseded
        BY <2>2 DEF Intent, NoIntent, Terminal
      <3> QED BY <3>1, <3>2, CommitTerminalShape
    <2> QED BY <2>1, <2>2
  <1>3. ASSUME w.state \in {"RETRY_WAIT", "WAITING_DEPENDENCY"}
        PROVE  RowShape(Wake(w)) /\ Moves(w, Wake(w))
    BY <1>3 DEF Wake, RowShape, Moves, RowType, Terminal, Revs
  <1> QED BY <1>1, <1>2, <1>3

(* A recorded intent ends an idle row, marks a running one, and never succeeds. *)
LEMMA RecordedShape ==
    ASSUME NEW w \in RowType, RowShape(w), NoIntent(w), w.state \in Idle \cup {"RUNNING"},
           NEW v \in {RecordCancel(w), RecordSupersede(w)}
    PROVE  /\ RowShape(v) /\ Moves(w, v)
           /\ w.state = "RUNNING" => v.state = "RUNNING" /\ v.rev = w.rev
           /\ v.state # "SUCCEEDED"
  <1>1. CASE v = RecordCancel(w)
    BY <1>1 DEF RecordCancel, Ended, NoIntent, RowShape, Moves, RowType, Terminal, Idle, Revs
  <1>2. CASE v = RecordSupersede(w)
    BY <1>2 DEF RecordSupersede, Ended, NoIntent, RowShape, Moves, RowType, Terminal, Idle, Revs
  <1> QED BY <1>1, <1>2

(* A call that holds a well-formed mutation leaves a coherent row.           *)
LEMMA AfterShape ==
    ASSUME NEW w \in RowType, RowShape(w), NEW x \in ExecType, NEW c, WriteOK(x, w, c),
           NEW r, Applies(w, x, r)
    PROVE  RowShape(Applied(w, x)) /\ Moves(w, Applied(w, x))
  <1>1. w.state \in {"PENDING", "RUNNING"}
    BY DEF Applies, UpdateGuard, ExecType
  <1>2. x.write \in Writes /\ x.notBefore \in Times
    BY DEF ExecType
  <1>3. CASE x.write \in Terminal \ {"FAILED"}
    BY <1>3, CommitTerminalShape DEF Applied, Terminal, WriteOK
  <1>4. CASE x.write \in {"FAILED", "INVALID"}
    <2>1. "FAILED" \in Terminal
      BY DEF Terminal
    <2>2. \A class \in {"permanent", "invalid"} :
            /\ RowShape(CommitTerminal(w, "FAILED", class))
            /\ Moves(w, CommitTerminal(w, "FAILED", class))
      BY <2>1, CommitTerminalShape
    <2> QED BY <1>4, <2>2 DEF Applied, Terminal
  <1>5. CASE x.write = "RETRY"
    BY <1>1, <1>2, <1>5, MarkShape DEF Applied, Terminal
  <1>6. CASE x.write \in {"CLAIM", "WAIT"}
    <2>1. w.state = "PENDING"
      BY <1>6 DEF Applies, UpdateGuard
    <2> QED BY <1>6, <2>1, MarkShape DEF Applied, Terminal
  <1> QED BY <1>2, <1>3, <1>4, <1>5, <1>6 DEF Writes, WriteOK

------------------------------------------------------------------------------
(* Preservation.                                                            *)

(* An invocation that does not move stays in order whatever its row does,   *)
(* as long as the owner's claim on the row is respected.                    *)
LEMMA UnmovedCall ==
    ASSUME TypeOK, TypeOK', NEW i \in Items, NEW r \in Revs, NEW h \in Hosts, CallOK(i, r, h),
           exec'[<<i, r, h>>] = exec[<<i, r, h>>],
           row'[i] = row[i] \/ Moves(row[i], row'[i]),
           owner' = owner, now <= now', succeeded \subseteq succeeded',
           h = owner => Holds(exec[<<i, r, h>>], row'[i], r)
    PROVE  CallOK(i, r, h)'
  <1> DEFINE x == exec[<<i, r, h>>]
             w == row[i]
             v == row'[i]
  <1>1. /\ r \in Int /\ w.rev \in Int /\ v.rev \in Int
        /\ now \in Int /\ now' \in Int /\ w.notBefore \in Int
    BY BoundsAreNaturals DEF TypeOK, RowType, Revs, Times
  <1>2. CASE v = w
    <2>1. (x.pc = "write" => WriteOK(x, w, <<i, r, h>>))'
      BY <1>2 DEF CallOK, WriteOK
    <2>2. (Busy(x) => w.state # "ABSENT" /\ r <= w.rev)'
      BY <1>2 DEF CallOK, Busy
    <2>3. (h = owner => Current(x, w, r))'
      BY <1>1, <1>2 DEF CallOK, Current
    <2> QED BY <2>1, <2>2, <2>3 DEF CallOK, Holds, Busy, Engaged
  <1>3. CASE Moves(w, v)
    <2>1. (x.pc = "write" => WriteOK(x, w, <<i, r, h>>))'
      BY <1>3 DEF CallOK, WriteOK, Moves
    <2>2. (Busy(x) => w.state # "ABSENT" /\ r <= w.rev)'
      BY <1>1, <1>3 DEF CallOK, Moves, Busy
    <2>3. (h = owner => Current(x, w, r))'
      BY <1>1, <1>3 DEF CallOK, Current, Moves, Busy
    <2> QED BY <2>1, <2>2, <2>3 DEF CallOK, Holds, Busy, Engaged
  <1> QED BY <1>2, <1>3

(* An invocation outside the executor's critical stretch is in order.       *)
LEMMA OutsideCall ==
    ASSUME NEW i \in Items, NEW r \in Revs, NEW h \in Hosts,
           exec'[<<i, r, h>>] \in {Resting, Reading, Returned, Threw},
           h <= owner' \/ exec'[<<i, r, h>>] = Resting, owner' \in Hosts
    PROVE  CallOK(i, r, h)'
  BY DEF CallOK, Resting, Reading, Returned, Threw, Outside, Invocation, Holds, Current,
         Busy, Engaged, Hosts

(* Steps that touch neither invocations nor rows.                           *)
LEMMA QuietStep ==
    ASSUME Inv, TypeOK', UNCHANGED <<row, exec, owner, succeeded>>, now <= now',
           alive' \subseteq 1 .. owner
    PROVE  Inv'
  <1>1. ASSUME NEW i \in Items, NEW r \in Revs, NEW h \in Hosts PROVE CallOK(i, r, h)'
    BY UnmovedCall DEF Inv, CallOK
  <1>2. SuccessIsEarned'
    BY DEF Inv, SuccessIsEarned
  <1> QED BY <1>1, <1>2 DEF Inv

(* Steps that change one row and no invocation.                             *)
LEMMA RowOnlyStep ==
    ASSUME Inv, TypeOK', NEW i \in Items, NEW v, RowShape(v), Moves(row[i], v),
           row' = [row EXCEPT ![i] = v],
           row[i].state = "RUNNING" => v.state = "RUNNING" /\ v.rev = row[i].rev,
           v.state # "SUCCEEDED",
           UNCHANGED <<engine, exec, candidates, recoverable, environment, faults, succeeded>>
    PROVE  Inv'
  <1>1. /\ row'[i] = v
        /\ \A j \in Items \ {i} : row'[j] = row[j]
        /\ UNCHANGED <<owner, alive, now>>
    BY DEF Inv, TypeOK, environment
  <1>2. now <= now'
    BY <1>1, BoundsAreNaturals DEF Inv, TypeOK, Times
  <1>3. ASSUME NEW j \in Items, NEW r \in Revs, NEW h \in Hosts PROVE CallOK(j, r, h)'
    <2>1. h = owner => Holds(exec[<<j, r, h>>], row'[j], r)
      BY <1>1 DEF Inv, CallOK, Holds
    <2> QED BY <1>1, <1>2, <2>1, UnmovedCall DEF Inv
  <1>4. \A j \in Items : RowShape(row'[j])
    BY <1>1 DEF Inv
  <1>5. SuccessIsEarned'
    BY <1>1 DEF Inv, SuccessIsEarned
  <1> QED BY <1>1, <1>3, <1>4, <1>5 DEF Inv

(* The callers of the queue keep the invariant.                              *)
LEMMA CallerStep ==
    ASSUME Inv, TypeOK', NEW i \in Items,
           Create(i) \/ RequestCancel(i) \/ RequestSupersede(i)
    PROVE  Inv'
  <1>1. row[i] \in RowType /\ RowShape(row[i])
    BY DEF Inv, TypeOK
  <1>2. ASSUME NEW t \in Times, row[i].state = "ABSENT"
        PROVE  RowShape(Fresh("PENDING", 1, t)) /\ Moves(row[i], Fresh("PENDING", 1, t))
    BY <1>1, <1>2 DEF Fresh, NoOutcome, RowShape, Moves, RowType, Terminal, Revs
  <1>3. CASE Create(i)
    <2>1. PICK t \in Times : row' = [row EXCEPT ![i] = Fresh("PENDING", 1, t)]
      BY <1>3 DEF Create
    <2>2. Fresh("PENDING", 1, t).state = "PENDING"
      BY DEF Fresh
    <2> QED BY <1>2, <1>3, <2>1, <2>2, RowOnlyStep DEF Create
  <1>4. CASE RequestCancel(i)
    BY <1>1, <1>4, RecordedShape, RowOnlyStep DEF RequestCancel, Request
  <1>5. CASE RequestSupersede(i)
    BY <1>1, <1>5, RecordedShape, RowOnlyStep DEF RequestSupersede, Request
  <1> QED BY <1>3, <1>4, <1>5

(* The reconciler's scan keeps the invariant.                                *)
LEMMA ScanStep ==
    ASSUME Inv, TypeOK', NEW i \in Items,
           WakeDueRetry(i) \/ WakeDependency(i) \/ ListPending(i)
    PROVE  Inv'
  <1>1. row[i] \in RowType /\ RowShape(row[i])
    BY DEF Inv, TypeOK
  <1>2. Wake(row[i]).state = "PENDING"
    BY <1>1 DEF Wake, RowType
  <1>3. CASE WakeDueRetry(i)
    BY <1>1, <1>2, <1>3, MarkShape, RowOnlyStep DEF WakeDueRetry
  <1>4. CASE WakeDependency(i)
    BY <1>1, <1>2, <1>4, MarkShape, RowOnlyStep DEF WakeDependency
  <1>5. CASE ListPending(i)
    <2>1. now <= now'
      BY <1>5, BoundsAreNaturals DEF Inv, TypeOK, ListPending, environment, Times
    <2> QED BY <1>5, <2>1, QuietStep DEF Inv, ListPending, environment
  <1> QED BY <1>3, <1>4, <1>5

(* Steps that change one invocation and no row.                             *)
LEMMA CallOnlyStep ==
    ASSUME Inv, TypeOK', NEW i \in Items, NEW r \in Revs, NEW h \in Hosts,
           NEW y, Goto(i, r, h, y), CallOK(i, r, h)',
           UNCHANGED <<row, environment>>, succeeded \subseteq succeeded'
    PROVE  Inv'
  <1>1. UNCHANGED <<owner, alive, now>> /\ now <= now'
    BY BoundsAreNaturals DEF Inv, TypeOK, environment, Times
  <1>2. ASSUME NEW j \in Items, NEW q \in Revs, NEW g \in Hosts PROVE CallOK(j, q, g)'
    <2>1. CASE <<j, q, g>> = <<i, r, h>>
      BY <2>1
    <2>2. CASE <<j, q, g>> # <<i, r, h>>
      <3>1. exec'[<<j, q, g>>] = exec[<<j, q, g>>]
        BY <2>2 DEF Inv, TypeOK, Goto
      <3> QED BY <1>1, <3>1, UnmovedCall DEF Inv, CallOK
    <2> QED BY <2>1, <2>2
  <1>3. SuccessIsEarned'
    BY <1>1 DEF Inv, SuccessIsEarned
  <1> QED BY <1>1, <1>2, <1>3 DEF Inv

(* Starting, refusing and recording a workflow keep the invariant.           *)
LEMMA WorkflowStep ==
    ASSUME Inv, TypeOK', NEW i \in Items, NEW r \in Revs, NEW h \in Hosts,
           Dequeue(i, r, h) \/ Record(i, r, h) \/ Refused(i, r, h)
    PROVE  Inv'
  <1>1. PICK y \in {Resting, Reading, Threw} : Goto(i, r, h, y)
    BY DEF Dequeue, Record, Refused
  <1>2. exec'[<<i, r, h>>] = y
    BY <1>1 DEF Inv, TypeOK, Goto
  <1>3. h <= owner'
    <2>1. CASE Dequeue(i, r, h)
      BY <2>1 DEF Inv, Dequeue, environment
    <2>2. CASE Record(i, r, h) \/ Refused(i, r, h)
      <3>1. exec[<<i, r, h>>].pc # "idle"
        BY <2>2 DEF Record, Refused
      <3> QED BY <2>2, <3>1 DEF Inv, TypeOK, CallOK, Record, Refused, environment, Hosts
    <2> QED BY <2>1, <2>2
  <1>4. CallOK(i, r, h)'
    BY <1>2, <1>3, OutsideCall DEF TypeOK
  <1> QED BY <1>1, <1>4, CallOnlyStep DEF Dequeue, Record, Refused

(* Dispatch, its failure and the engine's recovery keep the invariant.       *)
LEMMA DispatchStep ==
    ASSUME Inv, TypeOK', NEW i \in Items, NEW r \in Revs,
           Dispatch(i, r) \/ DispatchFails(i, r) \/ Recover(i, r)
    PROVE  Inv'
  <1>1. now <= now' /\ UNCHANGED <<row, owner, alive, succeeded>>
    BY BoundsAreNaturals DEF Inv, TypeOK, Dispatch, DispatchFails, Recover, environment, Times
  <1>2. CASE UNCHANGED exec
    BY <1>1, <1>2, QuietStep DEF Inv
  <1>3. CASE Recover(i, r) /\ Goto(i, r, owner, Reading)
    <2>1. owner \in Hosts /\ owner' = owner /\ owner <= owner'
      BY <1>1 DEF Inv, TypeOK, Hosts
    <2>2. exec'[<<i, r, owner>>] = Reading
      BY <1>3, <2>1 DEF Inv, TypeOK, Goto
    <2>3. CallOK(i, r, owner)'
      BY <2>1, <2>2, OutsideCall
    <2> QED BY <1>3, <2>1, <2>3, CallOnlyStep DEF Recover
  <1> QED BY <1>2, <1>3 DEF Dispatch, DispatchFails, Recover

(* A Host number beyond the owner's has never run anything.                 *)
LEMMA ActiveHost ==
    ASSUME Inv, NEW i \in Items, NEW r \in Revs, NEW h \in Hosts,
           exec[<<i, r, h>>].pc # "idle"
    PROVE  h <= owner
  BY DEF Inv, TypeOK, CallOK, Hosts

(* The first read of a call keeps the invariant.                             *)
LEMMA ReadRowStep ==
    ASSUME Inv, TypeOK', NEW i \in Items, NEW r \in Revs, NEW h \in Hosts, ReadRow(i, r, h)
    PROVE  Inv'
  <1> DEFINE w == row[i]
             expect == IF w.state = "RUNNING" THEN "RUNNING" ELSE "PENDING"
             y == exec'[<<i, r, h>>]
  <1>1. /\ w \in RowType /\ RowShape(w) /\ h <= owner
        /\ UNCHANGED <<row, owner, now, succeeded, environment>>
    BY ActiveHost DEF Inv, TypeOK, ReadRow, environment
  <1>2. \A z : Goto(i, r, h, z) => y = z
    BY DEF Inv, TypeOK, Goto
  <1>3. CASE Goto(i, r, h, Returned) \/ Goto(i, r, h, Threw)
    BY <1>1, <1>2, <1>3, OutsideCall, CallOnlyStep DEF TypeOK
  <1>4. CASE /\ w.state \in {"PENDING", "RUNNING"} /\ w.rev = r /\ ~NoIntent(w)
             /\ Goto(i, r, h, Send(Invocation("read", expect, FALSE, 0), Intent(w), 0))
    <2>1. w.state = "RUNNING"
      BY <1>1, <1>4 DEF RowShape, NoIntent
    <2>2. y = [pc |-> "write", expect |-> "RUNNING", lease |-> FALSE, write |-> Intent(w),
               notBefore |-> 0, aborted |-> FALSE]
      BY <1>2, <1>4, <2>1 DEF Send, Invocation
    <2>3. /\ Intent(w) \in {"CANCELLED", "SUPERSEDED"}
          /\ Intent(w) = "CANCELLED" => w.cancel
          /\ Intent(w) = "SUPERSEDED" => w.superseded
      BY <1>4 DEF Intent, NoIntent
    <2>4. r <= w.rev
      BY <1>4 DEF Revs
    <2>5. CallOK(i, r, h)'
      BY <1>1, <1>4, <2>1, <2>2, <2>3, <2>4
         DEF CallOK, WriteOK, Busy, Holds, Engaged, Current, Hosts, TypeOK
    <2> QED BY <1>1, <1>4, <2>5, CallOnlyStep
  <1>5. CASE /\ w.state \in {"PENDING", "RUNNING"} /\ w.rev = r
             /\ Goto(i, r, h, Invocation("prepare", expect, available[i], w.notBefore))
    <2>1. y = [pc |-> "prepare", expect |-> expect, lease |-> available[i], write |-> "NONE",
               notBefore |-> w.notBefore, aborted |-> FALSE]
      BY <1>2, <1>5 DEF Invocation
    <2>2. r <= w.rev
      BY <1>5 DEF Revs
    <2>3. CallOK(i, r, h)'
      BY <1>1, <1>5, <2>1, <2>2
         DEF CallOK, WriteOK, Busy, Holds, Engaged, Current, Hosts, TypeOK
    <2> QED BY <1>1, <1>5, <2>3, CallOnlyStep
  <1> QED BY <1>3, <1>4, <1>5 DEF ReadRow

(* What a sent mutation carries.                                             *)
LEMMA SendFields ==
    ASSUME NEW x \in ExecType, NEW write, NEW t
    PROVE  LET y == Send(x, write, t)
           IN  /\ y.pc = "write" /\ y.write = write /\ y.notBefore = t
               /\ y.expect = x.expect
  BY DEF Send, ExecType

(* From the lease to the first write or to the handler.                     *)
LEMMA PrepareStep ==
    ASSUME Inv, TypeOK', NEW i \in Items, NEW r \in Revs, NEW h \in Hosts, Prepare(i, r, h)
    PROVE  Inv'
  <1> DEFINE w == row[i]
             x == exec[<<i, r, h>>]
             y == exec'[<<i, r, h>>]
  <1>1. /\ x \in ExecType /\ x.pc = "prepare" /\ h <= owner /\ CallOK(i, r, h)
        /\ UNCHANGED <<row, owner, now, succeeded, environment>>
    BY ActiveHost DEF Inv, TypeOK, Prepare, environment
  <1>2. \A z : Goto(i, r, h, z) => y = z
    BY DEF Inv, TypeOK, Goto
  <1>3. CASE Goto(i, r, h, Threw)
    BY <1>1, <1>2, <1>3, OutsideCall, CallOnlyStep DEF TypeOK
  <1>4. ASSUME NEW write \in {"WAIT", "INVALID", "RETRY", "CLAIM"}, NEW t,
               Goto(i, r, h, Send(x, write, t)),
               write \in {"WAIT", "CLAIM"} => x.expect = "PENDING",
               write = "CLAIM" => x.notBefore <= now
        PROVE  Inv'
    <2>1. y.pc = "write" /\ y.write = write /\ y.expect = x.expect
      BY <1>1, <1>2, <1>4, SendFields
    <2>2. CallOK(i, r, h)'
      BY <1>1, <1>4, <2>1 DEF CallOK, WriteOK, Busy, Holds, Engaged, Current, Hosts, TypeOK
    <2> QED BY <1>1, <1>4, <2>2, CallOnlyStep
  <1>5. CASE x.expect = "RUNNING" /\ Goto(i, r, h, [x EXCEPT !.pc = "handler"])
    <2>1. y.pc = "handler" /\ y.expect = "RUNNING"
      BY <1>1, <1>2, <1>5 DEF ExecType
    <2>2. CallOK(i, r, h)'
      BY <1>1, <1>5, <2>1 DEF CallOK, Busy, Holds, Engaged, Current, Hosts, TypeOK
    <2> QED BY <1>1, <1>5, <2>2, CallOnlyStep
  <1>6. x.expect \in {"PENDING", "RUNNING"} /\ x.notBefore \in Int /\ now \in Int
    BY <1>1, BoundsAreNaturals DEF ExecType, Inv, TypeOK, Times
  <1>7. \/ Goto(i, r, h, Threw)
        \/ x.expect = "PENDING" /\ Goto(i, r, h, Send(x, "WAIT", 0))
        \/ Goto(i, r, h, Send(x, "INVALID", 0))
        \/ Goto(i, r, h, Send(x, "RETRY", x.notBefore))
        \/ /\ x.expect = "PENDING" /\ x.notBefore <= now
           /\ Goto(i, r, h, Send(x, "CLAIM", 0))
        \/ x.expect = "RUNNING" /\ Goto(i, r, h, [x EXCEPT !.pc = "handler"])
    BY <1>6 DEF Prepare
  <1> QED BY <1>3, <1>4, <1>5, <1>7

(* The handler's return and the cancellation monitor keep the invariant.     *)
LEMMA HandlerStep ==
    ASSUME Inv, TypeOK', NEW i \in Items, NEW r \in Revs, NEW h \in Hosts,
           HandlerReturns(i, r, h) \/ ObserveIntent(i, r, h)
    PROVE  Inv'
  <1> DEFINE x == exec[<<i, r, h>>]
             y == exec'[<<i, r, h>>]
  <1>1. /\ x \in ExecType /\ x.pc = "handler" /\ x.expect = "RUNNING"
        /\ h <= owner /\ CallOK(i, r, h)
        /\ UNCHANGED <<row, owner, now, environment>> /\ succeeded \subseteq succeeded'
    BY ActiveHost DEF Inv, TypeOK, CallOK, HandlerReturns, ObserveIntent, environment
  <1>2. \A z : Goto(i, r, h, z) => y = z
    BY DEF Inv, TypeOK, Goto
  <1>3. ASSUME NEW write \in {"SUCCEEDED", "FAILED", "RETRY"}, NEW t,
               Goto(i, r, h, Send(x, write, t)),
               write = "SUCCEEDED" => <<i, r, h>> \in succeeded'
        PROVE  Inv'
    <2>1. y.pc = "write" /\ y.write = write /\ y.expect = "RUNNING"
      BY <1>1, <1>2, <1>3, SendFields
    <2>2. CallOK(i, r, h)'
      BY <1>1, <1>3, <2>1 DEF CallOK, WriteOK, Busy, Holds, Engaged, Current, Hosts, TypeOK
    <2> QED BY <1>1, <1>3, <2>2, CallOnlyStep
  <1>4. CASE HandlerReturns(i, r, h)
    BY <1>3, <1>4 DEF HandlerReturns
  <1>5. CASE ObserveIntent(i, r, h)
    <2>1. Goto(i, r, h, [x EXCEPT !.aborted = TRUE])
      BY <1>5 DEF ObserveIntent
    <2>2. y.pc = "handler" /\ y.expect = "RUNNING"
      BY <1>1, <1>2, <2>1 DEF ExecType
    <2>3. CallOK(i, r, h)'
      BY <1>1, <2>2 DEF CallOK, Busy, Holds, Engaged, Current, Hosts, TypeOK
    <2> QED BY <1>1, <2>1, <2>3, CallOnlyStep
  <1> QED BY <1>4, <1>5

(* The owner's mutations.  Two engaged invocations of one item would name   *)
(* the same row, hence be the same one: whoever writes disturbs nobody.     *)
LEMMA WriteStep ==
    ASSUME Inv, TypeOK', NEW i \in Items, NEW r \in Revs, NEW h \in Hosts, h = owner,
           LET x == exec[<<i, r, h>>]
           IN  /\ x.pc = "write"
               /\ row' \in {row, [row EXCEPT ![i] = After(row[i], x, r)]},
           NEW y, Goto(i, r, h, y), CallOK(i, r, h)',
           UNCHANGED <<environment, succeeded>>
    PROVE  Inv'
  <1> DEFINE w == row[i]
             x == exec[<<i, r, h>>]
  <1>1. /\ owner \in Hosts /\ w \in RowType /\ x \in ExecType /\ RowShape(w)
        /\ CallOK(i, r, h) /\ WriteOK(x, w, <<i, r, h>>)
    BY DEF Inv, TypeOK, CallOK
  <1>2. UNCHANGED <<owner, alive, now>> /\ now <= now'
    BY BoundsAreNaturals DEF Inv, TypeOK, environment, Times
  <1>3. CASE row' = row \/ ~Applies(w, x, r)
    <2>1. row' = row
      BY <1>3 DEF Inv, TypeOK, After
    <2> QED BY <1>1, <2>1, CallOnlyStep
  <1>4. CASE row' = [row EXCEPT ![i] = After(w, x, r)] /\ Applies(w, x, r)
    <2> DEFINE v == Applied(w, x)
    <2>1. /\ row'[i] = v /\ RowShape(v) /\ Moves(w, v)
          /\ \A j \in Items \ {i} : row'[j] = row[j]
      BY <1>1, <1>4, AfterShape DEF Inv, TypeOK, After
    <2>2. ASSUME NEW j \in Items, NEW q \in Revs, NEW g \in Hosts PROVE CallOK(j, q, g)'
      <3>1. CASE <<j, q, g>> = <<i, r, h>>
        BY <3>1
      <3>2. CASE <<j, q, g>> # <<i, r, h>>
        <4>1. exec'[<<j, q, g>>] = exec[<<j, q, g>>]
          BY <3>2 DEF Inv, TypeOK, Goto
        <4>2. g = owner => Holds(exec[<<j, q, g>>], row'[j], q)
          <5>1. CASE j # i
            BY <2>1, <5>1 DEF Inv, CallOK
          <5>2. CASE j = i /\ g = owner /\ Engaged(exec[<<j, q, g>>])
            <6>1. w.state = "RUNNING" /\ w.rev = q
              BY <5>2 DEF Inv, CallOK, Holds
            <6>2. w.rev = r
              BY <1>4 DEF Applies, UpdateGuard
            <6> QED BY <3>2, <5>2, <6>1, <6>2
          <5> QED BY <5>1, <5>2 DEF Holds
        <4> QED BY <1>2, <2>1, <4>1, <4>2, UnmovedCall DEF Inv
      <3> QED BY <3>1, <3>2
    <2>3. v.state = "SUCCEEDED" => <<i, r, h>> \in succeeded /\ v.rev = r
      BY <1>1, <1>4
         DEF Applies, UpdateGuard, Applied, MarkRunning, MarkWaitingDependency, MarkRetryWait,
             CommitTerminal, Ended, Intent, NoIntent, Terminal, RowType, WriteOK, ExecType, Writes
    <2>4. SuccessIsEarned'
      <3>1. h \in 1 .. owner'
        BY <1>1, <1>2 DEF Hosts
      <3> QED BY <1>2, <2>1, <2>3, <3>1 DEF Inv, SuccessIsEarned
    <2> QED BY <1>2, <2>1, <2>2, <2>4 DEF Inv
  <1> QED BY <1>3, <1>4

(* A call's mutation, won, lost or failed, keeps the invariant.              *)
LEMMA MutationStep ==
    ASSUME Inv, TypeOK', NEW i \in Items, NEW r \in Revs, NEW h \in Hosts,
           Claim(i, r, h) \/ Settle(i, r, h) \/ Fails(i, r, h)
    PROVE  Inv'
  <1> DEFINE w == row[i]
             x == exec[<<i, r, h>>]
  <1>1. /\ h = owner /\ owner' = owner /\ UNCHANGED <<environment, succeeded>>
        /\ owner \in Hosts /\ w \in RowType /\ x \in ExecType /\ CallOK(i, r, h)
        /\ now \in Int
    BY BoundsAreNaturals
       DEF Claim, Settle, Fails, environment, Inv, TypeOK, Times
  <1>2. \A z : Goto(i, r, h, z) => exec'[<<i, r, h>>] = z
    BY DEF Inv, TypeOK, Goto
  <1>3. CASE Goto(i, r, h, Returned) \/ Goto(i, r, h, Threw)
    <2>1. CallOK(i, r, h)'
      BY <1>1, <1>2, <1>3, OutsideCall DEF Hosts
    <2>2. CASE x.pc = "write"
      <3>1. row' \in {row, [row EXCEPT ![i] = After(row[i], x, r)]}
        BY <2>2 DEF Claim, Settle, Fails
      <3> QED BY <1>1, <1>3, <2>1, <2>2, <3>1, WriteStep
    <2>3. CASE x.pc # "write"
      <3>1. row' = row
        BY <2>3 DEF Claim, Settle, Fails
      <3> QED BY <1>1, <1>3, <2>1, <3>1, CallOnlyStep
    <2> QED BY <2>2, <2>3
  <1>4. CASE Claim(i, r, h) /\ Applies(w, x, r) /\ Goto(i, r, h, Handling)
    <2>1. /\ w.rev = r /\ w.state = "PENDING" /\ x.write = "CLAIM" /\ x.pc = "write"
          /\ row' = [row EXCEPT ![i] = After(row[i], x, r)]
      BY <1>4 DEF Claim, Applies, UpdateGuard
    <2>2. /\ row'[i] = MarkRunning(w)
      BY <1>4, <2>1 DEF Inv, TypeOK, After, Applied, Terminal
    <2>3. row'[i].state = "RUNNING" /\ row'[i].rev = r
      <3>1. MarkRunning(w).state = "RUNNING" /\ MarkRunning(w).rev = w.rev
        BY <1>1 DEF MarkRunning, RowType
      <3> QED BY <2>1, <2>2, <3>1
    <2>4. /\ exec'[<<i, r, h>>].pc = "handler" /\ exec'[<<i, r, h>>].expect = "RUNNING"
      BY <1>2, <1>4 DEF Handling, Invocation
    <2>5. CallOK(i, r, h)'
      BY <1>1, <2>3, <2>4 DEF CallOK, Busy, Holds, Engaged, Current, Hosts, Revs
    <2> QED BY <1>1, <1>4, <2>1, <2>5, WriteStep
  <1> QED BY <1>3, <1>4 DEF Claim, Settle, Fails

(* Retirement, time and the Hosts keep the invariant.                        *)
LEMMA EnvironmentStep ==
    ASSUME Inv, TypeOK',
           \/ \E i \in Items : Retire(i) \/ Register(i)
           \/ Tick \/ HostReplace
           \/ \E h \in Hosts : HostStop(h)
    PROVE  Inv'
  <1>1. CASE (\E i \in Items : Retire(i) \/ Register(i)) \/ Tick
    <2>1. now <= now' /\ UNCHANGED <<row, exec, owner, alive, succeeded>>
      BY <1>1, BoundsAreNaturals DEF Inv, TypeOK, Retire, Register, Tick, durable, Times
    <2> QED BY <2>1, QuietStep DEF Inv
  <1>2. ASSUME NEW i \in Items, NEW r \in Revs, NEW h \in Hosts,
               row' = row, succeeded' = succeeded,
               exec'[<<i, r, h>>] = exec[<<i, r, h>>],
               h # owner', owner <= owner'
        PROVE  CallOK(i, r, h)'
    <2>1. (h > owner => exec[<<i, r, h>>].pc = "idle")'
      BY <1>2 DEF Inv, TypeOK, CallOK, Hosts
    <2> QED BY <1>2, <2>1 DEF Inv, CallOK, WriteOK, Busy
  <1>3. CASE HostReplace
    <2>1. /\ owner' = owner + 1 /\ owner \in Int /\ owner' \in Hosts
          /\ UNCHANGED <<row, succeeded>>
      BY <1>3 DEF HostReplace, durable, Inv, TypeOK, Hosts
    <2>2. ASSUME NEW c \in Calls
          PROVE  exec'[c] = exec[c] \/ exec'[c] = Resting
      BY <1>3 DEF HostReplace, Kill, Inv, TypeOK, Calls
    <2>3. ASSUME NEW i \in Items, NEW r \in Revs, NEW h \in Hosts PROVE CallOK(i, r, h)'
      <3>1. <<i, r, h>> \in Calls
        BY DEF Calls
      <3>2. CASE exec'[<<i, r, h>>] = Resting
        BY <2>1, <3>2, OutsideCall
      <3>3. CASE exec'[<<i, r, h>>] = exec[<<i, r, h>>] /\ h # owner'
        BY <1>2, <2>1, <3>3
      <3>4. CASE exec'[<<i, r, h>>] = exec[<<i, r, h>>] /\ h = owner'
        <4>1. exec'[<<i, r, h>>].pc = "idle"
          BY <2>1, <3>4 DEF Inv, CallOK
        <4> QED BY <2>1, <3>4, <4>1 DEF CallOK, Busy, Holds, Engaged, Current, Hosts
      <3> QED BY <2>2, <3>1, <3>2, <3>3, <3>4
    <2>4. alive' \subseteq 1 .. owner'
      <3>1. PICK dead \in SUBSET {owner} : alive' = (alive \ dead) \cup {owner + 1}
        BY <1>3 DEF HostReplace
      <3>2. alive \subseteq 1 .. owner
        BY DEF Inv
      <3> QED BY <2>1, <3>1, <3>2 DEF Hosts
    <2>5. SuccessIsEarned'
      <3>1. owner \in Hosts /\ SuccessIsEarned
        BY DEF Inv, TypeOK
      <3>2. 1 .. owner \subseteq 1 .. owner'
        BY <2>1, <3>1 DEF Hosts
      <3> QED BY <2>1, <3>1, <3>2 DEF SuccessIsEarned
    <2> QED BY <2>1, <2>3, <2>4, <2>5 DEF Inv
  <1>4. ASSUME NEW g \in Hosts, HostStop(g) PROVE Inv'
    <2>1. UNCHANGED <<row, owner, now, succeeded>> /\ now <= now' /\ owner' \in Hosts
      BY <1>4, BoundsAreNaturals DEF HostStop, durable, Inv, TypeOK, Times
    <2>2. ASSUME NEW i \in Items, NEW r \in Revs, NEW h \in Hosts PROVE CallOK(i, r, h)'
      <3>1. <<i, r, h>> \in Calls
        BY DEF Calls
      <3>2. exec'[<<i, r, h>>] = exec[<<i, r, h>>] \/ exec'[<<i, r, h>>] = Resting
        BY <1>4, <3>1 DEF HostStop, Kill, Inv, TypeOK, Calls
      <3>3. CASE exec'[<<i, r, h>>] = exec[<<i, r, h>>]
        BY <2>1, <3>3, UnmovedCall DEF Inv, CallOK
      <3>4. CASE exec'[<<i, r, h>>] = Resting
        BY <2>1, <3>4, OutsideCall
      <3> QED BY <3>2, <3>3, <3>4
    <2>3. alive' \subseteq 1 .. owner'
      BY <1>4, <2>1 DEF HostStop, Inv
    <2>4. SuccessIsEarned'
      BY <2>1 DEF Inv, SuccessIsEarned
    <2> QED BY <2>1, <2>2, <2>3, <2>4 DEF Inv
  <1> QED BY <1>1, <1>3, <1>4

(* The empty queue satisfies the inductive invariant.                        *)
LEMMA InvInit == Init => Inv
  <1> SUFFICES ASSUME Init PROVE Inv
    OBVIOUS
  <1>1. TypeOK /\ owner = 1 /\ alive = {1} /\ owner \in Hosts
    BY InitType DEF Init, TypeOK
  <1>2. ASSUME NEW i \in Items PROVE RowShape(row[i]) /\ row[i].state = "ABSENT"
    BY DEF Init, Absent, Fresh, NoOutcome, RowShape, Terminal
  <1>3. ASSUME NEW i \in Items, NEW r \in Revs, NEW h \in Hosts PROVE CallOK(i, r, h)
    BY DEF Init, CallOK, Resting, Outside, Invocation, Holds, Engaged, Current, Busy
  <1> QED BY <1>1, <1>2, <1>3 DEF Inv, SuccessIsEarned

(* The invariant is inductive.                                               *)
LEMMA InvStep == Inv /\ [Next]_vars => Inv'
  <1> SUFFICES ASSUME Inv, [Next]_vars PROVE Inv'
    OBVIOUS
  <1>1. TypeOK'
    BY TypeStep DEF Inv
  <1>2. CASE UNCHANGED vars
    <2>1. UNCHANGED <<row, exec, owner, succeeded, alive, now>>
      BY <1>2 DEF vars, environment
    <2>2. now <= now'
      BY <2>1, BoundsAreNaturals DEF Inv, TypeOK, Times
    <2> QED BY <1>1, <2>1, <2>2, QuietStep DEF Inv
  <1>3. CASE Next
    BY <1>1, <1>3, CallerStep, ScanStep, DispatchStep, WorkflowStep, ReadRowStep, PrepareStep,
       HandlerStep, MutationStep, EnvironmentStep
       DEF Next, Execute
  <1> QED BY <1>2, <1>3

(* Everything the argument needs of a state holds in every reachable one.    *)
THEOREM Invariance == Spec => []Inv
  BY InvInit, InvStep, PTL DEF Spec

(* No reachable row is one that parsePersistedWorkItem rejects.             *)
THEOREM RowsParse == Spec => []EveryRowParses
  <1>1. Inv => EveryRowParses
    BY DEF Inv, TypeOK, RowType, RowShape, EveryRowParses, Parses, Terminal, Idle, Revs
  <1> QED BY Invariance, <1>1, PTL

(* WI-006: the first accepted intent, and nothing else, decides.            *)
THEOREM IntentCorrect == Spec => []IntentDecides
  <1>1. Inv => IntentDecides
    BY DEF Inv, RowShape, IntentDecides
  <1> QED BY Invariance, <1>1, PTL

(* WI-005: the owner's running attempt is the one its row names.            *)
THEOREM AttemptFenced == Spec => []AttemptHoldsItsRow
  <1>1. Inv => AttemptHoldsItsRow
    BY DEF Inv, TypeOK, CallOK, Holds, RowShape, AttemptHoldsItsRow
  <1> QED BY Invariance, <1>1, PTL

(* The row of an item is sound under every writer of it.                    *)
THEOREM RowsSound == Spec => []RowsAreSound
  <1>1. TypeOK /\ EveryRowParses /\ IntentDecides /\ AttemptHoldsItsRow => RowsAreSound
    BY DEF RowsAreSound
  <1> QED BY TypeCorrect, RowsParse, IntentCorrect, AttemptFenced, <1>1, PTL

(* No success is ever inferred.                                             *)
THEOREM SuccessEarned == Spec => []SuccessIsEarned
  <1>1. Inv => SuccessIsEarned
    BY DEF Inv
  <1> QED BY Invariance, <1>1, PTL

------------------------------------------------------------------------------
(* Which steps change a row.                                                *)

Becomes(i, v) == row' = [row EXCEPT ![i] = v]

Created(i) == row[i].state = "ABSENT" /\ \E t \in Times : Becomes(i, Fresh("PENDING", 1, t))

Requested(i) ==
    /\ row[i].state \in Idle \cup {"RUNNING"}
    /\ NoIntent(row[i])
    /\ \E v \in {RecordCancel(row[i]), RecordSupersede(row[i])} : Becomes(i, v)

Woken(i) ==
    /\ row[i].state \in {"RETRY_WAIT", "WAITING_DEPENDENCY"}
    /\ Becomes(i, Wake(row[i]))

(* The statement that an invocation of the owner sent takes effect.         *)
Takes(i, r) ==
    LET x == exec[<<i, r, owner>>]
    IN  /\ x.pc = "write"
        /\ Applies(row[i], x, r)
        /\ Becomes(i, Applied(row[i], x))

RowUnchanged == row' = row

(* A row that a mutation leaves is unchanged or was taken by its call.       *)
LEMMA SentStatement ==
    ASSUME TypeOK, NEW i \in Items, NEW r \in Revs,
           exec[<<i, r, owner>>].pc = "write",
           row' = [row EXCEPT ![i] = After(row[i], exec[<<i, r, owner>>], r)]
    PROVE  RowUnchanged \/ Takes(i, r)
  <1> DEFINE x == exec[<<i, r, owner>>]
  <1>1. CASE Applies(row[i], x, r)
    BY <1>1 DEF Takes, After, Becomes
  <1>2. CASE ~Applies(row[i], x, r)
    BY <1>2 DEF After, TypeOK, RowUnchanged
  <1> QED BY <1>1, <1>2

(* The only ways in which any step changes a row.                            *)
LEMMA RowChange ==
    ASSUME Inv, Next
    PROVE  \/ RowUnchanged
           \/ \E i \in Items : Created(i) \/ Requested(i) \/ Woken(i)
           \/ \E i \in Items, r \in Revs : Takes(i, r)
  <1>1. ASSUME NEW i \in Items, NEW r \in Revs, NEW h \in Hosts,
               Claim(i, r, h) \/ Settle(i, r, h) \/ Fails(i, r, h)
        PROVE  RowUnchanged \/ Takes(i, r)
    <2> DEFINE Sent == /\ exec[<<i, r, h>>].pc = "write"
                       /\ row' = [row EXCEPT ![i] = After(row[i], exec[<<i, r, h>>], r)]
    <2>1. CASE Claim(i, r, h)
      BY <2>1, SentStatement DEF Claim, Inv
    <2>2. CASE Settle(i, r, h)
      BY <2>2, SentStatement DEF Settle, Inv
    <2>3. CASE Fails(i, r, h)
      <3>1. h = owner /\ (RowUnchanged \/ Sent)
        BY <2>3 DEF Fails, RowUnchanged
      <3> QED BY <3>1, SentStatement DEF Inv
    <2> QED BY <1>1, <2>1, <2>2, <2>3
  <1>2. ASSUME NEW i \in Items, ListPending(i) \/ Retire(i) \/ Register(i)
        PROVE  RowUnchanged
    BY <1>2 DEF ListPending, Retire, Register, durable, RowUnchanged
  <1>3. ASSUME NEW i \in Items, NEW r \in Revs,
               Dispatch(i, r) \/ DispatchFails(i, r) \/ Recover(i, r)
        PROVE  RowUnchanged
    BY <1>3 DEF Dispatch, DispatchFails, Recover, RowUnchanged
  <1>4. ASSUME NEW i \in Items, NEW r \in Revs, NEW h \in Hosts,
               \/ Dequeue(i, r, h) \/ ReadRow(i, r, h) \/ Prepare(i, r, h)
               \/ Refused(i, r, h) \/ HandlerReturns(i, r, h) \/ Record(i, r, h)
               \/ ObserveIntent(i, r, h)
        PROVE  RowUnchanged
    BY <1>4 DEF Dequeue, ReadRow, Prepare, Refused, HandlerReturns, Record, ObserveIntent,
                RowUnchanged
  <1>5. ASSUME Tick \/ HostReplace \/ \E h \in Hosts : HostStop(h)
        PROVE  RowUnchanged
    BY <1>5 DEF Tick, HostReplace, HostStop, durable, RowUnchanged
  <1>6. ASSUME NEW i \in Items, Create(i) PROVE Created(i)
    BY <1>6 DEF Create, Created, Becomes
  <1>7. ASSUME NEW i \in Items, RequestCancel(i) \/ RequestSupersede(i) PROVE Requested(i)
    BY <1>7 DEF RequestCancel, RequestSupersede, Request, Requested, Becomes
  <1>8. ASSUME NEW i \in Items, WakeDueRetry(i) \/ WakeDependency(i) PROVE Woken(i)
    BY <1>8 DEF WakeDueRetry, WakeDependency, Woken, Becomes
  <1> QED BY <1>1, <1>2, <1>3, <1>4, <1>5, <1>6, <1>7, <1>8 DEF Next, Execute

(* An item is claimed only once it is due.                                  *)
THEOREM DueBeforeStart == Spec => StartsWhenDue
  <1> DEFINE Due(i) == row[i].state = "PENDING" /\ row'[i].state = "RUNNING"
                          => row[i].notBefore <= now
  <1>1. ASSUME Inv, Next, NEW i \in Items PROVE Due(i)
    <2>1. row[i] \in RowType /\ row \in [Items -> RowType]
      BY <1>1 DEF Inv, TypeOK
    <2>2. ASSUME NEW j \in Items, Created(j) \/ Requested(j) \/ Woken(j) PROVE Due(i)
      <3>1. CASE Created(j)
        BY <2>1, <3>1 DEF Created, Becomes, Fresh
      <3>2. CASE Requested(j)
        <4>1. PICK v \in {RecordCancel(row[j]), RecordSupersede(row[j])} : Becomes(j, v)
          BY <3>2 DEF Requested
        <4>2. row[i].state = "PENDING" =>
                 /\ RecordCancel(row[i]).state = "CANCELLED"
                 /\ RecordSupersede(row[i]).state = "SUPERSEDED"
          BY <2>1 DEF RecordCancel, RecordSupersede, Ended, Idle, RowType
        <4> QED BY <2>1, <4>1, <4>2 DEF Becomes
      <3>3. CASE Woken(j)
        BY <2>1, <3>3 DEF Woken, Becomes
      <3> QED BY <2>2, <3>1, <3>2, <3>3
    <2>4. ASSUME NEW j \in Items, NEW r \in Revs, Takes(j, r) PROVE Due(i)
      <3> DEFINE x == exec[<<j, r, owner>>]
      <3>1. owner \in Hosts /\ x \in ExecType
        BY <1>1 DEF Inv, TypeOK
      <3>2. CASE j = i /\ x.write = "CLAIM"
        <4>1. Current(x, row[i], r) /\ row[i].rev = r /\ x.pc = "write"
          BY <1>1, <2>4, <3>1, <3>2 DEF Inv, CallOK, Takes, Applies, UpdateGuard
        <4> QED BY <3>2, <4>1 DEF Current
      <3>3. CASE j = i /\ x.write # "CLAIM"
        <4>1. row'[i] = Applied(row[i], x)
          BY <2>1, <2>4, <3>3 DEF Takes, Becomes
        <4>2. row[i].state = "PENDING" => Applied(row[i], x).state # "RUNNING"
          BY <2>1, <3>1, <3>3
             DEF Applied, MarkWaitingDependency, MarkRetryWait, CommitTerminal, Ended, Intent,
                 NoIntent, Terminal, RowType, ExecType, Writes
        <4> QED BY <4>1, <4>2
      <3>4. CASE j # i
        BY <2>1, <2>4, <3>4 DEF Takes, Becomes
      <3> QED BY <3>2, <3>3, <3>4
    <2> QED BY <1>1, <2>2, <2>4, RowChange DEF RowUnchanged
  <1>2. Inv /\ [Next]_vars => [\A i \in Items : Due(i)]_vars
    BY <1>1
  <1> QED BY Invariance, <1>2, PTL DEF Spec, StartsWhenDue

------------------------------------------------------------------------------
(* Every step is a step of the life cycle.                                  *)

Phases == {"absent", "pending", "running", "waiting", "ended"}
Intents == {"NONE", "CANCELLED", "SUPERSEDED"}
Outcomes == {"NONE"} \cup Terminal

View == [phase : Phases, rev : Revs, intent : Intents, outcome : Outcomes]

(* A row's abstract phase is determined by its state.                        *)
LEMMA PhaseOfState ==
    ASSUME NEW w \in RowType
    PROVE  /\ Phase(w) \in Phases
           /\ w.state = "ABSENT" <=> Phase(w) = "absent"
           /\ w.state = "PENDING" <=> Phase(w) = "pending"
           /\ w.state = "RUNNING" <=> Phase(w) = "running"
           /\ w.state \in {"WAITING_DEPENDENCY", "RETRY_WAIT"} <=> Phase(w) = "waiting"
           /\ w.state \in Terminal <=> Phase(w) = "ended"
  BY DEF Phase, Phases, RowType, Idle, Terminal

(* The fields of a row's abstraction.                                        *)
LEMMA AbstractedFields ==
    ASSUME NEW w \in RowType
    PROVE  /\ Abstracted(w) \in View
           /\ Abstracted(w).phase = Phase(w)
           /\ Abstracted(w).rev = w.rev
           /\ Abstracted(w).intent = Intent(w)
           /\ Abstracted(w).outcome = w.outcome.kind
  <1>1. w.rev \in Revs /\ w.outcome.kind \in Outcomes
    BY DEF RowType, Outcomes
  <1>2. Intent(w) \in Intents
    BY DEF Intent, Intents
  <1> QED BY <1>1, <1>2, PhaseOfState DEF Abstracted, View

Seen(phase, rev, intent, outcome) ==
    [phase |-> phase, rev |-> rev, intent |-> intent, outcome |-> outcome]

(* A view is the record of its fields.                                       *)
LEMMA ViewIsSeen ==
    ASSUME NEW a \in View
    PROVE  a = Seen(a.phase, a.rev, a.intent, a.outcome)
  BY DEF View, Seen

(* What the abstract specification's edits of a view produce.                *)
LEMMA ViewEdits ==
    ASSUME NEW a \in View
    PROVE  /\ \A p \in Phases : [a EXCEPT !.phase = p] = Seen(p, a.rev, a.intent, a.outcome)
           /\ \A n \in Intents : [a EXCEPT !.intent = n] = Seen(a.phase, a.rev, n, a.outcome)
           /\ \A p \in Phases, q \in Revs :
                 [a EXCEPT !.phase = p, !.rev = q] = Seen(p, q, a.intent, a.outcome)
           /\ \A p \in Phases, o \in Outcomes :
                 [a EXCEPT !.phase = p, !.outcome = o] = Seen(p, a.rev, a.intent, o)
           /\ \A p \in Phases, n \in Intents, o \in Outcomes :
                 [a EXCEPT !.phase = p, !.intent = n, !.outcome = o] = Seen(p, a.rev, n, o)
  <1>1. ASSUME NEW p \in Phases PROVE [a EXCEPT !.phase = p] = Seen(p, a.rev, a.intent, a.outcome)
    <2> DEFINE b == [a EXCEPT !.phase = p]
    <2>1. b \in View /\ b.phase = p /\ b.rev = a.rev /\ b.intent = a.intent /\ b.outcome = a.outcome
      BY <1>1 DEF View
    <2> HIDE DEF b
    <2>2. b = Seen(p, a.rev, a.intent, a.outcome)
      BY <2>1, ViewIsSeen
    <2> QED BY <2>2 DEF b
  <1>2. ASSUME NEW n \in Intents PROVE [a EXCEPT !.intent = n] = Seen(a.phase, a.rev, n, a.outcome)
    <2> DEFINE b == [a EXCEPT !.intent = n]
    <2>1. b \in View /\ b.phase = a.phase /\ b.rev = a.rev /\ b.intent = n /\ b.outcome = a.outcome
      BY <1>2 DEF View
    <2> HIDE DEF b
    <2>2. b = Seen(a.phase, a.rev, n, a.outcome)
      BY <2>1, ViewIsSeen
    <2> QED BY <2>2 DEF b
  <1>3. ASSUME NEW p \in Phases, NEW q \in Revs PROVE [a EXCEPT !.phase = p, !.rev = q] = Seen(p, q, a.intent, a.outcome)
    <2> DEFINE b == [a EXCEPT !.phase = p, !.rev = q]
    <2>1. b \in View /\ b.phase = p /\ b.rev = q /\ b.intent = a.intent /\ b.outcome = a.outcome
      BY <1>3 DEF View
    <2> HIDE DEF b
    <2>2. b = Seen(p, q, a.intent, a.outcome)
      BY <2>1, ViewIsSeen
    <2> QED BY <2>2 DEF b
  <1>4. ASSUME NEW p \in Phases, NEW o \in Outcomes PROVE [a EXCEPT !.phase = p, !.outcome = o] = Seen(p, a.rev, a.intent, o)
    <2> DEFINE b == [a EXCEPT !.phase = p, !.outcome = o]
    <2>1. b \in View /\ b.phase = p /\ b.rev = a.rev /\ b.intent = a.intent /\ b.outcome = o
      BY <1>4 DEF View
    <2> HIDE DEF b
    <2>2. b = Seen(p, a.rev, a.intent, o)
      BY <2>1, ViewIsSeen
    <2> QED BY <2>2 DEF b
  <1>5. ASSUME NEW p \in Phases, NEW n \in Intents, NEW o \in Outcomes PROVE [a EXCEPT !.phase = p, !.intent = n, !.outcome = o] = Seen(p, a.rev, n, o)
    <2> DEFINE b == [a EXCEPT !.phase = p, !.intent = n, !.outcome = o]
    <2>1. b \in View /\ b.phase = p /\ b.rev = a.rev /\ b.intent = n /\ b.outcome = o
      BY <1>5 DEF View
    <2> HIDE DEF b
    <2>2. b = Seen(p, a.rev, n, o)
      BY <2>1, ViewIsSeen
    <2> QED BY <2>2 DEF b
  <1> QED BY <1>1, <1>2, <1>3, <1>4, <1>5

(* The abstraction of a row, field by field.                                 *)
LEMMA AbstractedSeen ==
    ASSUME NEW w
    PROVE  Abstracted(w) = Seen(Phase(w), w.rev, Intent(w), w.outcome.kind)
  BY DEF Abstracted, Seen

(* One row's change is an abstract step of that item.                        *)
LEMMA AbstractStep ==
    ASSUME TypeOK, NEW i \in Items, NEW v, Becomes(i, v),
           NEW from, Abstracted(row[i]).phase \in from
    PROVE  Lifecycle!Step(i, from, Abstracted(v))
  <1> DEFINE item == [j \in Items |-> Abstracted(row[j])]
  <1>1. item[i].phase \in from
    OBVIOUS
  <1>2. item' = [item EXCEPT ![i] = Abstracted(v)]
    BY DEF Becomes, TypeOK
  <1> QED BY <1>1, <1>2 DEF Lifecycle!Step

(* An attempt that ends, with or without a recorded intent.                 *)
LEMMA EndsAbstractly ==
    ASSUME TypeOK, NEW i \in Items, RowShape(row[i]), row[i].state \in {"PENDING", "RUNNING"},
           NEW kind \in {"SUCCEEDED", "FAILED"}, NEW class \in RetryClasses,
           NoIntent(row[i]) /\ kind = "SUCCEEDED" => row[i].state = "RUNNING",
           Becomes(i, CommitTerminal(row[i], kind, class))
    PROVE  Lifecycle!Next
  <1> DEFINE w == row[i]
             v == CommitTerminal(w, kind, class)
             ending == IF NoIntent(w) THEN kind ELSE Intent(w)
             a == Abstracted(w)
  <1>1. w \in RowType /\ v \in RowType
    BY CommitTerminalType DEF TypeOK, Terminal
  <1>2. /\ v.state = ending /\ v.rev = w.rev /\ v.cancel = w.cancel
        /\ v.superseded = w.superseded /\ v.outcome.kind = ending
    BY <1>1 DEF CommitTerminal, Ended, RowType
  <1>3. ending \in Terminal
    BY IntentIsTerminal DEF Terminal
  <1>4. Abstracted(v) = [a EXCEPT !.phase = "ended", !.outcome = ending]
    <2>1. Intent(v) = Intent(w)
      BY <1>2 DEF Intent
    <2>2. Phase(v) = "ended"
      BY <1>1, <1>2, <1>3, PhaseOfState
    <2>3. /\ a \in View /\ a.rev = w.rev /\ a.intent = Intent(w)
          /\ Abstracted(v) = Seen(Phase(v), v.rev, Intent(v), v.outcome.kind)
      BY <1>1, AbstractedFields, AbstractedSeen
    <2> HIDE DEF v, ending, a
    <2>4. [a EXCEPT !.phase = "ended", !.outcome = ending]
              = Seen("ended", a.rev, a.intent, ending)
      <3>1. ending \in Outcomes /\ "ended" \in Phases
        BY <1>3 DEF Outcomes, Phases
      <3>2. a \in View
        BY <2>3
      <3>3. \A p \in Phases, o \in Outcomes :
               [a EXCEPT !.phase = p, !.outcome = o] = Seen(p, a.rev, a.intent, o)
        BY <3>2, ViewEdits, Zenon
      <3> QED BY <3>1, <3>3, Zenon
    <2> QED BY <1>2, <2>1, <2>2, <2>3, <2>4
  <1>5. ending \in Lifecycle!Verdicts(a)
    <2>1. a.intent = Intent(w) /\ a.phase = Phase(w)
      BY <1>1, AbstractedFields
    <2>2. CASE NoIntent(w)
      BY <2>1, <2>2, <1>1, PhaseOfState DEF Intent, NoIntent, Lifecycle!Verdicts
    <2>3. CASE ~NoIntent(w)
      BY <2>1, <2>3 DEF Intent, NoIntent, Lifecycle!Verdicts
    <2> QED BY <2>2, <2>3
  <1>6. a.phase \in {"pending", "running"}
    BY <1>1, AbstractedFields, PhaseOfState
  <1>7. Lifecycle!Step(i, {"pending", "running"}, Abstracted(v))
    BY <1>6, AbstractStep
  <1> HIDE DEF v, ending, a
  <1>8. [j \in Items |-> Abstracted(row[j])][i] = a
    BY DEF a
  <1>9. Lifecycle!Finish(i)
    BY <1>4, <1>5, <1>7, <1>8 DEF Lifecycle!Finish
  <1> QED BY <1>9 DEF Lifecycle!Next

(* A row change that leaves intent, revision and outcome changes the phase only. *)
LEMMA OnlyPhase ==
    ASSUME NEW w \in RowType, NEW v \in RowType, v.rev = w.rev, v.cancel = w.cancel,
           v.superseded = w.superseded, v.outcome.kind = w.outcome.kind
    PROVE  Abstracted(v) = [Abstracted(w) EXCEPT !.phase = Phase(v)]
  <1> DEFINE a == Abstracted(w)
  <1>1. /\ a \in View /\ a.rev = v.rev /\ a.intent = Intent(v) /\ a.outcome = v.outcome.kind
    BY AbstractedFields DEF Intent
  <1>2. Phase(v) \in Phases
    BY PhaseOfState
  <1> HIDE DEF a
  <1>3. a \in View
    BY <1>1
  <1>4. \A p \in Phases : [a EXCEPT !.phase = p] = Seen(p, a.rev, a.intent, a.outcome)
    BY <1>3, ViewEdits, Zenon
  <1>5. [a EXCEPT !.phase = Phase(v)] = Seen(Phase(v), a.rev, a.intent, a.outcome)
    BY <1>2, <1>4, Zenon
  <1> QED BY <1>1, <1>5, AbstractedSeen DEF a

(* Waiting for a dependency or a retry is an abstract deferral.              *)
LEMMA DefersAbstractly ==
    ASSUME TypeOK, NEW i \in Items, NoIntent(row[i]), row[i].state \in {"PENDING", "RUNNING"},
           NEW v \in RowType, v.rev = row[i].rev, v.cancel = row[i].cancel,
           v.superseded = row[i].superseded, v.outcome.kind = row[i].outcome.kind,
           v.state \in {"WAITING_DEPENDENCY", "RETRY_WAIT"}, Becomes(i, v)
    PROVE  Lifecycle!Next
  <1> DEFINE a == Abstracted(row[i])
  <1>1. row[i] \in RowType
    BY DEF TypeOK
  <1>2. a.phase \in {"pending", "running"} /\ a.intent = "NONE"
    BY <1>1, AbstractedFields, PhaseOfState DEF Intent, NoIntent
  <1>3. Abstracted(v) = [a EXCEPT !.phase = "waiting"]
    BY <1>1, OnlyPhase, PhaseOfState
  <1>4. Lifecycle!Step(i, {"pending", "running"}, Abstracted(v))
    BY <1>2, AbstractStep
  <1>5. [j \in Items |-> Abstracted(row[j])][i] = a
    OBVIOUS
  <1> HIDE DEF a
  <1>6. Lifecycle!Defer(i)
    BY <1>2, <1>3, <1>4, <1>5 DEF Lifecycle!Defer
  <1> QED BY <1>6 DEF Lifecycle!Next

(* Marking a row RUNNING is an abstract claim.                               *)
LEMMA ClaimsAbstractly ==
    ASSUME TypeOK, NEW i \in Items, row[i].state = "PENDING", Becomes(i, MarkRunning(row[i]))
    PROVE  Lifecycle!Next
  <1> DEFINE w == row[i]
             v == MarkRunning(w)
             a == Abstracted(w)
  <1>1. w \in RowType /\ v \in RowType
    BY MarkType DEF TypeOK
  <1>2. /\ v.rev = w.rev /\ v.cancel = w.cancel /\ v.superseded = w.superseded
        /\ v.outcome.kind = w.outcome.kind /\ v.state = "RUNNING"
    BY <1>1 DEF MarkRunning, RowType
  <1>3. a.phase \in {"pending"}
    BY <1>1, AbstractedFields, PhaseOfState
  <1>4. Abstracted(v) = [a EXCEPT !.phase = "running"]
    <2> HIDE DEF v
    <2> QED BY <1>1, <1>2, OnlyPhase, PhaseOfState
  <1>5. Lifecycle!Step(i, {"pending"}, Abstracted(v))
    BY <1>3, AbstractStep
  <1>6. [j \in Items |-> Abstracted(row[j])][i] = a
    OBVIOUS
  <1> HIDE DEF a, v
  <1>7. Lifecycle!Claim(i)
    BY <1>4, <1>5, <1>6 DEF Lifecycle!Claim
  <1> QED BY <1>7 DEF Lifecycle!Next

(* Every mutation a call wins is a step of the abstract life cycle.          *)
LEMMA TakesAbstractly ==
    ASSUME Inv, NEW i \in Items, NEW r \in Revs, Takes(i, r)
    PROVE  Lifecycle!Next
  <1> DEFINE x == exec[<<i, r, owner>>]
             w == row[i]
  <1>1. /\ owner \in Hosts /\ x \in ExecType /\ w \in RowType /\ TypeOK /\ RowShape(w)
        /\ x.write \in Writes /\ x.notBefore \in Times
    BY DEF Inv, TypeOK, ExecType
  <1>2. /\ x.pc = "write" /\ Applies(w, x, r) /\ Becomes(i, Applied(w, x))
        /\ WriteOK(x, w, <<i, r, owner>>)
    BY <1>1 DEF Takes, Inv, CallOK
  <1>3. /\ w.state \in {"PENDING", "RUNNING"}
        /\ x.write \in {"CLAIM", "WAIT"} => w.state = "PENDING" /\ NoIntent(w)
        /\ x.write = "SUCCEEDED" => w.state = "RUNNING"
    BY <1>1, <1>2 DEF Applies, UpdateGuard, WriteOK, ExecType
  <1> HIDE DEF x
  <1>4. CASE x.write = "CLAIM"
    <2>1. Applied(w, x) = MarkRunning(w)
      BY <1>4 DEF Applied, Terminal
    <2> QED BY <1>1, <1>2, <1>3, <1>4, <2>1, ClaimsAbstractly
  <1>5. CASE x.write = "WAIT"
    <2> DEFINE v == MarkWaitingDependency(w)
    <2>1. Applied(w, x) = v
      BY <1>5 DEF Applied, Terminal
    <2>2. /\ v \in RowType /\ v.rev = w.rev /\ v.cancel = w.cancel
          /\ v.superseded = w.superseded /\ v.outcome.kind = w.outcome.kind
          /\ v.state = "WAITING_DEPENDENCY"
      BY <1>1, MarkType DEF MarkWaitingDependency, RowType
    <2> HIDE DEF v
    <2> QED BY <1>1, <1>2, <1>3, <1>5, <2>1, <2>2, DefersAbstractly
  <1>6. CASE x.write = "RETRY" /\ NoIntent(w)
    <2> DEFINE v == MarkRetryWait(w, x.notBefore)
    <2>1. Applied(w, x) = v
      BY <1>6 DEF Applied, Terminal
    <2>2. v \in RowType
      BY <1>1, MarkType
    <2>3. /\ v.rev = w.rev /\ v.cancel = w.cancel
          /\ v.superseded = w.superseded /\ v.outcome.kind = w.outcome.kind
          /\ v.state = "RETRY_WAIT"
      BY <1>1, <1>6 DEF MarkRetryWait, RowType
    <2> HIDE DEF v
    <2> QED BY <1>1, <1>2, <1>3, <1>6, <2>1, <2>2, <2>3, DefersAbstractly
  <1>7. CASE x.write = "RETRY" /\ ~NoIntent(w)
    <2>1. Applied(w, x) = CommitTerminal(w, "FAILED", "NONE")
      BY <1>7 DEF Applied, Terminal, MarkRetryWait, CommitTerminal
    <2> QED BY <1>1, <1>2, <1>3, <1>7, <2>1, EndsAbstractly DEF RetryClasses
  <1>8. CASE x.write \in {"INVALID", "FAILED", "SUCCEEDED"}
    <2>1. \E kind \in {"SUCCEEDED", "FAILED"}, class \in RetryClasses :
             /\ Applied(w, x) = CommitTerminal(w, kind, class)
             /\ kind = "SUCCEEDED" => w.state = "RUNNING"
      <3>1. CASE x.write = "SUCCEEDED"
        BY <1>3, <3>1 DEF Applied, Terminal, RetryClasses
      <3>2. CASE x.write # "SUCCEEDED"
        BY <1>8, <3>2 DEF Applied, Terminal, RetryClasses
      <3> QED BY <3>1, <3>2
    <2> QED BY <1>1, <1>2, <1>3, <2>1, EndsAbstractly
  <1>9. CASE x.write \in {"CANCELLED", "SUPERSEDED"}
    <2>1. ~NoIntent(w)
      BY <1>2, <1>9 DEF WriteOK, NoIntent
    <2>2. Applied(w, x) = CommitTerminal(w, "FAILED", "NONE")
      BY <1>9, <2>1 DEF Applied, Terminal, CommitTerminal
    <2> QED BY <1>1, <1>2, <1>3, <2>1, <2>2, EndsAbstractly DEF RetryClasses
  <1> QED BY <1>1, <1>2, <1>4, <1>5, <1>6, <1>7, <1>8, <1>9 DEF Writes, WriteOK, Terminal

(* Creating a row creates the abstract item.                                 *)
LEMMA CreatesAbstractly ==
    ASSUME TypeOK, NEW i \in Items, RowShape(row[i]), Created(i)
    PROVE  Lifecycle!Next
  <1>1. PICK t \in Times : Becomes(i, Fresh("PENDING", 1, t))
    BY DEF Created
  <1> DEFINE v == Fresh("PENDING", 1, t)
             pending == [Lifecycle!Absent EXCEPT !.phase = "pending"]
  <1>2. row[i] \in RowType /\ v \in RowType /\ row[i].state = "ABSENT"
    BY FreshType DEF TypeOK, Created
  <1>3. Lifecycle!Absent = Seen("absent", 1, "NONE", "NONE") /\ Lifecycle!Absent \in View
    BY BoundsAreNaturals DEF Lifecycle!Absent, Seen, View, Phases, Intents, Outcomes, Revs
  <1>4. pending = Seen("pending", 1, "NONE", "NONE")
    <2>1. "pending" \in Phases
      BY DEF Phases
    <2>2. pending = Seen("pending", Lifecycle!Absent.rev, Lifecycle!Absent.intent,
                         Lifecycle!Absent.outcome)
      BY <1>3, <2>1, ViewEdits, Zenon
    <2>3. /\ Lifecycle!Absent.rev = 1 /\ Lifecycle!Absent.intent = "NONE"
          /\ Lifecycle!Absent.outcome = "NONE"
      BY DEF Lifecycle!Absent
    <2> QED BY <2>2, <2>3
  <1>5. Abstracted(v) = Seen("pending", 1, "NONE", "NONE")
    <2>1. /\ v.state = "PENDING" /\ v.rev = 1 /\ ~v.cancel /\ ~v.superseded
          /\ v.outcome.kind = "NONE"
      BY DEF Fresh, NoOutcome
    <2>2. Phase(v) = "pending" /\ Intent(v) = "NONE"
      BY <1>2, <2>1, PhaseOfState DEF Intent
    <2> HIDE DEF v
    <2> QED BY <2>1, <2>2, AbstractedSeen
  <1>6. Abstracted(row[i]).phase \in {"absent"}
    BY <1>2, AbstractedFields, PhaseOfState
  <1>7. Lifecycle!Step(i, {"absent"}, Abstracted(v))
    BY <1>1, <1>6, AbstractStep
  <1> HIDE DEF v
  <1>8. Lifecycle!Create(i)
    BY <1>4, <1>5, <1>7 DEF Lifecycle!Create
  <1> QED BY <1>8 DEF Lifecycle!Next

(* A wake returns the abstract item to pending under a new revision.         *)
LEMMA WakesAbstractly ==
    ASSUME TypeOK, TypeOK', NEW i \in Items, Woken(i)
    PROVE  Lifecycle!Next
  <1> DEFINE w == row[i]
             v == Wake(w)
             a == Abstracted(w)
  <1>1. w \in RowType /\ v \in RowType
    BY DEF TypeOK, Woken, Becomes
  <1>2. /\ v.rev = w.rev + 1 /\ v.cancel = w.cancel /\ v.superseded = w.superseded
        /\ v.outcome.kind = w.outcome.kind /\ v.state = "PENDING"
    BY <1>1 DEF Wake, RowType
  <1>3. a.phase \in {"waiting"}
    BY <1>1, AbstractedFields, PhaseOfState DEF Woken
  <1>4. /\ a \in View /\ a.rev + 1 = v.rev /\ v.rev \in Revs /\ a.intent = Intent(v)
        /\ a.outcome = v.outcome.kind /\ Phase(v) = "pending"
    <2>1. Intent(v) = Intent(w)
      BY <1>2 DEF Intent
    <2>2. v.rev \in Revs
      BY <1>1 DEF RowType
    <2> HIDE DEF v
    <2> QED BY <1>1, <1>2, <2>1, <2>2, AbstractedFields, PhaseOfState
  <1>5. Lifecycle!Step(i, {"waiting"}, Abstracted(v))
    BY <1>3, AbstractStep DEF Woken
  <1>6. [j \in Items |-> Abstracted(row[j])][i] = a
    OBVIOUS
  <1> HIDE DEF a, v
  <1>7. Abstracted(v) = [a EXCEPT !.phase = "pending", !.rev = a.rev + 1]
    <2>1. a \in View /\ a.rev + 1 \in Revs /\ "pending" \in Phases
      BY <1>4 DEF Phases
    <2>2. \A p \in Phases, q \in Revs :
             [a EXCEPT !.phase = p, !.rev = q] = Seen(p, q, a.intent, a.outcome)
      BY <2>1, ViewEdits, Zenon
    <2>3. [a EXCEPT !.phase = "pending", !.rev = a.rev + 1]
              = Seen("pending", a.rev + 1, a.intent, a.outcome)
      BY <2>1, <2>2, Zenon
    <2> QED BY <1>4, <2>3, AbstractedSeen
  <1>8. Lifecycle!Wake(i)
    BY <1>5, <1>6, <1>7 DEF Lifecycle!Wake
  <1> QED BY <1>8 DEF Lifecycle!Next

(* Recording an intent records it abstractly.                                *)
LEMMA RequestsAbstractly ==
    ASSUME TypeOK, NEW i \in Items, RowShape(row[i]), Requested(i)
    PROVE  Lifecycle!Next
  <1> DEFINE w == row[i]
             a == Abstracted(w)
  <1>1. PICK v \in {RecordCancel(w), RecordSupersede(w)} : Becomes(i, v)
    BY DEF Requested
  <1>2. w \in RowType /\ v \in RowType /\ NoIntent(w) /\ w.state \in Idle \cup {"RUNNING"}
    BY RecordedType DEF TypeOK, Requested
  <1>3. /\ v.rev = w.rev
        /\ Intent(v) \in {"CANCELLED", "SUPERSEDED"}
        /\ w.state \in Idle => v.state = Intent(v) /\ v.outcome.kind = Intent(v)
        /\ w.state = "RUNNING" => v.state = "RUNNING" /\ v.outcome.kind = w.outcome.kind
    <2>1. CASE v = RecordCancel(w)
      BY <1>2, <2>1 DEF RecordCancel, Ended, Intent, NoIntent, Idle, RowType
    <2>2. CASE v = RecordSupersede(w)
      BY <1>2, <2>2 DEF RecordSupersede, Ended, Intent, NoIntent, Idle, RowType
    <2> QED BY <2>1, <2>2
  <1>4. a \in View /\ a.rev = v.rev /\ a.intent = "NONE" /\ a.outcome = w.outcome.kind
    BY <1>2, <1>3, AbstractedFields DEF Intent, NoIntent
  <1>5. Intent(v) \in Intents /\ Intent(v) \in Outcomes /\ "ended" \in Phases
    BY <1>3 DEF Intents, Outcomes, Phases, Terminal
  <1>6. [j \in Items |-> Abstracted(row[j])][i] = a
    OBVIOUS
  <1>7. ASSUME NEW from, a.phase \in from PROVE Lifecycle!Step(i, from, Abstracted(v))
    BY <1>1, <1>7, AbstractStep
  <1>8. CASE w.state \in Idle
    <2>1. Phase(v) = "ended"
      <3>1. v.state \in Terminal
        BY <1>3, <1>8 DEF Terminal
      <3> QED BY <1>2, <3>1, PhaseOfState
    <2>2. Lifecycle!Step(i, {"pending", "waiting"}, Abstracted(v))
      BY <1>2, <1>7, <1>8, AbstractedFields, PhaseOfState DEF Idle
    <2> HIDE DEF a
    <2>3. \A p \in Phases, n \in Intents, o \in Outcomes :
             [a EXCEPT !.phase = p, !.intent = n, !.outcome = o] = Seen(p, a.rev, n, o)
      <3>1. a \in View
        BY <1>4
      <3> QED BY <3>1, ViewEdits, Zenon
    <2>4. [a EXCEPT !.phase = "ended", !.intent = Intent(v), !.outcome = Intent(v)]
              = Seen("ended", a.rev, Intent(v), Intent(v))
      BY <1>5, <2>3, Zenon
    <2>5. Abstracted(v) = [a EXCEPT !.phase = "ended", !.intent = Intent(v), !.outcome = Intent(v)]
      BY <1>3, <1>4, <1>8, <2>1, <2>4, AbstractedSeen
    <2>6. Lifecycle!Request(i, Intent(v))
      BY <1>4, <1>6, <2>2, <2>5 DEF Lifecycle!Request
    <2> QED BY <1>3, <2>6 DEF Lifecycle!Next, Lifecycle!Intents
  <1>9. CASE w.state = "RUNNING"
    <2>1. Phase(v) = "running" /\ a.phase = "running"
      BY <1>2, <1>3, <1>9, AbstractedFields, PhaseOfState
    <2>2. Lifecycle!Step(i, {"running"}, Abstracted(v))
      BY <1>7, <2>1
    <2> HIDE DEF a
    <2>3. \A n \in Intents : [a EXCEPT !.intent = n] = Seen(a.phase, a.rev, n, a.outcome)
      <3>1. a \in View
        BY <1>4
      <3> QED BY <3>1, ViewEdits, Zenon
    <2>4. [a EXCEPT !.intent = Intent(v)] = Seen(a.phase, a.rev, Intent(v), a.outcome)
      BY <1>5, <2>3, Zenon
    <2>5. Abstracted(v) = [a EXCEPT !.intent = Intent(v)]
      BY <1>3, <1>4, <1>9, <2>1, <2>4, AbstractedSeen
    <2>6. Lifecycle!Request(i, Intent(v))
      BY <1>4, <1>6, <2>2, <2>5 DEF Lifecycle!Request
    <2> QED BY <1>3, <2>6 DEF Lifecycle!Next, Lifecycle!Intents
  <1> QED BY <1>2, <1>8, <1>9

(* The empty queue is the empty life cycle.                                  *)
LEMMA LifecycleInit == Init => Lifecycle!Init
  <1> SUFFICES ASSUME Init PROVE Lifecycle!Init
    OBVIOUS
  <1>1. Abstracted(Absent) = Lifecycle!Absent
    <2>1. Phase(Absent) = "absent" /\ Intent(Absent) = "NONE" /\ Absent.rev = 1
          /\ Absent.outcome.kind = "NONE"
      BY FreshType, PhaseOfState DEF Absent, Fresh, NoOutcome, Intent
    <2> QED BY <2>1 DEF Abstracted, Lifecycle!Absent
  <1> QED BY <1>1 DEF Init, Lifecycle!Init

(* Every step of the queue is a step of the life cycle or changes nothing of it. *)
LEMMA LifecycleStep ==
    ASSUME Inv, Inv', [Next]_vars
    PROVE  Lifecycle!Next \/ UNCHANGED [i \in Items |-> Abstracted(row[i])]
  <1>1. CASE RowUnchanged
    BY <1>1 DEF RowUnchanged
  <1>2. CASE UNCHANGED vars
    BY <1>1, <1>2 DEF vars, RowUnchanged
  <1>3. ASSUME NEW i \in Items, Created(i) \/ Requested(i) \/ Woken(i) PROVE Lifecycle!Next
    BY <1>3, CreatesAbstractly, RequestsAbstractly, WakesAbstractly DEF Inv
  <1>4. ASSUME NEW i \in Items, NEW r \in Revs, Takes(i, r) PROVE Lifecycle!Next
    BY <1>4, TakesAbstractly
  <1> QED BY <1>1, <1>2, <1>3, <1>4, RowChange

(* WorkQueue implements the life cycle of one WorkItem, for every item.     *)
THEOREM LifecycleImplemented == Spec => ImplementsLifecycle
  <1>1. Inv /\ Inv' /\ [Next]_vars => [Lifecycle!Next]_([i \in Items |-> Abstracted(row[i])])
    BY LifecycleStep
  <1> QED BY Invariance, LifecycleInit, <1>1, PTL DEF Spec, ImplementsLifecycle, Lifecycle!Spec
=============================================================================
