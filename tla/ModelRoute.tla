----------------------------- MODULE ModelRoute -----------------------------
(***************************************************************************)
(* The route of a model invocation - binding, model profile, gateway       *)
(* profile and the active revision of the transport configuration - with   *)
(* those who change it and those who generate over it.                     *)
(*                                                                         *)
(* An invocation reads the four rows one after the other, outside any      *)
(* transaction, then calls the provider through NetworkAccess, and hands   *)
(* its result to an owner whose transaction locks the rows again and       *)
(* accepts the result only if the route is still the one it was made over. *)
(* The transactions are READ COMMITTED; the database (row locks, the share *)
(* a reference takes on the row it names) and the provider are external.   *)
(***************************************************************************)
EXTENDS Naturals, FiniteSets

CONSTANTS
  Editors,     \* calls of Management that change a row
  Invokers,    \* invocations of AIRuntime with their owners' transactions
  Models,      \* ModelProfiles
  Gateways,    \* GatewayProfiles
  Revisions,   \* revisions of the transport configuration
  None,
  MaxVersion,  \* revisions of a binding, generations of a model
  MaxEdits     \* changes that are begun

VARIABLES
  val,      \* row -> its version and content; version 0 is no row
  revisions,\* the revisions that are committed
  lock,     \* row -> the transaction that has it locked, or None
  edit,     \* editor -> the change it makes
  call,     \* invoker -> where it is and the route it has seen
  edits

vars == <<val, revisions, lock, edit, call, edits>>

Rows == {"binding", "activation"} \cup Models \cup Gateways
Absent == [version |-> 0, content |-> None]
Contents(row) ==
  CASE row = "binding" -> Models
    [] row \in Models -> Gateways
    [] row \in Gateways -> {"on", "off"}
    [] row = "activation" -> Revisions
AnyContent == {None} \cup UNION {Contents(row) : row \in Rows}
Value == [version : 0..MaxVersion, content : AnyContent]

NoEdit == [pc |-> "no", row |-> "binding", expected |-> Absent, seen |-> Absent, content |-> None]
Unread == [row \in {"binding", "model", "gateway", "activation"} |-> Absent]
NoCall == [pc |-> "no", route |-> Unread, stale |-> FALSE]
Transactions == Editors \cup Invokers

Change == [pc : {"no", "planned", "locked", "written"}, row : Rows,
           expected : Value, seen : Value, content : AnyContent]
Places == {"no", "binding", "model", "gateway", "config", "sent", "result",
           "binding locked", "model locked", "gateway locked", "all locked", "accepted"}
Route == [{"binding", "model", "gateway", "activation"} -> Value]
Call == [pc : Places, route : Route, stale : BOOLEAN]

TypeOK ==
  /\ val \in [Rows -> Value]
  /\ revisions \subseteq Revisions /\ val["activation"].content \in revisions
  /\ lock \in [Rows -> Transactions \cup {None}]
  /\ edit \in [Editors -> Change] /\ call \in [Invokers -> Call]
  /\ edits \in 0..MaxEdits

Init ==
  /\ \E b \in Models \cup {None}, r \in Revisions, g \in Gateways :
       val = [row \in Rows |->
                IF row = "binding" /\ b = None THEN Absent
                ELSE [version |-> 1,
                      content |-> CASE row = "binding" -> b
                                    [] row = "activation" -> r
                                    [] row \in Models -> g
                                    [] OTHER -> "on"]]
  /\ revisions = {val["activation"].content}
  /\ lock = [row \in Rows |-> None]
  /\ edit = [e \in Editors |-> NoEdit] /\ call = [i \in Invokers |-> NoCall]
  /\ edits = 0

(***************************************************************************)
(* Helpers                                                                 *)
(***************************************************************************)
Exists(row) == val[row].version # 0

(* The digest that a change is planned on: a gateway and an activation     *)
(* have no number of their own.                                            *)
Numbered(row) == row \in {"binding"} \cup Models
Digest(row, value) == IF Numbered(row) THEN value ELSE value.content

(* A binding names a model and a model a gateway; who writes a new name    *)
(* into the row shares the row that is named.                              *)
Refers(e) == Numbered(edit[e].row) /\ edit[e].content # edit[e].seen.content
Sharing(row) == {e \in Editors : edit[e].pc = "written" /\ Refers(e) /\ edit[e].content = row}

Lockable(row, t) == lock[row] \in {None, t} /\ Sharing(row) \subseteq {t}

Next1(row, value) == IF Numbered(row) THEN value.version + 1 ELSE 1

Ends(e) == edit' = [edit EXCEPT ![e] = NoEdit]
Unlock(t) == lock' = [row \in Rows |-> IF lock[row] = t THEN None ELSE lock[row]]

(***************************************************************************)
(* Changing the route                                                      *)
(***************************************************************************)
(* An INSERT of its own; nothing changes or removes a revision.            *)
createRevision(e) ==
  /\ edit[e] = NoEdit /\ edits < MaxEdits
  /\ \E r \in Revisions \ revisions : revisions' = revisions \cup {r}
  /\ edits' = edits + 1
  /\ UNCHANGED <<val, lock, edit, call>>

(* The row as planned, its digest with it, and the content wanted.         *)
Plan(e) ==
  /\ edit[e] = NoEdit /\ edits < MaxEdits
  /\ \E row \in Rows : \E content \in Contents(row) :
       /\ Numbered(row) => val[row].version < MaxVersion
       /\ edit' = [edit EXCEPT ![e] = [pc |-> "planned", row |-> row, expected |-> val[row],
                                       seen |-> Absent, content |-> content]]
  /\ edits' = edits + 1
  /\ UNCHANGED <<val, revisions, lock, call>>

(* Mutant: the row is read for the comparison and not locked.              *)
readForCommitUnlocked(e) ==
  LET row == edit[e].row IN
  /\ edit[e].pc = "planned"
  /\ IF Digest(row, val[row]) # Digest(row, edit[e].expected)
     THEN Ends(e)
     ELSE edit' = [edit EXCEPT ![e].pc = "locked", ![e].seen = val[row]]
  /\ UNCHANGED <<val, revisions, lock, call, edits>>

(* readForCommit and assertExpected: the row is locked, if there is one,   *)
(* and compared with the one the plan was made on.                         *)
readForCommit(e) ==
  LET row == edit[e].row IN
  /\ edit[e].pc = "planned"
  /\ Exists(row) => Lockable(row, e)
  /\ IF Digest(row, val[row]) # Digest(row, edit[e].expected)
     THEN Ends(e) /\ UNCHANGED lock
     ELSE /\ edit' = [edit EXCEPT ![e].pc = "locked", ![e].seen = val[row]]
          /\ lock' = IF Exists(row) THEN [lock EXCEPT ![row] = e] ELSE lock
  /\ UNCHANGED <<val, revisions, call, edits>>

setGatewayProfile(e) == edit[e].row \in Gateways /\ readForCommit(e)
setModelProfile(e) == edit[e].row \in Models /\ readForCommit(e)
setModelBinding(e) == edit[e].row = "binding" /\ readForCommit(e)

(* The revision is looked up first; one that exists stays.                 *)
activate(e) ==
  /\ edit[e].row = "activation"
  /\ IF edit[e].pc = "planned" /\ edit[e].content \notin revisions
     THEN Ends(e) /\ UNCHANGED <<val, revisions, lock, call, edits>>
     ELSE readForCommit(e)

(* The reference waits for a row that is locked.                           *)
Written(e) ==
  /\ Refers(e) => lock[edit[e].content] \in {None, e}
  /\ edit' = [edit EXCEPT ![e].pc = "written"]

upsert(e) ==
  LET row == edit[e].row IN
  /\ edit[e].pc = "locked" /\ Lockable(row, e)
  /\ Written(e)
  /\ lock' = [lock EXCEPT ![row] = e]
  /\ UNCHANGED <<val, revisions, call, edits>>

(* A first row that came into being meanwhile: an activation finds the key *)
(* taken, and so does a binding whose INSERT had to wait.                  *)
InsertConflict(e) ==
  LET row == edit[e].row IN
  /\ edit[e].pc = "locked" /\ edit[e].seen = Absent /\ Exists(row)
  /\ Ends(e)
  /\ UNCHANGED <<val, revisions, lock, call, edits>>

CommitChange(e) ==
  LET row == edit[e].row IN
  /\ edit[e].pc = "written"
  /\ val' = [val EXCEPT ![row] = [version |-> Next1(row, edit[e].seen), content |-> edit[e].content]]
  /\ Unlock(e) /\ Ends(e)
  /\ UNCHANGED <<revisions, call, edits>>

(* The evidence or the transaction fails.                                  *)
Rollback(e) ==
  /\ edit[e].pc = "written"
  /\ Unlock(e) /\ Ends(e)
  /\ UNCHANGED <<val, revisions, call, edits>>

(***************************************************************************)
(* Invoking                                                                *)
(***************************************************************************)
Sees(i, pc, part, value) == call' = [call EXCEPT ![i].pc = pc, ![i].route[part] = value]

ReadBinding(i) ==
  /\ call[i] = NoCall /\ Exists("binding")
  /\ Sees(i, "binding", "binding", val["binding"])
  /\ UNCHANGED <<val, revisions, lock, edit, edits>>

ReadModel(i) ==
  /\ call[i].pc = "binding"
  /\ Sees(i, "model", "model", val[call[i].route["binding"].content])
  /\ UNCHANGED <<val, revisions, lock, edit, edits>>

ReadGateway(i) ==
  /\ call[i].pc = "model"
  /\ IF val[call[i].route["model"].content].content = "on"
     THEN Sees(i, "gateway", "gateway", val[call[i].route["model"].content])
     ELSE call' = [call EXCEPT ![i] = NoCall]
  /\ UNCHANGED <<val, revisions, lock, edit, edits>>

getEffectiveRevision(i) ==
  /\ call[i].pc = "gateway"
  /\ Sees(i, "config", "activation", val["activation"])
  /\ UNCHANGED <<val, revisions, lock, edit, edits>>

(* NetworkAccess asks for the active revision once more before it sends.   *)
request(i) ==
  /\ call[i].pc = "config"
  /\ call' = [call EXCEPT ![i] = IF val["activation"] = call[i].route["activation"]
                                 THEN [call[i] EXCEPT !.pc = "sent"] ELSE NoCall]
  /\ UNCHANGED <<val, revisions, lock, edit, edits>>

(* The provider answers, and the evidence of the generation is recorded;   *)
(* or the invocation fails, as it can before: a Secret that does not       *)
(* resolve, a deadline, a provider that does not answer.                   *)
Generated(i) ==
  /\ call[i].pc = "sent"
  /\ call' = [call EXCEPT ![i].pc = "result"]
  /\ UNCHANGED <<val, revisions, lock, edit, edits>>

InvocationFails(i) ==
  /\ call[i].pc \in {"binding", "model", "gateway", "config", "sent", "result"}
  /\ call' = [call EXCEPT ![i] = NoCall]
  /\ UNCHANGED <<val, revisions, lock, edit, edits>>

(***************************************************************************)
(* Accepting, in the owner's transaction                                   *)
(***************************************************************************)
Locks(i, row, pc, agrees) ==
  /\ Lockable(row, i)
  /\ lock' = [lock EXCEPT ![row] = i]
  /\ call' = [call EXCEPT ![i].pc = pc, ![i].stale = @ \/ ~agrees]
  /\ UNCHANGED <<val, revisions, edit, edits>>

LockBinding(i) ==
  /\ call[i].pc = "result"
  /\ Locks(i, "binding", "binding locked", val["binding"] = call[i].route["binding"])

(* The model is the one the binding names by now.                          *)
LockModel(i) ==
  /\ call[i].pc = "binding locked"
  /\ Locks(i, val["binding"].content, "model locked",
           val[val["binding"].content] = call[i].route["model"])

LockGateway(i) ==
  LET gateway == val[val["binding"].content].content IN
  /\ call[i].pc = "model locked"
  /\ Locks(i, gateway, "gateway locked", val[gateway].content = "on")

readTransportActivation(i) ==
  /\ call[i].pc = "gateway locked"
  /\ Locks(i, "activation", "all locked",
           val["activation"].content = call[i].route["activation"].content)

assertGenerationAdmissibleForCommit(i) ==
  /\ call[i].pc = "all locked"
  /\ IF call[i].stale
     THEN Unlock(i) /\ call' = [call EXCEPT ![i] = NoCall]
     ELSE call' = [call EXCEPT ![i].pc = "accepted"] /\ UNCHANGED lock
  /\ UNCHANGED <<val, revisions, edit, edits>>

CommitGeneration(i) ==
  /\ call[i].pc = "accepted"
  /\ Unlock(i)
  /\ call' = [call EXCEPT ![i] = NoCall]
  /\ UNCHANGED <<val, revisions, edit, edits>>

Next ==
  \/ \E e \in Editors :
       \/ createRevision(e) \/ Plan(e)
       \/ setGatewayProfile(e) \/ setModelProfile(e) \/ setModelBinding(e) \/ activate(e)
       \/ upsert(e) \/ InsertConflict(e) \/ CommitChange(e) \/ Rollback(e)
  \/ \E i \in Invokers :
       \/ ReadBinding(i) \/ ReadModel(i) \/ ReadGateway(i) \/ getEffectiveRevision(i)
       \/ request(i) \/ Generated(i) \/ InvocationFails(i)
       \/ LockBinding(i) \/ LockModel(i) \/ LockGateway(i) \/ readTransportActivation(i)
       \/ assertGenerationAdmissibleForCommit(i) \/ CommitGeneration(i)

Spec == Init /\ [][Next]_vars

(***************************************************************************)
(* Properties                                                              *)
(***************************************************************************)
(* AIR-004: while an owner commits what a model said, the whole route it   *)
(* was said over is the current one, although its parts were read one by   *)
(* one and anything may have changed since.                                *)
AcceptedIsCurrent ==
  \A i \in Invokers : call[i].pc = "accepted" =>
    LET route == call[i].route IN
    /\ val["binding"] = route["binding"]
    /\ val[route["binding"].content] = route["model"]
    /\ val[route["model"].content].content = "on"
    /\ val["activation"].content = route["activation"].content

(* A change that was planned on an existing row is committed over that     *)
(* row and no other.                                                       *)
CommitsAsPlanned ==
  \A e \in Editors :
    edit[e].pc = "written" /\ edit'[e].pc = "no" /\ edit[e].expected # Absent /\ val' # val =>
      Digest(edit[e].row, val[edit[e].row]) = Digest(edit[e].row, edit[e].expected)
WritesOverThePlanned == [][CommitsAsPlanned]_vars

(* Transactions lock the rows of a route in one order, so that no two of   *)
(* them wait for each other.                                               *)
Wants(t) ==
  IF t \in Editors
  THEN {row \in Rows : edit[t].pc = "locked" /\ Refers(t) /\ edit[t].content = row}
  ELSE LET model == val["binding"].content IN
       CASE call[t].pc = "binding locked" -> {model}
         [] call[t].pc = "model locked" -> {val[model].content}
         [] call[t].pc = "gateway locked" -> {"activation"}
         [] OTHER -> {}
WaitsFor(t, u) ==
  t # u /\ \E row \in Wants(t) : lock[row] = u \/ (t \in Invokers /\ u \in Sharing(row))
NoMutualWait == \A t, u \in Transactions : ~(WaitsFor(t, u) /\ WaitsFor(u, t))

(* Routes that are read, planned and changed in several transactions.        *)
RoutesAreCurrent == [](TypeOK /\ AcceptedIsCurrent /\ NoMutualWait) /\ WritesOverThePlanned

(***************************************************************************)
(* The inductive invariant                                                 *)
(***************************************************************************)
(* A row names what it may name; only a binding may be missing.            *)
RowOK(row) ==
  /\ Exists(row) => val[row].content \in Contents(row)
  /\ ~Exists(row) => val[row] = Absent /\ row = "binding"

(* A change has read the row it was planned on, which is still so while it *)
(* holds the lock, and who shares the row that it names has not locked it. *)
EditOK(e) ==
  LET one == edit[e] IN
  /\ \A row \in Rows :
       lock[row] = e => row = one.row /\ (one.pc = "written" \/ (one.pc = "locked" /\ one.seen # Absent))
  /\ one.pc # "no" =>
       /\ one.content \in Contents(one.row)
       /\ one.expected = Absent \/ one.expected.content \in Contents(one.row)
       /\ Numbered(one.row) => one.expected.version < MaxVersion
  /\ one.pc \in {"locked", "written"} =>
       /\ Digest(one.row, one.seen) = Digest(one.row, one.expected)
       /\ one.seen = Absent \/ (lock[one.row] = e /\ val[one.row] = one.seen)
       /\ one.row = "activation" => one.content \in revisions
  /\ one.pc = "written" =>
       /\ lock[one.row] = e
       /\ Refers(e) => lock[one.content] = None

(* The rows an owner's transaction has locked, from the binding on.        *)
Owning == {"binding locked", "model locked", "gateway locked", "all locked", "accepted"}
Held(i) ==
  LET model == val["binding"].content
      at == call[i].pc IN
  IF at \in Owning
  THEN {"binding"} \cup (IF at # "binding locked" THEN {model} ELSE {})
       \cup (IF at \in {"gateway locked", "all locked", "accepted"} THEN {val[model].content} ELSE {})
       \cup (IF at \in {"all locked", "accepted"} THEN {"activation"} ELSE {})
  ELSE {}

(* What has been locked agrees with what was read, or is known not to.     *)
CallOK(i) ==
  LET one == call[i]
      model == val["binding"].content IN
  /\ \A row \in Rows : lock[row] = i <=> row \in Held(i)
  /\ one.pc # "no" => Exists("binding") /\ one.route["binding"].content \in Models
  /\ one.pc \notin {"no", "binding"} => one.route["model"].content \in Gateways
  /\ one.pc = "accepted" => ~one.stale
  /\ one.pc \in Owning /\ ~one.stale =>
       /\ val["binding"] = one.route["binding"]
       /\ one.pc # "binding locked" => val[model] = one.route["model"]
       /\ one.pc \in {"gateway locked", "all locked", "accepted"} => val[val[model].content].content = "on"
       /\ one.pc \in {"all locked", "accepted"} =>
            val["activation"].content = one.route["activation"].content

Inv ==
  /\ TypeOK
  /\ \A row \in Rows : RowOK(row)
  /\ \A e \in Editors : EditOK(e)
  /\ \A i \in Invokers : CallOK(i)
=============================================================================
