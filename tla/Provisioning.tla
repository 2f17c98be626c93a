---------------------------- MODULE Provisioning ----------------------------
(***************************************************************************)
(* How a boot turns a running private PostgreSQL into a database a Host    *)
(* may serve from: the five protected roles, the canonical database, its   *)
(* privileges, the fence schema, the canonical migrations, the continuity  *)
(* row and the vendor schema of the durable engine.                        *)
(*                                                                         *)
(* Nothing of this is one transaction.  Every object is looked at, created *)
(* when it is missing and refused when it is not exactly what the program  *)
(* would have created; a statement of a process that has died still lands. *)
(* Three objects need two statements, and only privileges and the vendor   *)
(* schema are accepted half way: the other halves stay for ever.           *)
(*                                                                         *)
(* An object is absent, partial (the first of its two statements landed),  *)
(* exact, or strange: somebody else's, or altered by hand before the run.  *)
(* Privileges start absent, which is PostgreSQL's default for PUBLIC, are  *)
(* partial between REVOKE and the last GRANT, and exact after it.  A wrong *)
(* password of an existing role counts as a strange role, and a wrong      *)
(* membership edge as a strange migration role.                            *)
(*                                                                         *)
(* Assumed: one bootstrap owner at a time, whose successor first proves it *)
(* dead (module BootstrapOwnership), and one set of identities in the      *)
(* bootstrap state.                                                        *)
(***************************************************************************)
EXTENDS Naturals, Sequences

CONSTANTS
  Boots,      \* boot processes; each boots once
  None,       \* no process
  Newest,     \* canonical migrations the newest build knows; an older one knows one less
  MaxFaults   \* deaths and losses of the bootstrap lease

VARIABLES
  catalog,    \* object -> "absent", "partial", "exact" or "strange"
  applied,    \* canonical migrations recorded by the migrator
  boot,       \* process -> where it is, what is left to do and which build it runs
  owner,      \* the process that holds bootstrap ownership
  advisory,   \* the process whose session holds the Host advisory key
  torn,       \* objects of two statements whose provisioner was cut off between them
  faults

vars == <<catalog, applied, boot, owner, advisory, torn, faults>>

(* "roles" stands for the owner, lease and runtime roles, created alike.   *)
DatabasePart == <<"roles", "migration", "durable", "database", "connectAcl">>
SchemaPart == <<"connectAcl", "publicAcl", "schema", "schemaAcl", "table", "tableAcl",
                "function", "functionAcl", "fenceRow">>
CanonicalPart == <<"migrate", "continuity", "vendor">>

Privileges == {"connectAcl", "publicAcl", "schemaAcl", "tableAcl", "functionAcl"}
TwoStatements == {"migration", "table", "function"}
Resumable == Privileges \cup {"vendor"}

Elements(seq) == {seq[k] : k \in DOMAIN seq}
Objects == Elements(DatabasePart) \cup Elements(SchemaPart) \cup {"continuity", "vendor"}
Builds == {Newest - 1, Newest}

(* What a boot has to do.  A database that existed when it looked is only  *)
(* touched under the reservation, which is the advisory key of a Host.     *)
Plan(exists) ==
  (IF exists THEN <<"reserve">> \o DatabasePart ELSE DatabasePart \o <<"reserve">>)
    \o SchemaPart \o <<"unreserve", "hostLease">> \o CanonicalPart

Booting == {p \in Boots : boot[p].pc \in {"ready", "sent"}}
Step(p) == Head(boot[p].plan)
Complete == [o \in Objects |-> "exact"]

TypeOK ==
  /\ catalog \in [Objects -> {"absent", "partial", "exact", "strange"}]
  /\ applied \in 0..Newest
  /\ boot \in [Boots -> [pc : {"idle", "ready", "sent", "refused", "failed", "yielded",
                               "host", "dead", "ghost"},
                         plan : Seq(Objects \cup {"reserve", "unreserve", "hostLease", "migrate"}),
                         half : BOOLEAN, build : Builds]]
  /\ {owner, advisory} \subseteq Boots \cup {None}
  /\ torn \subseteq TwoStatements
  /\ faults \in 0..MaxFaults

(* A fresh cluster, or one an older build completed, with at most one      *)
(* object that is not the program's own.                                   *)
Init ==
  /\ \E base \in {[o \in Objects |-> "absent"], Complete} :
       /\ \E strange \in Objects \cup {None} :
            catalog = [o \in Objects |-> IF o = strange THEN "strange" ELSE base[o]]
       /\ applied \in IF base = Complete THEN Builds ELSE {0}
  /\ boot = [p \in Boots |-> [pc |-> "idle", plan |-> <<>>, half |-> FALSE, build |-> Newest]]
  /\ owner = None
  /\ advisory = None
  /\ torn = {}
  /\ faults = 0

(***************************************************************************)
(* One boot                                                                *)
(***************************************************************************)
Goto(p, pc) == boot' = [boot EXCEPT ![p].pc = pc]
Leave(p, pc) ==
  /\ Goto(p, pc)
  /\ owner' = None
  /\ advisory' = IF advisory = p THEN None ELSE advisory
  /\ UNCHANGED <<catalog, applied, torn, faults>>
Advance(p) ==
  boot' = [boot EXCEPT ![p].pc = "ready", ![p].plan = Tail(@), ![p].half = FALSE]

(* prepareBootstrapPrelude has taken ownership; the hand-off first asks    *)
(* whether the canonical database exists.                                  *)
Begin(p) ==
  /\ boot[p].pc = "idle"
  /\ owner \notin {q \in Boots : boot[q].pc \notin {"dead", "ghost"}}
  /\ owner' = p
  /\ \E build \in Builds :
       boot' = [boot EXCEPT ![p].pc = "ready", ![p].build = build,
                            ![p].plan = Plan(catalog["database"] # "absent")]
  /\ UNCHANGED <<catalog, applied, advisory, torn, faults>>

(* acquireBootstrapHostReservation: busy means a Host is alive.            *)
Reserve(p) ==
  /\ boot[p].pc = "ready" /\ boot[p].plan # <<>> /\ Step(p) \in {"reserve", "hostLease"}
  /\ \/ /\ advisory = None
        /\ advisory' = p
        /\ Advance(p)
        /\ UNCHANGED <<catalog, applied, owner, torn, faults>>
     \/ /\ advisory # None
        /\ Leave(p, IF Step(p) = "reserve" THEN "yielded" ELSE "failed")

Unreserve(p) ==
  /\ boot[p].pc = "ready" /\ boot[p].plan # <<>> /\ Step(p) = "unreserve"
  /\ advisory' = None
  /\ Advance(p)
  /\ UNCHANGED <<catalog, applied, owner, torn, faults>>

Acceptable(p) ==
  Step(p) # "migrate" =>
    \/ catalog[Step(p)] \in {"absent", "exact"}
    \/ catalog[Step(p)] = "partial" /\ (boot[p].half \/ Step(p) \in Resumable)

(* Whether the step has anything to write: an exact object is accepted,    *)
(* privileges are written again whatever they are.                         *)
Writes(p) == Step(p) \in {"migrate"} \cup Resumable \cup {o \in Objects : catalog[o] # "exact"}

(* A look ends in a refusal, in a statement, or in nothing to do.          *)
Refuse(p) == ~Acceptable(p) /\ Leave(p, "refused")
Send(p) ==
  /\ Acceptable(p) /\ Writes(p)
  /\ Goto(p, "sent")
  /\ UNCHANGED <<catalog, applied, owner, advisory, torn, faults>>
Accept(p) ==
  /\ Acceptable(p) /\ ~Writes(p)
  /\ Advance(p)
  /\ UNCHANGED <<catalog, applied, owner, advisory, torn, faults>>

(* Mutant: an object that exists is taken for the program's, the way       *)
(* CREATE IF NOT EXISTS takes it.                                          *)
EnsureExists(p, objects) ==
  /\ Step(p) \in objects
  /\ \/ (catalog[Step(p)] = "absent" \/ boot[p].half) /\ Send(p)
     \/ /\ catalog[Step(p)] # "absent" /\ ~boot[p].half
        /\ Advance(p)
        /\ UNCHANGED <<catalog, applied, owner, advisory, torn, faults>>

Ensure(p, objects) == Step(p) \in objects /\ (Refuse(p) \/ Send(p) \/ Accept(p))
Set(p, objects) == Step(p) \in objects /\ (Refuse(p) \/ Send(p))

EnsureRole(p) == Ensure(p, {"roles", "migration", "durable"})
EnsureDatabase(p) == Ensure(p, {"database"})
EnsureDatabasePrivileges(p) == Set(p, {"connectAcl"})
EnsurePublicSchemaPrivileges(p) == Set(p, {"publicAcl"})
EnsureProductSchema(p) == Ensure(p, {"schema"}) \/ Set(p, {"schemaAcl"})
EnsureFenceTable(p) == Ensure(p, {"table"}) \/ Set(p, {"tableAcl"})
EnsureFenceLockFunction(p) == Ensure(p, {"function"}) \/ Set(p, {"functionAcl"})
EnsureFenceRow(p) == Ensure(p, {"fenceRow"})
InitializeCanonicalSchema(p) == Step(p) = "migrate" /\ Send(p)
MaterializeContinuity(p) == Ensure(p, {"continuity"})
EnsureVendorSchema(p) == Set(p, {"vendor"})

Look(p) ==
  /\ boot[p].pc = "ready" /\ boot[p].plan # <<>>
  /\ \/ EnsureRole(p)
     \/ EnsureDatabase(p)
     \/ EnsureDatabasePrivileges(p)
     \/ EnsurePublicSchemaPrivileges(p)
     \/ EnsureProductSchema(p)
     \/ EnsureFenceTable(p)
     \/ EnsureFenceLockFunction(p)
     \/ EnsureFenceRow(p)
     \/ InitializeCanonicalSchema(p)
     \/ MaterializeContinuity(p)
     \/ EnsureVendorSchema(p)

Admit(p) ==
  /\ boot[p].pc = "ready" /\ boot[p].plan = <<>>
  /\ Goto(p, "host")
  /\ owner' = None
  /\ UNCHANGED <<catalog, applied, advisory, torn, faults>>

(***************************************************************************)
(* PostgreSQL executes the statement of a process, alive or not            *)
(***************************************************************************)
(* The second of two statements completes what is there; the first creates *)
(* and fails when the object exists after all.  For privileges both are    *)
(* idempotent.                                                             *)
Effect(o, half) ==
  CASE catalog[o] = "absent" /\ ~half ->
         IF o \in TwoStatements \cup Resumable THEN "partial" ELSE "exact"
    [] catalog[o] = "partial" /\ (half \/ o \in Resumable) -> IF half THEN "exact" ELSE "partial"
    [] OTHER -> catalog[o]

Rejected(o, half) == ~half /\ o \notin Resumable /\ catalog[o] # "absent"
LastStatement(o, half) == half \/ o \notin TwoStatements \cup Resumable

Execute(p) ==
  IF Step(p) = "migrate"
  THEN /\ applied' = IF applied <= boot[p].build THEN boot[p].build ELSE applied
       /\ UNCHANGED catalog
  ELSE /\ catalog' = [catalog EXCEPT ![Step(p)] = Effect(Step(p), boot[p].half)]
       /\ UNCHANGED applied

(* The answer reaches the process.                                         *)
Land(p) ==
  /\ boot[p].pc = "sent" /\ Step(p) # "migrate"
  /\ Execute(p)
  /\ \/ /\ Rejected(Step(p), boot[p].half)
        /\ Goto(p, "failed")
        /\ owner' = None
        /\ advisory' = IF advisory = p THEN None ELSE advisory
     \/ /\ ~LastStatement(Step(p), boot[p].half)
        /\ ~Rejected(Step(p), boot[p].half)
        /\ boot' = [boot EXCEPT ![p].half = TRUE]
        /\ UNCHANGED <<owner, advisory>>
     \/ /\ LastStatement(Step(p), boot[p].half)
        /\ ~Rejected(Step(p), boot[p].half)
        /\ Advance(p)
        /\ UNCHANGED <<owner, advisory>>
  /\ UNCHANGED <<torn, faults>>

(* The migrator's transaction takes its lock, which a transaction of a     *)
(* dead process keeps while its commit is on its way, compares what is     *)
(* recorded with what it knows and refuses a database from a newer build.  *)
LockFree == \A q \in Boots : boot[q].pc = "ghost" => Step(q) # "migrate"

Migrate(p) ==
  /\ boot[p].pc = "sent" /\ Step(p) = "migrate"
  /\ LockFree
  /\ \/ /\ applied > boot[p].build
        /\ Leave(p, "refused")
     \/ /\ applied <= boot[p].build
        /\ Execute(p)
        /\ Advance(p)
        /\ UNCHANGED <<owner, advisory, torn, faults>>

(* Nobody is left to hear it.                                              *)
LandLate(p) ==
  /\ boot[p].pc = "ghost"
  /\ Execute(p)
  /\ Goto(p, "dead")
  /\ UNCHANGED <<owner, advisory, torn, faults>>

(***************************************************************************)
(* Faults                                                                  *)
(***************************************************************************)
CutOff(p) ==
  torn' = IF p \in Booting /\ boot[p].pc = "sent" /\ Step(p) \in TwoStatements
          THEN torn \cup {Step(p)} ELSE torn

(* A statement that reached the server outlives its process.               *)
Die(p) ==
  /\ boot[p].pc \in {"ready", "sent", "host", "failed"}
  /\ boot[p].pc \in {"ready", "sent"} => faults < MaxFaults
  /\ faults' = IF boot[p].pc \in {"ready", "sent"} THEN faults + 1 ELSE faults
  /\ \E pc \in IF boot[p].pc = "sent" THEN {"dead", "ghost"} ELSE {"dead"} : Goto(p, pc)
  /\ CutOff(p)
  /\ UNCHANGED <<catalog, applied, owner, advisory>>

(* The heartbeat is compromised: the next assertCurrent fails.  Ownership  *)
(* is nobody else's before the process is dead.                            *)
LoseOwnership(p) ==
  /\ p \in Booting
  /\ faults < MaxFaults
  /\ faults' = faults + 1
  /\ \/ boot[p].pc = "ready" /\ UNCHANGED <<catalog, applied>>
     \/ boot[p].pc = "sent" /\ Execute(p)
  /\ Goto(p, "failed")
  /\ CutOff(p)
  /\ advisory' = IF advisory = p THEN None ELSE advisory
  /\ UNCHANGED owner

(* The server notices that the session of a dead process is gone.          *)
ServerDrops ==
  /\ advisory \in {p \in Boots : boot[p].pc \in {"dead", "ghost"}}
  /\ advisory' = None
  /\ UNCHANGED <<catalog, applied, boot, owner, torn, faults>>

Next ==
  \/ \E p \in Boots : \/ Begin(p) \/ Reserve(p) \/ Unreserve(p) \/ Look(p) \/ Admit(p)
                      \/ Land(p) \/ Migrate(p) \/ LandLate(p) \/ Die(p) \/ LoseOwnership(p)
  \/ ServerDrops

Spec == Init /\ [][Next]_vars

(***************************************************************************)
(* Properties                                                              *)
(***************************************************************************)
(* A Host serves only from a database in which every object is exactly the *)
(* program's and the applied migrations are those of its own build,        *)
(* whatever earlier boots left behind, and nobody changes either while it  *)
(* serves.                                                                 *)
ServingIsComplete ==
  \A p \in Boots : boot[p].pc = "host" =>
    /\ catalog = Complete
    /\ applied = boot[p].build
    /\ advisory = p

(* Provisioning resumes from wherever an earlier boot stopped, with three  *)
(* exceptions: a boot refuses the database only for a strange object, for  *)
(* the migrations of a newer build, or for a role, table or function whose *)
(* creator was cut off between its two statements.                         *)
OnlyTornObjectsBlock ==
  \A p \in Boots : boot[p].pc = "refused" =>
    \/ Step(p) = "migrate"
    \/ catalog[Step(p)] = "strange"
    \/ Step(p) \in torn

(***************************************************************************)
(* The inductive invariant                                                 *)
(***************************************************************************)
Left(p) == Elements(boot[p].plan)
Acting == {p \in Boots : boot[p].pc \in {"ready", "sent", "host"}}

(* The reservation is taken before it is given back, once, and that is     *)
(* before the Host's lease, which is taken before the canonical migrations. *)
NeverAfter(plan, first, then) == \A i, j \in 1..Len(plan) : plan[i] = first /\ plan[j] = then => i <= j
Ordered(plan) ==
  /\ NeverAfter(plan, "reserve", "unreserve") /\ NeverAfter(plan, "reserve", "hostLease")
  /\ NeverAfter(plan, "unreserve", "unreserve") /\ NeverAfter(plan, "unreserve", "hostLease")
  /\ NeverAfter(plan, "hostLease", "migrate")

(* What a boot has done stays done, and the Host advisory key is its own   *)
(* whenever its plan relies on it.                                         *)
Done(p) ==
  /\ \A o \in Objects \ Left(p) : catalog[o] = "exact"
  /\ "reserve" \notin Left(p) /\ ("unreserve" \in Left(p) \/ "hostLease" \notin Left(p)) => advisory = p
  /\ "hostLease" \notin Left(p) => "unreserve" \notin Left(p) /\ "reserve" \notin Left(p)
  /\ "migrate" \notin Left(p) =>
       /\ applied = boot[p].build /\ "hostLease" \notin Left(p)
       /\ \A q \in Boots : boot[q].pc = "ghost" => Step(q) # "migrate"

(* A statement is sent for an object that is not somebody else's; the      *)
(* second of two is sent once the first has landed.                        *)
Sent(p) ==
  /\ boot[p].pc \in {"sent", "ghost", "refused"} => boot[p].plan # <<>> /\ Step(p) \in Objects \cup {"migrate"}
  /\ boot[p].pc = "sent" /\ Step(p) \in Objects =>
       catalog[Step(p)] \in IF boot[p].half THEN {"partial", "exact"} ELSE {"absent", "partial", "exact"}
  /\ boot[p].pc \in {"idle", "ready"} => ~boot[p].half
  /\ boot[p].pc = "host" => boot[p].plan = <<>>
  /\ boot[p].pc = "ghost" /\ Step(p) \in TwoStatements => Step(p) \in torn

(* What is half done has its maker at work, or was torn, or is resumed.    *)
HalfDone(o) ==
  catalog[o] = "partial" =>
    \/ o \in Resumable
    \/ o \in TwoStatements /\ o \in torn
    \/ o \in TwoStatements /\ \E p \in Boots : boot[p].pc = "sent" /\ Step(p) = o /\ boot[p].half

Inv ==
  /\ TypeOK /\ OnlyTornObjectsBlock
  /\ \A p \in Boots : Ordered(boot[p].plan) /\ Sent(p)
  /\ \A p \in Booting : owner = p
  /\ \A p \in Acting : Done(p)
  /\ \A o \in Objects : HalfDone(o)

(* What a boot may rely on however the ones before it ended.                 *)
ProvisionedInOrder == TypeOK /\ ServingIsComplete /\ OnlyTornObjectsBlock
=============================================================================
