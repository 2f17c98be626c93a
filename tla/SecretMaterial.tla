--------------------------- MODULE SecretMaterial ---------------------------
(***************************************************************************)
(* The Secret service: one row of metadata in the database and, outside    *)
(* its transactions, one entry in the credential store of the operating    *)
(* system for each generation of the material.                             *)
(*                                                                         *)
(* replace and revoke read the row, work on the store and on the row in    *)
(* separate steps, and may run side by side; a call may end between any    *)
(* two of them.  The store is external: set, get and delete of a key.      *)
(***************************************************************************)
EXTENDS Naturals, FiniteSets

CONSTANTS
  Callers,        \* calls of Management that run side by side
  MaxGeneration,  \* generations of material
  MaxWrites,      \* materials handed in
  MaxFaults       \* calls that fail or die

VARIABLES
  row,      \* the metadata: state, generation, and the write that committed it
  store,    \* generation -> the material under its key, 0 for no entry
  call,     \* caller -> the call it is in
  written,  \* materials handed in so far
  contested,\* generations two calls stored material for
  faults

vars == <<row, store, call, written, contested, faults>>

Generations == 1..MaxGeneration
Idle == [op |-> "none", pc |-> "none", generation |-> 0, material |-> 0]

(* The row of the table; no row is ABSENT, and "by" is a history.          *)
Row == [state : {"ABSENT", "ACTIVE", "REVOKED"}, generation : 0..MaxGeneration, by : 0..MaxWrites]

TypeOK ==
  /\ row \in Row
  /\ store \in [Generations -> 0..MaxWrites]
  /\ call \in [Callers ->
       [op : {"none", "create", "replace", "revoke", "resolve"},
        pc : {"none", "store", "commit", "delete", "open", "opened"},
        generation : 0..MaxGeneration, material : 0..MaxWrites]]
  /\ written \in 0..MaxWrites /\ contested \subseteq Generations
  /\ faults \in 0..MaxFaults

Init ==
  /\ row = [state |-> "ABSENT", generation |-> 0, by |-> 0]
  /\ store = [g \in Generations |-> 0]
  /\ call = [c \in Callers |-> Idle]
  /\ written = 0 /\ contested = {} /\ faults = 0

(***************************************************************************)
(* Helpers                                                                 *)
(***************************************************************************)
Goes(c, pc) == call' = [call EXCEPT ![c].pc = pc]
Returns(c) == call' = [call EXCEPT ![c] = Idle]

(* A new key belongs to the generation after the one that was read.        *)
newKey(c) == call[c].generation + 1

(* The row is read at the start of a call; one that is not ACTIVE ends it. *)
readRow(c, op, pc, material) ==
  /\ row.state = "ACTIVE"
  /\ call' = [call EXCEPT ![c] = [op |-> op, pc |-> pc, generation |-> row.generation, material |-> material]]

(* An entry of the credential store under the key of a generation.         *)
loadSecret(g) == store[g]
set(g, material) == store' = [store EXCEPT ![g] = material]

(***************************************************************************)
(* createOrSet                                                             *)
(***************************************************************************)
(* The identity is new; the modelled one is created once.                  *)
createOrSet(c) ==
  /\ call[c] = Idle /\ row.state = "ABSENT" /\ written < MaxWrites
  /\ \A d \in Callers : call[d].op # "create"
  /\ written' = written + 1
  /\ call' = [call EXCEPT ![c] = [op |-> "create", pc |-> "store", generation |-> 0, material |-> written']]
  /\ UNCHANGED <<row, store, contested, faults>>

InsertRow(c) ==
  /\ call[c].op = "create" /\ call[c].pc = "commit"
  /\ row' = [state |-> "ACTIVE", generation |-> 1, by |-> call[c].material]
  /\ Returns(c)
  /\ UNCHANGED <<store, written, contested, faults>>

(***************************************************************************)
(* replace                                                                 *)
(***************************************************************************)
replace(c) ==
  /\ call[c] = Idle /\ row.generation < MaxGeneration /\ written < MaxWrites
  /\ written' = written + 1
  /\ readRow(c, "replace", "store", written')
  /\ UNCHANGED <<row, store, contested, faults>>

(* The material goes to its key before any transaction; nothing says that  *)
(* another call has not chosen the same key.                               *)
StoreSet(c) ==
  /\ call[c].pc = "store"
  /\ set(newKey(c), call[c].material)
  /\ contested' = IF \/ \E d \in Callers \ {c} : call[d].op = "replace" /\ newKey(d) = newKey(c)
                     \/ row.generation = newKey(c)
                  THEN contested \cup {newKey(c)} ELSE contested
  /\ Goes(c, "commit")
  /\ UNCHANGED <<row, written, faults>>

StoreFails(c) ==
  /\ call[c].pc = "store" /\ faults < MaxFaults
  /\ faults' = faults + 1
  /\ Returns(c)
  /\ UNCHANGED <<row, store, written, contested>>

(* Mutant: the row that is locked is not compared with the one read.       *)
CommitReplacementUnread(c) ==
  /\ call[c].op = "replace" /\ call[c].pc = "commit"
  /\ row' = [state |-> "ACTIVE", generation |-> newKey(c), by |-> call[c].material]
  /\ Goes(c, "delete")
  /\ UNCHANGED <<store, written, contested, faults>>

(* One transaction under the lock of the row, evidence included.           *)
CommitReplacement(c) ==
  /\ call[c].op = "replace" /\ call[c].pc = "commit"
  /\ IF row.state = "ACTIVE" /\ row.generation = call[c].generation
     THEN /\ row' = [state |-> "ACTIVE", generation |-> newKey(c), by |-> call[c].material]
          /\ Goes(c, "delete")
     ELSE Returns(c) /\ UNCHANGED row
  /\ UNCHANGED <<store, written, contested, faults>>

(***************************************************************************)
(* revoke                                                                  *)
(***************************************************************************)
revoke(c) ==
  /\ call[c] = Idle /\ readRow(c, "revoke", "commit", 0)
  /\ UNCHANGED <<row, store, written, contested, faults>>

CommitRevocation(c) ==
  /\ call[c].op = "revoke" /\ call[c].pc = "commit"
  /\ row' = [row EXCEPT !.state = "REVOKED"]
  /\ Goes(c, "delete")
  /\ UNCHANGED <<store, written, contested, faults>>

(* The entry of the row that was read at first is deleted; a failure is    *)
(* swallowed.                                                              *)
DeleteEntry(c) ==
  /\ call[c].pc = "delete"
  /\ \/ set(call[c].generation, 0) /\ UNCHANGED faults
     \/ /\ faults < MaxFaults
        /\ faults' = faults + 1
        /\ UNCHANGED store
  /\ Returns(c)
  /\ UNCHANGED <<row, written, contested>>

(* A transaction fails and leaves no trace, or the process dies.           *)
CallEnds(c) ==
  /\ call[c].pc \in {"commit", "delete"} /\ faults < MaxFaults
  /\ faults' = faults + 1
  /\ Returns(c)
  /\ UNCHANGED <<row, store, written, contested>>

(***************************************************************************)
(* resolve                                                                 *)
(***************************************************************************)
resolve(c) ==
  /\ call[c] = Idle /\ readRow(c, "resolve", "open", 0)
  /\ UNCHANGED <<row, store, written, contested, faults>>

(* An entry that is gone by now makes the Secret unavailable.              *)
withCredential(c) ==
  /\ call[c].op = "resolve" /\ call[c].pc = "open"
  /\ IF loadSecret(call[c].generation) = 0
     THEN Returns(c)
     ELSE call' = [call EXCEPT ![c].pc = "opened", ![c].material = loadSecret(call[c].generation)]
  /\ UNCHANGED <<row, store, written, contested, faults>>

Resolved(c) ==
  /\ call[c].pc = "opened"
  /\ Returns(c)
  /\ UNCHANGED <<row, store, written, contested, faults>>

Next ==
  \E c \in Callers :
    \/ createOrSet(c) \/ InsertRow(c)
    \/ replace(c) \/ StoreSet(c) \/ StoreFails(c) \/ CommitReplacement(c)
    \/ revoke(c) \/ CommitRevocation(c) \/ DeleteEntry(c) \/ CallEnds(c)
    \/ resolve(c) \/ withCredential(c) \/ Resolved(c)

Spec == Init /\ [][Next]_vars

(***************************************************************************)
(* Properties                                                              *)
(***************************************************************************)
(* A Secret that is ACTIVE can be resolved: the entry of its generation    *)
(* is in the store, whatever calls were cut short or lost their race.      *)
ActiveHasMaterial == row.state = "ACTIVE" => store[row.generation] # 0

(* What is resolved is what was committed, unless two replacements stored  *)
(* material under one key: then the loser may have overwritten what the    *)
(* winner commits (service.ts:448).                                        *)
CurrentIsCommitted ==
  row.state = "ACTIVE" /\ row.generation \notin contested => store[row.generation] = row.by

(* Revocation is final, and a generation is never taken back.              *)
StaysRevoked ==
  /\ row.state = "REVOKED" => row' = row
  /\ row'.generation >= row.generation
RevokedIsFinal == [][StaysRevoked]_vars

(* A Secret's row and its material in the store of the operating system.     *)
MaterialIsKept == [](TypeOK /\ ActiveHasMaterial /\ CurrentIsCommitted) /\ RevokedIsFinal

(***************************************************************************)
(* The inductive invariant                                                 *)
(***************************************************************************)
(* What a call is about to do, and with which generation.                  *)
CallOK(c) ==
  LET x == call[c] IN
  /\ x.op = "none" <=> x = Idle
  /\ x.op \notin {"none", "create"} => x.generation \in 1..row.generation
  /\ x.op = "replace" => x.generation < MaxGeneration
  /\ x.op \in {"create", "replace"} => x.material # 0
  /\ x.op = "create" => row.state = "ABSENT" /\ x.generation = 0
  /\ x.pc = "store" => x.op \in {"create", "replace"}
  /\ x.pc = "commit" => x.op \in {"create", "replace", "revoke"}
  /\ x.pc = "delete" => x.op \in {"replace", "revoke"}

(* A commit that will succeed finds material under its key, and its own    *)
(* unless the key is contested.                                            *)
CommitOK(c) ==
  LET x == call[c] IN
  x.pc = "commit" /\ (x.op = "create" \/ (x.op = "replace" /\ row.state = "ACTIVE" /\ row.generation = x.generation)) =>
    /\ store[newKey(c)] # 0
    /\ newKey(c) \notin contested => store[newKey(c)] = x.material

(* Who deletes an entry deletes one that no row will be about again.       *)
DeleteOK(c) == call[c].pc = "delete" => row.state = "REVOKED" \/ row.generation > call[c].generation

RowOK ==
  /\ row.state = "ABSENT" => row.generation = 0 /\ \A c \in Callers : call[c].op \in {"none", "create"}
  /\ row.state # "ABSENT" => row.generation # 0
  /\ \A c, d \in Callers : call[c].op = "create" /\ call[d].op = "create" => c = d

Inv ==
  /\ TypeOK /\ RowOK /\ ActiveHasMaterial /\ CurrentIsCommitted
  /\ \A c \in Callers : CallOK(c) /\ CommitOK(c) /\ DeleteOK(c)
=============================================================================
