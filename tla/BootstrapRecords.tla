---------------------------- MODULE BootstrapRecords ----------------------------
(***************************************************************************)
(* The records of packages/bootstrap/bootstrap-state: BootstrapState        *)
(* (store.ts), the MaintenanceJournal (maintenance/store.ts), both kept as a *)
(* current and a previous file, and the bootstrap journal (journal.ts), one  *)
(* file of checkpoints, written by concurrent calls of a process that may   *)
(* die anywhere and is followed by another one.                             *)
(*                                                                         *)
(*   file      per record: its two files, each Missing, Invalid or a body   *)
(*   log       the checkpoints in the bootstrap journal's file              *)
(*   queue     KeyedAsyncSerializer: per key, the calls in turn             *)
(*   call      per caller: where its call stands, the body it wants to       *)
(*             publish, the body or the checkpoints it has read              *)
(*   lost      the process no longer holds the installation                 *)
(*   told      history: per record, the bodies a caller was told are kept;   *)
(*             for the journal, the checkpoints                             *)
(*                                                                         *)
(* A body is its revision and its author; JSON, schema and digest checks are *)
(* the difference between a body and Invalid.  write-file-atomic replaces a  *)
(* file at once; a failed write may still have replaced it, because the      *)
(* directory is synchronised after the rename.  BootstrapState has one       *)
(* writer at a time: its callers hold the bootstrap lease and await it.      *)
(***************************************************************************)
EXTENDS Naturals, Sequences, FiniteSets

CONSTANTS Caller, MaxRevision, MaxFaults

VARIABLES file, log, queue, call, lost, told, faults

vars == <<file, log, queue, call, lost, told, faults>>

Keys == {"state", "maintenance", "journal"}
Records == {"state", "maintenance"}
Missing == [revision |-> 0, by |-> "MISSING"]
Invalid == [revision |-> 0, by |-> "INVALID"]
Unreadable == {"INVALID"}
Valid(f) == f.revision > 0

Idle == [at |-> "idle", key |-> "state", body |-> Missing, read |-> Missing, entries |-> {}]

Init ==
    /\ file = [r \in Records |-> [current |-> Missing, previous |-> Missing]]
    /\ log = {}
    /\ queue = [k \in Keys |-> <<>>]
    /\ call = [c \in Caller |-> Idle]
    /\ lost = FALSE
    /\ told = [k \in Keys |-> {}]
    /\ faults = 0

(* What load() answers, whoever asks: only a CURRENT or EMPTY answer lets a  *)
(* caller write.                                                            *)
Load(r) ==
    LET f == file[r] IN
    CASE Valid(f.current) -> [status |-> "CURRENT", value |-> f.current]
      [] ~Valid(f.current) /\ Valid(f.previous) ->
             [status |-> "RECOVERED_PREVIOUS", value |-> f.previous]
      [] f.current = Missing /\ f.previous = Missing -> [status |-> "EMPTY", value |-> Missing]
      [] OTHER -> [status |-> "CORRUPT", value |-> Missing]

loadUnlocked(r) == Load(r)

(* Mutant: a recovered previous revision authorizes the next one.           *)
commitRecovered(body) ==
    LET l == Load("state") IN
    \/ l.status = "EMPTY" /\ body.revision = 1
    \/ l.status \in {"CURRENT", "RECOVERED_PREVIOUS"} /\ body.revision = l.value.revision + 1

(* commit of BootstrapState follows CURRENT and EMPTY alike.                 *)
commit(body) ==
    LET l == Load("state") IN
    \/ l.status = "EMPTY" /\ body.revision = 1
    \/ l.status = "CURRENT" /\ body.revision = l.value.revision + 1

create(body) == loadUnlocked("maintenance").status = "EMPTY" /\ body.revision = 1
advance(body) ==
    LET l == loadUnlocked("maintenance") IN
    l.status = "CURRENT" /\ body.revision = l.value.revision + 1

Authorized(key, body) ==
    IF key = "state" THEN commit(body) ELSE create(body) \/ advance(body)

-----------------------------------------------------------------------------
(* KeyedAsyncSerializer.run: a call of a key waits for the ones before it,   *)
(* whether those resolve or reject.                                         *)
Turn(c) ==
    LET k == call[c].key IN
    k = "state" \/ (queue[k] # <<>> /\ Head(queue[k]) = c)

Leave(c) ==
    /\ call' = [call EXCEPT ![c] = Idle]
    /\ queue' = IF call[c].key = "state" THEN queue ELSE [queue EXCEPT ![call[c].key] = Tail(@)]

Goes(c, at) == call' = [call EXCEPT ![c].at = at] /\ UNCHANGED queue

Begin(c, key, revision) ==
    /\ call[c].at = "idle"
    /\ key = "state" => \A d \in Caller : call[d].at # "idle" => call[d].key # "state"
    /\ key = "journal" => revision = 1
    /\ call' = [call EXCEPT ![c] = [at |-> "load", key |-> key, read |-> Missing, entries |-> {},
                                    body |-> [revision |-> revision, by |-> c]]]
    /\ queue' = IF key = "state" THEN queue ELSE [queue EXCEPT ![key] = Append(@, c)]
    /\ UNCHANGED <<file, log, lost, told, faults>>

(* assertAuthority, before every step of the maintenance store.             *)
assertAuthority(c) == call[c].key = "maintenance" => ~lost
Revoked(c) ==
    /\ call[c].at # "idle" /\ Turn(c) /\ ~assertAuthority(c)
    /\ Leave(c)
    /\ UNCHANGED <<file, log, lost, told, faults>>

Reads(c) ==
    /\ call[c].at = "load" /\ Turn(c) /\ assertAuthority(c) /\ call[c].key \in Records
    /\ IF Authorized(call[c].key, call[c].body)
       THEN /\ call' = [call EXCEPT ![c].read = Load(call[c].key).value,
                                    ![c].at = IF Load(call[c].key).status = "EMPTY"
                                              THEN "current" ELSE "previous"]
            /\ UNCHANGED queue
       ELSE Leave(c)
    /\ UNCHANGED <<file, log, lost, told, faults>>

(* A file operation fails: the call rejects, with the file replaced or not.  *)
Fault == faults < MaxFaults /\ faults' = faults + 1

Write(c, which, content, next) ==
    LET r == call[c].key
        written == [file EXCEPT ![r][which] = content] IN
    /\ call[c].at = which /\ Turn(c) /\ assertAuthority(c)
    /\ \/ file' = written /\ Goes(c, next) /\ UNCHANGED faults
       \/ file' \in {file, written} /\ Leave(c) /\ Fault
    /\ UNCHANGED <<log, lost, told>>

WritePrevious(c) == Write(c, "previous", call[c].read, "current")
WriteCurrent(c) == Write(c, "current", call[c].body, "verify")

(* The reload must give back the very body that was written.                *)
Verify(c) ==
    LET r == call[c].key IN
    /\ call[c].at = "verify" /\ Turn(c) /\ assertAuthority(c)
    /\ told' = IF file[r].current = call[c].body
               THEN [told EXCEPT ![r] = @ \cup {call[c].body}] ELSE told
    /\ Leave(c)
    /\ UNCHANGED <<file, log, lost, faults>>

-----------------------------------------------------------------------------
(* BootstrapJournal.checkpoint: all entries are read, and the file is        *)
(* replaced by them and the new one; an unreadable file is never replaced.   *)
readEntries(c) ==
    /\ call[c].at = "load" /\ Turn(c) /\ call[c].key = "journal"
    /\ IF log = Unreadable THEN Leave(c)
       ELSE call' = [call EXCEPT ![c].entries = log, ![c].at = "append"] /\ UNCHANGED queue
    /\ UNCHANGED <<file, log, lost, told, faults>>

checkpoint(c) ==
    LET written == call[c].entries \cup {c} IN
    /\ call[c].at = "append" /\ Turn(c)
    /\ \/ log' = written /\ told' = [told EXCEPT !["journal"] = @ \cup {c}] /\ UNCHANGED faults
       \/ log' \in {log, written} /\ Fault /\ UNCHANGED told
    /\ Leave(c)
    /\ UNCHANGED <<file, lost>>

-----------------------------------------------------------------------------
(* The process dies between any two steps; the next one starts afresh.       *)
Crash ==
    /\ \E c \in Caller : call[c].at # "idle"
    /\ Fault
    /\ call' = [c \in Caller |-> Idle]
    /\ queue' = [k \in Keys |-> <<>>]
    /\ lost' = FALSE
    /\ UNCHANGED <<file, log, told>>

LoseAuthority ==
    /\ ~lost /\ lost' = TRUE /\ Fault
    /\ UNCHANGED <<file, log, queue, call, told>>

(* Something outside damages a file, or removes one of two, while no call is  *)
(* writing.                                                                  *)
Damage ==
    /\ \A c \in Caller : call[c].at \in {"idle", "load"}
    /\ Fault
    /\ \/ \E r \in Records, w \in {"current", "previous"}, bad \in {Missing, Invalid} :
              /\ Valid(file[r][w])
              /\ bad = Missing => file[r].current # Missing /\ Valid(file[r].previous)
              /\ file' = [file EXCEPT ![r][w] = bad]
              /\ UNCHANGED log
       \/ log' = Unreadable /\ UNCHANGED file
    /\ UNCHANGED <<queue, call, lost, told>>

Next ==
    \/ \E c \in Caller, k \in Keys, v \in 1..MaxRevision : Begin(c, k, v)
    \/ \E c \in Caller :
           \/ Revoked(c) \/ Reads(c) \/ WritePrevious(c) \/ WriteCurrent(c) \/ Verify(c)
           \/ readEntries(c) \/ checkpoint(c)
    \/ Crash \/ LoseAuthority \/ Damage

Spec == Init /\ [][Next]_vars

-----------------------------------------------------------------------------
(* What a caller was told is kept stays kept: as long as the record's files   *)
(* are readable, every load answers that body or a later revision, no two     *)
(* callers are told of one revision, and every checkpoint a caller was told   *)
(* of is in the journal.  A record whose current file was damaged answers at  *)
(* most one revision less, as evidence only (store.ts:66, maintenance/         *)
(* store.ts:204, journal.ts:129, keyed-serialization.ts:12).                  *)
KeptAsTold ==
    /\ \A r \in Records :
           /\ \A b, d \in told[r] : b.revision = d.revision => b = d
           /\ \A b \in told[r] :
                  LET l == Load(r) IN
                  /\ l.status = "CURRENT" =>
                         l.value = b \/ l.value.revision > b.revision
                  /\ l.status = "RECOVERED_PREVIOUS" => l.value.revision + 1 >= b.revision
    /\ log # Unreadable => told["journal"] \subseteq log

(* A body is published only on top of its own predecessor as the current     *)
(* revision: a recovered, missing or corrupt current file is never written    *)
(* over, so evidence of a lost revision stays (store.ts:117, maintenance/      *)
(* store.ts:138).                                                             *)
CurrentAdvances ==
    \A r \in Records :
        LET now == file[r].current
            next == file'[r].current IN
        next # now /\ Valid(next) =>
            \/ now = Missing /\ next.revision = 1
            \/ Valid(now) /\ next.revision = now.revision + 1
OnlyCurrentAdvances == [][CurrentAdvances]_vars

TypeOK ==
    /\ \A r \in Records : {file[r].current.revision, file[r].previous.revision} \subseteq 0 .. MaxRevision
    /\ \A k \in Keys : queue[k] \in Seq(Caller)
    /\ lost \in BOOLEAN /\ faults \in 0 .. MaxFaults

-----------------------------------------------------------------------------
(* The inductive invariant.                                                  *)
Body == [revision : 0 .. MaxRevision, by : Caller \cup {"MISSING", "INVALID"}]
Places == {"idle", "load", "previous", "current", "verify", "append"}
Typed ==
    /\ file \in [Records -> [current : Body, previous : Body]]
    /\ call \in [Caller -> [at : Places, key : Keys, body : Body, read : Body,
                            entries : SUBSET (Caller \cup Unreadable)]]
    /\ queue \in [Keys -> Seq(Caller)]
    /\ log \subseteq Caller \cup Unreadable
    /\ DOMAIN told = Keys /\ \A r \in Records : told[r] \subseteq Body
    /\ lost \in BOOLEAN /\ faults \in 0 .. MaxFaults

(* A key has its calls in its queue, once each, and only the first has begun. *)
InTurn(k) ==
    /\ \A i \in 1 .. Len(queue[k]) :
           LET c == queue[k][i] IN
           call[c].at # "idle" /\ call[c].key = k /\ (i > 1 => call[c].at = "load")
    /\ \A i, j \in 1 .. Len(queue[k]) : queue[k][i] = queue[k][j] => i = j
    /\ \A c \in Caller :
           call[c].at # "idle" /\ call[c].key = k => \E i \in 1 .. Len(queue[k]) : queue[k][i] = c
OneCaller ==
    \A c, d \in Caller :
        call[c].at # "idle" /\ call[c].key = "state" /\ call[d].at # "idle" /\ call[d].key = "state" => c = d

(* What a call has read is still what the files hold when it writes.         *)
ReadStands(c) ==
    LET r == call[c].key
        read == call[c].read
        follows == Valid(read) /\ file[r].current = read /\ call[c].body.revision = read.revision + 1 IN
    /\ call[c].at \in {"previous", "current", "verify"} => r \in Records
    /\ call[c].at # "idle" => Valid(call[c].body)
    /\ call[c].at = "previous" => follows
    /\ call[c].at = "current" =>
           \/ follows /\ file[r].previous = read
           \/ /\ file[r].current = Missing /\ file[r].previous = Missing
              /\ call[c].body.revision = 1
    /\ call[c].at = "verify" => file[r].current = call[c].body
    /\ call[c].at = "append" => r = "journal" /\ call[c].entries = log /\ log # Unreadable

(* The previous revision is the current one or the one before, and nothing    *)
(* a caller was told of is above the current one.                            *)
Kept(r) ==
    LET f == file[r] IN
    /\ Valid(f.current) /\ Valid(f.previous) =>
           \/ f.previous = f.current
           \/ f.previous.revision + 1 = f.current.revision
    /\ f.current = Missing /\ f.previous = Missing => told[r] = {}
    /\ \A b, d \in told[r] : b.revision = d.revision => b = d
    /\ \A b \in told[r] :
           /\ Valid(f.current) => f.current = b \/ f.current.revision > b.revision
           /\ ~Valid(f.current) /\ Valid(f.previous) => f.previous.revision + 1 >= b.revision

Inv ==
    /\ Typed
    /\ InTurn("maintenance") /\ InTurn("journal") /\ OneCaller
    /\ \A c \in Caller : ReadStands(c)
    /\ \A r \in Records : Kept(r)
    /\ log # Unreadable => told["journal"] \subseteq log

(* The records through concurrent writers, failed writes and deaths.         *)
BodiesAreKept == [](TypeOK /\ KeptAsTold) /\ OnlyCurrentAdvances
=============================================================================
