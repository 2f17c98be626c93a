-------------------------- MODULE PersistenceService --------------------------
(***************************************************************************)
(* packages/data/persistence/src/persistence-service.ts: the service of    *)
(* one Host over one pool.  It runs transactions until its authority goes  *)
(* or it is closed, and gives the pool back when the last one has ended.   *)
(*                                                                         *)
(*   authority  ACTIVE; LOST (the lease: its signal aborts); TERMINAL (the *)
(*              managed Host was retired: no signal, assertActive throws)  *)
(*   token      whether the fence row still has the Host's token           *)
(*   service    state; whether a drain was requested; how often the pool   *)
(*              was destroyed, and whether that has ended                  *)
(*   call       each read() or mutate(): where its transaction is, and     *)
(*              what its caller was told                                   *)
(*   applied    history: the transactions the database committed           *)
(*                                                                         *)
(* HostFence has the rivals who move the token; here it may move whenever  *)
(* no mutation holds the row.  activeTransactions is the number of running *)
(* calls.                                                                  *)
(***************************************************************************)
EXTENDS Naturals

CONSTANTS Calls    \* read() and mutate() calls

VARIABLES authority, token, service, call, applied

vars == <<authority, token, service, call, applied>>

Steps == {"begun", "locked", "working", "committing", "committed", "aborted"}
Running == {c \in Calls : call[c].at \in Steps}
At(c, step) == call[c].at = step

(* The lease may be lost before the service is created.                     *)
Init ==
    /\ token = TRUE
    /\ \/ /\ authority = "ACTIVE"
          /\ service = [state |-> "OPEN", requested |-> FALSE, destroys |-> 0, done |-> FALSE]
       \/ /\ authority = "LOST"
          /\ service = [state |-> "FENCED", requested |-> TRUE, destroys |-> 1, done |-> FALSE]
    /\ call = [c \in Calls |-> [at |-> "none", mode |-> "READ", told |-> "nothing"]]
    /\ applied = {}

------------------------------------------------------------------------------
(* Drain, fence and close.                                                  *)

(* Mutant: the drain does not wait for running transactions. *)
DrainAtOnce(s, running) ==
    IF s.requested /\ s.destroys = 0 THEN [s EXCEPT !.destroys = 1] ELSE s

MaybeStartDrain(s, running) ==
    IF s.requested /\ s.destroys = 0 /\ running = {} THEN [s EXCEPT !.destroys = 1] ELSE s

Fenced ==
    [service EXCEPT !.state = IF @ = "OPEN" THEN "FENCED" ELSE @, !.requested = TRUE]

Fence == service' = MaybeStartDrain(Fenced, Running)

Close ==
    /\ service.state # "CLOSED"
    /\ service' = MaybeStartDrain([service EXCEPT !.state = "CLOSING", !.requested = TRUE], Running)
    /\ UNCHANGED <<authority, token, call, applied>>

(* database.destroy() settles, well or badly.                               *)
DestroyDone ==
    /\ service.destroys > 0 /\ ~service.done
    /\ service' = [service EXCEPT !.state = "CLOSED", !.done = TRUE]
    /\ UNCHANGED <<authority, token, call, applied>>

------------------------------------------------------------------------------
(* The Host.                                                                *)

LeaseLost ==
    /\ authority # "LOST"
    /\ authority' = "LOST"
    /\ Fence
    /\ UNCHANGED <<token, call, applied>>

Terminalize ==
    /\ authority = "ACTIVE"
    /\ authority' = "TERMINAL"
    /\ UNCHANGED <<token, service, call, applied>>

Sharing == {c \in Calls : call[c].mode = "MUTATION" /\ call[c].at \in {"locked", "working", "committing"}}

TokenMoves ==
    /\ token /\ Sharing = {}
    /\ token' = FALSE
    /\ UNCHANGED <<authority, service, call, applied>>

------------------------------------------------------------------------------
(* execute()                                                                *)

Goto(c, step) == call' = [call EXCEPT ![c].at = step]

(* The finally block: the caller is told, and a waiting drain may start.    *)
End(c, answer) ==
    /\ call' = [call EXCEPT ![c].at = "ended", ![c].told = answer]
    /\ service' = MaybeStartDrain(service, Running \ {c})

(* assertAuthorityActive threw inside the transaction: fenced, then ended.  *)
EndFenced(c) ==
    /\ call' = [call EXCEPT ![c].at = "ended", ![c].told = "failed"]
    /\ service' = MaybeStartDrain(Fenced, Running \ {c})

(* assertOpen, in the caller's turn.                                        *)
Start(c, mode) ==
    /\ At(c, "none")
    /\ \/ /\ service.state = "OPEN" /\ authority = "ACTIVE"
          /\ call' = [call EXCEPT ![c] = [at |-> "begun", mode |-> mode, told |-> "nothing"]]
          /\ UNCHANGED service
       \/ /\ service.state # "OPEN"
          /\ call' = [call EXCEPT ![c].at = "ended", ![c].told = "failed"]
          /\ UNCHANGED service
       \/ /\ service.state = "OPEN" /\ authority # "ACTIVE"
          /\ call' = [call EXCEPT ![c].at = "ended", ![c].told = "failed"]
          /\ Fence
    /\ UNCHANGED <<authority, token, applied>>

BeginRead(c) ==
    /\ At(c, "begun") /\ call[c].mode = "READ"
    /\ Goto(c, "working")
    /\ UNCHANGED <<authority, token, service, applied>>

(* assertAuthorityActive, then the FOR SHARE query.                         *)
LockFence(c) ==
    /\ At(c, "begun") /\ call[c].mode = "MUTATION"
    /\ IF authority = "ACTIVE" THEN Goto(c, "locked") /\ UNCHANGED service ELSE EndFenced(c)
    /\ UNCHANGED <<authority, token, applied>>

(* verifyHostFence, then assertAuthorityActive.                             *)
VerifyFence(c) ==
    /\ At(c, "locked")
    /\ \/ ~token /\ End(c, "failed")
       \/ token /\ authority = "ACTIVE" /\ Goto(c, "working") /\ UNCHANGED service
       \/ token /\ authority # "ACTIVE" /\ EndFenced(c)
    /\ UNCHANGED <<authority, token, applied>>

(* The operation returns (operationCompleted) and COMMIT is sent.           *)
SendCommit(c) ==
    /\ At(c, "working")
    /\ Goto(c, "committing")
    /\ UNCHANGED <<authority, token, service, applied>>

(* The operation throws, or the session breaks before the COMMIT.           *)
Break(c) ==
    /\ call[c].at \in {"begun", "locked", "working"}
    /\ End(c, "failed")
    /\ UNCHANGED <<authority, token, applied>>

ServerCommits(c) ==
    /\ At(c, "committing")
    /\ applied' = applied \cup {c}
    /\ Goto(c, "committed")
    /\ UNCHANGED <<authority, token, service>>

ServerAborts(c) ==
    /\ At(c, "committing")
    /\ Goto(c, "aborted")
    /\ UNCHANGED <<authority, token, service, applied>>

Acknowledged(c) ==
    /\ At(c, "committed")
    /\ End(c, "done")
    /\ UNCHANGED <<authority, token, applied>>

(* COMMIT ended in an error: it was refused, or its reply was lost.         *)
CommitError(c) ==
    /\ call[c].at \in {"committed", "aborted"}
    /\ End(c, "uncertain")
    /\ UNCHANGED <<authority, token, applied>>

------------------------------------------------------------------------------

Progress(c) ==
    \/ BeginRead(c) \/ LockFence(c) \/ VerifyFence(c) \/ SendCommit(c) \/ Break(c)
    \/ ServerCommits(c) \/ ServerAborts(c) \/ Acknowledged(c) \/ CommitError(c)

Next ==
    \/ Close \/ DestroyDone \/ LeaseLost \/ Terminalize \/ TokenMoves
    \/ \E c \in Calls : Progress(c) \/ \E mode \in {"READ", "MUTATION"} : Start(c, mode)

Spec == Init /\ [][Next]_vars

------------------------------------------------------------------------------
(* Properties                                                               *)

ServiceType ==
    [state : {"OPEN", "FENCED", "CLOSING", "CLOSED"}, requested : BOOLEAN,
     destroys : 0 .. 1, done : BOOLEAN]

(* The values each variable may take; the pool is destroyed at most once.   *)
TypeOK ==
    /\ authority \in {"ACTIVE", "TERMINAL", "LOST"} /\ token \in BOOLEAN
    /\ service \in ServiceType
    /\ call \in [Calls -> [at : Steps \cup {"none", "ended"}, mode : {"READ", "MUTATION"},
                           told : {"nothing", "done", "failed", "uncertain"}]]
    /\ applied \subseteq Calls

(* The pool is not destroyed under a running transaction, and nothing       *)
(* starts on a destroyed pool, in whatever order fence, close and the last  *)
(* transaction come (maybeStartDrain, drain and the finally block).         *)
DrainedWhenIdle == service.destroys > 0 => Running = {}

(* A service that was fenced or asked to close gives its pool back as soon  *)
(* as nothing runs: the last one out starts the drain, whoever asked for it *)
(* and whatever came of the transaction.                                    *)
DrainIsStarted == service.state # "OPEN" /\ Running = {} => service.destroys > 0

(* "The system does not report an untracked successful commit"              *)
(* (specs/data/persistence-transactions.md): a caller told that its         *)
(* transaction failed may retry it, one told it is done may rely on it.     *)
AnswerIsTrue ==
    \A c \in Calls :
        /\ call[c].told = "failed" => c \notin applied
        /\ call[c].told = "done" => c \in applied

(* What callers and the owner of the pool may rely on.                       *)
CallsAreSettled == TypeOK /\ DrainedWhenIdle /\ DrainIsStarted /\ AnswerIsTrue

------------------------------------------------------------------------------
(* The inductive invariant                                                  *)

(* What a call's answer and its place in execute() say of its transaction.  *)
CallOK(c) ==
    /\ c \in applied => call[c].at \in {"committed", "ended"}
    /\ call[c].at = "committed" => c \in applied
    /\ call[c].told = "failed" => c \notin applied
    /\ call[c].told = "done" => c \in applied
    /\ call[c].at # "ended" => call[c].told = "nothing"

(* A drain is due exactly when the service is no longer open, and waits for *)
(* nothing but the calls under way.                                         *)
ServiceOK ==
    /\ service.requested <=> service.state # "OPEN"
    /\ service.destroys > 0 => service.requested /\ Running = {}
    /\ service.requested /\ Running = {} => service.destroys > 0

Inv ==
    /\ TypeOK
    /\ ServiceOK
    /\ \A c \in Calls : CallOK(c)
==============================================================================
