-------------------------- MODULE WorkItemLifecycle --------------------------
(***************************************************************************)
(* What WorkQueue promises of one WorkItem, whatever hosts, engine and     *)
(* handlers do: the life cycle of specs/execution/work-item.md as the      *)
(* repository's statements realise it.  A WorkItem waits, is claimed for   *)
(* one dispatch revision, and ends once; an ended item never changes; the  *)
(* first accepted intent decides how the item ends; a new revision begins  *)
(* only where no attempt of the old one can still be current.              *)
(***************************************************************************)
EXTENDS Naturals

CONSTANT Items

VARIABLE item   \* item[i] = [phase, rev, intent, outcome]

Intents == {"NONE", "CANCELLED", "SUPERSEDED"}

Absent == [phase |-> "absent", rev |-> 1, intent |-> "NONE", outcome |-> "NONE"]

Init == item = [i \in Items |-> Absent]

Step(i, from, to) ==
    /\ item[i].phase \in from
    /\ item' = [item EXCEPT ![i] = to]

Create(i) == Step(i, {"absent"}, [Absent EXCEPT !.phase = "pending"])

(* Waiting for a handler or for a due time keeps the revision.             *)
Defer(i) ==
    /\ item[i].intent = "NONE"
    /\ Step(i, {"pending", "running"}, [item[i] EXCEPT !.phase = "waiting"])

(* Only waking starts a new revision.                                      *)
Wake(i) == Step(i, {"waiting"}, [item[i] EXCEPT !.phase = "pending", !.rev = @ + 1])

Claim(i) == Step(i, {"pending"}, [item[i] EXCEPT !.phase = "running"])

(* An intent ends an item nobody runs, and is recorded on a running one.   *)
Request(i, intent) ==
    /\ item[i].intent = "NONE"
    /\ \/ Step(i, {"pending", "waiting"},
               [item[i] EXCEPT !.phase = "ended", !.intent = intent, !.outcome = intent])
       \/ Step(i, {"running"}, [item[i] EXCEPT !.intent = intent])

(* The recorded intent, if there is one, is the outcome; only a running     *)
(* item can succeed.                                                        *)
Verdicts(x) ==
    IF x.intent # "NONE" THEN {x.intent}
    ELSE IF x.phase = "running" THEN {"SUCCEEDED", "FAILED"} ELSE {"FAILED"}

Finish(i) ==
    \E outcome \in Verdicts(item[i]) :
        Step(i, {"pending", "running"},
             [item[i] EXCEPT !.phase = "ended", !.outcome = outcome])

Next ==
    \E i \in Items :
        \/ Create(i)
        \/ Defer(i)
        \/ Wake(i)
        \/ Claim(i)
        \/ \E intent \in Intents \ {"NONE"} : Request(i, intent)
        \/ Finish(i)

Spec == Init /\ [][Next]_item
=============================================================================
