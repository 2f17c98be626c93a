------------------------------ MODULE EffectTruth ------------------------------
(***************************************************************************)
(* What effect-operation promises of one consequential external effect     *)
(* (specs/execution/effect-operation.md), without hosts or callers: one     *)
(* request per key, one admission, one call, and a record that only ever   *)
(* says what is so.  While nothing is known the record may say so for      *)
(* ever; what it says of the effect once it speaks is final.               *)
(***************************************************************************)
EXTENDS Naturals

CONSTANTS Ids, Requests

VARIABLES
    record,   \* what the record says of each effect
    asked,    \* the request recorded under each key, if any
    world     \* what the outside world has done with it

vars == <<record, asked, world>>

Init ==
    /\ record = [e \in Ids |-> "ABSENT"]
    /\ asked \in [Ids -> Requests]
    /\ world = [e \in Ids |-> "unasked"]

Record(e, from, to) ==
    /\ record[e] = from
    /\ record' = [record EXCEPT ![e] = to]

Prepare(e) ==
    /\ Record(e, "ABSENT", "PREPARED")
    /\ \E q \in Requests : asked' = [asked EXCEPT ![e] = q]
    /\ UNCHANGED world

Admit(e) == Record(e, "PREPARED", "DISPATCHING") /\ UNCHANGED <<asked, world>>

(* The effect is asked for once, and only after its admission; it may be    *)
(* long before the world acts, and the record may doubt in the meantime.    *)
Ask(e) ==
    /\ record[e] \in {"DISPATCHING", "UNCERTAIN"}
    /\ world[e] = "unasked"
    /\ world' = [world EXCEPT ![e] = "asked"]
    /\ UNCHANGED <<record, asked>>

Act(e) ==
    /\ world[e] = "asked"
    /\ world' \in {[world EXCEPT ![e] = "done"], [world EXCEPT ![e] = "rejected"]}
    /\ UNCHANGED <<record, asked>>

Doubt(e) == Record(e, "DISPATCHING", "UNCERTAIN") /\ UNCHANGED <<asked, world>>

(* Success is recorded of what was done; failure of what was rejected, or   *)
(* of what was never asked for and so never will be.                        *)
Learn(e) ==
    /\ \E from \in {"DISPATCHING", "UNCERTAIN"} :
          \/ Record(e, from, "SUCCEEDED") /\ world[e] = "done"
          \/ Record(e, from, "FAILED") /\ world[e] = "rejected"
          \/ from = "DISPATCHING" /\ Record(e, from, "FAILED") /\ world[e] = "unasked"
    /\ UNCHANGED <<asked, world>>

Next == \E e \in Ids : Prepare(e) \/ Admit(e) \/ Ask(e) \/ Act(e) \/ Doubt(e) \/ Learn(e)

Spec == Init /\ [][Next]_vars
=============================================================================
