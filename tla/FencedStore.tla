------------------------------ MODULE FencedStore ------------------------------
(***************************************************************************)
(* What host ownership and persistence promise together                    *)
(* (specs/runtime/host-ownership.md, HOST-001 to HOST-004): the store has   *)
(* at most one owner, an owner that was replaced never returns, and only   *)
(* the current owner writes, at the revision its token was published at.   *)
(***************************************************************************)
EXTENDS Naturals

CONSTANTS Boots, None

VARIABLES
    owner,      \* whose token is current, or None
    revision,   \* ownership revision
    since,      \* revision at which each boot became owner; 0 if it never did
    writes      \* the writes so far: who wrote, at which revision

vars == <<owner, revision, since, writes>>

Init ==
    /\ owner = None /\ revision = 0
    /\ since = [b \in Boots |-> 0]
    /\ writes = {}

Publish(b) ==
    /\ since[b] = 0
    /\ owner' = b
    /\ revision' = revision + 1
    /\ since' = [since EXCEPT ![b] = revision + 1]
    /\ UNCHANGED writes

Revoke ==
    /\ owner # None
    /\ owner' = None
    /\ revision' = revision + 1
    /\ UNCHANGED <<since, writes>>

Write(b) ==
    /\ owner = b
    /\ writes' = writes \cup {<<b, since[b]>>}
    /\ UNCHANGED <<owner, revision, since>>

Next == Revoke \/ \E b \in Boots : Publish(b) \/ Write(b)

Spec == Init /\ [][Next]_vars
=============================================================================
