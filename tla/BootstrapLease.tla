----------------------------- MODULE BootstrapLease -----------------------------
(***************************************************************************)
(* What bootstrap ownership promises (specs/runtime/bootstrap-closure.md):  *)
(* at most one living process acts for the installation, and nobody takes   *)
(* the lease from one that does.                                            *)
(***************************************************************************)
CONSTANTS Process, None
VARIABLE holder

Init == holder = None
Take(p) == holder = None /\ holder' = p
Leave == holder # None /\ holder' = None
Next == Leave \/ \E p \in Process : Take(p)
Spec == Init /\ [][Next]_holder
=============================================================================
