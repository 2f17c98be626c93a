----------------------------- MODULE MCWorkQueue -----------------------------
(* Model checking of WorkQueue on small sets of items, hosts and revisions. *)
EXTENDS WorkQueue

CONSTANT w1

JustOne == {w1}
None == {}
=============================================================================
