------------------------------ MODULE MCHostFence ------------------------------
(* Model checking of HostFence with few boots and transactions.             *)
EXTENDS HostFence

CONSTANTS b1, b2, t1, t2

TwoBoots == {b1, b2}
TwoTx == {t1, t2}
=============================================================================
