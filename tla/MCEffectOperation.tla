--------------------------- MODULE MCEffectOperation ---------------------------
(* Model checking of EffectOperation with three concurrent callers.         *)
EXTENDS EffectOperation, TLC

CONSTANTS e1, q1, q2, c1, c2, c3

TheId == {e1}
TwoRequests == {q1, q2}
ThreeCallers == {c1, c2, c3}
Symmetry == Permutations(ThreeCallers) \cup Permutations(TwoRequests)
=============================================================================
