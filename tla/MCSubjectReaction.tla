--------------------------- MODULE MCSubjectReaction ---------------------------
(* Model checking of SubjectReaction with few messages.                     *)
EXTENDS SubjectReaction, TLC

CONSTANTS m1, m2, r1, r2, hello, bye

TwoMessages == {m1, m2}
TwoReactions == {r1, r2}
OneContent == {hello}
TwoContents == {hello, bye}
AnyFault == {"RETRY", "TERMINAL"}
RetryOnly == {"RETRY"}
Symmetry2 == Permutations(TwoMessages) \cup Permutations(TwoReactions) \cup Permutations(TwoContents)
=============================================================================
