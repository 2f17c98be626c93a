----------------------- MODULE MCRuntimeSupervisorChain -----------------------
(***************************************************************************)
(* Two alternative providers of Service x, p which requires x and provides *)
(* y, and c which requires y.                                              *)
(***************************************************************************)
EXTENDS RuntimeSupervisor

const_Systems == {"a", "b", "c", "p"}
const_Services == {"x", "y"}
const_Provides == [a |-> {"x"}, b |-> {"x"}, c |-> {}, p |-> {"y"}]
const_Requires == [a |-> {}, b |-> {}, c |-> {"y"}, p |-> {"x"}]
const_Order == <<"a", "b", "c", "p">>
const_Gens == 1..8

(* p and c run throughout; the provider of x is a, then b.                  *)
Snapshot(provider) ==
    [want |-> const_Systems, eligible |-> const_Systems,
     bind |-> [v \in const_Services |-> IF v = "x" THEN provider ELSE None]]
const_Desires == {Snapshot("a"), Snapshot("b")}
==============================================================================
