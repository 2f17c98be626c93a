------------------------- MODULE MCRuntimeSupervisor -------------------------
(***************************************************************************)
(* Two alternative providers of one Service and its consumer.              *)
(***************************************************************************)
EXTENDS RuntimeSupervisor

const_Systems == {"a", "b", "c"}
const_Services == {"x"}
const_Provides == [s \in const_Systems |-> IF s \in {"a", "b"} THEN {"x"} ELSE {}]
const_Requires == [s \in const_Systems |-> IF s = "c" THEN {"x"} ELSE {}]
const_Order == <<"a", "b", "c">>
const_Gens == 1..5

(* Without c's provider a, and a mode in which a may not run.               *)
const_Desires ==
    {[want |-> {"a", "c"}, eligible |-> const_Systems, bind |-> [v \in const_Services |-> None]],
     [want |-> const_Systems, eligible |-> {"b", "c"}, bind |-> [v \in const_Services |-> None]]}
==============================================================================
