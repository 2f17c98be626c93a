--------------------------- MODULE GenerationCalls ----------------------------
(***************************************************************************)
(* Calls into a Runtime generation and its retirement: the fence that      *)
(* counts them, the registries that hand out leases, the proxies and the   *)
(* WorkHandler reservations through which the calls are made.              *)
(*                                                                         *)
(* One provider in successive generations.  A generation that is stopped   *)
(* is withdrawn from one registry after the other, each of which waits for *)
(* the same retirement, which may run out of time; it is only replaced     *)
(* when its fence is RETIRED.  Calls are made meanwhile, through leases    *)
(* and objects handed out before.                                          *)
(***************************************************************************)
EXTENDS Naturals, FiniteSets

CONSTANTS
  Callers,        \* consumers and attempts that call the provider
  MaxGenerations, \* generations of the provider
  MaxTimeouts     \* retirements that run out of time

VARIABLES
  fence,     \* generation -> its fence
  bound,     \* generation -> the registries it is registered in
  stopping,  \* generation -> where the supervisor's stop is
  call,      \* caller -> the call it makes, and the reservations it holds
  duplicate, \* a registration found its key taken
  timeouts

vars == <<fence, bound, stopping, call, duplicate, timeouts>>

Generations == 1..MaxGenerations
Kinds == {"services", "capabilities", "workHandlers"}

Fence == [state : {"ACTIVE", "RETIRING", "RETIRED"}, inFlight : Nat,
          retirement : {"none", "pending", "resolved", "rejected"}, watched : BOOLEAN]

Call == [at : {"idle", "leased", "opening", "calling", "reserved", "claimed", "inside"},
         kind : Kinds, generation : Generations, outer : BOOLEAN, inner : BOOLEAN]

TypeOK ==
  /\ fence \in [Generations -> Fence]
  /\ bound \in [Generations -> SUBSET Kinds]
  /\ stopping \in [Generations -> Kinds \cup {"unborn", "up", "retire", "stopped"}]
  /\ call \in [Callers -> Call]
  /\ duplicate \in BOOLEAN /\ timeouts \in 0..MaxTimeouts

Init ==
  /\ fence = [g \in Generations |->
       [state |-> "ACTIVE", inFlight |-> 0, retirement |-> "none", watched |-> FALSE]]
  /\ bound = [g \in Generations |-> {}]
  /\ stopping = [g \in Generations |-> "unborn"]
  /\ call = [c \in Callers |->
       [at |-> "idle", kind |-> "services", generation |-> 1, outer |-> FALSE, inner |-> FALSE]]
  /\ duplicate = FALSE /\ timeouts = 0

(***************************************************************************)
(* The fence                                                               *)
(***************************************************************************)
Active(g) == fence[g].state = "ACTIVE"

Reserved(g) == fence' = [fence EXCEPT ![g].inFlight = @ + 1]

(* Of a generation that is watched, the last call to end makes it RETIRED, *)
(* also after the retirement has run out of time.                          *)
complete(f) ==
  IF f.state = "RETIRING" /\ f.inFlight = 0 /\ f.watched
  THEN [f EXCEPT !.state = "RETIRED", !.watched = FALSE,
                 !.retirement = IF @ = "pending" THEN "resolved" ELSE @]
  ELSE f

finished(f, n) == IF n = 0 THEN f ELSE complete([f EXCEPT !.inFlight = @ - n])
finishInvocation(g, n) == fence' = [fence EXCEPT ![g] = finished(@, n)]

beginRetirement(f) == IF f.state = "ACTIVE" THEN [f EXCEPT !.state = "RETIRING"] ELSE f

(* Every caller gets the same retirement.                                  *)
retire(g) ==
  fence' = [fence EXCEPT ![g] =
    IF @.state = "RETIRED" \/ @.retirement # "none" THEN @
    ELSE complete([beginRetirement(@) EXCEPT !.retirement = "pending", !.watched = TRUE])]

Retirement(g) ==
  IF fence[g].state = "RETIRED" THEN "resolved" ELSE fence[g].retirement

SettlementTimeout(g) ==
  /\ fence[g].retirement = "pending" /\ timeouts < MaxTimeouts
  /\ fence' = [fence EXCEPT ![g].retirement = "rejected"]
  /\ timeouts' = timeouts + 1
  /\ UNCHANGED <<bound, stopping, call, duplicate>>

(***************************************************************************)
(* The supervisor                                                          *)
(***************************************************************************)
(* Registered in all registries; the generation before it has settled.     *)
register(g) ==
  /\ stopping[g] = "unborn"
  /\ \A h \in Generations : h < g => stopping[h] = "stopped" /\ fence[h].state = "RETIRED"
  /\ duplicate' = (\E h \in Generations : bound[h] # {})
  /\ bound' = IF duplicate' THEN bound ELSE [bound EXCEPT ![g] = Kinds]
  /\ stopping' = [stopping EXCEPT ![g] = "up"]
  /\ UNCHANGED <<fence, call, timeouts>>

(* Admission ends at once; the stop follows when its turn comes.           *)
revokeGenerationAdmission(g) ==
  /\ stopping[g] = "up" /\ Active(g)
  /\ fence' = [fence EXCEPT ![g] = beginRetirement(@)]
  /\ UNCHANGED <<bound, stopping, call, duplicate, timeouts>>

stop(g) ==
  /\ stopping[g] = "up"
  /\ stopping' = [stopping EXCEPT ![g] = "services"]
  /\ UNCHANGED <<fence, bound, call, duplicate, timeouts>>

After(k) == CASE k = "services" -> "capabilities" [] k = "capabilities" -> "workHandlers"
              [] k = "workHandlers" -> "retire"

(* Taken from one registry, and its retirement begun.                      *)
retireGeneration(g) ==
  /\ stopping[g] \in bound[g]
  /\ bound' = [bound EXCEPT ![g] = @ \ {stopping[g]}]
  /\ retire(g)
  /\ UNCHANGED <<stopping, call, duplicate, timeouts>>

(* The retirement has ended, or failed; the next registry has its turn.    *)
Withdrawn(g) ==
  /\ stopping[g] \in Kinds \ bound[g] /\ Retirement(g) \in {"resolved", "rejected"}
  /\ stopping' = [stopping EXCEPT ![g] = After(@)]
  /\ UNCHANGED <<fence, bound, call, duplicate, timeouts>>

(* After the activation's disposal; unless RETIRED, it is remembered as    *)
(* unsettled and not replaced.                                             *)
Stopped(g) ==
  /\ stopping[g] = "retire" /\ Retirement(g) \in {"resolved", "rejected"}
  /\ stopping' = [stopping EXCEPT ![g] = "stopped"]
  /\ UNCHANGED <<fence, bound, call, duplicate, timeouts>>

(***************************************************************************)
(* Calls                                                                   *)
(***************************************************************************)
Candidates(k) == {g \in Generations : k \in bound[g] /\ Active(g)}

resolve(c, k, g) ==
  /\ call[c].at = "idle" /\ g \in Candidates(k)
  /\ call' = [call EXCEPT ![c].at = "leased", ![c].kind = k, ![c].generation = g]
  /\ UNCHANGED <<fence, bound, stopping, duplicate, timeouts>>

Ended(c) == call' = [call EXCEPT ![c].at = "idle", ![c].outer = FALSE, ![c].inner = FALSE]
Held(c) == (IF call[c].outer THEN 1 ELSE 0) + (IF call[c].inner THEN 1 ELSE 0)

(* A lease asks for the generation, opens the call's Activity and asks     *)
(* again with the reservation; a lease can be used any number of times.    *)
invokeRegistryBinding(c) ==
  /\ call[c].at = "leased" /\ call[c].kind # "workHandlers"
  /\ call' = [call EXCEPT ![c].at = IF Active(call[c].generation) THEN "opening" ELSE "idle"]
  /\ UNCHANGED <<fence, bound, stopping, duplicate, timeouts>>

(* Mutant: a call whose Activity has opened is let in.                     *)
InvokedUnasked(c) ==
  /\ call[c].at = "opening"
  /\ call' = [call EXCEPT ![c].at = "calling", ![c].outer = TRUE]
  /\ Reserved(call[c].generation)
  /\ UNCHANGED <<bound, stopping, duplicate, timeouts>>

Invoked(c) ==
  /\ call[c].at = "opening"
  /\ IF Active(call[c].generation)
     THEN call' = [call EXCEPT ![c].at = "calling", ![c].outer = TRUE] /\ Reserved(call[c].generation)
     ELSE call' = [call EXCEPT ![c].at = "idle"] /\ UNCHANGED fence
  /\ UNCHANGED <<bound, stopping, duplicate, timeouts>>

(* The proxy of a lease, or of an object in a provider's results: whoever  *)
(* has it can keep it, and each of its traps asks for the generation.      *)
Facade(c) ==
  /\ call[c].at \in {"leased", "calling"} /\ call[c].kind # "workHandlers"
  /\ Active(call[c].generation)

(* A member is called through the proxy, from within an invocation of the  *)
(* lease or from outside; arguments that are not plain data are refused    *)
(* before.                                                                 *)
wrapMember(c) ==
  /\ Facade(c)
  /\ call' = [call EXCEPT ![c].at = "inside", ![c].inner = TRUE]
  /\ Reserved(call[c].generation)
  /\ UNCHANGED <<bound, stopping, duplicate, timeouts>>

(* The caller is left with the result, where it called from; an object in  *)
(* it is another facade of the same fence.                                 *)
projectResult(c) == [call[c] EXCEPT !.at = IF call[c].outer THEN "calling" ELSE "leased", !.inner = FALSE]

(* The provider's result or failure is projected; that may fail as well.   *)
invokeProvider(c) ==
  /\ call[c].at = "inside" /\ call[c].kind # "workHandlers"
  /\ call' = [call EXCEPT ![c] = projectResult(c)]
  /\ finishInvocation(call[c].generation, 1)
  /\ UNCHANGED <<bound, stopping, duplicate, timeouts>>

(* The consumer's function ends; the lease is kept or given up.            *)
CallEnds(c) ==
  /\ call[c].at \in {"calling", "leased"}
  /\ \/ Ended(c)
     \/ call[c].at = "calling" /\ call' = [call EXCEPT ![c].at = "leased", ![c].outer = FALSE]
  /\ finishInvocation(call[c].generation, Held(c))
  /\ UNCHANGED <<bound, stopping, duplicate, timeouts>>

(***************************************************************************)
(* Attempts                                                                *)
(***************************************************************************)
(* Before the work is claimed; a generation that retires sends it back.    *)
reserveInvocation(c) ==
  /\ call[c].at = "leased" /\ call[c].kind = "workHandlers"
  /\ IF Active(call[c].generation)
     THEN call' = [call EXCEPT ![c].at = "reserved", ![c].outer = TRUE] /\ Reserved(call[c].generation)
     ELSE Ended(c) /\ UNCHANGED fence
  /\ UNCHANGED <<bound, stopping, duplicate, timeouts>>

(* The claim is stale or fails: the reservation is released.               *)
ClaimLost(c) ==
  /\ call[c].at = "reserved"
  /\ Ended(c)
  /\ finishInvocation(call[c].generation, 1)
  /\ UNCHANGED <<bound, stopping, duplicate, timeouts>>

Claimed(c) ==
  /\ call[c].at = "reserved"
  /\ call' = [call EXCEPT ![c].at = "claimed"]
  /\ UNCHANGED <<fence, bound, stopping, duplicate, timeouts>>

(* The Activity of the invocation fails to open, or the handler runs, with *)
(* what has been reserved, whatever has become of the generation.          *)
execute(c) ==
  /\ call[c].at = "claimed"
  /\ \/ Ended(c) /\ finishInvocation(call[c].generation, 1)
     \/ call' = [call EXCEPT ![c].at = "inside"] /\ UNCHANGED fence
  /\ UNCHANGED <<bound, stopping, duplicate, timeouts>>

(* It returns an outcome, one that is not valid, or fails.                 *)
HandlerEnds(c) ==
  /\ call[c].at = "inside" /\ call[c].kind = "workHandlers"
  /\ Ended(c)
  /\ finishInvocation(call[c].generation, 1)
  /\ UNCHANGED <<bound, stopping, duplicate, timeouts>>

Next ==
  \/ \E g \in Generations :
       \/ register(g) \/ revokeGenerationAdmission(g) \/ stop(g) \/ retireGeneration(g)
       \/ Withdrawn(g) \/ Stopped(g) \/ SettlementTimeout(g)
  \/ \E c \in Callers :
       \/ \E k \in Kinds, g \in Generations : resolve(c, k, g)
       \/ invokeRegistryBinding(c) \/ Invoked(c) \/ wrapMember(c) \/ invokeProvider(c) \/ CallEnds(c)
       \/ reserveInvocation(c) \/ ClaimLost(c) \/ Claimed(c) \/ execute(c) \/ HandlerEnds(c)

Spec == Init /\ [][Next]_vars

(***************************************************************************)
(* Properties                                                              *)
(***************************************************************************)
In(g) == {c \in Callers : call[c].generation = g}

(* Nobody is in a generation that is RETIRED, or on the way into it with a *)
(* reservation: it can be replaced.                                        *)
RetiredIsQuiet ==
  \A g \in Generations :
    fence[g].state = "RETIRED" =>
      \A c \in In(g) : Held(c) = 0 /\ call[c].at \in {"idle", "leased", "opening"}

(* A retirement that was asked for ends with the last call, also when it   *)
(* has long been reported as failed: nothing waits for a call that nobody  *)
(* makes, and no reservation is lost.                                      *)
IdleIsRetired ==
  \A g \in Generations :
    fence[g].retirement # "none" /\ (\A c \in In(g) : Held(c) = 0) => fence[g].state = "RETIRED"

(* A generation is withdrawn from every registry, whatever fails on the    *)
(* way: the one that replaces it never finds its keys taken.               *)
ReplacementRegisters == ~duplicate

(* The calls of a generation and its retirement.                           *)
CallsAreRetired == TypeOK /\ RetiredIsQuiet /\ IdleIsRetired /\ ReplacementRegisters

(***************************************************************************)
(* The inductive invariant                                                 *)
(***************************************************************************)
(* What a caller holds is told by where it is.                             *)
CallOK(c) ==
  /\ call[c].at \in {"idle", "leased", "opening"} => ~call[c].outer /\ ~call[c].inner
  /\ call[c].at \in {"calling", "reserved", "claimed"} => call[c].outer /\ ~call[c].inner
  /\ call[c].at \in {"opening", "calling"} => call[c].kind # "workHandlers"
  /\ call[c].at \in {"reserved", "claimed"} => call[c].kind = "workHandlers"
  /\ call[c].at = "inside" =>
        IF call[c].kind = "workHandlers" THEN call[c].outer /\ ~call[c].inner ELSE call[c].inner

Outer(g) == {c \in Callers : call[c].generation = g /\ call[c].outer}
Inner(g) == {c \in Callers : call[c].generation = g /\ call[c].inner}

(* The fence counts what callers hold, and who waits for it to drain is    *)
(* told by the last of them.                                               *)
FenceOK(g) ==
  /\ fence[g].inFlight = Cardinality(Outer(g)) + Cardinality(Inner(g))
  /\ fence[g].state = "RETIRED" => fence[g].inFlight = 0
  /\ fence[g].watched => fence[g].state = "RETIRING" /\ fence[g].inFlight > 0
  /\ fence[g].retirement # "none" => fence[g].watched \/ fence[g].state = "RETIRED"

(* Generations come one after the other, and one is registered only where  *)
(* its stop has not been yet.                                              *)
StopOK(g) ==
  /\ stopping[g] # "unborn" => \A h \in Generations : h < g => stopping[h] = "stopped"
  /\ stopping[g] \in {"unborn", "retire", "stopped"} => bound[g] = {}
  /\ stopping[g] = "capabilities" => "services" \notin bound[g]
  /\ stopping[g] = "workHandlers" => bound[g] \subseteq {"workHandlers"}

Inv ==
  /\ TypeOK /\ ~duplicate
  /\ \A c \in Callers : CallOK(c)
  /\ \A g \in Generations : FenceOK(g) /\ StopOK(g)
=============================================================================
