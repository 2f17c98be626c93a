------------------------- MODULE FirstAdministrator -------------------------
(***************************************************************************)
(* How an installation gets its Administrator: the one-time claim that     *)
(* every Host keeps in a local file and in the database, its renewal, its  *)
(* consumption over HTTP, and the sessions an Administrator opens.         *)
(*                                                                         *)
(* The file is shared by the Hosts of the installation; a Host that has    *)
(* lost its fence may still be running beside its successor.  A client     *)
(* knows the secret of a claim only from the file.                         *)
(***************************************************************************)
EXTENDS Naturals, FiniteSets

CONSTANTS
  Hosts,
  Clients,
  MaxClaims,    \* claims created
  MaxSessions,  \* sessions opened
  MaxFaults     \* calls that fail

VARIABLES
  owner,        \* the Host whose fence is in the database
  claim,        \* claim -> "none", "current", "replaced" or "consumed"
  expired,      \* claims past their expiresAt
  administrator,\* 0, or the claim it was created with
  file,         \* the claim in management-first-claim.json, 0 for none
  maintenance,  \* Host -> where its claim maintenance is
  held,         \* Host -> the claim it last read, created or published
  started,      \* Hosts whose first pass has returned
  active,       \* Host -> whether the maintenance is active
  timer,        \* Host -> "none", "expiry" or "retry"
  request,      \* client -> its claim request: where it is, by which Host, with which claim,
                \* and whether that was in time when the request looked at the clock
  session,      \* session -> "none", "issued" or "revoked"
  bearer,       \* client -> where its authenticated request is, with which session,
                \* and whether that session had been revoked before
  lapses,       \* "stale": a Host without the fence has published a claim
                \* "late": a claim was consumed that expired since the clock was read
  faults

claimVars == <<owner, claim, expired, administrator>>
hostVars == <<maintenance, held, started, active, timer>>
sessionVars == <<session, bearer>>
vars == <<claimVars, file, hostVars, request, sessionVars, lapses, faults>>

Claims == 1..MaxClaims
Sessions == 1..MaxSessions
Idle == [pc |-> "no", host |-> CHOOSE h \in Hosts : TRUE, claim |-> 0, inTime |-> FALSE]
Out == [pc |-> "no", session |-> 0, late |-> FALSE]

TypeOK ==
  /\ owner \in Hosts
  /\ claim \in [Claims -> {"none", "current", "replaced", "consumed"}]
  /\ expired \subseteq Claims
  /\ {administrator, file} \subseteq 0..MaxClaims
  /\ maintenance \in [Hosts -> {"off", "starting", "ensuring", "creating", "created",
                                "publishing", "removing", "on"}]
  /\ held \in [Hosts -> 0..MaxClaims]
  /\ started \subseteq Hosts
  /\ active \in [Hosts -> BOOLEAN] /\ timer \in [Hosts -> {"none", "expiry", "retry"}]
  /\ request \in [Clients -> [pc : {"no", "hashing", "claiming", "claimed", "removing"},
                              host : Hosts, claim : 0..MaxClaims, inTime : BOOLEAN]]
  /\ session \in [Sessions -> {"none", "issued", "revoked"}]
  /\ bearer \in [Clients -> [pc : {"no", "reading", "admitted", "revoking"}, session : 0..MaxSessions, late : BOOLEAN]]
  /\ lapses \subseteq {"stale", "late"} /\ faults \in 0..MaxFaults

Init ==
  /\ owner \in Hosts
  /\ claim = [c \in Claims |-> "none"] /\ expired = {}
  /\ administrator = 0 /\ file = 0
  /\ maintenance = [h \in Hosts |-> "off"]
  /\ held = [h \in Hosts |-> 0]
  /\ started = {} /\ active = [h \in Hosts |-> FALSE] /\ timer = [h \in Hosts |-> "none"]
  /\ request = [k \in Clients |-> Idle]
  /\ session = [s \in Sessions |-> "none"] /\ bearer = [k \in Clients |-> Out]
  /\ lapses = {} /\ faults = 0

(***************************************************************************)
(* Helpers                                                                 *)
(***************************************************************************)
Fault == faults < MaxFaults /\ faults' = faults + 1
Fenced(h) == owner = h
Goes(h, pc) == maintenance' = [maintenance EXCEPT ![h] = pc]
Current == {c \in Claims : claim[c] = "current"}

(* The first pass of the maintenance is part of the start of its Host, and *)
(* its failure fails that start; a later one is retried.                   *)
Starting(h) == h \notin started

(***************************************************************************)
(* Claim maintenance                                                       *)
(***************************************************************************)
startFirstClaimMaintenance(h) ==
  /\ maintenance[h] = "off" /\ Fenced(h)
  /\ Goes(h, "starting")
  /\ held' = [held EXCEPT ![h] = file]
  /\ UNCHANGED <<claimVars, file, started, active, timer, request, sessionVars, lapses, faults>>

renew(h) ==
  /\ timer[h] # "none" /\ maintenance[h] = "on"
  /\ timer[h] = "expiry" => held[h] \in expired
  /\ timer' = [timer EXCEPT ![h] = "none"]
  /\ Goes(h, "ensuring")
  /\ UNCHANGED <<claimVars, file, held, started, active, request, sessionVars, lapses, faults>>

(* ensureFirstAdministratorClaim looks for an Administrator and a claim.   *)
EnsureReads(h) ==
  /\ maintenance[h] \in {"starting", "ensuring"}
  /\ IF administrator # 0 THEN Goes(h, "removing")
     ELSE IF maintenance[h] = "starting" /\ held[h] \in Current \ expired THEN Goes(h, "publishing")
     ELSE Goes(h, "creating")
  /\ UNCHANGED <<claimVars, file, held, started, active, timer, request, sessionVars, lapses, faults>>

(* management_create_or_replace_claim: the claim nobody consumed goes.     *)
createOrReplaceClaim(h, c) ==
  /\ maintenance[h] = "creating" /\ Fenced(h)
  /\ claim[c] = "none" /\ \A d \in 1..c - 1 : claim[d] # "none"
  /\ claim' = [d \in Claims |-> IF d = c THEN "current"
                                ELSE IF d \in Current THEN "replaced" ELSE claim[d]]
  /\ held' = [held EXCEPT ![h] = c]
  /\ Goes(h, "created")
  /\ UNCHANGED <<owner, expired, administrator, file, started, active, timer, request, sessionVars, lapses, faults>>

(* A call of the pass rejects, with the fence lost or the evidence of the  *)
(* mutation not recorded.                                                  *)
PassFails(h) ==
  /\ maintenance[h] \in {"starting", "ensuring", "creating", "created", "publishing"}
  /\ IF Fenced(h) THEN Fault ELSE UNCHANGED faults
  /\ IF Starting(h)
     THEN Goes(h, "off") /\ UNCHANGED timer
     ELSE Goes(h, "on") /\ timer' = [timer EXCEPT ![h] = IF active[h] THEN "retry" ELSE "none"]
  /\ UNCHANGED <<claimVars, file, held, started, active, request, sessionVars, lapses>>

(* A renewal that finds itself stopped publishes nothing.                  *)
Created(h) ==
  /\ maintenance[h] = "created"
  /\ Goes(h, IF active[h] \/ Starting(h) THEN "publishing" ELSE "on")
  /\ UNCHANGED <<claimVars, file, held, started, active, timer, request, sessionVars, lapses, faults>>

publishClaim(h) ==
  /\ maintenance[h] = "publishing"
  /\ file' = held[h]
  /\ lapses' = IF Fenced(h) THEN lapses ELSE lapses \cup {"stale"}
  /\ Goes(h, "on")
  /\ active' = [active EXCEPT ![h] = @ \/ Starting(h)]
  /\ started' = started \cup {h}
  /\ timer' = [timer EXCEPT ![h] = IF active'[h] THEN "expiry" ELSE "none"]
  /\ UNCHANGED <<claimVars, held, request, sessionVars, faults>>

removeClaim(h) ==
  /\ maintenance[h] = "removing"
  /\ file' = 0
  /\ active' = [active EXCEPT ![h] = FALSE]
  /\ started' = started \cup {h}
  /\ Goes(h, "on")
  /\ UNCHANGED <<claimVars, held, timer, request, sessionVars, lapses, faults>>

close(h) ==
  /\ maintenance[h] # "off"
  /\ active' = [active EXCEPT ![h] = FALSE] /\ timer' = [timer EXCEPT ![h] = "none"]
  /\ started' = started \ {h}
  /\ Goes(h, "off")
  /\ UNCHANGED <<claimVars, file, held, request, sessionVars, lapses, faults>>

Expire(c) ==
  /\ claim[c] # "none" /\ c \notin expired
  /\ expired' = expired \cup {c}
  /\ UNCHANGED <<owner, claim, administrator, file, hostVars, request, sessionVars, lapses, faults>>

Takeover(h) ==
  /\ ~Fenced(h) /\ maintenance[h] = "off" /\ Fault
  /\ owner' = h
  /\ UNCHANGED <<claim, expired, administrator, file, hostVars, request, sessionVars, lapses>>

(***************************************************************************)
(* Consumption                                                             *)
(***************************************************************************)
claimFirstAdministrator(k, h) ==
  /\ request[k].pc = "no" /\ file # 0 /\ maintenance[h] # "off"
  /\ request' = [request EXCEPT ![k] = [Idle EXCEPT !.pc = "hashing", !.host = h, !.claim = file]]
  /\ UNCHANGED <<claimVars, file, hostVars, sessionVars, lapses, faults>>

(* The password is hashed and the clock read; what was read goes into the  *)
(* transaction, after that which retains the Activity.                     *)
runMutationActivity(k) ==
  LET r == request[k] IN
  /\ r.pc = "hashing"
  /\ request' = [request EXCEPT ![k].pc = "claiming", ![k].inTime = r.claim \notin expired]
  /\ UNCHANGED <<claimVars, file, hostVars, sessionVars, lapses, faults>>

(* Mutant: the row of the claim is not looked at again.                    *)
consumeClaimUnread(k) ==
  LET r == request[k] IN
  /\ r.pc = "claiming"
  /\ IF Fenced(r.host)
     THEN /\ administrator' = r.claim
          /\ claim' = [claim EXCEPT ![r.claim] = "consumed"]
          /\ request' = [request EXCEPT ![k].pc = "claimed"]
     ELSE request' = [request EXCEPT ![k] = Idle] /\ UNCHANGED <<administrator, claim>>
  /\ UNCHANGED <<owner, expired, file, hostVars, sessionVars, lapses, faults>>

(* management_consume_claim_create_administrator, one transaction under    *)
(* the fence.  The claim may have expired since the clock was read, and a  *)
(* renewal of it be under way.                                             *)
consumeClaimCreateAdministrator(k) ==
  LET r == request[k] IN
  /\ r.pc = "claiming"
  /\ IF Fenced(r.host) /\ r.claim \in Current /\ r.inTime /\ administrator = 0
     THEN /\ administrator' = r.claim
          /\ claim' = [claim EXCEPT ![r.claim] = "consumed"]
          /\ request' = [request EXCEPT ![k].pc = "claimed"]
          /\ lapses' = IF r.claim \in expired THEN lapses \cup {"late"} ELSE lapses
     ELSE request' = [request EXCEPT ![k] = Idle] /\ UNCHANGED <<administrator, claim, lapses>>
  /\ UNCHANGED <<owner, expired, file, hostVars, sessionVars, faults>>

(* onAdministratorClaimed: renewal stops, if the maintenance is there      *)
(* already, and the file goes.                                             *)
administratorClaimed(k) ==
  LET h == request[k].host IN
  /\ request[k].pc = "claimed"
  /\ IF maintenance[h] = "off" \/ Starting(h)
     THEN UNCHANGED <<active, timer>>
     ELSE active' = [active EXCEPT ![h] = FALSE] /\ timer' = [timer EXCEPT ![h] = "none"]
  /\ request' = [request EXCEPT ![k].pc = "removing"]
  /\ UNCHANGED <<claimVars, file, maintenance, held, started, sessionVars, lapses, faults>>

removeFirstClaimMaterial(k) ==
  /\ request[k].pc = "removing"
  /\ file' = 0
  /\ request' = [request EXCEPT ![k] = Idle]
  /\ UNCHANGED <<claimVars, hostVars, sessionVars, lapses, faults>>

(* A call of the mutation fails, or what follows it, evidence, completion  *)
(* or conversation: the maintenance is not told.                           *)
ClaimFails(k) ==
  /\ request[k].pc \in {"claiming", "claimed"} /\ Fault
  /\ request' = [request EXCEPT ![k] = Idle]
  /\ UNCHANGED <<claimVars, file, hostVars, sessionVars, lapses>>

(***************************************************************************)
(* Sessions                                                                *)
(***************************************************************************)
login(s) ==
  /\ administrator # 0 /\ session[s] = "none"
  /\ session' = [session EXCEPT ![s] = "issued"]
  /\ UNCHANGED <<claimVars, file, hostVars, request, bearer, lapses, faults>>

authenticate(k, s) ==
  /\ bearer[k].pc = "no" /\ session[s] # "none"
  /\ bearer' = [bearer EXCEPT ![k] = [pc |-> "reading", session |-> s, late |-> session[s] = "revoked"]]
  /\ UNCHANGED <<claimVars, file, hostVars, request, session, lapses, faults>>

Authenticated(k) ==
  /\ bearer[k].pc = "reading"
  /\ bearer' = [bearer EXCEPT ![k] =
                  IF session[bearer[k].session] = "revoked" THEN Out ELSE [@ EXCEPT !.pc = "admitted"]]
  /\ UNCHANGED <<claimVars, file, hostVars, request, session, lapses, faults>>

(* An admitted request acts, or is the one that revokes its own session.   *)
logout(k) ==
  /\ bearer[k].pc = "admitted"
  /\ session' \in {session, [session EXCEPT ![bearer[k].session] = "revoked"]}
  /\ bearer' = [bearer EXCEPT ![k] = Out]
  /\ UNCHANGED <<claimVars, file, hostVars, request, lapses, faults>>

Next ==
  \/ \E h \in Hosts :
       \/ startFirstClaimMaintenance(h) \/ renew(h) \/ EnsureReads(h) \/ PassFails(h) \/ Created(h)
       \/ publishClaim(h) \/ removeClaim(h) \/ close(h) \/ Takeover(h)
       \/ \E c \in Claims : createOrReplaceClaim(h, c)
  \/ \E c \in Claims : Expire(c)
  \/ \E k \in Clients :
       \/ \E h \in Hosts : claimFirstAdministrator(k, h)
       \/ runMutationActivity(k) \/ consumeClaimCreateAdministrator(k) \/ administratorClaimed(k)
       \/ removeFirstClaimMaterial(k) \/ ClaimFails(k)
       \/ \E s \in Sessions : authenticate(k, s)
       \/ Authenticated(k) \/ logout(k)
  \/ \E s \in Sessions : login(s)

Spec == Init /\ [][Next]_vars

(***************************************************************************)
(* Properties                                                              *)
(***************************************************************************)
(* MGMT-004, "The first claim is local, expiring, one-shot, and atomically *)
(* consumed": there is one Administrator for good, made with the claim     *)
(* that is current, by a request that looked at the clock when that claim  *)
(* was in time.                                                            *)
ClaimsOnce ==
  administrator' # administrator =>
    /\ administrator = 0 /\ claim[administrator'] = "current"
    /\ \E k \in Clients :
         request[k].pc = "claiming" /\ request[k].claim = administrator' /\ request[k].inTime
OneAdministrator == [][ClaimsOnce]_vars

Settled(h) == Fenced(h) /\ h \in started /\ maintenance[h] = "on" /\ \A k \in Clients : request[k].pc = "no"

(* Without an Administrator the file of a running Host opens the claim the *)
(* database knows, or the Host is going to renew it.                       *)
Claimable ==
  \A h \in Hosts : Settled(h) /\ administrator = 0 =>
    /\ timer[h] # "none"
    /\ file \in Current \/ timer[h] = "retry" \/ held[h] \in expired \/ lapses # {}

(* Once there is an Administrator the file is gone, or a timer is set that *)
(* will remove it, however the end of the claim met its renewal; but where *)
(* a renewal had begun, because the claim expired after the request read   *)
(* the clock, it may write the file of the next claim and set no timer.    *)
ClaimedIsRemoved ==
  \A h \in Hosts : Settled(h) /\ administrator # 0 => file = 0 \/ timer[h] # "none" \/ lapses # {}

(* A request that came after the session was revoked is not admitted.      *)
RevokedStaysOut == \A k \in Clients : bearer[k].pc = "admitted" => ~bearer[k].late

(***************************************************************************)
(* The inductive invariant                                                 *)
(***************************************************************************)
(* A claim anybody knows of was created, and one at most is current.       *)
Known(c) == c # 0 => claim[c] # "none"
ClaimsKnown ==
  /\ Known(file)
  /\ \A h \in Hosts : Known(held[h])
  /\ \A k \in Clients : Known(request[k].claim)
  /\ \A c, d \in Current : c = d

(* A claim that would still create the Administrator and is within reach.  *)
Usable(c) == c \in Current \ expired
Open ==
  \/ Usable(file)
  \/ \E k \in Clients : request[k].pc \in {"hashing", "claiming"} /\ Usable(request[k].claim)

(* What a Host does follows from what it knows: it renews while nobody has *)
(* claimed, and removes once somebody has.                                 *)
Maintained(h) ==
  /\ maintenance[h] \in {"off", "starting"} => h \notin started
  /\ maintenance[h] = "on" => h \in started
  /\ maintenance[h] = "removing" => administrator # 0
  /\ timer[h] # "none" => maintenance[h] = "on" /\ active[h]
  /\ administrator = 0 /\ h \in started => active[h]
  /\ administrator = 0 /\ maintenance[h] = "on" => timer[h] # "none"

Renewing(h) == h \in started /\ maintenance[h] \in {"ensuring", "creating", "created", "publishing"}

(* The Host with the fence has published the claim the database knows, or  *)
(* nobody can use one while it renews it.                                  *)
Published(h) ==
  Fenced(h) /\ administrator = 0 =>
    /\ maintenance[h] \in {"created", "publishing"} => held[h] \in Current
    /\ lapses = {} =>
         /\ timer[h] = "expiry" => file = held[h] /\ held[h] \in Current
         /\ Renewing(h) \/ timer[h] = "retry" => ~Open

(* Once somebody has claimed, the file goes by a request or by the Host.   *)
Removed(h) ==
  Fenced(h) /\ administrator # 0 /\ h \in started /\ lapses = {} =>
    /\ maintenance[h] \in {"on", "ensuring", "removing"}
    /\ \/ file = 0 \/ \E k \in Clients : request[k].pc = "removing"
       \/ maintenance[h] = "removing"
       \/ active[h] /\ (maintenance[h] = "on" => timer[h] # "none")

ClaimedBy(k) == request[k].pc \in {"claimed", "removing"} => administrator # 0

(* A request that is late met its session revoked.                         *)
LateIsOut(k) ==
  /\ bearer[k].pc # "no" => bearer[k].session \in Sessions /\ session[bearer[k].session] # "none"
  /\ bearer[k].pc # "no" /\ bearer[k].late =>
       bearer[k].pc = "reading" /\ session[bearer[k].session] = "revoked"

Inv ==
  /\ TypeOK /\ ClaimsKnown
  /\ \A h \in Hosts : Maintained(h) /\ Published(h) /\ Removed(h)
  /\ \A k \in Clients : ClaimedBy(k) /\ LateIsOut(k)

(* The first claim and the sessions it leads to.                             *)
ClaimIsOneShot == [](TypeOK /\ Claimable /\ ClaimedIsRemoved /\ RevokedStaysOut) /\ OneAdministrator
=============================================================================
