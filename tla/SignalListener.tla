--------------------------- MODULE SignalListener ---------------------------
(***************************************************************************)
(* PostgresSignalService: one LISTEN connection shared by the subscribers, *)
(* rebuilt after a loss, with a rescan of canonical state whenever hints   *)
(* may have been missed.                                                   *)
(*                                                                         *)
(* Attempts to connect are coroutines: one that was abandoned, because its *)
(* epoch has passed, goes on until its next await returns and must not     *)
(* disturb the attempt that replaced it.                                   *)
(***************************************************************************)
EXTENDS Naturals, FiniteSets

CONSTANTS
  Subscribers,
  MaxAttempts,   \* attempts to connect
  MaxFaults      \* lost connections and failing calls

VARIABLES
  sub,           \* subscriber -> "out", "waiting" in subscribe(), or "in"
  awaits,        \* subscriber -> the attempt its subscribe() awaits
  missed,        \* subscribers with a commit they have neither been told of nor scanned for
  attempt,       \* attempt -> where it is, its epoch, who awaits it, whether it reconnects
  last,          \* attempts made
  active,        \* activeSlot, 0 for none
  connecting,    \* connectingSlot
  current,       \* connectPromise
  epoch,         \* connectionEpoch
  timer,         \* whether reconnectTimer is set
  backoff,       \* reconnectAttempt > 0
  closing,
  broken,        \* the active connection is gone and the client does not know it yet
  lapses,        \* "overtaken": an abandoned attempt has taken connectingSlot from another;
                 \* "unarmed": a loss found the timer of an earlier one still set
  faults

slots == <<active, connecting>>
vars == <<sub, awaits, missed, attempt, last, active, connecting, current, epoch, timer,
          backoff, closing, broken, lapses, faults>>

Attempts == 1..MaxAttempts
Unmade == [pc |-> "none", epoch |-> 0, again |-> FALSE, byTimer |-> FALSE]
Running == {"password", "connecting", "listening", "stale"}
Registered == {s \in Subscribers : sub[s] # "out"}
Attempt == [pc : {"none", "active", "closed"} \cup Running, epoch : Nat,
            again : BOOLEAN, byTimer : BOOLEAN]

TypeOK ==
  /\ sub \in [Subscribers -> {"out", "waiting", "in"}]
  /\ awaits \in [Subscribers -> 0..MaxAttempts]
  /\ missed \subseteq Subscribers
  /\ attempt \in [Attempts -> Attempt]
  /\ {last, active, connecting, current} \subseteq 0..MaxAttempts
  /\ epoch \in Nat
  /\ timer \in BOOLEAN /\ backoff \in BOOLEAN /\ closing \in BOOLEAN /\ broken \in BOOLEAN
  /\ lapses \subseteq {"overtaken", "unarmed"}
  /\ faults \in 0..MaxFaults

Init ==
  /\ sub = [s \in Subscribers |-> "out"]
  /\ awaits = [s \in Subscribers |-> 0]
  /\ missed = {}
  /\ attempt = [a \in Attempts |-> Unmade]
  /\ last = 0 /\ active = 0 /\ connecting = 0 /\ current = 0 /\ epoch = 0 /\ faults = 0
  /\ timer = FALSE /\ backoff = FALSE /\ closing = FALSE /\ broken = FALSE /\ lapses = {}

(***************************************************************************)
(* Helpers                                                                 *)
(***************************************************************************)
Fault == faults < MaxFaults /\ faults' = faults + 1
Status(a, pc) == attempt' = [attempt EXCEPT ![a].pc = pc]

(* connectPromise counts only in its own epoch.                            *)
Joinable == current # 0 /\ attempt[current].epoch = epoch
Connect(byTimer) ==
  /\ last < MaxAttempts
  /\ last' = last + 1
  /\ current' = last + 1
  /\ attempt' = [attempt EXCEPT ![last + 1] =
                  [pc |-> "password", epoch |-> epoch, again |-> backoff, byTimer |-> byTimer]]

canActivate(a) ==
  /\ ~closing
  /\ attempt[a].epoch = epoch
  /\ Registered # {}
  /\ connecting = a
  /\ attempt[a].pc # "stale"

(* The promise of an attempt settles: its subscribers go on.  They rescan  *)
(* if a connection is there, or are dropped when it was rejected.          *)
Forget(a) == current' = IF current = a THEN 0 ELSE current
Waiters(a) == {s \in Subscribers : sub[s] = "waiting" /\ awaits[s] = a}
Resolve(a) ==
  /\ Forget(a)
  /\ sub' = [s \in Subscribers |-> IF s \in Waiters(a) THEN "in" ELSE sub[s]]
  /\ UNCHANGED awaits
Reject(a) ==
  /\ Forget(a)
  /\ sub' = [s \in Subscribers |-> IF s \in Waiters(a) THEN "out" ELSE sub[s]]
  /\ UNCHANGED awaits

scheduleReconnect(registered) ==
  IF ~closing /\ registered # {} /\ ~timer
  THEN timer' = TRUE /\ backoff' = TRUE
  ELSE UNCHANGED <<timer, backoff>>

(***************************************************************************)
(* Subscribers                                                             *)
(***************************************************************************)
(* The first look at canonical state follows the subscription; with a      *)
(* connection there it is immediate.                                       *)
subscribe(s) ==
  /\ sub[s] = "out" /\ ~closing
  /\ \/ /\ active # 0
        /\ sub' = [sub EXCEPT ![s] = "in"]
        /\ missed' = missed \ {s}
        /\ UNCHANGED <<awaits, attempt, last, current>>
     \/ /\ active = 0 /\ Joinable
        /\ sub' = [sub EXCEPT ![s] = "waiting"]
        /\ awaits' = [awaits EXCEPT ![s] = current]
        /\ missed' = missed \cup {s}
        /\ UNCHANGED <<attempt, last, current>>
     \/ /\ active = 0 /\ ~Joinable
        /\ Connect(FALSE)
        /\ sub' = [sub EXCEPT ![s] = "waiting"]
        /\ awaits' = [awaits EXCEPT ![s] = last + 1]
        /\ missed' = missed \cup {s}
  /\ UNCHANGED <<slots, epoch, timer, backoff, closing, broken, lapses, faults>>

(* closeClient: a new epoch, no timer, both slots disposed.                *)
CloseClient ==
  /\ epoch' = epoch + 1
  /\ timer' = FALSE
  /\ active' = 0 /\ connecting' = 0 /\ broken' = FALSE
  /\ attempt' = [a \in Attempts |->
       [attempt[a] EXCEPT !.pc =
          IF a # 0 /\ a = active THEN "closed"
          ELSE IF a = connecting /\ @ \in Running THEN "stale" ELSE @]]

unsubscribe(s) ==
  /\ sub[s] = "in"
  /\ sub' = [sub EXCEPT ![s] = "out"]
  /\ IF Registered = {s}
     THEN CloseClient
     ELSE UNCHANGED <<epoch, timer, active, connecting, broken, attempt>>
  /\ UNCHANGED <<awaits, missed, last, current, backoff, closing, lapses, faults>>

(* The Host lease is gone.                                                 *)
close ==
  /\ ~closing
  /\ closing' = TRUE
  /\ CloseClient
  /\ UNCHANGED <<sub, awaits, missed, last, current, backoff, lapses, faults>>

(***************************************************************************)
(* An attempt                                                              *)
(***************************************************************************)
(* disposeSlot and return: the promise resolves without a connection.      *)
Abandon(a) ==
  /\ Status(a, "closed")
  /\ Resolve(a)

(* The client is created; its slot becomes the connecting one, whatever    *)
(* was there.                                                              *)
Created(a) ==
  /\ attempt[a].pc = "password"
  /\ connecting' = a
  /\ lapses' = IF connecting # 0 /\ attempt[a].epoch # epoch THEN lapses \cup {"overtaken"} ELSE lapses
  /\ \/ /\ ~closing /\ attempt[a].epoch = epoch /\ Registered # {}
        /\ Status(a, "connecting")
        /\ UNCHANGED <<sub, awaits, current>>
     \/ /\ closing \/ attempt[a].epoch # epoch \/ Registered = {}
        /\ Abandon(a)
  /\ UNCHANGED <<missed, last, active, epoch, timer, backoff, closing, broken, faults>>

Connected(a) ==
  /\ attempt[a].pc = "connecting"
  /\ \/ canActivate(a) /\ Status(a, "listening") /\ UNCHANGED <<sub, awaits, current>>
     \/ ~canActivate(a) /\ Abandon(a)
  /\ UNCHANGED <<missed, last, slots, epoch, timer, backoff, closing, broken, lapses, faults>>

(* LISTEN is in force.  A reconnection rescans every subscriber, a first   *)
(* connection those who waited for it.                                     *)
Listening(a) ==
  /\ attempt[a].pc = "listening" /\ canActivate(a)
  /\ connecting' = 0
  /\ active' = a
  /\ Status(a, "active")
  /\ Resolve(a)
  /\ backoff' = FALSE
  /\ missed' = IF attempt[a].again THEN {} ELSE missed \ Waiters(a)
  /\ UNCHANGED <<last, epoch, timer, closing, broken, lapses, faults>>

ListeningLate(a) ==
  /\ attempt[a].pc \in {"listening", "stale"} /\ ~canActivate(a)
  /\ Abandon(a)
  /\ UNCHANGED <<missed, last, slots, epoch, timer, backoff, closing, broken, lapses, faults>>

(* An await of the attempt rejects.  The subscriber that asked hears of    *)
(* it; the timer tries again.                                              *)
AttemptFails(a) ==
  /\ attempt[a].pc \in Running
  /\ IF attempt[a].pc = "stale" THEN UNCHANGED faults ELSE Fault
  /\ Status(a, "closed")
  /\ connecting' = IF connecting = a THEN 0 ELSE connecting
  /\ Reject(a)
  /\ IF attempt[a].byTimer
     THEN scheduleReconnect(Registered \ Waiters(a))
     ELSE UNCHANGED <<timer, backoff>>
  /\ UNCHANGED <<missed, last, active, epoch, closing, broken, lapses>>

(***************************************************************************)
(* Losses and reconnection                                                 *)
(***************************************************************************)
Breaks ==
  /\ active # 0 /\ ~broken /\ Fault
  /\ broken' = TRUE
  /\ UNCHANGED <<sub, awaits, missed, attempt, last, slots, current, epoch, timer, backoff,
                 closing, lapses>>

(* Mutant: the loss of a connection leaves reconnection to the next        *)
(* subscriber.                                                             *)
FailureUnscheduled(a) ==
  /\ ~closing
  /\ \/ a = active /\ broken /\ Status(a, "closed") /\ UNCHANGED faults
     \/ a = connecting /\ attempt[a].pc \in {"connecting", "listening"} /\ Fault /\ Status(a, "stale")
  /\ active' = IF a = active THEN 0 ELSE active
  /\ connecting' = IF a = connecting THEN 0 ELSE connecting
  /\ broken' = IF a = active THEN FALSE ELSE broken
  /\ epoch' = epoch + 1
  /\ UNCHANGED <<sub, awaits, missed, last, current, closing, lapses, timer, backoff>>

(* handleClientFailure: error or end of the active or connecting client.   *)
Failure(a) ==
  /\ ~closing
  /\ \/ a = active /\ broken /\ Status(a, "closed") /\ UNCHANGED faults
     \/ a = connecting /\ attempt[a].pc \in {"connecting", "listening"} /\ Fault /\ Status(a, "stale")
  /\ active' = IF a = active THEN 0 ELSE active
  /\ connecting' = IF a = connecting THEN 0 ELSE connecting
  /\ broken' = IF a = active THEN FALSE ELSE broken
  /\ epoch' = epoch + 1
  /\ scheduleReconnect(Registered)
  /\ lapses' = IF timer /\ ~backoff THEN lapses \cup {"unarmed"} ELSE lapses
  /\ UNCHANGED <<sub, awaits, missed, last, current, closing>>

TimerFires ==
  /\ timer /\ timer' = FALSE
  /\ IF closing \/ Registered = {} \/ active # 0
     THEN UNCHANGED <<attempt, last, current>>
     ELSE IF Joinable
     THEN attempt' = [attempt EXCEPT ![current].byTimer = TRUE] /\ UNCHANGED <<last, current>>
     ELSE Connect(TRUE)
  /\ UNCHANGED <<sub, awaits, missed, slots, epoch, backoff, closing, broken, lapses, faults>>

(* A mutation commits together with its hint, which only an active,        *)
(* unbroken connection delivers; a subscriber that hears it scans.         *)
Commit ==
  /\ active = 0 \/ broken
  /\ missed' = missed \cup Registered
  /\ missed' # missed
  /\ UNCHANGED <<sub, awaits, attempt, last, slots, current, epoch, timer, backoff, closing,
                 broken, lapses, faults>>

Next ==
  \/ \E s \in Subscribers : subscribe(s) \/ unsubscribe(s)
  \/ \E a \in Attempts :
       \/ Created(a) \/ Connected(a) \/ Listening(a) \/ ListeningLate(a)
       \/ AttemptFails(a) \/ Failure(a)
  \/ Breaks \/ TimerFires \/ Commit \/ close

Spec == Init /\ [][Next]_vars

(***************************************************************************)
(* Properties                                                              *)
(***************************************************************************)
Trying == \E a \in Attempts : attempt[a].pc \in Running /\ attempt[a].epoch = epoch

(* As long as somebody is subscribed there is a connection, an attempt of  *)
(* the current epoch, or a timer for the next one, unless an abandoned     *)
(* attempt has taken the slot of its successor.  Without that exception    *)
(* SIG-003, "A listener MUST [...] re-LISTEN plus rescan after reconnect   *)
(* or listener loss", does not hold of this code.                          *)
KeepsListening ==
  Registered # {} /\ ~closing => active # 0 \/ Trying \/ timer \/ "overtaken" \in lapses

(* A subscriber on a connection that works has nothing left to discover:   *)
(* what was committed while nobody listened has been scanned for.  Besides *)
(* an overtaken attempt, a loss that comes while the timer of an earlier   *)
(* one is still set keeps this from being so: it does not count as the     *)
(* beginning of a reconnection.                                            *)
NothingMissed ==
  active # 0 /\ ~broken /\ lapses = {} => \A s \in missed : sub[s] = "out"

(***************************************************************************)
(* The inductive invariant                                                 *)
(***************************************************************************)
Ongoing(a) == attempt[a].pc \in Running /\ attempt[a].epoch = epoch

(* The attempts made are the first ones; none is ahead of its time, and a  *)
(* client that failed or was disposed belongs to an epoch that has passed. *)
Made(a) ==
  /\ attempt[a].pc = "none" <=> a > last
  /\ attempt[a].epoch <= epoch
  /\ attempt[a].pc = "stale" => attempt[a].epoch < epoch
AwaitsMade(s) == awaits[s] <= last

(* What the references stand for.                                          *)
References ==
  /\ active # 0 => attempt[active].pc = "active"
  /\ current # 0 => attempt[current].pc \in Running

(* There is one attempt of an epoch, which whoever comes joins; it has the *)
(* slot unless it was overtaken.  If the timer did not make it, the timer  *)
(* is set or everybody is told when it fails; if nothing was lost before   *)
(* it, everybody waits for it.                                             *)
Only(a) ==
  Ongoing(a) =>
    /\ current = a /\ active = 0
    /\ attempt[a].pc \in {"connecting", "listening"} => connecting = a \/ "overtaken" \in lapses
    /\ attempt[a].byTimer \/ timer \/ closing \/ "overtaken" \in lapses \/ Registered \subseteq Waiters(a)
    /\ attempt[a].again \/ closing \/ lapses # {} \/ Registered \subseteq Waiters(a)

(* A timer that is set belongs to a loss, or a connection came before it.  *)
Armed == timer => backoff \/ active # 0 \/ "unarmed" \in lapses

Inv ==
  /\ TypeOK /\ References /\ Armed /\ KeepsListening /\ NothingMissed
  /\ \A a \in Attempts : Made(a) /\ Only(a)
  /\ \A s \in Subscribers : AwaitsMade(s)

(* What a subscriber may rely on, with the exceptions stated above.          *)
ListensOn == TypeOK /\ KeepsListening /\ NothingMissed
=============================================================================
