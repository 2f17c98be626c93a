------------------------ MODULE ServiceScenes_proofs ------------------------
(***************************************************************************)
(* Proofs, for any number of subscribers, rows, routes, activations, plans,*)
(* messages, calls and faults, that each component of ServiceScenes, but the*)
(* Gateway (Components_proofs), keeps its inductive invariant, which stands*)
(* beside its properties, and that the properties follow from it.          *)
(***************************************************************************)
EXTENDS ServiceScenes, SequenceTheorems, WellFoundedInduction, FiniteSetTheorems, TLAPS

------------------------------------------------------------------------------
(* SignalListener: v1 sub, v2 awaits, v3 missed, v4 attempt, v5 last, v6    *)
(* active, v7 connecting, v8 current, v9 epoch, v10 timer, v11 backoff, v12 *)
(* closing, v13 broken, v14 lapses, v15 faults.                             *)

(* What an attempt can be about.                                            *)
LEMMA SignalStatuses == {"none", "active", "closed"} \cup Signal!Running =
                    {"none", "active", "closed", "password", "connecting", "listening", "stale"}
  BY DEF Signal!Running

(* Of an attempt whose status changes the rest stays.                       *)
LEMMA SignalStatusIs ==
    ASSUME v4 \in [Signal!Attempts -> Signal!Attempt], NEW a \in Signal!Attempts,
           NEW pc \in {"none", "active", "closed", "password", "connecting", "listening", "stale"},
           Signal!Status(a, pc)
    PROVE  /\ v4' \in [Signal!Attempts -> Signal!Attempt]
           /\ v4'[a].pc = pc /\ v4'[a].epoch = v4[a].epoch
           /\ v4'[a].again = v4[a].again /\ v4'[a].byTimer = v4[a].byTimer
           /\ \A e \in Signal!Attempts \ {a} : v4'[e] = v4[e]
  BY SignalStatuses DEF Signal!Status, Signal!Attempt

(* A new attempt is the next one.                                           *)
LEMMA SignalConnectIs ==
    ASSUME Signal!TypeOK, NEW byTimer \in BOOLEAN, Signal!Connect(byTimer)
    PROVE  /\ v4' \in [Signal!Attempts -> Signal!Attempt]
           /\ v5' = v5 + 1 /\ v8' = v5 + 1 /\ v5 + 1 \in Signal!Attempts
           /\ v4'[v5 + 1].pc = "password" /\ v4'[v5 + 1].epoch = v9
           /\ v4'[v5 + 1].again = v11 /\ v4'[v5 + 1].byTimer = byTimer
           /\ \A e \in Signal!Attempts \ {v5 + 1} : v4'[e] = v4[e]
  <1>1. v5 + 1 \in Signal!Attempts
    BY SignalAssumption DEF Signal!TypeOK, Signal!Connect, Signal!Attempts
  <1>2. [pc |-> "password", epoch |-> v9, again |-> v11, byTimer |-> byTimer] \in Signal!Attempt
    BY SignalStatuses DEF Signal!TypeOK, Signal!Attempt
  <1> QED BY <1>1, <1>2 DEF Signal!TypeOK, Signal!Connect

(* A client that is closed takes the attempt in the slot with it.           *)
LEMMA SignalCloseIs ==
    ASSUME Signal!TypeOK, Signal!References, Signal!CloseClient
    PROVE  /\ v4' \in [Signal!Attempts -> Signal!Attempt]
           /\ v9' = v9 + 1 /\ v6' = 0 /\ v7' = 0 /\ ~v10' /\ ~v13'
           /\ \A e \in Signal!Attempts :
                /\ v4'[e].epoch = v4[e].epoch
                /\ v4'[e].pc = "none" <=> v4[e].pc = "none"
                /\ v4[e].pc \in Signal!Running /\ e # v6 => v4'[e].pc \in Signal!Running
  <1>1. \A e \in Signal!Attempts : v4[e] \in Signal!Attempt
    BY DEF Signal!TypeOK
  <1>2. \A e \in Signal!Attempts : e = v6 => v4[e].pc = "active"
    BY DEF Signal!References, Signal!Attempts
  <1>3. ASSUME NEW e \in Signal!Attempts
        PROVE  /\ v4'[e] \in Signal!Attempt
               /\ v4'[e].epoch = v4[e].epoch
               /\ v4'[e].pc = "none" <=> v4[e].pc = "none"
               /\ v4[e].pc \in Signal!Running /\ e # v6 => v4'[e].pc \in Signal!Running
    BY <1>1, <1>2, SignalStatuses DEF Signal!CloseClient, Signal!Attempt, Signal!Running
  <1> QED BY <1>1, <1>3 DEF Signal!CloseClient

(* Who waited for an attempt that settles goes on; nobody else does.        *)
LEMMA SignalSettlesIs ==
    ASSUME Signal!TypeOK, NEW a \in Signal!Attempts, Signal!Resolve(a) \/ Signal!Reject(a)
    PROVE  /\ v1' \in [SignalSubscribers -> {"out", "waiting", "in"}] /\ v2' = v2
           /\ v8' \in 0..MaxAttempts
           /\ v8 = a => v8' = 0
           /\ v8 # a => v8' = v8
           /\ \A s \in SignalSubscribers :
                /\ v1[s] = "out" => v1'[s] = "out"
                /\ s \notin Signal!Waiters(a) => v1'[s] = v1[s]
                /\ s \in Signal!Waiters(a) => v1'[s] # "waiting" /\ (Signal!Reject(a) => v1'[s] = "out")
  BY SignalAssumption DEF Signal!TypeOK, Signal!Resolve, Signal!Reject, Signal!Forget, Signal!Waiters

(* Nobody is subscribed.                                                    *)
LEMMA SignalInitInv ==
    ASSUME Signal!Init
    PROVE  Signal!Inv
  <1>1. Signal!TypeOK
    <2>1. v4 \in [Signal!Attempts -> Signal!Attempt]
      BY SignalStatuses DEF Signal!Init, Signal!Unmade, Signal!Attempt
    <2>2. v10 \in BOOLEAN /\ v11 \in BOOLEAN /\ v12 \in BOOLEAN /\ v13 \in BOOLEAN
      BY Zenon DEF Signal!Init
    <2>3. /\ v1 \in [SignalSubscribers -> {"out", "waiting", "in"}] /\ v3 \subseteq SignalSubscribers
          /\ v2 \in [SignalSubscribers -> 0..MaxAttempts]
          /\ {v5, v6, v7, v8} \subseteq 0..MaxAttempts /\ v9 \in Nat
          /\ v14 \subseteq {"overtaken", "unarmed"} /\ v15 \in 0..SignalFaults
      BY SignalAssumption DEF Signal!Init
    <2> QED BY <2>1, <2>2, <2>3, Zenon DEF Signal!TypeOK
  <1>2. Signal!References /\ Signal!Armed /\ Signal!NothingMissed /\ Signal!KeepsListening
    BY DEF Signal!Init, Signal!References, Signal!Armed, Signal!NothingMissed, Signal!KeepsListening,
       Signal!Registered
  <1>3. ASSUME NEW a \in Signal!Attempts PROVE Signal!Made(a) /\ Signal!Only(a)
    BY SignalAssumption DEF Signal!Init, Signal!Made, Signal!Only, Signal!Ongoing, Signal!Attempts,
       Signal!Unmade, Signal!Running
  <1>4. ASSUME NEW s \in SignalSubscribers PROVE Signal!AwaitsMade(s)
    BY DEF Signal!Init, Signal!AwaitsMade
  <1> QED BY <1>1, <1>2, <1>3, <1>4 DEF Signal!Inv

(* subscribe                                                                *)
LEMMA SignalSubscribeKeeps ==
    ASSUME Signal!Inv, NEW s \in SignalSubscribers, Signal!subscribe(s)
    PROVE  Signal!Inv'
  <1>0. /\ Signal!TypeOK /\ \A e \in Signal!Attempts : e \in Nat \ {0} /\ e <= MaxAttempts /\
             v4[e] \in Signal!Attempt
        /\ v4 \in [Signal!Attempts -> Signal!Attempt]
    BY SignalAssumption DEF Signal!Inv, Signal!Attempts, Signal!TypeOK
  <1>1. /\ v1[s] = "out" /\ ~v12
        /\ UNCHANGED <<v6, v7, v9, v10, v11, v12, v13, v14, v15>>
    BY DEF Signal!subscribe, Signal!slots
  <1>10. CASE v6 # 0
    <2>1. /\ v1' = [v1 EXCEPT ![s] = "in"] /\ v3' = v3 \ {s}
          /\ UNCHANGED <<v2, v4, v5, v8>>
      BY <1>10 DEF Signal!subscribe
    <2>20. Signal!TypeOK'
      <3>1. v10' \in BOOLEAN /\ v11' \in BOOLEAN /\ v12' \in BOOLEAN /\ v13' \in BOOLEAN
        BY <1>0, <1>1, <1>10, <2>1, Zenon DEF Signal!TypeOK
      <3>2. v4' \in [Signal!Attempts -> Signal!Attempt]
        BY <1>0, <1>1, <1>10, <2>1, SignalStatuses DEF Signal!TypeOK, Signal!Attempt
      <3>3. /\ v1' \in [SignalSubscribers -> {"out", "waiting", "in"}] /\ v3' \subseteq SignalSubscribers
            /\ v2' \in [SignalSubscribers -> 0..MaxAttempts]
        BY <1>0, <1>1, <1>10, <2>1, SignalAssumption DEF Signal!TypeOK, Signal!Attempts
      <3>4. /\ {v5', v6', v7', v8'} \subseteq 0..MaxAttempts /\ v9' \in Nat
            /\ v14' \subseteq {"overtaken", "unarmed"} /\ v15' \in 0..SignalFaults
        BY <1>0, <1>1, <1>10, <2>1, SignalAssumption DEF Signal!TypeOK, Signal!Attempts
      <3> QED BY <3>1, <3>2, <3>3, <3>4, Zenon DEF Signal!TypeOK
    <2>21. Signal!References'
      BY <1>0, <1>1, <1>10, <2>1, SignalStatuses DEF Signal!Inv, Signal!TypeOK, Signal!Attempt,
         Signal!Attempts, Signal!Running, Signal!Made, Signal!Only, Signal!Ongoing, Signal!References
    <2>22. Signal!Armed'
      BY <1>0, <1>1, <1>10, <2>1 DEF Signal!Inv, Signal!Armed
    <2>23. ASSUME NEW e \in Signal!Attempts PROVE Signal!Made(e)'
      BY <1>0, <1>1, <1>10, <2>1, SignalStatuses DEF Signal!Inv, Signal!TypeOK, Signal!Attempt,
         Signal!Made, Signal!References, Signal!Running
    <2>24. ASSUME NEW e \in Signal!Attempts PROVE Signal!Only(e)'
      BY <1>0, <1>1, <1>10, <2>1, SignalStatuses DEF Signal!Inv, Signal!TypeOK, Signal!Attempt,
         Signal!Made, Signal!Only, Signal!Ongoing, Signal!Running, Signal!References, Signal!Registered,
         Signal!Waiters, Signal!AwaitsMade
    <2>25. Signal!KeepsListening'
      BY <1>0, <1>1, <1>10, <2>1, SignalStatuses DEF Signal!Inv, Signal!TypeOK, Signal!Attempt,
         Signal!Made, Signal!Only, Signal!Ongoing, Signal!Running, Signal!References,
         Signal!KeepsListening, Signal!Trying, Signal!Registered, Signal!Waiters
    <2>26. Signal!NothingMissed'
      BY <1>0, <1>1, <1>10, <2>1 DEF Signal!Inv, Signal!NothingMissed, Signal!Only, Signal!Ongoing,
         Signal!Running, Signal!Registered, Signal!Waiters
    <2>27. ASSUME NEW x \in SignalSubscribers PROVE Signal!AwaitsMade(x)'
      BY <1>0, <1>1, <1>10, <2>1 DEF Signal!Inv, Signal!AwaitsMade, Signal!Attempts
    <2> QED BY <2>20, <2>21, <2>22, <2>23, <2>24, <2>25, <2>26, <2>27 DEF Signal!Inv
  <1>11. CASE v6 = 0 /\ Signal!Joinable
    <2>1. /\ v1' = [v1 EXCEPT ![s] = "waiting"] /\ v2' = [v2 EXCEPT ![s] = v8]
          /\ v3' = v3 \cup {s} /\ UNCHANGED <<v4, v5, v8>>
      BY <1>11 DEF Signal!subscribe
    <2>2. v8 \in Signal!Attempts /\ v4[v8].epoch = v9 /\ v8 <= v5
      BY <1>0, <1>11 DEF Signal!Joinable, Signal!Inv, Signal!TypeOK, Signal!Attempts, Signal!Made,
         Signal!References, Signal!Running
    <2>20. Signal!TypeOK'
      <3>1. v10' \in BOOLEAN /\ v11' \in BOOLEAN /\ v12' \in BOOLEAN /\ v13' \in BOOLEAN
        BY <1>0, <1>1, <1>11, <2>1, <2>2, Zenon DEF Signal!TypeOK
      <3>2. v4' \in [Signal!Attempts -> Signal!Attempt]
        BY <1>0, <1>1, <1>11, <2>1, <2>2, SignalStatuses DEF Signal!TypeOK, Signal!Attempt
      <3>3. /\ v1' \in [SignalSubscribers -> {"out", "waiting", "in"}] /\ v3' \subseteq SignalSubscribers
            /\ v2' \in [SignalSubscribers -> 0..MaxAttempts]
        BY <1>0, <1>1, <1>11, <2>1, <2>2, SignalAssumption DEF Signal!TypeOK, Signal!Attempts
      <3>4. /\ {v5', v6', v7', v8'} \subseteq 0..MaxAttempts /\ v9' \in Nat
            /\ v14' \subseteq {"overtaken", "unarmed"} /\ v15' \in 0..SignalFaults
        BY <1>0, <1>1, <1>11, <2>1, <2>2, SignalAssumption DEF Signal!TypeOK, Signal!Attempts
      <3> QED BY <3>1, <3>2, <3>3, <3>4, Zenon DEF Signal!TypeOK
    <2>21. Signal!References'
      BY <1>0, <1>1, <1>11, <2>1, <2>2, SignalStatuses DEF Signal!Inv, Signal!TypeOK, Signal!Attempt,
         Signal!Attempts, Signal!Running, Signal!Made, Signal!Only, Signal!Ongoing, Signal!References
    <2>22. Signal!Armed'
      BY <1>0, <1>1, <1>11, <2>1, <2>2 DEF Signal!Inv, Signal!Armed
    <2>23. ASSUME NEW e \in Signal!Attempts PROVE Signal!Made(e)'
      BY <1>0, <1>1, <1>11, <2>1, <2>2, SignalStatuses DEF Signal!Inv, Signal!TypeOK, Signal!Attempt,
         Signal!Made, Signal!References, Signal!Running
    <2>24. ASSUME NEW e \in Signal!Attempts PROVE Signal!Only(e)'
      BY <1>0, <1>1, <1>11, <2>1, <2>2, SignalStatuses DEF Signal!Inv, Signal!TypeOK, Signal!Attempt,
         Signal!Made, Signal!Only, Signal!Ongoing, Signal!Running, Signal!References, Signal!Registered,
         Signal!Waiters, Signal!AwaitsMade
    <2>25. Signal!KeepsListening'
      BY <1>0, <1>1, <1>11, <2>1, <2>2, SignalStatuses DEF Signal!Inv, Signal!TypeOK, Signal!Attempt,
         Signal!Made, Signal!Only, Signal!Ongoing, Signal!Running, Signal!References,
         Signal!KeepsListening, Signal!Trying, Signal!Registered, Signal!Waiters
    <2>26. Signal!NothingMissed'
      BY <1>0, <1>1, <1>11, <2>1, <2>2 DEF Signal!Inv, Signal!NothingMissed, Signal!Only, Signal!Ongoing,
         Signal!Running, Signal!Registered, Signal!Waiters
    <2>27. ASSUME NEW x \in SignalSubscribers PROVE Signal!AwaitsMade(x)'
      BY <1>0, <1>1, <1>11, <2>1, <2>2 DEF Signal!Inv, Signal!AwaitsMade, Signal!Attempts
    <2> QED BY <2>20, <2>21, <2>22, <2>23, <2>24, <2>25, <2>26, <2>27 DEF Signal!Inv
  <1>12. CASE v6 = 0 /\ ~Signal!Joinable
    <2>1. /\ v1' = [v1 EXCEPT ![s] = "waiting"] /\ v2' = [v2 EXCEPT ![s] = v5 + 1]
          /\ v3' = v3 \cup {s} /\ Signal!Connect(FALSE)
      BY <1>12 DEF Signal!subscribe
    <2>2. /\ v4' \in [Signal!Attempts -> Signal!Attempt]
             /\ v5' = v5 + 1 /\ v8' = v5 + 1 /\ v5 + 1 \in Signal!Attempts
             /\ v4'[v5 + 1].pc = "password" /\ v4'[v5 + 1].epoch = v9
             /\ v4'[v5 + 1].again = v11 /\ v4'[v5 + 1].byTimer = FALSE
             /\ \A e \in Signal!Attempts \ {v5 + 1} : v4'[e] = v4[e]
      BY <1>0, <2>1, SignalConnectIs
    <2>3. \A e \in Signal!Attempts : ~Signal!Ongoing(e)
      BY <1>0, <1>12 DEF Signal!Inv, Signal!Only, Signal!Ongoing, Signal!Joinable
    <2>4. Signal!Registered = {} \/ v10 \/ "overtaken" \in v14
      BY <1>1, <1>12, <2>3 DEF Signal!Inv, Signal!KeepsListening, Signal!Trying, Signal!Ongoing
    <2>5. /\ Signal!Registered' = Signal!Registered \cup {s} /\ v1'[s] = "waiting" /\ v2'[s] = v5 + 1
          /\ \A x \in SignalSubscribers \ {s} : v2'[x] = v2[x]
      BY <1>0, <1>1, <2>1 DEF Signal!TypeOK, Signal!Registered
    <2>6. ASSUME NEW e \in Signal!Attempts, Signal!Ongoing(e)' PROVE e = v5 + 1
      BY <1>1, <2>2, <2>3, <2>6 DEF Signal!Ongoing
    <2>7. v4'[v5 + 1].pc \in Signal!Running /\ v4'[v5 + 1].epoch = v9'
      BY <1>1, <2>2 DEF Signal!Running
    <2>8. v5 \in Nat /\ v9 \in Nat /\ \A e \in Signal!Attempts : e <= v5 \/ e > v5
      BY <1>0, SignalAssumption DEF Signal!TypeOK, Signal!Attempts
    <2>20. Signal!TypeOK'
      <3>1. v10' \in BOOLEAN /\ v11' \in BOOLEAN /\ v12' \in BOOLEAN /\ v13' \in BOOLEAN
        BY <1>0, <1>1, <1>12, <2>1, <2>2, <2>3, <2>4, <2>5, <2>6, <2>7, <2>8, Zenon DEF Signal!TypeOK
      <3>2. v4' \in [Signal!Attempts -> Signal!Attempt]
        BY <1>0, <1>1, <1>12, <2>1, <2>2, <2>3, <2>4, <2>5, <2>6, <2>7, <2>8, SignalStatuses DEF
           Signal!TypeOK, Signal!Attempt
      <3>3. /\ v1' \in [SignalSubscribers -> {"out", "waiting", "in"}] /\ v3' \subseteq SignalSubscribers
            /\ v2' \in [SignalSubscribers -> 0..MaxAttempts]
        BY <1>0, <1>1, <1>12, <2>1, <2>2, <2>3, <2>4, <2>5, <2>6, <2>7, <2>8, SignalAssumption DEF
           Signal!TypeOK, Signal!Attempts
      <3>4. /\ {v5', v6', v7', v8'} \subseteq 0..MaxAttempts /\ v9' \in Nat
            /\ v14' \subseteq {"overtaken", "unarmed"} /\ v15' \in 0..SignalFaults
        BY <1>0, <1>1, <1>12, <2>1, <2>2, <2>3, <2>4, <2>5, <2>6, <2>7, <2>8, SignalAssumption DEF
           Signal!TypeOK, Signal!Attempts
      <3> QED BY <3>1, <3>2, <3>3, <3>4, Zenon DEF Signal!TypeOK
    <2>21. Signal!References'
      BY <1>0, <1>1, <1>12, <2>1, <2>2, <2>3, <2>4, <2>5, <2>6, <2>7, <2>8, SignalStatuses DEF Signal!Inv,
         Signal!TypeOK, Signal!Attempt, Signal!Attempts, Signal!Running, Signal!Made, Signal!Only,
         Signal!Ongoing, Signal!References
    <2>22. Signal!Armed'
      BY <1>0, <1>1, <1>12, <2>1, <2>2, <2>3, <2>4, <2>5, <2>6, <2>7, <2>8 DEF Signal!Inv, Signal!Armed
    <2>23. ASSUME NEW e \in Signal!Attempts PROVE Signal!Made(e)'
      <3>1. CASE e = v5 + 1
        BY <1>0, <1>1, <2>2, <2>8, <3>1 DEF Signal!Made
      <3>2. CASE e # v5 + 1
        <4>1. v4'[e] = v4[e] /\ Signal!Made(e) /\ (e > v5 <=> e > v5 + 1)
          BY <1>0, <2>2, <2>8, <3>2 DEF Signal!Inv
        <4> QED BY <1>1, <2>2, <4>1 DEF Signal!Made
      <3> QED BY <3>1, <3>2
    <2>24. ASSUME NEW e \in Signal!Attempts PROVE Signal!Only(e)'
      <3>1. Signal!Ongoing(e)' => e = v5 + 1
        BY <2>6, Zenon
      <3>2. v11 \/ v14 # {} \/ Signal!Registered = {}
        BY <1>12, <2>4 DEF Signal!Inv, Signal!Armed
      <3>3. Signal!Registered = {} => \A x \in Signal!Registered' : x = s /\ v1'[x] = "waiting" /\
              v2'[x] = v5 + 1
        BY <2>5
      <3>4. Signal!Registered' \subseteq SignalSubscribers
        BY DEF Signal!Registered
      <3> QED BY <1>0, <1>1, <1>12, <2>2, <2>4, <3>1, <3>2, <3>3, <3>4 DEF Signal!Only, Signal!Waiters
    <2>25. Signal!KeepsListening'
      BY <2>2, <2>7 DEF Signal!KeepsListening, Signal!Trying, Signal!Ongoing
    <2>26. Signal!NothingMissed'
      BY <1>1, <1>12 DEF Signal!NothingMissed
    <2>27. ASSUME NEW x \in SignalSubscribers PROVE Signal!AwaitsMade(x)'
      <3>1. v2'[x] \in {v2[x], v5 + 1} /\ v2[x] <= v5 /\ v2[x] \in Nat
        BY <1>0, <1>1, <2>5 DEF Signal!Inv, Signal!TypeOK, Signal!AwaitsMade
      <3> QED BY <2>2, <2>8, <3>1 DEF Signal!AwaitsMade
    <2> QED BY <2>20, <2>21, <2>22, <2>23, <2>24, <2>25, <2>26, <2>27 DEF Signal!Inv
  <1> QED BY <1>1, <1>10, <1>11, <1>12 DEF Signal!subscribe

(* unsubscribe: the last one closes the client.                             *)
LEMMA SignalUnsubscribeKeeps ==
    ASSUME Signal!Inv, NEW s \in SignalSubscribers, Signal!unsubscribe(s)
    PROVE  Signal!Inv'
  <1>0. /\ Signal!TypeOK /\ \A e \in Signal!Attempts : e \in Nat \ {0} /\ e <= MaxAttempts /\
             v4[e] \in Signal!Attempt
        /\ v4 \in [Signal!Attempts -> Signal!Attempt]
    BY SignalAssumption DEF Signal!Inv, Signal!Attempts, Signal!TypeOK
  <1>1. Signal!CloseClient => /\ v4' \in [Signal!Attempts -> Signal!Attempt]
           /\ v9' = v9 + 1 /\ v6' = 0 /\ v7' = 0 /\ ~v10' /\ ~v13'
           /\ \A e \in Signal!Attempts :
                /\ v4'[e].epoch = v4[e].epoch
                /\ v4'[e].pc = "none" <=> v4[e].pc = "none"
                /\ v4[e].pc \in Signal!Running /\ e # v6 => v4'[e].pc \in Signal!Running
    BY <1>0, SignalCloseIs DEF Signal!Inv
  <1>20. Signal!TypeOK'
    <2>1. v10' \in BOOLEAN /\ v11' \in BOOLEAN /\ v12' \in BOOLEAN /\ v13' \in BOOLEAN
      BY <1>0, <1>1, Zenon DEF Signal!TypeOK, Signal!CloseClient, Signal!unsubscribe, Signal!slots
    <2>2. v4' \in [Signal!Attempts -> Signal!Attempt]
      BY <1>0, <1>1, SignalStatuses DEF Signal!TypeOK, Signal!Attempt, Signal!unsubscribe, Signal!slots
    <2>3. /\ v1' \in [SignalSubscribers -> {"out", "waiting", "in"}] /\ v3' \subseteq SignalSubscribers
          /\ v2' \in [SignalSubscribers -> 0..MaxAttempts]
      BY <1>0, <1>1, SignalAssumption DEF Signal!TypeOK, Signal!Attempts, Signal!unsubscribe, Signal!slots
    <2>4. /\ {v5', v6', v7', v8'} \subseteq 0..MaxAttempts /\ v9' \in Nat
          /\ v14' \subseteq {"overtaken", "unarmed"} /\ v15' \in 0..SignalFaults
      BY <1>0, <1>1, SignalAssumption DEF Signal!TypeOK, Signal!Attempts, Signal!unsubscribe, Signal!slots
    <2> QED BY <2>1, <2>2, <2>3, <2>4, Zenon DEF Signal!TypeOK

  <1>21. Signal!References'
    <2>1. CASE Signal!CloseClient
      <3>1. v8' = v8 /\ v6' = 0 /\ (v8 # 0 => v8 \in Signal!Attempts)
        BY <1>0, <1>1, <2>1 DEF Signal!unsubscribe, Signal!TypeOK, Signal!Attempts
      <3>2. v8 # 0 => v8 # v6
        BY <1>0, <3>1 DEF Signal!Inv, Signal!References, Signal!Running
      <3> QED BY <1>1, <2>1, <3>1, <3>2 DEF Signal!Inv, Signal!References
    <2>2. CASE UNCHANGED <<v9, v10, v6, v7, v13, v4>>
      BY <2>2 DEF Signal!unsubscribe, Signal!Inv, Signal!References
    <2> QED BY <2>1, <2>2 DEF Signal!unsubscribe
  <1>22. Signal!Armed'
    BY <1>0, <1>1, SignalStatuses DEF Signal!Inv, Signal!TypeOK, Signal!Attempt, Signal!Armed,
       Signal!unsubscribe, Signal!slots
  <1>23. ASSUME NEW e \in Signal!Attempts PROVE Signal!Made(e)'
    BY <1>0, <1>1, SignalStatuses DEF Signal!Inv, Signal!TypeOK, Signal!Attempt, Signal!Made,
       Signal!References, Signal!Running, Signal!unsubscribe, Signal!slots
  <1>24. ASSUME NEW e \in Signal!Attempts PROVE Signal!Only(e)'
    BY <1>0, <1>1, SignalStatuses DEF Signal!Inv, Signal!TypeOK, Signal!Attempt, Signal!Made, Signal!Only,
       Signal!Ongoing, Signal!Running, Signal!References, Signal!Registered, Signal!Waiters,
       Signal!AwaitsMade, Signal!unsubscribe, Signal!slots
  <1>25. Signal!KeepsListening'
    BY <1>0, <1>1, SignalStatuses DEF Signal!Inv, Signal!TypeOK, Signal!Attempt, Signal!Made, Signal!Only,
       Signal!Ongoing, Signal!Running, Signal!References, Signal!KeepsListening, Signal!Trying,
       Signal!Registered, Signal!Waiters, Signal!unsubscribe, Signal!slots
  <1>26. Signal!NothingMissed'
    BY <1>0, <1>1, SignalStatuses DEF Signal!Inv, Signal!TypeOK, Signal!Attempt, Signal!NothingMissed,
       Signal!Only, Signal!Ongoing, Signal!Running, Signal!Registered, Signal!Waiters, Signal!unsubscribe,
       Signal!slots
  <1>27. ASSUME NEW x \in SignalSubscribers PROVE Signal!AwaitsMade(x)'
    BY <1>0, <1>1, SignalStatuses DEF Signal!Inv, Signal!TypeOK, Signal!Attempt, Signal!AwaitsMade,
       Signal!unsubscribe, Signal!slots
  <1> QED BY <1>20, <1>21, <1>22, <1>23, <1>24, <1>25, <1>26, <1>27 DEF Signal!Inv

(* close.                                                                   *)
LEMMA SignalCloseKeeps ==
    ASSUME Signal!Inv, Signal!close
    PROVE  Signal!Inv'
  <1>0. /\ Signal!TypeOK /\ \A e \in Signal!Attempts : e \in Nat \ {0} /\ e <= MaxAttempts /\
             v4[e] \in Signal!Attempt
        /\ v4 \in [Signal!Attempts -> Signal!Attempt]
    BY SignalAssumption DEF Signal!Inv, Signal!Attempts, Signal!TypeOK
  <1>1. Signal!CloseClient => /\ v4' \in [Signal!Attempts -> Signal!Attempt]
           /\ v9' = v9 + 1 /\ v6' = 0 /\ v7' = 0 /\ ~v10' /\ ~v13'
           /\ \A e \in Signal!Attempts :
                /\ v4'[e].epoch = v4[e].epoch
                /\ v4'[e].pc = "none" <=> v4[e].pc = "none"
                /\ v4[e].pc \in Signal!Running /\ e # v6 => v4'[e].pc \in Signal!Running
    BY <1>0, SignalCloseIs DEF Signal!Inv
  <1>20. Signal!TypeOK'
    <2>1. v10' \in BOOLEAN /\ v11' \in BOOLEAN /\ v12' \in BOOLEAN /\ v13' \in BOOLEAN
      BY <1>0, <1>1, Zenon DEF Signal!TypeOK, Signal!CloseClient, Signal!close, Signal!slots
    <2>2. v4' \in [Signal!Attempts -> Signal!Attempt]
      BY <1>0, <1>1, SignalStatuses DEF Signal!TypeOK, Signal!Attempt, Signal!close, Signal!slots
    <2>3. /\ v1' \in [SignalSubscribers -> {"out", "waiting", "in"}] /\ v3' \subseteq SignalSubscribers
          /\ v2' \in [SignalSubscribers -> 0..MaxAttempts]
      BY <1>0, <1>1, SignalAssumption DEF Signal!TypeOK, Signal!Attempts, Signal!close, Signal!slots
    <2>4. /\ {v5', v6', v7', v8'} \subseteq 0..MaxAttempts /\ v9' \in Nat
          /\ v14' \subseteq {"overtaken", "unarmed"} /\ v15' \in 0..SignalFaults
      BY <1>0, <1>1, SignalAssumption DEF Signal!TypeOK, Signal!Attempts, Signal!close, Signal!slots
    <2> QED BY <2>1, <2>2, <2>3, <2>4, Zenon DEF Signal!TypeOK

  <1>21. Signal!References'
    BY <1>0, <1>1, SignalStatuses DEF Signal!Inv, Signal!TypeOK, Signal!Attempt, Signal!Attempts,
       Signal!Running, Signal!Made, Signal!Only, Signal!Ongoing, Signal!References, Signal!close,
       Signal!slots
  <1>22. Signal!Armed'
    BY <1>0, <1>1, SignalStatuses DEF Signal!Inv, Signal!TypeOK, Signal!Attempt, Signal!Armed,
       Signal!close, Signal!slots
  <1>23. ASSUME NEW e \in Signal!Attempts PROVE Signal!Made(e)'
    BY <1>0, <1>1, SignalStatuses DEF Signal!Inv, Signal!TypeOK, Signal!Attempt, Signal!Made,
       Signal!References, Signal!Running, Signal!close, Signal!slots
  <1>24. ASSUME NEW e \in Signal!Attempts PROVE Signal!Only(e)'
    BY <1>0, <1>1, SignalStatuses DEF Signal!Inv, Signal!TypeOK, Signal!Attempt, Signal!Made, Signal!Only,
       Signal!Ongoing, Signal!Running, Signal!References, Signal!Registered, Signal!Waiters,
       Signal!AwaitsMade, Signal!close, Signal!slots
  <1>25. Signal!KeepsListening'
    BY <1>0, <1>1, SignalStatuses DEF Signal!Inv, Signal!TypeOK, Signal!Attempt, Signal!Made, Signal!Only,
       Signal!Ongoing, Signal!Running, Signal!References, Signal!KeepsListening, Signal!Trying,
       Signal!Registered, Signal!Waiters, Signal!close, Signal!slots
  <1>26. Signal!NothingMissed'
    BY <1>0, <1>1, SignalStatuses DEF Signal!Inv, Signal!TypeOK, Signal!Attempt, Signal!NothingMissed,
       Signal!Only, Signal!Ongoing, Signal!Running, Signal!Registered, Signal!Waiters, Signal!close,
       Signal!slots
  <1>27. ASSUME NEW x \in SignalSubscribers PROVE Signal!AwaitsMade(x)'
    BY <1>0, <1>1, SignalStatuses DEF Signal!Inv, Signal!TypeOK, Signal!Attempt, Signal!AwaitsMade,
       Signal!close, Signal!slots
  <1> QED BY <1>20, <1>21, <1>22, <1>23, <1>24, <1>25, <1>26, <1>27 DEF Signal!Inv

(* Created: who takes a slot from another is of an earlier epoch.           *)
LEMMA SignalCreatedKeeps ==
    ASSUME Signal!Inv, NEW a \in Signal!Attempts, Signal!Created(a)
    PROVE  Signal!Inv'
  <1>0. /\ Signal!TypeOK /\ \A e \in Signal!Attempts : e \in Nat \ {0} /\ e <= MaxAttempts /\
             v4[e] \in Signal!Attempt
        /\ v4 \in [Signal!Attempts -> Signal!Attempt]
    BY SignalAssumption DEF Signal!Inv, Signal!Attempts, Signal!TypeOK
  <1>1. \E pc \in {"connecting", "closed"} : Signal!Status(a, pc)
    BY DEF Signal!Created, Signal!Abandon
  <1>2. /\ v4[a].pc = "password" /\ v7' = a
    BY DEF Signal!Created
  <1>20. Signal!TypeOK'
    <2>1. v10' \in BOOLEAN /\ v11' \in BOOLEAN /\ v12' \in BOOLEAN /\ v13' \in BOOLEAN
      BY <1>0, <1>1, <1>2, Zenon DEF Signal!TypeOK, Signal!Created, Signal!Abandon, Signal!Resolve,
         Signal!Forget, Signal!Status, Signal!slots
    <2>2. v4' \in [Signal!Attempts -> Signal!Attempt]
      BY <1>0, <1>1, <1>2, SignalStatuses DEF Signal!TypeOK, Signal!Attempt, Signal!Created,
         Signal!Abandon, Signal!Resolve, Signal!Forget, Signal!Status, Signal!slots
    <2>3. /\ v1' \in [SignalSubscribers -> {"out", "waiting", "in"}] /\ v3' \subseteq SignalSubscribers
          /\ v2' \in [SignalSubscribers -> 0..MaxAttempts]
      BY <1>0, <1>1, <1>2, SignalAssumption DEF Signal!TypeOK, Signal!Attempts, Signal!Created,
         Signal!Abandon, Signal!Resolve, Signal!Forget, Signal!Status, Signal!slots
    <2>4. /\ {v5', v6', v7', v8'} \subseteq 0..MaxAttempts /\ v9' \in Nat
          /\ v14' \subseteq {"overtaken", "unarmed"} /\ v15' \in 0..SignalFaults
      BY <1>0, <1>1, <1>2, SignalAssumption DEF Signal!TypeOK, Signal!Attempts, Signal!Created,
         Signal!Abandon, Signal!Resolve, Signal!Forget, Signal!Status, Signal!slots
    <2> QED BY <2>1, <2>2, <2>3, <2>4, Zenon DEF Signal!TypeOK

  <1>21. Signal!References'
    BY <1>0, <1>1, <1>2, SignalStatuses DEF Signal!Inv, Signal!TypeOK, Signal!Attempt, Signal!Attempts,
       Signal!Running, Signal!Made, Signal!Only, Signal!Ongoing, Signal!References, Signal!Created,
       Signal!Abandon, Signal!Resolve, Signal!Forget, Signal!Status, Signal!slots
  <1>22. Signal!Armed'
    BY <1>0, <1>1, <1>2, SignalStatuses DEF Signal!Inv, Signal!TypeOK, Signal!Attempt, Signal!Armed,
       Signal!Created, Signal!Abandon, Signal!Resolve, Signal!Forget, Signal!Status, Signal!slots
  <1>23. ASSUME NEW e \in Signal!Attempts PROVE Signal!Made(e)'
    BY <1>0, <1>1, <1>2, SignalStatuses DEF Signal!Inv, Signal!TypeOK, Signal!Attempt, Signal!Made,
       Signal!References, Signal!Running, Signal!Created, Signal!Abandon, Signal!Resolve, Signal!Forget,
       Signal!Status, Signal!slots
  <1>24. ASSUME NEW e \in Signal!Attempts PROVE Signal!Only(e)'
    BY <1>0, <1>1, <1>2, SignalStatuses DEF Signal!Inv, Signal!TypeOK, Signal!Attempt, Signal!Made,
       Signal!Only, Signal!Ongoing, Signal!Running, Signal!References, Signal!Registered, Signal!Waiters,
       Signal!AwaitsMade, Signal!Created, Signal!Abandon, Signal!Resolve, Signal!Forget, Signal!Status,
       Signal!slots
  <1>25. Signal!KeepsListening'
    BY <1>0, <1>1, <1>2, SignalStatuses DEF Signal!Inv, Signal!TypeOK, Signal!Attempt, Signal!Made,
       Signal!Only, Signal!Ongoing, Signal!Running, Signal!References, Signal!KeepsListening,
       Signal!Trying, Signal!Registered, Signal!Waiters, Signal!Created, Signal!Abandon, Signal!Resolve,
       Signal!Forget, Signal!Status, Signal!slots
  <1>26. Signal!NothingMissed'
    BY <1>0, <1>1, <1>2, SignalStatuses DEF Signal!Inv, Signal!TypeOK, Signal!Attempt,
       Signal!NothingMissed, Signal!Only, Signal!Ongoing, Signal!Running, Signal!Registered,
       Signal!Waiters, Signal!Created, Signal!Abandon, Signal!Resolve, Signal!Forget, Signal!Status,
       Signal!slots
  <1>27. ASSUME NEW x \in SignalSubscribers PROVE Signal!AwaitsMade(x)'
    BY <1>0, <1>1, <1>2, SignalStatuses DEF Signal!Inv, Signal!TypeOK, Signal!Attempt, Signal!AwaitsMade,
       Signal!Created, Signal!Abandon, Signal!Resolve, Signal!Forget, Signal!Status, Signal!slots
  <1> QED BY <1>20, <1>21, <1>22, <1>23, <1>24, <1>25, <1>26, <1>27 DEF Signal!Inv

(* Connected.                                                               *)
LEMMA SignalConnectedKeeps ==
    ASSUME Signal!Inv, NEW a \in Signal!Attempts, Signal!Connected(a)
    PROVE  Signal!Inv'
  <1>0. /\ Signal!TypeOK /\ \A e \in Signal!Attempts : e \in Nat \ {0} /\ e <= MaxAttempts /\
             v4[e] \in Signal!Attempt
        /\ v4 \in [Signal!Attempts -> Signal!Attempt]
    BY SignalAssumption DEF Signal!Inv, Signal!Attempts, Signal!TypeOK
  <1>20. Signal!TypeOK'
    <2>1. v10' \in BOOLEAN /\ v11' \in BOOLEAN /\ v12' \in BOOLEAN /\ v13' \in BOOLEAN
      BY <1>0, Zenon DEF Signal!TypeOK, Signal!Connected, Signal!canActivate, Signal!Abandon,
         Signal!Resolve, Signal!Forget, Signal!Status, Signal!slots
    <2>2. v4' \in [Signal!Attempts -> Signal!Attempt]
      BY <1>0, SignalStatuses DEF Signal!TypeOK, Signal!Attempt, Signal!Connected, Signal!canActivate,
         Signal!Abandon, Signal!Resolve, Signal!Forget, Signal!Status, Signal!slots
    <2>3. /\ v1' \in [SignalSubscribers -> {"out", "waiting", "in"}] /\ v3' \subseteq SignalSubscribers
          /\ v2' \in [SignalSubscribers -> 0..MaxAttempts]
      BY <1>0, SignalAssumption DEF Signal!TypeOK, Signal!Attempts, Signal!Connected, Signal!canActivate,
         Signal!Abandon, Signal!Resolve, Signal!Forget, Signal!Status, Signal!slots
    <2>4. /\ {v5', v6', v7', v8'} \subseteq 0..MaxAttempts /\ v9' \in Nat
          /\ v14' \subseteq {"overtaken", "unarmed"} /\ v15' \in 0..SignalFaults
      BY <1>0, SignalAssumption DEF Signal!TypeOK, Signal!Attempts, Signal!Connected, Signal!canActivate,
         Signal!Abandon, Signal!Resolve, Signal!Forget, Signal!Status, Signal!slots
    <2> QED BY <2>1, <2>2, <2>3, <2>4, Zenon DEF Signal!TypeOK

  <1>21. Signal!References'
    <2>1. /\ v6 # 0 => v6 \in Signal!Attempts /\ v6 # a
          /\ v8 # 0 => v8 \in Signal!Attempts
          /\ v4[a].pc = "connecting" /\ v6' = v6
      BY <1>0 DEF Signal!Inv, Signal!TypeOK, Signal!References, Signal!Attempts, Signal!Connected,
         Signal!slots
    <2>2. CASE Signal!Status(a, "listening") /\ v8' = v8
      BY <1>0, <2>1, <2>2, SignalStatusIs DEF Signal!Inv, Signal!References, Signal!Running
    <2>3. CASE Signal!Status(a, "closed") /\ Signal!Forget(a)
      BY <1>0, <2>1, <2>3, SignalStatusIs DEF Signal!Inv, Signal!References, Signal!Running, Signal!Forget
    <2> QED BY <2>2, <2>3 DEF Signal!Connected, Signal!Abandon, Signal!Resolve
  <1>22. Signal!Armed'
    BY <1>0, SignalStatuses DEF Signal!Inv, Signal!TypeOK, Signal!Attempt, Signal!Armed, Signal!Connected,
       Signal!canActivate, Signal!Abandon, Signal!Resolve, Signal!Forget, Signal!Status, Signal!slots
  <1>23. ASSUME NEW e \in Signal!Attempts PROVE Signal!Made(e)'
    BY <1>0, SignalStatuses DEF Signal!Inv, Signal!TypeOK, Signal!Attempt, Signal!Made, Signal!References,
       Signal!Running, Signal!Connected, Signal!canActivate, Signal!Abandon, Signal!Resolve,
       Signal!Forget, Signal!Status, Signal!slots
  <1>24. ASSUME NEW e \in Signal!Attempts PROVE Signal!Only(e)'
    BY <1>0, SignalStatuses DEF Signal!Inv, Signal!TypeOK, Signal!Attempt, Signal!Made, Signal!Only,
       Signal!Ongoing, Signal!Running, Signal!References, Signal!Registered, Signal!Waiters,
       Signal!AwaitsMade, Signal!Connected, Signal!canActivate, Signal!Abandon, Signal!Resolve,
       Signal!Forget, Signal!Status, Signal!slots
  <1>25. Signal!KeepsListening'
    BY <1>0, SignalStatuses DEF Signal!Inv, Signal!TypeOK, Signal!Attempt, Signal!Made, Signal!Only,
       Signal!Ongoing, Signal!Running, Signal!References, Signal!KeepsListening, Signal!Trying,
       Signal!Registered, Signal!Waiters, Signal!Connected, Signal!canActivate, Signal!Abandon,
       Signal!Resolve, Signal!Forget, Signal!Status, Signal!slots
  <1>26. Signal!NothingMissed'
    BY <1>0, SignalStatuses DEF Signal!Inv, Signal!TypeOK, Signal!Attempt, Signal!NothingMissed,
       Signal!Only, Signal!Ongoing, Signal!Running, Signal!Registered, Signal!Waiters, Signal!Connected,
       Signal!canActivate, Signal!Abandon, Signal!Resolve, Signal!Forget, Signal!Status, Signal!slots
  <1>27. ASSUME NEW x \in SignalSubscribers PROVE Signal!AwaitsMade(x)'
    BY <1>0, SignalStatuses DEF Signal!Inv, Signal!TypeOK, Signal!Attempt, Signal!AwaitsMade,
       Signal!Connected, Signal!canActivate, Signal!Abandon, Signal!Resolve, Signal!Forget, Signal!Status,
       Signal!slots
  <1> QED BY <1>20, <1>21, <1>22, <1>23, <1>24, <1>25, <1>26, <1>27 DEF Signal!Inv

(* Listening: everybody who missed something is told, or waited.            *)
LEMMA SignalListeningKeeps ==
    ASSUME Signal!Inv, NEW a \in Signal!Attempts, Signal!Listening(a)
    PROVE  Signal!Inv'
  <1>0. /\ Signal!TypeOK /\ \A e \in Signal!Attempts : e \in Nat \ {0} /\ e <= MaxAttempts /\
             v4[e] \in Signal!Attempt
        /\ v4 \in [Signal!Attempts -> Signal!Attempt]
    BY SignalAssumption DEF Signal!Inv, Signal!Attempts, Signal!TypeOK
  <1>1. /\ v4' \in [Signal!Attempts -> Signal!Attempt]
        /\ v4'[a].pc = "active" /\ v4'[a].epoch = v4[a].epoch
        /\ v4'[a].again = v4[a].again /\ v4'[a].byTimer = v4[a].byTimer
        /\ \A e \in Signal!Attempts \ {a} : v4'[e] = v4[e]
    BY <1>0, SignalStatusIs DEF Signal!Listening
  <1>2. /\ v1' \in [SignalSubscribers -> {"out", "waiting", "in"}] /\ v2' = v2
        /\ v8' \in 0..MaxAttempts
        /\ v8 = a => v8' = 0
        /\ v8 # a => v8' = v8
        /\ \A s \in SignalSubscribers :
             /\ v1[s] = "out" => v1'[s] = "out"
             /\ s \notin Signal!Waiters(a) => v1'[s] = v1[s]
             /\ s \in Signal!Waiters(a) => v1'[s] # "waiting"
    BY <1>0, SignalSettlesIs DEF Signal!Listening
  <1>20. Signal!TypeOK'
    <2>1. v10' \in BOOLEAN /\ v11' \in BOOLEAN /\ v12' \in BOOLEAN /\ v13' \in BOOLEAN
      BY <1>0, <1>1, <1>2, Zenon DEF Signal!TypeOK, Signal!Listening, Signal!canActivate, Signal!slots
    <2>2. v4' \in [Signal!Attempts -> Signal!Attempt]
      BY <1>0, <1>1, <1>2, SignalStatuses DEF Signal!TypeOK, Signal!Attempt, Signal!Listening,
         Signal!canActivate, Signal!slots
    <2>3. /\ v1' \in [SignalSubscribers -> {"out", "waiting", "in"}] /\ v3' \subseteq SignalSubscribers
          /\ v2' \in [SignalSubscribers -> 0..MaxAttempts]
      BY <1>0, <1>1, <1>2, SignalAssumption DEF Signal!TypeOK, Signal!Attempts, Signal!Listening,
         Signal!canActivate, Signal!slots
    <2>4. /\ {v5', v6', v7', v8'} \subseteq 0..MaxAttempts /\ v9' \in Nat
          /\ v14' \subseteq {"overtaken", "unarmed"} /\ v15' \in 0..SignalFaults
      BY <1>0, <1>1, <1>2, SignalAssumption DEF Signal!TypeOK, Signal!Attempts, Signal!Listening,
         Signal!canActivate, Signal!slots
    <2> QED BY <2>1, <2>2, <2>3, <2>4, Zenon DEF Signal!TypeOK

  <1>21. Signal!References'
    BY <1>0, <1>1, <1>2, SignalStatuses DEF Signal!Inv, Signal!TypeOK, Signal!Attempt, Signal!Attempts,
       Signal!Running, Signal!Made, Signal!Only, Signal!Ongoing, Signal!References, Signal!Listening,
       Signal!canActivate, Signal!slots
  <1>22. Signal!Armed'
    BY <1>0, <1>1, <1>2, SignalStatuses DEF Signal!Inv, Signal!TypeOK, Signal!Attempt, Signal!Armed,
       Signal!Listening, Signal!canActivate, Signal!slots
  <1>23. ASSUME NEW e \in Signal!Attempts PROVE Signal!Made(e)'
    BY <1>0, <1>1, <1>2, SignalStatuses DEF Signal!Inv, Signal!TypeOK, Signal!Attempt, Signal!Made,
       Signal!References, Signal!Running, Signal!Listening, Signal!canActivate, Signal!slots
  <1>24. ASSUME NEW e \in Signal!Attempts PROVE Signal!Only(e)'
    BY <1>0, <1>1, <1>2, SignalStatuses DEF Signal!Inv, Signal!TypeOK, Signal!Attempt, Signal!Made,
       Signal!Only, Signal!Ongoing, Signal!Running, Signal!References, Signal!Registered, Signal!Waiters,
       Signal!AwaitsMade, Signal!Listening, Signal!canActivate, Signal!slots
  <1>25. Signal!KeepsListening'
    BY <1>0, <1>1, <1>2, SignalStatuses DEF Signal!Inv, Signal!TypeOK, Signal!Attempt, Signal!Made,
       Signal!Only, Signal!Ongoing, Signal!Running, Signal!References, Signal!KeepsListening,
       Signal!Trying, Signal!Registered, Signal!Waiters, Signal!Listening, Signal!canActivate,
       Signal!slots
  <1>26. Signal!NothingMissed'
    BY <1>0, <1>1, <1>2, SignalStatuses DEF Signal!Inv, Signal!TypeOK, Signal!Attempt,
       Signal!NothingMissed, Signal!Only, Signal!Ongoing, Signal!Running, Signal!Registered,
       Signal!Waiters, Signal!Listening, Signal!canActivate, Signal!slots
  <1>27. ASSUME NEW x \in SignalSubscribers PROVE Signal!AwaitsMade(x)'
    BY <1>0, <1>1, <1>2, SignalStatuses DEF Signal!Inv, Signal!TypeOK, Signal!Attempt, Signal!AwaitsMade,
       Signal!Listening, Signal!canActivate, Signal!slots
  <1> QED BY <1>20, <1>21, <1>22, <1>23, <1>24, <1>25, <1>26, <1>27 DEF Signal!Inv

(* ListeningLate.                                                           *)
LEMMA SignalListeningLateKeeps ==
    ASSUME Signal!Inv, NEW a \in Signal!Attempts, Signal!ListeningLate(a)
    PROVE  Signal!Inv'
  <1>0. /\ Signal!TypeOK /\ \A e \in Signal!Attempts : e \in Nat \ {0} /\ e <= MaxAttempts /\
             v4[e] \in Signal!Attempt
        /\ v4 \in [Signal!Attempts -> Signal!Attempt]
    BY SignalAssumption DEF Signal!Inv, Signal!Attempts, Signal!TypeOK
  <1>1. /\ v4' \in [Signal!Attempts -> Signal!Attempt]
        /\ v4'[a].pc = "closed" /\ v4'[a].epoch = v4[a].epoch
        /\ v4'[a].again = v4[a].again /\ v4'[a].byTimer = v4[a].byTimer
        /\ \A e \in Signal!Attempts \ {a} : v4'[e] = v4[e]
    BY <1>0, SignalStatusIs DEF Signal!ListeningLate, Signal!Abandon
  <1>2. /\ v1' \in [SignalSubscribers -> {"out", "waiting", "in"}] /\ v2' = v2
        /\ v8' \in 0..MaxAttempts
        /\ v8 = a => v8' = 0
        /\ v8 # a => v8' = v8
        /\ \A s \in SignalSubscribers :
             /\ v1[s] = "out" => v1'[s] = "out"
             /\ s \notin Signal!Waiters(a) => v1'[s] = v1[s]
             /\ s \in Signal!Waiters(a) => v1'[s] # "waiting"
    BY <1>0, SignalSettlesIs DEF Signal!ListeningLate, Signal!Abandon
  <1>20. Signal!TypeOK'
    <2>1. v10' \in BOOLEAN /\ v11' \in BOOLEAN /\ v12' \in BOOLEAN /\ v13' \in BOOLEAN
      BY <1>0, <1>1, <1>2, Zenon DEF Signal!TypeOK, Signal!ListeningLate, Signal!canActivate, Signal!slots
    <2>2. v4' \in [Signal!Attempts -> Signal!Attempt]
      BY <1>0, <1>1, <1>2, SignalStatuses DEF Signal!TypeOK, Signal!Attempt, Signal!ListeningLate,
         Signal!canActivate, Signal!slots
    <2>3. /\ v1' \in [SignalSubscribers -> {"out", "waiting", "in"}] /\ v3' \subseteq SignalSubscribers
          /\ v2' \in [SignalSubscribers -> 0..MaxAttempts]
      BY <1>0, <1>1, <1>2, SignalAssumption DEF Signal!TypeOK, Signal!Attempts, Signal!ListeningLate,
         Signal!canActivate, Signal!slots
    <2>4. /\ {v5', v6', v7', v8'} \subseteq 0..MaxAttempts /\ v9' \in Nat
          /\ v14' \subseteq {"overtaken", "unarmed"} /\ v15' \in 0..SignalFaults
      BY <1>0, <1>1, <1>2, SignalAssumption DEF Signal!TypeOK, Signal!Attempts, Signal!ListeningLate,
         Signal!canActivate, Signal!slots
    <2> QED BY <2>1, <2>2, <2>3, <2>4, Zenon DEF Signal!TypeOK

  <1>21. Signal!References'
    BY <1>0, <1>1, <1>2, SignalStatuses DEF Signal!Inv, Signal!TypeOK, Signal!Attempt, Signal!Attempts,
       Signal!Running, Signal!Made, Signal!Only, Signal!Ongoing, Signal!References, Signal!ListeningLate,
       Signal!canActivate, Signal!slots
  <1>22. Signal!Armed'
    BY <1>0, <1>1, <1>2, SignalStatuses DEF Signal!Inv, Signal!TypeOK, Signal!Attempt, Signal!Armed,
       Signal!ListeningLate, Signal!canActivate, Signal!slots
  <1>23. ASSUME NEW e \in Signal!Attempts PROVE Signal!Made(e)'
    BY <1>0, <1>1, <1>2, SignalStatuses DEF Signal!Inv, Signal!TypeOK, Signal!Attempt, Signal!Made,
       Signal!References, Signal!Running, Signal!ListeningLate, Signal!canActivate, Signal!slots
  <1>24. ASSUME NEW e \in Signal!Attempts PROVE Signal!Only(e)'
    BY <1>0, <1>1, <1>2, SignalStatuses DEF Signal!Inv, Signal!TypeOK, Signal!Attempt, Signal!Made,
       Signal!Only, Signal!Ongoing, Signal!Running, Signal!References, Signal!Registered, Signal!Waiters,
       Signal!AwaitsMade, Signal!ListeningLate, Signal!canActivate, Signal!slots
  <1>25. Signal!KeepsListening'
    BY <1>0, <1>1, <1>2, SignalStatuses DEF Signal!Inv, Signal!TypeOK, Signal!Attempt, Signal!Made,
       Signal!Only, Signal!Ongoing, Signal!Running, Signal!References, Signal!KeepsListening,
       Signal!Trying, Signal!Registered, Signal!Waiters, Signal!ListeningLate, Signal!canActivate,
       Signal!slots
  <1>26. Signal!NothingMissed'
    BY <1>0, <1>1, <1>2, SignalStatuses DEF Signal!Inv, Signal!TypeOK, Signal!Attempt,
       Signal!NothingMissed, Signal!Only, Signal!Ongoing, Signal!Running, Signal!Registered,
       Signal!Waiters, Signal!ListeningLate, Signal!canActivate, Signal!slots
  <1>27. ASSUME NEW x \in SignalSubscribers PROVE Signal!AwaitsMade(x)'
    BY <1>0, <1>1, <1>2, SignalStatuses DEF Signal!Inv, Signal!TypeOK, Signal!Attempt, Signal!AwaitsMade,
       Signal!ListeningLate, Signal!canActivate, Signal!slots
  <1> QED BY <1>20, <1>21, <1>22, <1>23, <1>24, <1>25, <1>26, <1>27 DEF Signal!Inv

(* AttemptFails: the timer is set, or those who waited hear of it.          *)
LEMMA SignalAttemptFailsKeeps ==
    ASSUME Signal!Inv, NEW a \in Signal!Attempts, Signal!AttemptFails(a)
    PROVE  Signal!Inv'
  <1>0. /\ Signal!TypeOK /\ \A e \in Signal!Attempts : e \in Nat \ {0} /\ e <= MaxAttempts /\
             v4[e] \in Signal!Attempt
        /\ v4 \in [Signal!Attempts -> Signal!Attempt]
    BY SignalAssumption DEF Signal!Inv, Signal!Attempts, Signal!TypeOK
  <1>1. /\ v4' \in [Signal!Attempts -> Signal!Attempt]
        /\ v4'[a].pc = "closed" /\ v4'[a].epoch = v4[a].epoch
        /\ v4'[a].again = v4[a].again /\ v4'[a].byTimer = v4[a].byTimer
        /\ \A e \in Signal!Attempts \ {a} : v4'[e] = v4[e]
    BY <1>0, SignalStatusIs DEF Signal!AttemptFails
  <1>2. /\ v1' \in [SignalSubscribers -> {"out", "waiting", "in"}] /\ v2' = v2
        /\ v8' \in 0..MaxAttempts
        /\ v8 = a => v8' = 0
        /\ v8 # a => v8' = v8
        /\ \A s \in SignalSubscribers :
             /\ v1[s] = "out" => v1'[s] = "out"
             /\ s \notin Signal!Waiters(a) => v1'[s] = v1[s]
             /\ s \in Signal!Waiters(a) => v1'[s] # "waiting" /\ v1'[s] = "out"
    BY <1>0, SignalSettlesIs DEF Signal!AttemptFails
  <1>20. Signal!TypeOK'
    <2>1. v10' \in BOOLEAN /\ v11' \in BOOLEAN /\ v12' \in BOOLEAN /\ v13' \in BOOLEAN
      BY <1>0, <1>1, <1>2, Zenon DEF Signal!TypeOK, Signal!AttemptFails, Signal!scheduleReconnect,
         Signal!Fault, Signal!slots
    <2>2. v4' \in [Signal!Attempts -> Signal!Attempt]
      BY <1>0, <1>1, <1>2, SignalStatuses DEF Signal!TypeOK, Signal!Attempt, Signal!AttemptFails,
         Signal!scheduleReconnect, Signal!Fault, Signal!slots
    <2>3. /\ v1' \in [SignalSubscribers -> {"out", "waiting", "in"}] /\ v3' \subseteq SignalSubscribers
          /\ v2' \in [SignalSubscribers -> 0..MaxAttempts]
      BY <1>0, <1>1, <1>2, SignalAssumption DEF Signal!TypeOK, Signal!Attempts, Signal!AttemptFails,
         Signal!scheduleReconnect, Signal!Fault, Signal!slots
    <2>4. /\ {v5', v6', v7', v8'} \subseteq 0..MaxAttempts /\ v9' \in Nat
          /\ v14' \subseteq {"overtaken", "unarmed"} /\ v15' \in 0..SignalFaults
      BY <1>0, <1>1, <1>2, SignalAssumption DEF Signal!TypeOK, Signal!Attempts, Signal!AttemptFails,
         Signal!scheduleReconnect, Signal!Fault, Signal!slots
    <2> QED BY <2>1, <2>2, <2>3, <2>4, Zenon DEF Signal!TypeOK

  <1>21. Signal!References'
    BY <1>0, <1>1, <1>2, SignalStatuses DEF Signal!Inv, Signal!TypeOK, Signal!Attempt, Signal!Attempts,
       Signal!Running, Signal!Made, Signal!Only, Signal!Ongoing, Signal!References, Signal!AttemptFails,
       Signal!scheduleReconnect, Signal!Fault, Signal!slots
  <1>22. Signal!Armed'
    BY <1>0, <1>1, <1>2, SignalStatuses DEF Signal!Inv, Signal!TypeOK, Signal!Attempt, Signal!Armed,
       Signal!AttemptFails, Signal!scheduleReconnect, Signal!Fault, Signal!slots
  <1>23. ASSUME NEW e \in Signal!Attempts PROVE Signal!Made(e)'
    BY <1>0, <1>1, <1>2, SignalStatuses DEF Signal!Inv, Signal!TypeOK, Signal!Attempt, Signal!Made,
       Signal!References, Signal!Running, Signal!AttemptFails, Signal!scheduleReconnect, Signal!Fault,
       Signal!slots
  <1>24. ASSUME NEW e \in Signal!Attempts PROVE Signal!Only(e)'
    BY <1>0, <1>1, <1>2, SignalStatuses DEF Signal!Inv, Signal!TypeOK, Signal!Attempt, Signal!Made,
       Signal!Only, Signal!Ongoing, Signal!Running, Signal!References, Signal!Registered, Signal!Waiters,
       Signal!AwaitsMade, Signal!AttemptFails, Signal!scheduleReconnect, Signal!Fault, Signal!slots
  <1>25. Signal!KeepsListening'
    BY <1>0, <1>1, <1>2, SignalStatuses DEF Signal!Inv, Signal!TypeOK, Signal!Attempt, Signal!Made,
       Signal!Only, Signal!Ongoing, Signal!Running, Signal!References, Signal!KeepsListening,
       Signal!Trying, Signal!Registered, Signal!Waiters, Signal!AttemptFails, Signal!scheduleReconnect,
       Signal!Fault, Signal!slots
  <1>26. Signal!NothingMissed'
    BY <1>0, <1>1, <1>2, SignalStatuses DEF Signal!Inv, Signal!TypeOK, Signal!Attempt,
       Signal!NothingMissed, Signal!Only, Signal!Ongoing, Signal!Running, Signal!Registered,
       Signal!Waiters, Signal!AttemptFails, Signal!scheduleReconnect, Signal!Fault, Signal!slots
  <1>27. ASSUME NEW x \in SignalSubscribers PROVE Signal!AwaitsMade(x)'
    BY <1>0, <1>1, <1>2, SignalStatuses DEF Signal!Inv, Signal!TypeOK, Signal!Attempt, Signal!AwaitsMade,
       Signal!AttemptFails, Signal!scheduleReconnect, Signal!Fault, Signal!slots
  <1> QED BY <1>20, <1>21, <1>22, <1>23, <1>24, <1>25, <1>26, <1>27 DEF Signal!Inv

(* Breaks.                                                                  *)
LEMMA SignalBreaksKeeps ==
    ASSUME Signal!Inv, Signal!Breaks
    PROVE  Signal!Inv'
  <1>0. /\ Signal!TypeOK /\ \A e \in Signal!Attempts : e \in Nat \ {0} /\ e <= MaxAttempts /\
             v4[e] \in Signal!Attempt
        /\ v4 \in [Signal!Attempts -> Signal!Attempt]
    BY SignalAssumption DEF Signal!Inv, Signal!Attempts, Signal!TypeOK
  <1>20. Signal!TypeOK'
    <2>1. v10' \in BOOLEAN /\ v11' \in BOOLEAN /\ v12' \in BOOLEAN /\ v13' \in BOOLEAN
      BY <1>0, Zenon DEF Signal!TypeOK, Signal!Breaks, Signal!Fault, Signal!slots
    <2>2. v4' \in [Signal!Attempts -> Signal!Attempt]
      BY <1>0, SignalStatuses DEF Signal!TypeOK, Signal!Attempt, Signal!Breaks, Signal!Fault, Signal!slots
    <2>3. /\ v1' \in [SignalSubscribers -> {"out", "waiting", "in"}] /\ v3' \subseteq SignalSubscribers
          /\ v2' \in [SignalSubscribers -> 0..MaxAttempts]
      BY <1>0, SignalAssumption DEF Signal!TypeOK, Signal!Attempts, Signal!Breaks, Signal!Fault,
         Signal!slots
    <2>4. /\ {v5', v6', v7', v8'} \subseteq 0..MaxAttempts /\ v9' \in Nat
          /\ v14' \subseteq {"overtaken", "unarmed"} /\ v15' \in 0..SignalFaults
      BY <1>0, SignalAssumption DEF Signal!TypeOK, Signal!Attempts, Signal!Breaks, Signal!Fault,
         Signal!slots
    <2> QED BY <2>1, <2>2, <2>3, <2>4, Zenon DEF Signal!TypeOK

  <1>21. Signal!References'
    BY <1>0, SignalStatuses DEF Signal!Inv, Signal!TypeOK, Signal!Attempt, Signal!Attempts,
       Signal!Running, Signal!Made, Signal!Only, Signal!Ongoing, Signal!References, Signal!Breaks,
       Signal!Fault, Signal!slots
  <1>22. Signal!Armed'
    BY <1>0, SignalStatuses DEF Signal!Inv, Signal!TypeOK, Signal!Attempt, Signal!Armed, Signal!Breaks,
       Signal!Fault, Signal!slots
  <1>23. ASSUME NEW e \in Signal!Attempts PROVE Signal!Made(e)'
    BY <1>0, SignalStatuses DEF Signal!Inv, Signal!TypeOK, Signal!Attempt, Signal!Made, Signal!References,
       Signal!Running, Signal!Breaks, Signal!Fault, Signal!slots
  <1>24. ASSUME NEW e \in Signal!Attempts PROVE Signal!Only(e)'
    BY <1>0, SignalStatuses DEF Signal!Inv, Signal!TypeOK, Signal!Attempt, Signal!Made, Signal!Only,
       Signal!Ongoing, Signal!Running, Signal!References, Signal!Registered, Signal!Waiters,
       Signal!AwaitsMade, Signal!Breaks, Signal!Fault, Signal!slots
  <1>25. Signal!KeepsListening'
    BY <1>0, SignalStatuses DEF Signal!Inv, Signal!TypeOK, Signal!Attempt, Signal!Made, Signal!Only,
       Signal!Ongoing, Signal!Running, Signal!References, Signal!KeepsListening, Signal!Trying,
       Signal!Registered, Signal!Waiters, Signal!Breaks, Signal!Fault, Signal!slots
  <1>26. Signal!NothingMissed'
    BY <1>0, SignalStatuses DEF Signal!Inv, Signal!TypeOK, Signal!Attempt, Signal!NothingMissed,
       Signal!Only, Signal!Ongoing, Signal!Running, Signal!Registered, Signal!Waiters, Signal!Breaks,
       Signal!Fault, Signal!slots
  <1>27. ASSUME NEW x \in SignalSubscribers PROVE Signal!AwaitsMade(x)'
    BY <1>0, SignalStatuses DEF Signal!Inv, Signal!TypeOK, Signal!Attempt, Signal!AwaitsMade,
       Signal!Breaks, Signal!Fault, Signal!slots
  <1> QED BY <1>20, <1>21, <1>22, <1>23, <1>24, <1>25, <1>26, <1>27 DEF Signal!Inv

(* Failure: the timer is set.                                               *)
LEMMA SignalFailureKeeps ==
    ASSUME Signal!Inv, NEW a \in Signal!Attempts, Signal!Failure(a)
    PROVE  Signal!Inv'
  <1>0. /\ Signal!TypeOK /\ \A e \in Signal!Attempts : e \in Nat \ {0} /\ e <= MaxAttempts /\
             v4[e] \in Signal!Attempt
        /\ v4 \in [Signal!Attempts -> Signal!Attempt]
    BY SignalAssumption DEF Signal!Inv, Signal!Attempts, Signal!TypeOK
  <1>20. Signal!TypeOK'
    <2>1. v10' \in BOOLEAN /\ v11' \in BOOLEAN /\ v12' \in BOOLEAN /\ v13' \in BOOLEAN
      BY <1>0, Zenon DEF Signal!TypeOK, Signal!Failure, Signal!Status, Signal!scheduleReconnect,
         Signal!Fault, Signal!slots
    <2>2. v4' \in [Signal!Attempts -> Signal!Attempt]
      BY <1>0, SignalStatuses DEF Signal!TypeOK, Signal!Attempt, Signal!Failure, Signal!Status,
         Signal!scheduleReconnect, Signal!Fault, Signal!slots
    <2>3. /\ v1' \in [SignalSubscribers -> {"out", "waiting", "in"}] /\ v3' \subseteq SignalSubscribers
          /\ v2' \in [SignalSubscribers -> 0..MaxAttempts]
      BY <1>0, SignalAssumption DEF Signal!TypeOK, Signal!Attempts, Signal!Failure, Signal!Status,
         Signal!scheduleReconnect, Signal!Fault, Signal!slots
    <2>4. /\ {v5', v6', v7', v8'} \subseteq 0..MaxAttempts /\ v9' \in Nat
          /\ v14' \subseteq {"overtaken", "unarmed"} /\ v15' \in 0..SignalFaults
      BY <1>0, SignalAssumption DEF Signal!TypeOK, Signal!Attempts, Signal!Failure, Signal!Status,
         Signal!scheduleReconnect, Signal!Fault, Signal!slots
    <2> QED BY <2>1, <2>2, <2>3, <2>4, Zenon DEF Signal!TypeOK

  <1>21. Signal!References'
    <2>1. /\ v6 # 0 => v6 \in Signal!Attempts /\ v4[v6].pc = "active"
          /\ v8 # 0 => v8 \in Signal!Attempts
          /\ v8' = v8 /\ v6' \in {0, v6} /\ (a = v6 => v6' = 0)
      BY <1>0 DEF Signal!Inv, Signal!TypeOK, Signal!References, Signal!Attempts, Signal!Failure
    <2>2. CASE a = v6 /\ Signal!Status(a, "closed")
      BY <1>0, <2>1, <2>2, SignalStatusIs DEF Signal!Inv, Signal!References, Signal!Running
    <2>3. CASE v4[a].pc \in {"connecting", "listening"} /\ Signal!Status(a, "stale")
      BY <1>0, <2>1, <2>3, SignalStatusIs DEF Signal!Inv, Signal!References, Signal!Running
    <2> QED BY <2>2, <2>3 DEF Signal!Failure
  <1>22. Signal!Armed'
    BY <1>0, SignalStatuses DEF Signal!Inv, Signal!TypeOK, Signal!Attempt, Signal!Armed, Signal!Failure,
       Signal!Status, Signal!scheduleReconnect, Signal!Fault, Signal!slots
  <1>23. ASSUME NEW e \in Signal!Attempts PROVE Signal!Made(e)'
    BY <1>0, SignalStatuses DEF Signal!Inv, Signal!TypeOK, Signal!Attempt, Signal!Made, Signal!References,
       Signal!Running, Signal!Failure, Signal!Status, Signal!scheduleReconnect, Signal!Fault, Signal!slots
  <1>24. ASSUME NEW e \in Signal!Attempts PROVE Signal!Only(e)'
    BY <1>0, SignalStatuses DEF Signal!Inv, Signal!TypeOK, Signal!Attempt, Signal!Made, Signal!Only,
       Signal!Ongoing, Signal!Running, Signal!References, Signal!Registered, Signal!Waiters,
       Signal!AwaitsMade, Signal!Failure, Signal!Status, Signal!scheduleReconnect, Signal!Fault,
       Signal!slots
  <1>25. Signal!KeepsListening'
    BY <1>0, SignalStatuses DEF Signal!Inv, Signal!TypeOK, Signal!Attempt, Signal!Made, Signal!Only,
       Signal!Ongoing, Signal!Running, Signal!References, Signal!KeepsListening, Signal!Trying,
       Signal!Registered, Signal!Waiters, Signal!Failure, Signal!Status, Signal!scheduleReconnect,
       Signal!Fault, Signal!slots
  <1>26. Signal!NothingMissed'
    BY <1>0, SignalStatuses DEF Signal!Inv, Signal!TypeOK, Signal!Attempt, Signal!NothingMissed,
       Signal!Only, Signal!Ongoing, Signal!Running, Signal!Registered, Signal!Waiters, Signal!Failure,
       Signal!Status, Signal!scheduleReconnect, Signal!Fault, Signal!slots
  <1>27. ASSUME NEW x \in SignalSubscribers PROVE Signal!AwaitsMade(x)'
    BY <1>0, SignalStatuses DEF Signal!Inv, Signal!TypeOK, Signal!Attempt, Signal!AwaitsMade,
       Signal!Failure, Signal!Status, Signal!scheduleReconnect, Signal!Fault, Signal!slots
  <1> QED BY <1>20, <1>21, <1>22, <1>23, <1>24, <1>25, <1>26, <1>27 DEF Signal!Inv

(* TimerFires.                                                              *)
LEMMA SignalTimerFiresKeeps ==
    ASSUME Signal!Inv, Signal!TimerFires
    PROVE  Signal!Inv'
  <1>0. /\ Signal!TypeOK /\ \A e \in Signal!Attempts : e \in Nat \ {0} /\ e <= MaxAttempts /\
             v4[e] \in Signal!Attempt
        /\ v4 \in [Signal!Attempts -> Signal!Attempt]
    BY SignalAssumption DEF Signal!Inv, Signal!Attempts, Signal!TypeOK
  <1>1. /\ v10 /\ v10' = FALSE
        /\ UNCHANGED <<v1, v2, v3, v6, v7, v9, v11, v12, v13, v14, v15>>
    BY DEF Signal!TimerFires, Signal!slots
  <1>10. CASE v12 \/ Signal!Registered = {} \/ v6 # 0
    <2>1. UNCHANGED <<v4, v5, v8>>
      BY <1>10 DEF Signal!TimerFires
    <2>20. Signal!TypeOK'
      <3>1. v10' \in BOOLEAN /\ v11' \in BOOLEAN /\ v12' \in BOOLEAN /\ v13' \in BOOLEAN
        BY <1>0, <1>1, <1>10, <2>1, Zenon DEF Signal!TypeOK
      <3>2. v4' \in [Signal!Attempts -> Signal!Attempt]
        BY <1>0, <1>1, <1>10, <2>1, SignalStatuses DEF Signal!TypeOK, Signal!Attempt
      <3>3. /\ v1' \in [SignalSubscribers -> {"out", "waiting", "in"}] /\ v3' \subseteq SignalSubscribers
            /\ v2' \in [SignalSubscribers -> 0..MaxAttempts]
        BY <1>0, <1>1, <1>10, <2>1, SignalAssumption DEF Signal!TypeOK, Signal!Attempts
      <3>4. /\ {v5', v6', v7', v8'} \subseteq 0..MaxAttempts /\ v9' \in Nat
            /\ v14' \subseteq {"overtaken", "unarmed"} /\ v15' \in 0..SignalFaults
        BY <1>0, <1>1, <1>10, <2>1, SignalAssumption DEF Signal!TypeOK, Signal!Attempts
      <3> QED BY <3>1, <3>2, <3>3, <3>4, Zenon DEF Signal!TypeOK
    <2>21. Signal!References'
      BY <1>0, <1>1, <1>10, <2>1, SignalStatuses DEF Signal!Inv, Signal!TypeOK, Signal!Attempt,
         Signal!Attempts, Signal!Running, Signal!Made, Signal!Only, Signal!Ongoing, Signal!References
    <2>22. Signal!Armed'
      BY <1>0, <1>1, <1>10, <2>1 DEF Signal!Inv, Signal!Armed
    <2>23. ASSUME NEW e \in Signal!Attempts PROVE Signal!Made(e)'
      BY <1>0, <1>1, <1>10, <2>1, SignalStatuses DEF Signal!Inv, Signal!TypeOK, Signal!Attempt,
         Signal!Made, Signal!References, Signal!Running
    <2>24. ASSUME NEW e \in Signal!Attempts PROVE Signal!Only(e)'
      BY <1>0, <1>1, <1>10, <2>1, SignalStatuses DEF Signal!Inv, Signal!TypeOK, Signal!Attempt,
         Signal!Made, Signal!Only, Signal!Ongoing, Signal!Running, Signal!References, Signal!Registered,
         Signal!Waiters, Signal!AwaitsMade
    <2>25. Signal!KeepsListening'
      BY <1>0, <1>1, <1>10, <2>1, SignalStatuses DEF Signal!Inv, Signal!TypeOK, Signal!Attempt,
         Signal!Made, Signal!Only, Signal!Ongoing, Signal!Running, Signal!References,
         Signal!KeepsListening, Signal!Trying, Signal!Registered, Signal!Waiters
    <2>26. Signal!NothingMissed'
      BY <1>0, <1>1, <1>10, <2>1 DEF Signal!Inv, Signal!NothingMissed, Signal!Only, Signal!Ongoing,
         Signal!Running, Signal!Registered, Signal!Waiters
    <2>27. ASSUME NEW x \in SignalSubscribers PROVE Signal!AwaitsMade(x)'
      BY <1>0, <1>1, <1>10, <2>1 DEF Signal!Inv, Signal!AwaitsMade, Signal!Attempts
    <2> QED BY <2>20, <2>21, <2>22, <2>23, <2>24, <2>25, <2>26, <2>27 DEF Signal!Inv
  <1>11. CASE ~v12 /\ Signal!Registered # {} /\ v6 = 0 /\ Signal!Joinable
    <2>1. v4' = [v4 EXCEPT ![v8].byTimer = TRUE] /\ UNCHANGED <<v5, v8>>
      BY <1>11 DEF Signal!TimerFires
    <2>2. v8 \in Signal!Attempts /\ v4[v8].epoch = v9 /\ v4[v8].pc \in Signal!Running
      BY <1>0, <1>11 DEF Signal!Joinable, Signal!Inv, Signal!TypeOK, Signal!Attempts, Signal!References
    <2>3. /\ v4' \in [Signal!Attempts -> Signal!Attempt]
          /\ \A e \in Signal!Attempts : /\ v4'[e].pc = v4[e].pc /\ v4'[e].epoch = v4[e].epoch
                                 /\ v4'[e].again = v4[e].again
          /\ v4'[v8].byTimer
      BY <1>0, <2>1, <2>2 DEF Signal!Attempt
    <2>4. Signal!Ongoing(v8)' /\ \A e \in Signal!Attempts : Signal!Ongoing(e)' => Signal!Ongoing(e) /\ e = v8
      BY <1>1, <2>1, <2>2, <2>3 DEF Signal!Ongoing, Signal!Inv, Signal!Only
    <2>20. Signal!TypeOK'
      <3>1. v10' \in BOOLEAN /\ v11' \in BOOLEAN /\ v12' \in BOOLEAN /\ v13' \in BOOLEAN
        BY <1>0, <1>1, <1>11, <2>1, <2>2, <2>3, <2>4, Zenon DEF Signal!TypeOK
      <3>2. v4' \in [Signal!Attempts -> Signal!Attempt]
        BY <1>0, <1>1, <1>11, <2>1, <2>2, <2>3, <2>4, SignalStatuses DEF Signal!TypeOK, Signal!Attempt
      <3>3. /\ v1' \in [SignalSubscribers -> {"out", "waiting", "in"}] /\ v3' \subseteq SignalSubscribers
            /\ v2' \in [SignalSubscribers -> 0..MaxAttempts]
        BY <1>0, <1>1, <1>11, <2>1, <2>2, <2>3, <2>4, SignalAssumption DEF Signal!TypeOK, Signal!Attempts
      <3>4. /\ {v5', v6', v7', v8'} \subseteq 0..MaxAttempts /\ v9' \in Nat
            /\ v14' \subseteq {"overtaken", "unarmed"} /\ v15' \in 0..SignalFaults
        BY <1>0, <1>1, <1>11, <2>1, <2>2, <2>3, <2>4, SignalAssumption DEF Signal!TypeOK, Signal!Attempts
      <3> QED BY <3>1, <3>2, <3>3, <3>4, Zenon DEF Signal!TypeOK
    <2>21. Signal!References'
      BY <1>0, <1>1, <1>11, <2>1, <2>2, <2>3, <2>4, SignalStatuses DEF Signal!Inv, Signal!TypeOK,
         Signal!Attempt, Signal!Attempts, Signal!Running, Signal!Made, Signal!Only, Signal!Ongoing,
         Signal!References
    <2>22. Signal!Armed'
      BY <1>0, <1>1, <1>11, <2>1, <2>2, <2>3, <2>4 DEF Signal!Inv, Signal!Armed
    <2>23. ASSUME NEW e \in Signal!Attempts PROVE Signal!Made(e)'
      BY <1>0, <1>1, <1>11, <2>1, <2>2, <2>3, <2>4, SignalStatuses DEF Signal!Inv, Signal!TypeOK,
         Signal!Attempt, Signal!Made, Signal!References, Signal!Running
    <2>24. ASSUME NEW e \in Signal!Attempts PROVE Signal!Only(e)'
      BY <1>1, <2>1, <2>3, <2>4 DEF Signal!Inv, Signal!Only, Signal!Waiters, Signal!Registered
    <2>25. Signal!KeepsListening'
      BY <2>1, <2>2, <2>4 DEF Signal!KeepsListening, Signal!Trying, Signal!Ongoing
    <2>26. Signal!NothingMissed'
      BY <1>0, <1>1, <1>11, <2>1, <2>2, <2>3, <2>4 DEF Signal!Inv, Signal!NothingMissed, Signal!Only,
         Signal!Ongoing, Signal!Running, Signal!Registered, Signal!Waiters
    <2>27. ASSUME NEW x \in SignalSubscribers PROVE Signal!AwaitsMade(x)'
      BY <1>0, <1>1, <1>11, <2>1, <2>2, <2>3, <2>4 DEF Signal!Inv, Signal!AwaitsMade, Signal!Attempts
    <2> QED BY <2>20, <2>21, <2>22, <2>23, <2>24, <2>25, <2>26, <2>27 DEF Signal!Inv
  <1>12. CASE ~v12 /\ Signal!Registered # {} /\ v6 = 0 /\ ~Signal!Joinable
    <2>1. Signal!Connect(TRUE)
      BY <1>12 DEF Signal!TimerFires
    <2>2. /\ v4' \in [Signal!Attempts -> Signal!Attempt]
             /\ v5' = v5 + 1 /\ v8' = v5 + 1 /\ v5 + 1 \in Signal!Attempts
             /\ v4'[v5 + 1].pc = "password" /\ v4'[v5 + 1].epoch = v9
             /\ v4'[v5 + 1].again = v11 /\ v4'[v5 + 1].byTimer = TRUE
             /\ \A e \in Signal!Attempts \ {v5 + 1} : v4'[e] = v4[e]
      BY <1>0, <2>1, SignalConnectIs
    <2>3. \A e \in Signal!Attempts : ~Signal!Ongoing(e)
      BY <1>0, <1>12 DEF Signal!Inv, Signal!Only, Signal!Ongoing, Signal!Joinable
    <2>4. v11 \/ v14 # {}
      BY <1>1, <1>12 DEF Signal!Inv, Signal!Armed
    <2>6. ASSUME NEW e \in Signal!Attempts, Signal!Ongoing(e)' PROVE e = v5 + 1
      BY <1>1, <2>2, <2>3, <2>6 DEF Signal!Ongoing
    <2>7. v4'[v5 + 1].pc \in Signal!Running /\ v4'[v5 + 1].epoch = v9'
      BY <1>1, <2>2 DEF Signal!Running
    <2>8. v5 \in Nat /\ v9 \in Nat /\ \A e \in Signal!Attempts : e <= v5 \/ e > v5
      BY <1>0, SignalAssumption DEF Signal!TypeOK, Signal!Attempts
    <2>20. Signal!TypeOK'
      <3>1. v10' \in BOOLEAN /\ v11' \in BOOLEAN /\ v12' \in BOOLEAN /\ v13' \in BOOLEAN
        BY <1>0, <1>1, <1>12, <2>1, <2>2, <2>3, <2>4, <2>6, <2>7, <2>8, Zenon DEF Signal!TypeOK
      <3>2. v4' \in [Signal!Attempts -> Signal!Attempt]
        BY <1>0, <1>1, <1>12, <2>1, <2>2, <2>3, <2>4, <2>6, <2>7, <2>8, SignalStatuses DEF Signal!TypeOK,
           Signal!Attempt
      <3>3. /\ v1' \in [SignalSubscribers -> {"out", "waiting", "in"}] /\ v3' \subseteq SignalSubscribers
            /\ v2' \in [SignalSubscribers -> 0..MaxAttempts]
        BY <1>0, <1>1, <1>12, <2>1, <2>2, <2>3, <2>4, <2>6, <2>7, <2>8, SignalAssumption DEF
           Signal!TypeOK, Signal!Attempts
      <3>4. /\ {v5', v6', v7', v8'} \subseteq 0..MaxAttempts /\ v9' \in Nat
            /\ v14' \subseteq {"overtaken", "unarmed"} /\ v15' \in 0..SignalFaults
        BY <1>0, <1>1, <1>12, <2>1, <2>2, <2>3, <2>4, <2>6, <2>7, <2>8, SignalAssumption DEF
           Signal!TypeOK, Signal!Attempts
      <3> QED BY <3>1, <3>2, <3>3, <3>4, Zenon DEF Signal!TypeOK
    <2>21. Signal!References'
      BY <1>0, <1>1, <1>12, <2>1, <2>2, <2>3, <2>4, <2>6, <2>7, <2>8, SignalStatuses DEF Signal!Inv,
         Signal!TypeOK, Signal!Attempt, Signal!Attempts, Signal!Running, Signal!Made, Signal!Only,
         Signal!Ongoing, Signal!References
    <2>22. Signal!Armed'
      BY <1>0, <1>1, <1>12, <2>1, <2>2, <2>3, <2>4, <2>6, <2>7, <2>8 DEF Signal!Inv, Signal!Armed
    <2>23. ASSUME NEW e \in Signal!Attempts PROVE Signal!Made(e)'
      <3>1. CASE e = v5 + 1
        BY <1>0, <1>1, <2>2, <2>8, <3>1 DEF Signal!Made
      <3>2. CASE e # v5 + 1
        <4>1. v4'[e] = v4[e] /\ Signal!Made(e) /\ (e > v5 <=> e > v5 + 1)
          BY <1>0, <2>2, <2>8, <3>2 DEF Signal!Inv
        <4> QED BY <1>1, <2>2, <4>1 DEF Signal!Made
      <3> QED BY <3>1, <3>2
    <2>24. ASSUME NEW e \in Signal!Attempts PROVE Signal!Only(e)'
      BY <1>0, <1>1, <1>12, <2>2, <2>4, <2>6 DEF Signal!Only
    <2>25. Signal!KeepsListening'
      BY <2>2, <2>7 DEF Signal!KeepsListening, Signal!Trying, Signal!Ongoing
    <2>26. Signal!NothingMissed'
      BY <1>1, <1>12 DEF Signal!NothingMissed
    <2>27. ASSUME NEW x \in SignalSubscribers PROVE Signal!AwaitsMade(x)'
      <3>1. v2'[x] \in {v2[x], v5 + 1} /\ v2[x] <= v5 /\ v2[x] \in Nat
        BY <1>0, <1>1, <2>1 DEF Signal!Inv, Signal!TypeOK, Signal!AwaitsMade
      <3> QED BY <2>2, <2>8, <3>1 DEF Signal!AwaitsMade
    <2> QED BY <2>20, <2>21, <2>22, <2>23, <2>24, <2>25, <2>26, <2>27 DEF Signal!Inv
  <1> QED BY <1>1, <1>10, <1>11, <1>12 DEF Signal!TimerFires

(* Commit: nobody listens.                                                  *)
LEMMA SignalCommitKeeps ==
    ASSUME Signal!Inv, Signal!Commit
    PROVE  Signal!Inv'
  <1>0. /\ Signal!TypeOK /\ \A e \in Signal!Attempts : e \in Nat \ {0} /\ e <= MaxAttempts /\
             v4[e] \in Signal!Attempt
        /\ v4 \in [Signal!Attempts -> Signal!Attempt]
    BY SignalAssumption DEF Signal!Inv, Signal!Attempts, Signal!TypeOK
  <1>20. Signal!TypeOK'
    <2>1. v10' \in BOOLEAN /\ v11' \in BOOLEAN /\ v12' \in BOOLEAN /\ v13' \in BOOLEAN
      BY <1>0, Zenon DEF Signal!TypeOK, Signal!Commit, Signal!Registered, Signal!slots
    <2>2. v4' \in [Signal!Attempts -> Signal!Attempt]
      BY <1>0, SignalStatuses DEF Signal!TypeOK, Signal!Attempt, Signal!Commit, Signal!Registered,
         Signal!slots
    <2>3. /\ v1' \in [SignalSubscribers -> {"out", "waiting", "in"}] /\ v3' \subseteq SignalSubscribers
          /\ v2' \in [SignalSubscribers -> 0..MaxAttempts]
      BY <1>0, SignalAssumption DEF Signal!TypeOK, Signal!Attempts, Signal!Commit, Signal!Registered,
         Signal!slots
    <2>4. /\ {v5', v6', v7', v8'} \subseteq 0..MaxAttempts /\ v9' \in Nat
          /\ v14' \subseteq {"overtaken", "unarmed"} /\ v15' \in 0..SignalFaults
      BY <1>0, SignalAssumption DEF Signal!TypeOK, Signal!Attempts, Signal!Commit, Signal!Registered,
         Signal!slots
    <2> QED BY <2>1, <2>2, <2>3, <2>4, Zenon DEF Signal!TypeOK

  <1>21. Signal!References'
    BY <1>0, SignalStatuses DEF Signal!Inv, Signal!TypeOK, Signal!Attempt, Signal!Attempts,
       Signal!Running, Signal!Made, Signal!Only, Signal!Ongoing, Signal!References, Signal!Commit,
       Signal!Registered, Signal!slots
  <1>22. Signal!Armed'
    BY <1>0, SignalStatuses DEF Signal!Inv, Signal!TypeOK, Signal!Attempt, Signal!Armed, Signal!Commit,
       Signal!Registered, Signal!slots
  <1>23. ASSUME NEW e \in Signal!Attempts PROVE Signal!Made(e)'
    BY <1>0, SignalStatuses DEF Signal!Inv, Signal!TypeOK, Signal!Attempt, Signal!Made, Signal!References,
       Signal!Running, Signal!Commit, Signal!Registered, Signal!slots
  <1>24. ASSUME NEW e \in Signal!Attempts PROVE Signal!Only(e)'
    BY <1>0, SignalStatuses DEF Signal!Inv, Signal!TypeOK, Signal!Attempt, Signal!Made, Signal!Only,
       Signal!Ongoing, Signal!Running, Signal!References, Signal!Registered, Signal!Waiters,
       Signal!AwaitsMade, Signal!Commit, Signal!Registered, Signal!slots
  <1>25. Signal!KeepsListening'
    BY <1>0, SignalStatuses DEF Signal!Inv, Signal!TypeOK, Signal!Attempt, Signal!Made, Signal!Only,
       Signal!Ongoing, Signal!Running, Signal!References, Signal!KeepsListening, Signal!Trying,
       Signal!Registered, Signal!Waiters, Signal!Commit, Signal!Registered, Signal!slots
  <1>26. Signal!NothingMissed'
    BY <1>0, SignalStatuses DEF Signal!Inv, Signal!TypeOK, Signal!Attempt, Signal!NothingMissed,
       Signal!Only, Signal!Ongoing, Signal!Running, Signal!Registered, Signal!Waiters, Signal!Commit,
       Signal!Registered, Signal!slots
  <1>27. ASSUME NEW x \in SignalSubscribers PROVE Signal!AwaitsMade(x)'
    BY <1>0, SignalStatuses DEF Signal!Inv, Signal!TypeOK, Signal!Attempt, Signal!AwaitsMade,
       Signal!Commit, Signal!Registered, Signal!slots
  <1> QED BY <1>20, <1>21, <1>22, <1>23, <1>24, <1>25, <1>26, <1>27 DEF Signal!Inv

(* Every step keeps the invariant.                                          *)
LEMMA SignalNextInv ==
    ASSUME Signal!Inv, [Signal!Next]_Signal!vars
    PROVE  Signal!Inv'
  <1>1. CASE UNCHANGED Signal!vars
    BY <1>1 DEF Signal!Inv, Signal!TypeOK, Signal!References, Signal!Armed, Signal!KeepsListening,
       Signal!NothingMissed, Signal!Trying, Signal!Registered, Signal!Made,
       Signal!Only, Signal!Ongoing, Signal!Waiters, Signal!AwaitsMade, Signal!vars, Signal!slots
  <1>2. CASE Signal!Next
    BY <1>2, SignalSubscribeKeeps, SignalUnsubscribeKeeps, SignalCloseKeeps, SignalCreatedKeeps,
       SignalConnectedKeeps, SignalListeningKeeps, SignalListeningLateKeeps, SignalAttemptFailsKeeps,
       SignalBreaksKeeps, SignalFailureKeeps, SignalTimerFiresKeeps, SignalCommitKeeps DEF Signal!Next
  <1> QED BY <1>1, <1>2

(* What a subscriber may rely on.                                           *)
LEMMA SignalInvSays ==
    ASSUME Signal!Inv
    PROVE  Signal!ListensOn
  BY DEF Signal!Inv, Signal!ListensOn

------------------------------------------------------------------------------
(* WorkReconciler: v1 rows, v2 after, v3 through, v4 due, v5 seen,          *)
(* v6 started, v7 starting, v8 stopping, v9 stopped, v10 overlapped,        *)
(* v11 subscribed, v12 timer, v13 rearm, v14 scan, v15 changes.             *)

(* The types one by one.                                                    *)
LEMMA ReconcilerTypes ==
    Reconciler!TypeOK <=>
       /\ v1 \subseteq Reconciler!Rows /\ v4 \subseteq Reconciler!Rows /\ v5 \subseteq Reconciler!Rows
       /\ v2 \in 0..MaxRow /\ v3 \in 0..MaxRow /\ v15 \in 0..MaxChanges
       /\ v6 \in BOOLEAN /\ v8 \in BOOLEAN /\ v9 \in BOOLEAN /\ v10 \in BOOLEAN
       /\ v11 \in BOOLEAN /\ v12 \in BOOLEAN /\ v13 \in BOOLEAN
       /\ v7 \in {"no", "subscribing", "scanning"} /\ v14 \in {"none", "ceiling", "page"}
  <1>1. {v6, v8, v9, v10, v11, v12, v13} \subseteq BOOLEAN <=>
           /\ v6 \in BOOLEAN /\ v8 \in BOOLEAN /\ v9 \in BOOLEAN /\ v10 \in BOOLEAN
           /\ v11 \in BOOLEAN /\ v12 \in BOOLEAN /\ v13 \in BOOLEAN
    BY Zenon
  <1>2. {v2, v3} \subseteq 0..MaxRow <=> v2 \in 0..MaxRow /\ v3 \in 0..MaxRow
    BY Zenon
  <1> QED BY <1>1, <1>2, Zenon DEF Reconciler!TypeOK

(* Nothing is started, and no cycle has begun.                              *)
LEMMA ReconcilerInit == Reconciler!Init => Reconciler!Inv
  <1> SUFFICES ASSUME Reconciler!Init PROVE Reconciler!Inv
    OBVIOUS
  <1>1. /\ v1 \subseteq Reconciler!Rows /\ v4 = {} /\ v5 = {} /\ v2 = 0 /\ v3 = 0 /\ v15 = 0
        /\ v6 = FALSE /\ v8 = FALSE /\ v9 = FALSE /\ v10 = FALSE /\ v11 = FALSE /\ v12 = FALSE /\ v13 = FALSE
        /\ v7 = "no" /\ v14 = "none"
    BY DEF Reconciler!Init
  <1>2. v6 \in BOOLEAN /\ v8 \in BOOLEAN /\ v9 \in BOOLEAN /\ v10 \in BOOLEAN
        /\ v11 \in BOOLEAN /\ v12 \in BOOLEAN /\ v13 \in BOOLEAN
    BY <1>1
  <1>3. Reconciler!TypeOK
    BY <1>1, <1>2, ReconcilerAssumption, ReconcilerTypes
  <1> QED BY <1>1, <1>3 DEF Reconciler!Inv, Reconciler!LaneOK,
             Reconciler!StopOK, Reconciler!KeepsScanning, Reconciler!StoppedIsQuiet

(* A set of natural numbers that is not empty has a smallest member.        *)
LEMMA Least ==
    ASSUME NEW T \in SUBSET Nat, T # {}
    PROVE  \E n \in T : \A m \in T : n <= m
  <1> DEFINE R == OpToRel(<, Nat)
  <1>1. IsWellFoundedOn(R, Nat)
    BY NatLessThanWellFounded
  <1>2. \A x, y \in Nat : x < y => <<x, y>> \in R
    BY DEF OpToRel
  <1> HIDE DEF R
  <1>3. PICK n \in T : \A y \in T : ~ (<<y, n>> \in R)
    BY <1>1, WFMin
  <1>4. ASSUME NEW m \in T PROVE n <= m
    <2>1. ~(m < n)
      BY <1>2, <1>3
    <2> QED BY <2>1
  <1> QED BY <1>4

(* The largest row is one of them, and none is larger.                      *)
LEMMA LargestRow ==
    ASSUME NEW S \in SUBSET (1..MaxRow), S # {}
    PROVE  Reconciler!Max(S) \in S /\ \A r \in S : r <= Reconciler!Max(S)
  <1> DEFINE T == {MaxRow - r : r \in S}
  <1>1. T \in SUBSET Nat /\ T # {}
    <2>1. ASSUME NEW r \in S PROVE MaxRow - r \in Nat
      BY ReconcilerAssumption
    <2>2. PICK r \in S : TRUE
      OBVIOUS
    <2>3. MaxRow - r \in T
      OBVIOUS
    <2> QED BY <2>1, <2>3
  <1> HIDE DEF T
  <1>2. PICK n \in T : \A m \in T : n <= m
    BY <1>1, Least
  <1> USE DEF T
  <1>3. PICK x \in S : n = MaxRow - x
    BY <1>2
  <1>4. \A r \in S : x >= r
    <2>1. SUFFICES ASSUME NEW r \in S PROVE x >= r
      OBVIOUS
    <2>2. MaxRow - x <= MaxRow - r
      BY <1>2, <1>3
    <2> QED BY <2>2, ReconcilerAssumption
  <1> QED BY <1>3, <1>4, ReconcilerAssumption DEF Reconciler!Max

(* The instance's Cardinality is the library's.                             *)
LEMMA RowCardinality == \A S : Reconciler!Cardinality(S) = Cardinality(S)
  BY DEF Reconciler!Cardinality, Cardinality

(* A page holds the first of the rows behind the cursor: one row of it      *)
(* brings the rows before it, and one that is short leaves none.            *)
LEMMA PageOfRows ==
    ASSUME Reconciler!TypeOK
    PROVE  LET open == {r \in v1 : v2 < r /\ r <= v3} IN
           /\ Reconciler!Page \subseteq open
           /\ \A r \in open, q \in Reconciler!Page : r <= q => r \in Reconciler!Page
           /\ Cardinality(Reconciler!Page) < PageSize => Reconciler!Page = open
  <1> DEFINE open == {r \in v1 : v2 < r /\ r <= v3}
  <1> DEFINE Before(r) == {q \in open : q < r}
  <1>0. v1 \subseteq 1..MaxRow /\ IsFiniteSet(v1) /\ v1 \subseteq Nat
    <2>1. v1 \subseteq 1..MaxRow
      BY DEF Reconciler!TypeOK, Reconciler!Rows
    <2>2. IsFiniteSet(1..MaxRow)
      <3>1. 1 \in Int /\ MaxRow \in Int
        BY ReconcilerAssumption
      <3> QED BY <3>1, FS_Interval
    <2>3. v1 \subseteq Nat
      BY <2>1, ReconcilerAssumption
    <2> QED BY <2>1, <2>2, <2>3, FS_Subset
  <1> DEFINE size == [r \in open |-> Cardinality(Before(r))]
  <1>1. Reconciler!Page = {r \in open : size[r] < PageSize}
    BY RowCardinality DEF Reconciler!Page
  <1>2. \A r \in open : /\ size[r] = Cardinality(Before(r)) /\ size[r] \in Nat /\ IsFiniteSet(Before(r))
    <2>1. \A r : Before(r) \subseteq v1
      OBVIOUS
    <2> QED BY <1>0, <2>1, FS_Subset, FS_CardinalityType
  <1>3. open \subseteq Nat /\ \A r, x : x \in Before(r) <=> x \in open /\ x < r
    BY <1>0
  <1>4. IsFiniteSet(open)
    BY <1>0, FS_Subset
  <1> HIDE DEF size, Before, open
  <1>5. IsFiniteSet(Reconciler!Page) /\ Cardinality(Reconciler!Page) \in Nat /\ Reconciler!Page \subseteq open
    BY <1>1, <1>4, FS_Subset, FS_CardinalityType
  <1>6. ASSUME NEW r \in open, NEW q \in Reconciler!Page, r <= q
        PROVE  r \in Reconciler!Page
    <2>1. r \in Nat /\ q \in Nat /\ q \in open
      BY <1>3, <1>5
    <2>2. Before(r) \subseteq Before(q)
      <3>1. ASSUME NEW x \in Before(r) PROVE x \in Before(q)
        <4>1. x \in Nat /\ x < r /\ x \in open
          BY <1>3
        <4> QED BY <1>3, <1>6, <2>1, <4>1
      <3> QED BY <3>1
    <2>3. Cardinality(Before(r)) <= Cardinality(Before(q))
      BY <1>2, <2>1, <2>2, FS_Subset
    <2>4. size[r] <= size[q] /\ size[q] < PageSize
      BY <1>1, <1>2, <2>1, <2>3
    <2> QED BY <1>1, <1>2, <2>1, <2>4, ReconcilerAssumption
  <1>7. ASSUME Cardinality(Reconciler!Page) < PageSize, open \ Reconciler!Page # {}
        PROVE  FALSE
    <2>1. PICK r \in open \ Reconciler!Page : \A q \in open \ Reconciler!Page : r <= q
      <3>1. open \ Reconciler!Page \in SUBSET Nat
        BY <1>3
      <3> QED BY <1>7, <3>1, Least
    <2>2. Before(r) \subseteq Reconciler!Page
      <3>1. ASSUME NEW x \in Before(r) PROVE x \in Reconciler!Page
        <4>1. x \in Nat /\ r \in Nat /\ x < r /\ x \in open
          BY <1>3
        <4> QED BY <2>1, <4>1
      <3> QED BY <3>1
    <2>3. Cardinality(Before(r)) <= Cardinality(Reconciler!Page)
      BY <1>5, <2>2, FS_Subset
    <2>4. size[r] <= Cardinality(Reconciler!Page) /\ size[r] \in Nat
      BY <1>2, <2>1, <2>3
    <2>5. size[r] < PageSize
      BY <1>5, <1>7, <2>4, ReconcilerAssumption
    <2> QED BY <1>1, <2>1, <2>5
  <1> QED BY <1>5, <1>6, <1>7 DEF open

(* After a page nothing that is due is left up to its last row, nor at all  *)
(* if it ends the cycle.                                                    *)
LEMMA PageCovers ==
    ASSUME Reconciler!Inv, v3 # 0
    PROVE  /\ Reconciler!CycleEnds(Reconciler!Page) => v4 \subseteq v5 \cup Reconciler!Page
           /\ Reconciler!Page # {} =>
                 /\ Reconciler!Max(Reconciler!Page) \in Reconciler!Page
                 /\ \A r \in v4 : r <= Reconciler!Max(Reconciler!Page) => r \in v5 \cup Reconciler!Page
  <1> DEFINE open == {r \in v1 : v2 < r /\ r <= v3}
  <1>0. /\ v4 \subseteq v1 /\ v1 \subseteq 1..MaxRow /\ v2 \in 0..MaxRow /\ v3 \in 0..MaxRow
        /\ \A r \in v4 : r <= v3 /\ (r <= v2 => r \in v5)
    BY DEF Reconciler!Inv, Reconciler!TypeOK, Reconciler!LaneOK, Reconciler!Rows
  <1>1. /\ Reconciler!Page \subseteq open
        /\ \A r \in open, q \in Reconciler!Page : r <= q => r \in Reconciler!Page
        /\ Cardinality(Reconciler!Page) < PageSize => Reconciler!Page = open
    BY PageOfRows DEF Reconciler!Inv
  <1>2. \A r \in v4 : r \in v5 \/ r \in open
    BY <1>0
  <1>3. ASSUME Reconciler!Page # {}
        PROVE  /\ Reconciler!Max(Reconciler!Page) \in Reconciler!Page
               /\ \A r \in v4 : r <= Reconciler!Max(Reconciler!Page) => r \in v5 \cup Reconciler!Page
    <2>1. Reconciler!Page \in SUBSET (1..MaxRow)
      BY <1>0, <1>1
    <2> QED BY <1>1, <1>2, <1>3, <2>1, LargestRow
  <1>4. ASSUME Reconciler!CycleEnds(Reconciler!Page) PROVE v4 \subseteq v5 \cup Reconciler!Page
    <2>1. CASE Reconciler!Page = {} \/ Reconciler!Cardinality(Reconciler!Page) < PageSize
      <3>1. Cardinality(Reconciler!Page) < PageSize
        BY <2>1, RowCardinality, FS_EmptySet, ReconcilerAssumption
      <3> QED BY <1>1, <1>2, <3>1
    <2>2. CASE Reconciler!Page # {} /\ Reconciler!Max(Reconciler!Page) = v3
      BY <1>0, <1>3, <2>2
    <2> QED BY <1>4, <2>1, <2>2 DEF Reconciler!CycleEnds
  <1> QED BY <1>3, <1>4

(* Every step of the reconciler keeps the invariant.                        *)
LEMMA ReconcilerStep == Reconciler!Inv /\ [Reconciler!Next]_Reconciler!vars => Reconciler!Inv'
  <1> SUFFICES ASSUME Reconciler!Inv, [Reconciler!Next]_Reconciler!vars PROVE Reconciler!Inv'
    OBVIOUS
  <1>0. /\ Reconciler!TypeOK /\ Reconciler!LaneOK /\ Reconciler!StopOK
        /\ Reconciler!KeepsScanning /\ Reconciler!StoppedIsQuiet
    BY DEF Reconciler!Inv
  <1>1. ASSUME UNCHANGED <<v1, v2, v3, v4, v5, v15>>,
               v6' \in BOOLEAN, v7' \in {"no", "subscribing", "scanning"}, v8' \in BOOLEAN, v9' \in BOOLEAN,
               v10' \in BOOLEAN, v11' \in BOOLEAN, v12' \in BOOLEAN, v13' \in BOOLEAN,
               v14' \in {"none", "ceiling", "page"},
               Reconciler!StopOK', Reconciler!KeepsScanning', Reconciler!StoppedIsQuiet'
        PROVE  Reconciler!Inv'
    BY <1>0, <1>1 DEF Reconciler!Inv, Reconciler!TypeOK, Reconciler!LaneOK
  <1>2. CASE UNCHANGED Reconciler!vars
    BY <1>0, <1>2 DEF Reconciler!vars, Reconciler!rowVars, Reconciler!laneVars, Reconciler!lifeVars,
       Reconciler!Inv, Reconciler!TypeOK, Reconciler!LaneOK, Reconciler!StopOK,
       Reconciler!KeepsScanning, Reconciler!StoppedIsQuiet
  <1>3. CASE \/ Reconciler!Wakeup \/ Reconciler!TimerFires \/ Reconciler!start \/ Reconciler!Subscribed
             \/ Reconciler!SubscribeFails \/ Reconciler!stop \/ Reconciler!CeilingKnown
    <2>1. UNCHANGED <<v1, v2, v3, v4, v5, v15>>
      BY <1>3 DEF Reconciler!Wakeup, Reconciler!TimerFires, Reconciler!start, Reconciler!Subscribed,
         Reconciler!SubscribeFails, Reconciler!stop, Reconciler!CeilingKnown, Reconciler!rowVars, Reconciler!laneVars
    <2> QED BY <1>0, <1>1, <1>3, <2>1
         DEF Reconciler!Wakeup, Reconciler!TimerFires, Reconciler!start, Reconciler!Subscribed,
             Reconciler!SubscribeFails, Reconciler!stop, Reconciler!CeilingKnown, Reconciler!lifeVars,
             Reconciler!RequestScan, Reconciler!TypeOK, Reconciler!StopOK, Reconciler!KeepsScanning,
             Reconciler!StoppedIsQuiet
  <1>4. CASE Reconciler!Enter \/ Reconciler!Exit
    <2>1. /\ UNCHANGED <<v2, v3, v5, v6, v7, v8, v9, v10, v11, v12, v13, v14>>
          /\ v1' \subseteq 1..MaxRow /\ v4' \subseteq v4 /\ v4' \subseteq v1' /\ v15' \in 0..MaxChanges
      <3>1. v1 \subseteq 1..MaxRow /\ v4 \subseteq v1 /\ v15 \in 0..MaxChanges
        BY <1>0, ReconcilerTypes DEF Reconciler!LaneOK, Reconciler!Rows
      <3>2. /\ UNCHANGED <<v2, v3, v5, v6, v7, v8, v9, v10, v11, v12, v13, v14>>
            /\ v15 < MaxChanges /\ v15' = v15 + 1
        BY <1>4 DEF Reconciler!Enter, Reconciler!Exit, Reconciler!laneVars, Reconciler!lifeVars
      <3>3. v1' \subseteq 1..MaxRow /\ v4' \subseteq v4 /\ v4' \subseteq v1'
        BY <1>4, <3>1 DEF Reconciler!Enter, Reconciler!Exit, Reconciler!Rows
      <3> QED BY <3>1, <3>2, <3>3, ReconcilerAssumption
    <2> QED BY <1>0, <2>1 DEF Reconciler!Inv, Reconciler!TypeOK, Reconciler!LaneOK, Reconciler!StopOK,
               Reconciler!KeepsScanning, Reconciler!StoppedIsQuiet, Reconciler!Rows
  <1>5. CASE Reconciler!Ceiling
    <2>1. /\ UNCHANGED <<v1, v6, v7, v8, v9, v10, v11, v12, v13, v15>>
          /\ v1 # {} /\ v3' = Reconciler!Max(v1) /\ v4' = v1 /\ v2' = 0 /\ v5' = {} /\ v14 = "ceiling" /\ v14' = "page"
      BY <1>5 DEF Reconciler!Ceiling, Reconciler!lifeVars
    <2>2. v1 \in SUBSET (1..MaxRow) /\ v3' \in v1 /\ \A r \in v1 : r <= v3'
      BY <1>0, <2>1, LargestRow DEF Reconciler!TypeOK, Reconciler!Rows
    <2>3. Reconciler!TypeOK' /\ Reconciler!LaneOK'
      BY <1>0, <2>1, <2>2, ReconcilerAssumption DEF Reconciler!TypeOK, Reconciler!LaneOK, Reconciler!Rows
    <2> QED BY <1>0, <2>1, <2>3 DEF Reconciler!Inv, Reconciler!StopOK, Reconciler!KeepsScanning, Reconciler!StoppedIsQuiet
  <1>6. ASSUME Reconciler!Settle, v14 # "none", UNCHANGED <<v1, v4, v15>>,
               v2' \in 0..MaxRow, v3' \in 0..MaxRow, v5' \subseteq Reconciler!Rows, Reconciler!LaneOK'
        PROVE  Reconciler!Inv'
    <2>1. Reconciler!TypeOK'
      BY <1>0, <1>6 DEF Reconciler!TypeOK, Reconciler!Settle, Reconciler!scheduleAntiEntropy
    <2> QED BY <1>0, <1>6, <2>1 DEF Reconciler!Inv, Reconciler!TypeOK, Reconciler!Settle, Reconciler!scheduleAntiEntropy,
               Reconciler!StopOK, Reconciler!KeepsScanning, Reconciler!StoppedIsQuiet
  <1>7. CASE Reconciler!NothingThere
    BY <1>0, <1>6, <1>7 DEF Reconciler!NothingThere, Reconciler!rowVars, Reconciler!laneVars, Reconciler!TypeOK,
       Reconciler!LaneOK
  <1>8. CASE Reconciler!ReadPage
    <2>1. PICK page : page = Reconciler!Page
      OBVIOUS
    <2>2. /\ Reconciler!Settle /\ v14 # "none" /\ UNCHANGED <<v1, v4, v15>> /\ v5' = v5 \cup page
          /\ \/ v2' = 0 /\ v3' = 0
             \/ page # {} /\ v2' = Reconciler!Max(page) /\ v3' = v3
      BY <1>8, <2>1 DEF Reconciler!ReadPage, Reconciler!rowVars, Reconciler!CycleEnds
    <2>3. page \subseteq 1..MaxRow
      BY <1>0, <2>1, PageOfRows DEF Reconciler!TypeOK, Reconciler!Rows
    <2>4. v2' \in 0..MaxRow /\ v3' \in 0..MaxRow
      <3>1. page # {} => Reconciler!Max(page) \in 1..MaxRow
        BY <2>3, LargestRow
      <3> QED BY <1>0, <2>2, <3>1, ReconcilerAssumption DEF Reconciler!TypeOK
    <2>5. v5' \subseteq Reconciler!Rows
      BY <1>0, <2>2, <2>3 DEF Reconciler!TypeOK, Reconciler!Rows
    <2>6. Reconciler!LaneOK'
      <3>1. CASE v3' = 0
        BY <1>0, <2>2, <3>1 DEF Reconciler!LaneOK
      <3>2. CASE v3' # 0
        BY <1>0, <2>1, <2>2, <3>2, PageCovers DEF Reconciler!LaneOK
      <3> QED BY <3>1, <3>2
    <2> QED BY <1>6, <2>2, <2>4, <2>5, <2>6
  <1>9. CASE Reconciler!ScanFails
    <2>1. UNCHANGED <<v1, v2, v3, v4, v5, v15>>
      BY <1>9 DEF Reconciler!ScanFails, Reconciler!rowVars, Reconciler!laneVars
    <2> QED BY <1>0, <1>1, <1>9, <2>1 DEF Reconciler!ScanFails, Reconciler!scheduleAntiEntropy, Reconciler!TypeOK,
               Reconciler!StopOK, Reconciler!KeepsScanning, Reconciler!StoppedIsQuiet
  <1>10. CASE Reconciler!StopReturns
    <2>1. /\ UNCHANGED <<v1, v4, v5, v6, v7, v10, v11, v12, v13, v14, v15>>
          /\ v8 /\ v14 = "none" /\ v8' = FALSE /\ v9' = TRUE /\ v2' = 0 /\ v3' = 0
      BY <1>10 DEF Reconciler!StopReturns, Reconciler!rowVars
    <2>2. v8' \in BOOLEAN /\ v9' \in BOOLEAN
      BY <2>1
    <2>3. {v6, v8, v9, v10, v11, v12, v13}' \subseteq BOOLEAN
      <3>1. /\ v6 \in BOOLEAN /\ v10 \in BOOLEAN /\ v11 \in BOOLEAN /\ v12 \in BOOLEAN /\ v13 \in BOOLEAN
        BY <1>0, ReconcilerTypes
      <3> QED BY <2>1, <2>2, <3>1, Zenon
    <2>4. {v2, v3}' \subseteq 0..MaxRow
      BY <2>1, ReconcilerAssumption
    <2>5. Reconciler!TypeOK'
      BY <1>0, <2>1, <2>3, <2>4, Zenon DEF Reconciler!TypeOK
    <2> QED BY <1>0, <2>1, <2>5 DEF Reconciler!Inv, Reconciler!LaneOK,
               Reconciler!StopOK, Reconciler!KeepsScanning, Reconciler!StoppedIsQuiet
  <1> QED BY <1>2, <1>3, <1>4, <1>5, <1>7, <1>8, <1>9, <1>10 DEF Reconciler!Next

(* A cycle that ends by itself has read every row that stayed.              *)
LEMMA ReconcilerCycle == Reconciler!Inv /\ [Reconciler!Next]_Reconciler!vars => Reconciler!CycleReaches
  <1> SUFFICES ASSUME Reconciler!Inv, [Reconciler!Next]_Reconciler!vars, v3 # 0, v3' = 0, ~v8
               PROVE  v4' \subseteq v5'
    BY DEF Reconciler!CycleReaches
  <1>1. Reconciler!ReadPage
    BY DEF Reconciler!Next, Reconciler!vars, Reconciler!rowVars, Reconciler!laneVars, Reconciler!lifeVars,
       Reconciler!Enter, Reconciler!Exit, Reconciler!Ceiling, Reconciler!CeilingKnown, Reconciler!NothingThere,
       Reconciler!ScanFails, Reconciler!Wakeup, Reconciler!TimerFires, Reconciler!start, Reconciler!Subscribed,
       Reconciler!SubscribeFails, Reconciler!stop, Reconciler!StopReturns
  <1>2. Reconciler!CycleEnds(Reconciler!Page) /\ v4' = v4 /\ v5' = v5 \cup Reconciler!Page
    BY <1>1 DEF Reconciler!ReadPage, Reconciler!rowVars
  <1> QED BY <1>2, PageCovers

------------------------------------------------------------------------------
(* DurableRuntime: v1 state, v2 profile, v3 registered, v4 starting, v5     *)
(* releasing, v6 closing, v7 pool, v8 launched, v9 engine, v10 bound, v11   *)
(* running, v12 queued, v13 sent, v14 active, v15 notified, v16 faults.     *)

(* What the invariant says of one runtime.                                  *)
DurableWhole(r) ==
    /\ Durable!Counted(r) /\ Durable!StartedOK(r) /\ Durable!EngineOK(r) /\ Durable!ReleasedOK(r)
    /\ v11[r] # 0 => v7[r] = "open"
    /\ v1[r] = "CLOSED" =>
         v9 # r /\ v10 # r /\ v7[r] \in {"none", "ended"} /\ v11[r] = 0

(* The invariant is that of every runtime.                                  *)
LEMMA DurableInvIs ==
    /\ Durable!Inv <=> Durable!TypeOK /\ \A r \in DurableRuntimes : DurableWhole(r)
    /\ Durable!Inv' <=> Durable!TypeOK' /\ \A r \in DurableRuntimes : DurableWhole(r)'
  BY DEF Durable!Inv, DurableWhole, Durable!DrainedBeforeEnd, Durable!ClosedIsReleased

(* Of one caller in the release of one runtime the rest stays.              *)
LEMMA DurableToIs ==
    ASSUME Durable!TypeOK, NEW r \in DurableRuntimes, NEW c \in Durable!Callers,
           NEW where \in Durable!Where, Durable!To(r, c, where)
    PROVE  /\ v5' \in [DurableRuntimes -> [Durable!Callers -> Durable!Where]]
           /\ v5'[r][c] = where
           /\ \A d \in Durable!Callers \ {c} : v5'[r][d] = v5[r][d]
           /\ \A q \in DurableRuntimes \ {r} : v5'[q] = v5[q]
  BY DEF Durable!TypeOK, Durable!To

(* The callers and where they can be.                                       *)
LEMMA DurableCallersAre ==
    /\ Durable!Callers = {"cleanup", "close"}
    /\ Durable!Where = {"no", "begin", "stopping", "stopped", "ending", "rejected"}
  BY DEF Durable!Callers, Durable!Where

(* A start that fails is no longer starting.                                *)
LEMMA DurableStartFailsIs ==
    ASSUME Durable!TypeOK, NEW r \in DurableRuntimes, Durable!StartFails(r)
    PROVE  /\ v1' \in [DurableRuntimes -> {"CREATED", "STARTING", "OPEN", "FAILED", "CLOSING", "CLOSED"}]
           /\ v4' \in [DurableRuntimes -> {"no", "preflight", "launching", "launched"}]
           /\ v5' \in [DurableRuntimes -> [Durable!Callers -> Durable!Where]]
           /\ v1'[r] = "FAILED" /\ v4'[r] = "no"
           /\ v5'[r]["cleanup"] = "begin" /\ v5'[r]["close"] = v5[r]["close"]
           /\ \A q \in DurableRuntimes \ {r} :
                v1'[q] = v1[q] /\ v4'[q] = v4[q] /\ v5'[q] = v5[q]
  <1>1. Durable!To(r, "cleanup", "begin") /\ "begin" \in Durable!Where /\ "cleanup" \in Durable!Callers
    BY DurableCallersAre DEF Durable!StartFails
  <1>2. /\ v5' \in [DurableRuntimes -> [Durable!Callers -> Durable!Where]]
        /\ v5'[r]["cleanup"] = "begin"
        /\ \A d \in Durable!Callers \ {"cleanup"} : v5'[r][d] = v5[r][d]
        /\ \A q \in DurableRuntimes \ {r} : v5'[q] = v5[q]
    BY <1>1, DurableToIs
  <1> QED BY <1>2, DurableCallersAre DEF Durable!StartFails, Durable!TypeOK

(* Who settles is out of the release; only close() says how it went.        *)
LEMMA DurableSettleIs ==
    ASSUME Durable!TypeOK, NEW r \in DurableRuntimes, NEW c \in Durable!Callers, NEW ok \in BOOLEAN,
           Durable!Settle(r, c, ok)
    PROVE  /\ v1' \in [DurableRuntimes -> {"CREATED", "STARTING", "OPEN", "FAILED", "CLOSING", "CLOSED"}]
           /\ v6' \in [DurableRuntimes -> {"no", "waiting", "closing"}]
           /\ v15' \in [DurableRuntimes -> BOOLEAN]
           /\ v5' \in [DurableRuntimes -> [Durable!Callers -> Durable!Where]]
           /\ v5'[r][c] = "no"
           /\ \A d \in Durable!Callers \ {c} : v5'[r][d] = v5[r][d]
           /\ \A q \in DurableRuntimes \ {r} : v1'[q] = v1[q] /\ v5'[q] = v5[q]
           /\ v1'[r] = v1[r] \/ v1'[r] = "FAILED" \/ (ok /\ v1'[r] = "CLOSED")
  <1>1. Durable!To(r, c, "no") /\ "no" \in Durable!Where
    BY DurableCallersAre DEF Durable!Settle
  <1>2. /\ v5' \in [DurableRuntimes -> [Durable!Callers -> Durable!Where]]
        /\ v5'[r][c] = "no"
        /\ \A d \in Durable!Callers \ {c} : v5'[r][d] = v5[r][d]
        /\ \A q \in DurableRuntimes \ {r} : v5'[q] = v5[q]
    BY <1>1, DurableToIs
  <1>3. CASE c = "close"
    BY <1>2, <1>3 DEF Durable!Settle, Durable!TypeOK
  <1>4. CASE c # "close"
    BY <1>2, <1>4 DEF Durable!Settle, Durable!TypeOK
  <1> QED BY <1>3, <1>4

(* Nothing is started.                                                      *)
LEMMA DurableInitInv ==
    ASSUME Durable!Init
    PROVE  Durable!Inv
  <1>1. Durable!TypeOK
    BY DurableCallersAre, DurableAssumption DEF Durable!Init, Durable!TypeOK
  <1>2. ASSUME NEW r \in DurableRuntimes PROVE DurableWhole(r)
    BY <1>1, DurableCallersAre, DurableAssumption DEF Durable!Init, DurableWhole, Durable!Counted,
       Durable!StartedOK, Durable!Unreleased, Durable!EngineOK, Durable!ReleasedOK, Durable!TypeOK
  <1> QED BY <1>1, <1>2, DurableInvIs

(* A runtime starts when no other has an engine or is on its way.           *)
LEMMA DurableStartKeeps ==
    ASSUME Durable!Inv, NEW r \in DurableRuntimes, Durable!start(r)
    PROVE  Durable!Inv'
  <1>1. Durable!TypeOK /\ \A q \in DurableRuntimes : DurableWhole(q)
    BY DurableInvIs
  <1>2. Durable!TypeOK'
    <2>1. v1' \in [DurableRuntimes -> {"CREATED", "STARTING", "OPEN", "FAILED", "CLOSING", "CLOSED"}]
      BY <1>1, DurableStartFailsIs, DurableCallersAre, DurableAssumption DEF Durable!start,
         Durable!lifeVars, Durable!resourceVars, Durable!attemptVars, Durable!queueVars, Durable!TypeOK
    <2>2. v2' \in [DurableRuntimes -> QueueProfiles] /\ v3' \in QueueProfiles \cup {None}
      BY <1>1, DurableStartFailsIs, DurableCallersAre, DurableAssumption DEF Durable!start,
         Durable!lifeVars, Durable!resourceVars, Durable!attemptVars, Durable!queueVars, Durable!TypeOK
    <2>3. v4' \in [DurableRuntimes -> {"no", "preflight", "launching", "launched"}]
      BY <1>1, DurableStartFailsIs, DurableCallersAre, DurableAssumption DEF Durable!start,
         Durable!lifeVars, Durable!resourceVars, Durable!attemptVars, Durable!queueVars, Durable!TypeOK
    <2>4. v5' \in [DurableRuntimes -> [Durable!Callers -> Durable!Where]]
      BY <1>1, DurableStartFailsIs, DurableCallersAre, DurableAssumption DEF Durable!start,
         Durable!lifeVars, Durable!resourceVars, Durable!attemptVars, Durable!queueVars, Durable!TypeOK
    <2>5. v6' \in [DurableRuntimes -> {"no", "waiting", "closing"}]
          /\ v7' \in [DurableRuntimes -> {"none", "open", "ending", "ended"}]
      BY <1>1, DurableStartFailsIs, DurableCallersAre, DurableAssumption DEF Durable!start,
         Durable!lifeVars, Durable!resourceVars, Durable!attemptVars, Durable!queueVars, Durable!TypeOK
    <2>6. v8' \in [DurableRuntimes -> BOOLEAN] /\ v15' \in [DurableRuntimes -> BOOLEAN] /\ v14' \in BOOLEAN
      BY <1>1, DurableStartFailsIs, DurableCallersAre, DurableAssumption DEF Durable!start,
         Durable!lifeVars, Durable!resourceVars, Durable!attemptVars, Durable!queueVars, Durable!TypeOK
    <2>7. {v9', v10'} \subseteq DurableRuntimes \cup {None}
      BY <1>1, DurableStartFailsIs, DurableCallersAre, DurableAssumption DEF Durable!start,
         Durable!lifeVars, Durable!resourceVars, Durable!attemptVars, Durable!queueVars, Durable!TypeOK
    <2>8. /\ v11' \in [DurableRuntimes -> 0..MaxQueued]
          /\ v12' \in 0..MaxQueued /\ v13' \in 0..MaxQueued /\ v16' \in 0..DurableFaults
      BY <1>1, DurableStartFailsIs, DurableCallersAre, DurableAssumption DEF Durable!start,
         Durable!lifeVars, Durable!resourceVars, Durable!attemptVars, Durable!queueVars, Durable!TypeOK
    <2> QED BY <2>1, <2>2, <2>3, <2>4, <2>5, <2>6, <2>7, <2>8 DEF Durable!TypeOK
  <1>3. ASSUME NEW q \in DurableRuntimes PROVE DurableWhole(q)'
    <2>1. CASE q # r
      BY <2>1, <1>1, DurableStartFailsIs, DurableCallersAre, DurableAssumption DEF Durable!start,
         Durable!lifeVars, Durable!resourceVars, Durable!attemptVars, Durable!queueVars, DurableWhole,
         Durable!Counted, Durable!StartedOK, Durable!Unreleased, Durable!EngineOK, Durable!ReleasedOK,
         Durable!TypeOK
    <2>2. CASE q = r
      BY <2>2, <1>1, DurableStartFailsIs, DurableCallersAre, DurableAssumption DEF Durable!start,
         Durable!lifeVars, Durable!resourceVars, Durable!attemptVars, Durable!queueVars, DurableWhole,
         Durable!Counted, Durable!StartedOK, Durable!Unreleased, Durable!EngineOK, Durable!ReleasedOK,
         Durable!TypeOK
    <2> QED BY <2>1, <2>2
  <1> QED BY <1>2, <1>3, DurableInvIs

(* A queue is registered as projected, or the start fails.                  *)
LEMMA DurablePreflightKeeps ==
    ASSUME Durable!Inv, NEW r \in DurableRuntimes, Durable!Preflight(r)
    PROVE  Durable!Inv'
  <1>1. Durable!TypeOK /\ \A q \in DurableRuntimes : DurableWhole(q)
    BY DurableInvIs
  <1>2. Durable!TypeOK'
    <2>1. CASE v3' = v2[r]
      <3>1. /\ v4' = [v4 EXCEPT ![r] = "launching"] /\ v8' = [v8 EXCEPT ![r] = TRUE]
            /\ UNCHANGED <<v1, v2, v5, v6, v7, v9, v10, v11, v12, v13, v14, v15, v16>>
        BY <2>1 DEF Durable!Preflight, Durable!attemptVars
      <3>2. /\ v4' \in [DurableRuntimes -> {"no", "preflight", "launching", "launched"}]
            /\ v8' \in [DurableRuntimes -> BOOLEAN]
            /\ v3' \in QueueProfiles \cup {None}
        BY <3>1, <2>1, <1>1 DEF Durable!TypeOK
      <3> QED BY <3>1, <3>2, <1>1 DEF Durable!TypeOK
    <2>2. CASE v3' # v2[r]
      BY <2>2, <1>1, DurableStartFailsIs, DurableCallersAre, DurableAssumption DEF Durable!Preflight,
         Durable!attemptVars, Durable!TypeOK
    <2> QED BY <2>1, <2>2
  <1>3. ASSUME NEW q \in DurableRuntimes PROVE DurableWhole(q)'
    <2>1. CASE q # r
      BY <2>1, <1>1, DurableStartFailsIs, DurableCallersAre, DurableAssumption DEF Durable!Preflight,
         Durable!lifeVars, Durable!resourceVars, Durable!attemptVars, Durable!queueVars, DurableWhole,
         Durable!Counted, Durable!StartedOK, Durable!Unreleased, Durable!EngineOK, Durable!ReleasedOK,
         Durable!TypeOK
    <2>2. CASE q = r
      BY <2>2, <1>1, DurableStartFailsIs, DurableCallersAre, DurableAssumption DEF Durable!Preflight,
         Durable!lifeVars, Durable!resourceVars, Durable!attemptVars, Durable!queueVars, DurableWhole,
         Durable!Counted, Durable!StartedOK, Durable!Unreleased, Durable!EngineOK, Durable!ReleasedOK,
         Durable!TypeOK
    <2> QED BY <2>1, <2>2
  <1> QED BY <1>2, <1>3, DurableInvIs

(* A preflight that fails leaves no engine.                                 *)
LEMMA DurablePreflightFailsKeeps ==
    ASSUME Durable!Inv, NEW r \in DurableRuntimes, Durable!PreflightFails(r)
    PROVE  Durable!Inv'
  <1>1. Durable!TypeOK /\ \A q \in DurableRuntimes : DurableWhole(q)
    BY DurableInvIs
  <1>2. Durable!TypeOK'
    BY <1>1, DurableStartFailsIs, DurableCallersAre, DurableAssumption DEF Durable!PreflightFails,
       Durable!Fault, Durable!lifeVars, Durable!resourceVars, Durable!attemptVars, Durable!queueVars,
       Durable!TypeOK
  <1>3. ASSUME NEW q \in DurableRuntimes PROVE DurableWhole(q)'
    <2>1. CASE q # r
      BY <2>1, <1>1, DurableStartFailsIs, DurableCallersAre, DurableAssumption DEF Durable!PreflightFails,
         Durable!Fault, Durable!lifeVars, Durable!resourceVars, Durable!attemptVars, Durable!queueVars,
         DurableWhole, Durable!Counted, Durable!StartedOK, Durable!Unreleased, Durable!EngineOK,
         Durable!ReleasedOK, Durable!TypeOK
    <2>2. CASE q = r
      BY <2>2, <1>1, DurableStartFailsIs, DurableCallersAre, DurableAssumption DEF Durable!PreflightFails,
         Durable!Fault, Durable!lifeVars, Durable!resourceVars, Durable!attemptVars, Durable!queueVars,
         DurableWhole, Durable!Counted, Durable!StartedOK, Durable!Unreleased, Durable!EngineOK,
         Durable!ReleasedOK, Durable!TypeOK
    <2> QED BY <2>1, <2>2
  <1> QED BY <1>2, <1>3, DurableInvIs

(* The engine that is launched is that of the bound runtime.                *)
LEMMA DurableLaunchKeeps ==
    ASSUME Durable!Inv, NEW r \in DurableRuntimes, Durable!Launch(r)
    PROVE  Durable!Inv'
  <1>1. Durable!TypeOK /\ \A q \in DurableRuntimes : DurableWhole(q)
    BY DurableInvIs
  <1>2. Durable!TypeOK'
    BY <1>1, DurableStartFailsIs, DurableCallersAre, DurableAssumption DEF Durable!Launch, Durable!Fault,
       Durable!lifeVars, Durable!resourceVars, Durable!attemptVars, Durable!queueVars, Durable!TypeOK
  <1>3. ASSUME NEW q \in DurableRuntimes PROVE DurableWhole(q)'
    <2>1. CASE q # r
      BY <2>1, <1>1, DurableStartFailsIs, DurableCallersAre, DurableAssumption DEF Durable!Launch,
         Durable!Fault, Durable!lifeVars, Durable!resourceVars, Durable!attemptVars, Durable!queueVars,
         DurableWhole, Durable!Counted, Durable!StartedOK, Durable!Unreleased, Durable!EngineOK,
         Durable!ReleasedOK, Durable!TypeOK
    <2>2. CASE q = r
      BY <2>2, <1>1, DurableStartFailsIs, DurableCallersAre, DurableAssumption DEF Durable!Launch,
         Durable!Fault, Durable!lifeVars, Durable!resourceVars, Durable!attemptVars, Durable!queueVars,
         DurableWhole, Durable!Counted, Durable!StartedOK, Durable!Unreleased, Durable!EngineOK,
         Durable!ReleasedOK, Durable!TypeOK
    <2> QED BY <2>1, <2>2
  <1> QED BY <1>2, <1>3, DurableInvIs

(* A runtime that opens is no longer starting.                              *)
LEMMA DurableOpenedKeeps ==
    ASSUME Durable!Inv, NEW r \in DurableRuntimes, Durable!Opened(r)
    PROVE  Durable!Inv'
  <1>1. Durable!TypeOK /\ \A q \in DurableRuntimes : DurableWhole(q)
    BY DurableInvIs
  <1>2. Durable!TypeOK'
    BY <1>1, DurableStartFailsIs, DurableCallersAre, DurableAssumption DEF Durable!Opened,
       Durable!lifeVars, Durable!resourceVars, Durable!attemptVars, Durable!queueVars, Durable!TypeOK
  <1>3. ASSUME NEW q \in DurableRuntimes PROVE DurableWhole(q)'
    <2>1. CASE q # r
      BY <2>1, <1>1, DurableStartFailsIs, DurableCallersAre, DurableAssumption DEF Durable!Opened,
         Durable!lifeVars, Durable!resourceVars, Durable!attemptVars, Durable!queueVars, DurableWhole,
         Durable!Counted, Durable!StartedOK, Durable!Unreleased, Durable!EngineOK, Durable!ReleasedOK,
         Durable!TypeOK
    <2>2. CASE q = r
      BY <2>2, <1>1, DurableStartFailsIs, DurableCallersAre, DurableAssumption DEF Durable!Opened,
         Durable!lifeVars, Durable!resourceVars, Durable!attemptVars, Durable!queueVars, DurableWhole,
         Durable!Counted, Durable!StartedOK, Durable!Unreleased, Durable!EngineOK, Durable!ReleasedOK,
         Durable!TypeOK
    <2> QED BY <2>1, <2>2
  <1> QED BY <1>2, <1>3, DurableInvIs

(* Who begins the release passes over an engine that was never launched.    *)
LEMMA DurableBeginReleaseKeeps ==
    ASSUME Durable!Inv, NEW r \in DurableRuntimes, NEW c \in Durable!Callers, Durable!BeginRelease(r, c)
    PROVE  Durable!Inv'
  <1>1. Durable!TypeOK /\ \A q \in DurableRuntimes : DurableWhole(q)
    BY DurableInvIs
  <1>2. \/ v8[r] /\ Durable!To(r, c, "stopping")
        \/ ~v8[r] /\ Durable!To(r, c, "stopped")
    BY DEF Durable!BeginRelease
  <1>3. Durable!TypeOK'
    <2>1. v1' \in [DurableRuntimes -> {"CREATED", "STARTING", "OPEN", "FAILED", "CLOSING", "CLOSED"}]
      BY <1>1, <1>2, DurableToIs, DurableCallersAre, DurableAssumption DEF Durable!BeginRelease,
         Durable!lifeVars, Durable!resourceVars, Durable!attemptVars, Durable!queueVars, Durable!TypeOK
    <2>2. v2' \in [DurableRuntimes -> QueueProfiles] /\ v3' \in QueueProfiles \cup {None}
      BY <1>1, <1>2, DurableToIs, DurableCallersAre, DurableAssumption DEF Durable!BeginRelease,
         Durable!lifeVars, Durable!resourceVars, Durable!attemptVars, Durable!queueVars, Durable!TypeOK
    <2>3. v4' \in [DurableRuntimes -> {"no", "preflight", "launching", "launched"}]
      BY <1>1, <1>2, DurableToIs, DurableCallersAre, DurableAssumption DEF Durable!BeginRelease,
         Durable!lifeVars, Durable!resourceVars, Durable!attemptVars, Durable!queueVars, Durable!TypeOK
    <2>4. v5' \in [DurableRuntimes -> [Durable!Callers -> Durable!Where]]
      BY <1>1, <1>2, DurableToIs, DurableCallersAre, DurableAssumption DEF Durable!BeginRelease,
         Durable!lifeVars, Durable!resourceVars, Durable!attemptVars, Durable!queueVars, Durable!TypeOK
    <2>5. v6' \in [DurableRuntimes -> {"no", "waiting", "closing"}]
          /\ v7' \in [DurableRuntimes -> {"none", "open", "ending", "ended"}]
      BY <1>1, <1>2, DurableToIs, DurableCallersAre, DurableAssumption DEF Durable!BeginRelease,
         Durable!lifeVars, Durable!resourceVars, Durable!attemptVars, Durable!queueVars, Durable!TypeOK
    <2>6. v8' \in [DurableRuntimes -> BOOLEAN] /\ v15' \in [DurableRuntimes -> BOOLEAN] /\ v14' \in BOOLEAN
      BY <1>1, <1>2, DurableToIs, DurableCallersAre, DurableAssumption DEF Durable!BeginRelease,
         Durable!lifeVars, Durable!resourceVars, Durable!attemptVars, Durable!queueVars, Durable!TypeOK
    <2>7. {v9', v10'} \subseteq DurableRuntimes \cup {None}
      BY <1>1, <1>2, DurableToIs, DurableCallersAre, DurableAssumption DEF Durable!BeginRelease,
         Durable!lifeVars, Durable!resourceVars, Durable!attemptVars, Durable!queueVars, Durable!TypeOK
    <2>8. /\ v11' \in [DurableRuntimes -> 0..MaxQueued]
          /\ v12' \in 0..MaxQueued /\ v13' \in 0..MaxQueued /\ v16' \in 0..DurableFaults
      BY <1>1, <1>2, DurableToIs, DurableCallersAre, DurableAssumption DEF Durable!BeginRelease,
         Durable!lifeVars, Durable!resourceVars, Durable!attemptVars, Durable!queueVars, Durable!TypeOK
    <2> QED BY <2>1, <2>2, <2>3, <2>4, <2>5, <2>6, <2>7, <2>8 DEF Durable!TypeOK
  <1>4. ASSUME NEW q \in DurableRuntimes PROVE DurableWhole(q)'
    <2>1. CASE q # r
      BY <2>1, <1>1, <1>2, DurableToIs, DurableCallersAre, DurableAssumption DEF Durable!BeginRelease,
         Durable!lifeVars, Durable!resourceVars, Durable!attemptVars, Durable!queueVars, DurableWhole,
         Durable!Counted, Durable!StartedOK, Durable!Unreleased, Durable!EngineOK, Durable!ReleasedOK,
         Durable!TypeOK
    <2>2. CASE q = r
      BY <2>2, <1>1, <1>2, DurableToIs, DurableCallersAre, DurableAssumption DEF Durable!BeginRelease,
         Durable!lifeVars, Durable!resourceVars, Durable!attemptVars, Durable!queueVars, DurableWhole,
         Durable!Counted, Durable!StartedOK, Durable!Unreleased, Durable!EngineOK, Durable!ReleasedOK,
         Durable!TypeOK
    <2> QED BY <2>1, <2>2
  <1> QED BY <1>3, <1>4, DurableInvIs

(* An engine that stops takes no attempt any more.                          *)
LEMMA DurableEngineStopsKeeps ==
    ASSUME Durable!Inv, NEW r \in DurableRuntimes, NEW c \in Durable!Callers, Durable!EngineStops(r, c)
    PROVE  Durable!Inv'
  <1>1. Durable!TypeOK /\ \A q \in DurableRuntimes : DurableWhole(q)
    BY DurableInvIs
  <1>2. Durable!TypeOK'
    <2>1. v1' \in [DurableRuntimes -> {"CREATED", "STARTING", "OPEN", "FAILED", "CLOSING", "CLOSED"}]
      BY <1>1, DurableToIs, DurableCallersAre, DurableAssumption DEF Durable!EngineStops,
         Durable!NoInvocation, Durable!getActiveWorkAttemptInvocationCount, Durable!lifeVars,
         Durable!resourceVars, Durable!attemptVars, Durable!queueVars, Durable!TypeOK
    <2>2. v2' \in [DurableRuntimes -> QueueProfiles] /\ v3' \in QueueProfiles \cup {None}
      BY <1>1, DurableToIs, DurableCallersAre, DurableAssumption DEF Durable!EngineStops,
         Durable!NoInvocation, Durable!getActiveWorkAttemptInvocationCount, Durable!lifeVars,
         Durable!resourceVars, Durable!attemptVars, Durable!queueVars, Durable!TypeOK
    <2>3. v4' \in [DurableRuntimes -> {"no", "preflight", "launching", "launched"}]
      BY <1>1, DurableToIs, DurableCallersAre, DurableAssumption DEF Durable!EngineStops,
         Durable!NoInvocation, Durable!getActiveWorkAttemptInvocationCount, Durable!lifeVars,
         Durable!resourceVars, Durable!attemptVars, Durable!queueVars, Durable!TypeOK
    <2>4. v5' \in [DurableRuntimes -> [Durable!Callers -> Durable!Where]]
      BY <1>1, DurableToIs, DurableCallersAre, DurableAssumption DEF Durable!EngineStops,
         Durable!NoInvocation, Durable!getActiveWorkAttemptInvocationCount, Durable!lifeVars,
         Durable!resourceVars, Durable!attemptVars, Durable!queueVars, Durable!TypeOK
    <2>5. v6' \in [DurableRuntimes -> {"no", "waiting", "closing"}]
          /\ v7' \in [DurableRuntimes -> {"none", "open", "ending", "ended"}]
      BY <1>1, DurableToIs, DurableCallersAre, DurableAssumption DEF Durable!EngineStops,
         Durable!NoInvocation, Durable!getActiveWorkAttemptInvocationCount, Durable!lifeVars,
         Durable!resourceVars, Durable!attemptVars, Durable!queueVars, Durable!TypeOK
    <2>6. v8' \in [DurableRuntimes -> BOOLEAN] /\ v15' \in [DurableRuntimes -> BOOLEAN] /\ v14' \in BOOLEAN
      <3>1. v8' = v8 \/ v8' = [v8 EXCEPT ![r] = FALSE]
        BY DEF Durable!EngineStops
      <3>2. UNCHANGED <<v15, v14>>
        BY DEF Durable!EngineStops
      <3> QED BY <1>1, <3>1, <3>2 DEF Durable!TypeOK
    <2>7. {v9', v10'} \subseteq DurableRuntimes \cup {None}
      BY <1>1, DurableToIs, DurableCallersAre, DurableAssumption DEF Durable!EngineStops,
         Durable!NoInvocation, Durable!getActiveWorkAttemptInvocationCount, Durable!lifeVars,
         Durable!resourceVars, Durable!attemptVars, Durable!queueVars, Durable!TypeOK
    <2>8. /\ v11' \in [DurableRuntimes -> 0..MaxQueued]
          /\ v12' \in 0..MaxQueued /\ v13' \in 0..MaxQueued /\ v16' \in 0..DurableFaults
      BY <1>1, DurableToIs, DurableCallersAre, DurableAssumption DEF Durable!EngineStops,
         Durable!NoInvocation, Durable!getActiveWorkAttemptInvocationCount, Durable!lifeVars,
         Durable!resourceVars, Durable!attemptVars, Durable!queueVars, Durable!TypeOK
    <2> QED BY <2>1, <2>2, <2>3, <2>4, <2>5, <2>6, <2>7, <2>8 DEF Durable!TypeOK
  <1>3. ASSUME NEW q \in DurableRuntimes PROVE DurableWhole(q)'
    <2>1. CASE q # r
      BY <2>1, <1>1, DurableToIs, DurableCallersAre, DurableAssumption DEF Durable!EngineStops,
         Durable!NoInvocation, Durable!getActiveWorkAttemptInvocationCount, Durable!lifeVars,
         Durable!resourceVars, Durable!attemptVars, Durable!queueVars, DurableWhole, Durable!Counted,
         Durable!StartedOK, Durable!Unreleased, Durable!EngineOK, Durable!ReleasedOK, Durable!TypeOK
    <2>2. CASE q = r
      BY <2>2, <1>1, DurableToIs, DurableCallersAre, DurableAssumption DEF Durable!EngineStops,
         Durable!NoInvocation, Durable!getActiveWorkAttemptInvocationCount, Durable!lifeVars,
         Durable!resourceVars, Durable!attemptVars, Durable!queueVars, DurableWhole, Durable!Counted,
         Durable!StartedOK, Durable!Unreleased, Durable!EngineOK, Durable!ReleasedOK, Durable!TypeOK
    <2> QED BY <2>1, <2>2
  <1> QED BY <1>2, <1>3, DurableInvIs

(* An engine that does not stop leaves the runtime as it is.                *)
LEMMA DurableEngineStopFailsKeeps ==
    ASSUME Durable!Inv, NEW r \in DurableRuntimes, NEW c \in Durable!Callers, Durable!EngineStopFails(r, c)
    PROVE  Durable!Inv'
  <1>1. Durable!TypeOK /\ \A q \in DurableRuntimes : DurableWhole(q)
    BY DurableInvIs
  <1>2. Durable!TypeOK'
    BY <1>1, DurableToIs, DurableCallersAre, DurableAssumption DEF Durable!EngineStopFails, Durable!Fault,
       Durable!lifeVars, Durable!resourceVars, Durable!attemptVars, Durable!queueVars, Durable!TypeOK
  <1>3. ASSUME NEW q \in DurableRuntimes PROVE DurableWhole(q)'
    <2>1. CASE q # r
      BY <2>1, <1>1, DurableToIs, DurableCallersAre, DurableAssumption DEF Durable!EngineStopFails,
         Durable!Fault, Durable!lifeVars, Durable!resourceVars, Durable!attemptVars, Durable!queueVars,
         DurableWhole, Durable!Counted, Durable!StartedOK, Durable!Unreleased, Durable!EngineOK,
         Durable!ReleasedOK, Durable!TypeOK
    <2>2. CASE q = r
      BY <2>2, <1>1, DurableToIs, DurableCallersAre, DurableAssumption DEF Durable!EngineStopFails,
         Durable!Fault, Durable!lifeVars, Durable!resourceVars, Durable!attemptVars, Durable!queueVars,
         DurableWhole, Durable!Counted, Durable!StartedOK, Durable!Unreleased, Durable!EngineOK,
         Durable!ReleasedOK, Durable!TypeOK
    <2> QED BY <2>1, <2>2
  <1> QED BY <1>2, <1>3, DurableInvIs

(* A release that failed is reported.                                       *)
LEMMA DurableRejectedKeeps ==
    ASSUME Durable!Inv, NEW r \in DurableRuntimes, NEW c \in Durable!Callers, Durable!Rejected(r, c)
    PROVE  Durable!Inv'
  <1>1. Durable!TypeOK /\ \A q \in DurableRuntimes : DurableWhole(q)
    BY DurableInvIs
  <1>2. /\ v1' \in [DurableRuntimes -> {"CREATED", "STARTING", "OPEN", "FAILED", "CLOSING", "CLOSED"}]
        /\ v6' \in [DurableRuntimes -> {"no", "waiting", "closing"}]
        /\ v15' \in [DurableRuntimes -> BOOLEAN]
        /\ v5' \in [DurableRuntimes -> [Durable!Callers -> Durable!Where]]
        /\ v5'[r][c] = "no"
        /\ \A d \in Durable!Callers \ {c} : v5'[r][d] = v5[r][d]
        /\ \A q \in DurableRuntimes \ {r} : v1'[q] = v1[q] /\ v5'[q] = v5[q]
        /\ v1'[r] = v1[r] \/ v1'[r] = "FAILED"
    <2>1. Durable!Settle(r, c, FALSE)
      BY DEF Durable!Rejected
    <2> QED BY <1>1, <2>1, DurableSettleIs, Zenon
  <1>3. Durable!TypeOK'
    BY <1>1, <1>2, DurableCallersAre, DurableAssumption DEF Durable!Rejected, Durable!lifeVars,
       Durable!resourceVars, Durable!attemptVars, Durable!queueVars, Durable!TypeOK
  <1>4. ASSUME NEW q \in DurableRuntimes PROVE DurableWhole(q)'
    <2>1. CASE q # r
      BY <2>1, <1>1, <1>2, DurableCallersAre, DurableAssumption DEF Durable!Rejected, Durable!lifeVars,
         Durable!resourceVars, Durable!attemptVars, Durable!queueVars, DurableWhole, Durable!Counted,
         Durable!StartedOK, Durable!Unreleased, Durable!EngineOK, Durable!ReleasedOK, Durable!TypeOK
    <2>2. CASE q = r
      BY <2>2, <1>1, <1>2, DurableCallersAre, DurableAssumption DEF Durable!Rejected, Durable!lifeVars,
         Durable!resourceVars, Durable!attemptVars, Durable!queueVars, DurableWhole, Durable!Counted,
         Durable!StartedOK, Durable!Unreleased, Durable!EngineOK, Durable!ReleasedOK, Durable!TypeOK
    <2> QED BY <2>1, <2>2
  <1> QED BY <1>3, <1>4, DurableInvIs

(* A pool is ended when nothing runs and the engine has stopped.            *)
LEMMA DurableEndPoolKeeps ==
    ASSUME Durable!Inv, NEW r \in DurableRuntimes, NEW c \in Durable!Callers, Durable!EndPool(r, c)
    PROVE  Durable!Inv'
  <1>1. Durable!TypeOK /\ \A q \in DurableRuntimes : DurableWhole(q)
    BY DurableInvIs
  <1>2. Durable!TypeOK'
    BY <1>1, DurableToIs, DurableCallersAre, DurableAssumption DEF Durable!EndPool, Durable!NoInvocation,
       Durable!getActiveWorkAttemptInvocationCount, Durable!lifeVars, Durable!resourceVars,
       Durable!attemptVars, Durable!queueVars, Durable!TypeOK
  <1>3. ASSUME NEW q \in DurableRuntimes PROVE DurableWhole(q)'
    <2>1. CASE q # r
      BY <2>1, <1>1, DurableToIs, DurableCallersAre, DurableAssumption DEF Durable!EndPool,
         Durable!NoInvocation, Durable!getActiveWorkAttemptInvocationCount, Durable!lifeVars,
         Durable!resourceVars, Durable!attemptVars, Durable!queueVars, DurableWhole, Durable!Counted,
         Durable!StartedOK, Durable!Unreleased, Durable!EngineOK, Durable!ReleasedOK, Durable!TypeOK
    <2>2. CASE q = r
      BY <2>2, <1>1, DurableToIs, DurableCallersAre, DurableAssumption DEF Durable!EndPool,
         Durable!NoInvocation, Durable!getActiveWorkAttemptInvocationCount, Durable!lifeVars,
         Durable!resourceVars, Durable!attemptVars, Durable!queueVars, DurableWhole, Durable!Counted,
         Durable!StartedOK, Durable!Unreleased, Durable!EngineOK, Durable!ReleasedOK, Durable!TypeOK
    <2> QED BY <2>1, <2>2
  <1> QED BY <1>2, <1>3, DurableInvIs

(* Who finds nothing to end leaves neither engine nor binding.              *)
LEMMA DurableNothingToEndKeeps ==
    ASSUME Durable!Inv, NEW r \in DurableRuntimes, NEW c \in Durable!Callers, Durable!NothingToEnd(r, c)
    PROVE  Durable!Inv'
  <1>1. Durable!TypeOK /\ \A q \in DurableRuntimes : DurableWhole(q)
    BY DurableInvIs
  <1>2. /\ v1' \in [DurableRuntimes -> {"CREATED", "STARTING", "OPEN", "FAILED", "CLOSING", "CLOSED"}]
        /\ v6' \in [DurableRuntimes -> {"no", "waiting", "closing"}]
        /\ v15' \in [DurableRuntimes -> BOOLEAN]
        /\ v5' \in [DurableRuntimes -> [Durable!Callers -> Durable!Where]]
        /\ v5'[r][c] = "no"
        /\ \A d \in Durable!Callers \ {c} : v5'[r][d] = v5[r][d]
        /\ \A q \in DurableRuntimes \ {r} : v1'[q] = v1[q] /\ v5'[q] = v5[q]
        /\ v1'[r] = v1[r] \/ v1'[r] = "FAILED" \/ (v7[r] # "ending" /\ v1'[r] = "CLOSED")
    <2>1. Durable!Settle(r, c, v7[r] # "ending")
      BY DEF Durable!NothingToEnd
    <2> QED BY <1>1, <2>1, DurableSettleIs, Zenon
  <1>3. Durable!TypeOK'
    <2>1. v1' \in [DurableRuntimes -> {"CREATED", "STARTING", "OPEN", "FAILED", "CLOSING", "CLOSED"}]
      BY <1>1, <1>2, DurableCallersAre, DurableAssumption DEF Durable!NothingToEnd, Durable!NoInvocation,
         Durable!getActiveWorkAttemptInvocationCount, Durable!releaseBinding, Durable!lifeVars,
         Durable!resourceVars, Durable!attemptVars, Durable!queueVars, Durable!TypeOK
    <2>2. v2' \in [DurableRuntimes -> QueueProfiles] /\ v3' \in QueueProfiles \cup {None}
      BY <1>1, <1>2, DurableCallersAre, DurableAssumption DEF Durable!NothingToEnd, Durable!NoInvocation,
         Durable!getActiveWorkAttemptInvocationCount, Durable!releaseBinding, Durable!lifeVars,
         Durable!resourceVars, Durable!attemptVars, Durable!queueVars, Durable!TypeOK
    <2>3. v4' \in [DurableRuntimes -> {"no", "preflight", "launching", "launched"}]
      BY <1>1, <1>2, DurableCallersAre, DurableAssumption DEF Durable!NothingToEnd, Durable!NoInvocation,
         Durable!getActiveWorkAttemptInvocationCount, Durable!releaseBinding, Durable!lifeVars,
         Durable!resourceVars, Durable!attemptVars, Durable!queueVars, Durable!TypeOK
    <2>4. v5' \in [DurableRuntimes -> [Durable!Callers -> Durable!Where]]
      BY <1>1, <1>2, DurableCallersAre, DurableAssumption DEF Durable!NothingToEnd, Durable!NoInvocation,
         Durable!getActiveWorkAttemptInvocationCount, Durable!releaseBinding, Durable!lifeVars,
         Durable!resourceVars, Durable!attemptVars, Durable!queueVars, Durable!TypeOK
    <2>5. v6' \in [DurableRuntimes -> {"no", "waiting", "closing"}]
          /\ v7' \in [DurableRuntimes -> {"none", "open", "ending", "ended"}]
      BY <1>1, <1>2, DurableCallersAre, DurableAssumption DEF Durable!NothingToEnd, Durable!NoInvocation,
         Durable!getActiveWorkAttemptInvocationCount, Durable!releaseBinding, Durable!lifeVars,
         Durable!resourceVars, Durable!attemptVars, Durable!queueVars, Durable!TypeOK
    <2>6. v8' \in [DurableRuntimes -> BOOLEAN] /\ v15' \in [DurableRuntimes -> BOOLEAN] /\ v14' \in BOOLEAN
      BY <1>1, <1>2, DurableCallersAre, DurableAssumption DEF Durable!NothingToEnd, Durable!NoInvocation,
         Durable!getActiveWorkAttemptInvocationCount, Durable!releaseBinding, Durable!lifeVars,
         Durable!resourceVars, Durable!attemptVars, Durable!queueVars, Durable!TypeOK
    <2>7. {v9', v10'} \subseteq DurableRuntimes \cup {None}
      BY <1>1, <1>2, DurableCallersAre, DurableAssumption DEF Durable!NothingToEnd, Durable!NoInvocation,
         Durable!getActiveWorkAttemptInvocationCount, Durable!releaseBinding, Durable!lifeVars,
         Durable!resourceVars, Durable!attemptVars, Durable!queueVars, Durable!TypeOK
    <2>8. /\ v11' \in [DurableRuntimes -> 0..MaxQueued]
          /\ v12' \in 0..MaxQueued /\ v13' \in 0..MaxQueued /\ v16' \in 0..DurableFaults
      BY <1>1, <1>2, DurableCallersAre, DurableAssumption DEF Durable!NothingToEnd, Durable!NoInvocation,
         Durable!getActiveWorkAttemptInvocationCount, Durable!releaseBinding, Durable!lifeVars,
         Durable!resourceVars, Durable!attemptVars, Durable!queueVars, Durable!TypeOK
    <2> QED BY <2>1, <2>2, <2>3, <2>4, <2>5, <2>6, <2>7, <2>8 DEF Durable!TypeOK
  <1>4. ASSUME NEW q \in DurableRuntimes PROVE DurableWhole(q)'
    <2>1. CASE q # r
      BY <2>1, <1>1, <1>2, DurableCallersAre, DurableAssumption DEF Durable!NothingToEnd,
         Durable!NoInvocation, Durable!getActiveWorkAttemptInvocationCount, Durable!releaseBinding,
         Durable!lifeVars, Durable!resourceVars, Durable!attemptVars, Durable!queueVars, DurableWhole,
         Durable!Counted, Durable!StartedOK, Durable!Unreleased, Durable!EngineOK, Durable!ReleasedOK,
         Durable!TypeOK
    <2>2. CASE q = r
      BY <2>2, <1>1, <1>2, DurableCallersAre, DurableAssumption DEF Durable!NothingToEnd,
         Durable!NoInvocation, Durable!getActiveWorkAttemptInvocationCount, Durable!releaseBinding,
         Durable!lifeVars, Durable!resourceVars, Durable!attemptVars, Durable!queueVars, DurableWhole,
         Durable!Counted, Durable!StartedOK, Durable!Unreleased, Durable!EngineOK, Durable!ReleasedOK,
         Durable!TypeOK
    <2> QED BY <2>1, <2>2
  <1> QED BY <1>3, <1>4, DurableInvIs

(* What still runs keeps its pool.                                          *)
LEMMA DurableStillRunningKeeps ==
    ASSUME Durable!Inv, NEW r \in DurableRuntimes, NEW c \in Durable!Callers, Durable!StillRunning(r, c)
    PROVE  Durable!Inv'
  <1>1. Durable!TypeOK /\ \A q \in DurableRuntimes : DurableWhole(q)
    BY DurableInvIs
  <1>2. /\ v1' \in [DurableRuntimes -> {"CREATED", "STARTING", "OPEN", "FAILED", "CLOSING", "CLOSED"}]
        /\ v6' \in [DurableRuntimes -> {"no", "waiting", "closing"}]
        /\ v15' \in [DurableRuntimes -> BOOLEAN]
        /\ v5' \in [DurableRuntimes -> [Durable!Callers -> Durable!Where]]
        /\ v5'[r][c] = "no"
        /\ \A d \in Durable!Callers \ {c} : v5'[r][d] = v5[r][d]
        /\ \A q \in DurableRuntimes \ {r} : v1'[q] = v1[q] /\ v5'[q] = v5[q]
        /\ v1'[r] = v1[r] \/ v1'[r] = "FAILED"
    <2>1. Durable!Settle(r, c, FALSE)
      BY DEF Durable!StillRunning
    <2> QED BY <1>1, <2>1, DurableSettleIs, Zenon
  <1>3. Durable!TypeOK'
    BY <1>1, <1>2, DurableCallersAre, DurableAssumption DEF Durable!StillRunning, Durable!lifeVars,
       Durable!resourceVars, Durable!attemptVars, Durable!queueVars, Durable!TypeOK
  <1>4. ASSUME NEW q \in DurableRuntimes PROVE DurableWhole(q)'
    <2>1. CASE q # r
      BY <2>1, <1>1, <1>2, DurableCallersAre, DurableAssumption DEF Durable!StillRunning,
         Durable!lifeVars, Durable!resourceVars, Durable!attemptVars, Durable!queueVars, DurableWhole,
         Durable!Counted, Durable!StartedOK, Durable!Unreleased, Durable!EngineOK, Durable!ReleasedOK,
         Durable!TypeOK
    <2>2. CASE q = r
      BY <2>2, <1>1, <1>2, DurableCallersAre, DurableAssumption DEF Durable!StillRunning,
         Durable!lifeVars, Durable!resourceVars, Durable!attemptVars, Durable!queueVars, DurableWhole,
         Durable!Counted, Durable!StartedOK, Durable!Unreleased, Durable!EngineOK, Durable!ReleasedOK,
         Durable!TypeOK
    <2> QED BY <2>1, <2>2
  <1> QED BY <1>3, <1>4, DurableInvIs

(* A pool that has ended leaves nothing of the runtime.                     *)
LEMMA DurablePoolEndedKeeps ==
    ASSUME Durable!Inv, NEW r \in DurableRuntimes, NEW c \in Durable!Callers, Durable!PoolEnded(r, c)
    PROVE  Durable!Inv'
  <1>1. Durable!TypeOK /\ \A q \in DurableRuntimes : DurableWhole(q)
    BY DurableInvIs
  <1>2. /\ v1' \in [DurableRuntimes -> {"CREATED", "STARTING", "OPEN", "FAILED", "CLOSING", "CLOSED"}]
        /\ v6' \in [DurableRuntimes -> {"no", "waiting", "closing"}]
        /\ v15' \in [DurableRuntimes -> BOOLEAN]
        /\ v5' \in [DurableRuntimes -> [Durable!Callers -> Durable!Where]]
        /\ v5'[r][c] = "no"
        /\ \A d \in Durable!Callers \ {c} : v5'[r][d] = v5[r][d]
        /\ \A q \in DurableRuntimes \ {r} : v1'[q] = v1[q] /\ v5'[q] = v5[q]
        /\ v1'[r] = v1[r] \/ v1'[r] = "FAILED" \/ v1'[r] = "CLOSED"
    <2>1. Durable!Settle(r, c, TRUE)
      BY DEF Durable!PoolEnded
    <2> QED BY <1>1, <2>1, DurableSettleIs, Zenon
  <1>3. Durable!TypeOK'
    <2>1. v1' \in [DurableRuntimes -> {"CREATED", "STARTING", "OPEN", "FAILED", "CLOSING", "CLOSED"}]
      BY <1>1, <1>2, DurableCallersAre, DurableAssumption DEF Durable!PoolEnded, Durable!releaseBinding,
         Durable!lifeVars, Durable!resourceVars, Durable!attemptVars, Durable!queueVars, Durable!TypeOK
    <2>2. v2' \in [DurableRuntimes -> QueueProfiles] /\ v3' \in QueueProfiles \cup {None}
      BY <1>1, <1>2, DurableCallersAre, DurableAssumption DEF Durable!PoolEnded, Durable!releaseBinding,
         Durable!lifeVars, Durable!resourceVars, Durable!attemptVars, Durable!queueVars, Durable!TypeOK
    <2>3. v4' \in [DurableRuntimes -> {"no", "preflight", "launching", "launched"}]
      BY <1>1, <1>2, DurableCallersAre, DurableAssumption DEF Durable!PoolEnded, Durable!releaseBinding,
         Durable!lifeVars, Durable!resourceVars, Durable!attemptVars, Durable!queueVars, Durable!TypeOK
    <2>4. v5' \in [DurableRuntimes -> [Durable!Callers -> Durable!Where]]
      BY <1>1, <1>2, DurableCallersAre, DurableAssumption DEF Durable!PoolEnded, Durable!releaseBinding,
         Durable!lifeVars, Durable!resourceVars, Durable!attemptVars, Durable!queueVars, Durable!TypeOK
    <2>5. v6' \in [DurableRuntimes -> {"no", "waiting", "closing"}]
          /\ v7' \in [DurableRuntimes -> {"none", "open", "ending", "ended"}]
      BY <1>1, <1>2, DurableCallersAre, DurableAssumption DEF Durable!PoolEnded, Durable!releaseBinding,
         Durable!lifeVars, Durable!resourceVars, Durable!attemptVars, Durable!queueVars, Durable!TypeOK
    <2>6. v8' \in [DurableRuntimes -> BOOLEAN] /\ v15' \in [DurableRuntimes -> BOOLEAN] /\ v14' \in BOOLEAN
      BY <1>1, <1>2, DurableCallersAre, DurableAssumption DEF Durable!PoolEnded, Durable!releaseBinding,
         Durable!lifeVars, Durable!resourceVars, Durable!attemptVars, Durable!queueVars, Durable!TypeOK
    <2>7. {v9', v10'} \subseteq DurableRuntimes \cup {None}
      BY <1>1, <1>2, DurableCallersAre, DurableAssumption DEF Durable!PoolEnded, Durable!releaseBinding,
         Durable!lifeVars, Durable!resourceVars, Durable!attemptVars, Durable!queueVars, Durable!TypeOK
    <2>8. /\ v11' \in [DurableRuntimes -> 0..MaxQueued]
          /\ v12' \in 0..MaxQueued /\ v13' \in 0..MaxQueued /\ v16' \in 0..DurableFaults
      BY <1>1, <1>2, DurableCallersAre, DurableAssumption DEF Durable!PoolEnded, Durable!releaseBinding,
         Durable!lifeVars, Durable!resourceVars, Durable!attemptVars, Durable!queueVars, Durable!TypeOK
    <2> QED BY <2>1, <2>2, <2>3, <2>4, <2>5, <2>6, <2>7, <2>8 DEF Durable!TypeOK
  <1>4. ASSUME NEW q \in DurableRuntimes PROVE DurableWhole(q)'
    <2>1. CASE q # r
      BY <2>1, <1>1, <1>2, DurableCallersAre, DurableAssumption DEF Durable!PoolEnded,
         Durable!releaseBinding, Durable!lifeVars, Durable!resourceVars, Durable!attemptVars,
         Durable!queueVars, DurableWhole, Durable!Counted, Durable!StartedOK, Durable!Unreleased,
         Durable!EngineOK, Durable!ReleasedOK, Durable!TypeOK
    <2>2. CASE q = r
      BY <2>2, <1>1, <1>2, DurableCallersAre, DurableAssumption DEF Durable!PoolEnded,
         Durable!releaseBinding, Durable!lifeVars, Durable!resourceVars, Durable!attemptVars,
         Durable!queueVars, DurableWhole, Durable!Counted, Durable!StartedOK, Durable!Unreleased,
         Durable!EngineOK, Durable!ReleasedOK, Durable!TypeOK
    <2> QED BY <2>1, <2>2
  <1> QED BY <1>3, <1>4, DurableInvIs

(* A close begins when nothing is starting.                                 *)
LEMMA DurableCloseKeeps ==
    ASSUME Durable!Inv, NEW r \in DurableRuntimes, Durable!close(r)
    PROVE  Durable!Inv'
  <1>1. Durable!TypeOK /\ \A q \in DurableRuntimes : DurableWhole(q)
    BY DurableInvIs
  <1>2. Durable!TypeOK'
    BY <1>1, DurableToIs, DurableCallersAre, DurableAssumption DEF Durable!close, Durable!BeginClose,
       Durable!lifeVars, Durable!resourceVars, Durable!attemptVars, Durable!queueVars, Durable!TypeOK
  <1>3. ASSUME NEW q \in DurableRuntimes PROVE DurableWhole(q)'
    <2>1. CASE q # r
      BY <2>1, <1>1, DurableToIs, DurableCallersAre, DurableAssumption DEF Durable!close,
         Durable!BeginClose, Durable!lifeVars, Durable!resourceVars, Durable!attemptVars,
         Durable!queueVars, DurableWhole, Durable!Counted, Durable!StartedOK, Durable!Unreleased,
         Durable!EngineOK, Durable!ReleasedOK, Durable!TypeOK
    <2>2. CASE q = r
      BY <2>2, <1>1, DurableToIs, DurableCallersAre, DurableAssumption DEF Durable!close,
         Durable!BeginClose, Durable!lifeVars, Durable!resourceVars, Durable!attemptVars,
         Durable!queueVars, DurableWhole, Durable!Counted, Durable!StartedOK, Durable!Unreleased,
         Durable!EngineOK, Durable!ReleasedOK, Durable!TypeOK
    <2> QED BY <2>1, <2>2
  <1> QED BY <1>2, <1>3, DurableInvIs

(* A close waits for the start.                                             *)
LEMMA DurableCloseWhileStartingKeeps ==
    ASSUME Durable!Inv, NEW r \in DurableRuntimes, Durable!closeWhileStarting(r)
    PROVE  Durable!Inv'
  <1>1. Durable!TypeOK /\ \A q \in DurableRuntimes : DurableWhole(q)
    BY DurableInvIs
  <1>2. Durable!TypeOK'
    BY <1>1, DurableAssumption DEF Durable!closeWhileStarting, Durable!lifeVars, Durable!resourceVars,
       Durable!attemptVars, Durable!queueVars, Durable!TypeOK
  <1>3. ASSUME NEW q \in DurableRuntimes PROVE DurableWhole(q)'
    <2>1. CASE q # r
      BY <2>1, <1>1, DurableAssumption DEF Durable!closeWhileStarting, Durable!lifeVars,
         Durable!resourceVars, Durable!attemptVars, Durable!queueVars, DurableWhole, Durable!Counted,
         Durable!StartedOK, Durable!Unreleased, Durable!EngineOK, Durable!ReleasedOK, Durable!TypeOK
    <2>2. CASE q = r
      BY <2>2, <1>1, DurableAssumption DEF Durable!closeWhileStarting, Durable!lifeVars,
         Durable!resourceVars, Durable!attemptVars, Durable!queueVars, DurableWhole, Durable!Counted,
         Durable!StartedOK, Durable!Unreleased, Durable!EngineOK, Durable!ReleasedOK, Durable!TypeOK
    <2> QED BY <2>1, <2>2
  <1> QED BY <1>2, <1>3, DurableInvIs

(* A close that waited begins.                                              *)
LEMMA DurableStartSettledKeeps ==
    ASSUME Durable!Inv, NEW r \in DurableRuntimes, Durable!StartSettled(r)
    PROVE  Durable!Inv'
  <1>1. Durable!TypeOK /\ \A q \in DurableRuntimes : DurableWhole(q)
    BY DurableInvIs
  <1>2. Durable!TypeOK'
    BY <1>1, DurableToIs, DurableCallersAre, DurableAssumption DEF Durable!StartSettled,
       Durable!BeginClose, Durable!lifeVars, Durable!resourceVars, Durable!attemptVars, Durable!queueVars,
       Durable!TypeOK
  <1>3. ASSUME NEW q \in DurableRuntimes PROVE DurableWhole(q)'
    <2>1. CASE q # r
      BY <2>1, <1>1, DurableToIs, DurableCallersAre, DurableAssumption DEF Durable!StartSettled,
         Durable!BeginClose, Durable!lifeVars, Durable!resourceVars, Durable!attemptVars,
         Durable!queueVars, DurableWhole, Durable!Counted, Durable!StartedOK, Durable!Unreleased,
         Durable!EngineOK, Durable!ReleasedOK, Durable!TypeOK
    <2>2. CASE q = r
      BY <2>2, <1>1, DurableToIs, DurableCallersAre, DurableAssumption DEF Durable!StartSettled,
         Durable!BeginClose, Durable!lifeVars, Durable!resourceVars, Durable!attemptVars,
         Durable!queueVars, DurableWhole, Durable!Counted, Durable!StartedOK, Durable!Unreleased,
         Durable!EngineOK, Durable!ReleasedOK, Durable!TypeOK
    <2> QED BY <2>1, <2>2
  <1> QED BY <1>2, <1>3, DurableInvIs

(* An attempt is queued.                                                    *)
LEMMA DurableDispatchKeeps ==
    ASSUME Durable!Inv, NEW r \in DurableRuntimes, Durable!dispatch(r)
    PROVE  Durable!Inv'
  <1>1. Durable!TypeOK /\ \A q \in DurableRuntimes : DurableWhole(q)
    BY DurableInvIs
  <1>2. Durable!TypeOK'
    <2>1. v1' \in [DurableRuntimes -> {"CREATED", "STARTING", "OPEN", "FAILED", "CLOSING", "CLOSED"}]
      BY <1>1, DurableAssumption DEF Durable!dispatch, Durable!lifeVars, Durable!resourceVars,
         Durable!attemptVars, Durable!queueVars, Durable!TypeOK
    <2>2. v2' \in [DurableRuntimes -> QueueProfiles] /\ v3' \in QueueProfiles \cup {None}
      BY <1>1, DurableAssumption DEF Durable!dispatch, Durable!lifeVars, Durable!resourceVars,
         Durable!attemptVars, Durable!queueVars, Durable!TypeOK
    <2>3. v4' \in [DurableRuntimes -> {"no", "preflight", "launching", "launched"}]
      BY <1>1, DurableAssumption DEF Durable!dispatch, Durable!lifeVars, Durable!resourceVars,
         Durable!attemptVars, Durable!queueVars, Durable!TypeOK
    <2>4. v5' \in [DurableRuntimes -> [Durable!Callers -> Durable!Where]]
      BY <1>1, DurableAssumption DEF Durable!dispatch, Durable!lifeVars, Durable!resourceVars,
         Durable!attemptVars, Durable!queueVars, Durable!TypeOK
    <2>5. v6' \in [DurableRuntimes -> {"no", "waiting", "closing"}]
          /\ v7' \in [DurableRuntimes -> {"none", "open", "ending", "ended"}]
      BY <1>1, DurableAssumption DEF Durable!dispatch, Durable!lifeVars, Durable!resourceVars,
         Durable!attemptVars, Durable!queueVars, Durable!TypeOK
    <2>6. v8' \in [DurableRuntimes -> BOOLEAN] /\ v15' \in [DurableRuntimes -> BOOLEAN] /\ v14' \in BOOLEAN
      BY <1>1, DurableAssumption DEF Durable!dispatch, Durable!lifeVars, Durable!resourceVars,
         Durable!attemptVars, Durable!queueVars, Durable!TypeOK
    <2>7. {v9', v10'} \subseteq DurableRuntimes \cup {None}
      BY <1>1, DurableAssumption DEF Durable!dispatch, Durable!lifeVars, Durable!resourceVars,
         Durable!attemptVars, Durable!queueVars, Durable!TypeOK
    <2>8. /\ v11' \in [DurableRuntimes -> 0..MaxQueued]
          /\ v12' \in 0..MaxQueued /\ v13' \in 0..MaxQueued /\ v16' \in 0..DurableFaults
      <3>1. v12 + v11[r] <= v13 /\ v11[r] \in 0..MaxQueued
        BY <1>1 DEF DurableWhole, Durable!Counted, Durable!TypeOK
      <3>2. UNCHANGED <<v11, v16>> /\ v13' = v13 + 1 /\ v12' = v12 + 1 /\ v13 < MaxQueued
        BY DEF Durable!dispatch
      <3>3. /\ {v12, v13} \subseteq 0..MaxQueued /\ v11 \in [DurableRuntimes -> 0..MaxQueued]
            /\ v16 \in 0..DurableFaults
        BY <1>1 DEF Durable!TypeOK
      <3> QED BY <3>1, <3>2, <3>3, DurableAssumption
    <2> QED BY <2>1, <2>2, <2>3, <2>4, <2>5, <2>6, <2>7, <2>8 DEF Durable!TypeOK
  <1>3. ASSUME NEW q \in DurableRuntimes PROVE DurableWhole(q)'
    <2>1. CASE q # r
      BY <2>1, <1>1, DurableAssumption DEF Durable!dispatch, Durable!lifeVars, Durable!resourceVars,
         Durable!attemptVars, Durable!queueVars, DurableWhole, Durable!Counted, Durable!StartedOK,
         Durable!Unreleased, Durable!EngineOK, Durable!ReleasedOK, Durable!TypeOK
    <2>2. CASE q = r
      BY <2>2, <1>1, DurableAssumption DEF Durable!dispatch, Durable!lifeVars, Durable!resourceVars,
         Durable!attemptVars, Durable!queueVars, DurableWhole, Durable!Counted, Durable!StartedOK,
         Durable!Unreleased, Durable!EngineOK, Durable!ReleasedOK, Durable!TypeOK
    <2> QED BY <2>1, <2>2
  <1> QED BY <1>2, <1>3, DurableInvIs

(* An attempt starts on the runtime of the engine.                          *)
LEMMA DurableExecuteAtInvocationKeeps ==
    ASSUME Durable!Inv, Durable!executeAtInvocation
    PROVE  Durable!Inv'
  <1>1. Durable!TypeOK /\ \A q \in DurableRuntimes : DurableWhole(q)
    BY DurableInvIs
  <1>2. Durable!TypeOK'
    <2>1. v1' \in [DurableRuntimes -> {"CREATED", "STARTING", "OPEN", "FAILED", "CLOSING", "CLOSED"}]
      BY <1>1, DurableAssumption DEF Durable!executeAtInvocation, Durable!lifeVars, Durable!resourceVars,
         Durable!attemptVars, Durable!queueVars, Durable!TypeOK
    <2>2. v2' \in [DurableRuntimes -> QueueProfiles] /\ v3' \in QueueProfiles \cup {None}
      BY <1>1, DurableAssumption DEF Durable!executeAtInvocation, Durable!lifeVars, Durable!resourceVars,
         Durable!attemptVars, Durable!queueVars, Durable!TypeOK
    <2>3. v4' \in [DurableRuntimes -> {"no", "preflight", "launching", "launched"}]
      BY <1>1, DurableAssumption DEF Durable!executeAtInvocation, Durable!lifeVars, Durable!resourceVars,
         Durable!attemptVars, Durable!queueVars, Durable!TypeOK
    <2>4. v5' \in [DurableRuntimes -> [Durable!Callers -> Durable!Where]]
      BY <1>1, DurableAssumption DEF Durable!executeAtInvocation, Durable!lifeVars, Durable!resourceVars,
         Durable!attemptVars, Durable!queueVars, Durable!TypeOK
    <2>5. v6' \in [DurableRuntimes -> {"no", "waiting", "closing"}]
          /\ v7' \in [DurableRuntimes -> {"none", "open", "ending", "ended"}]
      BY <1>1, DurableAssumption DEF Durable!executeAtInvocation, Durable!lifeVars, Durable!resourceVars,
         Durable!attemptVars, Durable!queueVars, Durable!TypeOK
    <2>6. v8' \in [DurableRuntimes -> BOOLEAN] /\ v15' \in [DurableRuntimes -> BOOLEAN] /\ v14' \in BOOLEAN
      BY <1>1, DurableAssumption DEF Durable!executeAtInvocation, Durable!lifeVars, Durable!resourceVars,
         Durable!attemptVars, Durable!queueVars, Durable!TypeOK
    <2>7. {v9', v10'} \subseteq DurableRuntimes \cup {None}
      BY <1>1, DurableAssumption DEF Durable!executeAtInvocation, Durable!lifeVars, Durable!resourceVars,
         Durable!attemptVars, Durable!queueVars, Durable!TypeOK
    <2>8. /\ v11' \in [DurableRuntimes -> 0..MaxQueued]
          /\ v12' \in 0..MaxQueued /\ v13' \in 0..MaxQueued /\ v16' \in 0..DurableFaults
      <3>1. /\ {v12, v13} \subseteq 0..MaxQueued /\ v11 \in [DurableRuntimes -> 0..MaxQueued]
            /\ v16 \in 0..DurableFaults
        BY <1>1 DEF Durable!TypeOK
      <3>2. UNCHANGED <<v13, v16>> /\ v12 > 0 /\ v12' = v12 - 1
        BY DEF Durable!executeAtInvocation
      <3>3. v11' \in [DurableRuntimes -> 0..MaxQueued]
        <4>1. CASE v10 = None
          BY <4>1, <3>1 DEF Durable!executeAtInvocation
        <4>2. CASE v10 # None
          <5>1. v10 \in DurableRuntimes
            BY <1>1, <4>2 DEF Durable!TypeOK
          <5>2. v12 + v11[v10] <= v13
            BY <1>1, <5>1 DEF DurableWhole, Durable!Counted
          <5>3. v11[v10] + 1 \in 0..MaxQueued
            BY <3>1, <3>2, <5>1, <5>2, DurableAssumption
          <5> QED BY <4>2, <3>1, <5>3 DEF Durable!executeAtInvocation
        <4> QED BY <4>1, <4>2
      <3> QED BY <3>1, <3>2, <3>3, DurableAssumption
    <2> QED BY <2>1, <2>2, <2>3, <2>4, <2>5, <2>6, <2>7, <2>8 DEF Durable!TypeOK
  <1>3. ASSUME NEW q \in DurableRuntimes PROVE DurableWhole(q)'
    BY <1>1, DurableAssumption DEF Durable!executeAtInvocation, Durable!lifeVars, Durable!resourceVars,
       Durable!attemptVars, Durable!queueVars, DurableWhole, Durable!Counted, Durable!StartedOK,
       Durable!Unreleased, Durable!EngineOK, Durable!ReleasedOK, Durable!TypeOK
  <1> QED BY <1>2, <1>3, DurableInvIs

(* An attempt that ends counts no more.                                     *)
LEMMA DurableAttemptEndsKeeps ==
    ASSUME Durable!Inv, NEW r \in DurableRuntimes, Durable!AttemptEnds(r)
    PROVE  Durable!Inv'
  <1>1. Durable!TypeOK /\ \A q \in DurableRuntimes : DurableWhole(q)
    BY DurableInvIs
  <1>2. Durable!TypeOK'
    BY <1>1, DurableAssumption DEF Durable!AttemptEnds, Durable!lifeVars, Durable!resourceVars,
       Durable!attemptVars, Durable!queueVars, Durable!TypeOK
  <1>3. ASSUME NEW q \in DurableRuntimes PROVE DurableWhole(q)'
    <2>1. CASE q # r
      BY <2>1, <1>1, DurableAssumption DEF Durable!AttemptEnds, Durable!lifeVars, Durable!resourceVars,
         Durable!attemptVars, Durable!queueVars, DurableWhole, Durable!Counted, Durable!StartedOK,
         Durable!Unreleased, Durable!EngineOK, Durable!ReleasedOK, Durable!TypeOK
    <2>2. CASE q = r
      BY <2>2, <1>1, DurableAssumption DEF Durable!AttemptEnds, Durable!lifeVars, Durable!resourceVars,
         Durable!attemptVars, Durable!queueVars, DurableWhole, Durable!Counted, Durable!StartedOK,
         Durable!Unreleased, Durable!EngineOK, Durable!ReleasedOK, Durable!TypeOK
    <2> QED BY <2>1, <2>2
  <1> QED BY <1>2, <1>3, DurableInvIs

(* The authority is lost.                                                   *)
LEMMA DurableAbortKeeps ==
    ASSUME Durable!Inv, Durable!Abort
    PROVE  Durable!Inv'
  <1>1. Durable!TypeOK /\ \A q \in DurableRuntimes : DurableWhole(q)
    BY DurableInvIs
  <1>2. Durable!TypeOK'
    BY <1>1, DurableAssumption DEF Durable!Abort, Durable!lifeVars, Durable!resourceVars,
       Durable!attemptVars, Durable!queueVars, Durable!TypeOK
  <1>3. ASSUME NEW q \in DurableRuntimes PROVE DurableWhole(q)'
    BY <1>1, DurableAssumption DEF Durable!Abort, Durable!lifeVars, Durable!resourceVars,
       Durable!attemptVars, Durable!queueVars, DurableWhole, Durable!Counted, Durable!StartedOK,
       Durable!Unreleased, Durable!EngineOK, Durable!ReleasedOK, Durable!TypeOK
  <1> QED BY <1>2, <1>3, DurableInvIs

(* Every step keeps the invariant.                                          *)
LEMMA DurableNextInv ==
    ASSUME Durable!Inv, [Durable!Next]_Durable!vars
    PROVE  Durable!Inv'
  <1>1. CASE UNCHANGED Durable!vars
    BY <1>1 DEF Durable!vars, Durable!lifeVars, Durable!resourceVars, Durable!attemptVars,
       Durable!queueVars, Durable!Inv, Durable!DrainedBeforeEnd, Durable!ClosedIsReleased, Durable!Counted,
       Durable!StartedOK, Durable!Unreleased, Durable!EngineOK, Durable!ReleasedOK, Durable!TypeOK
  <1>2. CASE Durable!Next
    BY <1>2, DurableStartKeeps, DurablePreflightKeeps, DurablePreflightFailsKeeps, DurableLaunchKeeps,
       DurableOpenedKeeps, DurableBeginReleaseKeeps, DurableEngineStopsKeeps, DurableEngineStopFailsKeeps,
       DurableRejectedKeeps, DurableEndPoolKeeps, DurableNothingToEndKeeps, DurableStillRunningKeeps,
       DurablePoolEndedKeeps, DurableCloseKeeps, DurableCloseWhileStartingKeeps, DurableStartSettledKeeps,
       DurableDispatchKeeps, DurableExecuteAtInvocationKeeps, DurableAttemptEndsKeeps, DurableAbortKeeps DEF
       Durable!Next
  <1> QED BY <1>1, <1>2

(* What the invariant says of drain and close.                              *)
LEMMA DurableInvSays ==
    ASSUME Durable!Inv
    PROVE  Durable!TypeOK /\ Durable!DrainedBeforeEnd /\ Durable!ClosedIsReleased
  BY DEF Durable!Inv

(* A runtime opens under authority and on its own profile.                  *)
LEMMA DurableOpensThen ==
    ASSUME Durable!Inv, [Durable!Next]_Durable!vars
    PROVE  Durable!OpensAsProjected
  <1>1. Durable!TypeOK /\ \A q \in DurableRuntimes : DurableWhole(q)
    BY DurableInvIs
  <1> SUFFICES ASSUME NEW r \in DurableRuntimes, v1[r] # "OPEN", v1'[r] = "OPEN"
               PROVE  v14 /\ v3 = v2[r]
    BY DEF Durable!OpensAsProjected
  <1>2. CASE UNCHANGED Durable!vars
    BY <1>2 DEF Durable!vars, Durable!lifeVars
  <1>3. ASSUME NEW q \in DurableRuntimes, Durable!Opened(q)
        PROVE  v14 /\ v3 = v2[r]
    <2>1. q = r /\ v14
      BY <1>1, <1>3, DurableStartFailsIs DEF Durable!Opened, Durable!TypeOK
    <2> QED BY <1>1, <1>3, <2>1 DEF Durable!Opened, DurableWhole, Durable!StartedOK
  <1>4. ASSUME NEW q \in DurableRuntimes,
               Durable!start(q) \/ Durable!Preflight(q) \/ Durable!PreflightFails(q) \/ Durable!Launch(q)
        PROVE  FALSE
    BY <1>1, <1>4, DurableStartFailsIs DEF Durable!start, Durable!Preflight, Durable!PreflightFails,
       Durable!Launch, Durable!TypeOK, Durable!lifeVars
  <1>5. ASSUME NEW q \in DurableRuntimes,
               Durable!close(q) \/ Durable!closeWhileStarting(q) \/ Durable!StartSettled(q)
               \/ Durable!dispatch(q) \/ Durable!AttemptEnds(q)
        PROVE  FALSE
    BY <1>1, <1>5 DEF Durable!close, Durable!closeWhileStarting, Durable!StartSettled, Durable!BeginClose,
       Durable!dispatch, Durable!AttemptEnds, Durable!TypeOK, Durable!lifeVars
  <1>6. ASSUME NEW q \in DurableRuntimes, NEW c \in Durable!Callers,
               Durable!BeginRelease(q, c) \/ Durable!EngineStops(q, c) \/ Durable!EngineStopFails(q, c)
               \/ Durable!EndPool(q, c)
        PROVE  FALSE
    BY <1>6 DEF Durable!BeginRelease, Durable!EngineStops, Durable!EngineStopFails, Durable!EndPool
  <1>7. ASSUME NEW q \in DurableRuntimes, NEW c \in Durable!Callers, NEW ok \in BOOLEAN,
               Durable!Settle(q, c, ok)
        PROVE  FALSE
    BY <1>1, <1>7, DurableSettleIs
  <1>8. ASSUME NEW q \in DurableRuntimes, NEW c \in Durable!Callers,
               Durable!Rejected(q, c) \/ Durable!NothingToEnd(q, c) \/ Durable!StillRunning(q, c)
               \/ Durable!PoolEnded(q, c)
        PROVE  FALSE
    <2>1. Durable!Settle(q, c, FALSE) \/ Durable!Settle(q, c, v7[q] # "ending") \/ Durable!Settle(q, c, TRUE)
      BY <1>8 DEF Durable!Rejected, Durable!NothingToEnd, Durable!StillRunning, Durable!PoolEnded
    <2>2. (v7[q] # "ending") \in BOOLEAN
      OBVIOUS
    <2> QED BY <1>7, <2>1, <2>2, Zenon
  <1>9. CASE Durable!executeAtInvocation \/ Durable!Abort
    BY <1>9 DEF Durable!executeAtInvocation, Durable!Abort, Durable!lifeVars
  <1> QED BY <1>2, <1>3, <1>4, <1>5, <1>6, <1>8, <1>9 DEF Durable!Next

------------------------------------------------------------------------------
(* ManagedChange: v1 kind, v2 resource, v3 plan, v4 call, v5 activity,      *)
(* v6 executions, v7 boot, v8 faults.                                       *)

(* What a step of one execution may do to it, its Activity and the resource. *)
ChangeDoes(c, new, act) ==
  LET its == v5[v4[c].id] IN
  /\ v4[c].pc # "no"
  /\ new \in Change!Call /\ act \in Change!Activity
  /\ v4' = [v4 EXCEPT ![c] = new]
  /\ v5' = [v5 EXCEPT ![v4[c].id] = act]
  /\ v2' \in Change!Resource
  /\ v2' = v2 \/ v2'.version = v2.version + 1
  /\ v8' \in 0..ChangeFaults /\ v8 <= v8'
  /\ UNCHANGED <<v1, v3, v6, v7>>
  /\ new.pc # "no" => new.id = v4[c].id /\ Change!CallOK(c)'
  /\ act.plan = its.plan /\ act.boot <= v7
  /\ act.changed /\ ~its.changed /\ v1 \in {"model-binding", "subject"} =>
       /\ v2.version = Change!Needs(act.plan)
       /\ v2'.version = v2.version + 1
  /\ act.outcome = "SUCCEEDED" => act.effect /\ act.evidence
  /\ act.outcome = "FAILED" /\ act.effect => act.broken
  /\ act.retained /\ act.outcome = None /\ ~act.broken => new.pc # "no" \/ act.boot # v7

(* What is planned has a version that its change needs.                     *)
LEMMA ChangePlanned ==
    ASSUME Change!TypeOK, NEW p \in ChangePlans, v3[p] # Change!NoPlan
    PROVE  v3[p] \in Change!Plan /\ v3[p].seen.version \in Nat /\ Change!Needs(p) \in Nat
  <1>1. v3[p] \in Change!Plan
    BY DEF Change!TypeOK
  <1> QED BY <1>1 DEF Change!Plan, Change!Input, Change!Resource, Change!Needs

(* Such a step keeps the invariant.                                         *)
LEMMA ChangeStepKeeps ==
    ASSUME Change!Inv, NEW c \in ChangeCallers, NEW new, NEW act, ChangeDoes(c, new, act)
    PROVE  Change!Inv'
  <1> DEFINE x == v4[c].id
  <1>0. Change!TypeOK /\ Change!CallOK(c) /\ x \in 1..v6 /\ x \in Change!Executions
    BY ChangeAssumption DEF Change!Inv, Change!CallOK, ChangeDoes, Change!TypeOK, Change!Executions
  <1>1. Change!TypeOK'
    <2>1. v4' \in [ChangeCallers -> Change!Call] /\ v5' \in [Change!Executions -> Change!Activity]
      BY <1>0 DEF Change!TypeOK, ChangeDoes
    <2>2. v7 <= v8' + 1
      <3>1. (v8 <= v8') /\ v8' \in 0..ChangeFaults
        BY DEF ChangeDoes
      <3>2. v7 \in Nat /\ v8 \in Nat /\ v7 <= v8 + 1
        BY <1>0, ChangeAssumption DEF Change!TypeOK
      <3>3. \A f, g, b \in Nat : f <= g /\ b <= f + 1 => b <= g + 1
        OBVIOUS
      <3>4. v8' \in Nat
        BY <3>1
      <3> QED BY <3>1, <3>2, <3>3, <3>4
    <2> QED BY <1>0, <2>1, <2>2 DEF Change!TypeOK, ChangeDoes
  <1>2. \A d \in ChangeCallers \ {c} : v4'[d] = v4[d]
    BY <1>0 DEF Change!TypeOK, ChangeDoes
  <1>3. v4'[c] = new /\ v5'[x] = act
    BY <1>0 DEF Change!TypeOK, ChangeDoes
  <1>4. \A y \in Change!Executions \ {x} : v5'[y] = v5[y]
    BY <1>0 DEF Change!TypeOK, ChangeDoes
  <1>5. /\ v1' = v1 /\ v3' = v3 /\ v6' = v6 /\ v7' = v7
        /\ v2' = v2 \/ v2'.version = v2.version + 1
        /\ v2.version \in Nat /\ v2'.version \in Nat
        /\ \A p \in ChangePlans : v3[p] # Change!NoPlan => v3[p].seen.version \in Nat /\ Change!Needs(p) \in Nat
        /\ \A p : Change!Needs(p)' = Change!Needs(p)
    BY <1>0, <1>1, ChangePlanned DEF ChangeDoes, Change!TypeOK, Change!Resource, Change!Needs
  <1>6. (\A d \in ChangeCallers : Change!CallOK(d))'
    <2> SUFFICES ASSUME NEW d \in ChangeCallers PROVE Change!CallOK(d)'
      OBVIOUS
    <2>1. CASE d = c
      BY <1>3, <2>1 DEF ChangeDoes, Change!CallOK
    <2>2. CASE d # c
      <3>1. Change!CallOK(d) /\ (v4[d].pc # "no" => v4[d].id # x)
        BY <2>2 DEF Change!Inv, Change!OwnExecutions, ChangeDoes
      <3>2. v4[d].pc # "no" => v5'[v4[d].id] = v5[v4[d].id]
        BY <1>0, <1>4, <3>1, ChangeAssumption DEF Change!CallOK, Change!TypeOK, Change!Executions
      <3> QED BY <1>2, <1>5, <2>2, <3>1, <3>2 DEF Change!CallOK, Change!samePreconditions, Change!precondition
    <2> QED BY <2>1, <2>2
  <1>7. Change!OwnExecutions'
    BY <1>2, <1>3 DEF Change!Inv, Change!OwnExecutions, ChangeDoes
  <1>8. (\A p \in ChangePlans : Change!PlanOK(p))'
    BY <1>5 DEF Change!Inv, Change!PlanOK, Change!Resource
  <1>9. (\A y \in Change!Executions : Change!ActivityOK(y))'
    <2> SUFFICES ASSUME NEW y \in Change!Executions PROVE Change!ActivityOK(y)'
      OBVIOUS
    <2>1. Change!ActivityOK(y) /\ y \in Nat /\ v6 \in Nat
      BY <1>0 DEF Change!Inv, Change!Executions, Change!TypeOK
    <2>2. CASE y # x
      BY <1>4, <1>5, <2>1, <2>2 DEF Change!ActivityOK
    <2>3. CASE y = x
      <3>1. act.plan = v5[x].plan /\ act.boot <= v7 /\ act.plan \in ChangePlans /\ v3[act.plan] # Change!NoPlan
        BY <1>0, <1>5 DEF ChangeDoes, Change!CallOK
      <3>2. x <= v6 /\ ~(x > v6)
        BY <1>0, <2>1
      <3>3. act.changed /\ v1 \in {"model-binding", "subject"} => Change!Needs(act.plan) < v2'.version
        BY <1>5, <2>1, <2>3, <3>1 DEF ChangeDoes, Change!ActivityOK
      <3> QED BY <1>3, <1>5, <2>3, <3>1, <3>2, <3>3 DEF Change!ActivityOK
    <2> QED BY <2>2, <2>3
  <1>10. Change!EffectsDiffer'
    <2> SUFFICES ASSUME v1 \in {"model-binding", "subject"}, NEW y \in Change!Executions, NEW z \in Change!Executions,
                        v5'[y].changed, v5'[z].changed, v5'[y].plan = v5'[z].plan
                 PROVE  y = z
      BY <1>5 DEF Change!EffectsDiffer
    <2>1. \A a \in Change!Executions : v5'[a].plan = v5[a].plan
      BY <1>3, <1>4 DEF ChangeDoes
    <2>2. \A a \in Change!Executions : v5[a].changed => Change!Needs(v5[a].plan) < v2.version
      BY DEF Change!Inv, Change!ActivityOK
    <2>3. \A a \in Change!Executions : v5'[a].changed /\ ~v5[a].changed =>
            a = x /\ Change!Needs(v5[a].plan) = v2.version
      BY <1>3, <1>4 DEF ChangeDoes
    <2>4. CASE v5[y].changed /\ v5[z].changed
      BY <2>1, <2>4 DEF Change!Inv, Change!EffectsDiffer
    <2>5. CASE ~v5[y].changed \/ ~v5[z].changed
      BY <1>0, <1>5, <2>1, <2>2, <2>3, <2>5
    <2> QED BY <2>4, <2>5
  <1>11. Change!OutcomeIsTrue'
    BY <1>3, <1>4 DEF Change!Inv, Change!OutcomeIsTrue, ChangeDoes
  <1>12. Change!NothingLeftOpen'
    <2> SUFFICES ASSUME NEW y \in Change!Executions, v5'[y].retained, v5'[y].outcome = None,
                        ~v5'[y].broken, v5'[y].boot = v7
                 PROVE  \E d \in ChangeCallers : v4'[d].pc # "no" /\ v4'[d].id = y
      BY <1>5 DEF Change!NothingLeftOpen, Change!Underway
    <2>1. CASE y = x
      BY <1>3, <2>1 DEF ChangeDoes
    <2>2. CASE y # x
      <3>1. PICK d \in ChangeCallers : v4[d].pc # "no" /\ v4[d].id = y
        BY <1>4, <2>2 DEF Change!Inv, Change!NothingLeftOpen, Change!Underway
      <3>2. d # c
        BY <2>2, <3>1
      <3> QED BY <1>2, <3>1, <3>2
    <2> QED BY <2>1, <2>2
  <1> QED BY <1>1, <1>6, <1>7, <1>8, <1>9, <1>10, <1>11, <1>12 DEF Change!Inv

(* What is known of an execution under way.                                *)
LEMMA ChangeKnown ==
    ASSUME Change!Inv, NEW c \in ChangeCallers, v4[c].pc # "no"
    PROVE  /\ v4[c].id \in Change!Executions /\ v4[c] \in Change!Call /\ v5[v4[c].id] \in Change!Activity
           /\ Change!TypeOK /\ Change!CallOK(c) /\ Change!ActivityOK(v4[c].id)
           /\ v5[v4[c].id].outcome = None
           /\ Change!NoCall \in Change!Call /\ Change!NoCall.pc = "no"
           /\ v2 \in Change!Resource /\ v8 \in 0..ChangeFaults /\ v8 <= v8
  <1>1. Change!TypeOK /\ Change!CallOK(c) /\ v4[c].id \in 1..v6
    BY DEF Change!Inv, Change!CallOK
  <1>2. v4[c].id \in Change!Executions
    BY <1>1, ChangeAssumption DEF Change!TypeOK, Change!Executions
  <1>3. Change!NoCall \in Change!Call /\ Change!NoCall.pc = "no"
    BY ChangeAssumption DEF Change!NoCall, Change!Call, Change!Steps, Change!Contents
  <1>4. v8 \in 0..ChangeFaults /\ v8 <= v8
    BY <1>1 DEF Change!TypeOK
  <1> QED BY <1>1, <1>2, <1>3, <1>4 DEF Change!Inv, Change!TypeOK, Change!CallOK

(* A step that leaves the Activity as it is.                                *)
LEMMA ChangeOwnStep ==
    ASSUME Change!Inv, NEW c \in ChangeCallers, v4[c].pc # "no", NEW new \in Change!Call,
           v4' = [v4 EXCEPT ![c] = new], UNCHANGED <<v1, v2, v3, v5, v6, v7>>,
           UNCHANGED v8 \/ Change!Fault,
           new.pc # "no" => new.id = v4[c].id /\ Change!CallOK(c)',
           v5[v4[c].id].retained /\ ~v5[v4[c].id].broken =>
              new.pc # "no" \/ v5[v4[c].id].boot # v7
    PROVE  Change!Inv'
  <1> DEFINE x == v4[c].id
  <1>1. /\ x \in Change!Executions /\ v4[c] \in Change!Call /\ v5[x] \in Change!Activity
        /\ Change!TypeOK /\ Change!CallOK(c) /\ Change!ActivityOK(x) /\ v5[x].outcome = None
        /\ Change!NoCall \in Change!Call /\ Change!NoCall.pc = "no"
        /\ v2 \in Change!Resource /\ v8 \in 0..ChangeFaults /\ v8 <= v8
    BY ChangeKnown
  <1>2. v5' = [v5 EXCEPT ![x] = v5[x]]
    BY <1>1 DEF Change!TypeOK
  <1>3. v8' \in 0..ChangeFaults /\ v8 <= v8'
    BY <1>1, ChangeAssumption DEF Change!Fault
  <1>4. ChangeDoes(c, new, v5[x])
    BY <1>1, <1>2, <1>3, ChangeAssumption DEF ChangeDoes, Change!ActivityOK
  <1> QED BY <1>4, ChangeStepKeeps

(* retainCurrent: an answer before the Activity is retained leaves nothing. *)
LEMMA ChangeRetainKeeps ==
    ASSUME Change!Inv, NEW c \in ChangeCallers, Change!retainCurrent(c)
    PROVE  Change!Inv'
  <1> DEFINE x == v4[c].id
  <1>0. v4[c].pc = "retain" /\ v4[c].pc # "no"
    BY DEF Change!retainCurrent
  <1>1. /\ x \in Change!Executions /\ v4[c] \in Change!Call /\ v5[x] \in Change!Activity
        /\ Change!TypeOK /\ Change!CallOK(c) /\ Change!ActivityOK(x) /\ v5[x].outcome = None
        /\ Change!NoCall \in Change!Call /\ Change!NoCall.pc = "no"
        /\ v2 \in Change!Resource /\ v8 \in 0..ChangeFaults /\ v8 <= v8
    BY <1>0, ChangeKnown
  <1>2. PICK kept : kept = [v5[x] EXCEPT !.retained = TRUE, !.boot = v4[c].boot]
    OBVIOUS
  <1>3. /\ kept \in Change!Activity /\ kept.plan = v5[x].plan /\ kept.boot = v4[c].boot /\ kept.retained
        /\ kept.outcome = None /\ ~kept.effect /\ kept.changed = v5[x].changed /\ kept.boot <= v7
    BY <1>0, <1>1, <1>2 DEF Change!Activity, Change!Call, Change!CallOK
  <1>4. CASE Change!Fenced(c) /\ Change!Goes(c, "check") /\ v5' = [v5 EXCEPT ![x] = kept] /\ UNCHANGED v8
    <2>1. PICK new : new = [v4[c] EXCEPT !.pc = "check"]
      OBVIOUS
    <2>2. new \in Change!Call /\ new.pc = "check" /\ new.id = x /\ new.boot = v4[c].boot /\ new.plan = v4[c].plan
      BY <1>1, <2>1 DEF Change!Call, Change!Steps
    <2>3. v4' = [v4 EXCEPT ![c] = new] /\ UNCHANGED <<v1, v2, v3, v6, v7>>
      BY <1>4, <2>1 DEF Change!Goes, Change!retainCurrent
    <2>4. Change!CallOK(c)'
      BY <1>0, <1>1, <1>3, <1>4, <2>2, <2>3 DEF Change!CallOK, Change!TypeOK
    <2>5. ChangeDoes(c, new, kept)
      BY <1>0, <1>1, <1>3, <1>4, <2>2, <2>3, <2>4, ChangeAssumption DEF ChangeDoes
    <2> QED BY <2>5, ChangeStepKeeps
  <1>5. ASSUME Change!Answers(c), v5' = v5, UNCHANGED v8 \/ Change!Fault PROVE Change!Inv'
    <2>1. ~v5[x].retained
      BY <1>0, <1>1 DEF Change!CallOK
    <2> QED BY <1>0, <1>1, <1>5, <2>1, ChangeOwnStep DEF Change!Answers, Change!retainCurrent
  <1>6. ASSUME Change!Answers(c), Change!Fault, NEW cut, cut = [kept EXCEPT !.broken = TRUE],
               v5' = [v5 EXCEPT ![x] = cut]
        PROVE  Change!Inv'
    <2>1. /\ cut \in Change!Activity /\ cut.plan = v5[x].plan /\ cut.boot <= v7
          /\ ~cut.effect /\ cut.changed = v5[x].changed /\ cut.outcome = None /\ cut.broken
      BY <1>3, <1>6 DEF Change!Activity
    <2>2. v8' \in 0..ChangeFaults /\ v8 <= v8'
      BY <1>1, <1>6, ChangeAssumption DEF Change!Fault
    <2>3. ChangeDoes(c, Change!NoCall, cut)
      BY <1>0, <1>1, <1>6, <2>1, <2>2, ChangeAssumption DEF ChangeDoes, Change!Answers, Change!retainCurrent
    <2> QED BY <2>3, ChangeStepKeeps
  <1>7. PICK cut : cut = [kept EXCEPT !.broken = TRUE]
    OBVIOUS
  <1>8. /\ [v5 EXCEPT ![x].retained = TRUE, ![x].boot = v4[c].boot] = [v5 EXCEPT ![x] = kept]
        /\ [[v5 EXCEPT ![x].retained = TRUE, ![x].boot = v4[c].boot] EXCEPT ![x].broken = TRUE]
             = [v5 EXCEPT ![x] = cut]
    BY <1>1, <1>2, <1>7 DEF Change!TypeOK
  <1>9. \/ Change!Fenced(c) /\ Change!Goes(c, "check") /\ v5' = [v5 EXCEPT ![x] = kept] /\ UNCHANGED v8
        \/ Change!Answers(c) /\ v5' = v5 /\ UNCHANGED v8
        \/ Change!Fault /\ Change!Answers(c) /\ v5' = v5
        \/ Change!Fault /\ Change!Answers(c) /\ v5' = [v5 EXCEPT ![x] = cut]
    BY <1>8, Zenon DEF Change!retainCurrent
  <1> QED BY <1>4, <1>5, <1>6, <1>7, <1>9

(* A move within the execution, to a position that asks for less than the   *)
(* one it was in.                                                           *)
LEMMA ChangeFailingKeeps ==
    ASSUME Change!Inv, NEW c \in ChangeCallers, v4[c].pc \in {"check", "read", "commit"},
           Change!Goes(c, "failing"), UNCHANGED <<v1, v2, v3, v5, v6, v7>>,
           UNCHANGED v8 \/ Change!Fault
    PROVE  Change!Inv'
  <1> DEFINE x == v4[c].id
  <1>0. v4[c].pc # "no"
    OBVIOUS
  <1>1. /\ x \in Change!Executions /\ v4[c] \in Change!Call /\ v5[x] \in Change!Activity
        /\ Change!TypeOK /\ Change!CallOK(c) /\ Change!ActivityOK(x) /\ v5[x].outcome = None
        /\ Change!NoCall \in Change!Call /\ Change!NoCall.pc = "no"
        /\ v2 \in Change!Resource /\ v8 \in 0..ChangeFaults /\ v8 <= v8
    BY <1>0, ChangeKnown
  <1>2. PICK new : new = [v4[c] EXCEPT !.pc = "failing"]
    OBVIOUS
  <1>3. /\ new \in Change!Call /\ new.pc = "failing" /\ new.id = x /\ new.boot = v4[c].boot /\ new.plan = v4[c].plan
        /\ v4' = [v4 EXCEPT ![c] = new]
    BY <1>1, <1>2 DEF Change!Call, Change!Steps, Change!Goes
  <1>4. Change!CallOK(c)'
    BY <1>1, <1>3 DEF Change!CallOK, Change!TypeOK
  <1> QED BY <1>0, <1>3, <1>4, ChangeOwnStep

(* CheckPlan: what the execution goes on with is the confirmed plan.        *)
LEMMA ChangeCheckKeeps ==
    ASSUME Change!Inv, NEW c \in ChangeCallers, Change!CheckPlan(c)
    PROVE  Change!Inv'
  <1> DEFINE x == v4[c].id
  <1>0. v4[c].pc = "check" /\ v4[c].pc # "no"
    BY DEF Change!CheckPlan
  <1>1. /\ x \in Change!Executions /\ v4[c] \in Change!Call /\ v5[x] \in Change!Activity
        /\ Change!TypeOK /\ Change!CallOK(c) /\ Change!ActivityOK(x) /\ v5[x].outcome = None
        /\ Change!NoCall \in Change!Call /\ Change!NoCall.pc = "no"
        /\ v2 \in Change!Resource /\ v8 \in 0..ChangeFaults /\ v8 <= v8
    BY <1>0, ChangeKnown
  <1>2. UNCHANGED <<v1, v2, v3, v5, v6, v7, v8>>
    BY DEF Change!CheckPlan
  <1>3. CASE Change!Goes(c, "failing")
    BY <1>0, <1>2, <1>3, ChangeFailingKeeps
  <1>4. CASE /\ v4[c].input = v3[v4[c].plan].input
             /\ Change!samePreconditions(v2, v3[v4[c].plan].seen)
             /\ v4' = [v4 EXCEPT ![c].pc = IF v1 = "secret" THEN "read" ELSE "commit", ![c].seen = v2]
    <2>1. PICK to \in {"read", "commit"} : to = (IF v1 = "secret" THEN "read" ELSE "commit")
      OBVIOUS
    <2>2. PICK new : new = [v4[c] EXCEPT !.pc = to, !.seen = v2]
      OBVIOUS
    <2>3. /\ new \in Change!Call /\ new.pc = to /\ new.id = x /\ new.boot = v4[c].boot /\ new.plan = v4[c].plan
          /\ new.input = v4[c].input /\ new.seen = v2
      BY <1>1, <2>2 DEF Change!Call, Change!Steps
    <2>4. v4' = [v4 EXCEPT ![c] = new]
      BY <1>1, <1>4, <2>1, <2>2 DEF Change!TypeOK
    <2>5. to = "read" => v1 = "secret"
      BY <2>1
    <2>6. Change!CallOK(c)'
      BY <1>0, <1>1, <1>2, <1>4, <2>3, <2>4, <2>5 DEF Change!CallOK, Change!TypeOK, Change!samePreconditions,
         Change!precondition
    <2> QED BY <1>0, <1>2, <2>3, <2>4, <2>6, ChangeOwnStep
  <1> QED BY <1>3, <1>4, Zenon DEF Change!CheckPlan

(* ReadSecret.                                                              *)
LEMMA ChangeReadSecretKeeps ==
    ASSUME Change!Inv, NEW c \in ChangeCallers, Change!ReadSecret(c)
    PROVE  Change!Inv'
  <1> DEFINE x == v4[c].id
  <1>0. v4[c].pc = "read" /\ v4[c].pc # "no"
    BY DEF Change!ReadSecret
  <1>1. /\ x \in Change!Executions /\ v4[c] \in Change!Call /\ v5[x] \in Change!Activity
        /\ Change!TypeOK /\ Change!CallOK(c) /\ Change!ActivityOK(x) /\ v5[x].outcome = None
        /\ Change!NoCall \in Change!Call /\ Change!NoCall.pc = "no"
        /\ v2 \in Change!Resource /\ v8 \in 0..ChangeFaults /\ v8 <= v8
    BY <1>0, ChangeKnown
  <1>2. PICK new : new = [v4[c] EXCEPT !.pc = "commit", !.seen = v2]
    OBVIOUS
  <1>3. /\ new \in Change!Call /\ new.pc = "commit" /\ new.id = x /\ new.boot = v4[c].boot /\ new.plan = v4[c].plan
        /\ new.input = v4[c].input
    BY <1>1, <1>2 DEF Change!Call, Change!Steps
  <1>4. v4' = [v4 EXCEPT ![c] = new] /\ UNCHANGED <<v1, v2, v3, v5, v6, v7, v8>>
    BY <1>1, <1>2 DEF Change!TypeOK, Change!ReadSecret
  <1>5. Change!CallOK(c)'
    BY <1>0, <1>1, <1>3, <1>4 DEF Change!CallOK, Change!TypeOK
  <1> QED BY <1>0, <1>3, <1>4, <1>5, ChangeOwnStep

(* What is expected of the resource when its owner changes it.              *)
LEMMA ChangeAdmitted ==
    ASSUME Change!Inv, NEW c \in ChangeCallers, v4[c].pc = "commit", Change!Admits(c)
    PROVE  LET p == v3[v4[c].plan] IN
           /\ v1 = "model-binding" => v2 = p.seen
           /\ v1 = "gateway-profile" => v2.content = p.seen.content
           /\ v1 = "configuration-activation" => v2.content = p.input.expects.content
           /\ v1 = "subject" =>
                /\ v2.version = p.input.expects.version
                /\ p.seen.version = p.input.expects.version => v2 = p.seen
           /\ v4[c].input = p.input
  <1>1. Change!CallOK(c) /\ v4[c].plan \in ChangePlans /\ v3[v4[c].plan] # Change!NoPlan /\ Change!PlanOK(v4[c].plan)
    BY DEF Change!Inv, Change!CallOK
  <1>2. v1 # "secret" => Change!samePreconditions(v4[c].seen, v3[v4[c].plan].seen)
    BY <1>1 DEF Change!CallOK
  <1>3. CASE v1 \in {"model-binding", "gateway-profile"}
    BY <1>1, <1>2, <1>3 DEF Change!CallOK, Change!Admits, Change!aiRuntimeAdmits, Change!samePreconditions,
       Change!precondition
  <1>4. CASE v1 \in {"configuration-activation", "configuration-revision"}
    BY <1>1, <1>4 DEF Change!CallOK, Change!Admits, Change!configurationAdmits
  <1>5. CASE v1 = "subject"
    BY <1>1, <1>5 DEF Change!CallOK, Change!PlanOK, Change!Admits, Change!subjectAdmits
  <1>6. CASE v1 = "secret"
    BY <1>1, <1>6 DEF Change!CallOK
  <1> QED BY <1>3, <1>4, <1>5, <1>6 DEF Change!Inv, Change!TypeOK, Change!Kinds

(* execute: a change that is admitted is one over the planned resource.     *)
LEMMA ChangeExecuteKeeps ==
    ASSUME Change!Inv, NEW c \in ChangeCallers, Change!execute(c)
    PROVE  Change!Inv'
  <1> DEFINE x == v4[c].id
  <1>0. v4[c].pc = "commit" /\ v4[c].pc # "no"
    BY DEF Change!execute
  <1>1. /\ x \in Change!Executions /\ v4[c] \in Change!Call /\ v5[x] \in Change!Activity
        /\ Change!TypeOK /\ Change!CallOK(c) /\ Change!ActivityOK(x) /\ v5[x].outcome = None
        /\ Change!NoCall \in Change!Call /\ Change!NoCall.pc = "no"
        /\ v2 \in Change!Resource /\ v8 \in 0..ChangeFaults /\ v8 <= v8
    BY <1>0, ChangeKnown
  <1>2. CASE Change!Goes(c, "failing") /\ UNCHANGED <<v2, v5>> /\ (UNCHANGED v8 \/ Change!Fault)
    BY <1>0, <1>2, ChangeFailingKeeps DEF Change!execute
  <1> DEFINE Done == [v5 EXCEPT ![x].effect = TRUE, ![x].changed = (Change!Changed(c) # v2)]
  <1>3. CASE /\ Change!Admits(c) /\ v2' = Change!Changed(c)
             /\ \/ v5' = Done /\ Change!Goes(c, "verify") /\ UNCHANGED v8
                \/ v5' = [Done EXCEPT ![x].broken = TRUE] /\ Change!Goes(c, "failing") /\ Change!Fault
    <2>0. PICK differs \in BOOLEAN : differs = (Change!Changed(c) # v2)
      OBVIOUS
    <2>1. PICK done : done = [v5[x] EXCEPT !.effect = TRUE, !.changed = differs]
      OBVIOUS
    <2>2. PICK lost : lost = [v5[x] EXCEPT !.effect = TRUE, !.changed = differs, !.broken = TRUE]
      OBVIOUS
    <2>3. PICK act \in {done, lost}, to \in {"verify", "failing"} :
             /\ v5' = [v5 EXCEPT ![x] = act] /\ Change!Goes(c, to)
             /\ UNCHANGED v8 \/ Change!Fault
             /\ to = "failing" => act = lost
      <3>1. /\ Done = [v5 EXCEPT ![x] = done]
            /\ [Done EXCEPT ![x].broken = TRUE] = [v5 EXCEPT ![x] = lost]
        BY <1>1, <2>0, <2>1, <2>2 DEF Change!TypeOK
      <3> QED BY <1>3, <3>1
    <2>4. /\ act \in Change!Activity /\ act.plan = v5[x].plan /\ act.retained = v5[x].retained
          /\ act.boot = v5[x].boot /\ act.outcome = None /\ act.effect /\ act.changed = differs
          /\ to = "failing" => act.broken
      BY <1>1, <2>1, <2>2, <2>3 DEF Change!Activity
    <2>5. PICK new : new = [v4[c] EXCEPT !.pc = to]
      OBVIOUS
    <2>6. /\ new \in Change!Call /\ new.pc = to /\ new.id = x /\ new.boot = v4[c].boot /\ new.plan = v4[c].plan
          /\ v4' = [v4 EXCEPT ![c] = new]
      BY <1>1, <2>3, <2>5 DEF Change!Call, Change!Steps, Change!Goes
    <2>7. UNCHANGED <<v1, v3, v6, v7>> /\ v2.version < ChangeVersions
      BY DEF Change!execute
    <2>8. Change!CallOK(c)'
      BY <1>0, <1>1, <2>3, <2>4, <2>6, <2>7 DEF Change!CallOK, Change!TypeOK
    <2>9. /\ v2' \in Change!Resource /\ (v2' = v2 \/ v2'.version = v2.version + 1)
          /\ differs => v2'.version = v2.version + 1
      <3>1. PICK r : r = [version |-> v2.version + 1, content |-> v4[c].input.content]
        OBVIOUS
      <3>2. v4[c].input \in Change!Input
        BY <1>0, <1>1, ChangePlanned DEF Change!CallOK, Change!Plan
      <3>3. r \in Change!Resource /\ r.version = v2.version + 1
        BY <1>1, <2>7, <3>1, <3>2, ChangeAssumption DEF Change!Resource, Change!Input
      <3>4. v2' = v2 \/ v2' = r
        BY <1>3, <3>1 DEF Change!Changed
      <3> QED BY <1>1, <1>3, <2>0, <3>3, <3>4
    <2>10. v1 \in {"model-binding", "subject"} => v2.version = Change!Needs(act.plan)
      <3>1. act.plan = v4[c].plan
        BY <1>0, <1>1, <2>4 DEF Change!CallOK
      <3>2. LET p == v3[v4[c].plan] IN
            /\ v1 = "model-binding" => v2 = p.seen
            /\ v1 = "subject" => v2.version = p.input.expects.version
        BY <1>0, <1>3, ChangeAdmitted
      <3> QED BY <3>1, <3>2 DEF Change!Needs
    <2>11. v8' \in 0..ChangeFaults /\ v8 <= v8'
      BY <1>1, <2>3, ChangeAssumption DEF Change!Fault
    <2>12. act.boot <= v7
      BY <1>1, <2>4 DEF Change!ActivityOK
    <2>13. ChangeDoes(c, new, act)
      BY <1>0, <2>3, <2>4, <2>6, <2>7, <2>8, <2>9, <2>10, <2>11, <2>12, ChangeAssumption DEF ChangeDoes
    <2> QED BY <2>13, ChangeStepKeeps
  <1> QED BY <1>2, <1>3 DEF Change!execute

(* verify.                                                                  *)
LEMMA ChangeVerifyKeeps ==
    ASSUME Change!Inv, NEW c \in ChangeCallers, Change!verify(c)
    PROVE  Change!Inv'
  <1> DEFINE x == v4[c].id
  <1>0. v4[c].pc = "verify" /\ v4[c].pc # "no" /\ UNCHANGED <<v1, v2, v3, v6, v7>>
    BY DEF Change!verify
  <1>1. /\ x \in Change!Executions /\ v4[c] \in Change!Call /\ v5[x] \in Change!Activity
        /\ Change!TypeOK /\ Change!CallOK(c) /\ Change!ActivityOK(x) /\ v5[x].outcome = None
        /\ Change!NoCall \in Change!Call /\ Change!NoCall.pc = "no"
        /\ v2 \in Change!Resource /\ v8 \in 0..ChangeFaults /\ v8 <= v8
    BY <1>0, ChangeKnown
  <1>2. PICK cut : cut = [v5[x] EXCEPT !.broken = TRUE]
    OBVIOUS
  <1>3. /\ cut \in Change!Activity /\ cut.plan = v5[x].plan /\ cut.retained = v5[x].retained
        /\ cut.boot = v5[x].boot /\ cut.outcome = None /\ cut.effect = v5[x].effect /\ cut.changed = v5[x].changed
        /\ cut.evidence = v5[x].evidence /\ cut.broken
    BY <1>1, <1>2 DEF Change!Activity
  <1>4. Change!Breaks(x) = [v5 EXCEPT ![x] = cut] /\ v5 = [v5 EXCEPT ![x] = v5[x]]
    BY <1>1, <1>2 DEF Change!Breaks, Change!TypeOK
  <1>5. PICK act \in {v5[x], cut}, to \in {"evidence", "failing"} :
          /\ v5' = [v5 EXCEPT ![x] = act] /\ Change!Goes(c, to)
          /\ UNCHANGED v8 \/ Change!Fault
          /\ to = "failing" => act = cut
    BY <1>4 DEF Change!verify
  <1>6. PICK new : new = [v4[c] EXCEPT !.pc = to]
    OBVIOUS
  <1>7. /\ new \in Change!Call /\ new.pc = to /\ new.id = x /\ new.boot = v4[c].boot /\ new.plan = v4[c].plan
        /\ v4' = [v4 EXCEPT ![c] = new]
    BY <1>1, <1>5, <1>6 DEF Change!Call, Change!Steps, Change!Goes
  <1>8. Change!CallOK(c)'
    BY <1>0, <1>1, <1>3, <1>5, <1>7 DEF Change!CallOK, Change!TypeOK
  <1>9. v8' \in 0..ChangeFaults /\ v8 <= v8'
    BY <1>1, <1>5, ChangeAssumption DEF Change!Fault
  <1>10. ChangeDoes(c, new, act)
    BY <1>0, <1>1, <1>3, <1>5, <1>7, <1>8, <1>9, ChangeAssumption DEF ChangeDoes, Change!ActivityOK
  <1> QED BY <1>10, ChangeStepKeeps

(* recordMutation.                                                          *)
LEMMA ChangeRecordKeeps ==
    ASSUME Change!Inv, NEW c \in ChangeCallers, Change!recordMutation(c)
    PROVE  Change!Inv'
  <1> DEFINE x == v4[c].id
  <1>0. v4[c].pc = "evidence" /\ v4[c].pc # "no" /\ UNCHANGED <<v1, v2, v3, v6, v7>>
    BY DEF Change!recordMutation
  <1>1. /\ x \in Change!Executions /\ v4[c] \in Change!Call /\ v5[x] \in Change!Activity
        /\ Change!TypeOK /\ Change!CallOK(c) /\ Change!ActivityOK(x) /\ v5[x].outcome = None
        /\ Change!NoCall \in Change!Call /\ Change!NoCall.pc = "no"
        /\ v2 \in Change!Resource /\ v8 \in 0..ChangeFaults /\ v8 <= v8
    BY <1>0, ChangeKnown
  <1>2. CASE ~Change!Fenced(c) /\ Change!Answers(c) /\ UNCHANGED <<v5, v8>>
    BY <1>0, <1>1, <1>2, ChangeOwnStep DEF Change!Answers, Change!Fenced, Change!CallOK
  <1>3. CASE Change!Fault /\ Change!Answers(c) /\ v5' = Change!Breaks(x)
    <2>1. PICK cut : cut = [v5[x] EXCEPT !.broken = TRUE]
      OBVIOUS
    <2>2. /\ cut \in Change!Activity /\ cut.plan = v5[x].plan
          /\ cut.boot = v5[x].boot /\ cut.outcome = None /\ cut.effect = v5[x].effect
          /\ cut.changed = v5[x].changed /\ cut.broken
      BY <1>1, <2>1 DEF Change!Activity
    <2>3. v5' = [v5 EXCEPT ![x] = cut] /\ v4' = [v4 EXCEPT ![c] = Change!NoCall]
      BY <1>1, <1>3, <2>1 DEF Change!Breaks, Change!TypeOK, Change!Answers
    <2>4. v8' \in 0..ChangeFaults /\ v8 <= v8'
      BY <1>1, <1>3, ChangeAssumption DEF Change!Fault
    <2>5. ChangeDoes(c, Change!NoCall, cut)
      BY <1>0, <1>1, <2>2, <2>3, <2>4, ChangeAssumption DEF ChangeDoes, Change!ActivityOK
    <2> QED BY <2>5, ChangeStepKeeps
  <1>4. CASE v5' = [v5 EXCEPT ![x].evidence = TRUE] /\ Change!Goes(c, "complete") /\ UNCHANGED v8
    <2>1. PICK act : act = [v5[x] EXCEPT !.evidence = TRUE]
      OBVIOUS
    <2>2. /\ act \in Change!Activity /\ act.plan = v5[x].plan /\ act.retained = v5[x].retained
          /\ act.boot = v5[x].boot /\ act.outcome = None /\ act.effect = v5[x].effect
          /\ act.changed = v5[x].changed /\ act.evidence
      BY <1>1, <2>1 DEF Change!Activity
    <2>3. PICK new : new = [v4[c] EXCEPT !.pc = "complete"]
      OBVIOUS
    <2>4. /\ new \in Change!Call /\ new.pc = "complete" /\ new.id = x
          /\ new.boot = v4[c].boot /\ new.plan = v4[c].plan
          /\ v4' = [v4 EXCEPT ![c] = new] /\ v5' = [v5 EXCEPT ![x] = act]
      BY <1>1, <1>4, <2>1, <2>3 DEF Change!Call, Change!Steps, Change!Goes, Change!TypeOK
    <2>5. Change!CallOK(c)'
      BY <1>0, <1>1, <2>2, <2>4 DEF Change!CallOK, Change!TypeOK
    <2>6. ChangeDoes(c, new, act)
      BY <1>0, <1>1, <1>4, <2>2, <2>4, <2>5, ChangeAssumption DEF ChangeDoes, Change!ActivityOK
    <2> QED BY <2>6, ChangeStepKeeps
  <1> QED BY <1>2, <1>3, <1>4 DEF Change!recordMutation

(* The completion, or what becomes of it.                                   *)
LEMMA ChangeCompletionKeeps ==
    ASSUME Change!Inv, NEW c \in ChangeCallers, Change!completeCurrent(c) \/ Change!CompletionFails(c)
    PROVE  Change!Inv'
  <1> DEFINE x == v4[c].id
             outcome == IF v4[c].pc = "complete" THEN "SUCCEEDED" ELSE "FAILED"
  <1>0. /\ v4[c].pc \in {"complete", "failing"} /\ v4[c].pc # "no"
        /\ UNCHANGED <<v1, v2, v3, v6, v7>> /\ v4' = [v4 EXCEPT ![c] = Change!NoCall]
        /\ UNCHANGED v8 \/ Change!Fault
    BY DEF Change!completeCurrent, Change!CompletionFails, Change!Answers
  <1>1. /\ x \in Change!Executions /\ v4[c] \in Change!Call /\ v5[x] \in Change!Activity
        /\ Change!TypeOK /\ Change!CallOK(c) /\ Change!ActivityOK(x) /\ v5[x].outcome = None
        /\ Change!NoCall \in Change!Call /\ Change!NoCall.pc = "no"
        /\ v2 \in Change!Resource /\ v8 \in 0..ChangeFaults /\ v8 <= v8
    BY <1>0, ChangeKnown
  <1>2. PICK cut : cut = [v5[x] EXCEPT !.broken = TRUE]
    OBVIOUS
  <1>3. PICK ended : ended = [v5[x] EXCEPT !.outcome = outcome]
    OBVIOUS
  <1>4. /\ cut \in Change!Activity /\ cut.plan = v5[x].plan /\ cut.boot = v5[x].boot
        /\ cut.outcome = None /\ cut.effect = v5[x].effect /\ cut.changed = v5[x].changed /\ cut.broken
    BY <1>1, <1>2 DEF Change!Activity
  <1>5. /\ ended \in Change!Activity /\ ended.plan = v5[x].plan /\ ended.boot = v5[x].boot
        /\ ended.outcome = outcome /\ ended.effect = v5[x].effect /\ ended.changed = v5[x].changed
        /\ ended.evidence = v5[x].evidence /\ ended.broken = v5[x].broken
    BY <1>1, <1>3 DEF Change!Activity
  <1>6. Change!Breaks(x) = [v5 EXCEPT ![x] = cut]
    BY <1>1, <1>2 DEF Change!Breaks, Change!TypeOK
  <1>7. Change!Completes(c, outcome) = [v5 EXCEPT ![x] = ended]
    BY <1>0, <1>1, <1>3 DEF Change!Completes, Change!TypeOK, Change!CallOK
  <1>8. \/ v5' = [v5 EXCEPT ![x] = cut]
        \/ v5' = [v5 EXCEPT ![x] = ended]
        \/ ~Change!Fenced(c) /\ v5' = v5 /\ UNCHANGED v8
    BY <1>6, <1>7 DEF Change!completeCurrent, Change!CompletionFails
  <1>9. v8' \in 0..ChangeFaults /\ v8 <= v8'
    BY <1>0, <1>1, ChangeAssumption DEF Change!Fault
  <1>10. CASE v5' = [v5 EXCEPT ![x] = cut]
    <2>1. ChangeDoes(c, Change!NoCall, cut)
      BY <1>0, <1>1, <1>4, <1>9, <1>10, ChangeAssumption DEF ChangeDoes, Change!ActivityOK
    <2> QED BY <2>1, ChangeStepKeeps
  <1>11. CASE v5' = [v5 EXCEPT ![x] = ended]
    <2>1. /\ outcome = "SUCCEEDED" => ended.effect /\ ended.evidence
          /\ outcome = "FAILED" /\ ended.effect => ended.broken
          /\ outcome # None
      BY <1>0, <1>1, <1>5, ChangeAssumption DEF Change!CallOK
    <2>2. ChangeDoes(c, Change!NoCall, ended)
      BY <1>0, <1>1, <1>5, <1>9, <1>11, <2>1 DEF ChangeDoes, Change!ActivityOK
    <2> QED BY <2>2, ChangeStepKeeps
  <1>12. CASE ~Change!Fenced(c) /\ v5' = v5 /\ UNCHANGED v8
    BY <1>0, <1>1, <1>12, ChangeOwnStep DEF Change!Fenced, Change!CallOK
  <1> QED BY <1>8, <1>10, <1>11, <1>12

(* planAction.                                                              *)
LEMMA ChangePlanKeeps ==
    ASSUME Change!Inv, NEW p \in ChangePlans, Change!planAction(p)
    PROVE  Change!Inv'
  <1>0. Change!TypeOK /\ v2 \in Change!Resource
    BY DEF Change!Inv, Change!TypeOK
  <1>1. PICK content \in Change!Contents, expects \in Change!Nameable :
          v3' = [v3 EXCEPT ![p] = [seen |-> v2, input |-> [content |-> content, expects |-> expects]]]
    BY Zenon DEF Change!planAction
  <1>2. PICK made : made = [seen |-> v2, input |-> [content |-> content, expects |-> expects]]
    OBVIOUS
  <1>a. expects \in Change!Resource
    BY <1>0, <1>1 DEF Change!Nameable, Change!Resource
  <1>3. Change!TypeOK /\ made \in Change!Plan /\ made.seen = v2
    BY <1>0, <1>2, <1>a DEF Change!Plan, Change!Input
  <1>4. /\ v3[p] = Change!NoPlan /\ v3' = [v3 EXCEPT ![p] = made]
        /\ UNCHANGED <<v1, v2, v4, v5, v6, v7, v8>>
    BY <1>1, <1>2 DEF Change!planAction
  <1>5. v3' \in [ChangePlans -> {Change!NoPlan} \cup Change!Plan]
    BY <1>3, <1>4 DEF Change!TypeOK
  <1>6. v3'[p] = made /\ \A q \in ChangePlans : v3[q] # Change!NoPlan => v3'[q] = v3[q]
    BY <1>3, <1>4 DEF Change!TypeOK
  <1>7. Change!TypeOK'
    BY <1>3, <1>4, <1>5 DEF Change!TypeOK
  <1>8. (\A c \in ChangeCallers : Change!CallOK(c))'
    BY <1>4, <1>6 DEF Change!Inv, Change!CallOK, Change!samePreconditions, Change!precondition
  <1>9. (\A q \in ChangePlans : Change!PlanOK(q))'
    <2> SUFFICES ASSUME NEW q \in ChangePlans PROVE Change!PlanOK(q)'
      OBVIOUS
    <2>1. CASE q = p
      BY <1>0, <1>3, <1>4, <1>6, <2>1 DEF Change!PlanOK, Change!Resource
    <2>2. CASE q # p
      BY <1>3, <1>4, <2>2 DEF Change!Inv, Change!PlanOK, Change!TypeOK
    <2> QED BY <2>1, <2>2
  <1>10. (\A x \in Change!Executions : Change!ActivityOK(x))'
    <2> SUFFICES ASSUME NEW x \in Change!Executions PROVE Change!ActivityOK(x)'
      OBVIOUS
    <2>1. Change!ActivityOK(x) /\ x \in Nat /\ v6 \in Nat
      BY <1>3 DEF Change!Inv, Change!TypeOK, Change!Executions
    <2> QED BY <1>4, <1>6, <2>1 DEF Change!ActivityOK, Change!Needs
  <1>11. Change!OwnExecutions' /\ Change!EffectsDiffer' /\ Change!OutcomeIsTrue' /\ Change!NothingLeftOpen'
    BY <1>4 DEF Change!Inv, Change!OwnExecutions, Change!EffectsDiffer, Change!OutcomeIsTrue,
       Change!NothingLeftOpen, Change!Underway
  <1> QED BY <1>7, <1>8, <1>9, <1>10, <1>11 DEF Change!Inv

(* executeAction: the Activity is a new one.                                *)
LEMMA ChangeBeginKeeps ==
    ASSUME Change!Inv, NEW c \in ChangeCallers, NEW p \in ChangePlans, Change!executeAction(c, p)
    PROVE  Change!Inv'
  <1> DEFINE x == v6 + 1
  <1>0. /\ Change!TypeOK /\ v4[c].pc = "no" /\ v3[p] # Change!NoPlan /\ v6 < MaxExecutions /\ v6' = x
        /\ UNCHANGED <<v1, v2, v3, v7, v8>>
    BY DEF Change!Inv, Change!executeAction, Change!NoCall
  <1>a. PICK content \in Change!Contents :
          v4' = [v4 EXCEPT ![c] = [pc |-> "retain", id |-> x, boot |-> v7, plan |-> p,
                                   input |-> [v3[p].input EXCEPT !.content = content], seen |-> None]]
    BY <1>0 DEF Change!executeAction
  <1>b. PICK input : input = [v3[p].input EXCEPT !.content = content]
    OBVIOUS
  <1>c. input \in Change!Input
    BY <1>0, <1>a, <1>b, ChangePlanned DEF Change!Plan, Change!Input
  <1>1. PICK new :
          /\ new = [pc |-> "retain", id |-> x, boot |-> v7, plan |-> p, input |-> input, seen |-> None]
          /\ v4' = [v4 EXCEPT ![c] = new]
    BY <1>a, <1>b
  <1>2. PICK act : act = [v5[x] EXCEPT !.plan = p]
    OBVIOUS
  <1>3. /\ x \in Change!Executions /\ v6 \in Nat /\ x \in 1..v6'
        /\ v5[x] \in Change!Activity /\ Change!ActivityOK(x)
    BY <1>0, ChangeAssumption DEF Change!Inv, Change!TypeOK, Change!Executions
  <1>4. /\ new \in Change!Call /\ new.pc = "retain" /\ new.id = x /\ new.boot = v7 /\ new.plan = p
    BY <1>0, <1>1, <1>3, <1>c, ChangeAssumption DEF Change!TypeOK, Change!Call, Change!Steps, Change!Executions
  <1>5. /\ act \in Change!Activity /\ act.plan = p /\ ~act.retained /\ ~act.effect /\ ~act.changed /\ act.outcome = None
        /\ act.boot = v5[x].boot /\ act.boot <= v7
    BY <1>2, <1>3 DEF Change!Activity, Change!ActivityOK
  <1>6. v5' = [v5 EXCEPT ![x] = act]
    BY <1>0, <1>2, <1>3 DEF Change!TypeOK, Change!executeAction
  <1>7. /\ v4'[c] = new /\ \A d \in ChangeCallers \ {c} : v4'[d] = v4[d]
        /\ v5'[x] = act /\ \A y \in Change!Executions \ {x} : v5'[y] = v5[y]
    BY <1>0, <1>1, <1>3, <1>6 DEF Change!TypeOK
  <1>8. Change!TypeOK'
    <2>1. v4' \in [ChangeCallers -> Change!Call] /\ v5' \in [Change!Executions -> Change!Activity]
      BY <1>0, <1>1, <1>3, <1>4, <1>5, <1>6 DEF Change!TypeOK
    <2>2. v6' \in 0..MaxExecutions
      BY <1>0, <1>3, ChangeAssumption
    <2> QED BY <1>0, <2>1, <2>2 DEF Change!TypeOK
  <1>9. (\A d \in ChangeCallers : Change!CallOK(d))'
    <2> SUFFICES ASSUME NEW d \in ChangeCallers PROVE Change!CallOK(d)'
      OBVIOUS
    <2>1. CASE d = c
      BY <1>0, <1>3, <1>4, <1>5, <1>7, <2>1 DEF Change!CallOK, Change!TypeOK
    <2>2. CASE d # c
      <3>1. Change!CallOK(d)
        BY DEF Change!Inv
      <3>2. v4[d].pc # "no" => v4[d].id \in 1..v6' /\ v5'[v4[d].id] = v5[v4[d].id]
        <4>1. v4[d].pc # "no" => v4[d].id \in 1..v6
          BY <3>1 DEF Change!CallOK
        <4>2. v4[d].pc # "no" => v4[d].id \in Change!Executions \ {x} /\ v4[d].id \in 1..v6'
          BY <1>0, <1>3, <4>1, ChangeAssumption DEF Change!Executions
        <4> QED BY <1>7, <4>2
      <3> QED BY <1>0, <1>7, <2>2, <3>1, <3>2 DEF Change!CallOK, Change!samePreconditions, Change!precondition
    <2> QED BY <2>1, <2>2
  <1>10. Change!OwnExecutions'
    <2>1. \A d \in ChangeCallers \ {c} : v4[d].pc # "no" => v4[d].id # x
      BY <1>3 DEF Change!Inv, Change!CallOK
    <2> QED BY <1>4, <1>7, <2>1 DEF Change!Inv, Change!OwnExecutions
  <1>11. (\A q \in ChangePlans : Change!PlanOK(q))'
    BY <1>0 DEF Change!Inv, Change!PlanOK
  <1>12. (\A y \in Change!Executions : Change!ActivityOK(y))'
    <2> SUFFICES ASSUME NEW y \in Change!Executions PROVE Change!ActivityOK(y)'
      OBVIOUS
    <2>1. Change!ActivityOK(y) /\ y \in Nat
      BY DEF Change!Inv, Change!Executions
    <2>2. CASE y = x
      BY <1>0, <1>3, <1>5, <1>7, <2>2 DEF Change!ActivityOK
    <2>3. CASE y # x
      BY <1>0, <1>3, <1>7, <2>1, <2>3 DEF Change!ActivityOK, Change!Needs
    <2> QED BY <2>2, <2>3
  <1>13. Change!EffectsDiffer' /\ Change!OutcomeIsTrue'
    BY <1>0, <1>5, <1>7, ChangeAssumption DEF Change!Inv, Change!EffectsDiffer, Change!OutcomeIsTrue
  <1>14. Change!NothingLeftOpen'
    <2> SUFFICES ASSUME NEW y \in Change!Executions, v5'[y].retained, v5'[y].outcome = None,
                        ~v5'[y].broken, v5'[y].boot = v7
                 PROVE  \E d \in ChangeCallers : v4'[d].pc # "no" /\ v4'[d].id = y
      BY <1>0 DEF Change!NothingLeftOpen, Change!Underway
    <2>1. y # x /\ v5'[y] = v5[y]
      BY <1>5, <1>7
    <2>2. PICK d \in ChangeCallers : v4[d].pc # "no" /\ v4[d].id = y
      BY <2>1 DEF Change!Inv, Change!NothingLeftOpen, Change!Underway
    <2>3. d # c
      BY <1>0, <2>2
    <2> QED BY <1>7, <2>2, <2>3
  <1> QED BY <1>8, <1>9, <1>10, <1>11, <1>12, <1>13, <1>14 DEF Change!Inv

(* NextBoot: whatever was open belongs to an earlier boot.                  *)
LEMMA ChangeBootKeeps ==
    ASSUME Change!Inv, Change!NextBoot
    PROVE  Change!Inv'
  <1>0. Change!TypeOK /\ UNCHANGED <<v1, v2, v3, v5, v6>>
        /\ v7' = v7 + 1 /\ v8' = v8 + 1 /\ v8 < ChangeFaults
    BY DEF Change!Inv, Change!NextBoot, Change!Fault
  <1>1. v7 \in Nat /\ v8 \in Nat /\ v7 <= v8 + 1 /\ v7' \in 1..(ChangeFaults + 1)
    BY <1>0, ChangeAssumption DEF Change!TypeOK
  <1>2. \A c \in ChangeCallers : v4'[c] = v4[c] \/ v4'[c].pc = "no"
    BY DEF Change!NextBoot, Change!NoCall
  <1>3. Change!NoCall \in Change!Call
    BY ChangeAssumption DEF Change!NoCall, Change!Call, Change!Steps, Change!Contents
  <1>4. Change!TypeOK'
    <2>1. v4' \in [ChangeCallers -> Change!Call]
      BY <1>0, <1>3 DEF Change!TypeOK, Change!NextBoot
    <2>2. v8' \in 0..ChangeFaults /\ v7' <= v8' + 1
      BY <1>0, <1>1, ChangeAssumption
    <2> QED BY <1>0, <1>1, <2>1, <2>2 DEF Change!TypeOK
  <1>5. (\A c \in ChangeCallers : Change!CallOK(c))'
    <2> SUFFICES ASSUME NEW c \in ChangeCallers PROVE Change!CallOK(c)'
      OBVIOUS
    <2>1. Change!CallOK(c) /\ v4[c].boot \in Nat
      BY <1>0 DEF Change!Inv, Change!TypeOK, Change!Call
    <2>2. CASE v4'[c] = v4[c]
      BY <1>0, <1>1, <2>1, <2>2 DEF Change!CallOK, Change!samePreconditions, Change!precondition
    <2>3. CASE v4'[c].pc = "no"
      BY <2>3 DEF Change!CallOK
    <2> QED BY <1>2, <2>2, <2>3
  <1>6. /\ Change!OwnExecutions' /\ (\A p \in ChangePlans : Change!PlanOK(p))'
        /\ Change!EffectsDiffer' /\ Change!OutcomeIsTrue'
    BY <1>0, <1>2 DEF Change!Inv, Change!OwnExecutions, Change!PlanOK, Change!EffectsDiffer,
       Change!OutcomeIsTrue
  <1>7. \A x \in Change!Executions : v5[x].boot \in Nat /\ v5[x].boot <= v7
    BY <1>0 DEF Change!Inv, Change!ActivityOK, Change!TypeOK, Change!Activity
  <1>8. (\A x \in Change!Executions : Change!ActivityOK(x))'
    BY <1>0, <1>1, <1>7 DEF Change!Inv, Change!ActivityOK, Change!Needs
  <1>9. Change!NothingLeftOpen'
    BY <1>0, <1>1, <1>7 DEF Change!NothingLeftOpen
  <1> QED BY <1>4, <1>5, <1>6, <1>8, <1>9 DEF Change!Inv

(* Nothing is planned and nothing executed.                                 *)
LEMMA ChangeInitInv == Change!Init => Change!Inv
  <1> SUFFICES ASSUME Change!Init PROVE Change!Inv
    OBVIOUS
  <1>1. Change!NoCall \in Change!Call /\ Change!NoCall.pc = "no"
    BY ChangeAssumption DEF Change!NoCall, Change!Call, Change!Steps, Change!Contents
  <1>2. /\ Change!NoActivity \in Change!Activity /\ Change!NoActivity.plan = None
        /\ ~Change!NoActivity.retained /\ ~Change!NoActivity.effect /\ ~Change!NoActivity.changed
        /\ Change!NoActivity.outcome = None /\ Change!NoActivity.boot = 0
    BY ChangeAssumption DEF Change!NoActivity, Change!Activity
  <1>3. v2 \in Change!Resource
    BY ChangeAssumption DEF Change!Init, Change!Resource, Change!Contents
  <1>4. Change!TypeOK
    BY <1>1, <1>2, <1>3, ChangeAssumption DEF Change!Init, Change!TypeOK
  <1>5. \A c \in ChangeCallers : Change!CallOK(c)
    BY <1>1 DEF Change!Init, Change!CallOK
  <1>6. Change!OwnExecutions /\ \A p \in ChangePlans : Change!PlanOK(p)
    BY <1>1 DEF Change!Init, Change!OwnExecutions, Change!PlanOK
  <1>7. \A x \in Change!Executions : Change!ActivityOK(x)
    BY <1>2 DEF Change!Init, Change!ActivityOK, Change!Executions
  <1>8. Change!EffectsDiffer /\ Change!OutcomeIsTrue /\ Change!NothingLeftOpen
    BY <1>2, ChangeAssumption DEF Change!Init, Change!EffectsDiffer, Change!OutcomeIsTrue,
       Change!NothingLeftOpen
  <1> QED BY <1>4, <1>5, <1>6, <1>7, <1>8 DEF Change!Inv

(* Every step keeps the invariant.                                          *)
LEMMA ChangeNextInv == Change!Inv /\ [Change!Next]_Change!vars => Change!Inv'
  <1> SUFFICES ASSUME Change!Inv, [Change!Next]_Change!vars PROVE Change!Inv'
    OBVIOUS
  <1>1. CASE UNCHANGED Change!vars
    BY <1>1 DEF Change!vars, Change!Inv, Change!TypeOK, Change!CallOK, Change!samePreconditions,
       Change!precondition, Change!OwnExecutions, Change!PlanOK, Change!ActivityOK, Change!Needs,
                Change!EffectsDiffer, Change!OutcomeIsTrue, Change!NothingLeftOpen, Change!Underway
  <1>2. CASE Change!Next
    BY <1>2, ChangePlanKeeps, ChangeBeginKeeps, ChangeRetainKeeps, ChangeCheckKeeps, ChangeReadSecretKeeps,
       ChangeExecuteKeeps, ChangeVerifyKeeps,
       ChangeRecordKeeps, ChangeCompletionKeeps, ChangeBootKeeps DEF Change!Next
  <1> QED BY <1>1, <1>2

(* Two effects of one plan are one.                                         *)
LEMMA ChangeOnceOnly == Change!Inv => Change!AtMostOnce
  <1> SUFFICES ASSUME Change!Inv, v1 \in {"model-binding", "subject"}, NEW p \in ChangePlans
               PROVE  Change!Cardinality({x \in Change!Executions : v5[x].plan = p /\ v5[x].changed}) <= 1
    BY DEF Change!AtMostOnce
  <1> DEFINE Done == {x \in Change!Executions : v5[x].plan = p /\ v5[x].changed}
  <1>1. \A x, y \in Done : x = y
    BY DEF Change!Inv, Change!EffectsDiffer
  <1> HIDE DEF Done
  <1>2. Cardinality(Done) <= 1
    <2>1. CASE Done = {}
      BY <2>1, FS_EmptySet
    <2>2. CASE Done # {}
      <3>1. PICK x : x \in Done
        BY <2>2
      <3>2. Done = {x}
        BY <1>1, <3>1
      <3> QED BY <3>2, FS_Singleton
    <2> QED BY <2>1, <2>2
  <1>3. Change!Cardinality(Done) = Cardinality(Done)
    BY DEF Change!Cardinality, Cardinality
  <1> QED BY <1>2, <1>3 DEF Done

(* Only the owner's transaction of an execution has its effect.             *)
LEMMA ChangeEffectOfExecute ==
    ASSUME Change!Inv, [Change!Next]_Change!vars, NEW x \in Change!Executions, Change!Effected(x)
    PROVE  \E c \in ChangeCallers :
              /\ Change!execute(c) /\ v4[c].id = x
              /\ Change!Admits(c)
              /\ v2' = Change!Changed(c) /\ UNCHANGED <<v1, v3>>
  <1>0. Change!TypeOK /\ v5'[x].effect /\ ~v5[x].effect
    BY DEF Change!Effected, Change!Inv
  <1>1. v5' # v5
    BY <1>0
  <1>2. ASSUME NEW p \in ChangePlans, NEW c \in ChangeCallers, Change!executeAction(c, p) PROVE FALSE
    BY <1>0, <1>2 DEF Change!executeAction, Change!TypeOK, Change!Activity
  <1>3. ASSUME NEW c \in ChangeCallers, v4[c].id \in Change!Executions, Change!retainCurrent(c) PROVE FALSE
    <2>1. \/ v5' = [v5 EXCEPT ![v4[c].id].retained = TRUE, ![v4[c].id].boot = v4[c].boot]
          \/ v5' = v5
          \/ v5' = [[v5 EXCEPT ![v4[c].id].retained = TRUE, ![v4[c].id].boot = v4[c].boot]
                              EXCEPT ![v4[c].id].broken = TRUE]
      BY <1>3, Zenon DEF Change!retainCurrent
    <2> QED BY <1>0, <1>3, <2>1 DEF Change!TypeOK, Change!Activity
  <1>4. ASSUME NEW c \in ChangeCallers, Change!verify(c) \/ Change!recordMutation(c) PROVE FALSE
    BY <1>0, <1>4 DEF Change!verify, Change!recordMutation, Change!Breaks, Change!TypeOK, Change!Activity
  <1>5. ASSUME NEW c \in ChangeCallers, Change!completeCurrent(c) \/ Change!CompletionFails(c) PROVE FALSE
    BY <1>0, <1>5 DEF Change!completeCurrent, Change!CompletionFails, Change!Breaks, Change!Completes,
       Change!TypeOK, Change!Activity
  <1>6. ASSUME NEW c \in ChangeCallers, Change!execute(c)
        PROVE  /\ v4[c].id = x /\ Change!Admits(c)
               /\ v2' = Change!Changed(c) /\ UNCHANGED <<v1, v3>>
    BY <1>0, <1>6 DEF Change!execute, Change!TypeOK, Change!Activity
  <1>7. \A c \in ChangeCallers : Change!retainCurrent(c) => v4[c].id \in Change!Executions
    BY ChangeKnown DEF Change!retainCurrent
  <1>8. \E c \in ChangeCallers : Change!execute(c)
    BY <1>1, <1>2, <1>3, <1>4, <1>5, <1>7
       DEF Change!Next, Change!vars, Change!planAction, Change!CheckPlan, Change!ReadSecret, Change!NextBoot
  <1> QED BY <1>6, <1>8

(* What takes effect is the plan that was confirmed.                        *)
LEMMA ChangeConfirmedStep == Change!Inv /\ [Change!Next]_Change!vars => Change!ExecutesTheConfirmed
  <1> SUFFICES ASSUME Change!Inv, [Change!Next]_Change!vars, v1 \notin {"secret", "configuration-revision"},
                      NEW x \in Change!Executions, Change!Effected(x)
               PROVE  Change!TakesEffectAsPlanned(x)
    BY DEF Change!ExecutesTheConfirmed
  <1>1. PICK c \in ChangeCallers :
              /\ Change!execute(c) /\ v4[c].id = x
              /\ Change!Admits(c)
              /\ v2' = Change!Changed(c) /\ UNCHANGED <<v1, v3>>
    BY ChangeEffectOfExecute
  <1>2. v4[c].pc = "commit" /\ v5[x].plan = v4[c].plan /\ v2 \in Change!Resource
    BY <1>1 DEF Change!execute, Change!Inv, Change!CallOK, Change!TypeOK
  <1>3. LET p == v3[v4[c].plan] IN
        /\ v1 = "model-binding" => v2 = p.seen
        /\ v1 = "gateway-profile" => v2.content = p.seen.content
        /\ v1 = "configuration-activation" => v2.content = p.input.expects.content
        /\ v1 = "subject" =>
             /\ v2.version = p.input.expects.version
             /\ p.seen.version = p.input.expects.version => v2 = p.seen
        /\ v4[c].input = p.input
    BY <1>1, <1>2, ChangeAdmitted
  <1>4. v2'.content = v4[c].input.content
    BY <1>1 DEF Change!Changed
  <1>5. v1 \in {"model-binding", "subject", "gateway-profile", "configuration-activation"}
    BY DEF Change!Inv, Change!TypeOK, Change!Kinds
  <1> QED BY <1>2, <1>3, <1>4, <1>5 DEF Change!TakesEffectAsPlanned, Change!samePreconditions,
             Change!precondition

------------------------------------------------------------------------------
(* ModelRoute: v1 val, v2 revisions, v3 lock, v4 edit, v5 call, v6 edits.   *)

(* What the kinds of row may name.                                          *)
LEMMA RouteContentsAre ==
    /\ Route!Contents("binding") = RouteModels /\ Route!Contents("activation") = RouteRevisions
    /\ \A row \in RouteModels : Route!Contents(row) = RouteGateways
    /\ \A row \in RouteGateways : Route!Contents(row) = {"on", "off"}
    /\ \A row \in Route!Rows : None \notin Route!Contents(row) /\ Route!Contents(row) \subseteq Route!AnyContent
    /\ \A row \in Route!Rows : Route!Numbered(row) <=> row \notin RouteGateways \cup {"activation"}
  <1>1. Route!Contents("binding") = RouteModels /\ Route!Contents("activation") = RouteRevisions
    BY RouteAssumption DEF Route!Contents
  <1>2. \A row \in RouteModels : Route!Contents(row) = RouteGateways
    BY RouteAssumption DEF Route!Contents
  <1>3. \A row \in RouteGateways : Route!Contents(row) = {"on", "off"}
    BY RouteAssumption DEF Route!Contents
  <1>4. \A row \in Route!Rows : Route!Contents(row) \subseteq Route!AnyContent
    BY DEF Route!AnyContent
  <1>5. \A row \in Route!Rows : None \notin Route!Contents(row)
    BY <1>1, <1>2, <1>3, RouteAssumption DEF Route!Rows
  <1>6. \A row \in Route!Rows : Route!Numbered(row) <=> row \notin RouteGateways \cup {"activation"}
    BY RouteAssumption DEF Route!Numbered, Route!Rows
  <1> QED BY <1>1, <1>2, <1>3, <1>4, <1>5, <1>6

(* The rows of a route, as far as there is one.                             *)
LEMMA RouteIsThere ==
    ASSUME Route!Inv, Route!Exists("binding")
    PROVE  /\ v1["binding"].content \in RouteModels
           /\ v1[v1["binding"].content].content \in RouteGateways
           /\ RouteModels \cup RouteGateways \cup {"binding", "activation"} = Route!Rows
  <1>1. v1["binding"].content \in RouteModels
    BY RouteContentsAre DEF Route!Inv, Route!RowOK, Route!Rows
  <1>2. ASSUME NEW row \in RouteModels PROVE v1[row].content \in RouteGateways
    <2>1. row \in Route!Rows /\ row # "binding"
      BY RouteAssumption DEF Route!Rows
    <2>2. Route!RowOK(row) /\ Route!Contents(row) = RouteGateways
      BY <2>1, RouteContentsAre DEF Route!Inv
    <2> QED BY <2>1, <2>2 DEF Route!RowOK
  <1> QED BY <1>1, <1>2 DEF Route!Rows

(* A step of one change: it moves locks of its own only, and changes only   *)
(* the row that it has locked.                                              *)
RouteEditorDoes(e, new) ==
  /\ new \in Route!Change /\ v4' = [v4 EXCEPT ![e] = new]
  /\ v3' \in [Route!Rows -> Route!Transactions \cup {None}]
  /\ \A row \in Route!Rows : v3'[row] = v3[row] \/ (v3[row] \in {None, e} /\ v3'[row] \in {None, e})
  /\ \A row \in Route!Rows : v3'[row] = e /\ v3[row] # e => Route!Sharing(row) \subseteq {e}
  /\ v1' \in [Route!Rows -> Route!Value]
  /\ \A row \in Route!Rows : v1'[row] = v1[row] \/ v3[row] = e
  /\ \A row \in Route!Rows : Route!Exists(row) => Route!Exists(row)'
  /\ (\A row \in Route!Rows : Route!RowOK(row))'
  /\ v2 \subseteq v2' /\ v2' \subseteq RouteRevisions /\ v1'["activation"].content \in v2'
  /\ v6' \in 0..RouteEdits
  /\ Route!EditOK(e)'
  /\ v5' = v5

(* Such a step keeps the invariant.                                         *)
LEMMA RouteEditorKeeps ==
    ASSUME Route!Inv, NEW e \in RouteEditors, NEW new, RouteEditorDoes(e, new)
    PROVE  Route!Inv'
  <1>0. Route!TypeOK /\ e \notin RouteInvokers /\ e # None /\ None \notin RouteInvokers
    BY RouteAssumption DEF Route!Inv
  <1>1. v4'[e] = new /\ \A d \in RouteEditors \ {e} : v4'[d] = v4[d]
    BY <1>0 DEF Route!TypeOK, RouteEditorDoes
  <1>2. Route!TypeOK'
    BY <1>0 DEF Route!TypeOK, RouteEditorDoes
  <1>3. (\A d \in RouteEditors : Route!EditOK(d))'
    <2> SUFFICES ASSUME NEW d \in RouteEditors, d # e PROVE Route!EditOK(d)'
      BY DEF RouteEditorDoes
    <2>1. Route!EditOK(d) /\ v4'[d] = v4[d] /\ v4[d] \in Route!Change /\ d # None
      BY <1>0, <1>1, RouteAssumption DEF Route!Inv, Route!TypeOK
    <2>2. \A row \in Route!Rows : v3'[row] = d <=> v3[row] = d
      BY <1>0, <2>1 DEF RouteEditorDoes
    <2>3. v4[d].row \in Route!Rows
      BY <2>1 DEF Route!Change
    <2>4. v3[v4[d].row] = d => v1'[v4[d].row] = v1[v4[d].row]
      BY <2>3 DEF RouteEditorDoes
    <2>5. v4[d].pc = "written" /\ Route!Refers(d) => v4[d].content \in Route!Rows /\ v3'[v4[d].content] = None
      <3> SUFFICES ASSUME v4[d].pc = "written", Route!Refers(d)
                   PROVE  v4[d].content \in Route!Rows /\ v3'[v4[d].content] = None
        OBVIOUS
      <3>1. v4[d].content \in Route!Rows
        BY <2>1, <2>3, RouteContentsAre DEF Route!EditOK, Route!Refers, Route!Numbered, Route!Rows
      <3>2. v3[v4[d].content] = None /\ d \in Route!Sharing(v4[d].content)
        BY <2>1 DEF Route!EditOK, Route!Sharing
      <3>3. v3'[v4[d].content] # e
        BY <1>0, <3>1, <3>2 DEF RouteEditorDoes
      <3> QED BY <3>1, <3>2, <3>3 DEF RouteEditorDoes
    <2>6. Route!Refers(d)' <=> Route!Refers(d)
      BY <2>1 DEF Route!Refers, Route!Numbered
    <2>7. v2 \subseteq v2'
      BY DEF RouteEditorDoes
    <2> QED BY <2>1, <2>2, <2>3, <2>4, <2>5, <2>6, <2>7 DEF Route!EditOK, Route!Numbered, Route!Digest
  <1>4. (\A i \in RouteInvokers : Route!CallOK(i))'
    <2> SUFFICES ASSUME NEW i \in RouteInvokers PROVE Route!CallOK(i)'
      OBVIOUS
    <2>1. Route!CallOK(i) /\ v5' = v5 /\ i # e /\ i # None
      BY <1>0 DEF Route!Inv, RouteEditorDoes
    <2>2. \A row \in Route!Rows : v3'[row] = i <=> v3[row] = i
      BY <1>0, <2>1 DEF RouteEditorDoes
    <2>3. \A row \in Route!Rows : v3[row] = i => v1'[row] = v1[row]
      BY <2>1 DEF RouteEditorDoes
    <2>4. Route!Exists("binding") => Route!Exists("binding")'
      BY DEF RouteEditorDoes, Route!Rows
    <2>5. CASE v5[i].pc \in Route!Owning
      <3>1. Route!Exists("binding")
        BY <2>1, <2>5 DEF Route!CallOK, Route!Owning
      <3> DEFINE model == v1["binding"].content
      <3>2. /\ model \in RouteModels /\ v1[model].content \in RouteGateways /\ "binding" \in Route!Rows
            /\ model \in Route!Rows
            /\ v1[model].content \in Route!Rows /\ "activation" \in Route!Rows
        BY <3>1, RouteIsThere
      <3>3. v1'["binding"] = v1["binding"]
        BY <2>1, <2>3, <2>5, <3>2 DEF Route!CallOK, Route!Held
      <3>4. v5[i].pc # "binding locked" => v1'[model] = v1[model]
        BY <2>1, <2>3, <2>5, <3>2 DEF Route!CallOK, Route!Held
      <3>5. v5[i].pc \in {"gateway locked", "all locked", "accepted"} =>
               v1'[v1[model].content] = v1[v1[model].content]
        BY <2>1, <2>3, <2>5, <3>2 DEF Route!CallOK, Route!Held
      <3>6. v5[i].pc \in {"all locked", "accepted"} => v1'["activation"] = v1["activation"]
        BY <2>1, <2>3, <2>5, <3>2 DEF Route!CallOK, Route!Held
      <3>7. Route!Held(i)' = Route!Held(i)
        BY <2>1, <3>3, <3>4 DEF Route!Held, Route!Owning
      <3>8. (\A row \in Route!Rows : v3[row] = i <=> row \in Route!Held(i))'
        BY <2>1, <2>2, <3>7 DEF Route!CallOK
      <3> QED BY <2>1, <2>4, <2>5, <3>3, <3>4, <3>5, <3>6, <3>8 DEF Route!CallOK, Route!Owning
    <2>6. CASE v5[i].pc \notin Route!Owning
      <3>1. Route!Held(i)' = {} /\ Route!Held(i) = {}
        BY <2>1, <2>6 DEF Route!Held
      <3>2. (\A row \in Route!Rows : v3[row] = i <=> row \in Route!Held(i))'
        BY <2>1, <2>2, <3>1 DEF Route!CallOK
      <3> QED BY <2>1, <2>4, <2>6, <3>2 DEF Route!CallOK, Route!Owning
    <2> QED BY <2>5, <2>6
  <1> QED BY <1>2, <1>3, <1>4 DEF Route!Inv, RouteEditorDoes

(* A step of one invocation or of its owner's transaction.                  *)
RouteInvokerDoes(i, new) ==
  /\ new \in Route!Call /\ v5' = [v5 EXCEPT ![i] = new]
  /\ v3' \in [Route!Rows -> Route!Transactions \cup {None}]
  /\ \A row \in Route!Rows : v3'[row] = v3[row] \/ (v3[row] \in {None, i} /\ v3'[row] \in {None, i})
  /\ \A row \in Route!Rows : v3'[row] = i /\ v3[row] # i => Route!Sharing(row) = {}
  /\ UNCHANGED <<v1, v2, v4, v6>>
  /\ Route!CallOK(i)'

(* Such a step keeps the invariant.                                         *)
LEMMA RouteInvokerKeeps ==
    ASSUME Route!Inv, NEW i \in RouteInvokers, NEW new, RouteInvokerDoes(i, new)
    PROVE  Route!Inv'
  <1>0. Route!TypeOK /\ i \notin RouteEditors /\ i # None /\ None \notin RouteInvokers \cup RouteEditors
    BY RouteAssumption DEF Route!Inv
  <1>1. v5'[i] = new /\ \A j \in RouteInvokers \ {i} : v5'[j] = v5[j]
    BY <1>0 DEF Route!TypeOK, RouteInvokerDoes
  <1>2. Route!TypeOK'
    BY <1>0 DEF Route!TypeOK, RouteInvokerDoes
  <1>3. (\A d \in RouteEditors : Route!EditOK(d))'
    <2> SUFFICES ASSUME NEW d \in RouteEditors PROVE Route!EditOK(d)'
      OBVIOUS
    <2>1. Route!EditOK(d) /\ v4' = v4 /\ v4[d] \in Route!Change /\ d # None /\ d # i /\ v1' = v1 /\ v2' = v2
      BY <1>0 DEF Route!Inv, Route!TypeOK, RouteInvokerDoes
    <2>2. \A row \in Route!Rows : v3'[row] = d <=> v3[row] = d
      BY <1>0, <2>1 DEF RouteInvokerDoes
    <2>3. v4[d].row \in Route!Rows
      BY <2>1 DEF Route!Change
    <2>5. v4[d].pc = "written" /\ Route!Refers(d) => v4[d].content \in Route!Rows /\ v3'[v4[d].content] = None
      <3> SUFFICES ASSUME v4[d].pc = "written", Route!Refers(d)
                   PROVE  v4[d].content \in Route!Rows /\ v3'[v4[d].content] = None
        OBVIOUS
      <3>1. v4[d].content \in Route!Rows
        BY <2>1, <2>3, RouteContentsAre DEF Route!EditOK, Route!Refers, Route!Numbered, Route!Rows
      <3>2. v3[v4[d].content] = None /\ d \in Route!Sharing(v4[d].content)
        BY <2>1 DEF Route!EditOK, Route!Sharing
      <3>3. v3'[v4[d].content] # i
        BY <1>0, <3>1, <3>2 DEF RouteInvokerDoes
      <3> QED BY <3>1, <3>2, <3>3 DEF RouteInvokerDoes
    <2>6. Route!Refers(d)' <=> Route!Refers(d)
      BY <2>1 DEF Route!Refers, Route!Numbered
    <2> QED BY <2>1, <2>2, <2>3, <2>5, <2>6 DEF Route!EditOK, Route!Numbered, Route!Digest
  <1>4. (\A j \in RouteInvokers : Route!CallOK(j))'
    <2> SUFFICES ASSUME NEW j \in RouteInvokers, j # i PROVE Route!CallOK(j)'
      BY DEF RouteInvokerDoes
    <2>1. Route!CallOK(j) /\ v5'[j] = v5[j] /\ j # None /\ v1' = v1
      BY <1>0, <1>1 DEF Route!Inv, RouteInvokerDoes
    <2>2. \A row \in Route!Rows : v3'[row] = j <=> v3[row] = j
      BY <1>0, <2>1 DEF RouteInvokerDoes
    <2>3. Route!Held(j)' = Route!Held(j)
      BY <2>1 DEF Route!Held
    <2> QED BY <2>1, <2>2, <2>3 DEF Route!CallOK, Route!Exists
  <1>5. (\A row \in Route!Rows : Route!RowOK(row))'
    BY DEF Route!Inv, RouteInvokerDoes, Route!RowOK, Route!Exists
  <1> QED BY <1>2, <1>3, <1>4, <1>5 DEF Route!Inv

(* No row and no change.                                                    *)
LEMMA RouteNothing ==
    /\ Route!Absent \in Route!Value /\ Route!Absent.version = 0 /\ Route!Absent.content = None
    /\ Route!NoEdit \in Route!Change /\ Route!NoEdit.pc = "no"
  <1>1. None \in Route!AnyContent
    BY Zenon DEF Route!AnyContent
  <1>2. Route!Absent \in Route!Value /\ Route!Absent.version = 0 /\ Route!Absent.content = None
    BY <1>1, RouteAssumption DEF Route!Absent, Route!Value
  <1>3. "binding" \in Route!Rows
    BY DEF Route!Rows
  <1> QED BY <1>1, <1>2, <1>3 DEF Route!NoEdit, Route!Change

(* A change that ends without an effect, its locks with it.                 *)
LEMMA RouteEndKeeps ==
    ASSUME Route!Inv, NEW e \in RouteEditors, Route!Ends(e), UNCHANGED <<v1, v2, v5, v6>>,
           Route!Unlock(e) \/ (v3' = v3 /\ \A row \in Route!Rows : v3[row] # e)
    PROVE  Route!Inv'
  <1>0. Route!TypeOK /\ None \notin RouteEditors /\ "binding" \in Route!Rows
    BY RouteAssumption DEF Route!Inv, Route!Rows
  <1>1. Route!NoEdit \in Route!Change /\ Route!NoEdit.pc = "no"
    BY RouteNothing
  <1>2. /\ v3' \in [Route!Rows -> Route!Transactions \cup {None}]
        /\ \A row \in Route!Rows : v3'[row] # e
        /\ \A row \in Route!Rows : v3'[row] = v3[row] \/ (v3[row] \in {None, e} /\ v3'[row] \in {None, e})
    BY <1>0 DEF Route!TypeOK, Route!Unlock
  <1>3. v4'[e] = Route!NoEdit
    BY <1>0 DEF Route!TypeOK, Route!Ends
  <1>4. Route!EditOK(e)'
    BY <1>1, <1>2, <1>3 DEF Route!EditOK
  <1>5. (\A row \in Route!Rows : Route!RowOK(row))'
    BY DEF Route!Inv, Route!RowOK, Route!Exists
  <1>6. RouteEditorDoes(e, Route!NoEdit)
    BY <1>0, <1>1, <1>2, <1>4, <1>5 DEF RouteEditorDoes, Route!Ends, Route!TypeOK, Route!Exists
  <1> QED BY <1>6, RouteEditorKeeps

(* Plan: the row as it is.                                                  *)
LEMMA RoutePlanKeeps ==
    ASSUME Route!Inv, NEW e \in RouteEditors, Route!Plan(e)
    PROVE  Route!Inv'
  <1>0. Route!TypeOK /\ v4[e] = Route!NoEdit /\ v6 < RouteEdits /\ v6' = v6 + 1 /\ UNCHANGED <<v1, v2, v3, v5>>
    BY DEF Route!Inv, Route!Plan
  <1>a. PICK row \in Route!Rows : \E content \in Route!Contents(row) :
          /\ Route!Numbered(row) => v1[row].version < RouteVersions
          /\ v4' = [v4 EXCEPT ![e] = [pc |-> "planned", row |-> row, expected |-> v1[row],
                                          seen |-> Route!Absent, content |-> content]]
    BY DEF Route!Plan
  <1>1. PICK content \in Route!Contents(row) :
          /\ Route!Numbered(row) => v1[row].version < RouteVersions
          /\ v4' = [v4 EXCEPT ![e] = [pc |-> "planned", row |-> row, expected |-> v1[row],
                                          seen |-> Route!Absent, content |-> content]]
    BY <1>a
  <1>2. PICK new :
          /\ new = [pc |-> "planned", row |-> row, expected |-> v1[row], seen |-> Route!Absent, content |-> content]
          /\ v4' = [v4 EXCEPT ![e] = new]
    BY <1>1
  <1>3. /\ v1[row] \in Route!Value /\ Route!Absent \in Route!Value /\ content \in Route!AnyContent
        /\ Route!RowOK(row)
    BY <1>0, RouteContentsAre, RouteNothing DEF Route!Inv, Route!TypeOK
  <1>4. /\ new \in Route!Change /\ new.pc = "planned" /\ new.row = row /\ new.expected = v1[row]
        /\ new.content = content
    BY <1>2, <1>3 DEF Route!Change
  <1>5. \A r \in Route!Rows : v3[r] # e
    <2>1. v4[e].pc = "no" /\ Route!EditOK(e)
      BY <1>0 DEF Route!NoEdit, Route!Inv
    <2> QED BY <2>1 DEF Route!EditOK
  <1>6. v4'[e] = new
    BY <1>0, <1>2 DEF Route!TypeOK
  <1>7. Route!EditOK(e)'
    BY <1>0, <1>1, <1>3, <1>4, <1>5, <1>6 DEF Route!EditOK, Route!RowOK, Route!Exists, Route!Numbered
  <1>8. v6' \in 0..RouteEdits
    BY <1>0, RouteAssumption DEF Route!TypeOK
  <1>9. (\A r \in Route!Rows : Route!RowOK(r))'
    BY <1>0 DEF Route!Inv, Route!RowOK, Route!Exists
  <1>10. RouteEditorDoes(e, new)
    BY <1>0, <1>2, <1>4, <1>5, <1>7, <1>8, <1>9 DEF RouteEditorDoes, Route!TypeOK, Route!Exists
  <1> QED BY <1>10, RouteEditorKeeps

(* createRevision.                                                          *)
LEMMA RouteCreateKeeps ==
    ASSUME Route!Inv, NEW e \in RouteEditors, Route!createRevision(e)
    PROVE  Route!Inv'
  <1>0. /\ Route!TypeOK /\ v6' \in 0..RouteEdits /\ UNCHANGED <<v1, v3, v4, v5>>
        /\ v2 \subseteq v2' /\ v2' \subseteq RouteRevisions
    BY RouteAssumption DEF Route!Inv, Route!createRevision, Route!TypeOK
  <1>1. Route!TypeOK'
    BY <1>0 DEF Route!TypeOK
  <1>2. (\A d \in RouteEditors : Route!EditOK(d))'
    BY <1>0 DEF Route!Inv, Route!EditOK, Route!Refers, Route!Numbered, Route!Digest
  <1>3. (\A row \in Route!Rows : Route!RowOK(row))'
    BY <1>0 DEF Route!Inv, Route!RowOK, Route!Exists
  <1>4. (\A i \in RouteInvokers : Route!CallOK(i))'
    <2> SUFFICES ASSUME NEW i \in RouteInvokers PROVE Route!CallOK(i)'
      OBVIOUS
    <2>1. Route!CallOK(i) /\ Route!Held(i)' = Route!Held(i)
      BY <1>0 DEF Route!Inv, Route!Held
    <2> QED BY <1>0, <2>1 DEF Route!CallOK, Route!Exists
  <1> QED BY <1>1, <1>2, <1>3, <1>4 DEF Route!Inv

(* The row is found as it was planned on, and locked if there is one.       *)
LEMMA RouteReadKeeps ==
    ASSUME Route!Inv, NEW e \in RouteEditors, Route!readForCommit(e),
           v4[e].row = "activation" => v4[e].content \in v2
    PROVE  Route!Inv'
  <1> DEFINE row == v4[e].row
  <1>0. /\ Route!TypeOK /\ v4[e].pc = "planned" /\ Route!EditOK(e) /\ v4[e] \in Route!Change
        /\ UNCHANGED <<v1, v2, v5, v6>>
    BY DEF Route!Inv, Route!readForCommit, Route!TypeOK
  <1>1. row \in Route!Rows /\ \A r \in Route!Rows : v3[r] # e
    BY <1>0 DEF Route!Change, Route!EditOK
  <1>2. CASE Route!Digest(row, v1[row]) # Route!Digest(row, v4[e].expected)
    BY <1>1, <1>2, RouteEndKeeps DEF Route!readForCommit
  <1>3. CASE Route!Digest(row, v1[row]) = Route!Digest(row, v4[e].expected)
    <2>1. PICK new : new = [v4[e] EXCEPT !.pc = "locked", !.seen = v1[row]]
      OBVIOUS
    <2>2. v4' = [v4 EXCEPT ![e] = new]
      BY <1>0, <1>3, <2>1 DEF Route!TypeOK, Route!Change, Route!readForCommit
    <2>3. /\ new \in Route!Change /\ new.pc = "locked" /\ new.row = row /\ new.seen = v1[row]
          /\ new.expected = v4[e].expected /\ new.content = v4[e].content
      BY <1>0, <1>1, <2>1 DEF Route!TypeOK, Route!Change
    <2>4. v4'[e] = new
      BY <1>0, <2>2 DEF Route!TypeOK
    <2>5. CASE Route!Exists(row)
      <3>1. v3' = [v3 EXCEPT ![row] = e] /\ Route!Lockable(row, e)
        BY <1>3, <2>5 DEF Route!readForCommit
      <3>2. /\ v3' \in [Route!Rows -> Route!Transactions \cup {None}]
            /\ v3'[row] = e /\ \A r \in Route!Rows \ {row} : v3'[r] = v3[r]
        BY <1>0, <1>1, <3>1 DEF Route!TypeOK, Route!Transactions
      <3>3. v1[row] # Route!Absent
        BY <2>5 DEF Route!Exists, Route!Absent
      <3>4. Route!EditOK(e)'
        BY <1>0, <1>1, <1>3, <2>3, <2>4, <3>2, <3>3 DEF Route!EditOK, Route!Numbered, Route!Digest
      <3>5. RouteEditorDoes(e, new)
        BY <1>0, <1>1, <2>2, <2>3, <3>1, <3>2, <3>4 DEF RouteEditorDoes, Route!TypeOK, Route!Exists,
           Route!RowOK, Route!Lockable, Route!Inv
      <3> QED BY <3>5, RouteEditorKeeps
    <2>6. CASE ~Route!Exists(row)
      <3>1. v3' = v3 /\ v1[row] = Route!Absent
        BY <1>1, <1>3, <2>6 DEF Route!readForCommit, Route!Inv, Route!RowOK
      <3>2. Route!EditOK(e)'
        BY <1>0, <1>1, <1>3, <2>3, <2>4, <3>1 DEF Route!EditOK, Route!Numbered, Route!Digest
      <3>3. RouteEditorDoes(e, new)
        BY <1>0, <1>1, <2>2, <2>3, <3>1, <3>2 DEF RouteEditorDoes, Route!TypeOK, Route!Exists,
           Route!RowOK, Route!Inv
      <3> QED BY <3>3, RouteEditorKeeps
    <2> QED BY <2>5, <2>6
  <1> QED BY <1>2, <1>3

(* upsert: who names a row finds it unlocked.                               *)
LEMMA RouteUpsertKeeps ==
    ASSUME Route!Inv, NEW e \in RouteEditors, Route!upsert(e)
    PROVE  Route!Inv'
  <1> DEFINE row == v4[e].row
  <1>0. /\ Route!TypeOK /\ v4[e].pc = "locked" /\ Route!EditOK(e) /\ v4[e] \in Route!Change
        /\ Route!Lockable(row, e)
        /\ UNCHANGED <<v1, v2, v5, v6>>
        /\ v4' = [v4 EXCEPT ![e].pc = "written"] /\ v3' = [v3 EXCEPT ![row] = e]
        /\ Route!Refers(e) => v3[v4[e].content] \in {None, e}
    BY DEF Route!Inv, Route!upsert, Route!Written, Route!TypeOK
  <1>1. row \in Route!Rows
    BY <1>0 DEF Route!Change
  <1>2. PICK new : new = [v4[e] EXCEPT !.pc = "written"]
    OBVIOUS
  <1>3. v4' = [v4 EXCEPT ![e] = new]
    BY <1>0, <1>2 DEF Route!TypeOK, Route!Change
  <1>4. /\ new \in Route!Change /\ new.pc = "written" /\ new.row = row /\ new.seen = v4[e].seen
        /\ new.expected = v4[e].expected /\ new.content = v4[e].content
    BY <1>0, <1>2 DEF Route!Change
  <1>5. v4'[e] = new
    BY <1>0, <1>3 DEF Route!TypeOK
  <1>6. /\ v3' \in [Route!Rows -> Route!Transactions \cup {None}]
        /\ v3'[row] = e /\ \A r \in Route!Rows \ {row} : v3'[r] = v3[r]
    BY <1>0, <1>1 DEF Route!TypeOK, Route!Transactions
  <1>7. Route!Refers(e)' => Route!Refers(e)
    BY <1>4, <1>5 DEF Route!Refers, Route!Numbered
  <1>8. Route!Refers(e) => v4[e].content \in Route!Rows /\ v4[e].content # row /\ v3[v4[e].content] = None
    <2> SUFFICES ASSUME Route!Refers(e)
                 PROVE  v4[e].content \in Route!Rows /\ v4[e].content # row /\ v3[v4[e].content] = None
      OBVIOUS
    <2>1. v4[e].content \in Route!Rows /\ v4[e].content # row
      BY <1>0, <1>1, RouteContentsAre, RouteAssumption DEF Route!EditOK, Route!Refers, Route!Numbered,
         Route!Rows
    <2> QED BY <1>0, <2>1 DEF Route!EditOK
  <1>9. Route!EditOK(e)'
    BY <1>0, <1>1, <1>4, <1>5, <1>6, <1>7, <1>8 DEF Route!EditOK, Route!Numbered, Route!Digest
  <1>10. RouteEditorDoes(e, new)
    BY <1>0, <1>1, <1>3, <1>4, <1>6, <1>9 DEF RouteEditorDoes, Route!TypeOK, Route!Exists, Route!RowOK,
       Route!Lockable, Route!Inv
  <1> QED BY <1>10, RouteEditorKeeps

(* The commit renews a numbered row by one.                                 *)
LEMMA RouteCommitKeeps ==
    ASSUME Route!Inv, NEW e \in RouteEditors, Route!CommitChange(e)
    PROVE  Route!Inv'
  <1> DEFINE row == v4[e].row
  <1>0. /\ Route!TypeOK /\ v4[e].pc = "written" /\ Route!EditOK(e) /\ v4[e] \in Route!Change
        /\ UNCHANGED <<v2, v5, v6>> /\ Route!Ends(e) /\ Route!Unlock(e)
    BY DEF Route!Inv, Route!CommitChange, Route!TypeOK
  <1>1. /\ row \in Route!Rows /\ v4[e].seen \in Route!Value /\ v4[e].expected \in Route!Value
        /\ "binding" \in Route!Rows
    BY <1>0 DEF Route!Change, Route!Rows
  <1>2. PICK value : /\ value = [version |-> Route!Next1(row, v4[e].seen), content |-> v4[e].content]
                     /\ v1' = [v1 EXCEPT ![row] = value]
    BY DEF Route!CommitChange
  <1>3. Route!Next1(row, v4[e].seen) \in 1..RouteVersions
    <2>1. CASE Route!Numbered(row)
      <3>1. v4[e].seen.version < RouteVersions
        BY <1>0, <2>1 DEF Route!EditOK, Route!Digest
      <3>2. v4[e].seen.version \in Nat
        BY <1>1 DEF Route!Value
      <3> QED BY <2>1, <3>1, <3>2, RouteAssumption DEF Route!Next1
    <2>2. CASE ~Route!Numbered(row)
      BY <2>2, RouteAssumption DEF Route!Next1
    <2> QED BY <2>1, <2>2
  <1>4. v4[e].content \in Route!Contents(row) /\ v4[e].content \in Route!AnyContent
    BY <1>0, <1>1, RouteContentsAre DEF Route!EditOK
  <1>5. value \in Route!Value /\ value.version # 0 /\ value.content = v4[e].content
    BY <1>2, <1>3, <1>4, RouteAssumption DEF Route!Value
  <1>6. v1'[row] = value /\ (\A r \in Route!Rows \ {row} : v1'[r] = v1[r]) /\ v1' \in [Route!Rows -> Route!Value]
    BY <1>0, <1>1, <1>2, <1>5 DEF Route!TypeOK
  <1>7. (\A r \in Route!Rows : Route!RowOK(r))' /\ \A r \in Route!Rows : Route!Exists(r) => Route!Exists(r)'
    BY <1>1, <1>4, <1>5, <1>6 DEF Route!RowOK, Route!Exists, Route!Inv
  <1>8. v1'["activation"].content \in v2'
    <2>1. "activation" \in Route!Rows /\ (row = "activation" => v4[e].content \in v2)
      BY <1>0 DEF Route!Rows, Route!EditOK
    <2> QED BY <1>0, <1>5, <1>6, <2>1 DEF Route!TypeOK
  <1>9. Route!NoEdit \in Route!Change /\ Route!NoEdit.pc = "no"
    BY RouteNothing
  <1>10. v4'[e] = Route!NoEdit
    BY <1>0 DEF Route!TypeOK, Route!Ends
  <1>11. /\ v3' \in [Route!Rows -> Route!Transactions \cup {None}]
         /\ \A r \in Route!Rows : v3'[r] # e
         /\ \A r \in Route!Rows : v3'[r] = v3[r] \/ (v3[r] \in {None, e} /\ v3'[r] \in {None, e})
    BY <1>0, RouteAssumption DEF Route!TypeOK, Route!Unlock
  <1>12. Route!EditOK(e)'
    BY <1>9, <1>10, <1>11 DEF Route!EditOK
  <1>13. \A r \in Route!Rows : v1'[r] = v1[r] \/ v3[r] = e
    BY <1>0, <1>6 DEF Route!EditOK
  <1>14. RouteEditorDoes(e, Route!NoEdit)
    BY <1>0, <1>6, <1>7, <1>8, <1>9, <1>11, <1>12, <1>13 DEF RouteEditorDoes, Route!Ends, Route!TypeOK
  <1> QED BY <1>14, RouteEditorKeeps

(* No invocation.                                                           *)
LEMMA RouteNobodyCalls ==
    Route!NoCall \in Route!Call /\ Route!NoCall.pc = "no" /\ ~Route!NoCall.stale
  <1>1. Route!Unread \in Route!Route
    BY RouteNothing DEF Route!Unread, Route!Route
  <1>2. FALSE \in BOOLEAN
    OBVIOUS
  <1> QED BY <1>1, <1>2 DEF Route!NoCall, Route!Call, Route!Places

(* While it has locked nothing, an invocation reads what names further rows. *)
LEMMA RouteEarlyKeeps ==
    ASSUME Route!Inv, NEW i \in RouteInvokers, NEW new \in Route!Call, v5' = [v5 EXCEPT ![i] = new],
           UNCHANGED <<v1, v2, v3, v4, v6>>,
           v5[i].pc \notin Route!Owning, new.pc \notin Route!Owning,
           new.pc # "no" => Route!Exists("binding") /\ new.route["binding"].content \in RouteModels,
           new.pc \notin {"no", "binding"} => new.route["model"].content \in RouteGateways
    PROVE  Route!Inv'
  <1>1. Route!TypeOK /\ Route!CallOK(i)
    BY DEF Route!Inv
  <1>2. v5'[i] = new
    BY <1>1 DEF Route!TypeOK
  <1>3. Route!Held(i) = {} /\ Route!Held(i)' = {}
    BY <1>2 DEF Route!Held
  <1>4. Route!CallOK(i)'
    BY <1>1, <1>2, <1>3 DEF Route!CallOK, Route!Owning, Route!Exists
  <1>5. RouteInvokerDoes(i, new)
    BY <1>1, <1>4 DEF RouteInvokerDoes, Route!TypeOK
  <1> QED BY <1>5, RouteInvokerKeeps

(* What an invocation sees of one part of the route.                        *)
LEMMA RouteSightIs ==
    ASSUME Route!Inv, NEW i \in RouteInvokers, NEW pc \in Route!Places, NEW value \in Route!Value,
           NEW part \in {"binding", "model", "gateway", "activation"}, Route!Sees(i, pc, part, value)
    PROVE  \E new \in Route!Call :
             /\ v5' = [v5 EXCEPT ![i] = new] /\ new.pc = pc /\ new.stale = v5[i].stale
             /\ new.route[part] = value
             /\ \A other \in {"binding", "model", "gateway", "activation"} \ {part} :
                  new.route[other] = v5[i].route[other]
  <1>1. v5[i] \in Route!Call /\ v5[i].route \in Route!Route
    BY DEF Route!Inv, Route!TypeOK, Route!Call
  <1>2. PICK route : route = [v5[i].route EXCEPT ![part] = value]
    OBVIOUS
  <1>3. PICK new : new = [v5[i] EXCEPT !.pc = pc, !.route = route]
    OBVIOUS
  <1>4. /\ route \in Route!Route /\ route[part] = value
        /\ \A other \in {"binding", "model", "gateway", "activation"} \ {part} :
             route[other] = v5[i].route[other]
    BY <1>1, <1>2 DEF Route!Route
  <1>5. new \in Route!Call /\ new.pc = pc /\ new.stale = v5[i].stale /\ new.route = route
    BY <1>1, <1>3, <1>4 DEF Route!Call
  <1>6. v5' = [v5 EXCEPT ![i] = new]
    BY <1>1, <1>2, <1>3 DEF Route!Sees, Route!Call
  <1> QED BY <1>4, <1>5, <1>6

(* The unlocked reads of the route.                                         *)
LEMMA RouteReadingKeeps ==
    ASSUME Route!Inv, NEW i \in RouteInvokers,
           Route!ReadBinding(i) \/ Route!ReadModel(i) \/ Route!ReadGateway(i) \/ Route!getEffectiveRevision(i)
    PROVE  Route!Inv'
  <1>0. Route!TypeOK /\ Route!CallOK(i) /\ \A row \in Route!Rows : v1[row] \in Route!Value
    BY DEF Route!Inv, Route!TypeOK
  <1>1. CASE Route!ReadBinding(i)
    <2>1. v1["binding"] \in Route!Value /\ Route!Exists("binding") /\ v5[i].pc = "no"
      BY <1>0, <1>1, RouteNobodyCalls DEF Route!ReadBinding, Route!Rows
    <2>a. Route!Sees(i, "binding", "binding", v1["binding"]) /\ "binding" \in Route!Places
      BY <1>1 DEF Route!ReadBinding, Route!Places
    <2>2. PICK new \in Route!Call :
            /\ v5' = [v5 EXCEPT ![i] = new] /\ new.pc = "binding"
            /\ new.route["binding"] = v1["binding"]
      BY <2>a, <2>1, RouteSightIs
    <2>3. v1["binding"].content \in RouteModels
      BY <2>1, RouteIsThere
    <2> QED BY <1>1, <2>1, <2>2, <2>3, RouteEarlyKeeps DEF Route!ReadBinding, Route!Owning
  <1>2. CASE Route!ReadModel(i)
    <2>1. Route!Exists("binding") /\ v5[i].route["binding"].content \in RouteModels /\ v5[i].pc = "binding"
      BY <1>0, <1>2 DEF Route!ReadModel, Route!CallOK
    <2>2. PICK row \in RouteModels : row = v5[i].route["binding"].content
      BY <2>1
    <2>3. row \in Route!Rows /\ v1[row] \in Route!Value /\ v1[row].content \in RouteGateways
      <3>1. row \in Route!Rows /\ row # "binding"
        BY RouteAssumption DEF Route!Rows
      <3>2. Route!RowOK(row) /\ Route!Contents(row) = RouteGateways
        BY <3>1, RouteContentsAre DEF Route!Inv
      <3> QED BY <1>0, <3>1, <3>2 DEF Route!RowOK
    <2>a. Route!Sees(i, "model", "model", v1[row]) /\ "model" \in Route!Places
      BY <1>2, <2>2 DEF Route!ReadModel, Route!Places
    <2>4. PICK new \in Route!Call :
            /\ v5' = [v5 EXCEPT ![i] = new] /\ new.pc = "model" /\ new.route["model"] = v1[row]
            /\ new.route["binding"] = v5[i].route["binding"]
      BY <2>a, <2>3, RouteSightIs
    <2> QED BY <1>2, <2>1, <2>3, <2>4, RouteEarlyKeeps DEF Route!ReadModel, Route!Owning
  <1>3. CASE Route!ReadGateway(i)
    <2>1. /\ Route!Exists("binding") /\ v5[i].route["binding"].content \in RouteModels /\ v5[i].pc = "model"
          /\ v5[i].route["model"].content \in RouteGateways
      BY <1>0, <1>3 DEF Route!ReadGateway, Route!CallOK
    <2>2. PICK row \in RouteGateways : row = v5[i].route["model"].content
      BY <2>1
    <2>3. v1[row] \in Route!Value
      BY <1>0 DEF Route!Rows
    <2>4. CASE v1[row].content = "on"
      <3>a. Route!Sees(i, "gateway", "gateway", v1[row]) /\ "gateway" \in Route!Places
        BY <1>3, <2>2, <2>4 DEF Route!ReadGateway, Route!Places
      <3>1. PICK new \in Route!Call :
              /\ v5' = [v5 EXCEPT ![i] = new] /\ new.pc = "gateway"
              /\ new.route["binding"] = v5[i].route["binding"] /\ new.route["model"] = v5[i].route["model"]
        BY <3>a, <2>3, RouteSightIs
      <3> QED BY <1>3, <2>1, <3>1, RouteEarlyKeeps DEF Route!ReadGateway, Route!Owning
    <2>5. CASE v1[row].content # "on"
      BY <1>3, <2>1, <2>2, <2>5, RouteNobodyCalls, RouteEarlyKeeps DEF Route!ReadGateway, Route!Owning
    <2> QED BY <2>4, <2>5
  <1>4. CASE Route!getEffectiveRevision(i)
    <2>1. /\ Route!Exists("binding") /\ v5[i].route["binding"].content \in RouteModels /\ v5[i].pc = "gateway"
          /\ v5[i].route["model"].content \in RouteGateways /\ v1["activation"] \in Route!Value
      BY <1>0, <1>4 DEF Route!getEffectiveRevision, Route!CallOK, Route!Rows
    <2>a. Route!Sees(i, "config", "activation", v1["activation"]) /\ "config" \in Route!Places
      BY <1>4 DEF Route!getEffectiveRevision, Route!Places
    <2>2. PICK new \in Route!Call :
            /\ v5' = [v5 EXCEPT ![i] = new] /\ new.pc = "config"
            /\ new.route["binding"] = v5[i].route["binding"] /\ new.route["model"] = v5[i].route["model"]
      BY <2>a, <2>1, RouteSightIs
    <2> QED BY <1>4, <2>1, <2>2, RouteEarlyKeeps DEF Route!getEffectiveRevision, Route!Owning
  <1> QED BY <1>1, <1>2, <1>3, <1>4

(* request, Generated, InvocationFails.                                     *)
LEMMA RouteSendingKeeps ==
    ASSUME Route!Inv, NEW i \in RouteInvokers, Route!request(i) \/ Route!Generated(i) \/ Route!InvocationFails(i)
    PROVE  Route!Inv'
  <1>0. v5[i] \in Route!Call /\ Route!CallOK(i) /\ UNCHANGED <<v1, v2, v3, v4, v6>>
    BY DEF Route!Inv, Route!TypeOK, Route!request, Route!Generated, Route!InvocationFails
  <1>1. v5[i].pc \in {"binding", "model", "gateway", "config", "sent", "result"}
    BY DEF Route!request, Route!Generated, Route!InvocationFails
  <1>2. CASE v5' = [v5 EXCEPT ![i] = Route!NoCall]
    BY <1>0, <1>1, <1>2, RouteNobodyCalls, RouteEarlyKeeps DEF Route!Owning
  <1>3. ASSUME NEW to \in {"sent", "result"}, v5[i].pc \in {"config", "sent"},
               v5' = [v5 EXCEPT ![i] = [v5[i] EXCEPT !.pc = to]]
        PROVE  Route!Inv'
    <2>1. PICK new : new = [v5[i] EXCEPT !.pc = to]
      OBVIOUS
    <2>2. new \in Route!Call /\ new.pc = to /\ new.route = v5[i].route
      BY <1>0, <2>1 DEF Route!Call, Route!Places
    <2>3. /\ Route!Exists("binding") /\ v5[i].route["binding"].content \in RouteModels
          /\ v5[i].route["model"].content \in RouteGateways
      BY <1>0, <1>3 DEF Route!CallOK
    <2>4. v5' = [v5 EXCEPT ![i] = new]
      BY <1>3, <2>1
    <2> QED BY <1>0, <1>1, <2>2, <2>3, <2>4, RouteEarlyKeeps DEF Route!Owning
  <1>4. CASE Route!request(i)
    BY <1>2, <1>3, <1>4 DEF Route!request
  <1>5. CASE Route!Generated(i)
    <2>1. v5' = [v5 EXCEPT ![i] = [v5[i] EXCEPT !.pc = "result"]]
      BY <1>0, <1>5 DEF Route!Generated, Route!Call
    <2> QED BY <1>3, <1>5, <2>1 DEF Route!Generated
  <1> QED BY <1>2, <1>4, <1>5 DEF Route!InvocationFails

(* A lock of the owner's transaction: what it finds may be what was read.   *)
RouteLockedOK(i, row, pc, agrees) ==
  \A new \in Route!Call : v5'[i] = new /\ new.pc = pc /\ new.route = v5[i].route =>
    /\ Route!Held(i)' = Route!Held(i) \cup {row}
    /\ ~v5[i].stale /\ agrees =>
         /\ v1["binding"] = v5[i].route["binding"]
         /\ pc # "binding locked" => v1[v1["binding"].content] = v5[i].route["model"]
         /\ pc \in {"gateway locked", "all locked", "accepted"} =>
              v1[v1[v1["binding"].content].content].content = "on"
         /\ pc \in {"all locked", "accepted"} =>
              v1["activation"].content = v5[i].route["activation"].content

(* Such a lock keeps the invariant.                                         *)
LEMMA RouteLockingKeeps ==
    ASSUME Route!Inv, NEW i \in RouteInvokers, NEW row \in Route!Rows, NEW pc \in Route!Owning \ {"accepted"},
           NEW agrees, Route!Locks(i, row, pc, agrees), v5[i].pc # "no", v5[i].pc # "binding",
           RouteLockedOK(i, row, pc, agrees)
    PROVE  Route!Inv'
  <1>0. /\ Route!TypeOK /\ Route!CallOK(i) /\ v5[i] \in Route!Call /\ Route!Lockable(row, i)
        /\ v3' = [v3 EXCEPT ![row] = i]
        /\ UNCHANGED <<v1, v2, v4, v6>>
    BY DEF Route!Inv, Route!TypeOK, Route!Locks
  <1>1. PICK stale \in BOOLEAN : stale <=> (v5[i].stale \/ ~agrees)
    OBVIOUS
  <1>2. PICK new : new = [v5[i] EXCEPT !.pc = pc, !.stale = stale]
    OBVIOUS
  <1>3. new \in Route!Call /\ new.pc = pc /\ new.route = v5[i].route /\ new.stale = stale
    BY <1>0, <1>2 DEF Route!Call, Route!Owning, Route!Places
  <1>4. v5' = [v5 EXCEPT ![i] = new]
    BY <1>0, <1>1, <1>2 DEF Route!Locks, Route!Call
  <1>5. v5'[i] = new
    BY <1>0, <1>4 DEF Route!TypeOK
  <1>6. /\ v3' \in [Route!Rows -> Route!Transactions \cup {None}]
        /\ v3'[row] = i /\ \A r \in Route!Rows \ {row} : v3'[r] = v3[r]
    BY <1>0 DEF Route!TypeOK, Route!Transactions
  <1>7. (\A r \in Route!Rows : v3[r] = i <=> r \in Route!Held(i))'
    BY <1>0, <1>3, <1>5, <1>6 DEF Route!CallOK, RouteLockedOK
  <1>8. Route!CallOK(i)'
    BY <1>0, <1>1, <1>3, <1>5, <1>7 DEF Route!CallOK, Route!Exists, Route!Owning, RouteLockedOK
  <1>9. Route!Sharing(row) = {}
    BY <1>0, RouteAssumption DEF Route!Lockable, Route!Sharing
  <1>10. RouteInvokerDoes(i, new)
    BY <1>0, <1>3, <1>4, <1>6, <1>8, <1>9 DEF RouteInvokerDoes, Route!Lockable
  <1> QED BY <1>10, RouteInvokerKeeps

(* The rows are locked one after the other, binding first.                  *)
LEMMA RouteOwnerKeeps ==
    ASSUME Route!Inv, NEW i \in RouteInvokers,
           Route!LockBinding(i) \/ Route!LockModel(i) \/ Route!LockGateway(i) \/ Route!readTransportActivation(i)
    PROVE  Route!Inv'
  <1>0. Route!TypeOK /\ Route!CallOK(i) /\ v5[i].pc # "no" /\ v5[i].pc # "binding" /\ v1' = v1
    BY DEF Route!Inv, Route!LockBinding, Route!LockModel, Route!LockGateway,
       Route!readTransportActivation, Route!Locks
  <1> DEFINE model == v1["binding"].content
             gateway == v1[model].content
  <1>1. /\ model \in RouteModels /\ gateway \in RouteGateways
        /\ {"binding", "activation", model, gateway} \subseteq Route!Rows
    BY <1>0, RouteIsThere DEF Route!CallOK
  <1>2. CASE Route!LockBinding(i)
    <2>1. /\ Route!Locks(i, "binding", "binding locked", v1["binding"] = v5[i].route["binding"])
          /\ v5[i].pc = "result" /\ "binding locked" \in Route!Owning \ {"accepted"}
      BY <1>2 DEF Route!LockBinding, Route!Owning
    <2>2. ASSUME NEW new \in Route!Call, v5'[i] = new, new.pc = "binding locked"
          PROVE  Route!Held(i)' = Route!Held(i) \cup {"binding"}
      BY <1>0, <2>1, <2>2 DEF Route!Held, Route!Owning
    <2>4. RouteLockedOK(i, "binding", "binding locked", v1["binding"] = v5[i].route["binding"])
      BY <2>2 DEF RouteLockedOK
    <2> QED BY <1>0, <1>1, <2>1, <2>4, RouteLockingKeeps
  <1>3. CASE Route!LockModel(i)
    <2>1. /\ Route!Locks(i, model, "model locked", v1[model] = v5[i].route["model"])
          /\ v5[i].pc = "binding locked" /\ "model locked" \in Route!Owning \ {"accepted"}
      BY <1>3 DEF Route!LockModel, Route!Owning
    <2>2. ASSUME NEW new \in Route!Call, v5'[i] = new, new.pc = "model locked"
          PROVE  Route!Held(i)' = Route!Held(i) \cup {model}
      BY <1>0, <2>1, <2>2 DEF Route!Held, Route!Owning
    <2>3. ~v5[i].stale => v1["binding"] = v5[i].route["binding"]
      BY <1>0, <2>1 DEF Route!CallOK, Route!Owning
    <2>4. RouteLockedOK(i, model, "model locked", v1[model] = v5[i].route["model"])
      BY <2>2, <2>3 DEF RouteLockedOK
    <2> QED BY <1>0, <1>1, <2>1, <2>4, RouteLockingKeeps
  <1>4. CASE Route!LockGateway(i)
    <2>1. /\ Route!Locks(i, gateway, "gateway locked", v1[gateway].content = "on")
          /\ v5[i].pc = "model locked" /\ "gateway locked" \in Route!Owning \ {"accepted"}
      BY <1>4 DEF Route!LockGateway, Route!Owning
    <2>2. ASSUME NEW new \in Route!Call, v5'[i] = new, new.pc = "gateway locked"
          PROVE  Route!Held(i)' = Route!Held(i) \cup {gateway}
      BY <1>0, <2>1, <2>2 DEF Route!Held, Route!Owning
    <2>3. ~v5[i].stale => v1["binding"] = v5[i].route["binding"] /\ v1[model] = v5[i].route["model"]
      BY <1>0, <2>1 DEF Route!CallOK, Route!Owning
    <2>4. RouteLockedOK(i, gateway, "gateway locked", v1[gateway].content = "on")
      BY <2>2, <2>3 DEF RouteLockedOK
    <2> QED BY <1>0, <1>1, <2>1, <2>4, RouteLockingKeeps
  <1>5. CASE Route!readTransportActivation(i)
    <2>1. /\ Route!Locks(i, "activation", "all locked",
                   v1["activation"].content = v5[i].route["activation"].content)
          /\ v5[i].pc = "gateway locked" /\ "all locked" \in Route!Owning \ {"accepted"}
      BY <1>5 DEF Route!readTransportActivation, Route!Owning
    <2>2. ASSUME NEW new \in Route!Call, v5'[i] = new, new.pc = "all locked"
          PROVE  Route!Held(i)' = Route!Held(i) \cup {"activation"}
      BY <1>0, <2>1, <2>2 DEF Route!Held, Route!Owning
    <2>3. ~v5[i].stale => /\ v1["binding"] = v5[i].route["binding"] /\ v1[model] = v5[i].route["model"]
                            /\ v1[gateway].content = "on"
      BY <1>0, <2>1 DEF Route!CallOK, Route!Owning
    <2>4. RouteLockedOK(i, "activation", "all locked",
                   v1["activation"].content = v5[i].route["activation"].content)
      BY <2>2, <2>3 DEF RouteLockedOK
    <2> QED BY <1>0, <1>1, <2>1, <2>4, RouteLockingKeeps
  <1> QED BY <1>2, <1>3, <1>4, <1>5

(* The owner's transaction ends, or goes on over a route that it holds.     *)
LEMMA RouteAcceptingKeeps ==
    ASSUME Route!Inv, NEW i \in RouteInvokers,
           Route!assertGenerationAdmissibleForCommit(i) \/ Route!CommitGeneration(i)
    PROVE  Route!Inv'
  <1>0. Route!TypeOK /\ Route!CallOK(i) /\ v5[i] \in Route!Call /\ UNCHANGED <<v1, v2, v4, v6>> /\ i # None
    BY RouteAssumption DEF Route!Inv, Route!TypeOK, Route!assertGenerationAdmissibleForCommit,
       Route!CommitGeneration
  <1>1. CASE Route!Unlock(i) /\ v5' = [v5 EXCEPT ![i] = Route!NoCall]
    <2>1. v5'[i] = Route!NoCall /\ Route!NoCall \in Route!Call /\ Route!NoCall.pc = "no"
      BY <1>0, <1>1, RouteNobodyCalls DEF Route!TypeOK
    <2>2. /\ v3' \in [Route!Rows -> Route!Transactions \cup {None}]
          /\ \A row \in Route!Rows : v3'[row] # i
          /\ \A row \in Route!Rows : v3'[row] = v3[row] \/ (v3[row] \in {None, i} /\ v3'[row] \in {None, i})
      BY <1>0, <1>1 DEF Route!TypeOK, Route!Unlock
    <2>3. Route!Held(i)' = {}
      BY <2>1 DEF Route!Held, Route!Owning
    <2>4. Route!CallOK(i)'
      BY <2>1, <2>2, <2>3 DEF Route!CallOK, Route!Owning
    <2>5. RouteInvokerDoes(i, Route!NoCall)
      BY <1>0, <1>1, <2>1, <2>2, <2>4 DEF RouteInvokerDoes
    <2> QED BY <2>5, RouteInvokerKeeps
  <1>2. CASE v5[i].pc = "all locked" /\ ~v5[i].stale /\ v3' = v3
             /\ v5' = [v5 EXCEPT ![i].pc = "accepted"]
    <2>1. PICK new : new = [v5[i] EXCEPT !.pc = "accepted"]
      OBVIOUS
    <2>2. new \in Route!Call /\ new.pc = "accepted" /\ new.route = v5[i].route /\ new.stale = v5[i].stale
      BY <1>0, <2>1 DEF Route!Call, Route!Places
    <2>3. v5' = [v5 EXCEPT ![i] = new]
      BY <1>0, <1>2, <2>1 DEF Route!Call
    <2>4. v5'[i] = new
      BY <1>0, <2>3 DEF Route!TypeOK
    <2>5. Route!Held(i)' = Route!Held(i)
      BY <1>0, <1>2, <2>2, <2>4 DEF Route!Held, Route!Owning
    <2>6. Route!CallOK(i)'
      BY <1>0, <1>2, <2>2, <2>4, <2>5 DEF Route!CallOK, Route!Owning, Route!Exists
    <2>7. RouteInvokerDoes(i, new)
      BY <1>0, <1>2, <2>2, <2>3, <2>6 DEF RouteInvokerDoes, Route!TypeOK
    <2> QED BY <2>7, RouteInvokerKeeps
  <1> QED BY <1>1, <1>2 DEF Route!assertGenerationAdmissibleForCommit, Route!CommitGeneration

(* The first route: all rows but perhaps the binding.                       *)
LEMMA RouteInitInv ==
    ASSUME Route!Init
    PROVE  Route!Inv
  <1>1. PICK b \in RouteModels \cup {None}, r \in RouteRevisions, g \in RouteGateways :
          v1 = [row \in Route!Rows |->
                   IF row = "binding" /\ b = None THEN Route!Absent
                   ELSE [version |-> 1,
                         content |-> CASE row = "binding" -> b
                                       [] row = "activation" -> r
                                       [] row \in RouteModels -> g
                                       [] OTHER -> "on"]]
    BY DEF Route!Init
  <1>2. /\ "binding" \in Route!Rows /\ "activation" \in Route!Rows /\ Route!NoEdit \in Route!Change
        /\ Route!NoCall \in Route!Call
        /\ Route!NoEdit.pc = "no" /\ Route!NoCall.pc = "no" /\ Route!Absent \in Route!Value
        /\ Route!Absent.version = 0
    BY RouteNothing, RouteNobodyCalls DEF Route!Rows
  <1>3. \A row \in Route!Rows :
           /\ v1[row] = Route!Absent \/ (v1[row].version = 1 /\ v1[row].content \in Route!Contents(row))
           /\ v1[row] = Route!Absent => row = "binding"
           /\ v1[row] \in Route!Value
    <2> SUFFICES ASSUME NEW row \in Route!Rows
                 PROVE  /\ v1[row] = Route!Absent \/ (v1[row].version = 1 /\ v1[row].content \in Route!Contents(row))
                        /\ v1[row] = Route!Absent => row = "binding"
                        /\ v1[row] \in Route!Value
      OBVIOUS
    <2>0. Route!Contents(row) \subseteq Route!AnyContent /\ 1 \in 0..RouteVersions /\ None \notin RouteModels
      BY RouteContentsAre, RouteAssumption
    <2>1. CASE row = "binding"
      <3>1. CASE b = None
        BY <1>1, <1>2, <2>1, <3>1
      <3>2. CASE b # None
        <4>1. v1[row] = [version |-> 1, content |-> b] /\ b \in Route!Contents(row)
          BY <1>1, <2>0, <2>1, <3>2, RouteContentsAre
        <4> QED BY <2>0, <2>1, <4>1 DEF Route!Value
      <3> QED BY <3>1, <3>2
    <2>2. CASE row = "activation"
      <3>1. /\ v1[row] = [version |-> 1, content |-> r] /\ r \in Route!Contents(row)
            /\ v1[row].version # Route!Absent.version
        BY <1>1, <1>2, <2>0, <2>2, RouteContentsAre, RouteAssumption
      <3> QED BY <2>0, <3>1 DEF Route!Value
    <2>3. CASE row \in RouteModels
      <3>1. /\ v1[row] = [version |-> 1, content |-> g] /\ g \in Route!Contents(row)
            /\ v1[row].version # Route!Absent.version
        BY <1>1, <1>2, <2>0, <2>3, RouteContentsAre, RouteAssumption
      <3> QED BY <2>0, <3>1 DEF Route!Value
    <2>4. CASE row \in RouteGateways
      <3>1. /\ v1[row] = [version |-> 1, content |-> "on"] /\ "on" \in Route!Contents(row)
            /\ v1[row].version # Route!Absent.version
        BY <1>1, <1>2, <2>0, <2>4, RouteContentsAre, RouteAssumption
      <3> QED BY <2>0, <3>1 DEF Route!Value
    <2> QED BY <2>1, <2>2, <2>3, <2>4 DEF Route!Rows
  <1>4. v1["activation"].content \in RouteRevisions
    BY <1>2, <1>3, RouteContentsAre, RouteAssumption DEF Route!Rows
  <1>5. Route!TypeOK
    BY <1>1, <1>2, <1>3, <1>4, RouteAssumption DEF Route!Init, Route!TypeOK
  <1>6. \A row \in Route!Rows : Route!RowOK(row)
    BY <1>2, <1>3 DEF Route!RowOK, Route!Exists
  <1>7. \A e \in RouteEditors : Route!EditOK(e)
    BY <1>2, RouteAssumption DEF Route!Init, Route!EditOK
  <1>8. \A i \in RouteInvokers : Route!CallOK(i)
    <2> SUFFICES ASSUME NEW i \in RouteInvokers PROVE Route!CallOK(i)
      OBVIOUS
    <2>1. v5[i].pc = "no" /\ Route!Held(i) = {}
      BY <1>2 DEF Route!Init, Route!Held, Route!Owning
    <2> QED BY <2>1, RouteAssumption DEF Route!Init, Route!CallOK, Route!Owning
  <1> QED BY <1>5, <1>6, <1>7, <1>8 DEF Route!Inv

(* Every step keeps the invariant.                                          *)
LEMMA RouteNextInv == Route!Inv /\ [Route!Next]_Route!vars => Route!Inv'
  <1> SUFFICES ASSUME Route!Inv, [Route!Next]_Route!vars PROVE Route!Inv'
    OBVIOUS
  <1>1. CASE UNCHANGED Route!vars
    <2>1. Route!TypeOK' /\ (\A row \in Route!Rows : Route!RowOK(row))'
      BY <1>1 DEF Route!vars, Route!Inv, Route!TypeOK, Route!RowOK, Route!Exists
    <2>2. (\A e \in RouteEditors : Route!EditOK(e))'
      BY <1>1 DEF Route!vars, Route!Inv, Route!EditOK, Route!Refers, Route!Numbered, Route!Digest
    <2>3. ASSUME NEW i \in RouteInvokers PROVE Route!CallOK(i)'
      <3>1. Route!CallOK(i) /\ Route!Held(i)' = Route!Held(i)
        BY <1>1 DEF Route!Inv, Route!Held, Route!vars
      <3> QED BY <1>1, <3>1 DEF Route!vars, Route!CallOK, Route!Exists
    <2> QED BY <2>1, <2>2, <2>3 DEF Route!Inv
  <1>2. ASSUME NEW e \in RouteEditors, Route!createRevision(e) \/ Route!Plan(e)
        PROVE  Route!Inv'
    BY <1>2, RouteCreateKeeps, RoutePlanKeeps
  <1>3. ASSUME NEW e \in RouteEditors,
               Route!setGatewayProfile(e) \/ Route!setModelProfile(e) \/ Route!setModelBinding(e) \/ Route!activate(e)
        PROVE  Route!Inv'
    <2>1. Route!EditOK(e) /\ "activation" \notin RouteModels \cup RouteGateways \cup {"binding"}
      BY RouteAssumption DEF Route!Inv
    <2>2. CASE Route!readForCommit(e) /\ (v4[e].row = "activation" => v4[e].content \in v2)
      BY <2>2, RouteReadKeeps
    <2>3. CASE Route!Ends(e) /\ v4[e].pc = "planned" /\ UNCHANGED <<v1, v2, v3, v5, v6>>
      BY <2>1, <2>3, RouteEndKeeps DEF Route!EditOK
    <2> QED BY <1>3, <2>1, <2>2, <2>3 DEF Route!setGatewayProfile, Route!setModelProfile,
               Route!setModelBinding, Route!activate, Route!readForCommit
  <1>4. ASSUME NEW e \in RouteEditors, Route!upsert(e) \/ Route!CommitChange(e)
        PROVE  Route!Inv'
    BY <1>4, RouteUpsertKeeps, RouteCommitKeeps
  <1>5. ASSUME NEW e \in RouteEditors, Route!InsertConflict(e) \/ Route!Rollback(e)
        PROVE  Route!Inv'
    <2>1. Route!EditOK(e)
      BY DEF Route!Inv
    <2>2. CASE Route!InsertConflict(e)
      BY <2>1, <2>2, RouteEndKeeps DEF Route!EditOK, Route!InsertConflict
    <2>3. CASE Route!Rollback(e)
      BY <2>3, RouteEndKeeps DEF Route!Rollback
    <2> QED BY <1>5, <2>2, <2>3
  <1>6. ASSUME NEW i \in RouteInvokers,
               \/ Route!ReadBinding(i) \/ Route!ReadModel(i) \/ Route!ReadGateway(i) \/ Route!getEffectiveRevision(i)
               \/ Route!request(i) \/ Route!Generated(i) \/ Route!InvocationFails(i)
        PROVE  Route!Inv'
    BY <1>6, RouteReadingKeeps, RouteSendingKeeps
  <1>7. ASSUME NEW i \in RouteInvokers,
               \/ Route!LockBinding(i) \/ Route!LockModel(i) \/ Route!LockGateway(i) \/ Route!readTransportActivation(i)
               \/ Route!assertGenerationAdmissibleForCommit(i) \/ Route!CommitGeneration(i)
        PROVE  Route!Inv'
    BY <1>7, RouteOwnerKeeps, RouteAcceptingKeeps
  <1> QED BY <1>1, <1>2, <1>3, <1>4, <1>5, <1>6, <1>7 DEF Route!Next

(* No two transactions wait for each other: owners all begin with the       *)
(* binding, and a change that waits names a row further on.                 *)
LEMMA RouteNobodyWaits ==
    ASSUME Route!Inv
    PROVE  Route!NoMutualWait
  <1> SUFFICES ASSUME NEW t \in Route!Transactions, NEW u \in Route!Transactions,
                      Route!WaitsFor(t, u), Route!WaitsFor(u, t)
               PROVE  FALSE
    BY DEF Route!NoMutualWait
  <1>0. /\ Route!TypeOK /\ RouteEditors \cap RouteInvokers = {}
        /\ None \notin RouteEditors \cup RouteInvokers /\ "binding" \in Route!Rows
        /\ RouteModels \cap RouteGateways = {}
        /\ {"binding", "activation"} \cap (RouteModels \cup RouteGateways) = {}
    BY RouteAssumption DEF Route!Inv, Route!Rows
  (* Who waits, for which row, and what it has locked.                      *)
  <1>1. ASSUME NEW e \in RouteEditors, NEW w \in Route!Transactions, Route!WaitsFor(e, w)
        PROVE  /\ v4[e].pc = "locked" /\ v4[e].row \in RouteModels \cup {"binding"}
               /\ v4[e].content \in (IF v4[e].row = "binding" THEN RouteModels ELSE RouteGateways)
               /\ v3[v4[e].content] = w
    <2>1. PICK row \in Route!Wants(e) : v3[row] = w
      BY <1>0, <1>1 DEF Route!WaitsFor
    <2>2. row \in Route!Rows /\ v4[e].pc = "locked" /\ Route!Refers(e) /\ v4[e].content = row
      BY <2>1 DEF Route!Wants
    <2>3. Route!EditOK(e) /\ v4[e].row \in RouteModels \cup {"binding"}
      BY <2>2 DEF Route!Inv, Route!Refers, Route!Numbered
    <2>4. v4[e].content \in Route!Contents(v4[e].row)
      BY <2>2, <2>3 DEF Route!EditOK
    <2> QED BY <2>1, <2>2, <2>3, <2>4, RouteContentsAre
  <1>2. ASSUME NEW i \in RouteInvokers, NEW w \in Route!Transactions, Route!WaitsFor(i, w)
        PROVE  /\ v3["binding"] = i
               /\ \E row \in RouteModels \cup RouteGateways \cup {"activation"} :
                     /\ v3[row] = w \/ w \in Route!Sharing(row)
                     /\ row \in RouteModels => \A r \in Route!Rows : v3[r] = i => r = "binding"
    <2>1. i \notin RouteEditors
      BY <1>0
    <2>2. PICK row \in Route!Wants(i) : v3[row] = w \/ w \in Route!Sharing(row)
      BY <1>2 DEF Route!WaitsFor
    <2> DEFINE model == v1["binding"].content
    <2>3. Route!CallOK(i)
      BY DEF Route!Inv
    <2>4. CASE v5[i].pc = "binding locked"
      <3>1. row = model /\ Route!Exists("binding") /\ Route!Held(i) = {"binding"}
        BY <2>1, <2>2, <2>3, <2>4 DEF Route!Wants, Route!CallOK, Route!Held, Route!Owning
      <3>2. model \in RouteModels
        BY <3>1, RouteIsThere
      <3> QED BY <1>0, <2>2, <2>3, <3>1, <3>2 DEF Route!CallOK
    <2>5. CASE v5[i].pc = "model locked"
      <3>1. row = v1[model].content /\ Route!Exists("binding") /\ "binding" \in Route!Held(i)
        BY <2>1, <2>2, <2>3, <2>5 DEF Route!Wants, Route!CallOK, Route!Held, Route!Owning
      <3>2. row \in RouteGateways
        BY <3>1, RouteIsThere
      <3> QED BY <1>0, <2>2, <2>3, <3>1, <3>2 DEF Route!CallOK
    <2>6. CASE v5[i].pc = "gateway locked"
      <3>1. row = "activation" /\ "binding" \in Route!Held(i)
        BY <2>1, <2>2, <2>3, <2>6 DEF Route!Wants, Route!CallOK, Route!Held, Route!Owning
      <3> QED BY <1>0, <2>2, <2>3, <3>1 DEF Route!CallOK
    <2>7. CASE v5[i].pc \notin {"binding locked", "model locked", "gateway locked"}
      BY <2>1, <2>2, <2>7 DEF Route!Wants
    <2> QED BY <2>4, <2>5, <2>6, <2>7
  (* A change that waits has locked the row it is of, and shares none.      *)
  <1>3. ASSUME NEW e \in RouteEditors, NEW w \in Route!Transactions, Route!WaitsFor(e, w), NEW row \in Route!Rows,
               v3[row] = e \/ e \in Route!Sharing(row)
        PROVE  row = v4[e].row
    <2>1. v4[e].pc = "locked"
      BY <1>1, <1>3
    <2> QED BY <1>3, <2>1 DEF Route!Inv, Route!EditOK, Route!Sharing
  <1>4. CASE t \in RouteInvokers /\ u \in RouteInvokers
    <2>1. v3["binding"] = t /\ v3["binding"] = u
      BY <1>2, <1>4
    <2> QED BY <2>1 DEF Route!WaitsFor
  <1>5. CASE t \in RouteEditors /\ u \in RouteEditors
    <2>1. v4[t].content \in Route!Rows /\ v4[u].content \in Route!Rows
      BY <1>1, <1>5 DEF Route!Rows
    <2>2. v4[t].content = v4[u].row /\ v4[u].content = v4[t].row
      BY <1>1, <1>3, <1>5, <2>1
    <2> QED BY <1>0, <1>1, <1>5, <2>2
  <1>6. ASSUME NEW e \in RouteEditors, NEW i \in RouteInvokers, Route!WaitsFor(e, i), Route!WaitsFor(i, e)
        PROVE  FALSE
    <2>1. PICK row \in RouteModels \cup RouteGateways \cup {"activation"} :
            /\ v3[row] = e \/ e \in Route!Sharing(row)
            /\ row \in RouteModels => \A r \in Route!Rows : v3[r] = i => r = "binding"
      BY <1>2, <1>6 DEF Route!Transactions
    <2>2. row \in Route!Rows
      BY DEF Route!Rows
    <2>3. row = v4[e].row
      BY <1>3, <1>6, <2>1, <2>2 DEF Route!Transactions
    <2>4. row \in RouteModels /\ v4[e].content \in RouteGateways /\ v3[v4[e].content] = i
      BY <1>0, <1>1, <1>6, <2>3 DEF Route!Transactions
    <2>5. v4[e].content \in Route!Rows /\ v4[e].content # "binding"
      BY <1>0, <2>4 DEF Route!Rows
    <2> QED BY <2>1, <2>4, <2>5
  <1> QED BY <1>4, <1>5, <1>6 DEF Route!Transactions

(* An accepted route is the one its locks hold.                             *)
LEMMA RouteAcceptedCurrent ==
    ASSUME Route!Inv
    PROVE  Route!AcceptedIsCurrent
  BY DEF Route!Inv, Route!CallOK, Route!Owning, Route!AcceptedIsCurrent

(* A change commits over the row it was planned on.                         *)
LEMMA RouteCommitsOver == Route!Inv /\ [Route!Next]_Route!vars => Route!CommitsAsPlanned
  <1> SUFFICES ASSUME Route!Inv, [Route!Next]_Route!vars, NEW e \in RouteEditors,
                      v4[e].pc = "written", v4'[e].pc = "no", v4[e].expected # Route!Absent
               PROVE  Route!Digest(v4[e].row, v1[v4[e].row]) = Route!Digest(v4[e].row, v4[e].expected)
    BY DEF Route!CommitsAsPlanned
  <1>1. Route!EditOK(e) /\ v4[e].row \in Route!Rows
    BY DEF Route!Inv, Route!TypeOK, Route!Change
  <1>2. v4[e].expected.content # None
    BY <1>1, RouteContentsAre DEF Route!EditOK
  <1>3. v4[e].seen # Route!Absent
    <2>1. Route!Digest(v4[e].row, Route!Absent) = (IF Route!Numbered(v4[e].row) THEN Route!Absent ELSE None)
      BY RouteNothing DEF Route!Digest
    <2> QED BY <1>1, <1>2, <2>1 DEF Route!EditOK, Route!Digest
  <1> QED BY <1>1, <1>3 DEF Route!EditOK

------------------------------------------------------------------------------
(* ActivationScope: v1 activation, v2 fiber, v3 resource, v4 task,          *)
(* v5 awaited, v6 closing.                                                  *)

(* No activation has begun.                                                 *)
LEMMA ScopeInit == Scope!Init => Scope!Inv
  <1> SUFFICES ASSUME Scope!Init PROVE Scope!Inv
    OBVIOUS
  <1>1. Scope!TypeOK
    BY ScopeAssumption DEF Scope!Init, Scope!TypeOK, Scope!States, Scope!Activation, Scope!Fiber
  <1>2. ASSUME NEW a \in Scope!Activations
        PROVE  Scope!StageOK(a) /\ Scope!FiberOK(a) /\ Scope!TasksOK(a)
    BY DEF Scope!Init, Scope!StageOK, Scope!FiberOK, Scope!TasksOK, Scope!state
  <1> QED BY <1>1, <1>2 DEF Scope!Inv, Scope!Init

(* Activations are independent: a step of one keeps the invariant if it     *)
(* keeps that one's part, undoes no disposal, and begins nothing once       *)
(* close() was called.                                                      *)
LEMMA ScopeLocal ==
    ASSUME Scope!Inv, Scope!TypeOK', NEW a \in Scope!Activations,
           \A b \in Scope!Activations \ {a} :
               v1'[b] = v1[b] /\ v2'[b] = v2[b] /\ v3'[b] = v3[b] /\ v4'[b] = v4[b] /\ v5'[b] = v5[b],
           v1[a].dispose = "done" => v1'[a].dispose = "done",
           Scope!Begun(a) \/ ~Scope!Begun(a)' \/ v6.state = "open",
           UNCHANGED v6,
           Scope!StageOK(a)', Scope!FiberOK(a)', Scope!TasksOK(a)'
    PROVE  Scope!Inv'
  <1>1. ASSUME NEW b \in Scope!Activations \ {a}
        PROVE  (Scope!StageOK(b) /\ Scope!FiberOK(b) /\ Scope!TasksOK(b))'
    BY DEF Scope!Inv, Scope!StageOK, Scope!FiberOK, Scope!TasksOK, Scope!state, Scope!Running
  <1>2. \A b \in Scope!Activations : (Scope!StageOK(b) /\ Scope!FiberOK(b) /\ Scope!TasksOK(b))'
    BY <1>1
  <1>3. /\ v6'.state # "open" =>
              \A b \in Scope!Activations : b > v6'.at /\ Scope!Begun(b)' => v1'[b].dispose = "done"
        /\ v6'.state = "closed" => v6'.at = 0
    BY DEF Scope!Inv, Scope!Begun, Scope!state
  <1> QED BY <1>2, <1>3 DEF Scope!Inv

(* A step that changes an activation and the state of its Fiber, but no     *)
(* resource and no task.                                                    *)
LEMMA ScopeStage ==
    ASSUME Scope!Inv, NEW a \in Scope!Activations,
           \/ Scope!activate(a) \/ Scope!Applied(a) \/ Scope!Started(a) \/ Scope!StartFails(a)
           \/ Scope!StartRejected(a) \/ Scope!dispose(a) \/ Scope!FiberDisposed(a) \/ Scope!Drained(a)
           \/ Scope!TasksSettled(a) \/ Scope!SettlementTimeout(a) \/ Scope!Disposed(a)
    PROVE  Scope!Inv'
  <1>0. /\ Scope!TypeOK /\ Scope!StageOK(a) /\ Scope!FiberOK(a) /\ Scope!TasksOK(a)
        /\ v1 \in [Scope!Activations -> Scope!Activation]
        /\ v2 \in [Scope!Activations -> Scope!Fiber]
        /\ v5 \in [Scope!Activations -> SUBSET Scope!Tasks]
    BY DEF Scope!Inv, Scope!TypeOK
  <1>1. v1' \in [Scope!Activations -> Scope!Activation]
    BY <1>0 DEF Scope!activate, Scope!Applied, Scope!Started, Scope!StartFails, Scope!StartRejected,
       Scope!dispose, Scope!FiberDisposed, Scope!Drained, Scope!TasksSettled, Scope!SettlementTimeout,
       Scope!Disposed, Scope!Disposing, Scope!States, Scope!Activation
  <1>2. v2' \in [Scope!Activations -> Scope!Fiber] /\ v2'[a].effects = v2[a].effects
    <2>1. CASE UNCHANGED v2
      BY <1>0, <2>1
    <2>2. ASSUME NEW z \in {"active", "disposing", "disposed"}, v2' = [v2 EXCEPT ![a].state = z]
          PROVE  v2' \in [Scope!Activations -> Scope!Fiber] /\ v2'[a].effects = v2[a].effects
      BY <1>0, <2>2 DEF Scope!Fiber
    <2>3. UNCHANGED v2 \/ \E z \in {"active", "disposing", "disposed"} : v2' = [v2 EXCEPT ![a].state = z]
      BY DEF Scope!activate, Scope!Applied, Scope!Started, Scope!StartFails, Scope!StartRejected,
         Scope!dispose, Scope!FiberDisposed, Scope!Drained, Scope!TasksSettled, Scope!SettlementTimeout,
         Scope!Disposed, Scope!Disposing
    <2> QED BY <2>1, <2>2, <2>3
  <1>3. v5' \in [Scope!Activations -> SUBSET Scope!Tasks] /\ UNCHANGED <<v3, v4, v6>>
    BY <1>0 DEF Scope!activate, Scope!Applied, Scope!Started, Scope!StartFails, Scope!StartRejected,
       Scope!dispose, Scope!FiberDisposed, Scope!Drained, Scope!TasksSettled, Scope!SettlementTimeout,
       Scope!Disposed, Scope!Disposing, Scope!Running
  <1>4. \A b \in Scope!Activations \ {a} : v1'[b] = v1[b] /\ v2'[b] = v2[b] /\ v5'[b] = v5[b]
    BY <1>0 DEF Scope!activate, Scope!Applied, Scope!Started, Scope!StartFails, Scope!StartRejected,
       Scope!dispose, Scope!FiberDisposed, Scope!Drained, Scope!TasksSettled, Scope!SettlementTimeout,
       Scope!Disposed, Scope!Disposing
  <1>5. Scope!StageOK(a)'
    BY <1>0, <1>3 DEF Scope!activate, Scope!Applied, Scope!Started, Scope!StartFails, Scope!StartRejected,
       Scope!dispose, Scope!FiberDisposed, Scope!Drained, Scope!TasksSettled, Scope!SettlementTimeout,
       Scope!Disposed, Scope!Disposing, Scope!StageOK, Scope!Begun, Scope!state, Scope!Activation
  <1>6. Scope!FiberOK(a)'
    BY <1>0, <1>2, <1>3 DEF Scope!activate, Scope!Applied, Scope!Started, Scope!StartFails, Scope!StartRejected,
       Scope!dispose, Scope!FiberDisposed, Scope!Drained, Scope!TasksSettled, Scope!SettlementTimeout,
       Scope!Disposed, Scope!Disposing, Scope!FiberOK, Scope!StageOK, Scope!Begun, Scope!state, Scope!Activation, Scope!Fiber
  <1>7. Scope!TasksOK(a)'
    BY <1>0, <1>3 DEF Scope!activate, Scope!Applied, Scope!Started, Scope!StartFails, Scope!StartRejected,
       Scope!dispose, Scope!FiberDisposed, Scope!Drained, Scope!TasksSettled, Scope!SettlementTimeout,
       Scope!Disposed, Scope!Disposing, Scope!TasksOK, Scope!FiberOK, Scope!StageOK, Scope!Begun, Scope!state, Scope!Running, Scope!Late, Scope!Activation
  <1>8. /\ v1[a].dispose = "done" => v1'[a].dispose = "done"
        /\ Scope!Begun(a) \/ ~Scope!Begun(a)' \/ v6.state = "open"
    BY <1>0 DEF Scope!activate, Scope!Applied, Scope!Started, Scope!StartFails, Scope!StartRejected,
       Scope!dispose, Scope!FiberDisposed, Scope!Drained, Scope!TasksSettled, Scope!SettlementTimeout,
       Scope!Disposed, Scope!Disposing, Scope!Begun, Scope!state, Scope!StageOK, Scope!Activation
  <1>9. Scope!TypeOK'
    BY <1>0, <1>1, <1>2, <1>3 DEF Scope!TypeOK
  <1> QED BY <1>3, <1>4, <1>5, <1>6, <1>7, <1>8, <1>9, ScopeLocal

(* Tasks come to an activation that is not disposed, and end.               *)
LEMMA ScopeTask ==
    ASSUME Scope!Inv, NEW a \in Scope!Activations, NEW t \in Scope!Tasks,
           Scope!track(a, t) \/ Scope!TaskSettles(a, t) \/ Scope!TaskRejects(a, t)
    PROVE  Scope!Inv'
  <1>0. /\ Scope!TypeOK /\ Scope!StageOK(a) /\ Scope!FiberOK(a) /\ Scope!TasksOK(a)
        /\ v1 \in [Scope!Activations -> Scope!Activation]
        /\ v4 \in [Scope!Activations -> [Scope!Tasks -> {"none", "running", "settled", "rejected"}]]
    BY DEF Scope!Inv, Scope!TypeOK
  <1>1. UNCHANGED <<v2, v3, v5, v6>>
    BY DEF Scope!track, Scope!TaskSettles, Scope!TaskRejects
  <1>2. PICK to \in {"running", "settled", "rejected"} :
           /\ v4' = [v4 EXCEPT ![a][t] = to]
           /\ v4[a][t] = IF to = "running" THEN "none" ELSE "running"
           /\ to = "running" => UNCHANGED v1 /\ v1[a].state \notin {"NONE", "DISPOSING", "DISPOSED"}
           /\ to = "rejected" \/ UNCHANGED v1
           /\ to = "rejected" =>
                 v1' = IF v1[a].state \in {"ACTIVATING", "ACTIVE"}
                       THEN [v1 EXCEPT ![a].state = "FAILED"] ELSE v1
    BY DEF Scope!track, Scope!TaskSettles, Scope!TaskRejects, Scope!state
  <1>3. v4' \in [Scope!Activations -> [Scope!Tasks -> {"none", "running", "settled", "rejected"}]]
    BY <1>0, <1>2
  <1>4. v4'[a][t] = to /\ \A u \in Scope!Tasks \ {t} : v4'[a][u] = v4[a][u]
    BY <1>0, <1>2
  <1>5. /\ v1' \in [Scope!Activations -> Scope!Activation]
        /\ v1'[a] = v1[a] \/ v1'[a] = [v1[a] EXCEPT !.state = "FAILED"]
        /\ to = "rejected" => v1'[a].state \notin {"ACTIVATING", "ACTIVE"}
        /\ v1[a].state \notin {"ACTIVATING", "ACTIVE"} => v1'[a] = v1[a]
    <2>1. CASE UNCHANGED v1 /\ (to = "rejected" => v1[a].state \notin {"ACTIVATING", "ACTIVE"})
      BY <1>0, <2>1
    <2>2. CASE v1' = [v1 EXCEPT ![a].state = "FAILED"] /\ v1[a].state \in {"ACTIVATING", "ACTIVE"}
      BY <1>0, <2>2 DEF Scope!Activation, Scope!States
    <2> QED BY <1>2, <2>1, <2>2
  <1>6. Scope!StageOK(a)'
    BY <1>0, <1>2, <1>4, <1>5 DEF Scope!StageOK, Scope!Activation
  <1>7. Scope!FiberOK(a)'
    BY <1>0, <1>1, <1>5 DEF Scope!FiberOK, Scope!Activation
  <1>8. Scope!TasksOK(a)'
    BY <1>0, <1>1, <1>2, <1>4, <1>5 DEF Scope!TasksOK, Scope!StageOK, Scope!Running, Scope!state, Scope!Activation
  <1>9. Scope!TypeOK'
    BY <1>0, <1>1, <1>3, <1>5 DEF Scope!TypeOK
  <1>10. /\ v1[a].dispose = "done" => v1'[a].dispose = "done"
         /\ Scope!Begun(a) \/ ~Scope!Begun(a)' \/ v6.state = "open"
         /\ \A b \in Scope!Activations \ {a} : v1'[b] = v1[b] /\ v4'[b] = v4[b]
    <2>1. v1' = v1 \/ v1' = [v1 EXCEPT ![a].state = "FAILED"]
      BY DEF Scope!track, Scope!TaskSettles, Scope!TaskRejects
    <2>2. v1[a].state = "NONE" => v1'[a] = v1[a]
      BY <1>5
    <2> QED BY <1>0, <1>2, <1>5, <2>1, <2>2 DEF Scope!Begun, Scope!state, Scope!Activation
  <1> QED BY <1>1, <1>6, <1>7, <1>8, <1>9, <1>10, ScopeLocal

(* Resources are held by the Fiber until it disposes them; one that comes   *)
(* too late is disposed by itself.  First, for whatever the step does to    *)
(* one resource q and to what the Fiber holds.                              *)
LEMMA ScopeOfResource ==
    ASSUME Scope!Inv, NEW a \in Scope!Activations, NEW q \in Scope!Resources,
           v1' \in [Scope!Activations -> Scope!Activation],
           v2' \in [Scope!Activations -> Scope!Fiber],
           v3' \in [Scope!Activations -> [Scope!Resources -> {"none", "held", "disposing", "late", "released"}]],
           UNCHANGED <<v4, v5, v6>>,
           \A b \in Scope!Activations \ {a} : v1'[b] = v1[b] /\ v2'[b] = v2[b] /\ v3'[b] = v3[b],
           /\ v1'[a].state = v1[a].state /\ v1'[a].start = v1[a].start /\ v1'[a].dispose = v1[a].dispose
           /\ v1'[a].cancelled = v1[a].cancelled /\ (v1[a].cause => v1'[a].cause),
           v2'[a].state = v2[a].state,
           \A p \in Scope!Resources \ {q} : v3'[a][p] = v3[a][p],
           v3'[a][q] \in {"held", "disposing"} => v2[a].state # "disposed",
           v3'[a][q] = "released" \/ v1[a].state # "DISPOSED",
           \A p \in Scope!Resources :
               v3'[a][p] = "held" => \E n \in 1..Len(v2'[a].effects) : v2'[a].effects[n] = p
    PROVE  Scope!Inv'
  <1>0. /\ Scope!TypeOK /\ Scope!StageOK(a) /\ Scope!FiberOK(a) /\ Scope!TasksOK(a)
        /\ v1 \in [Scope!Activations -> Scope!Activation]
    BY DEF Scope!Inv, Scope!TypeOK
  <1>1. Scope!StageOK(a)'
    BY <1>0 DEF Scope!StageOK
  <1>2. Scope!FiberOK(a)'
    BY <1>0 DEF Scope!FiberOK, Scope!Activation
  <1>3. Scope!TasksOK(a)'
    BY <1>0 DEF Scope!TasksOK, Scope!Running, Scope!state, Scope!Activation
  <1>4. Scope!TypeOK'
    BY <1>0 DEF Scope!TypeOK
  <1>5. /\ v1[a].dispose = "done" => v1'[a].dispose = "done"
        /\ Scope!Begun(a) \/ ~Scope!Begun(a)' \/ v6.state = "open"
    BY DEF Scope!Begun, Scope!state
  <1> QED BY <1>1, <1>2, <1>3, <1>4, <1>5, ScopeLocal

(* Facts about the two sequence operators that keep a Fiber's disposers.    *)
LEMMA Appended ==
    ASSUME NEW S, NEW s \in Seq(S), NEW x \in S
    PROVE  /\ Append(s, x) \in Seq(S)
           /\ \E n \in 1..Len(Append(s, x)) : Append(s, x)[n] = x
           /\ \A n \in 1..Len(s) : n \in 1..Len(Append(s, x)) /\ Append(s, x)[n] = s[n]
  <1>1. Append(s, x) \in Seq(S) /\ Len(Append(s, x)) = Len(s) + 1 /\ Len(s) \in Nat
    OBVIOUS
  <1>2. Append(s, x)[Len(s) + 1] = x /\ \A n \in 1..Len(s) : Append(s, x)[n] = s[n]
    OBVIOUS
  <1> QED BY <1>1, <1>2

(* A sequence without its last element keeps the others where they are.     *)
LEMMA WithoutLast ==
    ASSUME NEW S, NEW s \in Seq(S), s # <<>>
    PROVE  /\ SubSeq(s, 1, Len(s) - 1) \in Seq(S) /\ s[Len(s)] \in S
           /\ \A n \in 1..Len(s) :
                 \/ s[n] = s[Len(s)]
                 \/ n \in 1..Len(SubSeq(s, 1, Len(s) - 1)) /\ SubSeq(s, 1, Len(s) - 1)[n] = s[n]
  <1>1. Len(s) \in Nat /\ Len(s) > 0 /\ s[Len(s)] \in S
    OBVIOUS
  <1>2. SubSeq(s, 1, Len(s) - 1) \in Seq(S)
    BY <1>1, SubSeqProperties
  <1>3. /\ Len(SubSeq(s, 1, Len(s) - 1)) = Len(s) - 1
        /\ \A n \in 1..(Len(s) - 1) : SubSeq(s, 1, Len(s) - 1)[n] = s[n]
    <2>1. PICK k \in Nat : k = Len(s) - 1
      BY <1>1
    <2>2. \A n \in 1..k : s[n] \in S
      BY <1>1, <2>1
    <2>3. /\ Len(SubSeq(s, 1, k)) = IF 1 <= k THEN k - 1 + 1 ELSE 0
          /\ \A n \in 1..(k - 1 + 1) : SubSeq(s, 1, k)[n] = s[1 + n - 1]
      <3>1. 1 \in Int /\ k \in Int
        OBVIOUS
      <3> QED BY ONLY <2>2, <3>1, SubSeqProperties
    <2>4. Len(SubSeq(s, 1, k)) = k
      BY <2>3
    <2>5. ASSUME NEW n \in 1..k PROVE SubSeq(s, 1, k)[n] = s[n]
      <3>1. n \in 1..(k - 1 + 1) /\ 1 + n - 1 = n
        OBVIOUS
      <3> QED BY <2>3, <3>1
    <2> QED BY <2>1, <2>4, <2>5
  <1> QED BY <1>1, <1>2, <1>3

(* A resource is registered, acquired or released.                          *)
LEMMA ScopeResource ==
    ASSUME Scope!Inv, NEW a \in Scope!Activations, NEW r \in Scope!Resources,
           Scope!defer(a, r) \/ Scope!EffectBegins(a) \/ Scope!DisposerEnds(a, r)
    PROVE  Scope!Inv'
  <1>0. /\ Scope!FiberOK(a) /\ Scope!TasksOK(a)
        /\ v1 \in [Scope!Activations -> Scope!Activation]
        /\ v2 \in [Scope!Activations -> Scope!Fiber]
        /\ v2[a] \in Scope!Fiber /\ v2[a].effects \in Seq(Scope!Resources)
        /\ v3 \in [Scope!Activations -> [Scope!Resources -> {"none", "held", "disposing", "late", "released"}]]
    BY DEF Scope!Inv, Scope!TypeOK, Scope!Fiber
  <1>1. CASE Scope!DisposerEnds(a, r)
    <2>1. v1' = v1 \/ v1' = [v1 EXCEPT ![a].cause = TRUE]
      BY <1>1 DEF Scope!DisposerEnds
    <2>2. /\ v1' \in [Scope!Activations -> Scope!Activation]
          /\ \A b \in Scope!Activations \ {a} : v1'[b] = v1[b]
          /\ v1'[a].state = v1[a].state /\ v1'[a].start = v1[a].start /\ v1'[a].dispose = v1[a].dispose
          /\ v1'[a].cancelled = v1[a].cancelled /\ (v1[a].cause => v1'[a].cause)
      <3>1. CASE v1' = v1
        BY <1>0, <3>1
      <3>2. CASE v1' = [v1 EXCEPT ![a].cause = TRUE]
        <4>1. v1' \in [Scope!Activations -> Scope!Activation]
          BY <1>0, <3>2 DEF Scope!Activation
        <4>2. \A b \in Scope!Activations \ {a} : v1'[b] = v1[b]
          BY <1>0, <3>2
        <4>3. /\ v1'[a].state = v1[a].state /\ v1'[a].start = v1[a].start
              /\ v1'[a].dispose = v1[a].dispose /\ v1'[a].cancelled = v1[a].cancelled
          BY <1>0, <3>2 DEF Scope!Activation
        <4>4. v1'[a].cause
          BY <1>0, <3>2 DEF Scope!Activation
        <4> QED BY <4>1, <4>2, <4>3, <4>4
      <3> QED BY <2>1, <3>1, <3>2
    <2>3. v3' = [v3 EXCEPT ![a][r] = "released"] /\ UNCHANGED <<v2, v4, v5, v6>>
      BY <1>1 DEF Scope!DisposerEnds
    <2>4. /\ v3' \in [Scope!Activations -> [Scope!Resources -> {"none", "held", "disposing", "late", "released"}]]
          /\ \A b \in Scope!Activations \ {a} : v3'[b] = v3[b]
          /\ \A p \in Scope!Resources \ {r} : v3'[a][p] = v3[a][p]
          /\ v3'[a][r] = "released"
      BY <1>0, <2>3
    <2>5. \A p \in Scope!Resources :
             v3'[a][p] = "held" => \E n \in 1..Len(v2'[a].effects) : v2'[a].effects[n] = p
      BY <1>0, <2>3, <2>4 DEF Scope!FiberOK
    <2> QED BY <1>0, <2>2, <2>3, <2>4, <2>5, ScopeOfResource
  <1>2. CASE Scope!EffectBegins(a)
    <2>1. v2[a].effects # <<>> /\ v2[a].state = "disposing" /\ UNCHANGED <<v1, v4, v5, v6>>
      BY <1>2 DEF Scope!EffectBegins
    <2>2. PICK e : e = SubSeq(v2[a].effects, 1, Len(v2[a].effects) - 1)
      OBVIOUS
    <2>3. PICK q : q = v2[a].effects[Len(v2[a].effects)]
      OBVIOUS
    <2>4. /\ e \in Seq(Scope!Resources) /\ q \in Scope!Resources
          /\ \A n \in 1..Len(v2[a].effects) :
                v2[a].effects[n] = q \/ (n \in 1..Len(e) /\ e[n] = v2[a].effects[n])
      BY <1>0, <2>1, <2>2, <2>3, WithoutLast
    <2>5. v2' = [v2 EXCEPT ![a].effects = e] /\ v3' = [v3 EXCEPT ![a][q] = "disposing"]
      BY <1>0, <1>2, <2>2, <2>3 DEF Scope!EffectBegins, Scope!Last
    <2>6. /\ v3' \in [Scope!Activations -> [Scope!Resources -> {"none", "held", "disposing", "late", "released"}]]
          /\ \A b \in Scope!Activations \ {a} : v3'[b] = v3[b]
          /\ \A p \in Scope!Resources \ {q} : v3'[a][p] = v3[a][p]
          /\ v3'[a][q] = "disposing"
      BY <1>0, <2>4, <2>5
    <2>7. /\ v2' \in [Scope!Activations -> Scope!Fiber]
          /\ \A b \in Scope!Activations \ {a} : v2'[b] = v2[b]
          /\ v2'[a].effects = e /\ v2'[a].state = v2[a].state
      BY <1>0, <2>4, <2>5 DEF Scope!Fiber
    <2>8. v1[a].state # "DISPOSED"
      BY <1>0, <2>1 DEF Scope!TasksOK, Scope!FiberOK, Scope!state
    <2>9. ASSUME NEW p \in Scope!Resources, v3'[a][p] = "held"
        PROVE  \E n \in 1..Len(v2'[a].effects) : v2'[a].effects[n] = p
      <3>1. p # q /\ v3[a][p] = "held"
        BY <2>6, <2>9
      <3>2. PICK n \in 1..Len(v2[a].effects) : v2[a].effects[n] = p
        BY <1>0, <3>1 DEF Scope!FiberOK
      <3>3. n \in 1..Len(e) /\ e[n] = p
        BY <2>4, <3>1, <3>2
      <3> QED BY <2>7, <3>3
    <2> QED BY <1>0, <2>1, <2>4, <2>6, <2>7, <2>8, <2>9, ScopeOfResource
  <1>3. CASE Scope!defer(a, r)
    <2>1. v1[a].state # "DISPOSED" /\ UNCHANGED <<v1, v4, v5, v6>>
      BY <1>3 DEF Scope!defer, Scope!state
    <2>2. CASE v2[a].state = "active" /\ v3' = [v3 EXCEPT ![a][r] = "held"]
               /\ v2' = [v2 EXCEPT ![a].effects = Append(@, r)]
      <3>1. PICK e : e = Append(v2[a].effects, r)
        OBVIOUS
      <3>2. /\ e \in Seq(Scope!Resources) /\ \E n \in 1..Len(e) : e[n] = r
            /\ \A n \in 1..Len(v2[a].effects) : n \in 1..Len(e) /\ e[n] = v2[a].effects[n]
        BY <1>0, <3>1, Appended
      <3>3. v2' = [v2 EXCEPT ![a].effects = e]
        BY <1>0, <2>2, <3>1
      <3>4. /\ v3' \in [Scope!Activations -> [Scope!Resources -> {"none", "held", "disposing", "late", "released"}]]
            /\ \A b \in Scope!Activations \ {a} : v3'[b] = v3[b]
            /\ \A p \in Scope!Resources \ {r} : v3'[a][p] = v3[a][p]
            /\ v3'[a][r] = "held"
        BY <1>0, <2>2
      <3>5. /\ v2' \in [Scope!Activations -> Scope!Fiber]
            /\ \A b \in Scope!Activations \ {a} : v2'[b] = v2[b]
            /\ v2'[a].effects = e /\ v2'[a].state = v2[a].state
        BY <1>0, <3>2, <3>3 DEF Scope!Fiber
      <3>6. ASSUME NEW p \in Scope!Resources, v3'[a][p] = "held"
          PROVE  \E n \in 1..Len(v2'[a].effects) : v2'[a].effects[n] = p
        <4>1. CASE p = r
          BY <3>2, <3>5, <4>1
        <4>2. CASE p # r
          <5>1. v3[a][p] = "held"
            BY <3>4, <3>6, <4>2
          <5>2. PICK n \in 1..Len(v2[a].effects) : v2[a].effects[n] = p
            BY <1>0, <5>1 DEF Scope!FiberOK
          <5>3. n \in 1..Len(e) /\ e[n] = p
            BY <3>2, <5>2
          <5> QED BY <3>5, <5>3
        <4> QED BY <4>1, <4>2
      <3> QED BY <1>0, <2>1, <2>2, <3>4, <3>5, <3>6, ScopeOfResource
    <2>3. CASE v3' = [v3 EXCEPT ![a][r] = "late"] /\ UNCHANGED v2
      <3>1. /\ v3' \in [Scope!Activations -> [Scope!Resources -> {"none", "held", "disposing", "late", "released"}]]
            /\ \A b \in Scope!Activations \ {a} : v3'[b] = v3[b]
            /\ \A p \in Scope!Resources \ {r} : v3'[a][p] = v3[a][p]
            /\ v3'[a][r] = "late"
        BY <1>0, <2>3
      <3>2. \A p \in Scope!Resources :
               v3'[a][p] = "held" => \E n \in 1..Len(v2'[a].effects) : v2'[a].effects[n] = p
        BY <1>0, <2>3, <3>1 DEF Scope!FiberOK
      <3> QED BY <1>0, <2>1, <2>3, <3>1, <3>2, ScopeOfResource
    <2> QED BY <1>3, <2>2, <2>3 DEF Scope!defer
  <1> QED BY <1>1, <1>2, <1>3

(* close() takes the activations in reverse order, and passes none that has *)
(* begun and is not disposed.                                               *)
LEMMA ScopeClose ==
    ASSUME Scope!Inv, Scope!close \/ Scope!CloseNext \/ Scope!Closed
    PROVE  Scope!Inv'
  <1>0. /\ Scope!TypeOK /\ v6 \in [state : {"open", "closing", "closed"}, at : 0..MaxActivations]
        /\ v1 \in [Scope!Activations -> Scope!Activation]
        /\ v2 \in [Scope!Activations -> Scope!Fiber]
    BY DEF Scope!Inv, Scope!TypeOK
  <1>1. ASSUME UNCHANGED <<v1, v2, v3, v4, v5>>,
               v6' \in [state : {"open", "closing", "closed"}, at : 0..MaxActivations],
               v6'.state # "open" =>
                  \A a \in Scope!Activations : a > v6'.at /\ Scope!Begun(a) => v1[a].dispose = "done",
               v6'.state = "closed" => v6'.at = 0
        PROVE  Scope!Inv'
    <2>1. \A a \in Scope!Activations : (Scope!StageOK(a) /\ Scope!FiberOK(a) /\ Scope!TasksOK(a))'
      BY <1>1 DEF Scope!Inv, Scope!StageOK, Scope!FiberOK, Scope!TasksOK, Scope!state, Scope!Running
    <2>2. Scope!TypeOK'
      BY <1>0, <1>1 DEF Scope!TypeOK
    <2>3. \A a \in Scope!Activations : Scope!Begun(a)' <=> Scope!Begun(a)
      BY <1>1 DEF Scope!Begun, Scope!state
    <2> QED BY <1>1, <2>1, <2>2, <2>3 DEF Scope!Inv
  <1>2. CASE Scope!close
    BY <1>1, <1>2, ScopeAssumption DEF Scope!close, Scope!Activations
  <1>3. CASE Scope!Closed
    <2>1. /\ v6'.state = "closed" /\ v6'.at = v6.at /\ v6.at = 0 /\ v6.state = "closing"
          /\ v6' \in [state : {"open", "closing", "closed"}, at : 0..MaxActivations]
          /\ UNCHANGED <<v1, v2, v3, v4, v5>>
      BY <1>0, <1>3 DEF Scope!Closed
    <2> QED BY <1>1, <2>1 DEF Scope!Inv
  <1>4. CASE Scope!CloseNext /\ v6.at \notin Scope!Left
    <2>1. /\ v6'.state = "closing" /\ v6'.at = v6.at - 1 /\ v6.at > 0 /\ v6.state = "closing"
          /\ v6' \in [state : {"open", "closing", "closed"}, at : 0..MaxActivations]
          /\ UNCHANGED <<v1, v2, v3, v4, v5>>
      BY <1>0, <1>4, ScopeAssumption DEF Scope!CloseNext
    <2>2. v6.at \in Scope!Activations /\ v6.at \in Nat /\ v6'.at \in Nat
      BY <1>0, <2>1, ScopeAssumption DEF Scope!Activations
    <2>3. Scope!Begun(v6.at) => v1[v6.at].dispose = "done"
      BY <1>4, <2>2 DEF Scope!Left, Scope!Inv, Scope!StageOK, Scope!Begun, Scope!state
    <2>4. \A a \in Scope!Activations : a > v6'.at => a = v6.at \/ a > v6.at
      BY <2>1, <2>2 DEF Scope!Activations
    <2> QED BY <1>1, <2>1, <2>3, <2>4 DEF Scope!Inv
  <1>5. CASE Scope!CloseNext /\ v6.at \in Scope!Left
    <2>1. PICK a \in Scope!Activations : a = v6.at
      BY <1>5 DEF Scope!Left
    <2>2. /\ Scope!Begun(a) /\ v1[a].start # "none" /\ v1[a].dispose = "none"
          /\ Scope!Disposing(a) /\ UNCHANGED <<v3, v4, v5, v6>>
      BY <1>5, <2>1 DEF Scope!CloseNext, Scope!Left
    <2>3. v1' \in [Scope!Activations -> Scope!Activation]
      BY <1>0, <2>2 DEF Scope!Disposing, Scope!Activation, Scope!States
    <2>4. v2' \in [Scope!Activations -> Scope!Fiber]
      BY <1>0, <2>2 DEF Scope!Disposing, Scope!Fiber
    <2>5. Scope!TypeOK'
      BY <1>0, <2>2, <2>3, <2>4 DEF Scope!TypeOK
    <2>6. Scope!StageOK(a) /\ Scope!FiberOK(a) /\ Scope!TasksOK(a)
      BY DEF Scope!Inv
    <2>7. Scope!StageOK(a)'
      BY <1>0, <2>2, <2>6 DEF Scope!Disposing, Scope!StageOK, Scope!Begun, Scope!state, Scope!Activation
    <2>8. Scope!FiberOK(a)'
      BY <1>0, <2>2, <2>6 DEF Scope!Disposing, Scope!FiberOK, Scope!Activation, Scope!Fiber
    <2>9. Scope!TasksOK(a)'
      BY <1>0, <2>2, <2>6 DEF Scope!Disposing, Scope!TasksOK, Scope!state, Scope!Running, Scope!Activation
    <2>10. \A b \in Scope!Activations \ {a} : v1'[b] = v1[b] /\ v2'[b] = v2[b]
      BY <1>0, <2>2 DEF Scope!Disposing
    <2> QED BY <2>2, <2>5, <2>7, <2>8, <2>9, <2>10, ScopeLocal
  <1> QED BY <1>2, <1>3, <1>4, <1>5

(* Every step of an activation substrate keeps the invariant.               *)
LEMMA ScopeStep == Scope!Inv /\ [Scope!Next]_Scope!vars => Scope!Inv'
  <1> SUFFICES ASSUME Scope!Inv, [Scope!Next]_Scope!vars PROVE Scope!Inv'
    OBVIOUS
  <1>1. CASE UNCHANGED Scope!vars
    BY <1>1 DEF Scope!vars, Scope!Inv, Scope!TypeOK, Scope!StageOK, Scope!FiberOK, Scope!TasksOK,
       Scope!state, Scope!Running, Scope!Begun
  <1>2. ASSUME NEW a \in Scope!Activations, Scope!EffectBegins(a) PROVE Scope!Inv'
    <2>1. Scope!Resources # {}
      BY <1>2 DEF Scope!EffectBegins, Scope!Inv, Scope!TypeOK, Scope!Fiber
    <2> QED BY <1>2, <2>1, ScopeResource
  <1> QED BY <1>1, <1>2, ScopeStage, ScopeTask, ScopeResource, ScopeClose DEF Scope!Next

(* What the substrate promises follows.                                     *)
LEMMA ScopePromise == Scope!Inv => Scope!ScopeIsSettled
  <1> SUFFICES ASSUME Scope!Inv PROVE Scope!ScopeIsSettled
    OBVIOUS
  <1>1. Scope!TypeOK /\ v1 \in [Scope!Activations -> Scope!Activation]
    BY DEF Scope!Inv, Scope!TypeOK
  <1>2. Scope!DisposedIsClean
    BY <1>1 DEF Scope!Inv, Scope!DisposedIsClean, Scope!TasksOK, Scope!state
  <1>3. Scope!ActiveIsSound
    BY <1>1 DEF Scope!Inv, Scope!ActiveIsSound, Scope!StageOK, Scope!state
  <1>4. Scope!ClosedIsDisposed
    BY <1>1, ScopeAssumption DEF Scope!Inv, Scope!ClosedIsDisposed, Scope!Activations
  <1> QED BY <1>1, <1>2, <1>3, <1>4 DEF Scope!ScopeIsSettled

------------------------------------------------------------------------------
(* SubjectChat: v1 claimed, v2 conversation, v3 facts, v4 holder, v5 tx,     *)
(* v6 reader, v7 sends, v8 faults.                                          *)

(* Nobody has written, and the conversation is empty.                       *)
LEMMA ChatInit == Chat!Init => Chat!Inv
  <1> SUFFICES ASSUME Chat!Init PROVE Chat!Inv
    OBVIOUS
  <1>1. v5 \in [Chat!Writers -> Chat!Tx]
    BY DEF Chat!Init, Chat!Idle, Chat!Tx
  <1>2. v6 \in [Readers -> [at : {"idle", "reading"}, cursor : Nat, known : Nat, seen : SUBSET Nat]]
    BY DEF Chat!Init
  <1>3. /\ v1 \in BOOLEAN /\ v2 \in [exists : BOOLEAN, last : Nat] /\ v3 \subseteq Chat!Fact
        /\ v4 \in Chat!Writers \cup {None} /\ v7 \in 0..MaxSends /\ v8 \in 0..ChatFaults
    BY ChatAssumption DEF Chat!Init
  <1>4. Chat!TypeOK
    BY <1>1, <1>2, <1>3 DEF Chat!TypeOK
  <1>5. v3 = {} /\ v2.last = 0
    BY DEF Chat!Init
  <1>6. Chat!FactsOK
    BY <1>5 DEF Chat!FactsOK
  <1>7. \A w \in Chat!Writers : Chat!WriterOK(w)
    BY ChatAssumption DEF Chat!Init, Chat!Idle, Chat!WriterOK, Chat!Writers
  <1>8. \A a \in Senders : Chat!AnswerOK(a)
    BY ChatAssumption DEF Chat!Init, Chat!Idle, Chat!AnswerOK, Chat!Writers
  <1>9. ASSUME NEW r \in Readers PROVE Chat!ReaderOK(r)
    <2>1. v6[r].seen = 1..0 /\ v6[r].cursor <= 0
      BY DEF Chat!Init
    <2> QED BY <1>5, <2>1 DEF Chat!ReaderOK
  <1> QED BY <1>4, <1>6, <1>7, <1>8, <1>9 DEF Chat!Inv

(* A step of one writer that writes nothing keeps the invariant if it keeps *)
(* that writer's part and takes the row from nobody.                        *)
LEMMA ChatLocal ==
    ASSUME Chat!Inv, NEW w \in Chat!Writers,
           v5' \in [Chat!Writers -> Chat!Tx], \A v \in Chat!Writers \ {w} : v5'[v] = v5[v],
           UNCHANGED <<v1, v2, v3, v6>>,
           v4' = v4 \/ (v4' = w /\ v4 = None) \/ (v4' = None /\ v4 = w),
           v7' \in 0..MaxSends, v8' \in 0..ChatFaults,
           Chat!WriterOK(w)', w \in Senders => Chat!AnswerOK(w)'
    PROVE  Chat!Inv'
  <1>1. Chat!TypeOK'
    BY DEF Chat!Inv, Chat!TypeOK
  <1>2. Chat!FactsOK' /\ \A r \in Readers : Chat!ReaderOK(r)'
    BY DEF Chat!Inv, Chat!FactsOK, Chat!ReaderOK
  <1>3. ASSUME NEW v \in Chat!Writers \ {w} PROVE Chat!WriterOK(v)'
    <2>1. v4' = v <=> v4 = v
      BY ChatAssumption DEF Chat!Writers
    <2>2. Chat!WriterOK(v)
      BY DEF Chat!Inv
    <2> QED BY <2>1, <2>2 DEF Chat!WriterOK
  <1>4. \A a \in Senders \ {w} : Chat!AnswerOK(a)'
    BY DEF Chat!Inv, Chat!AnswerOK, Chat!Inbound, Chat!Writers
  <1> QED BY <1>1, <1>2, <1>3, <1>4 DEF Chat!Inv

(* A message is sent, the conversation looked up, and a reply begun.        *)
LEMMA ChatAsks ==
    ASSUME Chat!Inv, NEW w \in Chat!Writers,
           \/ w \in Senders /\ Chat!getConversationForAdministrator(w)
           \/ w \in Senders /\ \E k \in ClientKeys, c \in Inputs : Chat!sendSubjectChatMessage(w, k, c)
           \/ w \in Speakers /\ \E m \in Replies : Chat!materializeOutbound(w, m)
    PROVE  Chat!Inv'
  <1>0. /\ Chat!WriterOK(w) /\ (w \in Senders => Chat!AnswerOK(w))
        /\ v5 \in [Chat!Writers -> Chat!Tx] /\ v5[w] \in Chat!Tx
        /\ v7 \in 0..MaxSends /\ v8 \in 0..ChatFaults
    BY DEF Chat!Inv, Chat!TypeOK
  <1>1. CASE w \in Senders /\ Chat!getConversationForAdministrator(w)
    <2>1. PICK z \in {"found", "answered"}, y \in {None, "not_ready"} :
             /\ v5' = [v5 EXCEPT ![w].at = z, ![w].answer = y]
             /\ z = "found" => y = None
      <3>1. CASE v2.exists
        <4>1. v5' = [v5 EXCEPT ![w].at = "found"] /\ v5[w].answer = None
          BY <1>0, <1>1, <3>1 DEF Chat!getConversationForAdministrator, Chat!AnswerOK
        <4>2. v5' = [v5 EXCEPT ![w].at = "found", ![w].answer = None]
          BY <1>0, <4>1 DEF Chat!Tx
        <4> QED BY <4>2
      <3>2. CASE ~v2.exists
        BY <1>1, <3>2 DEF Chat!getConversationForAdministrator, Chat!Answered
      <3> QED BY <3>1, <3>2
    <2>2. v5' \in [Chat!Writers -> Chat!Tx] /\ \A v \in Chat!Writers \ {w} : v5'[v] = v5[v]
      <3>1. /\ v5[w].key \in ClientKeys \cup Replies \cup {None} /\ v5[w].content \in Inputs \cup {None} /\ v5[w].sequence \in Nat
        BY <1>0 DEF Chat!Tx
      <3> QED BY <1>0, <2>1, <3>1 DEF Chat!Tx
    <2>3. UNCHANGED <<v1, v2, v3, v4, v6, v7, v8>> /\ v5[w].at = "asked"
      BY <1>1 DEF Chat!getConversationForAdministrator
    <2>4. Chat!WriterOK(w)'
      BY <1>0, <1>1, <2>1, <2>3 DEF Chat!WriterOK, Chat!AnswerOK, Chat!Tx
    <2>5. Chat!AnswerOK(w)'
      BY <1>0, <1>1, <2>1, <2>3, ChatAssumption DEF Chat!AnswerOK, Chat!Tx
    <2> QED BY <1>0, <2>2, <2>3, <2>4, <2>5, ChatLocal
  <1>2. ASSUME w \in Senders, NEW k \in ClientKeys, NEW c \in Inputs, Chat!sendSubjectChatMessage(w, k, c)
        PROVE  Chat!Inv'
    <2>1. PICK x : x = [Chat!Idle EXCEPT !.at = "asked", !.key = k, !.content = c]
      OBVIOUS
    <2>2. x \in Chat!Tx /\ x.at = "asked" /\ x.key = k /\ x.content = c /\ x.answer = None
      BY <2>1 DEF Chat!Idle, Chat!Tx
    <2>3. v5' = [v5 EXCEPT ![w] = x]
      BY <1>2, <2>1 DEF Chat!sendSubjectChatMessage
    <2>4. v5' \in [Chat!Writers -> Chat!Tx] /\ v5'[w] = x /\ \A v \in Chat!Writers \ {w} : v5'[v] = v5[v]
      BY <1>0, <2>2, <2>3
    <2>5. /\ UNCHANGED <<v1, v2, v3, v4, v6, v8>> /\ v5[w].at \in {"idle", "answered"} /\ v7' \in 0..MaxSends
      <3>1. UNCHANGED <<v1, v2, v3, v4, v6, v8>> /\ v5[w].at \in {"idle", "answered"}
        BY <1>2 DEF Chat!sendSubjectChatMessage
      <3>2. v7 < MaxSends /\ v7' = v7 + 1
        BY <1>2 DEF Chat!sendSubjectChatMessage
      <3>3. v7' \in 0..MaxSends
        BY <1>0, <3>2, ChatAssumption
      <3> QED BY <3>1, <3>3
    <2>6. Chat!WriterOK(w)'
      BY <1>0, <2>2, <2>4, <2>5 DEF Chat!WriterOK
    <2>7. Chat!AnswerOK(w)'
      BY <2>2, <2>4, ChatAssumption DEF Chat!AnswerOK
    <2> QED BY <1>0, <2>4, <2>5, <2>6, <2>7, ChatLocal
  <1>3. ASSUME w \in Speakers, NEW m \in Replies, Chat!materializeOutbound(w, m)
        PROVE  Chat!Inv'
    <2>1. PICK z \in {"found", "answered"}, y \in {None, "EXISTING"} :
             v5' = [v5 EXCEPT ![w].key = m, ![w].at = z, ![w].answer = y]
      <3>1. CASE Chat!Outbound(m) = {}
        BY <1>0, <1>3, <3>1 DEF Chat!materializeOutbound
      <3>2. CASE Chat!Outbound(m) # {}
        BY <1>0, <1>3, <3>2 DEF Chat!materializeOutbound
      <3> QED BY <3>1, <3>2
    <2>2. v5' \in [Chat!Writers -> Chat!Tx] /\ \A v \in Chat!Writers \ {w} : v5'[v] = v5[v]
      BY <1>0, <2>1 DEF Chat!Tx
    <2>3. UNCHANGED <<v1, v2, v3, v4, v6, v7, v8>> /\ v5[w].at = "idle" /\ w \notin Senders
      BY <1>3, ChatAssumption DEF Chat!materializeOutbound
    <2>4. v5'[w].at = z /\ v5'[w].key = m
      BY <1>0, <2>1 DEF Chat!Tx
    <2>5. Chat!WriterOK(w)'
      BY <1>0, <2>3, <2>4 DEF Chat!WriterOK
    <2> QED BY <1>0, <2>2, <2>3, <2>5, ChatLocal
  <1> QED BY <1>1, <1>2, <1>3

(* A writer locks the row, finds out whether its key is taken, inserts, or  *)
(* gives up without having written.                                         *)
LEMMA ChatWorks ==
    ASSUME Chat!Inv, NEW w \in Chat!Writers,
           \/ Chat!Locks(w) \/ Chat!Inserts(w) \/ (w \in Senders /\ Chat!readInboundByClientId(w))
           \/ Chat!TransactionFails(w) /\ UNCHANGED <<v2, v3>>
    PROVE  Chat!Inv'
  <1>0. /\ Chat!WriterOK(w) /\ (w \in Senders => Chat!AnswerOK(w)) /\ Chat!FactsOK
        /\ v5 \in [Chat!Writers -> Chat!Tx] /\ v5[w] \in Chat!Tx
        /\ v2.last \in Nat /\ v3 \subseteq Chat!Fact /\ w # None
        /\ v7 \in 0..MaxSends /\ v8 \in 0..ChatFaults
    BY ChatAssumption DEF Chat!Inv, Chat!TypeOK, Chat!Writers
  <1>1. UNCHANGED <<v1, v2, v3, v6, v7>> /\ v8' \in 0..ChatFaults
    <2>1. UNCHANGED <<v1, v2, v3, v6, v7>> /\ (UNCHANGED v8 \/ (v8 < ChatFaults /\ v8' = v8 + 1))
      <3>1. CASE Chat!TransactionFails(w) /\ UNCHANGED <<v2, v3>>
        <4>1. UNCHANGED <<v1, v6, v7>> /\ v8 < ChatFaults /\ v8' = v8 + 1
          BY <3>1 DEF Chat!TransactionFails
        <4> QED BY <3>1, <4>1
      <3>2. CASE Chat!Locks(w)
        BY <3>2 DEF Chat!Locks
      <3>3. CASE Chat!Inserts(w)
        BY <3>3 DEF Chat!Inserts
      <3>4. CASE Chat!readInboundByClientId(w)
        BY <3>4 DEF Chat!readInboundByClientId
      <3> QED BY <3>1, <3>2, <3>3, <3>4
    <2> QED BY <1>0, <2>1, ChatAssumption
  <1>2. ASSUME v5' \in [Chat!Writers -> Chat!Tx], \A v \in Chat!Writers \ {w} : v5'[v] = v5[v],
               v5'[w].key = v5[w].key /\ v5'[w].content = v5[w].content, v5[w].at # "idle",
               v5'[w].at \in {"locked", "numbered", "inserted", "answered"},
               \/ v5'[w].at = "answered" /\ v4' = IF v4 = w THEN None ELSE v4
               \/ /\ v5'[w].at # "answered" /\ v4' = w /\ v4 \in {w, None}
                  /\ v5'[w].sequence = v2.last + 1 /\ v5[w].at \in {"found", "locked", "numbered"}
                  /\ v5'[w].at = "numbered" => w \in Senders
                  /\ v5'[w].at \in {"numbered", "inserted"} => \A f \in v3 : f.key # v5[w].key,
               w \in Senders =>
                  LET y == v5'[w].answer IN
                  /\ v5'[w].at # "answered" => y = None
                  /\ y # "duplicate" /\ y # "ACCEPTED"
                  /\ y = "EXISTING" => \E f \in Chat!Inbound(v5[w].key) : f.content = v5[w].content
                  /\ y = "conflict" => \E f \in Chat!Inbound(v5[w].key) : f.content # v5[w].content
        PROVE  Chat!Inv'
    <2>1. Chat!WriterOK(w)'
      BY <1>0, <1>1, <1>2 DEF Chat!WriterOK
    <2>2. w \in Senders => Chat!AnswerOK(w)'
      BY <1>0, <1>1, <1>2, ChatAssumption DEF Chat!AnswerOK, Chat!Inbound
    <2>3. v4' = v4 \/ (v4' = w /\ v4 = None) \/ (v4' = None /\ v4 = w)
      BY <1>2
    <2> QED BY <1>0, <1>1, <1>2, <2>1, <2>2, <2>3, ChatLocal
  <1>3. CASE Chat!Locks(w)
    <2>1. v5' = [v5 EXCEPT ![w].at = "locked", ![w].sequence = v2.last + 1]
          /\ v4 = None /\ v4' = w /\ v5[w].at = "found"
      BY <1>3 DEF Chat!Locks
    <2>2. /\ v5' \in [Chat!Writers -> Chat!Tx] /\ \A v \in Chat!Writers \ {w} : v5'[v] = v5[v]
          /\ v5'[w].at = "locked" /\ v5'[w].sequence = v2.last + 1
          /\ v5'[w].key = v5[w].key /\ v5'[w].content = v5[w].content /\ v5'[w].answer = v5[w].answer
      <3>1. PICK n \in Nat : n = v2.last + 1
        BY <1>0
      <3>2. v5' = [v5 EXCEPT ![w].at = "locked", ![w].sequence = n]
        BY <2>1, <3>1
      <3> QED BY <1>0, <3>1, <3>2 DEF Chat!Tx
    <2>3. w \in Senders => v5'[w].answer = None
      BY <1>0, <2>1, <2>2 DEF Chat!AnswerOK
    <2> QED BY <1>2, <2>1, <2>2, <2>3, ChatAssumption
  <1>4. ASSUME v5[w].at # "idle", Chat!Unlocked(w), NEW y \in {"EXISTING", "conflict", "duplicate", "failed"},
               Chat!Answered(w, y),
               w \in Senders =>
                  /\ y # "duplicate"
                  /\ y = "EXISTING" => \E f \in Chat!Inbound(v5[w].key) : f.content = v5[w].content
                  /\ y = "conflict" => \E f \in Chat!Inbound(v5[w].key) : f.content # v5[w].content
        PROVE  Chat!Inv'
    <2>1. /\ v5' \in [Chat!Writers -> Chat!Tx] /\ \A v \in Chat!Writers \ {w} : v5'[v] = v5[v]
          /\ v5'[w].at = "answered" /\ v5'[w].key = v5[w].key /\ v5'[w].content = v5[w].content /\ v5'[w].answer = y
      BY <1>0, <1>4 DEF Chat!Answered, Chat!Tx
    <2>2. v4' = IF v4 = w THEN None ELSE v4
      BY <1>4 DEF Chat!Unlocked
    <2> QED BY <1>2, <1>4, <2>1, <2>2
  <1>5. CASE w \in Senders /\ Chat!readInboundByClientId(w)
    <2>1. CASE Chat!Inbound(v5[w].key) = {}
      <3>1. v5' = [v5 EXCEPT ![w].at = "numbered"] /\ v4' = v4 /\ v5[w].at = "locked"
        BY <1>5, <2>1 DEF Chat!readInboundByClientId
      <3>2. /\ v5' \in [Chat!Writers -> Chat!Tx] /\ \A v \in Chat!Writers \ {w} : v5'[v] = v5[v]
            /\ v5'[w].at = "numbered" /\ v5'[w].sequence = v5[w].sequence
            /\ v5'[w].key = v5[w].key /\ v5'[w].content = v5[w].content /\ v5'[w].answer = v5[w].answer
        BY <1>0, <3>1 DEF Chat!Tx
      <3>3. v4 = w /\ v5[w].sequence = v2.last + 1 /\ v5[w].answer = None /\ v5[w].key \in ClientKeys
        BY <1>0, <1>5, <3>1 DEF Chat!AnswerOK, Chat!WriterOK
      <3>4. \A f \in v3 : f.key # v5[w].key
        BY <1>0, <2>1, <3>3 DEF Chat!Inbound, Chat!FactsOK
      <3> QED BY <1>2, <1>5, <3>1, <3>2, <3>3, <3>4, ChatAssumption
    <2>2. CASE Chat!Inbound(v5[w].key) # {}
      <3>1. PICK f \in Chat!Inbound(v5[w].key) :
               Chat!Answered(w, IF f.content = v5[w].content THEN "EXISTING" ELSE "conflict")
        BY <1>5, <2>2 DEF Chat!readInboundByClientId
      <3>2. Chat!Unlocked(w) /\ v5[w].at = "locked"
        BY <1>5, <2>2 DEF Chat!readInboundByClientId
      <3>3. CASE f.content = v5[w].content
        BY <1>4, <3>1, <3>2, <3>3
      <3>4. CASE f.content # v5[w].content
        BY <1>4, <3>1, <3>2, <3>4
      <3> QED BY <3>3, <3>4
    <2> QED BY <2>1, <2>2
  <1>6. CASE Chat!Inserts(w)
    <2>0. v5[w].at = IF w \in Senders THEN "numbered" ELSE "locked"
      BY <1>6 DEF Chat!Inserts
    <2>1. v4 = w /\ v5[w].sequence = v2.last + 1 /\ (w \in Senders => v5[w].answer = None)
      BY <1>0, <2>0 DEF Chat!WriterOK, Chat!AnswerOK
    <2>2. \A f \in v3 : f.sequence # v5[w].sequence
      BY <1>0, <2>1 DEF Chat!FactsOK, Chat!Fact
    <2>3. CASE \E f \in v3 : Chat!SameIndex(w, f)
      <3>1. Chat!Answered(w, "duplicate") /\ Chat!Unlocked(w)
        BY <1>6, <2>3 DEF Chat!Inserts
      <3>2. w \notin Senders
        BY <1>0, <2>0, <2>2, <2>3 DEF Chat!SameIndex, Chat!WriterOK
      <3> QED BY <1>4, <2>0, <3>1, <3>2
    <2>4. CASE ~\E f \in v3 : Chat!SameIndex(w, f)
      <3>1. v5' = [v5 EXCEPT ![w].at = "inserted"] /\ v4' = v4
        BY <1>6, <2>4 DEF Chat!Inserts
      <3>2. /\ v5' \in [Chat!Writers -> Chat!Tx] /\ \A v \in Chat!Writers \ {w} : v5'[v] = v5[v]
            /\ v5'[w].at = "inserted" /\ v5'[w].sequence = v5[w].sequence
            /\ v5'[w].key = v5[w].key /\ v5'[w].content = v5[w].content /\ v5'[w].answer = v5[w].answer
        BY <1>0, <3>1 DEF Chat!Tx
      <3>3. \A f \in v3 : f.key # v5[w].key
        BY <2>4 DEF Chat!SameIndex
      <3> QED BY <1>2, <2>0, <2>1, <3>1, <3>2, <3>3, ChatAssumption
    <2> QED BY <2>3, <2>4
  <1>7. CASE Chat!TransactionFails(w) /\ UNCHANGED <<v2, v3>>
    <2>1. Chat!Answered(w, "failed") /\ v5[w].at \in {"found", "locked", "numbered", "inserted"} /\ Chat!Unlocked(w)
      BY <1>7 DEF Chat!TransactionFails, Chat!Written
    <2> QED BY <1>4, <2>1
  <1> QED BY <1>3, <1>5, <1>6, <1>7

(* The writer that holds the row writes its fact with the next number.      *)
LEMMA ChatWrites ==
    ASSUME Chat!Inv, NEW w \in Chat!Writers, v5[w].at = "inserted", Chat!Written(w),
           UNCHANGED <<v1, v6, v7>>, v8' \in 0..ChatFaults,
           NEW y \in {"ACCEPTED", "failed"}, Chat!Answered(w, y)
    PROVE  Chat!Inv'
  <1>0. /\ Chat!WriterOK(w) /\ (w \in Senders => Chat!AnswerOK(w)) /\ Chat!FactsOK
        /\ v5 \in [Chat!Writers -> Chat!Tx] /\ v5[w] \in Chat!Tx
        /\ v2 \in [exists : BOOLEAN, last : Nat] /\ v2.last \in Nat /\ v3 \subseteq Chat!Fact /\ w # None
        /\ v7 \in 0..MaxSends
    BY ChatAssumption DEF Chat!Inv, Chat!TypeOK, Chat!Writers
  <1>1. /\ v4 = w /\ v5[w].sequence = v2.last + 1 /\ \A f \in v3 : f.key # v5[w].key
        /\ v5[w].key \in IF w \in Senders THEN ClientKeys ELSE Replies
    BY <1>0 DEF Chat!WriterOK
  <1>2. PICK new : new = Chat!FactOf(w)
    OBVIOUS
  <1>3. /\ new.sequence = v2.last + 1 /\ new.key = v5[w].key /\ new.content = v5[w].content
        /\ new.direction = IF w \in Senders THEN "INBOUND" ELSE "OUTBOUND"
    BY <1>1, <1>2 DEF Chat!FactOf
  <1>4. new \in Chat!Fact
    <2>1. v5[w].key \in ClientKeys \cup Replies /\ v5[w].content \in Inputs \cup {None} /\ v5[w].sequence \in Nat \ {0}
      BY <1>0, <1>1 DEF Chat!Tx
    <2> QED BY <1>2, <2>1 DEF Chat!FactOf, Chat!Fact
  <1>5. v3' = v3 \cup {new} /\ v4' = None
    BY <1>1, <1>2 DEF Chat!Written, Chat!Unlocked
  <1>6. v2' \in [exists : BOOLEAN, last : Nat] /\ v2'.last = v2.last + 1
    <2>1. v2' = [v2 EXCEPT !.last = v2.last + 1]
      BY <1>1 DEF Chat!Written
    <2> QED BY <1>0, <2>1
  <1>7. /\ v5' \in [Chat!Writers -> Chat!Tx] /\ \A v \in Chat!Writers \ {w} : v5'[v] = v5[v]
        /\ v5'[w].at = "answered" /\ v5'[w].key = v5[w].key /\ v5'[w].content = v5[w].content /\ v5'[w].answer = y
    BY <1>0 DEF Chat!Answered, Chat!Tx
  <1>8. Chat!TypeOK'
    BY <1>0, <1>4, <1>5, <1>6, <1>7 DEF Chat!Inv, Chat!TypeOK
  <1>9. Chat!FactsOK'
    <2>1. \A f \in v3' : f.sequence <= v2'.last
      BY <1>0, <1>3, <1>5, <1>6 DEF Chat!FactsOK, Chat!Fact
    <2>2. \A n \in 1..v2'.last : \E f \in v3' : f.sequence = n
      BY <1>0, <1>3, <1>5, <1>6 DEF Chat!FactsOK
    <2>3. \A f \in v3 : f.sequence # new.sequence /\ f.key # new.key
      BY <1>0, <1>1, <1>3 DEF Chat!FactsOK, Chat!Fact
    <2>4. \A f, g \in v3' : f.sequence = g.sequence \/ f.key = g.key => f = g
      BY <1>0, <1>5, <2>3 DEF Chat!FactsOK
    <2>5. \A f \in v3' : f.direction = "INBOUND" <=> f.key \in ClientKeys
      BY <1>0, <1>1, <1>3, <1>5, ChatAssumption DEF Chat!FactsOK
    <2> QED BY <2>1, <2>2, <2>4, <2>5 DEF Chat!FactsOK
  <1>10. \A r \in Readers : Chat!ReaderOK(r)'
    <2>1. v6' = v6 /\ \A r \in Readers : Chat!ReaderOK(r)
      BY DEF Chat!Inv
    <2> QED BY <1>0, <1>6, <2>1 DEF Chat!ReaderOK
  <1>11. ASSUME NEW v \in Chat!Writers PROVE Chat!WriterOK(v)'
    <2>1. CASE v = w
      BY <1>0, <1>5, <1>7, <2>1 DEF Chat!WriterOK
    <2>2. CASE v # w
      <3>1. v5'[v] = v5[v] /\ v5[v].at \notin {"locked", "numbered", "inserted"} /\ Chat!WriterOK(v) /\ v # None
        BY <1>1, <1>7, <2>2, ChatAssumption DEF Chat!Inv, Chat!WriterOK, Chat!Writers
      <3> QED BY <1>5, <3>1 DEF Chat!WriterOK
    <2> QED BY <2>1, <2>2
  <1>12. ASSUME NEW a \in Senders PROVE Chat!AnswerOK(a)'
    <2>1. \A k : Chat!Inbound(k) \subseteq Chat!Inbound(k)'
      BY <1>5 DEF Chat!Inbound
    <2>2. CASE a = w
      <3>1. new \in v3' /\ new.direction = "INBOUND" /\ new.key = v5'[a].key /\ new.content = v5'[a].content
        BY <1>3, <1>5, <1>7, <2>2
      <3>2. \E f \in Chat!Inbound(v5[a].key)' : f.content = v5'[a].content
        BY <3>1 DEF Chat!Inbound
      <3>3. v5'[a].answer = y /\ v5'[a].at = "answered" /\ y # "EXISTING" /\ y # "conflict" /\ y # "duplicate"
        BY <1>7, <2>2
      <3>4. v5'[a].key \in ClientKeys /\ v5'[a].content \in Inputs
        BY <1>0, <1>7, <2>2 DEF Chat!AnswerOK
      <3> QED BY <3>2, <3>3, <3>4 DEF Chat!AnswerOK
    <2>3. CASE a # w
      <3>1. v5'[a] = v5[a] /\ Chat!AnswerOK(a)
        BY <1>7, <2>3 DEF Chat!Inv, Chat!Writers
      <3> QED BY <2>1, <3>1 DEF Chat!AnswerOK, Chat!Inbound
    <2> QED BY <2>2, <2>3
  <1> QED BY <1>8, <1>9, <1>10, <1>11, <1>12 DEF Chat!Inv

(* The instance's Cardinality is the library's.                             *)
LEMMA ChatCardinality == \A S : Chat!Cardinality(S) = Cardinality(S)
  BY DEF Chat!Cardinality, Cardinality

(* The facts between two numbers are as many as the numbers between them.   *)
LEMMA Between ==
    ASSUME Chat!FactsOK, v3 \subseteq Chat!Fact, v2.last \in Nat,
           NEW k \in Nat, NEW n \in 1..v2.last, k < n
    PROVE  Cardinality({f \in v3 : f.sequence > k /\ f.sequence < n}) = n - 1 - k
  <1> DEFINE F == {f \in v3 : f.sequence > k /\ f.sequence < n}
  <1> DEFINE b == [i \in (k + 1)..(n - 1) |-> CHOOSE f \in F : f.sequence = i]
  <1>1. ASSUME NEW i \in (k + 1)..(n - 1) PROVE b[i] \in F /\ b[i].sequence = i
    <2>1. i \in 1..v2.last /\ i > k /\ i < n
      OBVIOUS
    <2>2. \E f \in v3 : f.sequence = i
      BY <2>1 DEF Chat!FactsOK
    <2>3. \E f \in F : f.sequence = i
      BY <2>1, <2>2
    <2> QED BY <2>3
  <1>2. b \in [(k + 1)..(n - 1) -> F]
    BY <1>1
  <1>3. \A i, j \in (k + 1)..(n - 1) : b[i] = b[j] => i = j
    BY <1>1
  <1>4. ASSUME NEW f \in F PROVE \E i \in (k + 1)..(n - 1) : b[i] = f
    <2>1. f.sequence \in (k + 1)..(n - 1)
      BY DEF Chat!Fact
    <2>2. b[f.sequence] \in F /\ b[f.sequence].sequence = f.sequence
      BY <1>1, <2>1
    <2>3. b[f.sequence] = f
      BY <2>2 DEF Chat!FactsOK
    <2> QED BY <2>1, <2>3
  <1>5. ExistsBijection((k + 1)..(n - 1), F)
    <2>1. b \in Bijection((k + 1)..(n - 1), F)
      BY <1>2, <1>3, <1>4 DEF Bijection, Injection, Surjection, IsInjective
    <2> QED BY <2>1 DEF ExistsBijection
  <1>6. /\ IsFiniteSet((k + 1)..(n - 1))
        /\ Cardinality((k + 1)..(n - 1)) = IF k + 1 > n - 1 THEN 0 ELSE (n - 1) - (k + 1) + 1
    <2>1. k + 1 \in Int /\ n - 1 \in Int
      OBVIOUS
    <2> QED BY <2>1, FS_Interval
  <1>7. Cardinality(F) = Cardinality((k + 1)..(n - 1))
    BY <1>5, <1>6, FS_Bijection
  <1> QED BY <1>6, <1>7

(* A page after k is the Limit numbers that follow, or those there are.     *)
LEMMA PageIs ==
    ASSUME Chat!FactsOK, v3 \subseteq Chat!Fact, v2.last \in Nat, NEW k \in 0..v2.last
    PROVE  \E m \in k..v2.last :
              /\ Chat!Page(k) = (k + 1)..m
              /\ Cardinality(Chat!Page(k)) = m - k /\ m - k <= Limit
  <1>1. PICK m \in k..v2.last : m = IF k + Limit <= v2.last THEN k + Limit ELSE v2.last
    BY ChatAssumption
  <1>2. {f.sequence : f \in v3} = 1..v2.last
    BY DEF Chat!FactsOK, Chat!Fact
  <1>3. ASSUME NEW n \in 1..v2.last, n > k
        PROVE  n \in Chat!Page(k) <=> n <= m
    <2>1. Chat!Cardinality({f \in v3 : f.sequence > k /\ f.sequence < n}) = n - 1 - k
      BY <1>3, Between, ChatCardinality
    <2>2. n \in Chat!Page(k) <=> n - 1 - k < Limit
      BY <1>2, <1>3, <2>1 DEF Chat!Page
    <2> QED BY <1>1, <1>3, <2>2, ChatAssumption
  <1>4. Chat!Page(k) \subseteq 1..v2.last /\ \A n \in Chat!Page(k) : n > k
    BY <1>2 DEF Chat!Page
  <1>5. Chat!Page(k) = (k + 1)..m
    <2>1. ASSUME NEW i \in Chat!Page(k) PROVE i \in (k + 1)..m
      BY <1>3, <1>4
    <2>2. ASSUME NEW i \in (k + 1)..m PROVE i \in Chat!Page(k)
      <3>1. i \in 1..v2.last /\ i > k /\ i <= m
        BY <1>1
      <3> QED BY <1>3, <3>1
    <2> QED BY <2>1, <2>2
  <1>6. Cardinality((k + 1)..m) = m - k
    <2>1. k + 1 \in Int /\ m \in Int /\ k \in Int /\ k <= m
      OBVIOUS
    <2>2. Cardinality((k + 1)..m) = IF k + 1 > m THEN 0 ELSE m - (k + 1) + 1
      BY <2>1, FS_Interval
    <2> QED BY <2>1, <2>2
  <1> QED BY <1>1, <1>5, <1>6, ChatAssumption

(* A page that is read continues what the reader has seen.                  *)
LEMMA ChatReads ==
    ASSUME Chat!Inv, NEW r \in Readers, Chat!listSubjectChatMessages(r) \/ Chat!readMessagesPage(r)
    PROVE  Chat!Inv'
  <1>0. /\ Chat!FactsOK /\ Chat!ReaderOK(r) /\ v2.last \in Nat /\ v3 \subseteq Chat!Fact
        /\ v6 \in [Readers -> [at : {"idle", "reading"}, cursor : Nat, known : Nat, seen : SUBSET Nat]]
    BY DEF Chat!Inv, Chat!TypeOK
  <1>1. UNCHANGED <<v1, v2, v3, v4, v5, v7, v8>>
    BY DEF Chat!listSubjectChatMessages, Chat!readMessagesPage
  <1>2. ASSUME v6' \in [Readers -> [at : {"idle", "reading"}, cursor : Nat, known : Nat, seen : SUBSET Nat]],
               \A q \in Readers \ {r} : v6'[q] = v6[q], Chat!ReaderOK(r)'
        PROVE  Chat!Inv'
    <2>1. Chat!TypeOK'
      BY <1>1, <1>2 DEF Chat!Inv, Chat!TypeOK
    <2>2. Chat!FactsOK'
      BY <1>1 DEF Chat!Inv, Chat!FactsOK
    <2>3. \A w \in Chat!Writers : Chat!WriterOK(w)'
      BY <1>1 DEF Chat!Inv, Chat!WriterOK
    <2>4. \A a \in Senders : Chat!AnswerOK(a)'
      BY <1>1 DEF Chat!Inv, Chat!AnswerOK, Chat!Inbound
    <2>5. \A q \in Readers : Chat!ReaderOK(q)'
      BY <1>1, <1>2 DEF Chat!Inv, Chat!ReaderOK
    <2> QED BY <2>1, <2>2, <2>3, <2>4, <2>5 DEF Chat!Inv
  <1>3. CASE Chat!listSubjectChatMessages(r)
    <2>1. v6' = [v6 EXCEPT ![r].at = "reading", ![r].known = v2.last]
      BY <1>3 DEF Chat!listSubjectChatMessages
    <2>2. /\ v6' \in [Readers -> [at : {"idle", "reading"}, cursor : Nat, known : Nat, seen : SUBSET Nat]]
          /\ \A q \in Readers \ {r} : v6'[q] = v6[q]
          /\ v6'[r].seen = v6[r].seen /\ v6'[r].cursor = v6[r].cursor
      BY <1>0, <2>1
    <2> QED BY <1>0, <1>1, <1>2, <2>2 DEF Chat!ReaderOK
  <1>4. CASE Chat!readMessagesPage(r)
    <2>1. PICK n \in 0..v2.last : v6[r].seen = 1..n /\ v6[r].cursor <= n
      BY <1>0 DEF Chat!ReaderOK
    <2>2. PICK k \in 0..v2.last : k = v6[r].cursor
      BY <1>0, <2>1
    <2>3. PICK m \in k..v2.last :
             /\ Chat!Page(k) = (k + 1)..m
             /\ Cardinality(Chat!Page(k)) = m - k /\ m - k <= Limit
      BY <1>0, PageIs
    <2>4. PICK next : next = Chat!nextCursor(r)
      OBVIOUS
    <2>5. next \in {k, m}
      <3>1. CASE Cardinality(Chat!Page(k)) = Limit
        <4>1. m \in Chat!Page(k) /\ \A i \in Chat!Page(k) : i <= m
          BY <2>3, <3>1, ChatAssumption
        <4>2. \A j \in Chat!Page(k) : (\A i \in Chat!Page(k) : i <= j) => j = m
          BY <2>3, <4>1
        <4>3. (CHOOSE j \in Chat!Page(k) : \A i \in Chat!Page(k) : i <= j) = m
          BY <4>1, <4>2
        <4>4. next = CHOOSE j \in Chat!Page(k) : \A i \in Chat!Page(k) : i <= j
          BY <2>2, <2>4, <3>1, ChatCardinality DEF Chat!nextCursor
        <4> QED BY <4>3, <4>4
      <3>2. CASE Cardinality(Chat!Page(k)) # Limit
        BY <2>2, <2>4, <3>2, ChatCardinality DEF Chat!nextCursor
      <3> QED BY <3>1, <3>2
    <2>6. PICK s : s = v6[r].seen \cup Chat!Page(k)
      OBVIOUS
    <2>7. PICK o \in 0..v2.last : s = 1..o /\ next <= o
      <3>1. CASE m <= n
        <4>1. s = 1..n
          BY <2>1, <2>2, <2>3, <2>6, <3>1
        <4> QED BY <2>1, <2>2, <2>3, <2>5, <3>1, <4>1
      <3>2. CASE n < m
        <4>1. s = 1..m
          BY <2>1, <2>2, <2>3, <2>6, <3>2
        <4> QED BY <2>1, <2>2, <2>3, <2>5, <3>2, <4>1
      <3> QED BY <2>1, <2>3, <3>1, <3>2
    <2>8. v6' = [v6 EXCEPT ![r].at = "idle", ![r].cursor = next, ![r].seen = s]
      BY <1>4, <2>2, <2>4, <2>6 DEF Chat!readMessagesPage
    <2>9. next \in Nat /\ s \in SUBSET Nat
      BY <1>0, <2>5, <2>7
    <2>10. /\ v6' \in [Readers -> [at : {"idle", "reading"}, cursor : Nat, known : Nat, seen : SUBSET Nat]]
           /\ \A q \in Readers \ {r} : v6'[q] = v6[q]
           /\ v6'[r].seen = s /\ v6'[r].cursor = next
      BY <1>0, <2>8, <2>9
    <2>11. Chat!ReaderOK(r)'
      BY <1>1, <2>7, <2>10 DEF Chat!ReaderOK
    <2> QED BY <1>2, <2>10, <2>11
  <1> QED BY <1>3, <1>4

(* Every step of a conversation keeps the invariant.                        *)
LEMMA ChatStep == Chat!Inv /\ [Chat!Next]_Chat!vars => Chat!Inv'
  <1> SUFFICES ASSUME Chat!Inv, [Chat!Next]_Chat!vars PROVE Chat!Inv'
    OBVIOUS
  <1>1. ASSUME UNCHANGED <<v3, v4, v5, v6, v7, v8>>, v1' \in BOOLEAN,
               v2' \in [exists : BOOLEAN, last : Nat], v2'.last = v2.last
        PROVE  Chat!Inv'
    <2>1. Chat!TypeOK'
      BY <1>1 DEF Chat!Inv, Chat!TypeOK
    <2>2. Chat!FactsOK'
      BY <1>1 DEF Chat!Inv, Chat!FactsOK
    <2>3. \A w \in Chat!Writers : Chat!WriterOK(w)'
      BY <1>1 DEF Chat!Inv, Chat!WriterOK
    <2>4. \A a \in Senders : Chat!AnswerOK(a)'
      BY <1>1 DEF Chat!Inv, Chat!AnswerOK, Chat!Inbound
    <2>5. \A q \in Readers : Chat!ReaderOK(q)'
      BY <1>1 DEF Chat!Inv, Chat!ReaderOK
    <2> QED BY <2>1, <2>2, <2>3, <2>4, <2>5 DEF Chat!Inv
  <1>2. v1 \in BOOLEAN /\ v2 \in [exists : BOOLEAN, last : Nat] /\ v8 \in 0..ChatFaults
    BY DEF Chat!Inv, Chat!TypeOK
  <1>3. CASE UNCHANGED Chat!vars
    BY <1>1, <1>2, <1>3 DEF Chat!vars
  <1>4. CASE Chat!administratorClaimed
    <2>1. UNCHANGED <<v2, v3, v4, v5, v6, v7, v8>> /\ v1' \in BOOLEAN
      BY <1>4 DEF Chat!administratorClaimed
    <2> QED BY <1>1, <1>2, <2>1
  <1>5. CASE Chat!ensureCurrentConversation
    <2>1. UNCHANGED <<v1, v3, v4, v5, v6, v7, v8>> /\ v2' = [v2 EXCEPT !.exists = TRUE]
      BY <1>5 DEF Chat!ensureCurrentConversation, Chat!Materialized
    <2>2. v2' \in [exists : BOOLEAN, last : Nat] /\ v2'.last = v2.last
      BY <1>2, <2>1
    <2> QED BY <1>1, <1>2, <2>1, <2>2
  <1>6. ASSUME NEW w \in Chat!Writers, Chat!Commits(w) PROVE Chat!Inv'
    <2>1. /\ v5[w].at = "inserted" /\ Chat!Written(w) /\ Chat!Answered(w, "ACCEPTED")
          /\ UNCHANGED <<v1, v6, v7, v8>>
      BY <1>6 DEF Chat!Commits
    <2> QED BY <1>2, <2>1, ChatWrites
  <1>7. ASSUME NEW w \in Chat!Writers, Chat!TransactionFails(w) PROVE Chat!Inv'
    <2>1. CASE UNCHANGED <<v2, v3>>
      BY <1>7, <2>1, ChatWorks
    <2>2. CASE v5[w].at = "inserted" /\ Chat!Written(w)
      <3>1. /\ Chat!Answered(w, "failed") /\ UNCHANGED <<v1, v6, v7>> /\ v8 < ChatFaults /\ v8' = v8 + 1
        BY <1>7 DEF Chat!TransactionFails
      <3>2. v8' \in 0..ChatFaults
        BY <1>2, <3>1, ChatAssumption
      <3> QED BY <2>2, <3>1, <3>2, ChatWrites
    <2> QED BY <1>7, <2>1, <2>2 DEF Chat!TransactionFails
  <1>8. Senders \subseteq Chat!Writers /\ Speakers \subseteq Chat!Writers
    BY DEF Chat!Writers
  <1>9. ASSUME NEW a \in Senders,
               \/ Chat!getConversationForAdministrator(a) \/ Chat!readInboundByClientId(a)
               \/ \E k \in ClientKeys, c \in Inputs : Chat!sendSubjectChatMessage(a, k, c)
        PROVE  Chat!Inv'
    BY <1>8, <1>9, ChatAsks, ChatWorks
  <1>10. ASSUME NEW s \in Speakers, NEW m \in Replies, Chat!materializeOutbound(s, m) PROVE Chat!Inv'
    BY <1>8, <1>10, ChatAsks
  <1>11. ASSUME NEW w \in Chat!Writers, Chat!Locks(w) \/ Chat!Inserts(w) PROVE Chat!Inv'
    BY <1>11, ChatWorks
  <1> QED BY <1>3, <1>4, <1>5, <1>6, <1>7, <1>9, <1>10, <1>11, ChatReads DEF Chat!Next

(* What a conversation promises follows.                                    *)
LEMMA ChatPromise == Chat!Inv => Chat!ChatIsComplete
  <1> SUFFICES ASSUME Chat!Inv PROVE Chat!ChatIsComplete
    OBVIOUS
  <1>0. /\ Chat!TypeOK /\ Chat!FactsOK /\ v2.last \in Nat /\ v3 \subseteq Chat!Fact
        /\ v6 \in [Readers -> [at : {"idle", "reading"}, cursor : Nat, known : Nat, seen : SUBSET Nat]]
    BY DEF Chat!Inv, Chat!TypeOK
  <1>1. {f.sequence : f \in v3} = 1..v2.last
    BY <1>0 DEF Chat!FactsOK, Chat!Fact
  <1>2. ASSUME NEW r \in Readers
        PROVE  v6[r].seen = 1..Chat!Cardinality(v6[r].seen) /\ 1..v6[r].cursor \subseteq v6[r].seen
    <2>1. PICK n \in 0..v2.last : v6[r].seen = 1..n /\ v6[r].cursor <= n
      BY DEF Chat!Inv, Chat!ReaderOK
    <2>2. Cardinality(1..n) = n
      BY <1>0, FS_Interval
    <2>3. v6[r].cursor \in Nat
      BY <1>0
    <2> QED BY <1>0, <2>1, <2>2, <2>3, ChatCardinality
  <1>3. ASSUME NEW a \in Senders, v5[a].answer \in {"ACCEPTED", "EXISTING"}
        PROVE  /\ Chat!Cardinality(Chat!Inbound(v5[a].key)) = 1
               /\ \E f \in Chat!Inbound(v5[a].key) : f.content = v5[a].content
    <2>1. PICK f \in Chat!Inbound(v5[a].key) : f.content = v5[a].content
      BY <1>3 DEF Chat!Inv, Chat!AnswerOK
    <2>2. Chat!Inbound(v5[a].key) = {f}
      BY <1>0, <2>1 DEF Chat!Inbound, Chat!FactsOK
    <2> QED BY <2>1, <2>2, FS_Singleton, ChatCardinality
  <1>4. Chat!RetryIsAnswered
    BY DEF Chat!Inv, Chat!AnswerOK, Chat!RetryIsAnswered
  <1> QED BY <1>0, <1>1, <1>2, <1>3, <1>4 DEF Chat!ChatIsComplete, Chat!NothingSkipped, Chat!AcceptedIsKept

------------------------------------------------------------------------------
(* GenerationCalls: v1 fence, v2 bound, v3 stopping, v4 call, v5 duplicate,  *)
(* v6 timeouts.                                                             *)

(* Two sets that differ in one element at most.                             *)
LEMMA OneElement ==
    ASSUME NEW S, NEW T, NEW c, IsFiniteSet(S), S \ {c} = T \ {c}
    PROVE  /\ IsFiniteSet(T) /\ Cardinality(S) \in Nat /\ Cardinality(T) \in Nat
           /\ (c \in S <=> c \in T) => Cardinality(T) = Cardinality(S)
           /\ c \in S /\ c \notin T => Cardinality(T) = Cardinality(S) - 1
           /\ c \notin S /\ c \in T => Cardinality(T) = Cardinality(S) + 1
  <1>1. Cardinality(S) \in Nat
    BY FS_CardinalityType
  <1>2. CASE c \in S <=> c \in T
    <2>1. S = T
      BY <1>2
    <2> QED BY <1>1, <1>2, <2>1
  <1>3. CASE c \in S /\ c \notin T
    <2>1. T = S \ {c}
      BY <1>3
    <2>2. IsFiniteSet(T) /\ Cardinality(T) = Cardinality(S) - 1
      BY <1>1, <1>3, <2>1, FS_RemoveElement
    <2>3. Cardinality(T) \in Nat
      BY <2>2, FS_CardinalityType
    <2> QED BY <1>1, <1>3, <2>2, <2>3
  <1>4. CASE c \notin S /\ c \in T
    <2>1. T = S \cup {c}
      BY <1>4
    <2> QED BY <1>1, <1>4, <2>1, FS_AddElement
  <1> QED BY <1>2, <1>3, <1>4

(* The Cardinality an instance comes with is the one of FiniteSets.         *)
LEMMA SameCardinality == \A S : Generation!Cardinality(S) = Cardinality(S)
  BY DEF Generation!Cardinality, Cardinality

(* The reservations of generation g among those of a caller that is as x.   *)
Part(x, g) ==
    (IF x.generation = g /\ x.outer THEN 1 ELSE 0) + (IF x.generation = g /\ x.inner THEN 1 ELSE 0)

(* A step of one caller changes what its generation counts by what the      *)
(* caller holds then less what it held.                                     *)
LEMMA Counted ==
    ASSUME NEW c \in Consumers, \A d \in Consumers \ {c} : v4'[d] = v4[d],
           NEW g \in Generation!Generations
    PROVE  /\ Cardinality(Generation!Outer(g)) + Cardinality(Generation!Inner(g)) \in Nat
           /\ (Cardinality(Generation!Outer(g)) + Cardinality(Generation!Inner(g)))' \in Nat
           /\ (Cardinality(Generation!Outer(g)) + Cardinality(Generation!Inner(g)))' =
                 (Cardinality(Generation!Outer(g)) + Cardinality(Generation!Inner(g)))
                 - Part(v4[c], g) + Part(v4'[c], g)
  <1>1. /\ IsFiniteSet(Generation!Outer(g)) /\ IsFiniteSet(Generation!Inner(g))
    BY GenerationAssumption, FS_Subset DEF Generation!Outer, Generation!Inner
  <1>2. /\ Generation!Outer(g) \ {c} = Generation!Outer(g)' \ {c}
        /\ Generation!Inner(g) \ {c} = Generation!Inner(g)' \ {c}
    BY DEF Generation!Outer, Generation!Inner
  <1>3. /\ c \in Generation!Outer(g) <=> (v4[c].generation = g /\ v4[c].outer)
        /\ c \in Generation!Inner(g) <=> (v4[c].generation = g /\ v4[c].inner)
        /\ c \in Generation!Outer(g)' <=> (v4'[c].generation = g /\ v4'[c].outer)
        /\ c \in Generation!Inner(g)' <=> (v4'[c].generation = g /\ v4'[c].inner)
    BY DEF Generation!Outer, Generation!Inner
  <1>4. PICK S1, T1, S2, T2 :
           /\ S1 = Generation!Outer(g) /\ T1 = Generation!Outer(g)'
           /\ S2 = Generation!Inner(g) /\ T2 = Generation!Inner(g)'
    OBVIOUS
  <1>5. /\ Cardinality(S1) \in Nat /\ Cardinality(T1) \in Nat
        /\ (c \in S1 <=> c \in T1) => Cardinality(T1) = Cardinality(S1)
        /\ c \in S1 /\ c \notin T1 => Cardinality(T1) = Cardinality(S1) - 1
        /\ c \notin S1 /\ c \in T1 => Cardinality(T1) = Cardinality(S1) + 1
    BY <1>1, <1>2, <1>4, OneElement
  <1>6. /\ Cardinality(S2) \in Nat /\ Cardinality(T2) \in Nat
        /\ (c \in S2 <=> c \in T2) => Cardinality(T2) = Cardinality(S2)
        /\ c \in S2 /\ c \notin T2 => Cardinality(T2) = Cardinality(S2) - 1
        /\ c \notin S2 /\ c \in T2 => Cardinality(T2) = Cardinality(S2) + 1
    BY <1>1, <1>2, <1>4, OneElement
  <1>7. /\ c \in S1 <=> (v4[c].generation = g /\ v4[c].outer)
        /\ c \in S2 <=> (v4[c].generation = g /\ v4[c].inner)
        /\ c \in T1 <=> (v4'[c].generation = g /\ v4'[c].outer)
        /\ c \in T2 <=> (v4'[c].generation = g /\ v4'[c].inner)
    BY <1>3, <1>4
  <1>8. /\ Part(v4[c], g) = (IF c \in S1 THEN 1 ELSE 0) + (IF c \in S2 THEN 1 ELSE 0)
        /\ Part(v4'[c], g) = (IF c \in T1 THEN 1 ELSE 0) + (IF c \in T2 THEN 1 ELSE 0)
    BY <1>7 DEF Part
  <1>9. /\ Cardinality(T1) = Cardinality(S1) - (IF c \in S1 THEN 1 ELSE 0) + (IF c \in T1 THEN 1 ELSE 0)
        /\ Cardinality(T2) = Cardinality(S2) - (IF c \in S2 THEN 1 ELSE 0) + (IF c \in T2 THEN 1 ELSE 0)
    BY <1>5, <1>6
  <1>10. /\ Cardinality(S1) + Cardinality(S2) \in Nat /\ Cardinality(T1) + Cardinality(T2) \in Nat
         /\ Cardinality(T1) + Cardinality(T2) = (Cardinality(S1) + Cardinality(S2)) - Part(v4[c], g) + Part(v4'[c], g)
    BY <1>5, <1>6, <1>8, <1>9
  <1> QED BY <1>4, <1>10

(* What a fence promises of itself, given how many reservations there are.  *)
Counts(f, n) ==
    /\ f.inFlight = n
    /\ f.state = "RETIRED" => f.inFlight = 0
    /\ f.watched => f.state = "RETIRING" /\ f.inFlight > 0
    /\ f.retirement # "none" => f.watched \/ f.state = "RETIRED"

(* The last call to end makes a watched fence RETIRED; every other fence    *)
(* stays as it is.                                                          *)
LEMMA Completed ==
    ASSUME NEW f \in Generation!Fence
    PROVE  /\ Generation!complete(f) \in Generation!Fence
           /\ Generation!complete(f).inFlight = f.inFlight
           /\ IF f.state = "RETIRING" /\ f.inFlight = 0 /\ f.watched
              THEN Generation!complete(f).state = "RETIRED" /\ ~Generation!complete(f).watched
              ELSE Generation!complete(f) = f
  <1>1. CASE f.state = "RETIRING" /\ f.inFlight = 0 /\ f.watched
    <2>1. PICK z \in {"none", "resolved", "rejected"} :
             Generation!complete(f) = [f EXCEPT !.state = "RETIRED", !.watched = FALSE, !.retirement = z]
      <3>1. CASE f.retirement = "pending"
        BY <1>1, <3>1 DEF Generation!complete, Generation!Fence
      <3>2. CASE f.retirement # "pending"
        BY <1>1, <3>2 DEF Generation!complete, Generation!Fence
      <3> QED BY <3>1, <3>2
    <2>2. PICK k : k = Generation!complete(f)
      OBVIOUS
    <2>3. k = [f EXCEPT !.state = "RETIRED", !.watched = FALSE, !.retirement = z]
      BY <2>1, <2>2
    <2>4. k \in Generation!Fence /\ k.inFlight = f.inFlight /\ k.state = "RETIRED" /\ ~k.watched
      BY <2>3 DEF Generation!Fence
    <2> QED BY <1>1, <2>2, <2>4
  <1>2. CASE ~(f.state = "RETIRING" /\ f.inFlight = 0 /\ f.watched)
    BY <1>2 DEF Generation!complete
  <1> QED BY <1>1, <1>2

(* A step of one caller and at most one fence, its generation's.            *)
LEMMA CallsLocal ==
    ASSUME Generation!Inv, NEW c \in Consumers,
           v1' \in [Generation!Generations -> Generation!Fence], v4' \in [Consumers -> Generation!Call],
           UNCHANGED <<v2, v3, v5, v6>>, \A d \in Consumers \ {c} : v4'[d] = v4[d],
           Generation!CallOK(c)',
           \A g \in Generation!Generations :
              Counts(v1'[g], v1[g].inFlight - Part(v4[c], g) + Part(v4'[c], g))
    PROVE  Generation!Inv'
  <1>1. Generation!TypeOK' /\ ~v5'
    BY DEF Generation!Inv, Generation!TypeOK
  <1>2. \A d \in Consumers : Generation!CallOK(d)'
    BY DEF Generation!Inv, Generation!CallOK
  <1>3. \A g \in Generation!Generations : Generation!StopOK(g)'
    BY DEF Generation!Inv, Generation!StopOK
  <1>4. ASSUME NEW g \in Generation!Generations PROVE Generation!FenceOK(g)'
    <2>1. Generation!FenceOK(g)
      BY DEF Generation!Inv
    <2>2. v1[g].inFlight = Cardinality(Generation!Outer(g)) + Cardinality(Generation!Inner(g))
      BY <2>1, SameCardinality DEF Generation!FenceOK
    <2>3. (Cardinality(Generation!Outer(g)) + Cardinality(Generation!Inner(g)))' =
             (Cardinality(Generation!Outer(g)) + Cardinality(Generation!Inner(g)))
             - Part(v4[c], g) + Part(v4'[c], g)
      BY Counted
    <2>4. Counts(v1'[g], v1[g].inFlight - Part(v4[c], g) + Part(v4'[c], g))
      OBVIOUS
    <2>5. v1[g].inFlight - Part(v4[c], g) + Part(v4'[c], g) =
             (Cardinality(Generation!Outer(g)) + Cardinality(Generation!Inner(g)))'
      BY <2>2, <2>3
    <2> QED BY <2>4, <2>5, SameCardinality DEF Counts, Generation!FenceOK
  <1> QED BY <1>1, <1>2, <1>3, <1>4 DEF Generation!Inv

(* Calls that end, n of them, leave the fence counting the others.          *)
LEMMA FenceFinishes ==
    ASSUME NEW f \in Generation!Fence, NEW n \in Nat, NEW h, Counts(f, f.inFlight), f.inFlight - n \in Nat,
           h = Generation!finished(f, n)
    PROVE  h \in Generation!Fence /\ Counts(h, f.inFlight - n)
  <1>0. f.inFlight \in Nat
    BY DEF Generation!Fence
  <1>1. CASE n = 0
    BY <1>0, <1>1 DEF Generation!finished
  <1>2. CASE n # 0
    <2>1. PICK k : k = [f EXCEPT !.inFlight = f.inFlight - n]
      OBVIOUS
    <2>2. /\ k \in Generation!Fence /\ k.inFlight = f.inFlight - n /\ k.state = f.state
          /\ k.watched = f.watched /\ k.retirement = f.retirement
      BY <2>1 DEF Generation!Fence
    <2>3. h = Generation!complete(k)
      BY <1>2, <2>1 DEF Generation!finished
    <2>4. /\ h \in Generation!Fence /\ h.inFlight = k.inFlight
          /\ IF k.state = "RETIRING" /\ k.inFlight = 0 /\ k.watched
             THEN h.state = "RETIRED" /\ ~h.watched
             ELSE h = k
      BY <2>2, <2>3, Completed
    <2>5. f.state # "RETIRED"
      BY <1>0, <1>2 DEF Counts
    <2> QED BY <1>0, <2>2, <2>4, <2>5 DEF Counts, Generation!Fence
  <1> QED BY <1>1, <1>2

(* A call that reserves makes the fence of an ACTIVE generation count it.   *)
LEMMA FenceReserves ==
    ASSUME NEW f \in Generation!Fence, f.state = "ACTIVE", Counts(f, f.inFlight), NEW h,
           h = [f EXCEPT !.inFlight = f.inFlight + 1]
    PROVE  h \in Generation!Fence /\ Counts(h, f.inFlight + 1)
  <1>1. /\ f.inFlight \in Nat /\ h \in Generation!Fence /\ h.inFlight = f.inFlight + 1
        /\ h.state = f.state /\ h.watched = f.watched /\ h.retirement = f.retirement
    BY DEF Generation!Fence
  <1> QED BY <1>1 DEF Counts

(* The step of a caller, whatever the fence does with it, keeps the         *)
(* invariant.                                                               *)
LEMMA CallKept ==
    ASSUME Generation!Inv, NEW c \in Consumers,
           v4' \in [Consumers -> Generation!Call],
           UNCHANGED <<v2, v3, v5, v6>>, \A d \in Consumers \ {c} : v4'[d] = v4[d],
           Generation!CallOK(c)',
           \/ /\ UNCHANGED v1 /\ v4'[c].outer = v4[c].outer /\ v4'[c].inner = v4[c].inner
              /\ v4'[c].generation = v4[c].generation \/ (~v4[c].outer /\ ~v4[c].inner)
           \/ /\ v4'[c].generation = v4[c].generation
              /\ v1[v4[c].generation].state = "ACTIVE" /\ Generation!Reserved(v4[c].generation)
              /\ \/ ~v4[c].outer /\ v4'[c].outer /\ v4'[c].inner = v4[c].inner
                 \/ ~v4[c].inner /\ v4'[c].inner /\ v4'[c].outer = v4[c].outer
           \/ /\ v4'[c].generation = v4[c].generation
              /\ \/ /\ Generation!finishInvocation(v4[c].generation, 1)
                    /\ \/ v4[c].outer /\ ~v4'[c].outer /\ v4'[c].inner = v4[c].inner
                       \/ v4[c].inner /\ ~v4'[c].inner /\ v4'[c].outer = v4[c].outer
                 \/ /\ Generation!finishInvocation(v4[c].generation, Generation!Held(c))
                    /\ ~v4'[c].outer /\ ~v4'[c].inner
    PROVE  Generation!Inv'
  <1>0. /\ v1 \in [Generation!Generations -> Generation!Fence] /\ v4 \in [Consumers -> Generation!Call]
        /\ \A g \in Generation!Generations : Generation!FenceOK(g)
    BY DEF Generation!Inv, Generation!TypeOK
  <1>1. \A g \in Generation!Generations :
           /\ v1[g] \in Generation!Fence /\ v1[g].inFlight \in Nat /\ Counts(v1[g], v1[g].inFlight)
    BY <1>0 DEF Generation!FenceOK, Counts, Generation!Fence
  <1>2. PICK w \in Generation!Generations : w = v4[c].generation
    BY <1>0 DEF Generation!Call
  <1>3. \A g \in Generation!Generations \ {w} : Part(v4[c], g) = 0
    BY <1>2 DEF Part
  <1>4. Part(v4[c], w) = Generation!Held(c)
    BY <1>2 DEF Part, Generation!Held
  <1>5. v1[w].inFlight - Generation!Held(c) \in Nat
    <2>1. v1[w].inFlight = Cardinality(Generation!Outer(w)) + Cardinality(Generation!Inner(w))
      BY <1>0, SameCardinality DEF Generation!FenceOK
    <2>2. IsFiniteSet(Generation!Outer(w)) /\ IsFiniteSet(Generation!Inner(w))
      BY GenerationAssumption, FS_Subset DEF Generation!Outer, Generation!Inner
    <2>3. /\ Cardinality(Generation!Outer(w)) \in Nat /\ Cardinality(Generation!Inner(w)) \in Nat
      BY <2>2, FS_CardinalityType
    <2>4. v4[c].outer => Cardinality(Generation!Outer(w)) > 0
      <3>1. v4[c].outer => Generation!Outer(w) # {}
        BY <1>2 DEF Generation!Outer
      <3> QED BY <2>2, <2>3, <3>1, FS_EmptySet
    <2>5. v4[c].inner => Cardinality(Generation!Inner(w)) > 0
      <3>1. v4[c].inner => Generation!Inner(w) # {}
        BY <1>2 DEF Generation!Inner
      <3> QED BY <2>2, <2>3, <3>1, FS_EmptySet
    <2> QED BY <2>1, <2>3, <2>4, <2>5 DEF Generation!Held
  <1>6. CASE /\ UNCHANGED v1 /\ v4'[c].outer = v4[c].outer /\ v4'[c].inner = v4[c].inner
             /\ v4'[c].generation = v4[c].generation \/ (~v4[c].outer /\ ~v4[c].inner)
    <2>1. \A g \in Generation!Generations : Part(v4'[c], g) = Part(v4[c], g) /\ Part(v4[c], g) \in Nat
      BY <1>6 DEF Part
    <2>2. \A g \in Generation!Generations :
             v1[g].inFlight - Part(v4[c], g) + Part(v4'[c], g) = v1[g].inFlight
      BY <1>1, <2>1
    <2> QED BY <1>0, <1>1, <1>6, <2>2, CallsLocal
  <1>7. ASSUME v4'[c].generation = v4[c].generation, NEW h \in Generation!Fence,
               v1' = [v1 EXCEPT ![w] = h], Counts(h, v1[w].inFlight - Part(v4[c], w) + Part(v4'[c], w))
        PROVE  Generation!Inv'
    <2>1. v1' \in [Generation!Generations -> Generation!Fence]
      BY <1>0, <1>7
    <2>2. \A g \in Generation!Generations \ {w} : v1'[g] = v1[g]
      BY <1>0, <1>7
    <2>3. v1'[w] = h
      BY <1>0, <1>7
    <2>4. \A g \in Generation!Generations \ {w} :
             v1[g].inFlight - Part(v4[c], g) + Part(v4'[c], g) = v1[g].inFlight
      BY <1>1, <1>2, <1>7 DEF Part
    <2>5. \A g \in Generation!Generations :
             Counts(v1'[g], v1[g].inFlight - Part(v4[c], g) + Part(v4'[c], g))
      BY <1>1, <1>7, <2>2, <2>3, <2>4
    <2> QED BY <2>1, <2>5, CallsLocal
  <1>8. CASE /\ v4'[c].generation = v4[c].generation
             /\ v1[v4[c].generation].state = "ACTIVE" /\ Generation!Reserved(v4[c].generation)
             /\ \/ ~v4[c].outer /\ v4'[c].outer /\ v4'[c].inner = v4[c].inner
                \/ ~v4[c].inner /\ v4'[c].inner /\ v4'[c].outer = v4[c].outer
    <2>1. PICK h : h = [v1[w] EXCEPT !.inFlight = v1[w].inFlight + 1]
      OBVIOUS
    <2>2. v1' = [v1 EXCEPT ![w] = h]
      BY <1>0, <1>2, <1>8, <2>1 DEF Generation!Reserved, Generation!Fence
    <2>3. h \in Generation!Fence /\ Counts(h, v1[w].inFlight + 1)
      BY <1>1, <1>2, <1>8, <2>1, FenceReserves
    <2>4. v1[w].inFlight - Part(v4[c], w) + Part(v4'[c], w) = v1[w].inFlight + 1
      BY <1>1, <1>2, <1>8 DEF Part
    <2> QED BY <1>7, <1>8, <2>2, <2>3, <2>4
  <1>9. ASSUME v4'[c].generation = v4[c].generation, NEW n \in Nat, n <= Generation!Held(c),
               Generation!finishInvocation(w, n), Part(v4'[c], w) = Generation!Held(c) - n
        PROVE  Generation!Inv'
    <2>1. PICK h : h = Generation!finished(v1[w], n)
      OBVIOUS
    <2>2. v1' = [v1 EXCEPT ![w] = h]
      BY <1>9, <2>1 DEF Generation!finishInvocation
    <2>3. Generation!Held(c) \in Nat
      BY DEF Generation!Held
    <2>4. v1[w].inFlight - n \in Nat
      BY <1>1, <1>5, <1>9, <2>3
    <2>5. h \in Generation!Fence /\ Counts(h, v1[w].inFlight - n)
      BY <1>1, <1>9, <2>1, <2>4, FenceFinishes
    <2>6. v1[w].inFlight - Part(v4[c], w) + Part(v4'[c], w) = v1[w].inFlight - n
      BY <1>1, <1>4, <1>9, <2>3
    <2> QED BY <1>7, <1>9, <2>2, <2>5, <2>6
  <1>10. CASE /\ v4'[c].generation = v4[c].generation
              /\ Generation!finishInvocation(v4[c].generation, 1)
              /\ \/ v4[c].outer /\ ~v4'[c].outer /\ v4'[c].inner = v4[c].inner
                 \/ v4[c].inner /\ ~v4'[c].inner /\ v4'[c].outer = v4[c].outer
    <2>1. 1 <= Generation!Held(c) /\ Part(v4'[c], w) = Generation!Held(c) - 1
      BY <1>2, <1>10 DEF Generation!Held, Part
    <2>2. 1 \in Nat /\ Generation!finishInvocation(w, 1)
      BY <1>2, <1>10
    <2> QED BY <1>9, <1>10, <2>1, <2>2
  <1>11. CASE /\ v4'[c].generation = v4[c].generation
              /\ Generation!finishInvocation(v4[c].generation, Generation!Held(c))
              /\ ~v4'[c].outer /\ ~v4'[c].inner
    <2>1. PICK n \in Nat : n = Generation!Held(c)
      BY DEF Generation!Held
    <2>2. n <= Generation!Held(c) /\ Part(v4'[c], w) = Generation!Held(c) - n
      BY <1>11, <2>1 DEF Part
    <2>3. Generation!finishInvocation(w, n)
      BY <1>2, <1>11, <2>1
    <2> QED BY <1>9, <1>11, <2>2, <2>3
  <1> QED BY <1>6, <1>8, <1>10, <1>11

(* A caller takes a lease, calls through it, and gives it up.               *)
LEMMA CallLeases ==
    ASSUME Generation!Inv, NEW c \in Consumers, NEW k \in Generation!Kinds, NEW g \in Generation!Generations,
           \/ Generation!resolve(c, k, g) \/ Generation!invokeRegistryBinding(c) \/ Generation!Invoked(c)
           \/ Generation!wrapMember(c) \/ Generation!invokeProvider(c) \/ Generation!CallEnds(c)
    PROVE  Generation!Inv'
  <1>0. v4 \in [Consumers -> Generation!Call] /\ v4[c] \in Generation!Call /\ Generation!CallOK(c)
    BY DEF Generation!Inv, Generation!TypeOK
  <1>1. /\ v4' \in [Consumers -> Generation!Call] /\ UNCHANGED <<v2, v3, v5, v6>>
        /\ \A d \in Consumers \ {c} : v4'[d] = v4[d]
    <2>1. CASE Generation!resolve(c, k, g)
      BY <1>0, <2>1 DEF Generation!resolve, Generation!Call
    <2>2. CASE Generation!invokeRegistryBinding(c) \/ Generation!Invoked(c) \/ Generation!wrapMember(c)
      BY <1>0, <2>2 DEF Generation!invokeRegistryBinding, Generation!Invoked, Generation!wrapMember, Generation!Call
    <2>3. CASE Generation!invokeProvider(c)
      <3>1. Generation!projectResult(c) \in Generation!Call
        <4>1. CASE v4[c].outer
          BY <1>0, <4>1 DEF Generation!projectResult, Generation!Call
        <4>2. CASE ~v4[c].outer
          BY <1>0, <4>2 DEF Generation!projectResult, Generation!Call
        <4> QED BY <4>1, <4>2
      <3> QED BY <1>0, <2>3, <3>1 DEF Generation!invokeProvider
    <2>4. CASE Generation!CallEnds(c)
      BY <1>0, <2>4 DEF Generation!CallEnds, Generation!Ended, Generation!Call
    <2> QED BY <2>1, <2>2, <2>3, <2>4
  <1>2. Generation!CallOK(c)'
    <2>1. CASE Generation!resolve(c, k, g)
      BY <1>0, <2>1 DEF Generation!resolve, Generation!Call, Generation!CallOK
    <2>2. CASE Generation!invokeRegistryBinding(c) \/ Generation!Invoked(c) \/ Generation!wrapMember(c)
      BY <1>0, <2>2 DEF Generation!invokeRegistryBinding, Generation!Invoked, Generation!wrapMember, Generation!Facade,
         Generation!Call, Generation!CallOK
    <2>3. CASE Generation!invokeProvider(c)
      BY <1>0, <2>3 DEF Generation!invokeProvider, Generation!projectResult, Generation!Call, Generation!CallOK
    <2>4. CASE Generation!CallEnds(c)
      BY <1>0, <2>4 DEF Generation!CallEnds, Generation!Ended, Generation!Call, Generation!CallOK
    <2> QED BY <2>1, <2>2, <2>3, <2>4
  <1>3. CASE Generation!resolve(c, k, g) \/ Generation!invokeRegistryBinding(c)
    <2>1. /\ UNCHANGED v1 /\ v4'[c].outer = v4[c].outer /\ v4'[c].inner = v4[c].inner
          /\ v4'[c].generation = v4[c].generation \/ (~v4[c].outer /\ ~v4[c].inner)
      BY <1>0, <1>3 DEF Generation!resolve, Generation!invokeRegistryBinding, Generation!Call, Generation!CallOK
    <2> QED BY <1>1, <1>2, <2>1, CallKept
  <1>4. CASE Generation!Invoked(c) /\ Generation!Active(v4[c].generation)
    <2>1. /\ v4'[c].generation = v4[c].generation
          /\ v1[v4[c].generation].state = "ACTIVE" /\ Generation!Reserved(v4[c].generation)
          /\ ~v4[c].outer /\ v4'[c].outer /\ v4'[c].inner = v4[c].inner
      BY <1>0, <1>4 DEF Generation!Invoked, Generation!Active, Generation!Call, Generation!CallOK
    <2> QED BY <1>1, <1>2, <2>1, CallKept
  <1>5. CASE Generation!Invoked(c) /\ ~Generation!Active(v4[c].generation)
    <2>1. /\ UNCHANGED v1 /\ v4'[c].outer = v4[c].outer /\ v4'[c].inner = v4[c].inner
          /\ v4'[c].generation = v4[c].generation
      BY <1>0, <1>5 DEF Generation!Invoked, Generation!Call
    <2> QED BY <1>1, <1>2, <2>1, CallKept
  <1>6. CASE Generation!wrapMember(c)
    <2>1. /\ v4'[c].generation = v4[c].generation
          /\ v1[v4[c].generation].state = "ACTIVE" /\ Generation!Reserved(v4[c].generation)
          /\ ~v4[c].inner /\ v4'[c].inner /\ v4'[c].outer = v4[c].outer
      BY <1>0, <1>6 DEF Generation!wrapMember, Generation!Facade, Generation!Active, Generation!Call, Generation!CallOK
    <2> QED BY <1>1, <1>2, <2>1, CallKept
  <1>7. CASE Generation!invokeProvider(c)
    <2>1. /\ v4'[c].generation = v4[c].generation /\ Generation!finishInvocation(v4[c].generation, 1)
          /\ v4[c].inner /\ ~v4'[c].inner /\ v4'[c].outer = v4[c].outer
      BY <1>0, <1>7 DEF Generation!invokeProvider, Generation!projectResult, Generation!Call, Generation!CallOK
    <2> QED BY <1>1, <1>2, <2>1, CallKept
  <1>8. CASE Generation!CallEnds(c)
    <2>1. /\ v4'[c].generation = v4[c].generation
          /\ Generation!finishInvocation(v4[c].generation, Generation!Held(c))
          /\ ~v4'[c].outer /\ ~v4'[c].inner
      BY <1>0, <1>8 DEF Generation!CallEnds, Generation!Ended, Generation!Call, Generation!CallOK
    <2> QED BY <1>1, <1>2, <2>1, CallKept
  <1> QED BY <1>3, <1>4, <1>5, <1>6, <1>7, <1>8

(* An attempt reserves its handler, claims its work, and runs it.           *)
LEMMA CallAttempts ==
    ASSUME Generation!Inv, NEW c \in Consumers,
           \/ Generation!reserveInvocation(c) \/ Generation!ClaimLost(c) \/ Generation!Claimed(c)
           \/ Generation!execute(c) \/ Generation!HandlerEnds(c)
    PROVE  Generation!Inv'
  <1>0. v4 \in [Consumers -> Generation!Call] /\ v4[c] \in Generation!Call /\ Generation!CallOK(c)
    BY DEF Generation!Inv, Generation!TypeOK
  <1>1. /\ v4' \in [Consumers -> Generation!Call] /\ UNCHANGED <<v2, v3, v5, v6>>
        /\ \A d \in Consumers \ {c} : v4'[d] = v4[d]
    BY <1>0 DEF Generation!reserveInvocation, Generation!ClaimLost, Generation!Claimed, Generation!execute,
       Generation!HandlerEnds, Generation!Ended, Generation!Call
  <1>2. Generation!CallOK(c)'
    BY <1>0 DEF Generation!reserveInvocation, Generation!ClaimLost, Generation!Claimed, Generation!execute,
       Generation!HandlerEnds, Generation!Ended, Generation!Call, Generation!CallOK
  <1>3. \/ /\ UNCHANGED v1 /\ v4'[c].outer = v4[c].outer /\ v4'[c].inner = v4[c].inner
           /\ v4'[c].generation = v4[c].generation
        \/ /\ v4'[c].generation = v4[c].generation
           /\ v1[v4[c].generation].state = "ACTIVE" /\ Generation!Reserved(v4[c].generation)
           /\ ~v4[c].outer /\ v4'[c].outer /\ v4'[c].inner = v4[c].inner
        \/ /\ v4'[c].generation = v4[c].generation /\ Generation!finishInvocation(v4[c].generation, 1)
           /\ v4[c].outer /\ ~v4'[c].outer /\ v4'[c].inner = v4[c].inner
    BY <1>0 DEF Generation!reserveInvocation, Generation!ClaimLost, Generation!Claimed, Generation!execute,
       Generation!HandlerEnds, Generation!Ended, Generation!Active, Generation!Call, Generation!CallOK
  <1> QED BY <1>1, <1>2, <1>3, CallKept

(* A step that no caller takes, and that leaves every fence counting what   *)
(* it did.                                                                  *)
LEMMA SupervisorKept ==
    ASSUME Generation!Inv, UNCHANGED v4, Generation!TypeOK', ~v5',
           \A g \in Generation!Generations : Counts(v1'[g], v1[g].inFlight) /\ Generation!StopOK(g)'
    PROVE  Generation!Inv'
  <1>1. \A c \in Consumers : Generation!CallOK(c)'
    BY DEF Generation!Inv, Generation!CallOK
  <1>2. \A g \in Generation!Generations :
           Generation!Outer(g)' = Generation!Outer(g) /\ Generation!Inner(g)' = Generation!Inner(g)
    BY DEF Generation!Outer, Generation!Inner
  <1>3. \A g \in Generation!Generations : Generation!FenceOK(g)'
    BY <1>2 DEF Generation!Inv, Generation!FenceOK, Counts
  <1> QED BY <1>1, <1>3 DEF Generation!Inv

(* The retirement of a generation begins, or runs out of time.              *)
LEMMA FenceRetires ==
    ASSUME NEW f \in Generation!Fence, Counts(f, f.inFlight), NEW h,
           \/ h = Generation!beginRetirement(f)
           \/ h = IF f.state = "RETIRED" \/ f.retirement # "none" THEN f
                  ELSE Generation!complete([Generation!beginRetirement(f) EXCEPT !.retirement = "pending", !.watched = TRUE])
           \/ f.retirement = "pending" /\ h = [f EXCEPT !.retirement = "rejected"]
    PROVE  h \in Generation!Fence /\ Counts(h, f.inFlight)
  <1>0. f.inFlight \in Nat
    BY DEF Generation!Fence
  <1>1. PICK b : b = Generation!beginRetirement(f)
    OBVIOUS
  <1>2. /\ b \in Generation!Fence /\ b.inFlight = f.inFlight /\ b.watched = f.watched
        /\ b.retirement = f.retirement
        /\ b.state = IF f.state = "ACTIVE" THEN "RETIRING" ELSE f.state
    BY <1>1 DEF Generation!beginRetirement, Generation!Fence
  <1>3. CASE h = b
    BY <1>0, <1>2, <1>3 DEF Counts
  <1>4. CASE h = f
    BY <1>4
  <1>5. CASE f.state # "RETIRED" /\ f.retirement = "none"
             /\ h = Generation!complete([b EXCEPT !.retirement = "pending", !.watched = TRUE])
    <2>1. PICK k : k = [b EXCEPT !.retirement = "pending", !.watched = TRUE]
      OBVIOUS
    <2>2. k \in Generation!Fence /\ k.inFlight = f.inFlight /\ k.state = b.state /\ k.watched
      BY <1>2, <2>1 DEF Generation!Fence
    <2>3. k.state = "RETIRING"
      BY <1>2, <1>5, <2>2 DEF Generation!Fence
    <2>4. /\ h \in Generation!Fence /\ h.inFlight = k.inFlight
          /\ IF k.state = "RETIRING" /\ k.inFlight = 0 /\ k.watched
             THEN h.state = "RETIRED" /\ ~h.watched
             ELSE h = k
      BY <1>5, <2>1, <2>2, Completed
    <2> QED BY <1>0, <2>2, <2>3, <2>4 DEF Counts
  <1>6. CASE f.retirement = "pending" /\ h = [f EXCEPT !.retirement = "rejected"]
    BY <1>0, <1>6 DEF Counts, Generation!Fence
  <1> QED BY <1>1, <1>3, <1>4, <1>5, <1>6

(* The supervisor takes a generation from unborn to stopped; those before   *)
(* it are stopped and those after it unborn.                                *)
LEMMA StopKept ==
    ASSUME Generation!Inv, NEW g \in Generation!Generations,
           v2' \in [Generation!Generations -> SUBSET Generation!Kinds],
           \A h \in Generation!Generations \ {g} : v2'[h] = v2[h] /\ v3'[h] = v3[h],
           v3[g] # "stopped",
           v3[g] # "unborn" \/ \A h \in Generation!Generations : h < g => v3[h] = "stopped",
           v3'[g] \in {"unborn", "retire", "stopped"} => v2'[g] = {},
           v3'[g] = "capabilities" => "services" \notin v2'[g],
           v3'[g] = "workHandlers" => v2'[g] \subseteq {"workHandlers"}
    PROVE  \A h \in Generation!Generations : Generation!StopOK(h)'
  <1>0. \A h \in Generation!Generations : Generation!StopOK(h) /\ h \in Nat
    BY GenerationAssumption DEF Generation!Inv, Generation!Generations
  <1>1. Generation!StopOK(g)'
    BY <1>0 DEF Generation!StopOK
  <1>2. ASSUME NEW h \in Generation!Generations \ {g} PROVE Generation!StopOK(h)'
    <2>1. v3[h] # "unborn" => h < g
      BY <1>0 DEF Generation!StopOK
    <2> QED BY <1>0, <2>1 DEF Generation!StopOK
  <1> QED BY <1>1, <1>2

(* A generation is brought up, let go, and taken down by its supervisor.    *)
LEMMA Supervised ==
    ASSUME Generation!Inv, NEW g \in Generation!Generations,
           \/ Generation!register(g) \/ Generation!revokeGenerationAdmission(g) \/ Generation!stop(g)
           \/ Generation!retireGeneration(g) \/ Generation!Withdrawn(g) \/ Generation!Stopped(g)
           \/ Generation!SettlementTimeout(g)
    PROVE  Generation!Inv'
  <1>0. /\ Generation!TypeOK /\ Generation!StopOK(g) /\ ~v5
        /\ v1 \in [Generation!Generations -> Generation!Fence]
        /\ v2 \in [Generation!Generations -> SUBSET Generation!Kinds]
        /\ v3 \in [Generation!Generations -> Generation!Kinds \cup {"unborn", "up", "retire", "stopped"}]
        /\ v6 \in 0..MaxTimeouts
    BY DEF Generation!Inv, Generation!TypeOK
  <1>1. \A h \in Generation!Generations :
           /\ v1[h] \in Generation!Fence /\ v1[h].inFlight \in Nat /\ Counts(v1[h], v1[h].inFlight)
    BY <1>0 DEF Generation!Inv, Generation!FenceOK, Counts, Generation!Fence
  <1>2. ASSUME NEW f, v1' = [v1 EXCEPT ![g] = f], f \in Generation!Fence, Counts(f, v1[g].inFlight)
        PROVE  /\ v1' \in [Generation!Generations -> Generation!Fence]
               /\ \A h \in Generation!Generations : Counts(v1'[h], v1[h].inFlight)
    <2>1. v1' \in [Generation!Generations -> Generation!Fence]
      BY <1>0, <1>2
    <2>2. v1'[g] = f /\ \A h \in Generation!Generations \ {g} : v1'[h] = v1[h]
      BY <1>0, <1>2
    <2> QED BY <1>1, <1>2, <2>1, <2>2
  <1>3. CASE Generation!revokeGenerationAdmission(g) \/ Generation!SettlementTimeout(g)
    <2>1. PICK f : f \in {Generation!beginRetirement(v1[g]), [v1[g] EXCEPT !.retirement = "rejected"]} /\ v1' = [v1 EXCEPT ![g] = f]
                   /\ (f = Generation!beginRetirement(v1[g]) \/ v1[g].retirement = "pending")
      BY <1>0, <1>3 DEF Generation!revokeGenerationAdmission, Generation!SettlementTimeout, Generation!Fence
    <2>2. f \in Generation!Fence /\ Counts(f, v1[g].inFlight)
      BY <1>1, <2>1, FenceRetires
    <2>3. v6' \in 0..MaxTimeouts /\ UNCHANGED <<v2, v3, v4, v5>>
      BY <1>0, <1>3, GenerationAssumption DEF Generation!revokeGenerationAdmission, Generation!SettlementTimeout
    <2>4. v1' \in [Generation!Generations -> Generation!Fence]
      BY <1>2, <2>1, <2>2
    <2>5. Generation!TypeOK'
      BY <1>0, <2>3, <2>4 DEF Generation!TypeOK
    <2>6. \A h \in Generation!Generations : Generation!StopOK(h)'
      BY <2>3 DEF Generation!Inv, Generation!StopOK
    <2> QED BY <1>0, <1>2, <2>1, <2>2, <2>3, <2>5, <2>6, SupervisorKept
  <1>4. CASE Generation!retireGeneration(g)
    <2>1. PICK f : /\ f = IF v1[g].state = "RETIRED" \/ v1[g].retirement # "none" THEN v1[g]
                          ELSE Generation!complete([Generation!beginRetirement(v1[g]) EXCEPT
                                                      !.retirement = "pending", !.watched = TRUE])
      OBVIOUS
    <2>2. v1' = [v1 EXCEPT ![g] = f]
      BY <1>0, <1>4, <2>1 DEF Generation!retireGeneration, Generation!retire
    <2>3. f \in Generation!Fence /\ Counts(f, v1[g].inFlight)
      BY <1>1, <2>1, FenceRetires
    <2>4. UNCHANGED <<v3, v4, v5, v6>>
      BY <1>4 DEF Generation!retireGeneration
    <2>5. v3[g] \in v2[g] /\ v2' = [v2 EXCEPT ![g] = v2[g] \ {v3[g]}]
      BY <1>4 DEF Generation!retireGeneration
    <2>6. v2' \in [Generation!Generations -> SUBSET Generation!Kinds] /\ v2'[g] \subseteq v2[g]
          /\ \A h \in Generation!Generations \ {g} : v2'[h] = v2[h]
      BY <1>0, <2>5
    <2>7. Generation!TypeOK'
      BY <1>0, <1>2, <2>2, <2>3, <2>4, <2>6 DEF Generation!TypeOK
    <2>8. v3[g] \notin {"unborn", "stopped"}
      BY <1>0, <2>5 DEF Generation!Kinds
    <2>9. \A h \in Generation!Generations : Generation!StopOK(h)'
      BY <1>0, <2>4, <2>6, <2>8, StopKept DEF Generation!StopOK
    <2> QED BY <1>0, <1>2, <2>2, <2>3, <2>4, <2>7, <2>9, SupervisorKept
  <1>5. CASE Generation!stop(g) \/ Generation!Withdrawn(g) \/ Generation!Stopped(g)
    <2>1. UNCHANGED <<v1, v2, v4, v5, v6>>
      BY <1>5 DEF Generation!stop, Generation!Withdrawn, Generation!Stopped
    <2>2. PICK to \in Generation!Kinds \cup {"retire", "stopped"} :
             /\ v3' = [v3 EXCEPT ![g] = to]
             /\ \/ v3[g] = "up" /\ to = "services"
                \/ v3[g] = "services" /\ to = "capabilities" /\ "services" \notin v2[g]
                \/ v3[g] = "capabilities" /\ to = "workHandlers" /\ "capabilities" \notin v2[g]
                \/ v3[g] = "workHandlers" /\ to = "retire" /\ "workHandlers" \notin v2[g]
                \/ v3[g] = "retire" /\ to = "stopped"
      <3>1. CASE Generation!stop(g)
        BY <3>1 DEF Generation!stop, Generation!Kinds
      <3>2. CASE Generation!Stopped(g)
        BY <3>2 DEF Generation!Stopped, Generation!Kinds
      <3>3. CASE Generation!Withdrawn(g)
        BY <3>3 DEF Generation!Withdrawn, Generation!Kinds, Generation!After
      <3> QED BY <1>5, <3>1, <3>2, <3>3
    <2>3. v3' \in [Generation!Generations -> Generation!Kinds \cup {"unborn", "up", "retire", "stopped"}]
          /\ v3'[g] = to /\ \A h \in Generation!Generations \ {g} : v3'[h] = v3[h]
      BY <1>0, <2>2
    <2>4. Generation!TypeOK'
      BY <1>0, <2>1, <2>3 DEF Generation!TypeOK
    <2>5. v2[g] \in SUBSET Generation!Kinds
      BY <1>0
    <2>6. /\ v3'[g] \in {"unborn", "retire", "stopped"} => v2'[g] = {}
          /\ v3'[g] = "capabilities" => "services" \notin v2'[g]
          /\ v3'[g] = "workHandlers" => v2'[g] \subseteq {"workHandlers"}
      BY <1>0, <2>1, <2>2, <2>3, <2>5 DEF Generation!StopOK, Generation!Kinds
    <2>7. \A h \in Generation!Generations : Generation!StopOK(h)'
      BY <1>0, <2>1, <2>2, <2>3, <2>6, StopKept
    <2> QED BY <1>0, <1>1, <2>1, <2>4, <2>7, SupervisorKept
  <1>6. CASE Generation!register(g)
    <2>1. /\ v3[g] = "unborn" /\ \A h \in Generation!Generations : h < g => v3[h] = "stopped"
          /\ UNCHANGED <<v1, v4, v6>> /\ v3' = [v3 EXCEPT ![g] = "up"]
      BY <1>6 DEF Generation!register
    <2>2. \A h \in Generation!Generations : v2[h] = {}
      <3>1. \A h \in Generation!Generations : Generation!StopOK(h) /\ h \in Nat
        BY GenerationAssumption DEF Generation!Inv, Generation!Generations
      <3>2. \A h \in Generation!Generations : h < g \/ v3[h] = "unborn"
        BY <2>1, <3>1 DEF Generation!StopOK
      <3> QED BY <2>1, <3>1, <3>2 DEF Generation!StopOK
    <2>3. ~v5' /\ v5' \in BOOLEAN /\ v2' = [v2 EXCEPT ![g] = Generation!Kinds]
      BY <1>6, <2>2 DEF Generation!register
    <2>4. /\ v2' \in [Generation!Generations -> SUBSET Generation!Kinds]
          /\ \A h \in Generation!Generations \ {g} : v2'[h] = v2[h]
      BY <1>0, <2>3
    <2>5. v3' \in [Generation!Generations -> Generation!Kinds \cup {"unborn", "up", "retire", "stopped"}]
          /\ v3'[g] = "up" /\ \A h \in Generation!Generations \ {g} : v3'[h] = v3[h]
      BY <1>0, <2>1
    <2>6. Generation!TypeOK'
      BY <1>0, <2>1, <2>3, <2>4, <2>5 DEF Generation!TypeOK
    <2>7. \A h \in Generation!Generations : Generation!StopOK(h)'
      BY <1>0, <2>1, <2>4, <2>5, StopKept
    <2> QED BY <1>0, <1>1, <2>1, <2>3, <2>6, <2>7, SupervisorKept
  <1> QED BY <1>3, <1>4, <1>5, <1>6

(* Every step of the calls keeps the invariant.                             *)
LEMMA CallStep == Generation!Inv /\ [Generation!Next]_Generation!vars => Generation!Inv'
  <1> SUFFICES ASSUME Generation!Inv, [Generation!Next]_Generation!vars PROVE Generation!Inv'
    OBVIOUS
  <1>1. CASE UNCHANGED Generation!vars
    <2>1. UNCHANGED <<v1, v2, v3, v4, v5, v6>>
      BY <1>1 DEF Generation!vars
    <2>2. Generation!TypeOK' /\ ~v5'
      BY <2>1 DEF Generation!Inv, Generation!TypeOK
    <2>3. \A g \in Generation!Generations : Generation!StopOK(g)'
      BY <2>1 DEF Generation!Inv, Generation!StopOK
    <2>4. \A g \in Generation!Generations : Counts(v1'[g], v1[g].inFlight)
      BY <2>1 DEF Generation!Inv, Generation!FenceOK, Counts
    <2> QED BY <2>1, <2>2, <2>3, <2>4, SupervisorKept
  <1>2. ASSUME NEW c \in Consumers,
               Generation!invokeRegistryBinding(c) \/ Generation!Invoked(c)
                 \/ Generation!wrapMember(c) \/ Generation!invokeProvider(c) \/ Generation!CallEnds(c)
        PROVE  Generation!Inv'
    <2>1. v4[c].generation \in Generation!Generations /\ "services" \in Generation!Kinds
      BY DEF Generation!Inv, Generation!TypeOK, Generation!Call, Generation!Kinds
    <2> QED BY <1>2, <2>1, CallLeases
  <1> QED BY <1>1, <1>2, CallLeases, CallAttempts, Supervised DEF Generation!Next

(* No call has been made and no generation registered.                      *)
LEMMA CallInit == Generation!Init => Generation!Inv
  <1> SUFFICES ASSUME Generation!Init PROVE Generation!Inv
    OBVIOUS
  <1>1. Generation!TypeOK /\ ~v5
    <2>1. v1 \in [Generation!Generations -> Generation!Fence]
      BY DEF Generation!Init, Generation!Fence
    <2>2. v4 \in [Consumers -> Generation!Call]
      BY GenerationAssumption DEF Generation!Init, Generation!Call, Generation!Kinds, Generation!Generations
    <2>3. /\ v2 \in [Generation!Generations -> SUBSET Generation!Kinds]
          /\ v3 \in [Generation!Generations -> Generation!Kinds \cup {"unborn", "up", "retire", "stopped"}]
      BY DEF Generation!Init
    <2>4. ~v5 /\ v5 \in BOOLEAN
      BY DEF Generation!Init
    <2>5. v6 \in 0..MaxTimeouts
      BY GenerationAssumption DEF Generation!Init
    <2> QED BY <2>1, <2>2, <2>3, <2>4, <2>5 DEF Generation!TypeOK
  <1>2. \A c \in Consumers : Generation!CallOK(c)
    BY DEF Generation!Init, Generation!CallOK
  <1>3. ASSUME NEW g \in Generation!Generations PROVE Generation!FenceOK(g) /\ Generation!StopOK(g)
    <2>1. Generation!Outer(g) = {} /\ Generation!Inner(g) = {}
      BY DEF Generation!Init, Generation!Outer, Generation!Inner
    <2>2. Generation!Cardinality({}) = 0
      BY SameCardinality, FS_EmptySet
    <2> QED BY <2>1, <2>2 DEF Generation!Init, Generation!FenceOK, Generation!StopOK
  <1> QED BY <1>1, <1>2, <1>3 DEF Generation!Inv

(* What the calls promise follows.                                          *)
LEMMA CallPromise == Generation!Inv => Generation!CallsAreRetired
  <1> SUFFICES ASSUME Generation!Inv PROVE Generation!CallsAreRetired
    OBVIOUS
  <1>1. Generation!TypeOK /\ ~v5 /\ v4 \in [Consumers -> Generation!Call] /\ v1 \in [Generation!Generations -> Generation!Fence]
    BY DEF Generation!Inv, Generation!TypeOK
  <1>2. ASSUME NEW g \in Generation!Generations
        PROVE  /\ IsFiniteSet(Generation!Outer(g)) /\ IsFiniteSet(Generation!Inner(g))
               /\ Cardinality(Generation!Outer(g)) \in Nat /\ Cardinality(Generation!Inner(g)) \in Nat
               /\ Cardinality(Generation!Outer(g)) = 0 <=> Generation!Outer(g) = {}
               /\ Cardinality(Generation!Inner(g)) = 0 <=> Generation!Inner(g) = {}
               /\ v1[g].inFlight = Cardinality(Generation!Outer(g)) + Cardinality(Generation!Inner(g))
               /\ Generation!FenceOK(g)
    <2>1. IsFiniteSet(Generation!Outer(g)) /\ IsFiniteSet(Generation!Inner(g))
      BY GenerationAssumption, FS_Subset DEF Generation!Outer, Generation!Inner
    <2>2. Generation!FenceOK(g)
      BY DEF Generation!Inv
    <2>3. v1[g].inFlight = Cardinality(Generation!Outer(g)) + Cardinality(Generation!Inner(g))
      BY <2>2, SameCardinality DEF Generation!FenceOK
    <2> QED BY <2>1, <2>2, <2>3, FS_CardinalityType, FS_EmptySet
  <1>3. ASSUME NEW g \in Generation!Generations, v1[g].state = "RETIRED", NEW c \in Generation!In(g)
        PROVE  Generation!Held(c) = 0 /\ v4[c].at \in {"idle", "leased", "opening"}
    <2>1. Generation!Outer(g) = {} /\ Generation!Inner(g) = {}
      BY <1>2, <1>3 DEF Generation!FenceOK
    <2>2. c \in Consumers /\ v4[c].generation = g /\ v4[c] \in Generation!Call /\ Generation!CallOK(c)
      BY <1>1, <1>3 DEF Generation!In, Generation!Inv
    <2>3. ~v4[c].outer /\ ~v4[c].inner
      BY <2>1, <2>2 DEF Generation!Outer, Generation!Inner
    <2> QED BY <2>2, <2>3 DEF Generation!Held, Generation!CallOK, Generation!Call
  <1>4. ASSUME NEW g \in Generation!Generations, v1[g].retirement # "none",
               \A c \in Generation!In(g) : Generation!Held(c) = 0
        PROVE  v1[g].state = "RETIRED"
    <2>1. Generation!Outer(g) = {} /\ Generation!Inner(g) = {}
      BY <1>4 DEF Generation!In, Generation!Outer, Generation!Inner, Generation!Held
    <2>2. v1[g].inFlight = 0
      BY <1>2, <2>1
    <2> QED BY <1>2, <1>4, <2>2 DEF Generation!FenceOK
  <1> QED BY <1>1, <1>3, <1>4 DEF Generation!CallsAreRetired, Generation!RetiredIsQuiet, Generation!IdleIsRetired,
             Generation!ReplacementRegisters

------------------------------------------------------------------------------
(* PersistenceService: v1 authority, v2 token, v3 service, v4 call,          *)
(* v5 applied.                                                              *)

(* Starting the drain changes only the number of destroys, and only of a    *)
(* service that was asked to drain and runs nothing.                        *)
LEMMA DrainStarts ==
    ASSUME NEW s \in Persistence!ServiceType, NEW R
    PROVE  /\ Persistence!MaybeStartDrain(s, R) \in Persistence!ServiceType
           /\ Persistence!MaybeStartDrain(s, R).state = s.state
           /\ Persistence!MaybeStartDrain(s, R).requested = s.requested
           /\ Persistence!MaybeStartDrain(s, R).destroys > 0 => s.destroys > 0 \/ (s.requested /\ R = {})
           /\ s.requested /\ R = {} => Persistence!MaybeStartDrain(s, R).destroys > 0
  BY DEF Persistence!MaybeStartDrain, Persistence!ServiceType

(* A fenced service is no longer open, and asked to drain.                  *)
LEMMA FencedService ==
    ASSUME Persistence!TypeOK, Persistence!ServiceOK
    PROVE  /\ Persistence!Fenced \in Persistence!ServiceType
           /\ Persistence!Fenced.requested /\ Persistence!Fenced.state # "OPEN"
           /\ Persistence!Fenced.destroys = v3.destroys
  BY DEF Persistence!Fenced, Persistence!TypeOK, Persistence!ServiceType, Persistence!ServiceOK

(* Nobody has called, and the service is open or fenced.                    *)
LEMMA PersistenceInit == Persistence!Init => Persistence!Inv
<1> SUFFICES ASSUME Persistence!Init PROVE Persistence!Inv
  OBVIOUS
<1>1. v3 \in Persistence!ServiceType /\ (v3.requested <=> v3.state # "OPEN")
      /\ (v3.destroys > 0 <=> v3.requested)
  <2>1. CASE v3 = [state |-> "OPEN", requested |-> FALSE, destroys |-> 0, done |-> FALSE]
    BY <2>1 DEF Persistence!ServiceType
  <2>2. CASE v3 = [state |-> "FENCED", requested |-> TRUE, destroys |-> 1, done |-> FALSE]
    BY <2>2 DEF Persistence!ServiceType
  <2> QED BY <2>1, <2>2 DEF Persistence!Init
<1>2. \A c \in Calls : v4[c].at = "none" /\ v4[c].told = "nothing"
  BY DEF Persistence!Init
<1>3. Persistence!Running = {}
  BY <1>2 DEF Persistence!Running, Persistence!Steps
<1>4. Persistence!TypeOK
  BY <1>1 DEF Persistence!Init, Persistence!TypeOK
<1>5. \A c \in Calls : Persistence!CallOK(c)
  BY <1>2 DEF Persistence!Init, Persistence!CallOK
<1> QED BY <1>1, <1>3, <1>4, <1>5 DEF Persistence!Inv, Persistence!ServiceOK

(* A call that moves between two running steps runs on.                     *)
LEMMA GotoRuns ==
    ASSUME Persistence!TypeOK, NEW c \in Calls, c \in Persistence!Running,
           NEW step \in Persistence!Steps, Persistence!Goto(c, step)
    PROVE  Persistence!Running' = Persistence!Running
  BY DEF Persistence!TypeOK, Persistence!Running, Persistence!Goto, Persistence!Steps

(* The finally block takes the call off the running ones.                   *)
LEMMA EndRuns ==
    ASSUME Persistence!TypeOK, NEW c \in Calls, NEW answer,
           v4' = [v4 EXCEPT ![c].at = "ended", ![c].told = answer]
    PROVE  Persistence!Running' = Persistence!Running \ {c}
  BY DEF Persistence!TypeOK, Persistence!Running, Persistence!Steps

(* Ending a call with an answer that is true of it keeps the invariant.     *)
LEMMA EndKeeps ==
    ASSUME Persistence!Inv, NEW c \in Calls, NEW answer \in {"done", "failed", "uncertain"},
           NEW s \in Persistence!ServiceType, s.requested <=> s.state # "OPEN",
           s.destroys > 0 => s.requested /\ Persistence!Running = {},
           v4' = [v4 EXCEPT ![c].at = "ended", ![c].told = answer],
           v3' = Persistence!MaybeStartDrain(s, Persistence!Running \ {c}),
           answer = "failed" => c \notin v5, answer = "done" => c \in v5,
           UNCHANGED <<v1, v2, v5>>
    PROVE  Persistence!Inv'
<1>1. Persistence!TypeOK'
  <2>1. v3' \in Persistence!ServiceType
    BY DrainStarts
  <2>2. v4' \in [Calls -> [at : Persistence!Steps \cup {"none", "ended"}, mode : {"READ", "MUTATION"},
                             told : {"nothing", "done", "failed", "uncertain"}]]
    BY DEF Persistence!Inv, Persistence!TypeOK
  <2> QED BY <2>1, <2>2 DEF Persistence!Inv, Persistence!TypeOK
<1>2. Persistence!ServiceOK'
  <2>1. Persistence!Running' = Persistence!Running \ {c}
    BY EndRuns DEF Persistence!Inv
  <2> QED BY <2>1, DrainStarts DEF Persistence!ServiceOK
<1>3. \A d \in Calls : Persistence!CallOK(d)'
  BY DEF Persistence!Inv, Persistence!CallOK, Persistence!TypeOK
<1> QED BY <1>1, <1>2, <1>3 DEF Persistence!Inv

(* Fencing the service keeps its part of the invariant.                     *)
LEMMA FenceKeeps ==
    ASSUME Persistence!Inv, Persistence!Fence, UNCHANGED v4
    PROVE  v3' \in Persistence!ServiceType /\ Persistence!ServiceOK'
<1>1. Persistence!Running' = Persistence!Running
  BY DEF Persistence!Running
<1>2. Persistence!TypeOK /\ Persistence!ServiceOK
  BY DEF Persistence!Inv
<1> QED BY <1>1, <1>2, FencedService, DrainStarts DEF Persistence!Fence, Persistence!ServiceOK

(* Every step of the service keeps the invariant.                           *)
LEMMA PersistenceStep == Persistence!Inv /\ [Persistence!Next]_Persistence!vars => Persistence!Inv'
<1> SUFFICES ASSUME Persistence!Inv, [Persistence!Next]_Persistence!vars PROVE Persistence!Inv'
  OBVIOUS
<1>s. Persistence!TypeOK /\ Persistence!ServiceOK /\ v3 \in Persistence!ServiceType
  BY DEF Persistence!Inv, Persistence!TypeOK
<1>1. CASE UNCHANGED Persistence!vars
  BY <1>1 DEF Persistence!Inv, Persistence!TypeOK, Persistence!ServiceOK, Persistence!CallOK, Persistence!Running, Persistence!vars
<1>2. CASE Persistence!Close
  <2> DEFINE s == [v3 EXCEPT !.state = "CLOSING", !.requested = TRUE]
  <2>1. s \in Persistence!ServiceType /\ s.requested /\ s.state = "CLOSING" /\ s.destroys = v3.destroys
    BY <1>s DEF Persistence!ServiceType
  <2>2. v3' = Persistence!MaybeStartDrain(s, Persistence!Running) /\ UNCHANGED <<v1, v2, v4, v5>>
    BY <1>2 DEF Persistence!Close
  <2>3. Persistence!Running' = Persistence!Running
    BY <2>2 DEF Persistence!Running
  <2>4. v3' \in Persistence!ServiceType /\ Persistence!ServiceOK'
    <3> HIDE DEF s
    <3> QED BY <1>s, <2>1, <2>2, <2>3, DrainStarts DEF Persistence!ServiceOK
  <2> QED BY <2>2, <2>4 DEF Persistence!Inv, Persistence!TypeOK, Persistence!CallOK
<1>3. CASE Persistence!DestroyDone
  <2>1. UNCHANGED <<v1, v2, v4, v5>> /\ Persistence!Running' = Persistence!Running
    BY <1>3 DEF Persistence!DestroyDone, Persistence!Running
  <2>2. v3' \in Persistence!ServiceType /\ Persistence!ServiceOK'
    BY <1>s, <1>3, <2>1 DEF Persistence!DestroyDone, Persistence!ServiceType, Persistence!ServiceOK
  <2> QED BY <2>1, <2>2 DEF Persistence!Inv, Persistence!TypeOK, Persistence!CallOK
<1>4. CASE Persistence!LeaseLost
  BY <1>4, FenceKeeps DEF Persistence!LeaseLost, Persistence!Inv, Persistence!TypeOK, Persistence!CallOK
<1>5. CASE Persistence!Terminalize
  BY <1>5 DEF Persistence!Terminalize, Persistence!Inv, Persistence!TypeOK, Persistence!ServiceOK, Persistence!CallOK, Persistence!Running
<1>6. CASE Persistence!TokenMoves
  BY <1>6 DEF Persistence!TokenMoves, Persistence!Inv, Persistence!TypeOK, Persistence!ServiceOK, Persistence!CallOK, Persistence!Running
<1>7. ASSUME NEW c \in Calls, NEW mode \in {"READ", "MUTATION"}, Persistence!Start(c, mode) PROVE Persistence!Inv'
  <2>0. Persistence!At(c, "none") /\ UNCHANGED <<v1, v2, v5>> /\ c \notin v5
    BY <1>7 DEF Persistence!Start, Persistence!Inv, Persistence!CallOK, Persistence!At
  <2>1. CASE v3.state = "OPEN" /\ v1 = "ACTIVE"
    <3>1. v4' = [v4 EXCEPT ![c] = [at |-> "begun", mode |-> mode, told |-> "nothing"]]
          /\ UNCHANGED v3
      BY <1>7, <2>1 DEF Persistence!Start
    <3>2. ~v3.requested /\ ~(v3.destroys > 0)
      BY <1>s, <2>1 DEF Persistence!ServiceOK
    <3>3. Persistence!TypeOK' /\ Persistence!ServiceOK'
      BY <1>s, <2>0, <3>1, <3>2 DEF Persistence!TypeOK, Persistence!ServiceOK, Persistence!Steps
    <3>4. \A d \in Calls : Persistence!CallOK(d)'
      BY <2>0, <3>1 DEF Persistence!Inv, Persistence!CallOK, Persistence!TypeOK
    <3> QED BY <3>3, <3>4 DEF Persistence!Inv
  <2>2. CASE ~(v3.state = "OPEN" /\ v1 = "ACTIVE")
    <3>1. v4' = [v4 EXCEPT ![c].at = "ended", ![c].told = "failed"]
      BY <1>7, <2>2 DEF Persistence!Start
    <3>2. Persistence!Running' = Persistence!Running
      BY <1>s, <2>0, <3>1 DEF Persistence!Running, Persistence!At, Persistence!Steps, Persistence!TypeOK
    <3>3. v3' \in Persistence!ServiceType /\ Persistence!ServiceOK'
      <4>1. CASE UNCHANGED v3
        BY <1>s, <3>2, <4>1 DEF Persistence!ServiceOK
      <4>2. CASE Persistence!Fence
        BY <1>s, <3>2, <4>2, FencedService, DrainStarts DEF Persistence!Fence, Persistence!ServiceOK
      <4> QED BY <1>7, <2>2, <4>1, <4>2 DEF Persistence!Start
    <3>4. \A d \in Calls : Persistence!CallOK(d)'
      BY <2>0, <3>1 DEF Persistence!Inv, Persistence!CallOK, Persistence!TypeOK
    <3> QED BY <1>s, <2>0, <3>1, <3>3, <3>4 DEF Persistence!Inv, Persistence!TypeOK
  <2> QED BY <2>1, <2>2
<1>8. ASSUME NEW c \in Calls, Persistence!Progress(c) PROVE Persistence!Inv'
  <2>1. ASSUME NEW step \in Persistence!Steps, Persistence!Goto(c, step), c \in Persistence!Running, step # "committed",
               v4[c].at # "committed", UNCHANGED <<v1, v2, v3, v5>>
        PROVE  Persistence!Inv'
    <3>1. Persistence!Running' = Persistence!Running
      BY <1>s, <2>1, GotoRuns
    <3>2. Persistence!TypeOK' /\ Persistence!ServiceOK'
      BY <1>s, <2>1, <3>1 DEF Persistence!Goto, Persistence!TypeOK, Persistence!ServiceOK
    <3>3. \A d \in Calls : Persistence!CallOK(d)'
      BY <2>1 DEF Persistence!Goto, Persistence!Inv, Persistence!CallOK, Persistence!TypeOK, Persistence!Running, Persistence!Steps
    <3> QED BY <3>2, <3>3 DEF Persistence!Inv
  <2>2. ASSUME NEW answer \in {"done", "failed", "uncertain"}, Persistence!End(c, answer), c \in Persistence!Running,
               answer = "failed" => c \notin v5, answer = "done" => c \in v5,
               UNCHANGED <<v1, v2, v5>>
        PROVE  Persistence!Inv'
    BY <1>s, <2>2, EndKeeps DEF Persistence!End, Persistence!ServiceOK
  <2>3. ASSUME Persistence!EndFenced(c), c \in Persistence!Running, c \notin v5,
               UNCHANGED <<v1, v2, v5>>
        PROVE  Persistence!Inv'
    <3>1. Persistence!Fenced \in Persistence!ServiceType /\ (Persistence!Fenced.requested <=> Persistence!Fenced.state # "OPEN")
          /\ (Persistence!Fenced.destroys > 0 => Persistence!Fenced.requested /\ Persistence!Running = {})
      BY <1>s, FencedService DEF Persistence!ServiceOK
    <3> QED BY <2>3, <3>1, EndKeeps DEF Persistence!EndFenced
  <2>4. ASSUME v4[c].at \in {"begun", "locked", "working"} PROVE c \in Persistence!Running /\ c \notin v5
    BY <2>4 DEF Persistence!Inv, Persistence!CallOK, Persistence!Running, Persistence!Steps
  <2>5. CASE Persistence!BeginRead(c)
    BY <2>1, <2>4, <2>5 DEF Persistence!BeginRead, Persistence!At, Persistence!Steps
  <2>6. CASE Persistence!LockFence(c)
    BY <2>1, <2>3, <2>4, <2>6 DEF Persistence!LockFence, Persistence!At, Persistence!Steps
  <2>7. CASE Persistence!VerifyFence(c)
    BY <2>1, <2>2, <2>3, <2>4, <2>7 DEF Persistence!VerifyFence, Persistence!At, Persistence!Steps
  <2>8. CASE Persistence!SendCommit(c)
    BY <2>1, <2>4, <2>8 DEF Persistence!SendCommit, Persistence!At, Persistence!Steps
  <2>9. CASE Persistence!Break(c)
    BY <2>2, <2>4, <2>9 DEF Persistence!Break
  <2>10. CASE Persistence!ServerCommits(c)
    <3>1. Persistence!Running' = Persistence!Running
      BY <1>s, <2>10, GotoRuns DEF Persistence!ServerCommits, Persistence!At, Persistence!Running, Persistence!Steps
    <3>2. Persistence!TypeOK' /\ Persistence!ServiceOK'
      BY <1>s, <2>10, <3>1 DEF Persistence!ServerCommits, Persistence!Goto, Persistence!TypeOK, Persistence!ServiceOK, Persistence!Steps
    <3>3. \A d \in Calls : Persistence!CallOK(d)'
      BY <2>10 DEF Persistence!ServerCommits, Persistence!At, Persistence!Goto, Persistence!Inv, Persistence!CallOK, Persistence!TypeOK
    <3> QED BY <3>2, <3>3 DEF Persistence!Inv
  <2>11. CASE Persistence!ServerAborts(c)
    BY <2>1, <2>11 DEF Persistence!ServerAborts, Persistence!At, Persistence!Running, Persistence!Steps
  <2>12. CASE Persistence!Acknowledged(c)
    BY <2>2, <2>12 DEF Persistence!Acknowledged, Persistence!At, Persistence!Running, Persistence!Steps, Persistence!Inv, Persistence!CallOK
  <2>13. CASE Persistence!CommitError(c)
    BY <2>2, <2>13 DEF Persistence!CommitError, Persistence!Running, Persistence!Steps
  <2> QED BY <1>8, <2>5, <2>6, <2>7, <2>8, <2>9, <2>10, <2>11, <2>12, <2>13 DEF Persistence!Progress
<1> QED BY <1>1, <1>2, <1>3, <1>4, <1>5, <1>6, <1>7, <1>8 DEF Persistence!Next

(* What the service promises follows.                                       *)
LEMMA PersistencePromise == Persistence!Inv => Persistence!CallsAreSettled
  BY DEF Persistence!Inv, Persistence!CallOK, Persistence!ServiceOK, Persistence!DrainedWhenIdle,
       Persistence!DrainIsStarted, Persistence!AnswerIsTrue, Persistence!CallsAreSettled
==============================================================================
