------------------------- MODULE Components_proofs --------------------------
(***************************************************************************)
(* Proofs of what the run of Components checks. First two components, the  *)
(* secret material and the Gateway: each keeps its inductive invariant,    *)
(* for any secrets, callers and faults.                                    *)
(* Then the scenes: the invariant of a component holds while its scene is  *)
(* on, since the steps of the others leave the scene and theirs as they    *)
(* are, and what is promised follows.                                      *)
(***************************************************************************)
EXTENDS Components, InstallationScenes_proofs, ServiceScenes_proofs

------------------------------------------------------------------------------
(* SecretMaterial: v1 row, v2 store, v3 call, v4 written, v5 contested,     *)
(* v6 faults. The row's type and what reads and writes are always expanded. *)
USE DEF Secret!Row, Secret!readRow, Secret!loadSecret, Secret!set

(* There is no Secret and nothing in the store.                             *)
LEMMA SecretInit == Secret!Init => Secret!Inv
  <1> SUFFICES ASSUME Secret!Init PROVE Secret!Inv
    OBVIOUS
  <1>1. Secret!TypeOK
    <2>1. v1 \in [state : {"ABSENT", "ACTIVE", "REVOKED"}, generation : 0..MaxGeneration, by : 0..MaxWrites]
      BY SecretAssumption DEF Secret!Init
    <2>2. v2 \in [Secret!Generations -> 0..MaxWrites]
      BY SecretAssumption DEF Secret!Init
    <2>3. Secret!Idle \in
             [op : {"none", "create", "replace", "revoke", "resolve"},
              pc : {"none", "store", "commit", "delete", "open", "opened"},
              generation : 0..MaxGeneration, material : 0..MaxWrites]
      BY SecretAssumption DEF Secret!Idle
    <2> QED BY <2>1, <2>2, <2>3, SecretAssumption DEF Secret!Init, Secret!TypeOK
  <1>2. v1.state = "ABSENT" /\ v1.generation = 0
    BY DEF Secret!Init
  <1>3. \A c \in SecretCallers :
           v3[c] = Secret!Idle /\ v3[c].op = "none" /\ v3[c].pc = "none"
    BY DEF Secret!Init, Secret!Idle
  <1>4. Secret!RowOK /\ Secret!ActiveHasMaterial /\ Secret!CurrentIsCommitted
    BY <1>2, <1>3 DEF Secret!RowOK, Secret!ActiveHasMaterial, Secret!CurrentIsCommitted
  <1>5. \A c \in SecretCallers : Secret!CallOK(c) /\ Secret!CommitOK(c) /\ Secret!DeleteOK(c)
    BY <1>3 DEF Secret!CallOK, Secret!CommitOK, Secret!DeleteOK
  <1> QED BY <1>1, <1>4, <1>5 DEF Secret!Inv

(* What a call is, as a record.                                             *)
SecretCall ==
    [op : {"none", "create", "replace", "revoke", "resolve"},
     pc : {"none", "store", "commit", "delete", "open", "opened"},
     generation : 0..MaxGeneration, material : 0..MaxWrites]

(* A call that begins, moves on without touching row or store, or returns.  *)
LEMMA SecretLocal ==
    ASSUME Secret!Inv, NEW c \in SecretCallers, NEW x \in SecretCall,
           v3' = [v3 EXCEPT ![c] = x], UNCHANGED <<v1, v2>>,
           v4' \in 0..MaxWrites, v5' = v5, v6' \in 0..SecretFaults,
           Secret!CallOK(c)', Secret!CommitOK(c)', Secret!DeleteOK(c)',
           v1.state = "ABSENT" => x.op \in {"none", "create"},
           x.op = "create" => v3[c].op = "create" \/ \A d \in SecretCallers : v3[d].op # "create"
    PROVE  Secret!Inv'
  <1>0. /\ v3 \in [SecretCallers -> SecretCall] /\ Secret!TypeOK /\ Secret!RowOK
        /\ \A d \in SecretCallers : Secret!CallOK(d) /\ Secret!CommitOK(d) /\ Secret!DeleteOK(d)
    BY DEF Secret!Inv, Secret!TypeOK, SecretCall
  <1>1. v3' \in [SecretCallers -> SecretCall] /\ v3'[c] = x /\ \A d \in SecretCallers \ {c} : v3'[d] = v3[d]
    BY <1>0
  <1>2. Secret!TypeOK'
    BY <1>0, <1>1 DEF Secret!TypeOK, SecretCall
  <1>3. Secret!RowOK'
    BY <1>0, <1>1 DEF Secret!RowOK
  <1>4. (Secret!ActiveHasMaterial /\ Secret!CurrentIsCommitted)'
    BY DEF Secret!Inv, Secret!ActiveHasMaterial, Secret!CurrentIsCommitted
  <1>5. ASSUME NEW d \in SecretCallers \ {c}
        PROVE  (Secret!CallOK(d) /\ Secret!CommitOK(d) /\ Secret!DeleteOK(d))'
    BY <1>0, <1>1 DEF Secret!CallOK, Secret!CommitOK, Secret!DeleteOK, Secret!newKey
  <1> QED BY <1>2, <1>3, <1>4, <1>5 DEF Secret!Inv

(* Calls begin and return, and material is looked up.                       *)
LEMMA SecretCalls ==
    ASSUME Secret!Inv, NEW c \in SecretCallers,
           \/ Secret!createOrSet(c) \/ Secret!replace(c) \/ Secret!revoke(c) \/ Secret!resolve(c)
           \/ Secret!StoreFails(c) \/ Secret!CallEnds(c) \/ Secret!withCredential(c) \/ Secret!Resolved(c)
    PROVE  Secret!Inv'
  <1>0. /\ v3 \in [SecretCallers -> SecretCall] /\ v3[c] \in SecretCall
        /\ v1 \in [state : {"ABSENT", "ACTIVE", "REVOKED"}, generation : 0..MaxGeneration, by : 0..MaxWrites]
        /\ v2 \in [Secret!Generations -> 0..MaxWrites]
        /\ v4 \in 0..MaxWrites /\ v6 \in 0..SecretFaults
        /\ Secret!CallOK(c) /\ Secret!CommitOK(c) /\ Secret!DeleteOK(c) /\ Secret!RowOK
    BY DEF Secret!Inv, Secret!TypeOK, SecretCall
  <1>1. UNCHANGED <<v1, v2, v5>>
    BY DEF Secret!createOrSet, Secret!replace, Secret!revoke, Secret!resolve, Secret!StoreFails,
           Secret!CallEnds, Secret!withCredential, Secret!Resolved
  <1>2. ASSUME Secret!Returns(c), v4' = v4, v6' \in 0..SecretFaults PROVE Secret!Inv'
    <2>1. Secret!Idle \in SecretCall /\ Secret!Idle.op = "none" /\ Secret!Idle.pc = "none"
      BY SecretAssumption DEF Secret!Idle, SecretCall
    <2>2. v3' = [v3 EXCEPT ![c] = Secret!Idle] /\ v3'[c] = Secret!Idle
      BY <1>0, <1>2 DEF Secret!Returns
    <2>3. (Secret!CallOK(c) /\ Secret!CommitOK(c) /\ Secret!DeleteOK(c))'
      BY <2>1, <2>2 DEF Secret!CallOK, Secret!CommitOK, Secret!DeleteOK
    <2> QED BY <1>0, <1>1, <1>2, <2>1, <2>2, <2>3, SecretLocal
  <1>3. CASE Secret!StoreFails(c) \/ Secret!CallEnds(c)
    <2>1. Secret!Returns(c) /\ v4' = v4 /\ v6 < SecretFaults /\ v6' = v6 + 1
      BY <1>3 DEF Secret!StoreFails, Secret!CallEnds
    <2>2. v6' \in 0..SecretFaults
      BY <1>0, <2>1, SecretAssumption
    <2> QED BY <1>2, <2>1, <2>2
  <1>4. CASE Secret!Resolved(c)
    BY <1>0, <1>2, <1>4 DEF Secret!Resolved
  <1>5. CASE Secret!withCredential(c)
    <2>0. UNCHANGED <<v4, v6>> /\ v3[c].op = "resolve" /\ v3[c].pc = "open"
      BY <1>5 DEF Secret!withCredential
    <2>1. CASE v2[v3[c].generation] = 0
      BY <1>0, <1>2, <1>5, <2>0, <2>1 DEF Secret!withCredential
    <2>2. CASE v2[v3[c].generation] # 0
      <3>1. PICK m : m = v2[v3[c].generation]
        OBVIOUS
      <3>2. m \in 0..MaxWrites
        BY <1>0, <2>0, <3>1 DEF Secret!CallOK, SecretCall, Secret!Generations
      <3>3. PICK x : x = [v3[c] EXCEPT !.pc = "opened", !.material = m]
        OBVIOUS
      <3>4. v3' = [v3 EXCEPT ![c] = x]
        BY <1>0, <1>5, <2>2, <3>1, <3>3 DEF Secret!withCredential
      <3>5. x \in SecretCall /\ x.op = "resolve" /\ x.pc = "opened" /\ x.generation = v3[c].generation /\ v3'[c] = x
        BY <1>0, <2>0, <3>2, <3>3, <3>4 DEF SecretCall
      <3>6. (Secret!CallOK(c) /\ Secret!CommitOK(c) /\ Secret!DeleteOK(c))'
        BY <1>0, <1>1, <2>0, <3>5 DEF Secret!CallOK, Secret!CommitOK, Secret!DeleteOK, Secret!Idle
      <3>7. v1.state # "ABSENT"
        BY <1>0, <2>0 DEF Secret!RowOK
      <3> QED BY <1>0, <1>1, <2>0, <3>4, <3>5, <3>6, <3>7, SecretLocal
    <2> QED BY <2>1, <2>2
  <1>6. CASE Secret!createOrSet(c)
    <2>1. /\ v3[c] = Secret!Idle /\ v1.state = "ABSENT" /\ v4 < MaxWrites /\ v4' = v4 + 1 /\ v6' = v6
          /\ \A d \in SecretCallers : v3[d].op # "create"
      BY <1>6 DEF Secret!createOrSet
    <2>2. PICK x : x = [op |-> "create", pc |-> "store", generation |-> 0, material |-> v4']
      OBVIOUS
    <2>3. v3' = [v3 EXCEPT ![c] = x]
      BY <1>6, <2>2 DEF Secret!createOrSet
    <2>4. v4' \in 1..MaxWrites
      BY <1>0, <2>1, SecretAssumption
    <2>5. /\ x \in SecretCall /\ x.op = "create" /\ x.pc = "store" /\ x.generation = 0 /\ x.material = v4'
          /\ v3'[c] = x
      BY <1>0, <2>2, <2>3, <2>4, SecretAssumption DEF SecretCall
    <2>6. (Secret!CallOK(c) /\ Secret!CommitOK(c) /\ Secret!DeleteOK(c))'
      BY <1>1, <2>1, <2>4, <2>5 DEF Secret!CallOK, Secret!CommitOK, Secret!DeleteOK, Secret!Idle
    <2>7. v4' \in 0..MaxWrites /\ v6' \in 0..SecretFaults
      BY <1>0, <2>1, <2>4
    <2> QED BY <1>0, <1>1, <2>1, <2>3, <2>5, <2>6, <2>7, SecretLocal
  <1>7. CASE Secret!replace(c)
    <2>1. /\ v1.state = "ACTIVE" /\ v4 < MaxWrites /\ v4' = v4 + 1 /\ v6' = v6
          /\ v1.generation < MaxGeneration
      BY <1>7 DEF Secret!replace
    <2>2. PICK x : x = [op |-> "replace", pc |-> "store", generation |-> v1.generation, material |-> v4']
      OBVIOUS
    <2>3. v3' = [v3 EXCEPT ![c] = x]
      BY <1>7, <2>2 DEF Secret!replace
    <2>4. v4' \in 1..MaxWrites
      BY <1>0, <2>1, SecretAssumption
    <2>5. /\ x \in SecretCall /\ x.op = "replace" /\ x.pc = "store" /\ x.generation = v1.generation /\ x.material = v4'
          /\ v3'[c] = x
      BY <1>0, <2>2, <2>3, <2>4, SecretAssumption DEF SecretCall
    <2>6. (Secret!CallOK(c) /\ Secret!CommitOK(c) /\ Secret!DeleteOK(c))'
      BY <1>0, <1>1, <2>1, <2>4, <2>5 DEF Secret!CallOK, Secret!CommitOK, Secret!DeleteOK, Secret!Idle, Secret!RowOK
    <2>7. v4' \in 0..MaxWrites /\ v6' \in 0..SecretFaults
      BY <1>0, <2>1, <2>4
    <2> QED BY <1>0, <1>1, <2>1, <2>3, <2>5, <2>6, <2>7, SecretLocal
  <1>8. CASE Secret!revoke(c) \/ Secret!resolve(c)
    <2>1. v1.state = "ACTIVE" /\ v4' = v4 /\ v6' = v6
      BY <1>8 DEF Secret!revoke, Secret!resolve
    <2>2. PICK x : /\ x \in {[op |-> "revoke", pc |-> "commit", generation |-> v1.generation, material |-> 0],
                             [op |-> "resolve", pc |-> "open", generation |-> v1.generation, material |-> 0]}
                   /\ v3' = [v3 EXCEPT ![c] = x]
      BY <1>8 DEF Secret!revoke, Secret!resolve
    <2>3. /\ x \in SecretCall /\ <<x.op, x.pc>> \in {<<"revoke", "commit">>, <<"resolve", "open">>}
          /\ x.generation = v1.generation /\ v3'[c] = x
      BY <1>0, <2>2, SecretAssumption DEF SecretCall
    <2>4. (Secret!CallOK(c) /\ Secret!CommitOK(c) /\ Secret!DeleteOK(c))'
      BY <1>0, <1>1, <2>1, <2>3 DEF Secret!CallOK, Secret!CommitOK, Secret!DeleteOK, Secret!Idle, Secret!RowOK
    <2> QED BY <1>0, <1>1, <2>1, <2>2, <2>3, <2>4, SecretLocal
  <1> QED BY <1>3, <1>4, <1>5, <1>6, <1>7, <1>8

(* Material goes to its key, and the key may now be contested.              *)
LEMMA SecretStores ==
    ASSUME Secret!Inv, NEW c \in SecretCallers, Secret!StoreSet(c)
    PROVE  Secret!Inv'
  <1>0. /\ v3 \in [SecretCallers -> SecretCall] /\ v3[c] \in SecretCall
        /\ v1 \in [state : {"ABSENT", "ACTIVE", "REVOKED"}, generation : 0..MaxGeneration, by : 0..MaxWrites]
        /\ v2 \in [Secret!Generations -> 0..MaxWrites] /\ v5 \subseteq Secret!Generations
        /\ Secret!RowOK /\ Secret!TypeOK /\ Secret!ActiveHasMaterial /\ Secret!CurrentIsCommitted
        /\ \A d \in SecretCallers : Secret!CallOK(d) /\ Secret!CommitOK(d) /\ Secret!DeleteOK(d)
    BY DEF Secret!Inv, Secret!TypeOK, SecretCall
  <1>1. PICK k \in 1..MaxGeneration, m \in 1..MaxWrites : k = v3[c].generation + 1 /\ m = v3[c].material
    <2>1. v3[c].op \in {"create", "replace"} /\ v3[c].generation \in 0..(MaxGeneration - 1) /\ v3[c].material # 0
      BY <1>0, SecretAssumption DEF Secret!StoreSet, Secret!CallOK, SecretCall
    <2> QED BY <1>0, <2>1, SecretAssumption DEF SecretCall
  <1>2. v2' = [v2 EXCEPT ![k] = m] /\ UNCHANGED <<v1, v4, v6>> /\ v3[c].pc = "store"
    BY <1>1 DEF Secret!StoreSet, Secret!newKey
  <1>3. /\ v5 \subseteq v5' /\ v5' \subseteq v5 \cup {k}
        /\ v1.generation = k => k \in v5'
        /\ \A d \in SecretCallers \ {c} : v3[d].op = "replace" /\ v3[d].generation + 1 = k => k \in v5'
    BY <1>1 DEF Secret!StoreSet, Secret!newKey
  <1>4. /\ v3' \in [SecretCallers -> SecretCall] /\ \A d \in SecretCallers \ {c} : v3'[d] = v3[d]
        /\ v3'[c].op = v3[c].op /\ v3'[c].pc = "commit" /\ v3'[c].generation = v3[c].generation
        /\ v3'[c].material = v3[c].material
    BY <1>0 DEF Secret!StoreSet, Secret!Goes, SecretCall
  <1>5. v2' \in [Secret!Generations -> 0..MaxWrites] /\ v2'[k] = m /\ \A g \in Secret!Generations \ {k} : v2'[g] = v2[g]
    BY <1>0, <1>2 DEF Secret!Generations
  <1>6. Secret!TypeOK'
    BY <1>0, <1>2, <1>3, <1>4, <1>5 DEF Secret!TypeOK, SecretCall, Secret!Generations
  <1>7. Secret!RowOK'
    BY <1>0, <1>2, <1>4 DEF Secret!RowOK
  <1>8. Secret!ActiveHasMaterial' /\ Secret!CurrentIsCommitted'
    <2>1. v1.state = "ACTIVE" => v1.generation \in Secret!Generations
      BY <1>0 DEF Secret!RowOK, Secret!Generations
    <2> QED BY <1>0, <1>2, <1>3, <1>5, <2>1 DEF Secret!ActiveHasMaterial, Secret!CurrentIsCommitted
  <1>9. \A d \in SecretCallers : Secret!CallOK(d)' /\ Secret!DeleteOK(d)'
    BY <1>0, <1>2, <1>4 DEF Secret!CallOK, Secret!DeleteOK, Secret!Idle
  <1>10. Secret!CommitOK(c)'
    BY <1>1, <1>4, <1>5 DEF Secret!CommitOK, Secret!newKey
  <1>11. ASSUME NEW d \in SecretCallers \ {c} PROVE Secret!CommitOK(d)'
    <2>1. v3[d].op = "create" => v3[c].op = "none"
      BY <1>0 DEF Secret!RowOK, Secret!CallOK
    <2>2. v3[d].op # "create"
      BY <1>0, <1>2, <2>1 DEF Secret!CallOK, Secret!Idle
    <2>3. v3[d].op = "replace" => v3[d].generation + 1 \in Secret!Generations
      BY <1>0, SecretAssumption DEF Secret!CallOK, Secret!Generations, SecretCall
    <2> QED BY <1>0, <1>1, <1>2, <1>3, <1>4, <1>5, <2>2, <2>3 DEF Secret!CommitOK, Secret!newKey
  <1> QED BY <1>6, <1>7, <1>8, <1>9, <1>10, <1>11 DEF Secret!Inv

(* The row is inserted, goes to its next generation, or is revoked.         *)
LEMMA SecretCommits ==
    ASSUME Secret!Inv, NEW c \in SecretCallers,
           Secret!InsertRow(c) \/ Secret!CommitReplacement(c) \/ Secret!CommitRevocation(c)
    PROVE  Secret!Inv'
  <1>0. /\ v3 \in [SecretCallers -> SecretCall] /\ v3[c] \in SecretCall
        /\ v1 \in [state : {"ABSENT", "ACTIVE", "REVOKED"}, generation : 0..MaxGeneration, by : 0..MaxWrites]
        /\ v2 \in [Secret!Generations -> 0..MaxWrites] /\ v5 \subseteq Secret!Generations
        /\ Secret!RowOK /\ Secret!TypeOK /\ Secret!ActiveHasMaterial /\ Secret!CurrentIsCommitted
        /\ \A d \in SecretCallers : Secret!CallOK(d) /\ Secret!CommitOK(d) /\ Secret!DeleteOK(d)
    BY DEF Secret!Inv, Secret!TypeOK, SecretCall
  <1>1. UNCHANGED <<v2, v4, v5, v6>> /\ v3[c].pc = "commit"
    BY DEF Secret!InsertRow, Secret!CommitReplacement, Secret!CommitRevocation
  <1>i. Secret!Idle \in SecretCall /\ Secret!Idle.op = "none" /\ Secret!Idle.pc = "none"
    BY SecretAssumption DEF Secret!Idle, SecretCall
  <1>2. CASE v1' = v1 /\ Secret!Returns(c)
    <2>1. v3' = [v3 EXCEPT ![c] = Secret!Idle] /\ v3'[c] = Secret!Idle
      BY <1>0, <1>2 DEF Secret!Returns
    <2>2. (Secret!CallOK(c) /\ Secret!CommitOK(c) /\ Secret!DeleteOK(c))'
      BY <1>i, <2>1 DEF Secret!CallOK, Secret!CommitOK, Secret!DeleteOK
    <2>3. v4' \in 0..MaxWrites /\ v6' \in 0..SecretFaults
      BY <1>0, <1>1 DEF Secret!TypeOK
    <2> QED BY <1>0, <1>1, <1>i, <1>2, <2>1, <2>2, <2>3, SecretLocal
  <1>3. CASE Secret!InsertRow(c)
    <2>1. /\ v1' = [state |-> "ACTIVE", generation |-> 1, by |-> v3[c].material]
          /\ v3' = [v3 EXCEPT ![c] = Secret!Idle] /\ v3[c].op = "create"
      BY <1>3 DEF Secret!InsertRow, Secret!Returns
    <2>2. /\ v1' \in [state : {"ABSENT", "ACTIVE", "REVOKED"}, generation : 0..MaxGeneration, by : 0..MaxWrites]
          /\ v1'.state = "ACTIVE" /\ v1'.generation = 1 /\ v1'.by = v3[c].material
      BY <1>0, <2>1, SecretAssumption DEF SecretCall
    <2>3. v3[c].generation = 0 /\ v2[1] # 0 /\ (1 \notin v5 => v2[1] = v3[c].material)
      BY <1>0, <1>1, <2>1 DEF Secret!CallOK, Secret!CommitOK, Secret!newKey
    <2>4. \A d \in SecretCallers : v3'[d] = Secret!Idle
      BY <1>0, <2>1 DEF Secret!RowOK, Secret!CallOK
    <2>5. v3' \in [SecretCallers -> SecretCall]
      BY <1>0, <1>i, <2>1
    <2>6. Secret!TypeOK'
      BY <1>0, <1>1, <2>2, <2>5 DEF Secret!TypeOK, SecretCall
    <2>7. Secret!RowOK' /\ Secret!ActiveHasMaterial' /\ Secret!CurrentIsCommitted'
      BY <1>1, <1>i, <2>2, <2>3, <2>4 DEF Secret!RowOK, Secret!ActiveHasMaterial, Secret!CurrentIsCommitted
    <2>8. \A d \in SecretCallers : Secret!CallOK(d)' /\ Secret!CommitOK(d)' /\ Secret!DeleteOK(d)'
      BY <1>i, <2>4 DEF Secret!CallOK, Secret!CommitOK, Secret!DeleteOK
    <2> QED BY <2>6, <2>7, <2>8 DEF Secret!Inv
  <1>4. ASSUME v1' \in [state : {"ACTIVE", "REVOKED"}, generation : 1..MaxGeneration, by : 0..MaxWrites],
               v1.state # "ABSENT", v1'.generation \in {v1.generation, v1.generation + 1},
               v1'.state = "ACTIVE" => v1'.generation # v1.generation,
               v1.state = "REVOKED" => v1'.state = "REVOKED",
               v3' \in [SecretCallers -> SecretCall], \A d \in SecretCallers \ {c} : v3'[d] = v3[d],
               v3'[c].op \in {"replace", "revoke"}, v3'[c].pc = "delete", v3'[c].material = v3[c].material,
               v3'[c].op = v3[c].op, v3'[c].generation = v3[c].generation,
               v1'.state = "REVOKED" \/ v1'.generation > v3[c].generation,
               Secret!ActiveHasMaterial', Secret!CurrentIsCommitted'
        PROVE  Secret!Inv'
    <2>1. Secret!TypeOK'
      BY <1>0, <1>1, <1>4 DEF Secret!TypeOK, SecretCall
    <2>2. \A d \in SecretCallers : v3[d].op # "create" /\ v3'[d].op # "create"
      BY <1>0, <1>4 DEF Secret!CallOK
    <2>3. Secret!RowOK'
      BY <1>4, <2>2 DEF Secret!RowOK
    <2>4. v1.generation \in Nat /\ v1'.generation \in Nat /\ \A d \in SecretCallers : v3[d].generation \in Nat
      BY <1>0, <1>4 DEF SecretCall
    <2>5. Secret!CallOK(c)' /\ Secret!CommitOK(c)' /\ Secret!DeleteOK(c)'
      BY <1>0, <1>4, <2>2, <2>4 DEF Secret!CallOK, Secret!CommitOK, Secret!DeleteOK, Secret!Idle
    <2>6. ASSUME NEW d \in SecretCallers \ {c}
          PROVE  Secret!CallOK(d)' /\ Secret!CommitOK(d)' /\ Secret!DeleteOK(d)'
      <3>1. v3'[d] = v3[d] /\ Secret!CallOK(d) /\ Secret!DeleteOK(d)
        BY <1>0, <1>4
      <3>2. Secret!CallOK(d)'
        BY <1>4, <2>2, <2>4, <3>1 DEF Secret!CallOK, Secret!Idle
      <3>3. Secret!DeleteOK(d)'
        BY <1>4, <2>4, <3>1 DEF Secret!DeleteOK
      <3>4. Secret!CommitOK(d)'
        <4>1. v3[d].op = "replace" => v3[d].generation <= v1.generation
          BY <2>4, <3>1 DEF Secret!CallOK
        <4> QED BY <1>4, <2>2, <2>4, <3>1, <4>1 DEF Secret!CommitOK
      <3> QED BY <3>2, <3>3, <3>4
    <2> QED BY <1>0, <1>1, <2>1, <2>3, <1>4, <2>5, <2>6 DEF Secret!Inv
  <1>5. CASE Secret!Goes(c, "delete") /\ v1' # v1 /\ Secret!CommitReplacement(c)
    <2>1. PICK k : k = v3[c].generation + 1
      OBVIOUS
    <2>2. /\ v3[c].op = "replace" /\ v1.state = "ACTIVE" /\ v1.generation = v3[c].generation
          /\ v1' = [state |-> "ACTIVE", generation |-> k, by |-> v3[c].material]
      BY <1>5, <2>1 DEF Secret!CommitReplacement, Secret!newKey
    <2>3. k \in 1..MaxGeneration /\ v3[c].material \in 0..MaxWrites
      BY <1>0, <2>1, <2>2, SecretAssumption DEF Secret!CallOK, SecretCall
    <2>4. /\ v3' \in [SecretCallers -> SecretCall] /\ \A d \in SecretCallers \ {c} : v3'[d] = v3[d]
          /\ v3'[c].op = v3[c].op /\ v3'[c].pc = "delete" /\ v3'[c].generation = v3[c].generation
          /\ v3'[c].material = v3[c].material
      BY <1>0, <1>5 DEF Secret!Goes, SecretCall
    <2>5. v2[k] # 0 /\ (k \notin v5 => v2[k] = v3[c].material)
      BY <1>0, <1>1, <2>1, <2>2 DEF Secret!CommitOK, Secret!newKey
    <2>6. Secret!ActiveHasMaterial' /\ Secret!CurrentIsCommitted'
      BY <1>1, <2>2, <2>5 DEF Secret!ActiveHasMaterial, Secret!CurrentIsCommitted
    <2>7. v3[c].generation \in Nat
      BY <1>0 DEF SecretCall
    <2> QED BY <1>4, <2>1, <2>2, <2>3, <2>4, <2>6, <2>7
  <1>6. CASE Secret!CommitRevocation(c)
    <2>1. v1' = [v1 EXCEPT !.state = "REVOKED"] /\ v3[c].op = "revoke" /\ Secret!Goes(c, "delete")
      BY <1>6 DEF Secret!CommitRevocation
    <2>2. v1.state # "ABSENT" /\ v1.generation # 0
      BY <1>0, <2>1 DEF Secret!RowOK
    <2>3. /\ v3' \in [SecretCallers -> SecretCall] /\ \A d \in SecretCallers \ {c} : v3'[d] = v3[d]
          /\ v3'[c].op = v3[c].op /\ v3'[c].pc = "delete" /\ v3'[c].generation = v3[c].generation
          /\ v3'[c].material = v3[c].material
      BY <1>0, <2>1 DEF Secret!Goes, SecretCall
    <2>4. /\ v1' \in [state : {"ACTIVE", "REVOKED"}, generation : 1..MaxGeneration, by : 0..MaxWrites]
          /\ v1'.state = "REVOKED" /\ v1'.generation = v1.generation
      BY <1>0, <2>1, <2>2
    <2>5. Secret!ActiveHasMaterial' /\ Secret!CurrentIsCommitted'
      BY <2>4 DEF Secret!ActiveHasMaterial, Secret!CurrentIsCommitted
    <2> QED BY <1>4, <2>1, <2>2, <2>3, <2>4, <2>5
  <1>7. Secret!CommitReplacement(c) =>
           (v1' = v1 /\ Secret!Returns(c)) \/ (Secret!Goes(c, "delete") /\ v1' # v1)
    <2>1. SUFFICES ASSUME Secret!CommitReplacement(c), ~(v1' = v1 /\ Secret!Returns(c))
                   PROVE  Secret!Goes(c, "delete") /\ v1' # v1
      OBVIOUS
    <2>2. /\ v1.generation = v3[c].generation /\ Secret!Goes(c, "delete")
          /\ v1' = [state |-> "ACTIVE", generation |-> v3[c].generation + 1, by |-> v3[c].material]
      BY <2>1 DEF Secret!CommitReplacement, Secret!newKey
    <2>3. v1'.generation = v1.generation + 1 /\ v1.generation \in Nat
      BY <1>0, <2>2
    <2> QED BY <2>2, <2>3
  <1> QED BY <1>2, <1>3, <1>5, <1>6, <1>7

(* An entry is deleted that no row will be about again.                     *)
LEMMA SecretDeletes ==
    ASSUME Secret!Inv, NEW c \in SecretCallers, Secret!DeleteEntry(c)
    PROVE  Secret!Inv'
  <1>0. /\ v3 \in [SecretCallers -> SecretCall] /\ v3[c] \in SecretCall
        /\ v1 \in [state : {"ABSENT", "ACTIVE", "REVOKED"}, generation : 0..MaxGeneration, by : 0..MaxWrites]
        /\ v2 \in [Secret!Generations -> 0..MaxWrites] /\ v5 \subseteq Secret!Generations
        /\ Secret!RowOK /\ Secret!TypeOK /\ Secret!ActiveHasMaterial /\ Secret!CurrentIsCommitted
        /\ \A d \in SecretCallers : Secret!CallOK(d) /\ Secret!CommitOK(d) /\ Secret!DeleteOK(d)
    BY DEF Secret!Inv, Secret!TypeOK, SecretCall
  <1>i. Secret!Idle \in SecretCall /\ Secret!Idle.op = "none" /\ Secret!Idle.pc = "none"
    BY SecretAssumption DEF Secret!Idle, SecretCall
  <1>1. PICK k \in 1..MaxGeneration : k = v3[c].generation
    BY <1>0 DEF Secret!DeleteEntry, Secret!CallOK, SecretCall
  <1>2. /\ UNCHANGED <<v1, v4, v5>> /\ v6' \in 0..SecretFaults
        /\ v2' = v2 \/ v2' = [v2 EXCEPT ![k] = 0]
        /\ v1.state = "REVOKED" \/ v1.generation > k
        /\ v3[c].op \notin {"none", "create"}
    <2>1. UNCHANGED <<v1, v4, v5>> /\ (v2' = v2 \/ v2' = [v2 EXCEPT ![k] = 0]) /\ v3[c].pc = "delete"
      BY <1>1 DEF Secret!DeleteEntry
    <2>2. v6' = v6 \/ (v6 < SecretFaults /\ v6' = v6 + 1)
      BY DEF Secret!DeleteEntry
    <2>3. v6' \in 0..SecretFaults
      BY <1>0, <2>2, SecretAssumption DEF Secret!TypeOK
    <2> QED BY <1>0, <1>1, <2>1, <2>3 DEF Secret!DeleteOK, Secret!CallOK
  <1>3. v2' \in [Secret!Generations -> 0..MaxWrites] /\ \A g \in Secret!Generations \ {k} : v2'[g] = v2[g]
    BY <1>0, <1>2, SecretAssumption DEF Secret!Generations
  <1>4. v3' \in [SecretCallers -> SecretCall] /\ v3'[c] = Secret!Idle /\ \A d \in SecretCallers \ {c} : v3'[d] = v3[d]
    BY <1>0, <1>i DEF Secret!DeleteEntry, Secret!Returns
  <1>5. Secret!TypeOK'
    BY <1>0, <1>2, <1>3, <1>4 DEF Secret!TypeOK, SecretCall
  <1>6. v1.state # "ABSENT" /\ v1.generation \in Secret!Generations
    BY <1>0, <1>2 DEF Secret!RowOK, Secret!Generations
  <1>7. Secret!RowOK' /\ Secret!ActiveHasMaterial' /\ Secret!CurrentIsCommitted'
    <2>1. Secret!RowOK'
      BY <1>0, <1>2, <1>4, <1>6, <1>i DEF Secret!RowOK
    <2>2. v1.state = "ACTIVE" => v1.generation # k
      BY <1>2
    <2> QED BY <1>0, <1>2, <1>3, <1>6, <2>1, <2>2 DEF Secret!ActiveHasMaterial, Secret!CurrentIsCommitted
  <1>8. Secret!CallOK(c)' /\ Secret!CommitOK(c)' /\ Secret!DeleteOK(c)'
    BY <1>i, <1>4 DEF Secret!CallOK, Secret!CommitOK, Secret!DeleteOK
  <1>9. ASSUME NEW d \in SecretCallers \ {c}
        PROVE  Secret!CallOK(d)' /\ Secret!CommitOK(d)' /\ Secret!DeleteOK(d)'
    <2>1. v3[d].op # "create"
      BY <1>0, <1>6 DEF Secret!CallOK
    <2>2. Secret!CallOK(d)' /\ Secret!DeleteOK(d)'
      BY <1>0, <1>2, <1>4 DEF Secret!CallOK, Secret!DeleteOK
    <2>3. v3[d].op = "replace" => v3[d].generation + 1 \in Secret!Generations
      BY <1>0, SecretAssumption DEF Secret!CallOK, Secret!Generations, SecretCall
    <2>4. v1.state = "ACTIVE" /\ v1.generation = v3[d].generation => v3[d].generation + 1 # k
      BY <1>0, <1>2
    <2> QED BY <1>0, <1>2, <1>3, <1>4, <2>1, <2>2, <2>3, <2>4 DEF Secret!CommitOK, Secret!newKey
  <1> QED BY <1>5, <1>7, <1>8, <1>9 DEF Secret!Inv

(* Every step of the Secret service keeps the invariant.                    *)
LEMMA SecretStep == Secret!Inv /\ [Secret!Next]_Secret!vars => Secret!Inv'
  <1> SUFFICES ASSUME Secret!Inv, [Secret!Next]_Secret!vars PROVE Secret!Inv'
    OBVIOUS
  <1>1. CASE UNCHANGED Secret!vars
    BY <1>1 DEF Secret!vars, Secret!Inv, Secret!TypeOK, Secret!RowOK, Secret!ActiveHasMaterial,
       Secret!CurrentIsCommitted, Secret!CallOK, Secret!CommitOK, Secret!DeleteOK, Secret!newKey
  <1> QED BY <1>1, SecretCalls, SecretStores, SecretCommits, SecretDeletes DEF Secret!Next

(* A revoked row stays as it is, and no row goes back a generation.         *)
LEMMA SecretFinal == Secret!Inv /\ [Secret!Next]_Secret!vars => Secret!StaysRevoked
  <1> SUFFICES ASSUME Secret!Inv, [Secret!Next]_Secret!vars PROVE Secret!StaysRevoked
    OBVIOUS
  <1>0. /\ v1 \in [state : {"ABSENT", "ACTIVE", "REVOKED"}, generation : 0..MaxGeneration, by : 0..MaxWrites]
        /\ Secret!RowOK /\ v3 \in [SecretCallers -> SecretCall]
        /\ \A d \in SecretCallers : Secret!CallOK(d)
    BY DEF Secret!Inv, Secret!TypeOK, SecretCall
  <1>1. CASE v1' = v1
    BY <1>0, <1>1 DEF Secret!StaysRevoked
  <1>2. ASSUME NEW c \in SecretCallers, Secret!InsertRow(c) PROVE Secret!StaysRevoked
    <2>1. v1'.generation = 1 /\ v1.state = "ABSENT" /\ v1.generation = 0
      BY <1>0, <1>2 DEF Secret!InsertRow, Secret!CallOK, Secret!RowOK
    <2> QED BY <2>1 DEF Secret!StaysRevoked
  <1>3. ASSUME NEW c \in SecretCallers, Secret!CommitReplacement(c), v1' # v1 PROVE Secret!StaysRevoked
    <2>1. v1.state = "ACTIVE" /\ v1'.generation = v1.generation + 1
      BY <1>3 DEF Secret!CommitReplacement, Secret!newKey
    <2> QED BY <1>0, <2>1 DEF Secret!StaysRevoked
  <1>4. ASSUME NEW c \in SecretCallers, Secret!CommitRevocation(c) PROVE Secret!StaysRevoked
    <2>1. v1' = [v1 EXCEPT !.state = "REVOKED"]
      BY <1>4 DEF Secret!CommitRevocation
    <2>2. v1'.generation = v1.generation /\ (v1.state = "REVOKED" => v1' = v1)
      BY <1>0, <2>1
    <2> QED BY <1>0, <2>2 DEF Secret!StaysRevoked
  <1>5. v1' = v1 \/ \E c \in SecretCallers : Secret!InsertRow(c) \/ Secret!CommitReplacement(c) \/ Secret!CommitRevocation(c)
    BY DEF Secret!Next, Secret!vars, Secret!createOrSet, Secret!replace, Secret!StoreSet, Secret!StoreFails,
           Secret!revoke, Secret!DeleteEntry, Secret!CallEnds, Secret!resolve, Secret!withCredential, Secret!Resolved
  <1> QED BY <1>1, <1>2, <1>3, <1>4, <1>5

HIDE DEF Secret!Row, Secret!readRow, Secret!loadSecret, Secret!set

------------------------------------------------------------------------------
(* CognitionGateway: v1 current, v2 call, v3 transitions, v4 phase, v5      *)
(* live, v6 lifecycle, v7 closed, v8 gateway, v9 tasks, v10 writing, v11    *)
(* descriptor, v12 stopped, v13 untidy, v14 changes, v15 faults.            *)

(* The types of a call, of a Gateway and of a descriptor task.              *)
GatewayCallType ==
    [kind : {"none", "reconcile", "reaction"},
     pc : {"none", "read", "ask", "await", "run", "requested", "waiting", "settling"},
     projection : Projections \cup {None}, gateway : {0} \cup Gateway!Generations,
     event : {"none", "proposal", "error"}]
GatewayProcessType ==
    [state : {"none", "starting", "up", "stopping", "gone", "stuck"}, of : Projections \cup {None}]
GatewayTaskType == [op : {"publish", "remove"}, gateway : {0} \cup Gateway!Generations, awaited : BOOLEAN]

(* What the state of the line is, but for the calls.                        *)
GatewayLine ==
    /\ Gateway!Numbered /\ Gateway!NewestLives /\ Gateway!StopIsLast
    /\ Gateway!TasksOK /\ Gateway!AwaitedOnce /\ Gateway!DescriptorOK

(* What is known of one call.                                               *)
GatewayCallWhole(c) ==
    /\ Gateway!CallOK(c)
    /\ v2[c].gateway # 0 => v8[v2[c].gateway].of = v2[c].projection
    /\ v2[c].pc = "waiting" => v8[v2[c].gateway].state = "up"

(* The invariant in these parts, now and after a step.                      *)
LEMMA GatewayInvIs ==
    /\ Gateway!Inv <=> Gateway!TypeOK /\ GatewayLine /\ \A c \in GatewayCallers : GatewayCallWhole(c)
    /\ Gateway!Inv' <=> Gateway!TypeOK' /\ GatewayLine' /\ \A c \in GatewayCallers : GatewayCallWhole(c)'
  BY DEF Gateway!Inv, GatewayLine, GatewayCallWhole, Gateway!RunsItsProjection, Gateway!NoRunIsForgotten,
     Gateway!Up

(* The types in these terms.                                                *)
LEMMA GatewayTypesAre ==
    /\ Gateway!TypeOK => /\ v2 \in [GatewayCallers -> GatewayCallType]
          /\ v8 \in [Gateway!Generations -> GatewayProcessType]
          /\ v9 \in Seq(GatewayTaskType)
    /\ Gateway!TypeOK' <=> /\ v2' \in [GatewayCallers -> GatewayCallType]
                   /\ v8' \in [Gateway!Generations -> GatewayProcessType]
                   /\ v9' \in Seq(GatewayTaskType) /\ v3' \in Seq(Projections \cup {"stop"})
                   /\ v1' \in Projections
                   /\ v4' \in {"idle", "stopping", "removing", "starting", "publishing", "abandoning"}
                   /\ v5' \in {0} \cup Gateway!Generations /\ v11' \in {0} \cup Gateway!Generations
                   /\ v6' \in {"STOPPED", "STARTING", "READY", "FAILED", "STOPPING"}
                   /\ v10' \in {0} \cup Gateway!Generations
                   /\ v12' \in {"no", "asked", "done", "failed"}
                   /\ v13' \subseteq Gateway!Generations /\ v7' \in BOOLEAN
                   /\ v15' \in 0..GatewayFaults /\ v14' \in 0..GatewayChanges
  BY DEF Gateway!TypeOK, GatewayCallType, GatewayProcessType, GatewayTaskType

(* The newest generation is the one up to which they are used.              *)
LEMMA GatewayNewestIs ==
    ASSUME NEW n \in 0..MaxGateways
    PROVE  /\ (\A g \in Gateway!Generations : v8[g].state # "none" <=> g <= n) => Gateway!Newest = n
           /\ (\A g \in Gateway!Generations : v8'[g].state # "none" <=> g <= n) => Gateway!Newest' = n
  <1>1. ASSUME \A g \in Gateway!Generations : v8[g].state # "none" <=> g <= n
        PROVE  Gateway!Newest = n
    <2> DEFINE P(g) == /\ g = 0 \/ v8[g].state # "none"
                       /\ \A h \in Gateway!Generations : h > g => v8[h].state = "none"
    <2>1. n \in {0} \cup Gateway!Generations /\ P(n)
      BY <1>1, GatewayAssumption DEF Gateway!Generations
    <2>2. ASSUME NEW g \in {0} \cup Gateway!Generations, P(g) PROVE g = n
      <3>1. n # 0 => n \in Gateway!Generations /\ v8[n].state # "none"
        BY <1>1, GatewayAssumption DEF Gateway!Generations
      <3>2. ~(n > g)
        BY <2>2, <3>1, GatewayAssumption DEF Gateway!Generations
      <3>3. g = 0 \/ g <= n
        BY <2>2, <1>1
      <3> QED BY <3>2, <3>3, GatewayAssumption DEF Gateway!Generations
    <2>3. Gateway!Newest = CHOOSE g \in {0} \cup Gateway!Generations : P(g)
      BY DEF Gateway!Newest
    <2> HIDE DEF P
    <2> QED BY <2>1, <2>2, <2>3
  <1>2. ASSUME \A g \in Gateway!Generations : v8'[g].state # "none" <=> g <= n
        PROVE  Gateway!Newest' = n
    <2> DEFINE P(g) == /\ g = 0 \/ v8'[g].state # "none"
                       /\ \A h \in Gateway!Generations : h > g => v8'[h].state = "none"
    <2>1. n \in {0} \cup Gateway!Generations /\ P(n)
      BY <1>2, GatewayAssumption DEF Gateway!Generations
    <2>2. ASSUME NEW g \in {0} \cup Gateway!Generations, P(g) PROVE g = n
      <3>1. n # 0 => n \in Gateway!Generations /\ v8'[n].state # "none"
        BY <1>2, GatewayAssumption DEF Gateway!Generations
      <3>2. ~(n > g)
        BY <2>2, <3>1, GatewayAssumption DEF Gateway!Generations
      <3>3. g = 0 \/ g <= n
        BY <2>2, <1>2
      <3> QED BY <3>2, <3>3, GatewayAssumption DEF Gateway!Generations
    <2>3. Gateway!Newest' = CHOOSE g \in {0} \cup Gateway!Generations : P(g)
      BY DEF Gateway!Newest
    <2> HIDE DEF P
    <2> QED BY <2>1, <2>2, <2>3
  <1> QED BY <1>1, <1>2

(* It stays when no generation is begun.                                    *)
LEMMA GatewayNewestStays ==
    ASSUME Gateway!Numbered,
           \A g \in Gateway!Generations : v8'[g].state # "none" <=> v8[g].state # "none"
    PROVE  Gateway!Newest' = Gateway!Newest /\ Gateway!Numbered'
  <1>1. Gateway!Newest \in 0..MaxGateways /\
          \A g \in Gateway!Generations : v8'[g].state # "none" <=> g <= Gateway!Newest
    BY DEF Gateway!Numbered
  <1>2. Gateway!Newest' = Gateway!Newest
    BY <1>1, GatewayNewestIs
  <1> QED BY <1>1, <1>2 DEF Gateway!Numbered

(* It is the one that is begun.                                             *)
LEMMA GatewayNewestGrows ==
    ASSUME Gateway!TypeOK, Gateway!Numbered, Gateway!Newest < MaxGateways, NEW f \in Projections,
           v8' = [v8 EXCEPT ![Gateway!Newest + 1] = [state |-> "starting", of |-> f]]
    PROVE  /\ Gateway!Newest' = Gateway!Newest + 1 /\ Gateway!Numbered'
           /\ Gateway!Newest + 1 \in Gateway!Generations
           /\ v8' \in [Gateway!Generations -> GatewayProcessType] /\ v8[Gateway!Newest + 1].state = "none"
           /\ v8'[Gateway!Newest + 1] = [state |-> "starting", of |-> f]
           /\ \A g \in Gateway!Generations \ {Gateway!Newest + 1} : v8'[g] = v8[g]
  <1>1. Gateway!Newest + 1 \in 1..MaxGateways /\ Gateway!Newest \in 0..MaxGateways
    BY GatewayAssumption DEF Gateway!Numbered
  <1>2. /\ v8' \in [Gateway!Generations -> GatewayProcessType] /\ v8[Gateway!Newest + 1].state = "none"
        /\ v8'[Gateway!Newest + 1] = [state |-> "starting", of |-> f]
        /\ \A g \in Gateway!Generations \ {Gateway!Newest + 1} : v8'[g] = v8[g]
    <2>1. /\ v8 \in [Gateway!Generations -> GatewayProcessType]
          /\ [state |-> "starting", of |-> f] \in GatewayProcessType
      BY GatewayTypesAre DEF GatewayProcessType
    <2>2. v8[Gateway!Newest + 1].state = "none"
      BY <1>1 DEF Gateway!Numbered, Gateway!Generations
    <2> QED BY <1>1, <2>1, <2>2 DEF Gateway!Generations
  <1>3. \A g \in Gateway!Generations : v8'[g].state # "none" <=> g <= Gateway!Newest + 1
    <2> TAKE g \in Gateway!Generations
    <2>1. CASE g = Gateway!Newest + 1
      BY <2>1, <1>1, <1>2
    <2>2. CASE g # Gateway!Newest + 1
      BY <2>2, <1>1, <1>2 DEF Gateway!Numbered, Gateway!Generations
    <2> QED BY <2>1, <2>2
  <1>4. Gateway!Newest' = Gateway!Newest + 1
    BY <1>1, <1>3, GatewayNewestIs
  <1> QED BY <1>1, <1>2, <1>3, <1>4 DEF Gateway!Numbered, Gateway!Generations

(* Of a Gateway whose state changes the rest stays.                         *)
LEMMA GatewayBecomesIs ==
    ASSUME Gateway!TypeOK, Gateway!Numbered, NEW g \in Gateway!Generations, v8[g].state # "none",
           NEW state \in {"up", "stopping", "gone", "stuck"}, v8' = Gateway!Becomes(g, state)
    PROVE  /\ v8' \in [Gateway!Generations -> GatewayProcessType] /\ Gateway!Newest' = Gateway!Newest
           /\ Gateway!Numbered'
           /\ v8'[g].state = state
           /\ \A h \in Gateway!Generations : v8'[h].of = v8[h].of
           /\ \A h \in Gateway!Generations \ {g} : v8'[h] = v8[h]
  <1>1. v8 \in [Gateway!Generations -> GatewayProcessType]
    BY GatewayTypesAre
  <1>2. /\ v8' \in [Gateway!Generations -> GatewayProcessType]
        /\ v8'[g].state = state /\ v8'[g].of = v8[g].of
        /\ \A h \in Gateway!Generations \ {g} : v8'[h] = v8[h]
    BY <1>1 DEF Gateway!Becomes, GatewayProcessType
  <1>3. \A h \in Gateway!Generations : v8'[h].state # "none" <=> v8[h].state # "none"
    BY <1>2
  <1> QED BY <1>2, <1>3, GatewayNewestStays

(* A task is queued at the end; when it is awaited no other one is.         *)
LEMMA GatewayQueuedKeeps ==
    ASSUME Gateway!TypeOK, Gateway!AwaitedOnce, NEW task \in GatewayTaskType, v9' = Gateway!Queued(task),
           task.awaited => \A n \in 1..Len(v9) : ~v9[n].awaited
    PROVE  /\ v9' \in Seq(GatewayTaskType) /\ Gateway!AwaitedOnce'
           /\ Gateway!RemoveWaits => Gateway!RemoveWaits'
           /\ task.op = "remove" => Gateway!RemoveWaits'
           /\ \A n \in 1..Len(v9') : v9'[n] = task \/ \E m \in 1..Len(v9) : v9'[n] = v9[m]
           /\ v9 # <<>> => v9' # <<>> /\ v9'[1] = v9[1]
  <1>1. v9 \in Seq(GatewayTaskType) /\ v9' = Append(v9, task)
    BY GatewayTypesAre DEF Gateway!Queued
  <1>2. /\ v9' \in Seq(GatewayTaskType) /\ Len(v9') = Len(v9) + 1 /\ Len(v9) \in Nat
        /\ v9'[Len(v9) + 1] = task /\ \A n \in 1..Len(v9) : v9'[n] = v9[n]
    BY <1>1
  <1>3. \A n \in 1..Len(v9') : n \in 1..Len(v9) \/ n = Len(v9) + 1
    BY <1>2
  <1>4. Gateway!AwaitedOnce'
    <2> SUFFICES ASSUME NEW m \in 1..Len(v9'), NEW n \in 1..Len(v9'), v9'[m].awaited, v9'[n].awaited
                 PROVE  m = n
      BY DEF Gateway!AwaitedOnce
    <2> QED BY <1>2, <1>3 DEF Gateway!AwaitedOnce
  <1>5. (Gateway!RemoveWaits => Gateway!RemoveWaits') /\ (task.op = "remove" => Gateway!RemoveWaits')
    BY <1>2 DEF Gateway!RemoveWaits
  <1>6. \A n \in 1..Len(v9') : v9'[n] = task \/ \E m \in 1..Len(v9) : v9'[n] = v9[m]
    BY <1>2, <1>3
  <1>7. v9 # <<>> => v9' # <<>> /\ v9'[1] = v9[1]
    BY <1>1, <1>2
  <1> QED BY <1>2, <1>4, <1>5, <1>6, <1>7

(* The first task is done.                                                  *)
LEMMA GatewayTailKeeps ==
    ASSUME Gateway!TypeOK, Gateway!AwaitedOnce, v9 # <<>>, v9' = Tail(v9)
    PROVE  /\ v9' \in Seq(GatewayTaskType) /\ Gateway!AwaitedOnce'
           /\ v9[1].op # "remove" /\ Gateway!RemoveWaits => Gateway!RemoveWaits'
           /\ \A n \in 1..Len(v9') : \E m \in 1..Len(v9) : m # 1 /\ v9'[n] = v9[m]
           /\ 1 \in 1..Len(v9) /\ v9[1] \in GatewayTaskType
  <1>1. v9 \in Seq(GatewayTaskType)
    BY GatewayTypesAre
  <1>2. /\ v9' \in Seq(GatewayTaskType) /\ Len(v9') = Len(v9) - 1 /\ Len(v9) \in Nat
        /\ \A n \in 1..Len(v9') : v9'[n] = v9[n + 1]
        /\ 1 \in 1..Len(v9) /\ v9[1] \in GatewayTaskType
    BY <1>1
  <1>3. \A n \in 1..Len(v9') : n + 1 \in 1..Len(v9) /\ n + 1 # 1 /\ v9'[n] = v9[n + 1]
    BY <1>2
  <1>4. Gateway!AwaitedOnce'
    <2> SUFFICES ASSUME NEW m \in 1..Len(v9'), NEW n \in 1..Len(v9'), v9'[m].awaited, v9'[n].awaited
                 PROVE  m = n
      BY DEF Gateway!AwaitedOnce
    <2>1. m + 1 = n + 1
      BY <1>3 DEF Gateway!AwaitedOnce
    <2> QED BY <2>1
  <1>5. v9[1].op # "remove" /\ Gateway!RemoveWaits => Gateway!RemoveWaits'
    <2> SUFFICES ASSUME NEW m \in 1..Len(v9), v9[m].op = "remove", m # 1 PROVE Gateway!RemoveWaits'
      BY DEF Gateway!RemoveWaits
    <2>1. m - 1 \in 1..Len(v9') /\ v9'[m - 1] = v9[m]
      BY <1>2
    <2> QED BY <2>1 DEF Gateway!RemoveWaits
  <1> QED BY <1>2, <1>3, <1>4, <1>5

(* The first transition is over; the stop is still the last.                *)
LEMMA GatewaySettlesKeeps ==
    ASSUME Gateway!TypeOK, Gateway!StopIsLast, v3 # <<>>, Gateway!Settles
    PROVE  /\ v3' \in Seq(Projections \cup {"stop"}) /\ v4' = "idle"
           /\ \A n \in 1..Len(v3') :
                v3'[n] = "stop" => n = Len(v3') /\ v12 = "asked"
           /\ Gateway!Head1 = "stop" => v3' = <<>>
  <1>1. v3 \in Seq(Projections \cup {"stop"})
    BY DEF Gateway!TypeOK
  <1>2. /\ v3' \in Seq(Projections \cup {"stop"}) /\ v4' = "idle"
        /\ Len(v3') = Len(v3) - 1 /\ Len(v3) \in Nat
        /\ \A n \in 1..Len(v3') : v3'[n] = v3[n + 1]
        /\ 1 \in 1..Len(v3)
    BY <1>1 DEF Gateway!Settles
  <1>3. ASSUME NEW n \in 1..Len(v3'), v3'[n] = "stop"
        PROVE  n = Len(v3') /\ v12 = "asked"
    <2>1. n + 1 \in 1..Len(v3) /\ v3[n + 1] = "stop"
      BY <1>2, <1>3, SMTT(30)
    <2> QED BY <1>2, <2>1 DEF Gateway!StopIsLast
  <1>4. Gateway!Head1 = "stop" => v3' = <<>>
    <2>1. Gateway!Head1 = "stop" => Len(v3) = 1
      BY <1>2 DEF Gateway!Head1, Gateway!StopIsLast
    <2> QED BY <1>2, <2>1
  <1> QED BY <1>2, <1>3, <1>4

(* Who waited for a transition runs, or has ended.                          *)
LEMMA GatewayResolvedIs ==
    ASSUME Gateway!TypeOK, NEW f, NEW g \in {0} \cup Gateway!Generations, v2' = Gateway!Resolved(f, g)
    PROVE  /\ v2' \in [GatewayCallers -> GatewayCallType]
           /\ \A c \in GatewayCallers :
                \/ v2'[c] = v2[c]
                \/ v2'[c] = Gateway!NoCall
                \/ /\ g # 0 /\ v2[c].projection = f /\ v2'[c].pc = "run" /\ v2'[c].gateway = g
                   /\ v2'[c].projection = f
  <1>1. v2 \in [GatewayCallers -> GatewayCallType] /\ Gateway!NoCall \in GatewayCallType
    BY GatewayTypesAre DEF GatewayCallType, Gateway!NoCall
  <1>2. ASSUME NEW c \in GatewayCallers
        PROVE  /\ v2'[c] \in GatewayCallType
               /\ \/ v2'[c] = v2[c]
                  \/ v2'[c] = Gateway!NoCall
                  \/ /\ g # 0 /\ v2[c].projection = f /\ v2'[c].pc = "run" /\ v2'[c].gateway = g
                     /\ v2'[c].projection = f
    BY <1>1 DEF Gateway!Resolved, GatewayCallType
  <1>3. v2' = [c \in GatewayCallers |-> v2'[c]]
    BY DEF Gateway!Resolved
  <1> QED BY <1>2, <1>3

(* Who waited for an event of a Gateway has ended.                          *)
LEMMA GatewayRejectedIs ==
    ASSUME Gateway!TypeOK, NEW g, v2' = Gateway!Rejected(g)
    PROVE  /\ v2' \in [GatewayCallers -> GatewayCallType]
           /\ \A c \in GatewayCallers :
                \/ v2'[c] = v2[c] /\ ~(v2[c].pc = "waiting" /\ v2[c].gateway = g)
                \/ v2'[c] = Gateway!NoCall
  BY GatewayTypesAre DEF Gateway!Rejected, GatewayCallType, Gateway!NoCall

(* A call that did not change, has ended, or was given a Gateway that runs, *)
(* knows what it has to.                                                    *)
LEMMA GatewayCallFollows ==
    ASSUME NEW c \in GatewayCallers, GatewayCallWhole(c), v2[c] \in GatewayCallType, v2'[c] \in GatewayCallType,
           \A g \in Gateway!Generations : v8[g].state # "none" =>
             v8'[g].state # "none" /\ v8'[g].of = v8[g].of,
           \/ /\ v2'[c] = v2[c]
              /\ v2[c].pc = "waiting" => v8'[v2[c].gateway].state = "up"
           \/ v2'[c] = Gateway!NoCall
           \/ /\ v2'[c].gateway \in Gateway!Generations /\ v2'[c].pc \in {"run", "requested", "settling"}
              /\ v8'[v2'[c].gateway].state # "none"
              /\ v8'[v2'[c].gateway].of = v2'[c].projection
    PROVE  GatewayCallWhole(c)'
  <1>1. CASE v2'[c] = Gateway!NoCall
    <2>1. v2'[c].gateway = 0 /\ v2'[c].pc = "none"
      BY <1>1 DEF Gateway!NoCall
    <2> QED BY <2>1 DEF GatewayCallWhole, Gateway!CallOK
  <1>2. CASE v2'[c] = v2[c] /\ (v2[c].pc = "waiting" => v8'[v2[c].gateway].state = "up")
    <2>1. v2[c].gateway \in {0} \cup Gateway!Generations
      BY DEF GatewayCallType
    <2>2. CASE v2[c].gateway = 0
      BY <1>2, <2>2 DEF GatewayCallWhole, Gateway!CallOK
    <2>3. CASE v2[c].gateway \in Gateway!Generations
      BY <1>2, <2>3 DEF GatewayCallWhole, Gateway!CallOK
    <2> QED BY <2>1, <2>2, <2>3
  <1>3. CASE /\ v2'[c].gateway \in Gateway!Generations /\ v2'[c].pc \in {"run", "requested", "settling"}
             /\ v8'[v2'[c].gateway].state # "none"
             /\ v8'[v2'[c].gateway].of = v2'[c].projection
    <2>1. v2'[c].gateway # 0
      BY <1>3 DEF Gateway!Generations
    <2> QED BY <1>3, <2>1 DEF GatewayCallWhole, Gateway!CallOK
  <1> QED BY <1>1, <1>2, <1>3

(* A step that moves only calls, faults and the configuration leaves the    *)
(* line as it is.                                                           *)
LEMMA GatewayLineStays ==
    ASSUME GatewayLine, UNCHANGED <<v3, v4, v5, v7, v8, Gateway!files, v12, v13>>
    PROVE  GatewayLine'
  <1>1. Gateway!Newest' = Gateway!Newest /\ Gateway!Numbered' /\ Gateway!AwaitedOnce' /\
          (Gateway!RemoveWaits => Gateway!RemoveWaits')
    BY GatewayNewestStays DEF GatewayLine, Gateway!AwaitedOnce, Gateway!RemoveWaits, Gateway!files
  <1>2. Gateway!NewestLives' /\ Gateway!StopIsLast' /\ Gateway!TasksOK' /\ Gateway!DescriptorOK'
    BY <1>1 DEF GatewayLine, Gateway!NewestLives, Gateway!StopIsLast, Gateway!TasksOK,
       Gateway!DescriptorOK, Gateway!Alive, Gateway!Head1, Gateway!files, Gateway!Task
  <1> QED BY <1>1, <1>2 DEF GatewayLine

(* An announcement puts one more task that nobody awaits behind the others. *)
LEMMA GatewayAnnouncesKeeps ==
    ASSUME Gateway!TypeOK, GatewayLine, Gateway!Announces \/ v9' = v9,
           UNCHANGED <<v3, v4, v5, v7, v8, v10, v11, v12, v13>>
    PROVE  GatewayLine' /\ v9' \in Seq(GatewayTaskType)
  <1>1. /\ Gateway!Numbered /\ Gateway!NewestLives /\ Gateway!StopIsLast /\ Gateway!TasksOK
        /\ Gateway!AwaitedOnce /\ Gateway!DescriptorOK /\ v9 \in Seq(GatewayTaskType)
    BY GatewayTypesAre DEF GatewayLine
  <1>2. Gateway!Newest' = Gateway!Newest /\ Gateway!Numbered'
    BY <1>1, GatewayNewestStays
  <1>3. CASE v9' = v9
    BY <1>1, <1>3, GatewayLineStays DEF Gateway!files
  <1>4. CASE v5 # 0 /\ v9' = Gateway!Queued(Gateway!Task("publish", v5, FALSE))
    <2>1. /\ Gateway!Task("publish", v5, FALSE) \in GatewayTaskType
          /\ ~Gateway!Task("publish", v5, FALSE).awaited
      BY DEF Gateway!Task, GatewayTaskType, Gateway!TypeOK
    <2>2. /\ v9' \in Seq(GatewayTaskType) /\ Gateway!AwaitedOnce'
          /\ Gateway!RemoveWaits => Gateway!RemoveWaits'
          /\ \A n \in 1..Len(v9') :
               v9'[n] = Gateway!Task("publish", v5, FALSE) \/ \E m \in 1..Len(v9) : v9'[n] = v9[m]
          /\ v9 # <<>> => v9' # <<>> /\ v9'[1] = v9[1]
      BY <1>1, <1>4, <2>1, GatewayQueuedKeeps
    <2>3. Gateway!NewestLives' /\ Gateway!StopIsLast'
      BY <1>1, <1>2 DEF Gateway!NewestLives, Gateway!StopIsLast, Gateway!Alive, Gateway!Head1
    <2>4. Gateway!DescriptorOK'
      BY <1>1, <1>2, <2>2 DEF Gateway!DescriptorOK
    <2>5. ASSUME NEW n \in 1..Len(v9')
          PROVE  /\ v9'[n].gateway <= Gateway!Newest'
                 /\ v9'[n].awaited =>
                      \/ v4' = "removing" /\ v9'[n] = Gateway!Task("remove", 0, TRUE)
                      \/ v4' = "publishing" /\ v9'[n] = Gateway!Task("publish", Gateway!Newest', TRUE)
      <3>1. CASE v9'[n] = Gateway!Task("publish", v5, FALSE)
        BY <1>1, <1>2, <1>4, <3>1 DEF Gateway!Task, Gateway!Numbered, Gateway!NewestLives
      <3>2. CASE \E m \in 1..Len(v9) : v9'[n] = v9[m]
        BY <1>1, <1>2, <3>2 DEF Gateway!TasksOK
      <3> QED BY <2>2, <3>1, <3>2
    <2>6. v10' # 0 => v9' # <<>> /\ v9'[1].op = "publish" /\ v9'[1].gateway = v10'
      BY <1>1, <2>2 DEF Gateway!TasksOK
    <2>7. Gateway!TasksOK'
      BY <2>5, <2>6 DEF Gateway!TasksOK, Gateway!Task
    <2> QED BY <1>2, <2>2, <2>3, <2>4, <2>7 DEF GatewayLine
  <1> QED BY <1>3, <1>4 DEF Gateway!Announces

(* A reconciliation begins with nothing.                                    *)
LEMMA GatewayStartKeeps ==
    ASSUME Gateway!Inv, NEW c \in GatewayCallers, Gateway!start(c)
    PROVE  Gateway!Inv'
  <1>1. /\ Gateway!TypeOK /\ GatewayLine /\ v2 \in [GatewayCallers -> GatewayCallType]
        /\ v8 \in [Gateway!Generations -> GatewayProcessType]
        /\ \A d \in GatewayCallers : GatewayCallWhole(d) /\ v2[d] \in GatewayCallType
    BY GatewayInvIs, GatewayTypesAre
  <1>2. UNCHANGED <<v3, v4, v5, v7, v8, v9, v10, v11, v12, v13>>
    BY DEF Gateway!start, Gateway!files
  <1>3. GatewayLine'
    BY <1>1, <1>2, GatewayLineStays DEF Gateway!files
  <1>4. /\ v2'[c] \in GatewayCallType /\ \A d \in GatewayCallers \ {c} : v2'[d] = v2[d]
        /\ v2' = [v2 EXCEPT ![c] = v2'[c]]
    BY <1>1 DEF Gateway!start, GatewayCallType, Gateway!NoCall, Gateway!Ends, Gateway!TypeOK
  <1>5. Gateway!TypeOK'
    <2>1. v2' \in [GatewayCallers -> GatewayCallType]
      BY <1>1, <1>4
    <2>2. UNCHANGED <<v1, v6, v15, v14>>
      BY DEF Gateway!start, Gateway!process
    <2> QED BY <1>1, <1>2, <2>1, <2>2, GatewayTypesAre DEF Gateway!TypeOK
  <1>6. ASSUME NEW d \in GatewayCallers PROVE GatewayCallWhole(d)'
    <2>1. CASE d # c
      BY <2>1, <1>1, <1>2, <1>4, GatewayCallFollows DEF GatewayCallWhole, Gateway!CallOK, GatewayCallType
    <2>2. CASE d = c
      BY <2>2, <1>1, <1>2, <1>4 DEF Gateway!start, Gateway!Ends, Gateway!Up, GatewayCallWhole,
         Gateway!CallOK, GatewayCallType, Gateway!NoCall, Gateway!TypeOK
    <2> QED BY <2>1, <2>2
  <1> QED BY <1>3, <1>5, <1>6, GatewayInvIs

(* A Reaction begins with nothing.                                          *)
LEMMA GatewayRunConversationReactionKeeps ==
    ASSUME Gateway!Inv, NEW c \in GatewayCallers, Gateway!runConversationReaction(c)
    PROVE  Gateway!Inv'
  <1>1. /\ Gateway!TypeOK /\ GatewayLine /\ v2 \in [GatewayCallers -> GatewayCallType]
        /\ v8 \in [Gateway!Generations -> GatewayProcessType]
        /\ \A d \in GatewayCallers : GatewayCallWhole(d) /\ v2[d] \in GatewayCallType
    BY GatewayInvIs, GatewayTypesAre
  <1>2. UNCHANGED <<v3, v4, v5, v7, v8, v9, v10, v11, v12, v13>>
    BY DEF Gateway!runConversationReaction, Gateway!files
  <1>3. GatewayLine'
    BY <1>1, <1>2, GatewayLineStays DEF Gateway!files
  <1>4. /\ v2'[c] \in GatewayCallType /\ \A d \in GatewayCallers \ {c} : v2'[d] = v2[d]
        /\ v2' = [v2 EXCEPT ![c] = v2'[c]]
    BY <1>1 DEF Gateway!runConversationReaction, GatewayCallType, Gateway!NoCall, Gateway!Ends,
       Gateway!TypeOK
  <1>5. Gateway!TypeOK'
    <2>1. v2' \in [GatewayCallers -> GatewayCallType]
      BY <1>1, <1>4
    <2>2. UNCHANGED <<v1, v6, v15, v14>>
      BY DEF Gateway!runConversationReaction, Gateway!process
    <2> QED BY <1>1, <1>2, <2>1, <2>2, GatewayTypesAre DEF Gateway!TypeOK
  <1>6. ASSUME NEW d \in GatewayCallers PROVE GatewayCallWhole(d)'
    <2>1. CASE d # c
      BY <2>1, <1>1, <1>2, <1>4, GatewayCallFollows DEF GatewayCallWhole, Gateway!CallOK, GatewayCallType
    <2>2. CASE d = c
      BY <2>2, <1>1, <1>2, <1>4 DEF Gateway!runConversationReaction, Gateway!Ends, Gateway!Up,
         GatewayCallWhole, Gateway!CallOK, GatewayCallType, Gateway!NoCall, Gateway!TypeOK
    <2> QED BY <2>1, <2>2
  <1> QED BY <1>3, <1>5, <1>6, GatewayInvIs

(* Who asks has read a projection.                                          *)
LEMMA GatewayReadSubjectOpenClawProjectionKeeps ==
    ASSUME Gateway!Inv, NEW c \in GatewayCallers, Gateway!readSubjectOpenClawProjection(c)
    PROVE  Gateway!Inv'
  <1>1. /\ Gateway!TypeOK /\ GatewayLine /\ v2 \in [GatewayCallers -> GatewayCallType]
        /\ v8 \in [Gateway!Generations -> GatewayProcessType]
        /\ \A d \in GatewayCallers : GatewayCallWhole(d) /\ v2[d] \in GatewayCallType
    BY GatewayInvIs, GatewayTypesAre
  <1>2. UNCHANGED <<v3, v4, v5, v7, v8, v9, v10, v11, v12, v13>>
    BY DEF Gateway!readSubjectOpenClawProjection, Gateway!files
  <1>3. GatewayLine'
    BY <1>1, <1>2, GatewayLineStays DEF Gateway!files
  <1>4. /\ v2'[c] \in GatewayCallType /\ \A d \in GatewayCallers \ {c} : v2'[d] = v2[d]
        /\ v2' = [v2 EXCEPT ![c] = v2'[c]]
    BY <1>1 DEF Gateway!readSubjectOpenClawProjection, GatewayCallType, Gateway!NoCall, Gateway!Ends,
       Gateway!TypeOK
  <1>5. Gateway!TypeOK'
    <2>1. v2' \in [GatewayCallers -> GatewayCallType]
      BY <1>1, <1>4
    <2>2. UNCHANGED <<v1, v6, v15, v14>>
      BY DEF Gateway!readSubjectOpenClawProjection, Gateway!process
    <2> QED BY <1>1, <1>2, <2>1, <2>2, GatewayTypesAre DEF Gateway!TypeOK
  <1>6. ASSUME NEW d \in GatewayCallers PROVE GatewayCallWhole(d)'
    <2>1. CASE d # c
      BY <2>1, <1>1, <1>2, <1>4, GatewayCallFollows DEF GatewayCallWhole, Gateway!CallOK, GatewayCallType
    <2>2. CASE d = c
      BY <2>2, <1>1, <1>2, <1>4 DEF Gateway!readSubjectOpenClawProjection, Gateway!Ends, Gateway!Up,
         GatewayCallWhole, Gateway!CallOK, GatewayCallType, Gateway!NoCall, Gateway!TypeOK
    <2> QED BY <2>1, <2>2
  <1> QED BY <1>3, <1>5, <1>6, GatewayInvIs

(* A run that is requested has its Gateway.                                 *)
LEMMA GatewayRequestAgentKeeps ==
    ASSUME Gateway!Inv, NEW c \in GatewayCallers, Gateway!requestAgent(c)
    PROVE  Gateway!Inv'
  <1>1. /\ Gateway!TypeOK /\ GatewayLine /\ v2 \in [GatewayCallers -> GatewayCallType]
        /\ v8 \in [Gateway!Generations -> GatewayProcessType]
        /\ \A d \in GatewayCallers : GatewayCallWhole(d) /\ v2[d] \in GatewayCallType
    BY GatewayInvIs, GatewayTypesAre
  <1>2. UNCHANGED <<v3, v4, v5, v7, v8, v9, v10, v11, v12, v13>>
    BY DEF Gateway!requestAgent, Gateway!files
  <1>3. GatewayLine'
    BY <1>1, <1>2, GatewayLineStays DEF Gateway!files
  <1>4. /\ v2'[c] \in GatewayCallType /\ \A d \in GatewayCallers \ {c} : v2'[d] = v2[d]
        /\ v2' = [v2 EXCEPT ![c] = v2'[c]]
    BY <1>1 DEF Gateway!requestAgent, GatewayCallType, Gateway!NoCall, Gateway!Ends, Gateway!TypeOK
  <1>5. Gateway!TypeOK'
    <2>1. v2' \in [GatewayCallers -> GatewayCallType]
      BY <1>1, <1>4
    <2>2. UNCHANGED <<v1, v6, v15, v14>>
      BY DEF Gateway!requestAgent, Gateway!process
    <2> QED BY <1>1, <1>2, <2>1, <2>2, GatewayTypesAre DEF Gateway!TypeOK
  <1>6. ASSUME NEW d \in GatewayCallers PROVE GatewayCallWhole(d)'
    <2>1. CASE d # c
      BY <2>1, <1>1, <1>2, <1>4, GatewayCallFollows DEF GatewayCallWhole, Gateway!CallOK, GatewayCallType
    <2>2. CASE d = c
      BY <2>2, <1>1, <1>2, <1>4 DEF Gateway!requestAgent, Gateway!Ends, Gateway!Up, GatewayCallWhole,
         Gateway!CallOK, GatewayCallType, Gateway!NoCall, Gateway!TypeOK
    <2> QED BY <2>1, <2>2
  <1> QED BY <1>3, <1>5, <1>6, GatewayInvIs

(* A run that ends is forgotten.                                            *)
LEMMA GatewayRunEndsKeeps ==
    ASSUME Gateway!Inv, NEW c \in GatewayCallers, Gateway!RunEnds(c)
    PROVE  Gateway!Inv'
  <1>1. /\ Gateway!TypeOK /\ GatewayLine /\ v2 \in [GatewayCallers -> GatewayCallType]
        /\ v8 \in [Gateway!Generations -> GatewayProcessType]
        /\ \A d \in GatewayCallers : GatewayCallWhole(d) /\ v2[d] \in GatewayCallType
    BY GatewayInvIs, GatewayTypesAre
  <1>2. UNCHANGED <<v3, v4, v5, v7, v8, v10, v11, v12, v13>> /\ (Gateway!Announces \/ v9' = v9)
    BY DEF Gateway!RunEnds
  <1>3. GatewayLine' /\ v9' \in Seq(GatewayTaskType)
    BY <1>1, <1>2, GatewayAnnouncesKeeps
  <1>4. /\ v2'[c] \in GatewayCallType /\ \A d \in GatewayCallers \ {c} : v2'[d] = v2[d]
        /\ v2' = [v2 EXCEPT ![c] = v2'[c]]
    BY <1>1 DEF Gateway!RunEnds, GatewayCallType, Gateway!NoCall, Gateway!Ends, Gateway!TypeOK
  <1>5. Gateway!TypeOK'
    <2>1. v2' \in [GatewayCallers -> GatewayCallType]
      BY <1>1, <1>4
    <2>2. UNCHANGED <<v1, v6, v15, v14>>
      BY DEF Gateway!RunEnds, Gateway!process
    <2> QED BY <1>1, <1>2, <1>3, <2>1, <2>2, GatewayTypesAre DEF Gateway!TypeOK
  <1>6. ASSUME NEW d \in GatewayCallers PROVE GatewayCallWhole(d)'
    <2>1. CASE d # c
      BY <2>1, <1>1, <1>2, <1>4, GatewayCallFollows DEF GatewayCallWhole, Gateway!CallOK, GatewayCallType
    <2>2. CASE d = c
      BY <2>2, <1>1, <1>2, <1>4 DEF Gateway!RunEnds, Gateway!Ends, Gateway!Up, GatewayCallWhole,
         Gateway!CallOK, GatewayCallType, Gateway!NoCall, Gateway!TypeOK
    <2> QED BY <2>1, <2>2
  <1> QED BY <1>3, <1>5, <1>6, GatewayInvIs

(* A call that fails is forgotten.                                          *)
LEMMA GatewayCallFailsKeeps ==
    ASSUME Gateway!Inv, NEW c \in GatewayCallers, Gateway!CallFails(c)
    PROVE  Gateway!Inv'
  <1>1. /\ Gateway!TypeOK /\ GatewayLine /\ v2 \in [GatewayCallers -> GatewayCallType]
        /\ v8 \in [Gateway!Generations -> GatewayProcessType]
        /\ \A d \in GatewayCallers : GatewayCallWhole(d) /\ v2[d] \in GatewayCallType
    BY GatewayInvIs, GatewayTypesAre
  <1>2. UNCHANGED <<v3, v4, v5, v7, v8, v10, v11, v12, v13>> /\ (Gateway!Announces \/ v9' = v9)
    BY DEF Gateway!CallFails
  <1>3. GatewayLine' /\ v9' \in Seq(GatewayTaskType)
    BY <1>1, <1>2, GatewayAnnouncesKeeps
  <1>4. /\ v2'[c] \in GatewayCallType /\ \A d \in GatewayCallers \ {c} : v2'[d] = v2[d]
        /\ v2' = [v2 EXCEPT ![c] = v2'[c]]
    BY <1>1 DEF Gateway!CallFails, GatewayCallType, Gateway!NoCall, Gateway!Ends, Gateway!TypeOK
  <1>5. Gateway!TypeOK'
    <2>1. v2' \in [GatewayCallers -> GatewayCallType]
      BY <1>1, <1>4
    <2>2. UNCHANGED <<v1, v6, v15, v14>>
      BY DEF Gateway!CallFails, Gateway!process
    <2> QED BY <1>1, <1>2, <1>3, <2>1, <2>2, GatewayTypesAre DEF Gateway!TypeOK
  <1>6. ASSUME NEW d \in GatewayCallers PROVE GatewayCallWhole(d)'
    <2>1. CASE d # c
      BY <2>1, <1>1, <1>2, <1>4, GatewayCallFollows DEF GatewayCallWhole, Gateway!CallOK, GatewayCallType
    <2>2. CASE d = c
      BY <2>2, <1>1, <1>2, <1>4 DEF Gateway!CallFails, Gateway!Ends, Gateway!Up, GatewayCallWhole,
         Gateway!CallOK, GatewayCallType, Gateway!NoCall, Gateway!TypeOK
    <2> QED BY <2>1, <2>2
  <1> QED BY <1>3, <1>5, <1>6, GatewayInvIs

(* A transition that has nothing to do ends.                                *)
LEMMA GatewayNothingToStartKeeps ==
    ASSUME Gateway!Inv, Gateway!NothingToStart
    PROVE  Gateway!Inv'
  <1>1. /\ Gateway!TypeOK /\ Gateway!Numbered /\ Gateway!NewestLives /\ Gateway!StopIsLast
        /\ Gateway!TasksOK /\ Gateway!AwaitedOnce /\ Gateway!DescriptorOK
        /\ \A d \in GatewayCallers : GatewayCallWhole(d) /\ v2[d] \in GatewayCallType
        /\ v2 \in [GatewayCallers -> GatewayCallType] /\ v8 \in [Gateway!Generations -> GatewayProcessType]
        /\ v9 \in Seq(GatewayTaskType)
    BY GatewayInvIs, GatewayTypesAre DEF GatewayLine
  <1>2. Gateway!Newest' = Gateway!Newest /\ Gateway!Numbered'
    BY <1>1, GatewayNewestStays DEF Gateway!NothingToStart, Gateway!process, Gateway!files
  <1>3. Gateway!AwaitedOnce' /\ (Gateway!RemoveWaits => Gateway!RemoveWaits')
    BY <1>1 DEF Gateway!AwaitedOnce, Gateway!RemoveWaits, Gateway!NothingToStart, Gateway!process,
       Gateway!files
  <1>4. /\ v3 # <<>>
        /\ v3' \in Seq(Projections \cup {"stop"}) /\ v4' = "idle"
        /\ \A n \in 1..Len(v3') :
             v3'[n] = "stop" => n = Len(v3') /\ v12 = "asked"
        /\ Gateway!Head1 = "stop" => v3' = <<>>
    BY <1>1, GatewaySettlesKeeps DEF Gateway!NothingToStart, Gateway!StopIsLast, Gateway!Underway
  <1>5. /\ v2' \in [GatewayCallers -> GatewayCallType]
        /\ \A c \in GatewayCallers :
             \/ v2'[c] = v2[c]
             \/ v2'[c] = Gateway!NoCall
             \/ /\ v5 \in Gateway!Generations /\ v2'[c].pc = "run"
                /\ v2'[c].gateway = v5
                /\ v2'[c].projection = Gateway!Head1
                /\ v8[v5].of = Gateway!Head1 /\ v8[v5].state # "none"
    <2>1. CASE v7
      <3>1. v2' = Gateway!Resolved(Gateway!Head1, 0)
        BY <2>1 DEF Gateway!NothingToStart
      <3> QED BY <1>1, <3>1, GatewayResolvedIs
    <2>2. CASE ~v7
      <3>1. /\ v2' = Gateway!Resolved(Gateway!Head1, v5) /\ v5 \in Gateway!Generations
            /\ v8[v5].of = Gateway!Head1 /\ v8[v5].state # "none"
        BY <1>1, <2>2 DEF Gateway!NothingToStart, Gateway!Serves, Gateway!NewestLives, Gateway!TypeOK
      <3>2. v5 \in {0} \cup Gateway!Generations
        BY <3>1
      <3> QED BY <1>1, <3>1, <3>2, GatewayResolvedIs
    <2> QED BY <2>1, <2>2
  <1>6. Gateway!TypeOK'
    <2>1. v2' \in [GatewayCallers -> GatewayCallType] /\ v8' \in [Gateway!Generations -> GatewayProcessType]
      BY <1>1, <1>2, <1>3, <1>4, <1>5 DEF Gateway!NothingToStart, Gateway!process, Gateway!files
    <2>2. v9' \in Seq(GatewayTaskType) /\ v3' \in Seq(Projections \cup {"stop"}) /\ v1' \in Projections
      BY <1>1, <1>2, <1>3, <1>4, <1>5 DEF Gateway!NothingToStart, Gateway!process, Gateway!files,
         Gateway!TypeOK
    <2>3. /\ v4' \in {"idle", "stopping", "removing", "starting", "publishing", "abandoning"}
          /\ v6' \in {"STOPPED", "STARTING", "READY", "FAILED", "STOPPING"}
          /\ v12' \in {"no", "asked", "done", "failed"}
      BY <1>1, <1>2, <1>3, <1>4, <1>5 DEF Gateway!NothingToStart, Gateway!process, Gateway!files,
         Gateway!TypeOK
    <2>4. {v5', v11', v10'} \subseteq {0} \cup Gateway!Generations /\ v13' \subseteq Gateway!Generations
      BY <1>1, <1>2, <1>3, <1>4, <1>5 DEF Gateway!NothingToStart, Gateway!process, Gateway!files,
         Gateway!TypeOK
    <2>5. v7' \in BOOLEAN
      BY <1>1, <1>2, <1>3, <1>4, <1>5 DEF Gateway!NothingToStart, Gateway!process, Gateway!files,
         Gateway!TypeOK
    <2>6. v15' \in 0..GatewayFaults /\ v14' \in 0..GatewayChanges
      BY <1>1, <1>2, <1>3, <1>4, <1>5, GatewayAssumption DEF Gateway!NothingToStart, Gateway!process,
         Gateway!files, Gateway!TypeOK, Gateway!Fault
    <2> QED BY <2>1, <2>2, <2>3, <2>4, <2>5, <2>6, GatewayTypesAre
  <1>7. Gateway!NewestLives'
    BY <1>1, <1>2, <1>3, <1>4, <1>5 DEF Gateway!NothingToStart, Gateway!process, Gateway!files,
       Gateway!NewestLives, Gateway!Alive, Gateway!Head1,
       Gateway!Underway, Gateway!TypeOK
  <1>8. Gateway!StopIsLast'
    BY <1>1, <1>2, <1>3, <1>4, <1>5 DEF Gateway!NothingToStart, Gateway!process, Gateway!files,
       Gateway!StopIsLast, Gateway!NewestLives,
       Gateway!Underway
  <1>9. Gateway!TasksOK'
    BY <1>1, <1>2, <1>3, <1>4, <1>5 DEF Gateway!NothingToStart, Gateway!process, Gateway!files,
       Gateway!TasksOK, Gateway!Task, Gateway!Underway
  <1>10. Gateway!DescriptorOK'
    BY <1>1, <1>2, <1>3, <1>4, <1>5 DEF Gateway!NothingToStart, Gateway!process, Gateway!files,
       Gateway!DescriptorOK, Gateway!NewestLives,
       Gateway!Underway
  <1>11. ASSUME NEW d \in GatewayCallers PROVE GatewayCallWhole(d)'
    <2>1. v2'[d] \in GatewayCallType /\ v2[d] \in GatewayCallType /\ GatewayCallWhole(d)
      BY <1>1, <1>5 DEF Gateway!NothingToStart
    <2>2. \A h \in Gateway!Generations : v8[h].state # "none" =>
            v8'[h].state # "none" /\ v8'[h].of = v8[h].of
      BY <1>1, <1>5 DEF Gateway!NothingToStart, Gateway!process, Gateway!files
    <2>3. v2'[d] = v2[d] /\ v2[d].pc = "waiting" => v8'[v2[d].gateway].state = "up"
      BY <1>1, <1>5 DEF Gateway!NothingToStart, GatewayCallWhole, Gateway!CallOK, GatewayCallType
    <2>4. \/ v2'[d] = v2[d] \/ v2'[d] = Gateway!NoCall
          \/ /\ v2'[d].gateway \in Gateway!Generations /\ v2'[d].pc \in {"run", "requested", "settling"}
             /\ v8'[v2'[d].gateway].state # "none"
             /\ v8'[v2'[d].gateway].of = v2'[d].projection
      BY <1>1, <1>5 DEF Gateway!NothingToStart
    <2> QED BY <2>1, <2>2, <2>3, <2>4, GatewayCallFollows
  <1> QED BY <1>2, <1>3, <1>4, <1>5, <1>6, <1>7, <1>8, <1>9, <1>10, <1>11, GatewayInvIs DEF GatewayLine

(* The Gateway that runs is asked to end.                                   *)
LEMMA GatewayStopPreviousKeeps ==
    ASSUME Gateway!Inv, Gateway!StopPrevious
    PROVE  Gateway!Inv'
  <1>1. /\ Gateway!TypeOK /\ Gateway!Numbered /\ Gateway!NewestLives /\ Gateway!StopIsLast
        /\ Gateway!TasksOK /\ Gateway!AwaitedOnce /\ Gateway!DescriptorOK
        /\ \A d \in GatewayCallers : GatewayCallWhole(d) /\ v2[d] \in GatewayCallType
        /\ v2 \in [GatewayCallers -> GatewayCallType] /\ v8 \in [Gateway!Generations -> GatewayProcessType]
        /\ v9 \in Seq(GatewayTaskType)
    BY GatewayInvIs, GatewayTypesAre DEF GatewayLine
  <1>2. v5 \in Gateway!Generations /\ v8[v5].state = "up" /\ Gateway!Newest = v5
    BY <1>1 DEF Gateway!StopPrevious, Gateway!NewestLives, Gateway!TypeOK
  <1>3. /\ v8' \in [Gateway!Generations -> GatewayProcessType] /\ Gateway!Newest' = Gateway!Newest
        /\ Gateway!Numbered'
        /\ v8'[v5].state = "stopping"
        /\ \A h \in Gateway!Generations : v8'[h].of = v8[h].of
        /\ \A h \in Gateway!Generations \ {v5} : v8'[h] = v8[h]
    BY <1>1, <1>2, GatewayBecomesIs DEF Gateway!StopPrevious
  <1>4. Gateway!AwaitedOnce' /\ (Gateway!RemoveWaits => Gateway!RemoveWaits')
    BY <1>1 DEF Gateway!AwaitedOnce, Gateway!RemoveWaits, Gateway!StopPrevious, Gateway!process, Gateway!files
  <1>5. /\ v2' \in [GatewayCallers -> GatewayCallType]
        /\ \A c \in GatewayCallers :
             \/ v2'[c] = v2[c] /\ ~(v2[c].pc = "waiting" /\ v2[c].gateway = v5)
             \/ v2'[c] = Gateway!NoCall
    BY <1>1, GatewayRejectedIs DEF Gateway!StopPrevious
  <1>6. Gateway!TypeOK'
    <2>1. v2' \in [GatewayCallers -> GatewayCallType] /\ v8' \in [Gateway!Generations -> GatewayProcessType]
      BY <1>1, <1>2, <1>3, <1>4, <1>5 DEF Gateway!StopPrevious, Gateway!process, Gateway!files
    <2>2. v9' \in Seq(GatewayTaskType) /\ v3' \in Seq(Projections \cup {"stop"}) /\ v1' \in Projections
      BY <1>1, <1>2, <1>3, <1>4, <1>5 DEF Gateway!StopPrevious, Gateway!process, Gateway!files,
         Gateway!TypeOK
    <2>3. /\ v4' \in {"idle", "stopping", "removing", "starting", "publishing", "abandoning"}
          /\ v6' \in {"STOPPED", "STARTING", "READY", "FAILED", "STOPPING"}
          /\ v12' \in {"no", "asked", "done", "failed"}
      BY <1>1, <1>2, <1>3, <1>4, <1>5 DEF Gateway!StopPrevious, Gateway!process, Gateway!files,
         Gateway!TypeOK
    <2>4. {v5', v11', v10'} \subseteq {0} \cup Gateway!Generations /\ v13' \subseteq Gateway!Generations
      BY <1>1, <1>2, <1>3, <1>4, <1>5 DEF Gateway!StopPrevious, Gateway!process, Gateway!files,
         Gateway!TypeOK
    <2>5. v7' \in BOOLEAN
      BY <1>1, <1>2, <1>3, <1>4, <1>5 DEF Gateway!StopPrevious, Gateway!process, Gateway!files,
         Gateway!TypeOK
    <2>6. v15' \in 0..GatewayFaults /\ v14' \in 0..GatewayChanges
      BY <1>1, <1>2, <1>3, <1>4, <1>5, GatewayAssumption DEF Gateway!StopPrevious, Gateway!process,
         Gateway!files, Gateway!TypeOK, Gateway!Fault
    <2> QED BY <2>1, <2>2, <2>3, <2>4, <2>5, <2>6, GatewayTypesAre
  <1>7. Gateway!NewestLives'
    BY <1>1, <1>2, <1>3, <1>4, <1>5 DEF Gateway!StopPrevious, Gateway!process, Gateway!files,
       Gateway!NewestLives, Gateway!Alive, Gateway!Head1,
       Gateway!Underway, Gateway!TypeOK
  <1>8. Gateway!StopIsLast'
    BY <1>1, <1>2, <1>3, <1>4, <1>5 DEF Gateway!StopPrevious, Gateway!process, Gateway!files,
       Gateway!StopIsLast, Gateway!NewestLives, Gateway!Underway
  <1>9. Gateway!TasksOK'
    BY <1>1, <1>2, <1>3, <1>4, <1>5 DEF Gateway!StopPrevious, Gateway!process, Gateway!files,
       Gateway!TasksOK, Gateway!Task, Gateway!Underway
  <1>10. Gateway!DescriptorOK'
    BY <1>1, <1>2, <1>3, <1>4, <1>5 DEF Gateway!StopPrevious, Gateway!process, Gateway!files,
       Gateway!DescriptorOK, Gateway!NewestLives,
       Gateway!Underway
  <1>11. ASSUME NEW d \in GatewayCallers PROVE GatewayCallWhole(d)'
    <2>1. v2'[d] \in GatewayCallType /\ v2[d] \in GatewayCallType /\ GatewayCallWhole(d)
      BY <1>1, <1>2, <1>3, <1>5 DEF Gateway!StopPrevious
    <2>2. \A h \in Gateway!Generations : v8[h].state # "none" =>
            v8'[h].state # "none" /\ v8'[h].of = v8[h].of
      BY <1>1, <1>2, <1>3, <1>5 DEF Gateway!StopPrevious, Gateway!process, Gateway!files
    <2>3. v2'[d] = v2[d] /\ v2[d].pc = "waiting" => v8'[v2[d].gateway].state = "up"
      BY <1>1, <1>2, <1>3, <1>5 DEF GatewayCallWhole, Gateway!CallOK, GatewayCallType, Gateway!NoCall
    <2>4. \/ v2'[d] = v2[d] \/ v2'[d] = Gateway!NoCall
          \/ /\ v2'[d].gateway \in Gateway!Generations /\ v2'[d].pc \in {"run", "requested", "settling"}
             /\ v8'[v2'[d].gateway].state # "none"
             /\ v8'[v2'[d].gateway].of = v2'[d].projection
      BY <1>1, <1>2, <1>3, <1>5 DEF Gateway!StopPrevious
    <2> QED BY <2>1, <2>2, <2>3, <2>4, GatewayCallFollows
  <1> QED BY <1>2, <1>3, <1>4, <1>5, <1>6, <1>7, <1>8, <1>9, <1>10, <1>11, GatewayInvIs DEF GatewayLine

(* The process ends in time.                                                *)
LEMMA GatewayGatewayStopsKeeps ==
    ASSUME Gateway!Inv, Gateway!GatewayStops
    PROVE  Gateway!Inv'
  <1>1. /\ Gateway!TypeOK /\ Gateway!Numbered /\ Gateway!NewestLives /\ Gateway!StopIsLast
        /\ Gateway!TasksOK /\ Gateway!AwaitedOnce /\ Gateway!DescriptorOK
        /\ \A d \in GatewayCallers : GatewayCallWhole(d) /\ v2[d] \in GatewayCallType
        /\ v2 \in [GatewayCallers -> GatewayCallType] /\ v8 \in [Gateway!Generations -> GatewayProcessType]
        /\ v9 \in Seq(GatewayTaskType)
    BY GatewayInvIs, GatewayTypesAre DEF GatewayLine
  <1>2. /\ Gateway!Newest \in Gateway!Generations /\ v8[Gateway!Newest].state = "stopping"
        /\ v8' = Gateway!Becomes(Gateway!Newest, "gone")
    BY <1>1 DEF Gateway!GatewayStops, Gateway!NewestLives, Gateway!Alive
  <1>3. /\ v8' \in [Gateway!Generations -> GatewayProcessType] /\ Gateway!Newest' = Gateway!Newest
        /\ Gateway!Numbered'
        /\ v8'[Gateway!Newest].state = "gone"
        /\ \A h \in Gateway!Generations : v8'[h].of = v8[h].of
        /\ \A h \in Gateway!Generations \ {Gateway!Newest} : v8'[h] = v8[h]
    BY <1>1, <1>2, GatewayBecomesIs
  <1>4. /\ Gateway!Task("remove", 0, TRUE) \in GatewayTaskType
        /\ v9' \in Seq(GatewayTaskType) /\ Gateway!AwaitedOnce' /\ (Gateway!RemoveWaits => Gateway!RemoveWaits')
        /\ Gateway!Task("remove", 0, TRUE).op = "remove" => Gateway!RemoveWaits'
        /\ \A n \in 1..Len(v9') :
             \/ v9'[n] = Gateway!Task("remove", 0, TRUE)
             \/ \E m \in 1..Len(v9) : v9'[n] = v9[m]
        /\ v9 # <<>> => v9' # <<>> /\ v9'[1] = v9[1]
    <2>1. Gateway!Task("remove", 0, TRUE) \in GatewayTaskType
      BY <1>1 DEF Gateway!GatewayStops, Gateway!Task, GatewayTaskType
    <2>2. Gateway!Task("remove", 0, TRUE).awaited =>
            \A n \in 1..Len(v9) : ~v9[n].awaited
      BY <1>1 DEF Gateway!GatewayStops, Gateway!Task, Gateway!TasksOK, Gateway!Underway
    <2>3. v9' = Gateway!Queued(Gateway!Task("remove", 0, TRUE))
      BY DEF Gateway!GatewayStops
    <2> QED BY <1>1, <2>1, <2>2, <2>3, GatewayQueuedKeeps
  <1>5. Gateway!RemoveWaits'
    BY <1>4 DEF Gateway!Task
  <1>6. Gateway!TypeOK'
    <2>1. v2' \in [GatewayCallers -> GatewayCallType] /\ v8' \in [Gateway!Generations -> GatewayProcessType]
      BY <1>1, <1>2, <1>3, <1>4, <1>5 DEF Gateway!GatewayStops, Gateway!process, Gateway!files
    <2>2. v9' \in Seq(GatewayTaskType) /\ v3' \in Seq(Projections \cup {"stop"}) /\ v1' \in Projections
      BY <1>1, <1>2, <1>3, <1>4, <1>5 DEF Gateway!GatewayStops, Gateway!process, Gateway!files,
         Gateway!TypeOK
    <2>3. /\ v4' \in {"idle", "stopping", "removing", "starting", "publishing", "abandoning"}
          /\ v6' \in {"STOPPED", "STARTING", "READY", "FAILED", "STOPPING"}
          /\ v12' \in {"no", "asked", "done", "failed"}
      BY <1>1, <1>2, <1>3, <1>4, <1>5 DEF Gateway!GatewayStops, Gateway!process, Gateway!files,
         Gateway!TypeOK
    <2>4. {v5', v11', v10'} \subseteq {0} \cup Gateway!Generations /\ v13' \subseteq Gateway!Generations
      BY <1>1, <1>2, <1>3, <1>4, <1>5 DEF Gateway!GatewayStops, Gateway!process, Gateway!files,
         Gateway!TypeOK
    <2>5. v7' \in BOOLEAN
      BY <1>1, <1>2, <1>3, <1>4, <1>5 DEF Gateway!GatewayStops, Gateway!process, Gateway!files,
         Gateway!TypeOK
    <2>6. v15' \in 0..GatewayFaults /\ v14' \in 0..GatewayChanges
      BY <1>1, <1>2, <1>3, <1>4, <1>5, GatewayAssumption DEF Gateway!GatewayStops, Gateway!process,
         Gateway!files, Gateway!TypeOK, Gateway!Fault
    <2> QED BY <2>1, <2>2, <2>3, <2>4, <2>5, <2>6, GatewayTypesAre
  <1>7. Gateway!NewestLives'
    BY <1>1, <1>2, <1>3, <1>4, <1>5 DEF Gateway!GatewayStops, Gateway!process, Gateway!files,
       Gateway!NewestLives, Gateway!Alive, Gateway!Head1,
       Gateway!Underway, Gateway!TypeOK
  <1>8. Gateway!StopIsLast'
    BY <1>1, <1>2, <1>3, <1>4, <1>5 DEF Gateway!GatewayStops, Gateway!process, Gateway!files,
       Gateway!StopIsLast, Gateway!NewestLives, Gateway!Underway
  <1>9. Gateway!TasksOK'
    <2>1. ASSUME NEW n \in 1..Len(v9')
          PROVE  /\ v9'[n].gateway <= Gateway!Newest'
                 /\ v9'[n].awaited =>
                      \/ v4' = "removing" /\ v9'[n] = Gateway!Task("remove", 0, TRUE)
                      \/ v4' = "publishing" /\ v9'[n] = Gateway!Task("publish", Gateway!Newest', TRUE)
      <3>1. CASE v9'[n] = Gateway!Task("remove", 0, TRUE)
        BY <1>1, <1>3, <3>1 DEF Gateway!GatewayStops, Gateway!Task, Gateway!Numbered
      <3>2. CASE \E m \in 1..Len(v9) : v9'[n] = v9[m]
        BY <1>1, <1>3, <3>2 DEF Gateway!GatewayStops, Gateway!TasksOK, Gateway!Underway
      <3> QED BY <1>4, <3>1, <3>2
    <2>2. v10' # 0 => v9' # <<>> /\ v9'[1].op = "publish" /\ v9'[1].gateway = v10'
      BY <1>1, <1>4 DEF Gateway!GatewayStops, Gateway!TasksOK
    <2> QED BY <2>1, <2>2 DEF Gateway!TasksOK, Gateway!Task
  <1>10. Gateway!DescriptorOK'
    <2> SUFFICES ASSUME NEW d \in {v11', v10'} \ {0}
                 PROVE  /\ d <= Gateway!Newest'
                        /\ \/ d \in v13' \/ Gateway!RemoveWaits'
                           \/ d = Gateway!Newest' /\ (v5' = d \/ v4' = "stopping")
      BY DEF Gateway!DescriptorOK
    <2> QED BY <1>1, <1>2, <1>3, <1>5 DEF Gateway!GatewayStops, Gateway!DescriptorOK
  <1>11. ASSUME NEW d \in GatewayCallers PROVE GatewayCallWhole(d)'
    <2>1. v2'[d] \in GatewayCallType /\ v2[d] \in GatewayCallType /\ GatewayCallWhole(d)
      BY <1>1, <1>2, <1>3 DEF Gateway!GatewayStops
    <2>2. \A h \in Gateway!Generations : v8[h].state # "none" =>
            v8'[h].state # "none" /\ v8'[h].of = v8[h].of
      BY <1>1, <1>2, <1>3 DEF Gateway!GatewayStops, Gateway!process, Gateway!files
    <2>3. v2'[d] = v2[d] /\ v2[d].pc = "waiting" => v8'[v2[d].gateway].state = "up"
      BY <1>1, <1>2, <1>3 DEF Gateway!GatewayStops, GatewayCallWhole, Gateway!CallOK, GatewayCallType
    <2>4. \/ v2'[d] = v2[d] \/ v2'[d] = Gateway!NoCall
          \/ /\ v2'[d].gateway \in Gateway!Generations /\ v2'[d].pc \in {"run", "requested", "settling"}
             /\ v8'[v2'[d].gateway].state # "none"
             /\ v8'[v2'[d].gateway].of = v2'[d].projection
      BY <1>1, <1>2, <1>3 DEF Gateway!GatewayStops
    <2> QED BY <2>1, <2>2, <2>3, <2>4, GatewayCallFollows
  <1> QED BY <1>2, <1>3, <1>4, <1>5, <1>6, <1>7, <1>8, <1>9, <1>10, <1>11, GatewayInvIs DEF GatewayLine

(* The stop is asked for.                                                   *)
LEMMA GatewayStopKeeps ==
    ASSUME Gateway!Inv, Gateway!stop
    PROVE  Gateway!Inv'
  <1>1. /\ Gateway!TypeOK /\ Gateway!Numbered /\ Gateway!NewestLives /\ Gateway!StopIsLast
        /\ Gateway!TasksOK /\ Gateway!AwaitedOnce /\ Gateway!DescriptorOK
        /\ \A d \in GatewayCallers : GatewayCallWhole(d) /\ v2[d] \in GatewayCallType
        /\ v2 \in [GatewayCallers -> GatewayCallType] /\ v8 \in [Gateway!Generations -> GatewayProcessType]
        /\ v9 \in Seq(GatewayTaskType)
    BY GatewayInvIs, GatewayTypesAre DEF GatewayLine
  <1>2. Gateway!Newest' = Gateway!Newest /\ Gateway!Numbered'
    BY <1>1, GatewayNewestStays DEF Gateway!stop, Gateway!process, Gateway!files
  <1>3. Gateway!AwaitedOnce' /\ (Gateway!RemoveWaits => Gateway!RemoveWaits')
    BY <1>1 DEF Gateway!AwaitedOnce, Gateway!RemoveWaits, Gateway!stop, Gateway!process, Gateway!files
  <1>4. /\ v3' \in Seq(Projections \cup {"stop"}) /\ v3' # <<>>
        /\ \A n \in 1..Len(v3') : v3'[n] = "stop" => n = Len(v3')
        /\ v3 # <<>> => Gateway!Head1' = Gateway!Head1
    <2>1. v3 \in Seq(Projections \cup {"stop"}) /\ \A n \in 1..Len(v3) : v3[n] # "stop"
      BY <1>1 DEF Gateway!stop, Gateway!StopIsLast, Gateway!TypeOK
    <2> QED BY <2>1 DEF Gateway!stop, Gateway!Head1
  <1>5. Gateway!TypeOK'
    <2>1. v2' \in [GatewayCallers -> GatewayCallType] /\ v8' \in [Gateway!Generations -> GatewayProcessType]
      BY <1>1, <1>2, <1>3, <1>4 DEF Gateway!stop, Gateway!process, Gateway!files
    <2>2. v9' \in Seq(GatewayTaskType) /\ v3' \in Seq(Projections \cup {"stop"}) /\ v1' \in Projections
      BY <1>1, <1>2, <1>3, <1>4 DEF Gateway!stop, Gateway!process, Gateway!files, Gateway!TypeOK
    <2>3. /\ v4' \in {"idle", "stopping", "removing", "starting", "publishing", "abandoning"}
          /\ v6' \in {"STOPPED", "STARTING", "READY", "FAILED", "STOPPING"}
          /\ v12' \in {"no", "asked", "done", "failed"}
      BY <1>1, <1>2, <1>3, <1>4 DEF Gateway!stop, Gateway!process, Gateway!files, Gateway!TypeOK
    <2>4. {v5', v11', v10'} \subseteq {0} \cup Gateway!Generations /\ v13' \subseteq Gateway!Generations
      BY <1>1, <1>2, <1>3, <1>4 DEF Gateway!stop, Gateway!process, Gateway!files, Gateway!TypeOK
    <2>5. v7' \in BOOLEAN
      BY <1>1, <1>2, <1>3, <1>4 DEF Gateway!stop, Gateway!process, Gateway!files, Gateway!TypeOK
    <2>6. v15' \in 0..GatewayFaults /\ v14' \in 0..GatewayChanges
      BY <1>1, <1>2, <1>3, <1>4, GatewayAssumption DEF Gateway!stop, Gateway!process, Gateway!files,
         Gateway!TypeOK, Gateway!Fault
    <2> QED BY <2>1, <2>2, <2>3, <2>4, <2>5, <2>6, GatewayTypesAre
  <1>6. Gateway!NewestLives'
    <2>1. v4 # "idle" => Gateway!Head1' = Gateway!Head1
      BY <1>1, <1>4 DEF Gateway!StopIsLast
    <2> QED BY <1>1, <1>2, <2>1 DEF Gateway!stop, Gateway!NewestLives, Gateway!Alive
  <1>7. Gateway!StopIsLast'
    BY <1>1, <1>2, <1>3, <1>4 DEF Gateway!stop, Gateway!process, Gateway!files, Gateway!StopIsLast,
       Gateway!NewestLives, Gateway!Underway
  <1>8. Gateway!TasksOK'
    BY <1>1, <1>2, <1>3, <1>4 DEF Gateway!stop, Gateway!process, Gateway!files, Gateway!TasksOK,
       Gateway!Task, Gateway!Underway
  <1>9. Gateway!DescriptorOK'
    BY <1>1, <1>2, <1>3, <1>4 DEF Gateway!stop, Gateway!process, Gateway!files, Gateway!DescriptorOK,
       Gateway!NewestLives, Gateway!Underway
  <1>10. ASSUME NEW d \in GatewayCallers PROVE GatewayCallWhole(d)'
    <2>1. v2'[d] \in GatewayCallType /\ v2[d] \in GatewayCallType /\ GatewayCallWhole(d)
      BY <1>1, <1>2 DEF Gateway!stop
    <2>2. \A h \in Gateway!Generations : v8[h].state # "none" =>
            v8'[h].state # "none" /\ v8'[h].of = v8[h].of
      BY <1>1, <1>2 DEF Gateway!stop, Gateway!process, Gateway!files
    <2>3. v2'[d] = v2[d] /\ v2[d].pc = "waiting" => v8'[v2[d].gateway].state = "up"
      BY <1>1, <1>2 DEF Gateway!stop, GatewayCallWhole, Gateway!CallOK, GatewayCallType
    <2>4. \/ v2'[d] = v2[d] \/ v2'[d] = Gateway!NoCall
          \/ /\ v2'[d].gateway \in Gateway!Generations /\ v2'[d].pc \in {"run", "requested", "settling"}
             /\ v8'[v2'[d].gateway].state # "none"
             /\ v8'[v2'[d].gateway].of = v2'[d].projection
      BY <1>1, <1>2 DEF Gateway!stop
    <2> QED BY <2>1, <2>2, <2>3, <2>4, GatewayCallFollows
  <1> QED BY <1>2, <1>3, <1>4, <1>5, <1>6, <1>7, <1>8, <1>9, <1>10, GatewayInvIs DEF GatewayLine

(* A descriptor begins to be written, or its task is dropped.               *)
LEMMA GatewayPublishDescriptorKeeps ==
    ASSUME Gateway!Inv, Gateway!publishDescriptor
    PROVE  Gateway!Inv'
  <1>1. /\ Gateway!TypeOK /\ Gateway!Numbered /\ Gateway!NewestLives /\ Gateway!StopIsLast
        /\ Gateway!TasksOK /\ Gateway!AwaitedOnce /\ Gateway!DescriptorOK
        /\ \A d \in GatewayCallers : GatewayCallWhole(d) /\ v2[d] \in GatewayCallType
        /\ v2 \in [GatewayCallers -> GatewayCallType] /\ v8 \in [Gateway!Generations -> GatewayProcessType]
        /\ v9 \in Seq(GatewayTaskType)
    BY GatewayInvIs, GatewayTypesAre DEF GatewayLine
  <1>2. Gateway!Newest' = Gateway!Newest /\ Gateway!Numbered'
    BY <1>1, GatewayNewestStays DEF Gateway!publishDescriptor, Gateway!process, Gateway!files
  <1>3. /\ v9' \in Seq(GatewayTaskType) /\ Gateway!AwaitedOnce'
        /\ (Gateway!RemoveWaits => Gateway!RemoveWaits') /\ v9[1].gateway \in {0} \cup Gateway!Generations
        /\ 1 \in 1..Len(v9) /\ v9[1] \in GatewayTaskType
        /\ \A n \in 1..Len(v9') : \E m \in 1..Len(v9) : v9'[n] = v9[m]
    <2>1. v9 # <<>> /\ v9[1].op = "publish"
      BY DEF Gateway!publishDescriptor
    <2>2. 1 \in 1..Len(v9) /\ v9[1] \in GatewayTaskType
      BY <1>1, <2>1
    <2>3. CASE v9' = Tail(v9)
      BY <1>1, <2>1, <2>2, <2>3, GatewayTailKeeps DEF GatewayTaskType
    <2>4. CASE v9' = v9
      BY <1>1, <2>2, <2>4 DEF Gateway!AwaitedOnce, Gateway!RemoveWaits, GatewayTaskType
    <2> QED BY <2>3, <2>4 DEF Gateway!publishDescriptor
  <1>4. Gateway!TypeOK'
    <2>1. v2' \in [GatewayCallers -> GatewayCallType] /\ v8' \in [Gateway!Generations -> GatewayProcessType]
      BY <1>1, <1>2, <1>3 DEF Gateway!publishDescriptor, Gateway!process, Gateway!files
    <2>2. v9' \in Seq(GatewayTaskType) /\ v3' \in Seq(Projections \cup {"stop"}) /\ v1' \in Projections
      BY <1>1, <1>2, <1>3 DEF Gateway!publishDescriptor, Gateway!process, Gateway!files, Gateway!TypeOK
    <2>3. /\ v4' \in {"idle", "stopping", "removing", "starting", "publishing", "abandoning"}
          /\ v6' \in {"STOPPED", "STARTING", "READY", "FAILED", "STOPPING"}
          /\ v12' \in {"no", "asked", "done", "failed"}
      BY <1>1, <1>2, <1>3 DEF Gateway!publishDescriptor, Gateway!process, Gateway!files, Gateway!TypeOK
    <2>4. {v5', v11', v10'} \subseteq {0} \cup Gateway!Generations /\ v13' \subseteq Gateway!Generations
      BY <1>1, <1>2, <1>3 DEF Gateway!publishDescriptor, Gateway!process, Gateway!files, Gateway!TypeOK
    <2>5. v7' \in BOOLEAN
      BY <1>1, <1>2, <1>3 DEF Gateway!publishDescriptor, Gateway!process, Gateway!files, Gateway!TypeOK
    <2>6. v15' \in 0..GatewayFaults /\ v14' \in 0..GatewayChanges
      BY <1>1, <1>2, <1>3, GatewayAssumption DEF Gateway!publishDescriptor, Gateway!process,
         Gateway!files, Gateway!TypeOK, Gateway!Fault
    <2> QED BY <2>1, <2>2, <2>3, <2>4, <2>5, <2>6, GatewayTypesAre
  <1>5. Gateway!NewestLives'
    BY <1>1, <1>2, <1>3 DEF Gateway!publishDescriptor, Gateway!process, Gateway!files,
       Gateway!NewestLives, Gateway!Alive, Gateway!Head1, Gateway!Underway,
       Gateway!TypeOK
  <1>6. Gateway!StopIsLast'
    BY <1>1, <1>2, <1>3 DEF Gateway!publishDescriptor, Gateway!process, Gateway!files, Gateway!StopIsLast,
       Gateway!NewestLives, Gateway!Underway
  <1>7. Gateway!TasksOK'
    <2>1. ASSUME NEW n \in 1..Len(v9')
          PROVE  /\ v9'[n].gateway <= Gateway!Newest'
                 /\ v9'[n].awaited =>
                      \/ v4' = "removing" /\ v9'[n] = Gateway!Task("remove", 0, TRUE)
                      \/ v4' = "publishing" /\ v9'[n] = Gateway!Task("publish", Gateway!Newest', TRUE)
      <3>1. PICK m \in 1..Len(v9) : v9'[n] = v9[m]
        BY <1>3
      <3> QED BY <1>1, <1>2, <3>1 DEF Gateway!publishDescriptor, Gateway!TasksOK
    <2>2. v10' # 0 => v9' # <<>> /\ v9'[1].op = "publish" /\ v9'[1].gateway = v10'
      BY <1>1 DEF Gateway!publishDescriptor
    <2> QED BY <2>1, <2>2 DEF Gateway!TasksOK, Gateway!Task
  <1>8. Gateway!DescriptorOK'
    <2> SUFFICES ASSUME NEW d \in {v11', v10'} \ {0}
                 PROVE  /\ d <= Gateway!Newest'
                        /\ \/ d \in v13' \/ Gateway!RemoveWaits'
                           \/ d = Gateway!Newest' /\ (v5' = d \/ v4' = "stopping")
      BY DEF Gateway!DescriptorOK
    <2>1. d \in {v11, v10} \/ (v5 = d /\ v5 # 0)
      BY DEF Gateway!publishDescriptor
    <2>2. Gateway!Newest <= Gateway!Newest
      BY <1>1 DEF Gateway!Numbered
    <2> QED BY <1>1, <1>2, <1>3, <2>1, <2>2 DEF Gateway!publishDescriptor, Gateway!DescriptorOK,
               Gateway!NewestLives
  <1>9. ASSUME NEW d \in GatewayCallers PROVE GatewayCallWhole(d)'
    <2>1. v2'[d] \in GatewayCallType /\ v2[d] \in GatewayCallType /\ GatewayCallWhole(d)
      BY <1>1, <1>2 DEF Gateway!publishDescriptor
    <2>2. \A h \in Gateway!Generations : v8[h].state # "none" =>
            v8'[h].state # "none" /\ v8'[h].of = v8[h].of
      BY <1>1, <1>2 DEF Gateway!publishDescriptor, Gateway!process, Gateway!files
    <2>3. v2'[d] = v2[d] /\ v2[d].pc = "waiting" => v8'[v2[d].gateway].state = "up"
      BY <1>1, <1>2 DEF Gateway!publishDescriptor, GatewayCallWhole, Gateway!CallOK, GatewayCallType
    <2>4. \/ v2'[d] = v2[d] \/ v2'[d] = Gateway!NoCall
          \/ /\ v2'[d].gateway \in Gateway!Generations /\ v2'[d].pc \in {"run", "requested", "settling"}
             /\ v8'[v2'[d].gateway].state # "none"
             /\ v8'[v2'[d].gateway].of = v2'[d].projection
      BY <1>1, <1>2 DEF Gateway!publishDescriptor
    <2> QED BY <2>1, <2>2, <2>3, <2>4, GatewayCallFollows
  <1> QED BY <1>2, <1>3, <1>4, <1>5, <1>6, <1>7, <1>8, <1>9, GatewayInvIs DEF GatewayLine

(* A descriptor is written.                                                 *)
LEMMA GatewayDescriptorWrittenKeeps ==
    ASSUME Gateway!Inv, Gateway!DescriptorWritten
    PROVE  Gateway!Inv'
  <1>1. /\ Gateway!TypeOK /\ Gateway!Numbered /\ Gateway!NewestLives /\ Gateway!StopIsLast
        /\ Gateway!TasksOK /\ Gateway!AwaitedOnce /\ Gateway!DescriptorOK
        /\ \A d \in GatewayCallers : GatewayCallWhole(d) /\ v2[d] \in GatewayCallType
        /\ v2 \in [GatewayCallers -> GatewayCallType] /\ v8 \in [Gateway!Generations -> GatewayProcessType]
        /\ v9 \in Seq(GatewayTaskType)
    BY GatewayInvIs, GatewayTypesAre DEF GatewayLine
  <1>2. Gateway!Newest' = Gateway!Newest /\ Gateway!Numbered'
    BY <1>1, GatewayNewestStays DEF Gateway!DescriptorWritten, Gateway!process, Gateway!files
  <1>3. /\ v9' \in Seq(GatewayTaskType) /\ Gateway!AwaitedOnce'
        /\ (v9[1].op # "remove" /\ Gateway!RemoveWaits => Gateway!RemoveWaits')
        /\ 1 \in 1..Len(v9) /\ v9[1] \in GatewayTaskType
        /\ \A n \in 1..Len(v9') : \E m \in 1..Len(v9) : m # 1 /\ v9'[n] = v9[m]
    <2>1. v9 # <<>> /\ v9' = Tail(v9)
      BY <1>1 DEF Gateway!DescriptorWritten, Gateway!TasksOK
    <2> QED BY <1>1, <2>1, GatewayTailKeeps
  <1>4. Gateway!TypeOK'
    <2>1. v2' \in [GatewayCallers -> GatewayCallType] /\ v8' \in [Gateway!Generations -> GatewayProcessType]
      BY <1>1, <1>2, <1>3 DEF Gateway!DescriptorWritten, Gateway!process, Gateway!files
    <2>2. v9' \in Seq(GatewayTaskType) /\ v3' \in Seq(Projections \cup {"stop"}) /\ v1' \in Projections
      BY <1>1, <1>2, <1>3 DEF Gateway!DescriptorWritten, Gateway!process, Gateway!files, Gateway!TypeOK
    <2>3. /\ v4' \in {"idle", "stopping", "removing", "starting", "publishing", "abandoning"}
          /\ v6' \in {"STOPPED", "STARTING", "READY", "FAILED", "STOPPING"}
          /\ v12' \in {"no", "asked", "done", "failed"}
      BY <1>1, <1>2, <1>3 DEF Gateway!DescriptorWritten, Gateway!process, Gateway!files, Gateway!TypeOK
    <2>4. {v5', v11', v10'} \subseteq {0} \cup Gateway!Generations /\ v13' \subseteq Gateway!Generations
      BY <1>1, <1>2, <1>3 DEF Gateway!DescriptorWritten, Gateway!process, Gateway!files, Gateway!TypeOK
    <2>5. v7' \in BOOLEAN
      BY <1>1, <1>2, <1>3 DEF Gateway!DescriptorWritten, Gateway!process, Gateway!files, Gateway!TypeOK
    <2>6. v15' \in 0..GatewayFaults /\ v14' \in 0..GatewayChanges
      BY <1>1, <1>2, <1>3, GatewayAssumption DEF Gateway!DescriptorWritten, Gateway!process,
         Gateway!files, Gateway!TypeOK, Gateway!Fault
    <2> QED BY <2>1, <2>2, <2>3, <2>4, <2>5, <2>6, GatewayTypesAre
  <1>5. Gateway!NewestLives'
    BY <1>1, <1>2, <1>3 DEF Gateway!DescriptorWritten, Gateway!process, Gateway!files,
       Gateway!NewestLives, Gateway!Alive, Gateway!Head1, Gateway!Underway,
       Gateway!TypeOK
  <1>6. Gateway!StopIsLast'
    BY <1>1, <1>2, <1>3 DEF Gateway!DescriptorWritten, Gateway!process, Gateway!files, Gateway!StopIsLast,
       Gateway!NewestLives, Gateway!Underway
  <1>7. Gateway!TasksOK'
    BY <1>1, <1>2, <1>3 DEF Gateway!DescriptorWritten, Gateway!process, Gateway!files, Gateway!TasksOK,
       Gateway!Task, Gateway!Underway
  <1>8. Gateway!DescriptorOK'
    <2> SUFFICES ASSUME NEW d \in {v11', v10'} \ {0}
                 PROVE  /\ d <= Gateway!Newest'
                        /\ \/ d \in v13' \/ Gateway!RemoveWaits'
                           \/ d = Gateway!Newest' /\ (v5' = d \/ v4' = "stopping")
      BY DEF Gateway!DescriptorOK
    <2>1. d = v10 /\ v10 # 0 /\ v9[1].op = "publish"
      BY <1>1 DEF Gateway!DescriptorWritten, Gateway!TasksOK
    <2> QED BY <1>1, <1>2, <1>3, <2>1 DEF Gateway!DescriptorWritten, Gateway!DescriptorOK
  <1>9. ASSUME NEW d \in GatewayCallers PROVE GatewayCallWhole(d)'
    <2>1. v2'[d] \in GatewayCallType /\ v2[d] \in GatewayCallType /\ GatewayCallWhole(d)
      BY <1>1, <1>2 DEF Gateway!DescriptorWritten
    <2>2. \A h \in Gateway!Generations : v8[h].state # "none" =>
            v8'[h].state # "none" /\ v8'[h].of = v8[h].of
      BY <1>1, <1>2 DEF Gateway!DescriptorWritten, Gateway!process, Gateway!files
    <2>3. v2'[d] = v2[d] /\ v2[d].pc = "waiting" => v8'[v2[d].gateway].state = "up"
      BY <1>1, <1>2 DEF Gateway!DescriptorWritten, GatewayCallWhole, Gateway!CallOK, GatewayCallType
    <2>4. \/ v2'[d] = v2[d] \/ v2'[d] = Gateway!NoCall
          \/ /\ v2'[d].gateway \in Gateway!Generations /\ v2'[d].pc \in {"run", "requested", "settling"}
             /\ v8'[v2'[d].gateway].state # "none"
             /\ v8'[v2'[d].gateway].of = v2'[d].projection
      BY <1>1, <1>2 DEF Gateway!DescriptorWritten
    <2> QED BY <2>1, <2>2, <2>3, <2>4, GatewayCallFollows
  <1> QED BY <1>2, <1>3, <1>4, <1>5, <1>6, <1>7, <1>8, <1>9, GatewayInvIs DEF GatewayLine

(* The descriptor is removed.                                               *)
LEMMA GatewayRemoveDescriptorKeeps ==
    ASSUME Gateway!Inv, Gateway!removeDescriptor
    PROVE  Gateway!Inv'
  <1>1. /\ Gateway!TypeOK /\ Gateway!Numbered /\ Gateway!NewestLives /\ Gateway!StopIsLast
        /\ Gateway!TasksOK /\ Gateway!AwaitedOnce /\ Gateway!DescriptorOK
        /\ \A d \in GatewayCallers : GatewayCallWhole(d) /\ v2[d] \in GatewayCallType
        /\ v2 \in [GatewayCallers -> GatewayCallType] /\ v8 \in [Gateway!Generations -> GatewayProcessType]
        /\ v9 \in Seq(GatewayTaskType)
    BY GatewayInvIs, GatewayTypesAre DEF GatewayLine
  <1>2. Gateway!Newest' = Gateway!Newest /\ Gateway!Numbered'
    BY <1>1, GatewayNewestStays DEF Gateway!removeDescriptor, Gateway!process, Gateway!files
  <1>3. /\ v9' \in Seq(GatewayTaskType) /\ Gateway!AwaitedOnce'
        /\ (v9[1].op # "remove" /\ Gateway!RemoveWaits => Gateway!RemoveWaits')
        /\ 1 \in 1..Len(v9) /\ v9[1] \in GatewayTaskType
        /\ \A n \in 1..Len(v9') : \E m \in 1..Len(v9) : m # 1 /\ v9'[n] = v9[m]
    <2>1. v9 # <<>> /\ v9' = Tail(v9)
      BY <1>1 DEF Gateway!removeDescriptor, Gateway!TasksOK
    <2> QED BY <1>1, <2>1, GatewayTailKeeps
  <1>4. Gateway!TypeOK'
    <2>1. v2' \in [GatewayCallers -> GatewayCallType] /\ v8' \in [Gateway!Generations -> GatewayProcessType]
      BY <1>1, <1>2, <1>3 DEF Gateway!removeDescriptor, Gateway!process, Gateway!files
    <2>2. v9' \in Seq(GatewayTaskType) /\ v3' \in Seq(Projections \cup {"stop"}) /\ v1' \in Projections
      BY <1>1, <1>2, <1>3 DEF Gateway!removeDescriptor, Gateway!process, Gateway!files, Gateway!TypeOK
    <2>3. /\ v4' \in {"idle", "stopping", "removing", "starting", "publishing", "abandoning"}
          /\ v6' \in {"STOPPED", "STARTING", "READY", "FAILED", "STOPPING"}
          /\ v12' \in {"no", "asked", "done", "failed"}
      BY <1>1, <1>2, <1>3 DEF Gateway!removeDescriptor, Gateway!process, Gateway!files, Gateway!TypeOK
    <2>4. {v5', v11', v10'} \subseteq {0} \cup Gateway!Generations /\ v13' \subseteq Gateway!Generations
      BY <1>1, <1>2, <1>3 DEF Gateway!removeDescriptor, Gateway!process, Gateway!files, Gateway!TypeOK
    <2>5. v7' \in BOOLEAN
      BY <1>1, <1>2, <1>3 DEF Gateway!removeDescriptor, Gateway!process, Gateway!files, Gateway!TypeOK
    <2>6. v15' \in 0..GatewayFaults /\ v14' \in 0..GatewayChanges
      BY <1>1, <1>2, <1>3, GatewayAssumption DEF Gateway!removeDescriptor, Gateway!process, Gateway!files,
         Gateway!TypeOK, Gateway!Fault
    <2> QED BY <2>1, <2>2, <2>3, <2>4, <2>5, <2>6, GatewayTypesAre
  <1>5. Gateway!NewestLives'
    BY <1>1, <1>2, <1>3 DEF Gateway!removeDescriptor, Gateway!process, Gateway!files, Gateway!NewestLives,
       Gateway!Alive, Gateway!Head1, Gateway!Underway,
       Gateway!TypeOK
  <1>6. Gateway!StopIsLast'
    BY <1>1, <1>2, <1>3 DEF Gateway!removeDescriptor, Gateway!process, Gateway!files, Gateway!StopIsLast,
       Gateway!NewestLives, Gateway!Underway
  <1>7. Gateway!TasksOK'
    BY <1>1, <1>2, <1>3 DEF Gateway!removeDescriptor, Gateway!process, Gateway!files, Gateway!TasksOK,
       Gateway!Task, Gateway!Underway
  <1>8. Gateway!DescriptorOK'
    <2> SUFFICES ASSUME NEW d \in {v11', v10'} \ {0}
                 PROVE  /\ d <= Gateway!Newest'
                        /\ \/ d \in v13' \/ Gateway!RemoveWaits'
                           \/ d = Gateway!Newest' /\ (v5' = d \/ v4' = "stopping")
      BY DEF Gateway!DescriptorOK
    <2> QED BY <1>1 DEF Gateway!removeDescriptor, Gateway!TasksOK
  <1>9. ASSUME NEW d \in GatewayCallers PROVE GatewayCallWhole(d)'
    <2>1. v2'[d] \in GatewayCallType /\ v2[d] \in GatewayCallType /\ GatewayCallWhole(d)
      BY <1>1, <1>2 DEF Gateway!removeDescriptor
    <2>2. \A h \in Gateway!Generations : v8[h].state # "none" =>
            v8'[h].state # "none" /\ v8'[h].of = v8[h].of
      BY <1>1, <1>2 DEF Gateway!removeDescriptor, Gateway!process, Gateway!files
    <2>3. v2'[d] = v2[d] /\ v2[d].pc = "waiting" => v8'[v2[d].gateway].state = "up"
      BY <1>1, <1>2 DEF Gateway!removeDescriptor, GatewayCallWhole, Gateway!CallOK, GatewayCallType
    <2>4. \/ v2'[d] = v2[d] \/ v2'[d] = Gateway!NoCall
          \/ /\ v2'[d].gateway \in Gateway!Generations /\ v2'[d].pc \in {"run", "requested", "settling"}
             /\ v8'[v2'[d].gateway].state # "none"
             /\ v8'[v2'[d].gateway].of = v2'[d].projection
      BY <1>1, <1>2 DEF Gateway!removeDescriptor
    <2> QED BY <2>1, <2>2, <2>3, <2>4, GatewayCallFollows
  <1> QED BY <1>2, <1>3, <1>4, <1>5, <1>6, <1>7, <1>8, <1>9, GatewayInvIs DEF GatewayLine

(* The next process is started.                                             *)
LEMMA GatewayNothingToStopNextKeeps ==
    ASSUME Gateway!Inv, Gateway!NothingToStop, Gateway!Head1 # "stop"
    PROVE  Gateway!Inv'
  <1>1. /\ Gateway!TypeOK /\ Gateway!Numbered /\ Gateway!NewestLives /\ Gateway!StopIsLast
        /\ Gateway!TasksOK /\ Gateway!AwaitedOnce /\ Gateway!DescriptorOK
        /\ \A d \in GatewayCallers : GatewayCallWhole(d) /\ v2[d] \in GatewayCallType
        /\ v2 \in [GatewayCallers -> GatewayCallType] /\ v8 \in [Gateway!Generations -> GatewayProcessType]
        /\ v9 \in Seq(GatewayTaskType)
    BY GatewayInvIs, GatewayTypesAre DEF GatewayLine
  <1>2. /\ Gateway!Newest' = Gateway!Newest + 1 /\ Gateway!Numbered'
        /\ Gateway!Newest + 1 \in Gateway!Generations /\ Gateway!Head1 \in Projections
        /\ v8' \in [Gateway!Generations -> GatewayProcessType] /\ v8[Gateway!Newest + 1].state = "none"
        /\ v8'[Gateway!Newest + 1] = [state |-> "starting", of |-> Gateway!Head1]
        /\ \A g \in Gateway!Generations \ {Gateway!Newest + 1} : v8'[g] = v8[g]
    <2>1. Gateway!Head1 \in Projections
      BY <1>1 DEF Gateway!NothingToStop, Gateway!TypeOK, Gateway!Head1, Gateway!StopIsLast, Gateway!Underway
    <2> QED BY <1>1, <2>1, GatewayNewestGrows DEF Gateway!NothingToStop
  <1>3. Gateway!AwaitedOnce' /\ (Gateway!RemoveWaits => Gateway!RemoveWaits')
    BY <1>1 DEF Gateway!AwaitedOnce, Gateway!RemoveWaits, Gateway!NothingToStop, Gateway!process,
       Gateway!files
  <1>4. v5 = 0 /\ UNCHANGED <<v5, Gateway!Head1, v9, v10, v11, v13>> /\ v4' = "starting" /\
          \A n \in 1..Len(v9) : ~v9[n].awaited
    BY <1>1 DEF Gateway!NothingToStop, Gateway!NewestLives, Gateway!TasksOK, Gateway!Underway,
       Gateway!Head1, Gateway!files
  <1>5. Gateway!TypeOK'
    <2>1. v2' \in [GatewayCallers -> GatewayCallType] /\ v8' \in [Gateway!Generations -> GatewayProcessType]
      BY <1>1, <1>2, <1>3, <1>4 DEF Gateway!NothingToStop, Gateway!process, Gateway!files
    <2>2. v9' \in Seq(GatewayTaskType) /\ v3' \in Seq(Projections \cup {"stop"}) /\ v1' \in Projections
      BY <1>1, <1>2, <1>3, <1>4 DEF Gateway!NothingToStop, Gateway!process, Gateway!files, Gateway!TypeOK
    <2>3. /\ v4' \in {"idle", "stopping", "removing", "starting", "publishing", "abandoning"}
          /\ v6' \in {"STOPPED", "STARTING", "READY", "FAILED", "STOPPING"}
          /\ v12' \in {"no", "asked", "done", "failed"}
      BY <1>1, <1>2, <1>3, <1>4 DEF Gateway!NothingToStop, Gateway!process, Gateway!files, Gateway!TypeOK
    <2>4. {v5', v11', v10'} \subseteq {0} \cup Gateway!Generations /\ v13' \subseteq Gateway!Generations
      BY <1>1, <1>2, <1>3, <1>4 DEF Gateway!NothingToStop, Gateway!process, Gateway!files, Gateway!TypeOK
    <2>5. v7' \in BOOLEAN
      BY <1>1, <1>2, <1>3, <1>4 DEF Gateway!NothingToStop, Gateway!process, Gateway!files, Gateway!TypeOK
    <2>6. v15' \in 0..GatewayFaults /\ v14' \in 0..GatewayChanges
      BY <1>1, <1>2, <1>3, <1>4, GatewayAssumption DEF Gateway!NothingToStop, Gateway!process,
         Gateway!files, Gateway!TypeOK, Gateway!Fault
    <2> QED BY <2>1, <2>2, <2>3, <2>4, <2>5, <2>6, GatewayTypesAre
  <1>6. Gateway!NewestLives'
    <2>1. ASSUME NEW h \in Gateway!Generations, v8'[h].state \in {"starting", "up", "stopping"}
          PROVE  h = Gateway!Newest + 1
      <3>1. h # Gateway!Newest + 1 => h \in Gateway!Alive
        BY <1>2, <2>1 DEF Gateway!Alive
      <3>2. h \in Gateway!Alive => FALSE
        BY <1>1, <1>4 DEF Gateway!NothingToStop, Gateway!NewestLives, Gateway!Alive, Gateway!Underway,
           Gateway!Generations
      <3> QED BY <3>1, <3>2
    <2>2. Gateway!Newest + 1 # 0
      BY <1>2 DEF Gateway!Generations
    <2> QED BY <1>2, <1>4, <2>1, <2>2 DEF Gateway!NewestLives, Gateway!Alive
  <1>7. Gateway!StopIsLast'
    BY <1>1, <1>2, <1>3, <1>4 DEF Gateway!NothingToStop, Gateway!process, Gateway!files,
       Gateway!StopIsLast, Gateway!NewestLives, Gateway!Underway
  <1>8. Gateway!TasksOK'
    <2>1. ASSUME NEW n \in 1..Len(v9')
          PROVE  /\ v9'[n].gateway <= Gateway!Newest'
                 /\ v9'[n].awaited =>
                      \/ v4' = "removing" /\ v9'[n] = Gateway!Task("remove", 0, TRUE)
                      \/ v4' = "publishing" /\ v9'[n] = Gateway!Task("publish", Gateway!Newest', TRUE)
      <3>1. n \in 1..Len(v9) /\ v9'[n] = v9[n] /\ v9[n] \in GatewayTaskType /\ ~v9[n].awaited
        BY <1>1, <1>4
      <3>2. v9[n].gateway \in {0} \cup Gateway!Generations
        BY <3>1 DEF GatewayTaskType
      <3>3. v9[n].gateway <= Gateway!Newest
        <4>1. Gateway!TasksOK /\ n \in 1..Len(v9)
          BY <1>1, <3>1
        <4> QED BY <4>1 DEF Gateway!TasksOK
      <3>5. Gateway!Newest \in 0..MaxGateways
        BY <1>1 DEF Gateway!Numbered
      <3>4. v9[n].gateway <= Gateway!Newest + 1
        BY <3>2, <3>3, <3>5 DEF Gateway!Generations
      <3> QED BY <1>2, <3>1, <3>4
    <2>2. v10' # 0 => v9' # <<>> /\ v9'[1].op = "publish" /\ v9'[1].gateway = v10'
      BY <1>1, <1>4 DEF Gateway!TasksOK
    <2> QED BY <2>1, <2>2 DEF Gateway!TasksOK, Gateway!Task
  <1>9. Gateway!DescriptorOK'
    <2> SUFFICES ASSUME NEW d \in {v11', v10'} \ {0}
                 PROVE  /\ d <= Gateway!Newest'
                        /\ \/ d \in v13' \/ Gateway!RemoveWaits'
                           \/ d = Gateway!Newest' /\ (v5' = d \/ v4' = "stopping")
      BY DEF Gateway!DescriptorOK
    <2>1. /\ d <= Gateway!Newest /\ d \in Int /\ Gateway!Newest \in Int
          /\ (d \in v13 \/ Gateway!RemoveWaits \/ d = Gateway!Newest)
      BY <1>1, <1>4 DEF Gateway!DescriptorOK, Gateway!TypeOK, Gateway!Generations, Gateway!Numbered
    <2>2. d \in v13 \/ Gateway!RemoveWaits
      BY <1>1, <1>4 DEF Gateway!DescriptorOK, Gateway!NothingToStop, Gateway!Underway
    <2> QED BY <1>2, <1>3, <1>4, <2>1, <2>2
  <1>10. ASSUME NEW d \in GatewayCallers PROVE GatewayCallWhole(d)'
    <2>1. v2'[d] \in GatewayCallType /\ v2[d] \in GatewayCallType /\ GatewayCallWhole(d)
      BY <1>1, <1>2 DEF Gateway!NothingToStop
    <2>2. \A h \in Gateway!Generations : v8[h].state # "none" =>
            v8'[h].state # "none" /\ v8'[h].of = v8[h].of
      BY <1>1, <1>2 DEF Gateway!NothingToStop, Gateway!process, Gateway!files
    <2>3. v2'[d] = v2[d] /\ v2[d].pc = "waiting" => v8'[v2[d].gateway].state = "up"
      BY <1>1, <1>2 DEF Gateway!NothingToStop, GatewayCallWhole, Gateway!CallOK, GatewayCallType
    <2>4. \/ v2'[d] = v2[d] \/ v2'[d] = Gateway!NoCall
          \/ /\ v2'[d].gateway \in Gateway!Generations /\ v2'[d].pc \in {"run", "requested", "settling"}
             /\ v8'[v2'[d].gateway].state # "none"
             /\ v8'[v2'[d].gateway].of = v2'[d].projection
      BY <1>1, <1>2 DEF Gateway!NothingToStop
    <2> QED BY <2>1, <2>2, <2>3, <2>4, GatewayCallFollows
  <1> QED BY <1>2, <1>3, <1>4, <1>5, <1>6, <1>7, <1>8, <1>9, <1>10, GatewayInvIs DEF GatewayLine

(* The next process is started.                                             *)
LEMMA GatewayRemovedNextKeeps ==
    ASSUME Gateway!Inv, Gateway!Removed, Gateway!Head1 # "stop"
    PROVE  Gateway!Inv'
  <1>1. /\ Gateway!TypeOK /\ Gateway!Numbered /\ Gateway!NewestLives /\ Gateway!StopIsLast
        /\ Gateway!TasksOK /\ Gateway!AwaitedOnce /\ Gateway!DescriptorOK
        /\ \A d \in GatewayCallers : GatewayCallWhole(d) /\ v2[d] \in GatewayCallType
        /\ v2 \in [GatewayCallers -> GatewayCallType] /\ v8 \in [Gateway!Generations -> GatewayProcessType]
        /\ v9 \in Seq(GatewayTaskType)
    BY GatewayInvIs, GatewayTypesAre DEF GatewayLine
  <1>2. /\ Gateway!Newest' = Gateway!Newest + 1 /\ Gateway!Numbered'
        /\ Gateway!Newest + 1 \in Gateway!Generations /\ Gateway!Head1 \in Projections
        /\ v8' \in [Gateway!Generations -> GatewayProcessType] /\ v8[Gateway!Newest + 1].state = "none"
        /\ v8'[Gateway!Newest + 1] = [state |-> "starting", of |-> Gateway!Head1]
        /\ \A g \in Gateway!Generations \ {Gateway!Newest + 1} : v8'[g] = v8[g]
    <2>1. Gateway!Head1 \in Projections
      BY <1>1 DEF Gateway!Removed, Gateway!TypeOK, Gateway!Head1, Gateway!StopIsLast, Gateway!Underway
    <2> QED BY <1>1, <2>1, GatewayNewestGrows DEF Gateway!Removed
  <1>3. Gateway!AwaitedOnce' /\ (Gateway!RemoveWaits => Gateway!RemoveWaits')
    BY <1>1 DEF Gateway!AwaitedOnce, Gateway!RemoveWaits, Gateway!Removed, Gateway!process, Gateway!files
  <1>4. v5 = 0 /\ UNCHANGED <<v5, Gateway!Head1, v9, v10, v11, v13>> /\ v4' = "starting" /\
          \A n \in 1..Len(v9) : ~v9[n].awaited
    BY <1>1 DEF Gateway!Removed, Gateway!NewestLives, Gateway!TasksOK, Gateway!Underway, Gateway!Head1,
       Gateway!files
  <1>5. Gateway!TypeOK'
    <2>1. v2' \in [GatewayCallers -> GatewayCallType] /\ v8' \in [Gateway!Generations -> GatewayProcessType]
      BY <1>1, <1>2, <1>3, <1>4 DEF Gateway!Removed, Gateway!process, Gateway!files
    <2>2. v9' \in Seq(GatewayTaskType) /\ v3' \in Seq(Projections \cup {"stop"}) /\ v1' \in Projections
      BY <1>1, <1>2, <1>3, <1>4 DEF Gateway!Removed, Gateway!process, Gateway!files, Gateway!TypeOK
    <2>3. /\ v4' \in {"idle", "stopping", "removing", "starting", "publishing", "abandoning"}
          /\ v6' \in {"STOPPED", "STARTING", "READY", "FAILED", "STOPPING"}
          /\ v12' \in {"no", "asked", "done", "failed"}
      BY <1>1, <1>2, <1>3, <1>4 DEF Gateway!Removed, Gateway!process, Gateway!files, Gateway!TypeOK
    <2>4. {v5', v11', v10'} \subseteq {0} \cup Gateway!Generations /\ v13' \subseteq Gateway!Generations
      BY <1>1, <1>2, <1>3, <1>4 DEF Gateway!Removed, Gateway!process, Gateway!files, Gateway!TypeOK
    <2>5. v7' \in BOOLEAN
      BY <1>1, <1>2, <1>3, <1>4 DEF Gateway!Removed, Gateway!process, Gateway!files, Gateway!TypeOK
    <2>6. v15' \in 0..GatewayFaults /\ v14' \in 0..GatewayChanges
      BY <1>1, <1>2, <1>3, <1>4, GatewayAssumption DEF Gateway!Removed, Gateway!process, Gateway!files,
         Gateway!TypeOK, Gateway!Fault
    <2> QED BY <2>1, <2>2, <2>3, <2>4, <2>5, <2>6, GatewayTypesAre
  <1>6. Gateway!NewestLives'
    <2>1. ASSUME NEW h \in Gateway!Generations, v8'[h].state \in {"starting", "up", "stopping"}
          PROVE  h = Gateway!Newest + 1
      <3>1. h # Gateway!Newest + 1 => h \in Gateway!Alive
        BY <1>2, <2>1 DEF Gateway!Alive
      <3>2. h \in Gateway!Alive => FALSE
        BY <1>1, <1>4 DEF Gateway!Removed, Gateway!NewestLives, Gateway!Alive, Gateway!Underway,
           Gateway!Generations
      <3> QED BY <3>1, <3>2
    <2>2. Gateway!Newest + 1 # 0
      BY <1>2 DEF Gateway!Generations
    <2> QED BY <1>2, <1>4, <2>1, <2>2 DEF Gateway!NewestLives, Gateway!Alive
  <1>7. Gateway!StopIsLast'
    BY <1>1, <1>2, <1>3, <1>4 DEF Gateway!Removed, Gateway!process, Gateway!files, Gateway!StopIsLast,
       Gateway!NewestLives, Gateway!Underway
  <1>8. Gateway!TasksOK'
    <2>1. ASSUME NEW n \in 1..Len(v9')
          PROVE  /\ v9'[n].gateway <= Gateway!Newest'
                 /\ v9'[n].awaited =>
                      \/ v4' = "removing" /\ v9'[n] = Gateway!Task("remove", 0, TRUE)
                      \/ v4' = "publishing" /\ v9'[n] = Gateway!Task("publish", Gateway!Newest', TRUE)
      <3>1. n \in 1..Len(v9) /\ v9'[n] = v9[n] /\ v9[n] \in GatewayTaskType /\ ~v9[n].awaited
        BY <1>1, <1>4
      <3>2. v9[n].gateway \in {0} \cup Gateway!Generations
        BY <3>1 DEF GatewayTaskType
      <3>3. v9[n].gateway <= Gateway!Newest
        <4>1. Gateway!TasksOK /\ n \in 1..Len(v9)
          BY <1>1, <3>1
        <4> QED BY <4>1 DEF Gateway!TasksOK
      <3>5. Gateway!Newest \in 0..MaxGateways
        BY <1>1 DEF Gateway!Numbered
      <3>4. v9[n].gateway <= Gateway!Newest + 1
        BY <3>2, <3>3, <3>5 DEF Gateway!Generations
      <3> QED BY <1>2, <3>1, <3>4
    <2>2. v10' # 0 => v9' # <<>> /\ v9'[1].op = "publish" /\ v9'[1].gateway = v10'
      BY <1>1, <1>4 DEF Gateway!TasksOK
    <2> QED BY <2>1, <2>2 DEF Gateway!TasksOK, Gateway!Task
  <1>9. Gateway!DescriptorOK'
    <2> SUFFICES ASSUME NEW d \in {v11', v10'} \ {0}
                 PROVE  /\ d <= Gateway!Newest'
                        /\ \/ d \in v13' \/ Gateway!RemoveWaits'
                           \/ d = Gateway!Newest' /\ (v5' = d \/ v4' = "stopping")
      BY DEF Gateway!DescriptorOK
    <2>1. /\ d <= Gateway!Newest /\ d \in Int /\ Gateway!Newest \in Int
          /\ (d \in v13 \/ Gateway!RemoveWaits \/ d = Gateway!Newest)
      BY <1>1, <1>4 DEF Gateway!DescriptorOK, Gateway!TypeOK, Gateway!Generations, Gateway!Numbered
    <2>2. d \in v13 \/ Gateway!RemoveWaits
      BY <1>1, <1>4 DEF Gateway!DescriptorOK, Gateway!Removed, Gateway!Underway
    <2> QED BY <1>2, <1>3, <1>4, <2>1, <2>2
  <1>10. ASSUME NEW d \in GatewayCallers PROVE GatewayCallWhole(d)'
    <2>1. v2'[d] \in GatewayCallType /\ v2[d] \in GatewayCallType /\ GatewayCallWhole(d)
      BY <1>1, <1>2 DEF Gateway!Removed
    <2>2. \A h \in Gateway!Generations : v8[h].state # "none" =>
            v8'[h].state # "none" /\ v8'[h].of = v8[h].of
      BY <1>1, <1>2 DEF Gateway!Removed, Gateway!process, Gateway!files
    <2>3. v2'[d] = v2[d] /\ v2[d].pc = "waiting" => v8'[v2[d].gateway].state = "up"
      BY <1>1, <1>2 DEF Gateway!Removed, GatewayCallWhole, Gateway!CallOK, GatewayCallType
    <2>4. \/ v2'[d] = v2[d] \/ v2'[d] = Gateway!NoCall
          \/ /\ v2'[d].gateway \in Gateway!Generations /\ v2'[d].pc \in {"run", "requested", "settling"}
             /\ v8'[v2'[d].gateway].state # "none"
             /\ v8'[v2'[d].gateway].of = v2'[d].projection
      BY <1>1, <1>2 DEF Gateway!Removed
    <2> QED BY <2>1, <2>2, <2>3, <2>4, GatewayCallFollows
  <1> QED BY <1>2, <1>3, <1>4, <1>5, <1>6, <1>7, <1>8, <1>9, <1>10, GatewayInvIs DEF GatewayLine

(* There is nothing to stop but the descriptor.                             *)
LEMMA GatewayNothingToStopLastKeeps ==
    ASSUME Gateway!Inv, Gateway!NothingToStop, Gateway!Head1 = "stop"
    PROVE  Gateway!Inv'
  <1>1. /\ Gateway!TypeOK /\ Gateway!Numbered /\ Gateway!NewestLives /\ Gateway!StopIsLast
        /\ Gateway!TasksOK /\ Gateway!AwaitedOnce /\ Gateway!DescriptorOK
        /\ \A d \in GatewayCallers : GatewayCallWhole(d) /\ v2[d] \in GatewayCallType
        /\ v2 \in [GatewayCallers -> GatewayCallType] /\ v8 \in [Gateway!Generations -> GatewayProcessType]
        /\ v9 \in Seq(GatewayTaskType)
    BY GatewayInvIs, GatewayTypesAre DEF GatewayLine
  <1>2. Gateway!Newest' = Gateway!Newest /\ Gateway!Numbered'
    BY <1>1, GatewayNewestStays DEF Gateway!NothingToStop, Gateway!process, Gateway!files
  <1>3. /\ Gateway!Task("remove", 0, TRUE) \in GatewayTaskType
        /\ v9' \in Seq(GatewayTaskType) /\ Gateway!AwaitedOnce' /\ (Gateway!RemoveWaits => Gateway!RemoveWaits')
        /\ Gateway!Task("remove", 0, TRUE).op = "remove" => Gateway!RemoveWaits'
        /\ \A n \in 1..Len(v9') :
             \/ v9'[n] = Gateway!Task("remove", 0, TRUE)
             \/ \E m \in 1..Len(v9) : v9'[n] = v9[m]
        /\ v9 # <<>> => v9' # <<>> /\ v9'[1] = v9[1]
    <2>1. Gateway!Task("remove", 0, TRUE) \in GatewayTaskType
      BY <1>1 DEF Gateway!NothingToStop, Gateway!Task, GatewayTaskType
    <2>2. Gateway!Task("remove", 0, TRUE).awaited =>
            \A n \in 1..Len(v9) : ~v9[n].awaited
      BY <1>1 DEF Gateway!NothingToStop, Gateway!Task, Gateway!TasksOK, Gateway!Underway
    <2>3. v9' = Gateway!Queued(Gateway!Task("remove", 0, TRUE))
      BY DEF Gateway!NothingToStop
    <2> QED BY <1>1, <2>1, <2>2, <2>3, GatewayQueuedKeeps
  <1>4. Gateway!RemoveWaits'
    BY <1>3 DEF Gateway!Task
  <1>5. Gateway!TypeOK'
    <2>1. v2' \in [GatewayCallers -> GatewayCallType] /\ v8' \in [Gateway!Generations -> GatewayProcessType]
      BY <1>1, <1>2, <1>3, <1>4 DEF Gateway!NothingToStop, Gateway!process, Gateway!files
    <2>2. v9' \in Seq(GatewayTaskType) /\ v3' \in Seq(Projections \cup {"stop"}) /\ v1' \in Projections
      BY <1>1, <1>2, <1>3, <1>4 DEF Gateway!NothingToStop, Gateway!process, Gateway!files, Gateway!TypeOK
    <2>3. /\ v4' \in {"idle", "stopping", "removing", "starting", "publishing", "abandoning"}
          /\ v6' \in {"STOPPED", "STARTING", "READY", "FAILED", "STOPPING"}
          /\ v12' \in {"no", "asked", "done", "failed"}
      BY <1>1, <1>2, <1>3, <1>4 DEF Gateway!NothingToStop, Gateway!process, Gateway!files, Gateway!TypeOK
    <2>4. {v5', v11', v10'} \subseteq {0} \cup Gateway!Generations /\ v13' \subseteq Gateway!Generations
      BY <1>1, <1>2, <1>3, <1>4 DEF Gateway!NothingToStop, Gateway!process, Gateway!files, Gateway!TypeOK
    <2>5. v7' \in BOOLEAN
      BY <1>1, <1>2, <1>3, <1>4 DEF Gateway!NothingToStop, Gateway!process, Gateway!files, Gateway!TypeOK
    <2>6. v15' \in 0..GatewayFaults /\ v14' \in 0..GatewayChanges
      BY <1>1, <1>2, <1>3, <1>4, GatewayAssumption DEF Gateway!NothingToStop, Gateway!process,
         Gateway!files, Gateway!TypeOK, Gateway!Fault
    <2> QED BY <2>1, <2>2, <2>3, <2>4, <2>5, <2>6, GatewayTypesAre
  <1>6. Gateway!NewestLives'
    BY <1>1, <1>2, <1>3, <1>4 DEF Gateway!NothingToStop, Gateway!process, Gateway!files,
       Gateway!NewestLives, Gateway!Alive, Gateway!Head1, Gateway!Underway,
       Gateway!TypeOK
  <1>7. Gateway!StopIsLast'
    BY <1>1, <1>2, <1>3, <1>4 DEF Gateway!NothingToStop, Gateway!process, Gateway!files,
       Gateway!StopIsLast, Gateway!NewestLives, Gateway!Underway
  <1>8. Gateway!TasksOK'
    <2>1. ASSUME NEW n \in 1..Len(v9')
          PROVE  /\ v9'[n].gateway <= Gateway!Newest'
                 /\ v9'[n].awaited =>
                      \/ v4' = "removing" /\ v9'[n] = Gateway!Task("remove", 0, TRUE)
                      \/ v4' = "publishing" /\ v9'[n] = Gateway!Task("publish", Gateway!Newest', TRUE)
      <3>1. CASE v9'[n] = Gateway!Task("remove", 0, TRUE)
        BY <1>1, <1>2, <3>1 DEF Gateway!NothingToStop, Gateway!Task, Gateway!Numbered
      <3>2. CASE \E m \in 1..Len(v9) : v9'[n] = v9[m]
        BY <1>1, <1>2, <3>2 DEF Gateway!NothingToStop, Gateway!TasksOK, Gateway!Underway
      <3> QED BY <1>3, <3>1, <3>2
    <2>2. v10' # 0 => v9' # <<>> /\ v9'[1].op = "publish" /\ v9'[1].gateway = v10'
      BY <1>1, <1>3 DEF Gateway!NothingToStop, Gateway!TasksOK
    <2> QED BY <2>1, <2>2 DEF Gateway!TasksOK, Gateway!Task
  <1>9. Gateway!DescriptorOK'
    <2> SUFFICES ASSUME NEW d \in {v11', v10'} \ {0}
                 PROVE  /\ d <= Gateway!Newest'
                        /\ \/ d \in v13' \/ Gateway!RemoveWaits'
                           \/ d = Gateway!Newest' /\ (v5' = d \/ v4' = "stopping")
      BY DEF Gateway!DescriptorOK
    <2> QED BY <1>1, <1>2, <1>3, <1>4 DEF Gateway!NothingToStop, Gateway!DescriptorOK
  <1>10. ASSUME NEW d \in GatewayCallers PROVE GatewayCallWhole(d)'
    <2>1. v2'[d] \in GatewayCallType /\ v2[d] \in GatewayCallType /\ GatewayCallWhole(d)
      BY <1>1, <1>2 DEF Gateway!NothingToStop
    <2>2. \A h \in Gateway!Generations : v8[h].state # "none" =>
            v8'[h].state # "none" /\ v8'[h].of = v8[h].of
      BY <1>1, <1>2 DEF Gateway!NothingToStop, Gateway!process, Gateway!files
    <2>3. v2'[d] = v2[d] /\ v2[d].pc = "waiting" => v8'[v2[d].gateway].state = "up"
      BY <1>1, <1>2 DEF Gateway!NothingToStop, GatewayCallWhole, Gateway!CallOK, GatewayCallType
    <2>4. \/ v2'[d] = v2[d] \/ v2'[d] = Gateway!NoCall
          \/ /\ v2'[d].gateway \in Gateway!Generations /\ v2'[d].pc \in {"run", "requested", "settling"}
             /\ v8'[v2'[d].gateway].state # "none"
             /\ v8'[v2'[d].gateway].of = v2'[d].projection
      BY <1>1, <1>2 DEF Gateway!NothingToStop
    <2> QED BY <2>1, <2>2, <2>3, <2>4, GatewayCallFollows
  <1> QED BY <1>2, <1>3, <1>4, <1>5, <1>6, <1>7, <1>8, <1>9, <1>10, GatewayInvIs DEF GatewayLine

(* The stop is done.                                                        *)
LEMMA GatewayRemovedLastKeeps ==
    ASSUME Gateway!Inv, Gateway!Removed, Gateway!Head1 = "stop"
    PROVE  Gateway!Inv'
  <1>1. /\ Gateway!TypeOK /\ Gateway!Numbered /\ Gateway!NewestLives /\ Gateway!StopIsLast
        /\ Gateway!TasksOK /\ Gateway!AwaitedOnce /\ Gateway!DescriptorOK
        /\ \A d \in GatewayCallers : GatewayCallWhole(d) /\ v2[d] \in GatewayCallType
        /\ v2 \in [GatewayCallers -> GatewayCallType] /\ v8 \in [Gateway!Generations -> GatewayProcessType]
        /\ v9 \in Seq(GatewayTaskType)
    BY GatewayInvIs, GatewayTypesAre DEF GatewayLine
  <1>2. Gateway!Newest' = Gateway!Newest /\ Gateway!Numbered'
    BY <1>1, GatewayNewestStays DEF Gateway!Removed, Gateway!process, Gateway!files
  <1>3. Gateway!AwaitedOnce' /\ (Gateway!RemoveWaits => Gateway!RemoveWaits')
    BY <1>1 DEF Gateway!AwaitedOnce, Gateway!RemoveWaits, Gateway!Removed, Gateway!process, Gateway!files
  <1>4. /\ v3 # <<>>
        /\ v3' \in Seq(Projections \cup {"stop"}) /\ v4' = "idle"
        /\ \A n \in 1..Len(v3') :
             v3'[n] = "stop" => n = Len(v3') /\ v12 = "asked"
        /\ Gateway!Head1 = "stop" => v3' = <<>>
    BY <1>1, GatewaySettlesKeeps DEF Gateway!Removed, Gateway!StopIsLast, Gateway!Underway
  <1>5. Gateway!TypeOK'
    <2>1. v2' \in [GatewayCallers -> GatewayCallType] /\ v8' \in [Gateway!Generations -> GatewayProcessType]
      BY <1>1, <1>2, <1>3, <1>4 DEF Gateway!Removed, Gateway!process, Gateway!files
    <2>2. v9' \in Seq(GatewayTaskType) /\ v3' \in Seq(Projections \cup {"stop"}) /\ v1' \in Projections
      BY <1>1, <1>2, <1>3, <1>4 DEF Gateway!Removed, Gateway!process, Gateway!files, Gateway!TypeOK
    <2>3. /\ v4' \in {"idle", "stopping", "removing", "starting", "publishing", "abandoning"}
          /\ v6' \in {"STOPPED", "STARTING", "READY", "FAILED", "STOPPING"}
          /\ v12' \in {"no", "asked", "done", "failed"}
      BY <1>1, <1>2, <1>3, <1>4 DEF Gateway!Removed, Gateway!process, Gateway!files, Gateway!TypeOK
    <2>4. {v5', v11', v10'} \subseteq {0} \cup Gateway!Generations /\ v13' \subseteq Gateway!Generations
      BY <1>1, <1>2, <1>3, <1>4 DEF Gateway!Removed, Gateway!process, Gateway!files, Gateway!TypeOK
    <2>5. v7' \in BOOLEAN
      BY <1>1, <1>2, <1>3, <1>4 DEF Gateway!Removed, Gateway!process, Gateway!files, Gateway!TypeOK
    <2>6. v15' \in 0..GatewayFaults /\ v14' \in 0..GatewayChanges
      BY <1>1, <1>2, <1>3, <1>4, GatewayAssumption DEF Gateway!Removed, Gateway!process, Gateway!files,
         Gateway!TypeOK, Gateway!Fault
    <2> QED BY <2>1, <2>2, <2>3, <2>4, <2>5, <2>6, GatewayTypesAre
  <1>6. Gateway!NewestLives'
    BY <1>1, <1>2, <1>3, <1>4 DEF Gateway!Removed, Gateway!process, Gateway!files, Gateway!NewestLives,
       Gateway!Alive, Gateway!Head1, Gateway!Underway, Gateway!TypeOK
  <1>7. Gateway!StopIsLast'
    <2>1. 1 \in 1..Len(v3) /\ v12 = "asked" /\ v5 = 0
      BY <1>1 DEF Gateway!Removed, Gateway!StopIsLast, Gateway!NewestLives, Gateway!Underway,
         Gateway!Head1, Gateway!TypeOK
    <2> QED BY <1>1, <1>4, <2>1 DEF Gateway!Removed, Gateway!StopIsLast
  <1>8. Gateway!TasksOK'
    <2>1. ASSUME NEW n \in 1..Len(v9')
          PROVE  /\ v9'[n].gateway <= Gateway!Newest'
                 /\ v9'[n].awaited =>
                      \/ v4' = "removing" /\ v9'[n] = Gateway!Task("remove", 0, TRUE)
                      \/ v4' = "publishing" /\ v9'[n] = Gateway!Task("publish", Gateway!Newest', TRUE)
      BY <1>1, <1>2, <1>3 DEF Gateway!Removed, Gateway!TasksOK, Gateway!Underway, Gateway!Numbered,
         Gateway!files
    <2>2. v10' # 0 => v9' # <<>> /\ v9'[1].op = "publish" /\ v9'[1].gateway = v10'
      BY <1>1 DEF Gateway!Removed, Gateway!TasksOK, Gateway!files
    <2> QED BY <2>1, <2>2 DEF Gateway!TasksOK, Gateway!Task
  <1>9. Gateway!DescriptorOK'
    BY <1>1, <1>2, <1>3, <1>4 DEF Gateway!Removed, Gateway!process, Gateway!files, Gateway!DescriptorOK,
       Gateway!NewestLives, Gateway!Underway
  <1>10. ASSUME NEW d \in GatewayCallers PROVE GatewayCallWhole(d)'
    <2>1. v2'[d] \in GatewayCallType /\ v2[d] \in GatewayCallType /\ GatewayCallWhole(d)
      BY <1>1, <1>2 DEF Gateway!Removed
    <2>2. \A h \in Gateway!Generations : v8[h].state # "none" =>
            v8'[h].state # "none" /\ v8'[h].of = v8[h].of
      BY <1>1, <1>2 DEF Gateway!Removed, Gateway!process, Gateway!files
    <2>3. v2'[d] = v2[d] /\ v2[d].pc = "waiting" => v8'[v2[d].gateway].state = "up"
      BY <1>1, <1>2 DEF Gateway!Removed, GatewayCallWhole, Gateway!CallOK, GatewayCallType
    <2>4. \/ v2'[d] = v2[d] \/ v2'[d] = Gateway!NoCall
          \/ /\ v2'[d].gateway \in Gateway!Generations /\ v2'[d].pc \in {"run", "requested", "settling"}
             /\ v8'[v2'[d].gateway].state # "none"
             /\ v8'[v2'[d].gateway].of = v2'[d].projection
      BY <1>1, <1>2 DEF Gateway!Removed
    <2> QED BY <2>1, <2>2, <2>3, <2>4, GatewayCallFollows
  <1> QED BY <1>2, <1>3, <1>4, <1>5, <1>6, <1>7, <1>8, <1>9, <1>10, GatewayInvIs DEF GatewayLine

(* A start that ends in time, or after the stop was asked for.              *)
LEMMA GatewayGatewayStartsLateKeeps ==
    ASSUME Gateway!Inv, Gateway!GatewayStarts, v7
    PROVE  Gateway!Inv'
  <1>1. /\ Gateway!TypeOK /\ Gateway!Numbered /\ Gateway!NewestLives /\ Gateway!StopIsLast
        /\ Gateway!TasksOK /\ Gateway!AwaitedOnce /\ Gateway!DescriptorOK
        /\ \A d \in GatewayCallers : GatewayCallWhole(d) /\ v2[d] \in GatewayCallType
        /\ v2 \in [GatewayCallers -> GatewayCallType] /\ v8 \in [Gateway!Generations -> GatewayProcessType]
        /\ v9 \in Seq(GatewayTaskType)
    BY GatewayInvIs, GatewayTypesAre DEF GatewayLine
  <1>2. Gateway!Newest \in Gateway!Generations /\ v8[Gateway!Newest].state = "starting" /\ v3 # <<>> /\ v5 = 0
    BY <1>1 DEF Gateway!GatewayStarts, Gateway!connectClient, Gateway!NewestLives, Gateway!StopIsLast, Gateway!Underway,
       Gateway!Numbered, Gateway!Generations
  <1>3. /\ v8' \in [Gateway!Generations -> GatewayProcessType] /\ Gateway!Newest' = Gateway!Newest
        /\ Gateway!Numbered'
        /\ v8'[Gateway!Newest].state = "stopping"
        /\ \A h \in Gateway!Generations : v8'[h].of = v8[h].of
        /\ \A h \in Gateway!Generations \ {Gateway!Newest} : v8'[h] = v8[h]
    BY <1>1, <1>2, GatewayBecomesIs DEF Gateway!GatewayStarts, Gateway!connectClient
  <1>4. Gateway!AwaitedOnce' /\ (Gateway!RemoveWaits => Gateway!RemoveWaits')
    BY <1>1 DEF Gateway!AwaitedOnce, Gateway!RemoveWaits, Gateway!GatewayStarts, Gateway!connectClient, Gateway!process,
       Gateway!files
  <1>5. Gateway!TypeOK'
    <2>1. v2' \in [GatewayCallers -> GatewayCallType] /\ v8' \in [Gateway!Generations -> GatewayProcessType]
      BY <1>1, <1>2, <1>3, <1>4 DEF Gateway!GatewayStarts, Gateway!connectClient, Gateway!process, Gateway!files
    <2>2. v9' \in Seq(GatewayTaskType) /\ v3' \in Seq(Projections \cup {"stop"}) /\ v1' \in Projections
      BY <1>1, <1>2, <1>3, <1>4 DEF Gateway!GatewayStarts, Gateway!connectClient, Gateway!process, Gateway!files, Gateway!TypeOK
    <2>3. /\ v4' \in {"idle", "stopping", "removing", "starting", "publishing", "abandoning"}
          /\ v6' \in {"STOPPED", "STARTING", "READY", "FAILED", "STOPPING"}
          /\ v12' \in {"no", "asked", "done", "failed"}
      BY <1>1, <1>2, <1>3, <1>4 DEF Gateway!GatewayStarts, Gateway!connectClient, Gateway!process, Gateway!files, Gateway!TypeOK
    <2>4. {v5', v11', v10'} \subseteq {0} \cup Gateway!Generations /\ v13' \subseteq Gateway!Generations
      BY <1>1, <1>2, <1>3, <1>4 DEF Gateway!GatewayStarts, Gateway!connectClient, Gateway!process, Gateway!files, Gateway!TypeOK
    <2>5. v7' \in BOOLEAN
      BY <1>1, <1>2, <1>3, <1>4 DEF Gateway!GatewayStarts, Gateway!connectClient, Gateway!process, Gateway!files, Gateway!TypeOK
    <2>6. v15' \in 0..GatewayFaults /\ v14' \in 0..GatewayChanges
      BY <1>1, <1>2, <1>3, <1>4, GatewayAssumption DEF Gateway!GatewayStarts, Gateway!connectClient, Gateway!process,
         Gateway!files, Gateway!TypeOK, Gateway!Fault
    <2> QED BY <2>1, <2>2, <2>3, <2>4, <2>5, <2>6, GatewayTypesAre
  <1>6. Gateway!NewestLives'
    BY <1>1, <1>2, <1>3, <1>4 DEF Gateway!GatewayStarts, Gateway!connectClient, Gateway!process, Gateway!files,
       Gateway!NewestLives, Gateway!Alive, Gateway!Head1, Gateway!Underway,
       Gateway!TypeOK
  <1>7. Gateway!StopIsLast'
    BY <1>1, <1>2, <1>3, <1>4 DEF Gateway!GatewayStarts, Gateway!connectClient, Gateway!process, Gateway!files,
       Gateway!StopIsLast, Gateway!NewestLives, Gateway!Underway
  <1>8. Gateway!TasksOK'
    <2>1. ASSUME NEW n \in 1..Len(v9')
          PROVE  /\ v9'[n].gateway <= Gateway!Newest'
                 /\ v9'[n].awaited =>
                      \/ v4' = "removing" /\ v9'[n] = Gateway!Task("remove", 0, TRUE)
                      \/ v4' = "publishing" /\ v9'[n] = Gateway!Task("publish", Gateway!Newest', TRUE)
      BY <1>1, <1>2, <1>3 DEF Gateway!GatewayStarts, Gateway!connectClient, Gateway!TasksOK, Gateway!Underway, Gateway!Numbered
    <2>2. v10' # 0 => v9' # <<>> /\ v9'[1].op = "publish" /\ v9'[1].gateway = v10'
      BY <1>1 DEF Gateway!GatewayStarts, Gateway!connectClient, Gateway!TasksOK, Gateway!files
    <2> QED BY <2>1, <2>2 DEF Gateway!TasksOK, Gateway!Task
  <1>9. Gateway!DescriptorOK'
    <2> SUFFICES ASSUME NEW d \in {v11', v10'} \ {0}
                 PROVE  /\ d <= Gateway!Newest'
                        /\ \/ d \in v13' \/ Gateway!RemoveWaits'
                           \/ d = Gateway!Newest' /\ (v5' = d \/ v4' = "stopping")
      BY DEF Gateway!DescriptorOK
    <2> QED BY <1>1, <1>2, <1>3, <1>4 DEF Gateway!GatewayStarts, Gateway!connectClient, Gateway!DescriptorOK, Gateway!Underway,
               Gateway!files
  <1>10. ASSUME NEW d \in GatewayCallers PROVE GatewayCallWhole(d)'
    <2>1. v2'[d] \in GatewayCallType /\ v2[d] \in GatewayCallType /\ GatewayCallWhole(d)
      BY <1>1, <1>2, <1>3 DEF Gateway!GatewayStarts, Gateway!connectClient
    <2>2. \A h \in Gateway!Generations : v8[h].state # "none" =>
            v8'[h].state # "none" /\ v8'[h].of = v8[h].of
      BY <1>1, <1>2, <1>3 DEF Gateway!GatewayStarts, Gateway!connectClient, Gateway!process, Gateway!files
    <2>3. v2'[d] = v2[d] /\ v2[d].pc = "waiting" => v8'[v2[d].gateway].state = "up"
      BY <1>1, <1>2, <1>3 DEF Gateway!GatewayStarts, Gateway!connectClient, GatewayCallWhole, Gateway!CallOK, GatewayCallType
    <2>4. \/ v2'[d] = v2[d] \/ v2'[d] = Gateway!NoCall
          \/ /\ v2'[d].gateway \in Gateway!Generations /\ v2'[d].pc \in {"run", "requested", "settling"}
             /\ v8'[v2'[d].gateway].state # "none"
             /\ v8'[v2'[d].gateway].of = v2'[d].projection
      BY <1>1, <1>2, <1>3 DEF Gateway!GatewayStarts, Gateway!connectClient
    <2> QED BY <2>1, <2>2, <2>3, <2>4, GatewayCallFollows
  <1> QED BY <1>2, <1>3, <1>4, <1>5, <1>6, <1>7, <1>8, <1>9, <1>10, GatewayInvIs DEF GatewayLine

(* A start that ends in time, or after the stop was asked for.              *)
LEMMA GatewayGatewayStartsKeeps ==
    ASSUME Gateway!Inv, Gateway!GatewayStarts, ~v7
    PROVE  Gateway!Inv'
  <1>1. /\ Gateway!TypeOK /\ Gateway!Numbered /\ Gateway!NewestLives /\ Gateway!StopIsLast
        /\ Gateway!TasksOK /\ Gateway!AwaitedOnce /\ Gateway!DescriptorOK
        /\ \A d \in GatewayCallers : GatewayCallWhole(d) /\ v2[d] \in GatewayCallType
        /\ v2 \in [GatewayCallers -> GatewayCallType] /\ v8 \in [Gateway!Generations -> GatewayProcessType]
        /\ v9 \in Seq(GatewayTaskType)
    BY GatewayInvIs, GatewayTypesAre DEF GatewayLine
  <1>2. Gateway!Newest \in Gateway!Generations /\ v8[Gateway!Newest].state = "starting" /\ v3 # <<>> /\ v5 = 0
    BY <1>1 DEF Gateway!GatewayStarts, Gateway!connectClient, Gateway!NewestLives, Gateway!StopIsLast, Gateway!Underway,
       Gateway!Numbered, Gateway!Generations
  <1>3. /\ v8' \in [Gateway!Generations -> GatewayProcessType] /\ Gateway!Newest' = Gateway!Newest
        /\ Gateway!Numbered'
        /\ v8'[Gateway!Newest].state = "up"
        /\ \A h \in Gateway!Generations : v8'[h].of = v8[h].of
        /\ \A h \in Gateway!Generations \ {Gateway!Newest} : v8'[h] = v8[h]
    BY <1>1, <1>2, GatewayBecomesIs DEF Gateway!GatewayStarts, Gateway!connectClient
  <1>4. /\ Gateway!Task("publish", Gateway!Newest, TRUE) \in GatewayTaskType
        /\ v9' \in Seq(GatewayTaskType) /\ Gateway!AwaitedOnce' /\ (Gateway!RemoveWaits => Gateway!RemoveWaits')
        /\ Gateway!Task("publish", Gateway!Newest, TRUE).op = "remove" => Gateway!RemoveWaits'
        /\ \A n \in 1..Len(v9') :
             \/ v9'[n] = Gateway!Task("publish", Gateway!Newest, TRUE)
             \/ \E m \in 1..Len(v9) : v9'[n] = v9[m]
        /\ v9 # <<>> => v9' # <<>> /\ v9'[1] = v9[1]
    <2>1. Gateway!Task("publish", Gateway!Newest, TRUE) \in GatewayTaskType
      BY <1>1, <1>2 DEF Gateway!GatewayStarts, Gateway!connectClient, Gateway!Task, GatewayTaskType
    <2>2. Gateway!Task("publish", Gateway!Newest, TRUE).awaited =>
            \A n \in 1..Len(v9) : ~v9[n].awaited
      BY <1>1, <1>2 DEF Gateway!GatewayStarts, Gateway!connectClient, Gateway!Task, Gateway!TasksOK, Gateway!Underway
    <2>3. v9' = Gateway!Queued(Gateway!Task("publish", Gateway!Newest, TRUE))
      BY DEF Gateway!GatewayStarts, Gateway!connectClient
    <2> QED BY <1>1, <2>1, <2>2, <2>3, GatewayQueuedKeeps
  <1>5. Gateway!TypeOK'
    <2>1. v2' \in [GatewayCallers -> GatewayCallType] /\ v8' \in [Gateway!Generations -> GatewayProcessType]
      BY <1>1, <1>2, <1>3, <1>4 DEF Gateway!GatewayStarts, Gateway!connectClient, Gateway!process, Gateway!files
    <2>2. v9' \in Seq(GatewayTaskType) /\ v3' \in Seq(Projections \cup {"stop"}) /\ v1' \in Projections
      BY <1>1, <1>2, <1>3, <1>4 DEF Gateway!GatewayStarts, Gateway!connectClient, Gateway!process, Gateway!files, Gateway!TypeOK
    <2>3. /\ v4' \in {"idle", "stopping", "removing", "starting", "publishing", "abandoning"}
          /\ v6' \in {"STOPPED", "STARTING", "READY", "FAILED", "STOPPING"}
          /\ v12' \in {"no", "asked", "done", "failed"}
      BY <1>1, <1>2, <1>3, <1>4 DEF Gateway!GatewayStarts, Gateway!connectClient, Gateway!process, Gateway!files, Gateway!TypeOK
    <2>4. {v5', v11', v10'} \subseteq {0} \cup Gateway!Generations /\ v13' \subseteq Gateway!Generations
      BY <1>1, <1>2, <1>3, <1>4 DEF Gateway!GatewayStarts, Gateway!connectClient, Gateway!process, Gateway!files, Gateway!TypeOK
    <2>5. v7' \in BOOLEAN
      BY <1>1, <1>2, <1>3, <1>4 DEF Gateway!GatewayStarts, Gateway!connectClient, Gateway!process, Gateway!files, Gateway!TypeOK
    <2>6. v15' \in 0..GatewayFaults /\ v14' \in 0..GatewayChanges
      BY <1>1, <1>2, <1>3, <1>4, GatewayAssumption DEF Gateway!GatewayStarts, Gateway!connectClient, Gateway!process,
         Gateway!files, Gateway!TypeOK, Gateway!Fault
    <2> QED BY <2>1, <2>2, <2>3, <2>4, <2>5, <2>6, GatewayTypesAre
  <1>6. Gateway!NewestLives'
    BY <1>1, <1>2, <1>3, <1>4 DEF Gateway!GatewayStarts, Gateway!connectClient, Gateway!process, Gateway!files,
       Gateway!NewestLives, Gateway!Alive, Gateway!Head1, Gateway!Underway,
       Gateway!TypeOK
  <1>7. Gateway!StopIsLast'
    BY <1>1, <1>2, <1>3, <1>4 DEF Gateway!GatewayStarts, Gateway!connectClient, Gateway!process, Gateway!files,
       Gateway!StopIsLast, Gateway!NewestLives, Gateway!Underway
  <1>8. Gateway!TasksOK'
    <2>1. ASSUME NEW n \in 1..Len(v9')
          PROVE  /\ v9'[n].gateway <= Gateway!Newest'
                 /\ v9'[n].awaited =>
                      \/ v4' = "removing" /\ v9'[n] = Gateway!Task("remove", 0, TRUE)
                      \/ v4' = "publishing" /\ v9'[n] = Gateway!Task("publish", Gateway!Newest', TRUE)
      <3>1. CASE v9'[n] = Gateway!Task("publish", Gateway!Newest, TRUE)
        BY <1>1, <1>2, <1>3, <3>1 DEF Gateway!GatewayStarts, Gateway!connectClient, Gateway!Task, Gateway!Numbered
      <3>2. CASE \E m \in 1..Len(v9) : v9'[n] = v9[m]
        BY <1>1, <1>2, <1>3, <3>2 DEF Gateway!GatewayStarts, Gateway!connectClient, Gateway!TasksOK, Gateway!Underway
      <3> QED BY <1>4, <3>1, <3>2
    <2>2. v10' # 0 => v9' # <<>> /\ v9'[1].op = "publish" /\ v9'[1].gateway = v10'
      BY <1>1, <1>4 DEF Gateway!GatewayStarts, Gateway!connectClient, Gateway!TasksOK
    <2> QED BY <2>1, <2>2 DEF Gateway!TasksOK, Gateway!Task
  <1>9. Gateway!DescriptorOK'
    <2> SUFFICES ASSUME NEW d \in {v11', v10'} \ {0}
                 PROVE  /\ d <= Gateway!Newest'
                        /\ \/ d \in v13' \/ Gateway!RemoveWaits'
                           \/ d = Gateway!Newest' /\ (v5' = d \/ v4' = "stopping")
      BY DEF Gateway!DescriptorOK
    <2> QED BY <1>1, <1>2, <1>3, <1>4 DEF Gateway!GatewayStarts, Gateway!connectClient, Gateway!DescriptorOK, Gateway!Underway,
               Gateway!files
  <1>10. ASSUME NEW d \in GatewayCallers PROVE GatewayCallWhole(d)'
    <2>1. v2'[d] \in GatewayCallType /\ v2[d] \in GatewayCallType /\ GatewayCallWhole(d)
      BY <1>1, <1>2, <1>3 DEF Gateway!GatewayStarts, Gateway!connectClient
    <2>2. \A h \in Gateway!Generations : v8[h].state # "none" =>
            v8'[h].state # "none" /\ v8'[h].of = v8[h].of
      BY <1>1, <1>2, <1>3 DEF Gateway!GatewayStarts, Gateway!connectClient, Gateway!process, Gateway!files
    <2>3. v2'[d] = v2[d] /\ v2[d].pc = "waiting" => v8'[v2[d].gateway].state = "up"
      BY <1>1, <1>2, <1>3 DEF Gateway!GatewayStarts, Gateway!connectClient, GatewayCallWhole, Gateway!CallOK, GatewayCallType
    <2>4. \/ v2'[d] = v2[d] \/ v2'[d] = Gateway!NoCall
          \/ /\ v2'[d].gateway \in Gateway!Generations /\ v2'[d].pc \in {"run", "requested", "settling"}
             /\ v8'[v2'[d].gateway].state # "none"
             /\ v8'[v2'[d].gateway].of = v2'[d].projection
      BY <1>1, <1>2, <1>3 DEF Gateway!GatewayStarts, Gateway!connectClient
    <2> QED BY <2>1, <2>2, <2>3, <2>4, GatewayCallFollows
  <1> QED BY <1>2, <1>3, <1>4, <1>5, <1>6, <1>7, <1>8, <1>9, <1>10, GatewayInvIs DEF GatewayLine

(* The descriptor of the new Gateway is there.                              *)
LEMMA GatewayPublishedKeeps ==
    ASSUME Gateway!Inv, Gateway!Published
    PROVE  Gateway!Inv'
  <1>1. /\ Gateway!TypeOK /\ Gateway!Numbered /\ Gateway!NewestLives /\ Gateway!StopIsLast
        /\ Gateway!TasksOK /\ Gateway!AwaitedOnce /\ Gateway!DescriptorOK
        /\ \A d \in GatewayCallers : GatewayCallWhole(d) /\ v2[d] \in GatewayCallType
        /\ v2 \in [GatewayCallers -> GatewayCallType] /\ v8 \in [Gateway!Generations -> GatewayProcessType]
        /\ v9 \in Seq(GatewayTaskType)
    BY GatewayInvIs, GatewayTypesAre DEF GatewayLine
  <1>2. Gateway!Newest' = Gateway!Newest /\ Gateway!Numbered'
    BY <1>1, GatewayNewestStays DEF Gateway!Published, Gateway!process, Gateway!files
  <1>3. Gateway!AwaitedOnce' /\ (Gateway!RemoveWaits => Gateway!RemoveWaits')
    BY <1>1 DEF Gateway!AwaitedOnce, Gateway!RemoveWaits, Gateway!Published, Gateway!process, Gateway!files
  <1>4. /\ v3 # <<>>
        /\ v3' \in Seq(Projections \cup {"stop"}) /\ v4' = "idle"
        /\ \A n \in 1..Len(v3') :
             v3'[n] = "stop" => n = Len(v3') /\ v12 = "asked"
        /\ Gateway!Head1 = "stop" => v3' = <<>>
    BY <1>1, GatewaySettlesKeeps DEF Gateway!Published, Gateway!StopIsLast, Gateway!Underway
  <1>5. /\ Gateway!Newest \in Gateway!Generations /\ v8[Gateway!Newest].of = Gateway!Head1
        /\ v8[Gateway!Newest].state # "none"
    BY <1>1 DEF Gateway!Published, Gateway!NewestLives, Gateway!Numbered, Gateway!Underway,
       Gateway!Generations
  <1>6. /\ v2' \in [GatewayCallers -> GatewayCallType]
        /\ \A c \in GatewayCallers :
             \/ v2'[c] = v2[c]
             \/ v2'[c] = Gateway!NoCall
             \/ /\ Gateway!Newest \in Gateway!Generations /\ v2'[c].pc = "run"
                /\ v2'[c].gateway = Gateway!Newest
                /\ v2'[c].projection = Gateway!Head1
    <2>1. /\ v2' = Gateway!Resolved(Gateway!Head1, Gateway!Newest)
          /\ Gateway!Newest \in {0} \cup Gateway!Generations
      BY <1>5 DEF Gateway!Published
    <2> QED BY <1>1, <1>5, <2>1, GatewayResolvedIs
  <1>7. Gateway!TypeOK'
    <2>1. v2' \in [GatewayCallers -> GatewayCallType] /\ v8' \in [Gateway!Generations -> GatewayProcessType]
      BY <1>1, <1>2, <1>3, <1>4, <1>5, <1>6 DEF Gateway!Published, Gateway!process, Gateway!files
    <2>2. v9' \in Seq(GatewayTaskType) /\ v3' \in Seq(Projections \cup {"stop"}) /\ v1' \in Projections
      BY <1>1, <1>2, <1>3, <1>4, <1>5, <1>6 DEF Gateway!Published, Gateway!process, Gateway!files,
         Gateway!TypeOK
    <2>3. /\ v4' \in {"idle", "stopping", "removing", "starting", "publishing", "abandoning"}
          /\ v6' \in {"STOPPED", "STARTING", "READY", "FAILED", "STOPPING"}
          /\ v12' \in {"no", "asked", "done", "failed"}
      BY <1>1, <1>2, <1>3, <1>4, <1>5, <1>6 DEF Gateway!Published, Gateway!process, Gateway!files,
         Gateway!TypeOK
    <2>4. {v5', v11', v10'} \subseteq {0} \cup Gateway!Generations /\ v13' \subseteq Gateway!Generations
      BY <1>1, <1>2, <1>3, <1>4, <1>5, <1>6 DEF Gateway!Published, Gateway!process, Gateway!files,
         Gateway!TypeOK
    <2>5. v7' \in BOOLEAN
      BY <1>1, <1>2, <1>3, <1>4, <1>5, <1>6 DEF Gateway!Published, Gateway!process, Gateway!files,
         Gateway!TypeOK
    <2>6. v15' \in 0..GatewayFaults /\ v14' \in 0..GatewayChanges
      BY <1>1, <1>2, <1>3, <1>4, <1>5, <1>6, GatewayAssumption DEF Gateway!Published, Gateway!process,
         Gateway!files, Gateway!TypeOK, Gateway!Fault
    <2> QED BY <2>1, <2>2, <2>3, <2>4, <2>5, <2>6, GatewayTypesAre
  <1>8. Gateway!NewestLives'
    BY <1>1, <1>2, <1>3, <1>4, <1>5, <1>6 DEF Gateway!Published, Gateway!process, Gateway!files,
       Gateway!NewestLives, Gateway!Alive, Gateway!Head1,
       Gateway!Underway, Gateway!TypeOK
  <1>9. Gateway!StopIsLast'
    BY <1>1, <1>2, <1>3, <1>4, <1>5, <1>6 DEF Gateway!Published, Gateway!process, Gateway!files,
       Gateway!StopIsLast, Gateway!NewestLives,
       Gateway!Underway
  <1>10. Gateway!TasksOK'
    BY <1>1, <1>2, <1>3, <1>4, <1>5, <1>6 DEF Gateway!Published, Gateway!process, Gateway!files,
       Gateway!TasksOK, Gateway!Task, Gateway!Underway
  <1>11. Gateway!DescriptorOK'
    BY <1>1, <1>2, <1>3, <1>4, <1>5, <1>6 DEF Gateway!Published, Gateway!process, Gateway!files,
       Gateway!DescriptorOK, Gateway!NewestLives,
       Gateway!Underway
  <1>12. ASSUME NEW d \in GatewayCallers PROVE GatewayCallWhole(d)'
    <2>1. v2'[d] \in GatewayCallType /\ v2[d] \in GatewayCallType /\ GatewayCallWhole(d)
      BY <1>1, <1>5, <1>6 DEF Gateway!Published
    <2>2. \A h \in Gateway!Generations : v8[h].state # "none" =>
            v8'[h].state # "none" /\ v8'[h].of = v8[h].of
      BY <1>1, <1>5, <1>6 DEF Gateway!Published, Gateway!process, Gateway!files
    <2>3. v2'[d] = v2[d] /\ v2[d].pc = "waiting" => v8'[v2[d].gateway].state = "up"
      BY <1>1, <1>5, <1>6 DEF Gateway!Published, GatewayCallWhole, Gateway!CallOK, GatewayCallType
    <2>4. \/ v2'[d] = v2[d] \/ v2'[d] = Gateway!NoCall
          \/ /\ v2'[d].gateway \in Gateway!Generations /\ v2'[d].pc \in {"run", "requested", "settling"}
             /\ v8'[v2'[d].gateway].state # "none"
             /\ v8'[v2'[d].gateway].of = v2'[d].projection
      BY <1>1, <1>5, <1>6 DEF Gateway!Published
    <2> QED BY <2>1, <2>2, <2>3, <2>4, GatewayCallFollows
  <1> QED BY <1>2, <1>3, <1>4, <1>5, <1>6, <1>7, <1>8, <1>9, <1>10, <1>11, <1>12, GatewayInvIs DEF
             GatewayLine

(* The process does not end in time, and another was to start.              *)
LEMMA GatewayStopFailsNextKeeps ==
    ASSUME Gateway!Inv, Gateway!StopFails, Gateway!Head1 # "stop"
    PROVE  Gateway!Inv'
  <1>1. /\ Gateway!TypeOK /\ Gateway!Numbered /\ Gateway!NewestLives /\ Gateway!StopIsLast
        /\ Gateway!TasksOK /\ Gateway!AwaitedOnce /\ Gateway!DescriptorOK
        /\ \A d \in GatewayCallers : GatewayCallWhole(d) /\ v2[d] \in GatewayCallType
        /\ v2 \in [GatewayCallers -> GatewayCallType] /\ v8 \in [Gateway!Generations -> GatewayProcessType]
        /\ v9 \in Seq(GatewayTaskType)
    BY GatewayInvIs, GatewayTypesAre DEF GatewayLine
  <1>2. Gateway!Newest \in Gateway!Generations /\ v8[Gateway!Newest].state = "stopping" /\ v3 # <<>> /\ v5 = 0
    BY <1>1 DEF Gateway!StopFails, Gateway!NewestLives, Gateway!Alive, Gateway!StopIsLast,
       Gateway!Underway, Gateway!Numbered, Gateway!Generations
  <1>3. /\ v8' \in [Gateway!Generations -> GatewayProcessType] /\ Gateway!Newest' = Gateway!Newest
        /\ Gateway!Numbered'
        /\ v8'[Gateway!Newest].state \in {"gone", "stuck"}
        /\ \A h \in Gateway!Generations : v8'[h].of = v8[h].of
        /\ \A h \in Gateway!Generations \ {Gateway!Newest} : v8'[h] = v8[h]
    <2>1. PICK state \in {"gone", "stuck"} : v8' = Gateway!Becomes(Gateway!Newest, state)
      BY <1>1, <1>2 DEF Gateway!StopFails, Gateway!NewestLives, Gateway!Alive
    <2> QED BY <1>1, <1>2, <2>1, GatewayBecomesIs
  <1>4. Gateway!AwaitedOnce' /\ (Gateway!RemoveWaits => Gateway!RemoveWaits')
    BY <1>1 DEF Gateway!AwaitedOnce, Gateway!RemoveWaits, Gateway!StopFails, Gateway!process, Gateway!files
  <1>5. v3 # <<>> /\ Gateway!Settles
    BY <1>2 DEF Gateway!StopFails
  <1>6. /\ v3 # <<>>
        /\ v3' \in Seq(Projections \cup {"stop"}) /\ v4' = "idle"
        /\ \A n \in 1..Len(v3') :
             v3'[n] = "stop" => n = Len(v3') /\ v12 = "asked"
        /\ Gateway!Head1 = "stop" => v3' = <<>>
    BY <1>1, <1>5, GatewaySettlesKeeps
  <1>7. /\ v2' \in [GatewayCallers -> GatewayCallType]
        /\ \A c \in GatewayCallers : v2'[c] = v2[c] \/ v2'[c] = Gateway!NoCall
    <2>1. v2' = Gateway!Resolved(Gateway!Head1, 0)
      BY DEF Gateway!StopFails
    <2> QED BY <1>1, <2>1, GatewayResolvedIs
  <1>8. Gateway!TypeOK'
    <2>1. v2' \in [GatewayCallers -> GatewayCallType] /\ v8' \in [Gateway!Generations -> GatewayProcessType]
      BY <1>1, <1>2, <1>3, <1>4, <1>5, <1>6, <1>7 DEF Gateway!StopFails, Gateway!process, Gateway!files
    <2>2. v9' \in Seq(GatewayTaskType) /\ v3' \in Seq(Projections \cup {"stop"}) /\ v1' \in Projections
      BY <1>1, <1>2, <1>3, <1>4, <1>5, <1>6, <1>7 DEF Gateway!StopFails, Gateway!process, Gateway!files,
         Gateway!TypeOK
    <2>3. /\ v4' \in {"idle", "stopping", "removing", "starting", "publishing", "abandoning"}
          /\ v6' \in {"STOPPED", "STARTING", "READY", "FAILED", "STOPPING"}
          /\ v12' \in {"no", "asked", "done", "failed"}
      BY <1>1, <1>2, <1>3, <1>4, <1>5, <1>6, <1>7 DEF Gateway!StopFails, Gateway!process, Gateway!files,
         Gateway!TypeOK
    <2>4. {v5', v11', v10'} \subseteq {0} \cup Gateway!Generations /\ v13' \subseteq Gateway!Generations
      BY <1>1, <1>2, <1>3, <1>4, <1>5, <1>6, <1>7 DEF Gateway!StopFails, Gateway!process, Gateway!files,
         Gateway!TypeOK
    <2>5. v7' \in BOOLEAN
      BY <1>1, <1>2, <1>3, <1>4, <1>5, <1>6, <1>7 DEF Gateway!StopFails, Gateway!process, Gateway!files,
         Gateway!TypeOK
    <2>6. v15' \in 0..GatewayFaults /\ v14' \in 0..GatewayChanges
      BY <1>1, <1>2, <1>3, <1>4, <1>5, <1>6, <1>7, GatewayAssumption DEF Gateway!StopFails,
         Gateway!process, Gateway!files, Gateway!TypeOK, Gateway!Fault
    <2> QED BY <2>1, <2>2, <2>3, <2>4, <2>5, <2>6, GatewayTypesAre
  <1>9. Gateway!NewestLives'
    <2>1. ASSUME NEW h \in Gateway!Generations, v8'[h].state \in {"starting", "up", "stopping"}
          PROVE  FALSE
      <3>1. h # Gateway!Newest
        BY <1>3, <2>1
      <3>2. h \in Gateway!Alive
        BY <1>3, <2>1, <3>1 DEF Gateway!Alive
      <3> QED BY <1>1, <3>1, <3>2 DEF Gateway!NewestLives
    <2>2. v4' = "idle" /\ v5' = 0
      BY <1>1, <1>2 DEF Gateway!StopFails, Gateway!Settles
    <2> QED BY <2>1, <2>2 DEF Gateway!NewestLives, Gateway!Alive
  <1>10. Gateway!StopIsLast'
    <2>1. v12 \notin {"done", "failed"}
      BY <1>1, <1>2 DEF Gateway!StopIsLast
    <2> QED BY <1>1, <1>2, <1>6, <2>1 DEF Gateway!StopFails, Gateway!StopIsLast
  <1>11. Gateway!TasksOK'
    <2>1. ASSUME NEW n \in 1..Len(v9')
          PROVE  /\ v9'[n].gateway <= Gateway!Newest'
                 /\ v9'[n].awaited =>
                      \/ v4' = "removing" /\ v9'[n] = Gateway!Task("remove", 0, TRUE)
                      \/ v4' = "publishing" /\ v9'[n] = Gateway!Task("publish", Gateway!Newest', TRUE)
      BY <1>1, <1>3, <1>4 DEF Gateway!StopFails, Gateway!TasksOK, Gateway!Underway, Gateway!files
    <2>2. v10' # 0 => v9' # <<>> /\ v9'[1].op = "publish" /\ v9'[1].gateway = v10'
      BY <1>1 DEF Gateway!StopFails, Gateway!TasksOK, Gateway!files
    <2> QED BY <2>1, <2>2 DEF Gateway!TasksOK, Gateway!Task
  <1>12. Gateway!DescriptorOK'
    <2> SUFFICES ASSUME NEW d \in {v11', v10'} \ {0}
                 PROVE  /\ d <= Gateway!Newest'
                        /\ \/ d \in v13' \/ Gateway!RemoveWaits'
                           \/ d = Gateway!Newest' /\ (v5' = d \/ v4' = "stopping")
      BY DEF Gateway!DescriptorOK
    <2>1. v13' = v13 \cup {Gateway!Newest}
      BY <1>1, <1>2 DEF Gateway!StopFails, Gateway!NewestLives, Gateway!Alive
    <2> QED BY <1>1, <1>2, <1>3, <1>4, <2>1 DEF Gateway!StopFails, Gateway!DescriptorOK, Gateway!files
  <1>13. ASSUME NEW d \in GatewayCallers PROVE GatewayCallWhole(d)'
    <2>1. v2'[d] \in GatewayCallType /\ v2[d] \in GatewayCallType /\ GatewayCallWhole(d)
      BY <1>1, <1>2, <1>3, <1>7 DEF Gateway!StopFails
    <2>2. \A h \in Gateway!Generations : v8[h].state # "none" =>
            v8'[h].state # "none" /\ v8'[h].of = v8[h].of
      BY <1>1, <1>2, <1>3, <1>7 DEF Gateway!StopFails, Gateway!process, Gateway!files
    <2>3. v2'[d] = v2[d] /\ v2[d].pc = "waiting" => v8'[v2[d].gateway].state = "up"
      BY <1>1, <1>2, <1>3, <1>7 DEF Gateway!StopFails, GatewayCallWhole, Gateway!CallOK, GatewayCallType,
         Gateway!NoCall
    <2>4. \/ v2'[d] = v2[d] \/ v2'[d] = Gateway!NoCall
          \/ /\ v2'[d].gateway \in Gateway!Generations /\ v2'[d].pc \in {"run", "requested", "settling"}
             /\ v8'[v2'[d].gateway].state # "none"
             /\ v8'[v2'[d].gateway].of = v2'[d].projection
      BY <1>1, <1>2, <1>3, <1>7 DEF Gateway!StopFails
    <2> QED BY <2>1, <2>2, <2>3, <2>4, GatewayCallFollows
  <1> QED BY <1>2, <1>3, <1>4, <1>5, <1>6, <1>7, <1>8, <1>9, <1>10, <1>11, <1>12, <1>13, GatewayInvIs DEF
             GatewayLine

(* The process does not end in time, and the stop fails.                    *)
LEMMA GatewayStopFailsLastKeeps ==
    ASSUME Gateway!Inv, Gateway!StopFails, Gateway!Head1 = "stop"
    PROVE  Gateway!Inv'
  <1>1. /\ Gateway!TypeOK /\ Gateway!Numbered /\ Gateway!NewestLives /\ Gateway!StopIsLast
        /\ Gateway!TasksOK /\ Gateway!AwaitedOnce /\ Gateway!DescriptorOK
        /\ \A d \in GatewayCallers : GatewayCallWhole(d) /\ v2[d] \in GatewayCallType
        /\ v2 \in [GatewayCallers -> GatewayCallType] /\ v8 \in [Gateway!Generations -> GatewayProcessType]
        /\ v9 \in Seq(GatewayTaskType)
    BY GatewayInvIs, GatewayTypesAre DEF GatewayLine
  <1>2. Gateway!Newest \in Gateway!Generations /\ v8[Gateway!Newest].state = "stopping" /\ v3 # <<>> /\ v5 = 0
    BY <1>1 DEF Gateway!StopFails, Gateway!NewestLives, Gateway!Alive, Gateway!StopIsLast,
       Gateway!Underway, Gateway!Numbered, Gateway!Generations
  <1>3. /\ v8' \in [Gateway!Generations -> GatewayProcessType] /\ Gateway!Newest' = Gateway!Newest
        /\ Gateway!Numbered'
        /\ v8'[Gateway!Newest].state \in {"gone", "stuck"}
        /\ \A h \in Gateway!Generations : v8'[h].of = v8[h].of
        /\ \A h \in Gateway!Generations \ {Gateway!Newest} : v8'[h] = v8[h]
    <2>1. PICK state \in {"gone", "stuck"} : v8' = Gateway!Becomes(Gateway!Newest, state)
      BY <1>1, <1>2 DEF Gateway!StopFails, Gateway!NewestLives, Gateway!Alive
    <2> QED BY <1>1, <1>2, <2>1, GatewayBecomesIs
  <1>4. Gateway!AwaitedOnce' /\ (Gateway!RemoveWaits => Gateway!RemoveWaits')
    BY <1>1 DEF Gateway!AwaitedOnce, Gateway!RemoveWaits, Gateway!StopFails, Gateway!process, Gateway!files
  <1>5. v3 # <<>> /\ Gateway!Settles
    BY <1>2 DEF Gateway!StopFails
  <1>6. /\ v3 # <<>>
        /\ v3' \in Seq(Projections \cup {"stop"}) /\ v4' = "idle"
        /\ \A n \in 1..Len(v3') :
             v3'[n] = "stop" => n = Len(v3') /\ v12 = "asked"
        /\ Gateway!Head1 = "stop" => v3' = <<>>
    BY <1>1, <1>5, GatewaySettlesKeeps
  <1>7. Gateway!TypeOK'
    <2>1. v2' \in [GatewayCallers -> GatewayCallType] /\ v8' \in [Gateway!Generations -> GatewayProcessType]
      BY <1>1, <1>2, <1>3, <1>4, <1>5, <1>6 DEF Gateway!StopFails, Gateway!process, Gateway!files
    <2>2. v9' \in Seq(GatewayTaskType) /\ v3' \in Seq(Projections \cup {"stop"}) /\ v1' \in Projections
      BY <1>1, <1>2, <1>3, <1>4, <1>5, <1>6 DEF Gateway!StopFails, Gateway!process, Gateway!files,
         Gateway!TypeOK
    <2>3. /\ v4' \in {"idle", "stopping", "removing", "starting", "publishing", "abandoning"}
          /\ v6' \in {"STOPPED", "STARTING", "READY", "FAILED", "STOPPING"}
          /\ v12' \in {"no", "asked", "done", "failed"}
      BY <1>1, <1>2, <1>3, <1>4, <1>5, <1>6 DEF Gateway!StopFails, Gateway!process, Gateway!files,
         Gateway!TypeOK
    <2>4. {v5', v11', v10'} \subseteq {0} \cup Gateway!Generations /\ v13' \subseteq Gateway!Generations
      BY <1>1, <1>2, <1>3, <1>4, <1>5, <1>6 DEF Gateway!StopFails, Gateway!process, Gateway!files,
         Gateway!TypeOK
    <2>5. v7' \in BOOLEAN
      BY <1>1, <1>2, <1>3, <1>4, <1>5, <1>6 DEF Gateway!StopFails, Gateway!process, Gateway!files,
         Gateway!TypeOK
    <2>6. v15' \in 0..GatewayFaults /\ v14' \in 0..GatewayChanges
      BY <1>1, <1>2, <1>3, <1>4, <1>5, <1>6, GatewayAssumption DEF Gateway!StopFails, Gateway!process,
         Gateway!files, Gateway!TypeOK, Gateway!Fault
    <2> QED BY <2>1, <2>2, <2>3, <2>4, <2>5, <2>6, GatewayTypesAre
  <1>8. Gateway!NewestLives'
    <2>1. ASSUME NEW h \in Gateway!Generations, v8'[h].state \in {"starting", "up", "stopping"}
          PROVE  FALSE
      <3>1. h # Gateway!Newest
        BY <1>3, <2>1
      <3>2. h \in Gateway!Alive
        BY <1>3, <2>1, <3>1 DEF Gateway!Alive
      <3> QED BY <1>1, <3>1, <3>2 DEF Gateway!NewestLives
    <2>2. v4' = "idle" /\ v5' = 0
      BY <1>1, <1>2 DEF Gateway!StopFails, Gateway!Settles
    <2> QED BY <2>1, <2>2 DEF Gateway!NewestLives, Gateway!Alive
  <1>9. Gateway!StopIsLast'
    <2>1. v12 = "asked"
      <3>1. 1 \in 1..Len(v3)
        BY <1>2, <1>1 DEF Gateway!TypeOK
      <3> QED BY <1>1, <3>1 DEF Gateway!StopIsLast, Gateway!Head1
    <2> QED BY <1>1, <1>2, <1>6, <2>1 DEF Gateway!StopFails, Gateway!StopIsLast
  <1>10. Gateway!TasksOK'
    <2>1. ASSUME NEW n \in 1..Len(v9')
          PROVE  /\ v9'[n].gateway <= Gateway!Newest'
                 /\ v9'[n].awaited =>
                      \/ v4' = "removing" /\ v9'[n] = Gateway!Task("remove", 0, TRUE)
                      \/ v4' = "publishing" /\ v9'[n] = Gateway!Task("publish", Gateway!Newest', TRUE)
      BY <1>1, <1>3, <1>4 DEF Gateway!StopFails, Gateway!TasksOK, Gateway!Underway, Gateway!files
    <2>2. v10' # 0 => v9' # <<>> /\ v9'[1].op = "publish" /\ v9'[1].gateway = v10'
      BY <1>1 DEF Gateway!StopFails, Gateway!TasksOK, Gateway!files
    <2> QED BY <2>1, <2>2 DEF Gateway!TasksOK, Gateway!Task
  <1>11. Gateway!DescriptorOK'
    <2> SUFFICES ASSUME NEW d \in {v11', v10'} \ {0}
                 PROVE  /\ d <= Gateway!Newest'
                        /\ \/ d \in v13' \/ Gateway!RemoveWaits'
                           \/ d = Gateway!Newest' /\ (v5' = d \/ v4' = "stopping")
      BY DEF Gateway!DescriptorOK
    <2>1. v13' = v13 \cup {Gateway!Newest}
      BY <1>1, <1>2 DEF Gateway!StopFails, Gateway!NewestLives, Gateway!Alive
    <2> QED BY <1>1, <1>2, <1>3, <1>4, <2>1 DEF Gateway!StopFails, Gateway!DescriptorOK, Gateway!files
  <1>12. ASSUME NEW d \in GatewayCallers PROVE GatewayCallWhole(d)'
    <2>1. v2'[d] \in GatewayCallType /\ v2[d] \in GatewayCallType /\ GatewayCallWhole(d)
      BY <1>1, <1>2, <1>3 DEF Gateway!StopFails
    <2>2. \A h \in Gateway!Generations : v8[h].state # "none" =>
            v8'[h].state # "none" /\ v8'[h].of = v8[h].of
      BY <1>1, <1>2, <1>3 DEF Gateway!StopFails, Gateway!process, Gateway!files
    <2>3. v2'[d] = v2[d] /\ v2[d].pc = "waiting" => v8'[v2[d].gateway].state = "up"
      BY <1>1, <1>2, <1>3 DEF Gateway!StopFails, GatewayCallWhole, Gateway!CallOK, GatewayCallType,
         Gateway!NoCall
    <2>4. \/ v2'[d] = v2[d] \/ v2'[d] = Gateway!NoCall
          \/ /\ v2'[d].gateway \in Gateway!Generations /\ v2'[d].pc \in {"run", "requested", "settling"}
             /\ v8'[v2'[d].gateway].state # "none"
             /\ v8'[v2'[d].gateway].of = v2'[d].projection
      BY <1>1, <1>2, <1>3 DEF Gateway!StopFails
    <2> QED BY <2>1, <2>2, <2>3, <2>4, GatewayCallFollows
  <1> QED BY <1>2, <1>3, <1>4, <1>5, <1>6, <1>7, <1>8, <1>9, <1>10, <1>11, <1>12, GatewayInvIs DEF
             GatewayLine

(* A start that fails.                                                      *)
LEMMA GatewayStartFailsKeeps ==
    ASSUME Gateway!Inv, Gateway!StartFails
    PROVE  Gateway!Inv'
  <1>1. /\ Gateway!TypeOK /\ Gateway!Numbered /\ Gateway!NewestLives /\ Gateway!StopIsLast
        /\ Gateway!TasksOK /\ Gateway!AwaitedOnce /\ Gateway!DescriptorOK
        /\ \A d \in GatewayCallers : GatewayCallWhole(d) /\ v2[d] \in GatewayCallType
        /\ v2 \in [GatewayCallers -> GatewayCallType] /\ v8 \in [Gateway!Generations -> GatewayProcessType]
        /\ v9 \in Seq(GatewayTaskType)
    BY GatewayInvIs, GatewayTypesAre DEF GatewayLine
  <1>2. Gateway!Newest \in Gateway!Generations /\ v8[Gateway!Newest].state = "starting" /\ v3 # <<>> /\ v5 = 0
    BY <1>1 DEF Gateway!StartFails, Gateway!NotConnected, Gateway!NewestLives, Gateway!Alive, Gateway!StopIsLast,
       Gateway!Underway, Gateway!Numbered, Gateway!Generations
  <1>3. /\ v8' \in [Gateway!Generations -> GatewayProcessType] /\ Gateway!Newest' = Gateway!Newest
        /\ Gateway!Numbered'
        /\ v8'[Gateway!Newest].state \in {"gone", "stuck"}
        /\ \A h \in Gateway!Generations : v8'[h].of = v8[h].of
        /\ \A h \in Gateway!Generations \ {Gateway!Newest} : v8'[h] = v8[h]
    <2>1. PICK state \in {"gone", "stuck"} : v8' = Gateway!Becomes(Gateway!Newest, state)
      BY <1>1, <1>2 DEF Gateway!StartFails, Gateway!NotConnected, Gateway!NewestLives, Gateway!Alive
    <2> QED BY <1>1, <1>2, <2>1, GatewayBecomesIs
  <1>4. Gateway!AwaitedOnce' /\ (Gateway!RemoveWaits => Gateway!RemoveWaits')
    BY <1>1 DEF Gateway!AwaitedOnce, Gateway!RemoveWaits, Gateway!StartFails, Gateway!NotConnected, Gateway!process, Gateway!files
  <1>5. v3 # <<>> /\ Gateway!Settles
    BY <1>2 DEF Gateway!StartFails, Gateway!NotConnected
  <1>6. /\ v3 # <<>>
        /\ v3' \in Seq(Projections \cup {"stop"}) /\ v4' = "idle"
        /\ \A n \in 1..Len(v3') :
             v3'[n] = "stop" => n = Len(v3') /\ v12 = "asked"
        /\ Gateway!Head1 = "stop" => v3' = <<>>
    BY <1>1, <1>5, GatewaySettlesKeeps
  <1>7. /\ v2' \in [GatewayCallers -> GatewayCallType]
        /\ \A c \in GatewayCallers : v2'[c] = v2[c] \/ v2'[c] = Gateway!NoCall
    <2>1. v2' = Gateway!Resolved(Gateway!Head1, 0)
      BY DEF Gateway!StartFails, Gateway!NotConnected
    <2> QED BY <1>1, <2>1, GatewayResolvedIs
  <1>8. Gateway!TypeOK'
    <2>1. v2' \in [GatewayCallers -> GatewayCallType] /\ v8' \in [Gateway!Generations -> GatewayProcessType]
      BY <1>1, <1>2, <1>3, <1>4, <1>5, <1>6, <1>7 DEF Gateway!StartFails, Gateway!NotConnected, Gateway!process, Gateway!files
    <2>2. v9' \in Seq(GatewayTaskType) /\ v3' \in Seq(Projections \cup {"stop"}) /\ v1' \in Projections
      BY <1>1, <1>2, <1>3, <1>4, <1>5, <1>6, <1>7 DEF Gateway!StartFails, Gateway!NotConnected, Gateway!process, Gateway!files,
         Gateway!TypeOK
    <2>3. /\ v4' \in {"idle", "stopping", "removing", "starting", "publishing", "abandoning"}
          /\ v6' \in {"STOPPED", "STARTING", "READY", "FAILED", "STOPPING"}
          /\ v12' \in {"no", "asked", "done", "failed"}
      BY <1>1, <1>2, <1>3, <1>4, <1>5, <1>6, <1>7 DEF Gateway!StartFails, Gateway!NotConnected, Gateway!process, Gateway!files,
         Gateway!TypeOK
    <2>4. {v5', v11', v10'} \subseteq {0} \cup Gateway!Generations /\ v13' \subseteq Gateway!Generations
      BY <1>1, <1>2, <1>3, <1>4, <1>5, <1>6, <1>7 DEF Gateway!StartFails, Gateway!NotConnected, Gateway!process, Gateway!files,
         Gateway!TypeOK
    <2>5. v7' \in BOOLEAN
      BY <1>1, <1>2, <1>3, <1>4, <1>5, <1>6, <1>7 DEF Gateway!StartFails, Gateway!NotConnected, Gateway!process, Gateway!files,
         Gateway!TypeOK
    <2>6. v15' \in 0..GatewayFaults /\ v14' \in 0..GatewayChanges
      BY <1>1, <1>2, <1>3, <1>4, <1>5, <1>6, <1>7, GatewayAssumption DEF Gateway!StartFails,
         Gateway!NotConnected, Gateway!process, Gateway!files, Gateway!TypeOK, Gateway!Fault
    <2> QED BY <2>1, <2>2, <2>3, <2>4, <2>5, <2>6, GatewayTypesAre
  <1>9. Gateway!NewestLives'
    <2>1. ASSUME NEW h \in Gateway!Generations, v8'[h].state \in {"starting", "up", "stopping"}
          PROVE  FALSE
      <3>1. h # Gateway!Newest
        BY <1>3, <2>1
      <3>2. h \in Gateway!Alive
        BY <1>3, <2>1, <3>1 DEF Gateway!Alive
      <3> QED BY <1>1, <3>1, <3>2 DEF Gateway!NewestLives
    <2>2. v4' = "idle" /\ v5' = 0
      BY <1>1, <1>2 DEF Gateway!StartFails, Gateway!NotConnected, Gateway!Settles
    <2> QED BY <2>1, <2>2 DEF Gateway!NewestLives, Gateway!Alive
  <1>10. Gateway!StopIsLast'
    <2>1. v12 \notin {"done", "failed"}
      BY <1>1, <1>2 DEF Gateway!StopIsLast
    <2> QED BY <1>1, <1>2, <1>6, <2>1 DEF Gateway!StartFails, Gateway!NotConnected, Gateway!StopIsLast
  <1>11. Gateway!TasksOK'
    <2>1. ASSUME NEW n \in 1..Len(v9')
          PROVE  /\ v9'[n].gateway <= Gateway!Newest'
                 /\ v9'[n].awaited =>
                      \/ v4' = "removing" /\ v9'[n] = Gateway!Task("remove", 0, TRUE)
                      \/ v4' = "publishing" /\ v9'[n] = Gateway!Task("publish", Gateway!Newest', TRUE)
      BY <1>1, <1>3, <1>4 DEF Gateway!StartFails, Gateway!NotConnected, Gateway!TasksOK, Gateway!Underway, Gateway!files
    <2>2. v10' # 0 => v9' # <<>> /\ v9'[1].op = "publish" /\ v9'[1].gateway = v10'
      BY <1>1 DEF Gateway!StartFails, Gateway!NotConnected, Gateway!TasksOK, Gateway!files
    <2> QED BY <2>1, <2>2 DEF Gateway!TasksOK, Gateway!Task
  <1>12. Gateway!DescriptorOK'
    <2> SUFFICES ASSUME NEW d \in {v11', v10'} \ {0}
                 PROVE  /\ d <= Gateway!Newest'
                        /\ \/ d \in v13' \/ Gateway!RemoveWaits'
                           \/ d = Gateway!Newest' /\ (v5' = d \/ v4' = "stopping")
      BY DEF Gateway!DescriptorOK
    <2> QED BY <1>1, <1>2, <1>3, <1>4 DEF Gateway!StartFails, Gateway!NotConnected, Gateway!DescriptorOK, Gateway!Underway,
               Gateway!files
  <1>13. ASSUME NEW d \in GatewayCallers PROVE GatewayCallWhole(d)'
    <2>1. v2'[d] \in GatewayCallType /\ v2[d] \in GatewayCallType /\ GatewayCallWhole(d)
      BY <1>1, <1>2, <1>3, <1>7 DEF Gateway!StartFails, Gateway!NotConnected
    <2>2. \A h \in Gateway!Generations : v8[h].state # "none" =>
            v8'[h].state # "none" /\ v8'[h].of = v8[h].of
      BY <1>1, <1>2, <1>3, <1>7 DEF Gateway!StartFails, Gateway!NotConnected, Gateway!process, Gateway!files
    <2>3. v2'[d] = v2[d] /\ v2[d].pc = "waiting" => v8'[v2[d].gateway].state = "up"
      BY <1>1, <1>2, <1>3, <1>7 DEF Gateway!StartFails, Gateway!NotConnected, GatewayCallWhole, Gateway!CallOK, GatewayCallType,
         Gateway!NoCall
    <2>4. \/ v2'[d] = v2[d] \/ v2'[d] = Gateway!NoCall
          \/ /\ v2'[d].gateway \in Gateway!Generations /\ v2'[d].pc \in {"run", "requested", "settling"}
             /\ v8'[v2'[d].gateway].state # "none"
             /\ v8'[v2'[d].gateway].of = v2'[d].projection
      BY <1>1, <1>2, <1>3, <1>7 DEF Gateway!StartFails, Gateway!NotConnected
    <2> QED BY <2>1, <2>2, <2>3, <2>4, GatewayCallFollows
  <1> QED BY <1>2, <1>3, <1>4, <1>5, <1>6, <1>7, <1>8, <1>9, <1>10, <1>11, <1>12, <1>13, GatewayInvIs DEF
             GatewayLine

(* A Gateway that could not be announced has ended, or is given up.         *)
LEMMA GatewayAbandonedKeeps ==
    ASSUME Gateway!Inv, Gateway!Abandoned
    PROVE  Gateway!Inv'
  <1>1. /\ Gateway!TypeOK /\ Gateway!Numbered /\ Gateway!NewestLives /\ Gateway!StopIsLast
        /\ Gateway!TasksOK /\ Gateway!AwaitedOnce /\ Gateway!DescriptorOK
        /\ \A d \in GatewayCallers : GatewayCallWhole(d) /\ v2[d] \in GatewayCallType
        /\ v2 \in [GatewayCallers -> GatewayCallType] /\ v8 \in [Gateway!Generations -> GatewayProcessType]
        /\ v9 \in Seq(GatewayTaskType)
    BY GatewayInvIs, GatewayTypesAre DEF GatewayLine
  <1>2. /\ Gateway!Newest \in Gateway!Generations /\ v3 # <<>> /\ v5 = 0
        /\ v8[Gateway!Newest].state \in {"stopping", "gone", "stuck"}
    <2>1. Gateway!Newest \in Gateway!Generations /\ v3 # <<>> /\ v5 = 0 /\ v8[Gateway!Newest].state # "none"
      BY <1>1 DEF Gateway!Abandoned, Gateway!NewestLives, Gateway!StopIsLast, Gateway!Underway,
         Gateway!Numbered, Gateway!Generations
    <2>2. v8[Gateway!Newest].state \notin {"starting", "up"}
      BY <1>1, <2>1 DEF Gateway!Abandoned, Gateway!NewestLives, Gateway!Alive, Gateway!Underway
    <2>3. v8[Gateway!Newest].state \in {"none", "starting", "up", "stopping", "gone", "stuck"}
      BY <1>1, <2>1 DEF GatewayProcessType
    <2> QED BY <2>1, <2>2, <2>3
  <1>3. /\ v8' \in [Gateway!Generations -> GatewayProcessType] /\ Gateway!Newest' = Gateway!Newest
        /\ Gateway!Numbered'
        /\ v8'[Gateway!Newest].state \in {"gone", "stuck"}
        /\ \A h \in Gateway!Generations : v8'[h].of = v8[h].of
        /\ \A h \in Gateway!Generations \ {Gateway!Newest} : v8'[h] = v8[h]
    <2>1. CASE v8' = v8 /\ v8[Gateway!Newest].state # "stopping"
      BY <1>1, <1>2, <2>1, GatewayNewestStays
    <2>2. CASE v8' = Gateway!Becomes(Gateway!Newest, "gone") /\ v8[Gateway!Newest].state = "stopping"
      BY <1>1, <1>2, <2>2, GatewayBecomesIs
    <2>3. CASE v8' = Gateway!Becomes(Gateway!Newest, "stuck") /\ v8[Gateway!Newest].state = "stopping"
      BY <1>1, <1>2, <2>3, GatewayBecomesIs
    <2> QED BY <2>1, <2>2, <2>3 DEF Gateway!Abandoned
  <1>4. Gateway!AwaitedOnce' /\ (Gateway!RemoveWaits => Gateway!RemoveWaits')
    BY <1>1 DEF Gateway!AwaitedOnce, Gateway!RemoveWaits, Gateway!Abandoned, Gateway!process, Gateway!files
  <1>5. v3 # <<>> /\ Gateway!Settles
    BY <1>2 DEF Gateway!Abandoned
  <1>6. /\ v3 # <<>>
        /\ v3' \in Seq(Projections \cup {"stop"}) /\ v4' = "idle"
        /\ \A n \in 1..Len(v3') :
             v3'[n] = "stop" => n = Len(v3') /\ v12 = "asked"
        /\ Gateway!Head1 = "stop" => v3' = <<>>
    BY <1>1, <1>5, GatewaySettlesKeeps
  <1>7. /\ v2' \in [GatewayCallers -> GatewayCallType]
        /\ \A c \in GatewayCallers : v2'[c] = v2[c] \/ v2'[c] = Gateway!NoCall
    <2>1. v2' = Gateway!Resolved(Gateway!Head1, 0)
      BY DEF Gateway!Abandoned
    <2> QED BY <1>1, <2>1, GatewayResolvedIs
  <1>8. Gateway!TypeOK'
    <2>1. v2' \in [GatewayCallers -> GatewayCallType] /\ v8' \in [Gateway!Generations -> GatewayProcessType]
      BY <1>1, <1>2, <1>3, <1>4, <1>5, <1>6, <1>7 DEF Gateway!Abandoned, Gateway!process, Gateway!files
    <2>2. v9' \in Seq(GatewayTaskType) /\ v3' \in Seq(Projections \cup {"stop"}) /\ v1' \in Projections
      BY <1>1, <1>2, <1>3, <1>4, <1>5, <1>6, <1>7 DEF Gateway!Abandoned, Gateway!process, Gateway!files,
         Gateway!TypeOK
    <2>3. /\ v4' \in {"idle", "stopping", "removing", "starting", "publishing", "abandoning"}
          /\ v6' \in {"STOPPED", "STARTING", "READY", "FAILED", "STOPPING"}
          /\ v12' \in {"no", "asked", "done", "failed"}
      BY <1>1, <1>2, <1>3, <1>4, <1>5, <1>6, <1>7 DEF Gateway!Abandoned, Gateway!process, Gateway!files,
         Gateway!TypeOK
    <2>4. {v5', v11', v10'} \subseteq {0} \cup Gateway!Generations /\ v13' \subseteq Gateway!Generations
      BY <1>1, <1>2, <1>3, <1>4, <1>5, <1>6, <1>7 DEF Gateway!Abandoned, Gateway!process, Gateway!files,
         Gateway!TypeOK
    <2>5. v7' \in BOOLEAN
      BY <1>1, <1>2, <1>3, <1>4, <1>5, <1>6, <1>7 DEF Gateway!Abandoned, Gateway!process, Gateway!files,
         Gateway!TypeOK
    <2>6. v15' \in 0..GatewayFaults /\ v14' \in 0..GatewayChanges
      BY <1>1, <1>2, <1>3, <1>4, <1>5, <1>6, <1>7, GatewayAssumption DEF Gateway!Abandoned,
         Gateway!process, Gateway!files, Gateway!TypeOK, Gateway!Fault
    <2> QED BY <2>1, <2>2, <2>3, <2>4, <2>5, <2>6, GatewayTypesAre
  <1>9. Gateway!NewestLives'
    <2>1. ASSUME NEW h \in Gateway!Generations, v8'[h].state \in {"starting", "up", "stopping"}
          PROVE  FALSE
      <3>1. h # Gateway!Newest
        BY <1>3, <2>1
      <3>2. h \in Gateway!Alive
        BY <1>3, <2>1, <3>1 DEF Gateway!Alive
      <3> QED BY <1>1, <3>1, <3>2 DEF Gateway!NewestLives
    <2>2. v4' = "idle" /\ v5' = 0
      BY <1>1, <1>2 DEF Gateway!Abandoned, Gateway!Settles
    <2> QED BY <2>1, <2>2 DEF Gateway!NewestLives, Gateway!Alive
  <1>10. Gateway!StopIsLast'
    <2>1. v12 \notin {"done", "failed"}
      BY <1>1, <1>2 DEF Gateway!StopIsLast
    <2> QED BY <1>1, <1>2, <1>6, <2>1 DEF Gateway!Abandoned, Gateway!StopIsLast
  <1>11. Gateway!TasksOK'
    <2>1. ASSUME NEW n \in 1..Len(v9')
          PROVE  /\ v9'[n].gateway <= Gateway!Newest'
                 /\ v9'[n].awaited =>
                      \/ v4' = "removing" /\ v9'[n] = Gateway!Task("remove", 0, TRUE)
                      \/ v4' = "publishing" /\ v9'[n] = Gateway!Task("publish", Gateway!Newest', TRUE)
      BY <1>1, <1>3, <1>4 DEF Gateway!Abandoned, Gateway!TasksOK, Gateway!Underway, Gateway!files
    <2>2. v10' # 0 => v9' # <<>> /\ v9'[1].op = "publish" /\ v9'[1].gateway = v10'
      BY <1>1 DEF Gateway!Abandoned, Gateway!TasksOK, Gateway!files
    <2> QED BY <2>1, <2>2 DEF Gateway!TasksOK, Gateway!Task
  <1>12. Gateway!DescriptorOK'
    <2> SUFFICES ASSUME NEW d \in {v11', v10'} \ {0}
                 PROVE  /\ d <= Gateway!Newest'
                        /\ \/ d \in v13' \/ Gateway!RemoveWaits'
                           \/ d = Gateway!Newest' /\ (v5' = d \/ v4' = "stopping")
      BY DEF Gateway!DescriptorOK
    <2> QED BY <1>1, <1>2, <1>3, <1>4 DEF Gateway!Abandoned, Gateway!DescriptorOK, Gateway!Underway,
               Gateway!files
  <1>13. ASSUME NEW d \in GatewayCallers PROVE GatewayCallWhole(d)'
    <2>1. v2'[d] \in GatewayCallType /\ v2[d] \in GatewayCallType /\ GatewayCallWhole(d)
      BY <1>1, <1>2, <1>3, <1>7 DEF Gateway!Abandoned
    <2>2. \A h \in Gateway!Generations : v8[h].state # "none" =>
            v8'[h].state # "none" /\ v8'[h].of = v8[h].of
      BY <1>1, <1>2, <1>3, <1>7 DEF Gateway!Abandoned, Gateway!process, Gateway!files
    <2>3. v2'[d] = v2[d] /\ v2[d].pc = "waiting" => v8'[v2[d].gateway].state = "up"
      BY <1>1, <1>2, <1>3, <1>7 DEF Gateway!Abandoned, GatewayCallWhole, Gateway!CallOK, GatewayCallType,
         Gateway!NoCall, Gateway!NewestLives, Gateway!Alive
    <2>4. \/ v2'[d] = v2[d] \/ v2'[d] = Gateway!NoCall
          \/ /\ v2'[d].gateway \in Gateway!Generations /\ v2'[d].pc \in {"run", "requested", "settling"}
             /\ v8'[v2'[d].gateway].state # "none"
             /\ v8'[v2'[d].gateway].of = v2'[d].projection
      BY <1>1, <1>2, <1>3, <1>7 DEF Gateway!Abandoned
    <2> QED BY <2>1, <2>2, <2>3, <2>4, GatewayCallFollows
  <1> QED BY <1>2, <1>3, <1>4, <1>5, <1>6, <1>7, <1>8, <1>9, <1>10, <1>11, <1>12, <1>13, GatewayInvIs DEF
             GatewayLine

(* A Gateway that could not be announced is stopped.                        *)
LEMMA GatewayPublishFailsAwaitedKeeps ==
    ASSUME Gateway!Inv, Gateway!PublishFails, v9[1].awaited
    PROVE  Gateway!Inv'
  <1>1. /\ Gateway!TypeOK /\ Gateway!Numbered /\ Gateway!NewestLives /\ Gateway!StopIsLast
        /\ Gateway!TasksOK /\ Gateway!AwaitedOnce /\ Gateway!DescriptorOK
        /\ \A d \in GatewayCallers : GatewayCallWhole(d) /\ v2[d] \in GatewayCallType
        /\ v2 \in [GatewayCallers -> GatewayCallType] /\ v8 \in [Gateway!Generations -> GatewayProcessType]
        /\ v9 \in Seq(GatewayTaskType)
    BY GatewayInvIs, GatewayTypesAre DEF GatewayLine
  <1>2. /\ v9' \in Seq(GatewayTaskType) /\ Gateway!AwaitedOnce'
        /\ (v9[1].op # "remove" /\ Gateway!RemoveWaits => Gateway!RemoveWaits')
        /\ 1 \in 1..Len(v9) /\ v9[1] \in GatewayTaskType
        /\ \A n \in 1..Len(v9') : \E m \in 1..Len(v9) : m # 1 /\ v9'[n] = v9[m]
    <2>1. v9 # <<>> /\ v9' = Tail(v9)
      BY <1>1 DEF Gateway!PublishFails, Gateway!TasksOK
    <2> QED BY <1>1, <2>1, GatewayTailKeeps
  <1>3. /\ Gateway!Newest \in Gateway!Generations /\ v10 = Gateway!Newest
        /\ v9[1] = Gateway!Task("publish", Gateway!Newest, TRUE) /\ v4 = "publishing" /\ v3 # <<>>
    <2>1. v9[1].op = "publish" /\ v9[1].gateway = v10
      BY <1>1 DEF Gateway!PublishFails, Gateway!TasksOK
    <2>2. v4 = "publishing" /\ v9[1] = Gateway!Task("publish", Gateway!Newest, TRUE)
      <3>1. \/ v4 = "removing" /\ v9[1] = Gateway!Task("remove", 0, TRUE)
            \/ v4 = "publishing" /\ v9[1] = Gateway!Task("publish", Gateway!Newest, TRUE)
        BY <1>1, <1>2, Zenon DEF Gateway!TasksOK
      <3>2. Gateway!Task("remove", 0, TRUE).op # "publish"
        BY DEF Gateway!Task
      <3> QED BY <2>1, <3>1, <3>2
    <2>3. v10 = Gateway!Newest
      BY <2>1, <2>2 DEF Gateway!Task
    <2>4. Gateway!Newest \in Gateway!Generations /\ v3 # <<>>
      BY <1>1, <2>2 DEF Gateway!NewestLives, Gateway!StopIsLast, Gateway!Numbered, Gateway!Generations
    <2> QED BY <2>2, <2>3, <2>4
  <1>4. /\ v8' \in [Gateway!Generations -> GatewayProcessType] /\ Gateway!Newest' = Gateway!Newest
        /\ Gateway!Numbered'
        /\ \A h \in Gateway!Generations : v8'[h].of = v8[h].of
        /\ \A h \in Gateway!Generations : v8[h].state # "none" => v8'[h].state # "none"
        /\ v8'[Gateway!Newest].state # "up" /\ v8'[Gateway!Newest].state # "starting"
        /\ \A h \in Gateway!Generations \ {Gateway!Newest} : v8'[h] = v8[h]
    <2>1. v8[Gateway!Newest].state # "starting"
      BY <1>1, <1>3 DEF Gateway!NewestLives, Gateway!Alive
    <2>2. CASE v8[Gateway!Newest].state = "up"
      <3>1. v8' = Gateway!Becomes(Gateway!Newest, "stopping")
        BY <2>2 DEF Gateway!PublishFails
      <3> QED BY <1>1, <1>3, <2>2, <3>1, GatewayBecomesIs
    <2>3. CASE v8[Gateway!Newest].state # "up"
      <3>1. v8' = v8
        BY <2>3 DEF Gateway!PublishFails
      <3> QED BY <1>1, <2>1, <2>3, <3>1, GatewayNewestStays
    <2> QED BY <2>2, <2>3
  <1>5. /\ v2' \in [GatewayCallers -> GatewayCallType]
        /\ \A c \in GatewayCallers :
             \/ v2'[c] = v2[c] /\ ~(v2[c].pc = "waiting" /\ v2[c].gateway = Gateway!Newest)
             \/ v2'[c] = Gateway!NoCall
    <2>1. v2' = Gateway!Rejected(Gateway!Newest)
      BY DEF Gateway!PublishFails
    <2> QED BY <1>1, <2>1, GatewayRejectedIs
  <1>6. v5' = 0 /\ v4' = "abandoning" /\ v10' = 0 /\ v13' = v13 \cup {Gateway!Newest} /\ v9' = Tail(v9)
    BY <1>3 DEF Gateway!PublishFails
  <1>7. Gateway!TypeOK'
    <2>1. v2' \in [GatewayCallers -> GatewayCallType] /\ v8' \in [Gateway!Generations -> GatewayProcessType]
      BY <1>1, <1>2, <1>3, <1>4, <1>5, <1>6 DEF Gateway!PublishFails, Gateway!process, Gateway!files
    <2>2. v9' \in Seq(GatewayTaskType) /\ v3' \in Seq(Projections \cup {"stop"}) /\ v1' \in Projections
      BY <1>1, <1>2, <1>3, <1>4, <1>5, <1>6 DEF Gateway!PublishFails, Gateway!process, Gateway!files,
         Gateway!TypeOK
    <2>3. /\ v4' \in {"idle", "stopping", "removing", "starting", "publishing", "abandoning"}
          /\ v6' \in {"STOPPED", "STARTING", "READY", "FAILED", "STOPPING"}
          /\ v12' \in {"no", "asked", "done", "failed"}
      BY <1>1, <1>2, <1>3, <1>4, <1>5, <1>6 DEF Gateway!PublishFails, Gateway!process, Gateway!files,
         Gateway!TypeOK
    <2>4. {v5', v11', v10'} \subseteq {0} \cup Gateway!Generations /\ v13' \subseteq Gateway!Generations
      BY <1>1, <1>2, <1>3, <1>4, <1>5, <1>6 DEF Gateway!PublishFails, Gateway!process, Gateway!files,
         Gateway!TypeOK
    <2>5. v7' \in BOOLEAN
      BY <1>1, <1>2, <1>3, <1>4, <1>5, <1>6 DEF Gateway!PublishFails, Gateway!process, Gateway!files,
         Gateway!TypeOK
    <2>6. v15' \in 0..GatewayFaults /\ v14' \in 0..GatewayChanges
      BY <1>1, <1>2, <1>3, <1>4, <1>5, <1>6, GatewayAssumption DEF Gateway!PublishFails, Gateway!process,
         Gateway!files, Gateway!TypeOK, Gateway!Fault
    <2> QED BY <2>1, <2>2, <2>3, <2>4, <2>5, <2>6, GatewayTypesAre
  <1>8. Gateway!NewestLives'
    <2>1. ASSUME NEW h \in Gateway!Generations, v8'[h].state \in {"starting", "up", "stopping"}
          PROVE  h = Gateway!Newest /\ v8'[h].state = "stopping"
      <3>1. h # Gateway!Newest => h \in Gateway!Alive
        BY <1>4, <2>1 DEF Gateway!Alive
      <3> QED BY <1>1, <1>4, <2>1, <3>1 DEF Gateway!NewestLives
    <2>2. Gateway!Newest # 0
      BY <1>3 DEF Gateway!Generations
    <2> QED BY <1>4, <1>6, <2>1, <2>2 DEF Gateway!NewestLives, Gateway!Alive
  <1>9. Gateway!StopIsLast'
    BY <1>1, <1>3, <1>6 DEF Gateway!PublishFails, Gateway!StopIsLast
  <1>10. Gateway!TasksOK'
    <2>1. ASSUME NEW n \in 1..Len(v9')
          PROVE  /\ v9'[n].gateway <= Gateway!Newest'
                 /\ v9'[n].awaited =>
                      \/ v4' = "removing" /\ v9'[n] = Gateway!Task("remove", 0, TRUE)
                      \/ v4' = "publishing" /\ v9'[n] = Gateway!Task("publish", Gateway!Newest', TRUE)
      <3>1. PICK m \in 1..Len(v9) : m # 1 /\ v9'[n] = v9[m]
        BY <1>2
      <3>3. ~v9[m].awaited
        BY <1>1, <1>2, <3>1 DEF Gateway!AwaitedOnce
      <3>4. v9[m].gateway <= Gateway!Newest
        BY <1>1 DEF Gateway!TasksOK
      <3> QED BY <1>4, <3>1, <3>3, <3>4
    <2>2. v10' # 0 => v9' # <<>> /\ v9'[1].op = "publish" /\ v9'[1].gateway = v10'
      BY <1>6
    <2> QED BY <2>1, <2>2 DEF Gateway!TasksOK, Gateway!Task
  <1>11. Gateway!DescriptorOK'
    <2> SUFFICES ASSUME NEW d \in {v11', v10'} \ {0}
                 PROVE  /\ d <= Gateway!Newest'
                        /\ \/ d \in v13' \/ Gateway!RemoveWaits'
                           \/ d = Gateway!Newest' /\ (v5' = d \/ v4' = "stopping")
      BY DEF Gateway!DescriptorOK
    <2>1. d = v11 /\ v9[1].op # "remove"
      BY <1>3, <1>6 DEF Gateway!PublishFails, Gateway!Task
    <2> QED BY <1>1, <1>2, <1>3, <1>4, <1>6, <2>1 DEF Gateway!DescriptorOK
  <1>12. ASSUME NEW d \in GatewayCallers PROVE GatewayCallWhole(d)'
    <2>1. v2'[d] \in GatewayCallType /\ v2[d] \in GatewayCallType /\ GatewayCallWhole(d)
      BY <1>1, <1>3, <1>4, <1>5 DEF Gateway!PublishFails
    <2>2. \A h \in Gateway!Generations : v8[h].state # "none" =>
            v8'[h].state # "none" /\ v8'[h].of = v8[h].of
      BY <1>1, <1>3, <1>4, <1>5 DEF Gateway!PublishFails, Gateway!process, Gateway!files
    <2>3. v2'[d] = v2[d] /\ v2[d].pc = "waiting" => v8'[v2[d].gateway].state = "up"
      BY <1>1, <1>3, <1>4, <1>5 DEF GatewayCallWhole, Gateway!CallOK, GatewayCallType, Gateway!NoCall
    <2>4. \/ v2'[d] = v2[d] \/ v2'[d] = Gateway!NoCall
          \/ /\ v2'[d].gateway \in Gateway!Generations /\ v2'[d].pc \in {"run", "requested", "settling"}
             /\ v8'[v2'[d].gateway].state # "none"
             /\ v8'[v2'[d].gateway].of = v2'[d].projection
      BY <1>1, <1>3, <1>4, <1>5 DEF Gateway!PublishFails
    <2> QED BY <2>1, <2>2, <2>3, <2>4, GatewayCallFollows
  <1> QED BY <1>2, <1>3, <1>4, <1>5, <1>6, <1>7, <1>8, <1>9, <1>10, <1>11, <1>12, GatewayInvIs DEF
             GatewayLine

(* A descriptor that nobody waits for is not written.                       *)
LEMMA GatewayPublishFailsKeeps ==
    ASSUME Gateway!Inv, Gateway!PublishFails, ~v9[1].awaited
    PROVE  Gateway!Inv'
  <1>1. /\ Gateway!TypeOK /\ Gateway!Numbered /\ Gateway!NewestLives /\ Gateway!StopIsLast
        /\ Gateway!TasksOK /\ Gateway!AwaitedOnce /\ Gateway!DescriptorOK
        /\ \A d \in GatewayCallers : GatewayCallWhole(d) /\ v2[d] \in GatewayCallType
        /\ v2 \in [GatewayCallers -> GatewayCallType] /\ v8 \in [Gateway!Generations -> GatewayProcessType]
        /\ v9 \in Seq(GatewayTaskType)
    BY GatewayInvIs, GatewayTypesAre DEF GatewayLine
  <1>2. /\ v9' \in Seq(GatewayTaskType) /\ Gateway!AwaitedOnce'
        /\ (v9[1].op # "remove" /\ Gateway!RemoveWaits => Gateway!RemoveWaits')
        /\ 1 \in 1..Len(v9) /\ v9[1] \in GatewayTaskType
        /\ \A n \in 1..Len(v9') : \E m \in 1..Len(v9) : m # 1 /\ v9'[n] = v9[m]
    <2>1. v9 # <<>> /\ v9' = Tail(v9)
      BY <1>1 DEF Gateway!PublishFails, Gateway!TasksOK
    <2> QED BY <1>1, <2>1, GatewayTailKeeps
  <1>3. UNCHANGED <<v13, v5, v4, v2, v8, v3, v12, v7>> /\ v10' = 0 /\ v9' = Tail(v9)
    BY DEF Gateway!PublishFails
  <1>4. Gateway!Newest' = Gateway!Newest /\ Gateway!Numbered'
    BY <1>1, <1>3, GatewayNewestStays
  <1>5. Gateway!TypeOK'
    <2>1. v2' \in [GatewayCallers -> GatewayCallType] /\ v8' \in [Gateway!Generations -> GatewayProcessType]
      BY <1>1, <1>2, <1>3, <1>4 DEF Gateway!PublishFails, Gateway!process, Gateway!files
    <2>2. v9' \in Seq(GatewayTaskType) /\ v3' \in Seq(Projections \cup {"stop"}) /\ v1' \in Projections
      BY <1>1, <1>2, <1>3, <1>4 DEF Gateway!PublishFails, Gateway!process, Gateway!files, Gateway!TypeOK
    <2>3. /\ v4' \in {"idle", "stopping", "removing", "starting", "publishing", "abandoning"}
          /\ v6' \in {"STOPPED", "STARTING", "READY", "FAILED", "STOPPING"}
          /\ v12' \in {"no", "asked", "done", "failed"}
      BY <1>1, <1>2, <1>3, <1>4 DEF Gateway!PublishFails, Gateway!process, Gateway!files, Gateway!TypeOK
    <2>4. {v5', v11', v10'} \subseteq {0} \cup Gateway!Generations /\ v13' \subseteq Gateway!Generations
      BY <1>1, <1>2, <1>3, <1>4 DEF Gateway!PublishFails, Gateway!process, Gateway!files, Gateway!TypeOK
    <2>5. v7' \in BOOLEAN
      BY <1>1, <1>2, <1>3, <1>4 DEF Gateway!PublishFails, Gateway!process, Gateway!files, Gateway!TypeOK
    <2>6. v15' \in 0..GatewayFaults /\ v14' \in 0..GatewayChanges
      BY <1>1, <1>2, <1>3, <1>4, GatewayAssumption DEF Gateway!PublishFails, Gateway!process,
         Gateway!files, Gateway!TypeOK, Gateway!Fault
    <2> QED BY <2>1, <2>2, <2>3, <2>4, <2>5, <2>6, GatewayTypesAre
  <1>6. Gateway!NewestLives'
    BY <1>1, <1>2, <1>3, <1>4 DEF Gateway!PublishFails, Gateway!process, Gateway!files,
       Gateway!NewestLives, Gateway!Alive, Gateway!Head1, Gateway!Underway,
       Gateway!TypeOK
  <1>7. Gateway!StopIsLast'
    BY <1>1, <1>2, <1>3, <1>4 DEF Gateway!PublishFails, Gateway!process, Gateway!files,
       Gateway!StopIsLast, Gateway!NewestLives, Gateway!Underway
  <1>8. Gateway!TasksOK'
    <2>1. ASSUME NEW n \in 1..Len(v9')
          PROVE  /\ v9'[n].gateway <= Gateway!Newest'
                 /\ v9'[n].awaited =>
                      \/ v4' = "removing" /\ v9'[n] = Gateway!Task("remove", 0, TRUE)
                      \/ v4' = "publishing" /\ v9'[n] = Gateway!Task("publish", Gateway!Newest', TRUE)
      <3>1. PICK m \in 1..Len(v9) : m # 1 /\ v9'[n] = v9[m]
        BY <1>2
      <3> QED BY <1>1, <1>3, <1>4, <3>1 DEF Gateway!TasksOK
    <2>2. v10' # 0 => v9' # <<>> /\ v9'[1].op = "publish" /\ v9'[1].gateway = v10'
      BY <1>3
    <2> QED BY <2>1, <2>2 DEF Gateway!TasksOK, Gateway!Task
  <1>9. Gateway!DescriptorOK'
    <2> SUFFICES ASSUME NEW d \in {v11', v10'} \ {0}
                 PROVE  /\ d <= Gateway!Newest'
                        /\ \/ d \in v13' \/ Gateway!RemoveWaits'
                           \/ d = Gateway!Newest' /\ (v5' = d \/ v4' = "stopping")
      BY DEF Gateway!DescriptorOK
    <2>1. d = v11 /\ v9[1].op # "remove"
      BY <1>1, <1>3 DEF Gateway!PublishFails, Gateway!TasksOK
    <2> QED BY <1>1, <1>2, <1>3, <1>4, <2>1 DEF Gateway!DescriptorOK
  <1>10. ASSUME NEW d \in GatewayCallers PROVE GatewayCallWhole(d)'
    <2>1. v2'[d] \in GatewayCallType /\ v2[d] \in GatewayCallType /\ GatewayCallWhole(d)
      BY <1>1, <1>3, <1>4 DEF Gateway!PublishFails
    <2>2. \A h \in Gateway!Generations : v8[h].state # "none" =>
            v8'[h].state # "none" /\ v8'[h].of = v8[h].of
      BY <1>1, <1>3, <1>4 DEF Gateway!PublishFails, Gateway!process, Gateway!files
    <2>3. v2'[d] = v2[d] /\ v2[d].pc = "waiting" => v8'[v2[d].gateway].state = "up"
      BY <1>1, <1>3, <1>4 DEF Gateway!PublishFails, GatewayCallWhole, Gateway!CallOK, GatewayCallType
    <2>4. \/ v2'[d] = v2[d] \/ v2'[d] = Gateway!NoCall
          \/ /\ v2'[d].gateway \in Gateway!Generations /\ v2'[d].pc \in {"run", "requested", "settling"}
             /\ v8'[v2'[d].gateway].state # "none"
             /\ v8'[v2'[d].gateway].of = v2'[d].projection
      BY <1>1, <1>3, <1>4 DEF Gateway!PublishFails
    <2> QED BY <2>1, <2>2, <2>3, <2>4, GatewayCallFollows
  <1> QED BY <1>2, <1>3, <1>4, <1>5, <1>6, <1>7, <1>8, <1>9, <1>10, GatewayInvIs DEF GatewayLine

(* The process dies; its descriptor is to be removed.                       *)
LEMMA GatewayOnUnexpectedExitKeeps ==
    ASSUME Gateway!Inv, NEW g \in Gateway!Generations, Gateway!onUnexpectedExit(g)
    PROVE  Gateway!Inv'
  <1>1. /\ Gateway!TypeOK /\ Gateway!Numbered /\ Gateway!NewestLives /\ Gateway!StopIsLast
        /\ Gateway!TasksOK /\ Gateway!AwaitedOnce /\ Gateway!DescriptorOK
        /\ \A d \in GatewayCallers : GatewayCallWhole(d) /\ v2[d] \in GatewayCallType
        /\ v2 \in [GatewayCallers -> GatewayCallType] /\ v8 \in [Gateway!Generations -> GatewayProcessType]
        /\ v9 \in Seq(GatewayTaskType)
    BY GatewayInvIs, GatewayTypesAre DEF GatewayLine
  <1>2. v5 = g /\ g = Gateway!Newest /\ Gateway!Newest # 0
    BY <1>1 DEF Gateway!onUnexpectedExit, Gateway!ChildExits, Gateway!NewestLives, Gateway!Alive, Gateway!Generations
  <1>3. /\ v8' \in [Gateway!Generations -> GatewayProcessType] /\ Gateway!Newest' = Gateway!Newest
        /\ Gateway!Numbered'
        /\ v8'[g].state = "gone"
        /\ \A h \in Gateway!Generations : v8'[h].of = v8[h].of
        /\ \A h \in Gateway!Generations \ {g} : v8'[h] = v8[h]
    BY <1>1, GatewayBecomesIs DEF Gateway!onUnexpectedExit, Gateway!ChildExits
  <1>4. /\ Gateway!Task("remove", 0, FALSE) \in GatewayTaskType
        /\ v9' \in Seq(GatewayTaskType) /\ Gateway!AwaitedOnce' /\ (Gateway!RemoveWaits => Gateway!RemoveWaits')
        /\ Gateway!Task("remove", 0, FALSE).op = "remove" => Gateway!RemoveWaits'
        /\ \A n \in 1..Len(v9') :
             \/ v9'[n] = Gateway!Task("remove", 0, FALSE)
             \/ \E m \in 1..Len(v9) : v9'[n] = v9[m]
        /\ v9 # <<>> => v9' # <<>> /\ v9'[1] = v9[1]
    <2>1. Gateway!Task("remove", 0, FALSE) \in GatewayTaskType
      BY <1>1 DEF Gateway!onUnexpectedExit, Gateway!ChildExits, Gateway!Task, GatewayTaskType
    <2>2. Gateway!Task("remove", 0, FALSE).awaited =>
            \A n \in 1..Len(v9) : ~v9[n].awaited
      BY <1>1 DEF Gateway!onUnexpectedExit, Gateway!ChildExits, Gateway!Task, Gateway!TasksOK, Gateway!Underway
    <2>3. v9' = Gateway!Queued(Gateway!Task("remove", 0, FALSE))
      BY <1>2 DEF Gateway!onUnexpectedExit, Gateway!ChildExits
    <2> QED BY <1>1, <2>1, <2>2, <2>3, GatewayQueuedKeeps
  <1>5. Gateway!RemoveWaits' /\ v5' = 0
    BY <1>2, <1>4 DEF Gateway!Task, Gateway!onUnexpectedExit, Gateway!ChildExits
  <1>6. /\ v2' \in [GatewayCallers -> GatewayCallType]
        /\ \A c \in GatewayCallers :
             \/ v2'[c] = v2[c] /\ ~(v2[c].pc = "waiting" /\ v2[c].gateway = g)
             \/ v2'[c] = Gateway!NoCall
    <2>1. v2' = Gateway!Rejected(g)
      BY DEF Gateway!onUnexpectedExit, Gateway!ChildExits
    <2> QED BY <1>1, <2>1, GatewayRejectedIs
  <1>7. Gateway!TypeOK'
    <2>1. v2' \in [GatewayCallers -> GatewayCallType] /\ v8' \in [Gateway!Generations -> GatewayProcessType]
      BY <1>1, <1>2, <1>3, <1>4, <1>5, <1>6 DEF Gateway!onUnexpectedExit, Gateway!ChildExits, Gateway!process, Gateway!files
    <2>2. v9' \in Seq(GatewayTaskType) /\ v3' \in Seq(Projections \cup {"stop"}) /\ v1' \in Projections
      BY <1>1, <1>2, <1>3, <1>4, <1>5, <1>6 DEF Gateway!onUnexpectedExit, Gateway!ChildExits, Gateway!process, Gateway!files,
         Gateway!TypeOK
    <2>3. /\ v4' \in {"idle", "stopping", "removing", "starting", "publishing", "abandoning"}
          /\ v6' \in {"STOPPED", "STARTING", "READY", "FAILED", "STOPPING"}
          /\ v12' \in {"no", "asked", "done", "failed"}
      BY <1>1, <1>2, <1>3, <1>4, <1>5, <1>6 DEF Gateway!onUnexpectedExit, Gateway!ChildExits, Gateway!process, Gateway!files,
         Gateway!TypeOK
    <2>4. {v5', v11', v10'} \subseteq {0} \cup Gateway!Generations /\ v13' \subseteq Gateway!Generations
      BY <1>1, <1>2, <1>3, <1>4, <1>5, <1>6 DEF Gateway!onUnexpectedExit, Gateway!ChildExits, Gateway!process, Gateway!files,
         Gateway!TypeOK
    <2>5. v7' \in BOOLEAN
      BY <1>1, <1>2, <1>3, <1>4, <1>5, <1>6 DEF Gateway!onUnexpectedExit, Gateway!ChildExits, Gateway!process, Gateway!files,
         Gateway!TypeOK
    <2>6. v15' \in 0..GatewayFaults /\ v14' \in 0..GatewayChanges
      BY <1>1, <1>2, <1>3, <1>4, <1>5, <1>6, GatewayAssumption DEF Gateway!onUnexpectedExit,
         Gateway!process, Gateway!files, Gateway!TypeOK, Gateway!Fault
    <2> QED BY <2>1, <2>2, <2>3, <2>4, <2>5, <2>6, GatewayTypesAre
  <1>8. Gateway!NewestLives'
    BY <1>1, <1>2, <1>3, <1>4, <1>5, <1>6 DEF Gateway!onUnexpectedExit, Gateway!ChildExits, Gateway!process, Gateway!files,
       Gateway!NewestLives, Gateway!Alive,
       Gateway!Head1, Gateway!Underway, Gateway!TypeOK
  <1>9. Gateway!StopIsLast'
    BY <1>1, <1>2, <1>3, <1>4, <1>5, <1>6 DEF Gateway!onUnexpectedExit, Gateway!ChildExits, Gateway!process, Gateway!files,
       Gateway!StopIsLast, Gateway!NewestLives,
       Gateway!Underway
  <1>10. Gateway!TasksOK'
    <2>1. ASSUME NEW n \in 1..Len(v9')
          PROVE  /\ v9'[n].gateway <= Gateway!Newest'
                 /\ v9'[n].awaited =>
                      \/ v4' = "removing" /\ v9'[n] = Gateway!Task("remove", 0, TRUE)
                      \/ v4' = "publishing" /\ v9'[n] = Gateway!Task("publish", Gateway!Newest', TRUE)
      <3>1. CASE v9'[n] = Gateway!Task("remove", 0, FALSE)
        BY <1>1, <1>3, <3>1 DEF Gateway!Task, Gateway!Numbered
      <3>2. CASE \E m \in 1..Len(v9) : v9'[n] = v9[m]
        BY <1>1, <1>3, <3>2 DEF Gateway!onUnexpectedExit, Gateway!ChildExits, Gateway!TasksOK
      <3> QED BY <1>4, <3>1, <3>2
    <2>2. v10' # 0 => v9' # <<>> /\ v9'[1].op = "publish" /\ v9'[1].gateway = v10'
      BY <1>1, <1>4 DEF Gateway!onUnexpectedExit, Gateway!ChildExits, Gateway!TasksOK
    <2> QED BY <2>1, <2>2 DEF Gateway!TasksOK, Gateway!Task
  <1>11. Gateway!DescriptorOK'
    <2> SUFFICES ASSUME NEW d \in {v11', v10'} \ {0}
                 PROVE  /\ d <= Gateway!Newest'
                        /\ \/ d \in v13' \/ Gateway!RemoveWaits'
                           \/ d = Gateway!Newest' /\ (v5' = d \/ v4' = "stopping")
      BY DEF Gateway!DescriptorOK
    <2> QED BY <1>1, <1>3, <1>5 DEF Gateway!onUnexpectedExit, Gateway!ChildExits, Gateway!DescriptorOK
  <1>12. ASSUME NEW d \in GatewayCallers PROVE GatewayCallWhole(d)'
    <2>1. v2'[d] \in GatewayCallType /\ v2[d] \in GatewayCallType /\ GatewayCallWhole(d)
      BY <1>1, <1>3, <1>6 DEF Gateway!onUnexpectedExit, Gateway!ChildExits
    <2>2. \A h \in Gateway!Generations : v8[h].state # "none" =>
            v8'[h].state # "none" /\ v8'[h].of = v8[h].of
      BY <1>1, <1>3, <1>6 DEF Gateway!onUnexpectedExit, Gateway!ChildExits, Gateway!process, Gateway!files
    <2>3. v2'[d] = v2[d] /\ v2[d].pc = "waiting" => v8'[v2[d].gateway].state = "up"
      BY <1>1, <1>3, <1>6 DEF GatewayCallWhole, Gateway!CallOK, GatewayCallType, Gateway!NoCall
    <2>4. \/ v2'[d] = v2[d] \/ v2'[d] = Gateway!NoCall
          \/ /\ v2'[d].gateway \in Gateway!Generations /\ v2'[d].pc \in {"run", "requested", "settling"}
             /\ v8'[v2'[d].gateway].state # "none"
             /\ v8'[v2'[d].gateway].of = v2'[d].projection
      BY <1>1, <1>3, <1>6 DEF Gateway!onUnexpectedExit, Gateway!ChildExits
    <2> QED BY <2>1, <2>2, <2>3, <2>4, GatewayCallFollows
  <1> QED BY <1>2, <1>3, <1>4, <1>5, <1>6, <1>7, <1>8, <1>9, <1>10, <1>11, <1>12, GatewayInvIs DEF
             GatewayLine

(* A projection is asked for; the Gateway that runs will do, or a           *)
(* transition is put in line.                                               *)
LEMMA GatewayStartProcessKeeps ==
    ASSUME Gateway!Inv, NEW c \in GatewayCallers, Gateway!startProcess(c)
    PROVE  Gateway!Inv'
  <1>1. /\ Gateway!TypeOK /\ Gateway!Numbered /\ Gateway!NewestLives /\ Gateway!StopIsLast
        /\ Gateway!TasksOK /\ Gateway!AwaitedOnce /\ Gateway!DescriptorOK
        /\ \A d \in GatewayCallers : GatewayCallWhole(d) /\ v2[d] \in GatewayCallType
        /\ v2 \in [GatewayCallers -> GatewayCallType] /\ v8 \in [Gateway!Generations -> GatewayProcessType]
        /\ v9 \in Seq(GatewayTaskType)
    BY GatewayInvIs, GatewayTypesAre DEF GatewayLine
  <1>2. Gateway!Newest' = Gateway!Newest /\ Gateway!Numbered'
    BY <1>1, GatewayNewestStays DEF Gateway!startProcess, Gateway!process, Gateway!files
  <1>3. Gateway!AwaitedOnce' /\ (Gateway!RemoveWaits => Gateway!RemoveWaits')
    BY <1>1 DEF Gateway!AwaitedOnce, Gateway!RemoveWaits, Gateway!startProcess, Gateway!process, Gateway!files
  <1>4. /\ v3' \in Seq(Projections \cup {"stop"}) /\ (v3 # <<>> => v3' # <<>> /\ Gateway!Head1' = Gateway!Head1)
        /\ v7 => v3' = v3
        /\ ~v7 => \A n \in 1..Len(v3') : v3'[n] # "stop"
    <2>1. v3 \in Seq(Projections \cup {"stop"})
      BY <1>1 DEF Gateway!TypeOK
    <2>2. ~v7 => \A n \in 1..Len(v3) : v3[n] # "stop"
      BY <1>1 DEF Gateway!StopIsLast
    <2>3. CASE v3' = v3
      BY <2>1, <2>2, <2>3 DEF Gateway!Head1
    <2>4. CASE ~v7 /\ v3' = Append(v3, v2[c].projection)
      <3>1. v2[c].projection \in Projections
        BY <1>1 DEF Gateway!startProcess, GatewayCallWhole, Gateway!CallOK
      <3> QED BY <2>1, <2>2, <2>4, <3>1, GatewayAssumption DEF Gateway!Head1
    <2> QED BY <2>3, <2>4 DEF Gateway!startProcess
  <1>5. /\ \A d \in GatewayCallers \ {c} : v2'[d] = v2[d]
        /\ v2' = [v2 EXCEPT ![c] = v2'[c]] /\ v2'[c] \in GatewayCallType
        /\ \/ v2'[c] = Gateway!NoCall
           \/ /\ v5 # 0 /\ v8[v5].of = v2[c].projection
              /\ v2'[c] = [v2[c] EXCEPT !.pc = "run", !.gateway = v5]
           \/ v2'[c] = [v2[c] EXCEPT !.pc = "await"]
    <2>1. \/ v2' = [v2 EXCEPT ![c] = Gateway!NoCall]
          \/ /\ v5 # 0 /\ v8[v5].of = v2[c].projection
             /\ v2' = [v2 EXCEPT ![c] = [v2[c] EXCEPT !.pc = "run", !.gateway = v5]]
          \/ v2' = [v2 EXCEPT ![c].pc = "await"]
      BY <1>1 DEF Gateway!startProcess, Gateway!ServesCaller, Gateway!Serves
    <2>2. v5 \in {0} \cup Gateway!Generations
      BY <1>1 DEF Gateway!TypeOK
    <2>3. CASE v2' = [v2 EXCEPT ![c] = Gateway!NoCall]
      BY <1>1, <2>3 DEF GatewayCallType, Gateway!NoCall
    <2>4. CASE /\ v5 # 0 /\ v8[v5].of = v2[c].projection
               /\ v2' = [v2 EXCEPT ![c] = [v2[c] EXCEPT !.pc = "run", !.gateway = v5]]
      BY <1>1, <2>2, <2>4 DEF GatewayCallType
    <2>5. CASE v2' = [v2 EXCEPT ![c].pc = "await"]
      <3>1. /\ v2[c] \in GatewayCallType /\ v2'[c] = [v2[c] EXCEPT !.pc = "await"]
            /\ \A d \in GatewayCallers \ {c} : v2'[d] = v2[d]
            /\ v2' = [v2 EXCEPT ![c] = v2'[c]]
        BY <1>1, <2>5
      <3>2. v2'[c] \in GatewayCallType
        BY <3>1 DEF GatewayCallType
      <3> QED BY <3>1, <3>2
    <2> QED BY <2>1, <2>3, <2>4, <2>5
  <1>6. Gateway!TypeOK'
    <2>1. v2' \in [GatewayCallers -> GatewayCallType] /\ v8' \in [Gateway!Generations -> GatewayProcessType]
      BY <1>1, <1>5 DEF Gateway!startProcess
    <2>2. v9' \in Seq(GatewayTaskType) /\ v3' \in Seq(Projections \cup {"stop"}) /\ v1' \in Projections
      BY <1>1, <1>2, <1>3, <1>4, <1>5 DEF Gateway!startProcess, Gateway!process, Gateway!files,
         Gateway!TypeOK
    <2>3. /\ v4' \in {"idle", "stopping", "removing", "starting", "publishing", "abandoning"}
          /\ v6' \in {"STOPPED", "STARTING", "READY", "FAILED", "STOPPING"}
          /\ v12' \in {"no", "asked", "done", "failed"}
      BY <1>1, <1>2, <1>3, <1>4, <1>5 DEF Gateway!startProcess, Gateway!process, Gateway!files,
         Gateway!TypeOK
    <2>4. {v5', v11', v10'} \subseteq {0} \cup Gateway!Generations /\ v13' \subseteq Gateway!Generations
      BY <1>1, <1>2, <1>3, <1>4, <1>5 DEF Gateway!startProcess, Gateway!process, Gateway!files,
         Gateway!TypeOK
    <2>5. v7' \in BOOLEAN
      BY <1>1, <1>2, <1>3, <1>4, <1>5 DEF Gateway!startProcess, Gateway!process, Gateway!files,
         Gateway!TypeOK
    <2>6. v15' \in 0..GatewayFaults /\ v14' \in 0..GatewayChanges
      BY <1>1, <1>2, <1>3, <1>4, <1>5, GatewayAssumption DEF Gateway!startProcess, Gateway!process,
         Gateway!files, Gateway!TypeOK, Gateway!Fault
    <2> QED BY <2>1, <2>2, <2>3, <2>4, <2>5, <2>6, GatewayTypesAre
  <1>7. Gateway!NewestLives'
    <2>1. v4 # "idle" => Gateway!Head1' = Gateway!Head1
      BY <1>1, <1>4 DEF Gateway!StopIsLast
    <2> QED BY <1>1, <1>2, <2>1 DEF Gateway!startProcess, Gateway!NewestLives, Gateway!Alive
  <1>8. Gateway!StopIsLast'
    <2>1. UNCHANGED <<v12, v7, v5, v4>>
      BY DEF Gateway!startProcess
    <2> QED BY <1>1, <1>4, <2>1 DEF Gateway!StopIsLast
  <1>9. Gateway!TasksOK'
    BY <1>1, <1>2, <1>3, <1>4, <1>5 DEF Gateway!startProcess, Gateway!process, Gateway!files,
       Gateway!TasksOK, Gateway!Task, Gateway!Underway
  <1>10. Gateway!DescriptorOK'
    BY <1>1, <1>2, <1>3, <1>4, <1>5 DEF Gateway!startProcess, Gateway!process, Gateway!files,
       Gateway!DescriptorOK, Gateway!NewestLives,
       Gateway!Underway
  <1>11. ASSUME NEW d \in GatewayCallers PROVE GatewayCallWhole(d)'
    <2>1. CASE d # c
      BY <2>1, <1>1, <1>5, GatewayCallFollows DEF Gateway!startProcess, GatewayCallWhole, GatewayCallType
    <2>2. CASE v2'[c] = [v2[c] EXCEPT !.pc = "await"] /\ d = c
      <3>1. v2[c].projection \in Projections /\ v2[c].gateway = 0
        BY <1>1 DEF Gateway!startProcess, GatewayCallWhole, Gateway!CallOK
      <3>2. v2'[c].pc = "await" /\ v2'[c].gateway = 0 /\ v2'[c].projection = v2[c].projection
        BY <1>1, <2>2, <3>1 DEF GatewayCallType
      <3> QED BY <2>2, <3>1, <3>2 DEF GatewayCallWhole, Gateway!CallOK
    <2>3. CASE /\ v5 # 0 /\ v8[v5].of = v2[c].projection
               /\ v2'[c] = [v2[c] EXCEPT !.pc = "run", !.gateway = v5] /\ d = c
      <3>1. v5 \in Gateway!Generations /\ v8[v5].state = "up" /\ v8' = v8
        BY <1>1, <2>3 DEF Gateway!startProcess, Gateway!NewestLives, Gateway!TypeOK
      <3>2. v2'[c].pc = "run" /\ v2'[c].gateway = v5 /\ v2'[c].projection = v2[c].projection
        BY <1>1, <2>3 DEF GatewayCallType
      <3> QED BY <1>1, <1>5, <2>3, <3>1, <3>2, GatewayCallFollows
    <2>4. CASE v2'[c] = Gateway!NoCall /\ d = c
      BY <1>1, <1>5, <2>4, GatewayCallFollows DEF Gateway!startProcess
    <2> QED BY <1>5, <2>1, <2>2, <2>3, <2>4
  <1> QED BY <1>2, <1>3, <1>4, <1>5, <1>6, <1>7, <1>8, <1>9, <1>10, <1>11, GatewayInvIs DEF GatewayLine

(* What a run tells settles it, or is kept.                                 *)
LEMMA GatewayOnEventKeeps ==
    ASSUME Gateway!Inv, NEW c \in GatewayCallers, Gateway!onEvent(c)
    PROVE  Gateway!Inv'
  <1>1. /\ Gateway!TypeOK /\ GatewayLine
        /\ \A d \in GatewayCallers : GatewayCallWhole(d) /\ v2[d] \in GatewayCallType
        /\ v2 \in [GatewayCallers -> GatewayCallType] /\ v8 \in [Gateway!Generations -> GatewayProcessType]
        /\ v9 \in Seq(GatewayTaskType)
    BY GatewayInvIs, GatewayTypesAre
  <1>2. UNCHANGED <<v3, v4, v5, v7, v8, v10, v11, v12, v13>> /\ Gateway!Announces
    BY DEF Gateway!onEvent
  <1>3. GatewayLine' /\ v9' \in Seq(GatewayTaskType)
    BY <1>1, <1>2, GatewayAnnouncesKeeps
  <1>4. /\ \A d \in GatewayCallers \ {c} : v2'[d] = v2[d]
        /\ v2' = [v2 EXCEPT ![c] = v2'[c]] /\ v2'[c] \in GatewayCallType
        /\ \/ v2'[c] = Gateway!NoCall
           \/ /\ v2'[c].gateway = v2[c].gateway /\ v2'[c].projection = v2[c].projection
              /\ v2'[c].pc \in {"requested", "waiting", "settling"}
        /\ v2[c].gateway \in Gateway!Generations /\ v8[v2[c].gateway].state = "up"
        /\ v8[v2[c].gateway].of = v2[c].projection
    <2>1. v2[c] \in GatewayCallType /\ v2 \in [GatewayCallers -> GatewayCallType]
      BY <1>1
    <2>2. v2[c].pc \in {"requested", "waiting"} /\ v8[v2[c].gateway].state = "up"
      BY DEF Gateway!onEvent, Gateway!Up
    <2>3. v2[c].gateway \in Gateway!Generations /\ v8[v2[c].gateway].of = v2[c].projection
      BY <1>1, <2>1, <2>2 DEF GatewayCallWhole, Gateway!CallOK, GatewayCallType
    <2>4. \/ v2' = [v2 EXCEPT ![c] = Gateway!NoCall]
          \/ \E event \in {"none", "proposal", "error"}, pc \in {"requested", "waiting", "settling"} :
               v2' = [v2 EXCEPT ![c] = [v2[c] EXCEPT !.pc = pc, !.event = event]]
      <3>1. CASE v2' = [v2 EXCEPT ![c] = Gateway!NoCall]
        BY <3>1
      <3>2. ASSUME NEW event \in {"proposal", "error"}, v2[c].pc = "requested",
                   v2' = [v2 EXCEPT ![c].event = event]
            PROVE  v2' = [v2 EXCEPT ![c] = [v2[c] EXCEPT !.pc = "requested", !.event = event]]
        <4>1. [v2[c] EXCEPT !.event = event] = [v2[c] EXCEPT !.pc = "requested", !.event = event]
          BY <2>1, <3>2 DEF GatewayCallType
        <4> QED BY <2>1, <3>2, <4>1
      <3>3. ASSUME NEW event \in {"proposal", "error"},
                   v2' = [v2 EXCEPT ![c].pc = "settling", ![c].event = event]
            PROVE  v2' = [v2 EXCEPT ![c] = [v2[c] EXCEPT !.pc = "settling", !.event = event]]
        BY <2>1, <3>3
      <3> QED BY <3>1, <3>2, <3>3 DEF Gateway!onEvent, Gateway!Ends
    <2>5. CASE v2' = [v2 EXCEPT ![c] = Gateway!NoCall]
      BY <2>1, <2>2, <2>3, <2>5 DEF Gateway!NoCall, GatewayCallType
    <2>6. ASSUME NEW event \in {"none", "proposal", "error"}, NEW pc \in {"requested", "waiting", "settling"},
                 v2' = [v2 EXCEPT ![c] = [v2[c] EXCEPT !.pc = pc, !.event = event]]
          PROVE  /\ \A d \in GatewayCallers \ {c} : v2'[d] = v2[d]
                 /\ v2' = [v2 EXCEPT ![c] = v2'[c]] /\ v2'[c] \in GatewayCallType
                 /\ v2'[c].gateway = v2[c].gateway /\ v2'[c].projection = v2[c].projection
                 /\ v2'[c].pc = pc
      BY <2>1, <2>6 DEF GatewayCallType
    <2> QED BY <2>2, <2>3, <2>4, <2>5, <2>6
  <1>5. Gateway!TypeOK'
    <2>1. v2' \in [GatewayCallers -> GatewayCallType] /\ UNCHANGED <<v1, v6, v14, v15>>
      BY <1>1, <1>4 DEF Gateway!onEvent, Gateway!process
    <2> QED BY <1>1, <1>2, <1>3, <2>1, GatewayTypesAre DEF Gateway!TypeOK
  <1>6. ASSUME NEW d \in GatewayCallers PROVE GatewayCallWhole(d)'
    <2>1. v8' = v8
      BY DEF Gateway!onEvent
    <2>2. CASE d # c
      BY <2>1, <2>2, <1>1, <1>4, GatewayCallFollows DEF GatewayCallWhole, GatewayCallType
    <2>3. CASE v2'[c] = Gateway!NoCall /\ d = c
      BY <1>1, <1>4, <2>1, <2>3, GatewayCallFollows
    <2>4. CASE v2'[c] # Gateway!NoCall /\ d = c
      <3>1. v2'[c].gateway # 0
        BY <1>4, <2>4 DEF Gateway!Generations
      <3> QED BY <1>4, <2>1, <2>4, <3>1 DEF GatewayCallWhole, Gateway!CallOK
    <2> QED BY <2>2, <2>3, <2>4
  <1> QED BY <1>3, <1>5, <1>6, GatewayInvIs

(* A run is registered and waits.                                           *)
LEMMA GatewayAcceptedKeeps ==
    ASSUME Gateway!Inv, NEW c \in GatewayCallers, Gateway!Accepted(c)
    PROVE  Gateway!Inv'
  <1>1. /\ Gateway!TypeOK /\ GatewayLine
        /\ \A d \in GatewayCallers : GatewayCallWhole(d) /\ v2[d] \in GatewayCallType
        /\ v2 \in [GatewayCallers -> GatewayCallType] /\ v8 \in [Gateway!Generations -> GatewayProcessType]
        /\ v9 \in Seq(GatewayTaskType)
    BY GatewayInvIs, GatewayTypesAre
  <1>2. UNCHANGED <<v3, v4, v5, v7, v8, v10, v11, v12, v13>> /\ Gateway!Announces
    BY DEF Gateway!Accepted
  <1>3. GatewayLine' /\ v9' \in Seq(GatewayTaskType)
    BY <1>1, <1>2, GatewayAnnouncesKeeps
  <1>4. /\ \A d \in GatewayCallers \ {c} : v2'[d] = v2[d]
        /\ v2' = [v2 EXCEPT ![c] = v2'[c]] /\ v2'[c] \in GatewayCallType
        /\ \/ v2'[c] = Gateway!NoCall
           \/ /\ v2'[c].gateway = v2[c].gateway /\ v2'[c].projection = v2[c].projection
              /\ v2'[c].pc \in {"requested", "waiting", "settling"}
        /\ v2[c].gateway \in Gateway!Generations /\ v8[v2[c].gateway].state = "up"
        /\ v8[v2[c].gateway].of = v2[c].projection
    <2>1. v2[c] \in GatewayCallType /\ v2 \in [GatewayCallers -> GatewayCallType]
      BY <1>1
    <2>2. v2[c].pc \in {"requested", "waiting"} /\ v8[v2[c].gateway].state = "up"
      BY DEF Gateway!Accepted, Gateway!Up
    <2>3. v2[c].gateway \in Gateway!Generations /\ v8[v2[c].gateway].of = v2[c].projection
      BY <1>1, <2>1, <2>2 DEF GatewayCallWhole, Gateway!CallOK, GatewayCallType
    <2>4. \/ v2' = [v2 EXCEPT ![c] = Gateway!NoCall]
          \/ \E event \in {"none", "proposal", "error"}, pc \in {"requested", "waiting", "settling"} :
               v2' = [v2 EXCEPT ![c] = [v2[c] EXCEPT !.pc = pc, !.event = event]]
      <3>1. ASSUME NEW pc \in {"settling", "waiting"}, v2' = [v2 EXCEPT ![c].pc = pc]
            PROVE  v2' = [v2 EXCEPT ![c] = [v2[c] EXCEPT !.pc = pc, !.event = v2[c].event]]
        <4>1. [v2[c] EXCEPT !.pc = pc] = [v2[c] EXCEPT !.pc = pc, !.event = v2[c].event]
          BY <2>1 DEF GatewayCallType
        <4> QED BY <2>1, <3>1, <4>1
      <3>2. v2[c].event \in {"none", "proposal", "error"}
        BY <2>1 DEF GatewayCallType
      <3>3. \/ v2' = [v2 EXCEPT ![c] = Gateway!NoCall]
            \/ \E pc \in {"settling", "waiting"} : v2' = [v2 EXCEPT ![c].pc = pc]
        BY <2>2 DEF Gateway!Accepted, Gateway!Ends
      <3> QED BY <3>1, <3>2, <3>3
    <2>5. CASE v2' = [v2 EXCEPT ![c] = Gateway!NoCall]
      BY <2>1, <2>2, <2>3, <2>5 DEF Gateway!NoCall, GatewayCallType
    <2>6. ASSUME NEW event \in {"none", "proposal", "error"}, NEW pc \in {"requested", "waiting", "settling"},
                 v2' = [v2 EXCEPT ![c] = [v2[c] EXCEPT !.pc = pc, !.event = event]]
          PROVE  /\ \A d \in GatewayCallers \ {c} : v2'[d] = v2[d]
                 /\ v2' = [v2 EXCEPT ![c] = v2'[c]] /\ v2'[c] \in GatewayCallType
                 /\ v2'[c].gateway = v2[c].gateway /\ v2'[c].projection = v2[c].projection
                 /\ v2'[c].pc = pc
      BY <2>1, <2>6 DEF GatewayCallType
    <2> QED BY <2>2, <2>3, <2>4, <2>5, <2>6
  <1>5. Gateway!TypeOK'
    <2>1. v2' \in [GatewayCallers -> GatewayCallType] /\ UNCHANGED <<v1, v6, v14, v15>>
      BY <1>1, <1>4 DEF Gateway!Accepted, Gateway!process
    <2> QED BY <1>1, <1>2, <1>3, <2>1, GatewayTypesAre DEF Gateway!TypeOK
  <1>6. ASSUME NEW d \in GatewayCallers PROVE GatewayCallWhole(d)'
    <2>1. v8' = v8
      BY DEF Gateway!Accepted
    <2>2. CASE d # c
      BY <2>1, <2>2, <1>1, <1>4, GatewayCallFollows DEF GatewayCallWhole, GatewayCallType
    <2>3. CASE v2'[c] = Gateway!NoCall /\ d = c
      BY <1>1, <1>4, <2>1, <2>3, GatewayCallFollows
    <2>4. CASE v2'[c] # Gateway!NoCall /\ d = c
      <3>1. v2'[c].gateway # 0
        BY <1>4, <2>4 DEF Gateway!Generations
      <3> QED BY <1>4, <2>1, <2>4, <3>1 DEF GatewayCallWhole, Gateway!CallOK
    <2> QED BY <2>2, <2>3, <2>4
  <1> QED BY <1>3, <1>5, <1>6, GatewayInvIs

(* What is announced changes no call and no process.                        *)
LEMMA GatewaySetRunStageKeeps == ASSUME Gateway!Inv, Gateway!setRunStage PROVE Gateway!Inv'
  <1>1. Gateway!TypeOK /\ GatewayLine /\ \A d \in GatewayCallers : GatewayCallWhole(d)
    BY GatewayInvIs
  <1>2. UNCHANGED <<v1, v2, v3, v4, v5, v6, v7, v8, v10, v11, v12, v13, v14, v15>> /\ Gateway!Announces
    BY DEF Gateway!setRunStage, Gateway!process
  <1>3. GatewayLine' /\ v9' \in Seq(GatewayTaskType)
    BY <1>1, <1>2, GatewayAnnouncesKeeps
  <1>4. Gateway!TypeOK'
    BY <1>1, <1>2, <1>3 DEF Gateway!TypeOK, GatewayTaskType
  <1>5. \A d \in GatewayCallers : GatewayCallWhole(d)'
    BY <1>1, <1>2 DEF GatewayCallWhole, Gateway!CallOK
  <1> QED BY <1>3, <1>4, <1>5, GatewayInvIs

(* A change of the configuration leaves all of it as it is.                 *)
LEMMA GatewayConfigurationChangesKeeps ==
    ASSUME Gateway!Inv, Gateway!ConfigurationChanges
    PROVE  Gateway!Inv'
  <1>1. /\ Gateway!TypeOK /\ GatewayLine /\ v2 \in [GatewayCallers -> GatewayCallType]
        /\ v8 \in [Gateway!Generations -> GatewayProcessType]
        /\ \A d \in GatewayCallers : GatewayCallWhole(d) /\ v2[d] \in GatewayCallType
    BY GatewayInvIs, GatewayTypesAre
  <1>2. /\ UNCHANGED <<v2, v3, v4, v5, v6, v7, v8, v9, v10, v11>>
        /\ UNCHANGED <<v12, v13, v15>>
    BY DEF Gateway!ConfigurationChanges, Gateway!files
  <1>3. GatewayLine'
    BY <1>1, <1>2, GatewayLineStays DEF Gateway!files
  <1>4. v1' \in Projections /\ v14' \in 0..GatewayChanges
    BY <1>1, GatewayAssumption DEF Gateway!ConfigurationChanges, Gateway!TypeOK
  <1>5. Gateway!TypeOK'
    BY <1>1, <1>2, <1>4 DEF Gateway!TypeOK
  <1>6. ASSUME NEW d \in GatewayCallers PROVE GatewayCallWhole(d)'
    BY <1>1, <1>2 DEF GatewayCallWhole, Gateway!CallOK
  <1> QED BY <1>3, <1>5, <1>6, GatewayInvIs

(* It holds before anything was asked for.                                  *)
LEMMA GatewayInitInv == ASSUME Gateway!Init PROVE Gateway!Inv
  <1>1. Gateway!TypeOK
    <2>1. v2 \in [GatewayCallers -> GatewayCallType]
      BY DEF Gateway!Init, GatewayCallType, Gateway!NoCall
    <2>2. v8 \in [Gateway!Generations -> GatewayProcessType]
      BY DEF Gateway!Init, GatewayProcessType
    <2>3. v9 \in Seq(GatewayTaskType) /\ v3 \in Seq(Projections \cup {"stop"})
      BY DEF Gateway!Init
    <2>4. v15 \in 0..GatewayFaults /\ v14 \in 0..GatewayChanges
      BY GatewayAssumption DEF Gateway!Init
    <2> QED BY <2>1, <2>2, <2>3, <2>4 DEF Gateway!Init, Gateway!TypeOK, GatewayCallType,
               GatewayProcessType, GatewayTaskType
  <1>2. Gateway!Newest = 0 /\ Gateway!Numbered
    <2>1. \A g \in Gateway!Generations : v8[g].state # "none" <=> g <= 0
      BY GatewayAssumption DEF Gateway!Init, Gateway!Generations
    <2>2. 0 \in 0..MaxGateways
      BY GatewayAssumption
    <2> QED BY <2>1, <2>2, GatewayNewestIs DEF Gateway!Numbered
  <1>3. Gateway!NewestLives /\ Gateway!DescriptorOK
    BY <1>2 DEF Gateway!Init, Gateway!NewestLives, Gateway!Alive, Gateway!DescriptorOK
  <1>4. Gateway!StopIsLast /\ Gateway!TasksOK /\ Gateway!AwaitedOnce
    BY DEF Gateway!Init, Gateway!StopIsLast, Gateway!TasksOK, Gateway!AwaitedOnce
  <1>5. \A c \in GatewayCallers : GatewayCallWhole(c)
    BY DEF Gateway!Init, Gateway!NoCall, GatewayCallWhole, Gateway!CallOK
  <1> QED BY <1>1, <1>2, <1>3, <1>4, <1>5, GatewayInvIs DEF GatewayLine

(* Every step keeps it.                                                     *)
LEMMA GatewayNextInv == ASSUME Gateway!Inv, [Gateway!Next]_Gateway!vars PROVE Gateway!Inv'
  <1>1. ASSUME NEW c \in GatewayCallers,
               \/ Gateway!start(c) \/ Gateway!runConversationReaction(c)
               \/ Gateway!readSubjectOpenClawProjection(c) \/ Gateway!startProcess(c)
               \/ Gateway!requestAgent(c) \/ Gateway!onEvent(c) \/ Gateway!Accepted(c)
               \/ Gateway!RunEnds(c) \/ Gateway!CallFails(c)
        PROVE  Gateway!Inv'
    BY <1>1, GatewayStartKeeps, GatewayRunConversationReactionKeeps,
       GatewayReadSubjectOpenClawProjectionKeeps, GatewayStartProcessKeeps, GatewayRequestAgentKeeps,
       GatewayOnEventKeeps, GatewayAcceptedKeeps, GatewayRunEndsKeeps, GatewayCallFailsKeeps
  <1>2. CASE \/ Gateway!NothingToStart \/ Gateway!StopPrevious \/ Gateway!NothingToStop
             \/ Gateway!GatewayStops \/ Gateway!StopFails \/ Gateway!Removed
             \/ Gateway!GatewayStarts \/ Gateway!StartFails \/ Gateway!Published \/ Gateway!PublishFails
             \/ Gateway!Abandoned
    BY <1>2, GatewayNothingToStartKeeps, GatewayStopPreviousKeeps, GatewayNothingToStopNextKeeps,
       GatewayNothingToStopLastKeeps, GatewayGatewayStopsKeeps, GatewayStopFailsNextKeeps,
       GatewayStopFailsLastKeeps, GatewayRemovedNextKeeps, GatewayRemovedLastKeeps,
       GatewayGatewayStartsKeeps, GatewayGatewayStartsLateKeeps, GatewayStartFailsKeeps,
       GatewayPublishedKeeps, GatewayPublishFailsAwaitedKeeps, GatewayPublishFailsKeeps,
       GatewayAbandonedKeeps
  <1>3. ASSUME NEW g \in Gateway!Generations, Gateway!onUnexpectedExit(g) PROVE Gateway!Inv'
    BY <1>3, GatewayOnUnexpectedExitKeeps
  <1>4. CASE Gateway!ConfigurationChanges \/ Gateway!setRunStage \/ Gateway!stop
             \/ Gateway!publishDescriptor \/ Gateway!DescriptorWritten \/ Gateway!removeDescriptor
    BY <1>4, GatewayConfigurationChangesKeeps, GatewaySetRunStageKeeps, GatewayStopKeeps, GatewayPublishDescriptorKeeps,
       GatewayDescriptorWrittenKeeps,
       GatewayRemoveDescriptorKeeps
  <1>5. CASE UNCHANGED Gateway!vars
    <2>1. Gateway!Inv => /\ Gateway!TypeOK /\ GatewayLine /\ \A c \in GatewayCallers : GatewayCallWhole(c)
      BY GatewayInvIs
    <2>2. GatewayLine'
      BY <1>5, <2>1, GatewayLineStays DEF Gateway!vars, Gateway!files
    <2>3. Gateway!TypeOK'
      BY <1>5, <2>1 DEF Gateway!vars, Gateway!TypeOK
    <2>4. \A c \in GatewayCallers : GatewayCallWhole(c)'
      BY <1>5, <2>1 DEF Gateway!vars, GatewayCallWhole, Gateway!CallOK
    <2> QED BY <2>2, <2>3, <2>4, GatewayInvIs
  <1> QED BY <1>1, <1>2, <1>3, <1>4, <1>5 DEF Gateway!Next

(* What it says of the processes, the runs and the descriptor.              *)
LEMMA GatewayInvSays == ASSUME Gateway!Inv PROVE Gateway!GatewayIsOne
  <1>1. /\ Gateway!TypeOK /\ Gateway!Numbered /\ Gateway!NewestLives /\ Gateway!StopIsLast
        /\ Gateway!DescriptorOK
        /\ Gateway!RunsItsProjection /\ Gateway!NoRunIsForgotten
    BY DEF Gateway!Inv
  <1>2. Gateway!OneGateway
    <2>1. Gateway!Alive \subseteq {Gateway!Newest}
      BY <1>1 DEF Gateway!NewestLives
    <2>2. IsFiniteSet({Gateway!Newest}) /\ Cardinality({Gateway!Newest}) = 1
      BY FS_Singleton
    <2>3. Cardinality(Gateway!Alive) <= Cardinality({Gateway!Newest})
      BY <2>1, <2>2, FS_Subset
    <2>4. Gateway!Cardinality(Gateway!Alive) = Cardinality(Gateway!Alive)
      BY DEF Gateway!Cardinality, Cardinality
    <2> QED BY <2>2, <2>3, <2>4 DEF Gateway!OneGateway
  <1>3. Gateway!StoppedIsFinal
    <2> SUFFICES ASSUME v12 \in {"done", "failed"}, NEW g \in Gateway!Alive PROVE FALSE
      BY DEF Gateway!StoppedIsFinal
    <2>1. v5 = 0 /\ v3 = <<>> /\ v4 = "idle"
      BY <1>1 DEF Gateway!StopIsLast
    <2>2. g \in Gateway!Generations /\ v8[g].state \in {"starting", "up", "stopping"}
      BY DEF Gateway!Alive
    <2> QED BY <1>1, <2>1, <2>2 DEF Gateway!NewestLives, Gateway!Generations
  <1>4. Gateway!DescriptorIsLive
    <2>1. v9 = <<>> => ~Gateway!RemoveWaits
      BY DEF Gateway!RemoveWaits
    <2> QED BY <1>1, <2>1 DEF Gateway!DescriptorIsLive, Gateway!DescriptorOK
  <1> QED BY <1>1, <1>2, <1>3, <1>4 DEF Gateway!GatewayIsOne

------------------------------------------------------------------------------
(* The scenes. *)

(* The bootstrap lease, while the scene is its own.                         *)
OwnershipInScene == scene = "ownership" => Ownership!Inv

(* A step of any scene keeps it.                                            *)
LEMMA OwnershipSceneStep == OwnershipInScene /\ [Next]_<<scene, slots>> => OwnershipInScene'
  <1> SUFFICES ASSUME OwnershipInScene, [Next]_<<scene, slots>>, scene' = "ownership" PROVE Ownership!Inv'
    BY DEF OwnershipInScene
  <1>1. scene = "ownership" /\ [Ownership!Next]_Ownership!vars
    BY DEF Next, slots, Ownership!vars, Ownership!disk, Ownership!os
  <1> QED BY <1>1, OwnershipNextInv DEF OwnershipInScene

(* In every behaviour at most one living process acts for the installation, *)
(* whoever holds the lease keeps it until it leaves, dies or is told, and   *)
(* a lock whose holder died is found abandoned, for any processes, failing  *)
(* file operations, lost heartbeats and reused pids.                        *)
THEOREM LeaseKept == Spec => LeaseIsKept
  <1>1. Init => OwnershipInScene /\ (scene = "ownership" => Ownership!Lease!Init)
    BY OwnershipInitInv, OwnershipLeaseInit DEF Init, OwnershipInScene
  <1>2. OwnershipInScene => (scene = "ownership" => Ownership!TypeOK /\ Ownership!AbandonedIsRecoverable)
    BY OwnershipRecoverable DEF OwnershipInScene, Ownership!Inv
  <1>3. OwnershipInScene /\ [Next]_<<scene, slots>> => [scene = "ownership" => Ownership!LeaseMoves]_slots
    <2> SUFFICES ASSUME OwnershipInScene, [Next]_<<scene, slots>>, slots' # slots, scene = "ownership"
                 PROVE  Ownership!LeaseMoves
      OBVIOUS
    <2>1. [Ownership!Next]_Ownership!vars
      BY DEF Next, slots, Ownership!vars, Ownership!disk, Ownership!os
    <2> QED BY <2>1, OwnershipLeaseStep DEF OwnershipInScene
  <1> QED BY <1>1, <1>2, <1>3, OwnershipSceneStep, PTL DEF Spec, LeaseIsKept

(* The records of the bootstrap state, while the scene is their own.        *)
RecordInScene == scene = "records" => Records!Inv

(* A step of any scene keeps it.                                            *)
LEMMA RecordSceneStep == RecordInScene /\ [Next]_<<scene, slots>> => RecordInScene'
  <1> SUFFICES ASSUME RecordInScene, [Next]_<<scene, slots>>, scene' = "records" PROVE Records!Inv'
    BY DEF RecordInScene
  <1>1. scene = "records" /\ [Records!Next]_Records!vars
    BY DEF Next, slots, Records!vars
  <1> QED BY <1>1, RecordsNextInv DEF RecordInScene

(* In every behaviour a body that a caller was told is on disk is found     *)
(* there, or a later one is; a damaged current file costs one revision at   *)
(* most, and shows; every checkpoint told is in a readable journal; and only *)
(* a current body is ever advanced.                                         *)
THEOREM BodiesKept == Spec => BodiesAreKept
  <1>1. Init => RecordInScene
    BY RecordsInitInv DEF Init, RecordInScene
  <1>2. RecordInScene =>
           (scene = "records" => Records!TypeOK /\ Records!KeptAsTold)
    BY RecordsInvSays DEF RecordInScene
  <1>3. RecordInScene /\ [Next]_<<scene, slots>> => [scene = "records" => Records!CurrentAdvances]_slots
    <2> SUFFICES ASSUME RecordInScene, [Next]_<<scene, slots>>, slots' # slots, scene = "records"
                 PROVE  Records!CurrentAdvances
      OBVIOUS
    <2>1. [Records!Next]_Records!vars
      BY DEF Next, slots, Records!vars
    <2> QED BY <2>1, RecordsAdvancesThen DEF RecordInScene
  <1> QED BY <1>1, <1>2, <1>3, RecordSceneStep, PTL DEF Spec, BodiesAreKept

(* The provisioning of the database, while the scene is its own.            *)
ProvisionInScene == scene = "provision" => Provision!Inv

(* A step of any scene keeps it.                                            *)
LEMMA ProvisionSceneStep == ProvisionInScene /\ [Next]_<<scene, slots>> => ProvisionInScene'
  <1> SUFFICES ASSUME ProvisionInScene, [Next]_<<scene, slots>>, scene' = "provision" PROVE Provision!Inv'
    BY DEF ProvisionInScene
  <1>1. scene = "provision" /\ [Provision!Next]_Provision!vars
    BY DEF Next, slots, Provision!vars
  <1> QED BY <1>1, ProvisionNextInv DEF ProvisionInScene

(* In every behaviour a boot that became the Host stands on everything that *)
(* a boot provisions, and nothing is done before what it needs is there.    *)
THEOREM ProvisionedSoundly == Spec => []ProvisionedInOrder
  <1>1. Init => ProvisionInScene
    BY ProvisionInitInv DEF Init, ProvisionInScene
  <1>2. ProvisionInScene => ProvisionedInOrder
    BY ProvisionInvSays DEF ProvisionInScene, ProvisionedInOrder
  <1> QED BY <1>1, <1>2, ProvisionSceneStep, PTL DEF Spec

(* The managed changes, while the scene is their own.                       *)
ChangeInScene == scene = "change" => Change!Inv

(* A step of any scene keeps it.                                            *)
LEMMA ChangeSceneStep == ChangeInScene /\ [Next]_<<scene, slots>> => ChangeInScene'
  <1> SUFFICES ASSUME ChangeInScene, [Next]_<<scene, slots>>, scene' = "change" PROVE Change!Inv'
    BY DEF ChangeInScene
  <1>1. scene = "change" /\ [Change!Next]_Change!vars
    BY DEF Next, slots, Change!vars
  <1> QED BY <1>1, ChangeNextInv DEF ChangeInScene

(* In every behaviour a confirmed plan changes a versioned resource at most *)
(* once, with the content confirmed and over the resource its owner is told *)
(* of: the one observed, or the one the input names.  An Activity that      *)
(* succeeded has its effect and its evidence, and one that no execution     *)
(* holds is decided, of an earlier boot, or lost its recording to a fault.  *)
THEOREM ChangesConfirmed == Spec => ChangesAsConfirmed
  <1>1. Init => ChangeInScene
    BY ChangeInitInv DEF Init, ChangeInScene
  <1>2. ChangeInScene =>
           (scene = "change" =>
              Change!TypeOK /\ Change!OutcomeIsTrue /\ Change!NothingLeftOpen /\ Change!AtMostOnce)
    BY ChangeOnceOnly DEF ChangeInScene, Change!Inv
  <1>3. ChangeInScene /\ [Next]_<<scene, slots>> => [scene = "change" => Change!ExecutesTheConfirmed]_slots
    <2> SUFFICES ASSUME ChangeInScene, [Next]_<<scene, slots>>, slots' # slots, scene = "change"
                 PROVE  Change!ExecutesTheConfirmed
      OBVIOUS
    <2>1. [Change!Next]_Change!vars
      BY DEF Next, slots, Change!vars
    <2> QED BY <2>1, ChangeConfirmedStep DEF ChangeInScene
  <1> QED BY <1>1, <1>2, <1>3, ChangeSceneStep, PTL DEF Spec, ChangesAsConfirmed

(* The maintenance of the installation, while the scene is its own.         *)
UpkeepInScene == scene = "maintenance" => Upkeep!Inv

(* A step of any scene keeps it.                                            *)
LEMMA UpkeepSceneStep == UpkeepInScene /\ [Next]_<<scene, slots>> => UpkeepInScene'
  <1> SUFFICES ASSUME UpkeepInScene, [Next]_<<scene, slots>>, scene' = "maintenance" PROVE Upkeep!Inv'
    BY DEF UpkeepInScene
  <1>1. scene = "maintenance" /\ [Upkeep!Next]_Upkeep!vars
    BY DEF Next, slots, Upkeep!vars
  <1> QED BY <1>1, UpkeepNextInv DEF UpkeepInScene

(* In every behaviour no Host serves over an operation that another one has *)
(* entered, a Host that serves is the one the fence names, an operation     *)
(* that may still be aborted was not entered, and one succeeds only when    *)
(* its target is reached.                                                   *)
THEOREM MaintenanceFenced == Spec => MaintenanceIsFenced
  <1>1. Init => UpkeepInScene
    BY UpkeepInitInv DEF Init, UpkeepInScene
  <1>2. UpkeepInScene =>
           (scene = "maintenance" =>
              Upkeep!TypeOK /\ Upkeep!NoHostOverObligation /\ Upkeep!ServingIsFenced /\ Upkeep!NotEnteredIsTrue)
    BY UpkeepInvSays DEF UpkeepInScene
  <1>3. UpkeepInScene /\ [Next]_<<scene, slots>> => [scene = "maintenance" => Upkeep!SucceedsWhenReached]_slots
    <2> SUFFICES ASSUME UpkeepInScene, [Next]_<<scene, slots>>, slots' # slots, scene = "maintenance"
                 PROVE  Upkeep!SucceedsWhenReached
      OBVIOUS
    <2>1. [Upkeep!Next]_Upkeep!vars
      BY DEF Next, slots, Upkeep!vars
    <2> QED BY <2>1, UpkeepSucceedsThen DEF UpkeepInScene
  <1> QED BY <1>1, <1>2, <1>3, UpkeepSceneStep, PTL DEF Spec, MaintenanceIsFenced

(* The first Administrator, while the scene is its own.                     *)
ClaimInScene == scene = "claim" => Claim!Inv

(* A step of any scene keeps it.                                            *)
LEMMA ClaimSceneStep == ClaimInScene /\ [Next]_<<scene, slots>> => ClaimInScene'
  <1> SUFFICES ASSUME ClaimInScene, [Next]_<<scene, slots>>, scene' = "claim" PROVE Claim!Inv'
    BY DEF ClaimInScene
  <1>1. scene = "claim" /\ [Claim!Next]_Claim!vars
    BY DEF Next, slots, Claim!vars, Claim!claimVars, Claim!hostVars, Claim!sessionVars
  <1> QED BY <1>1, ClaimNextInv DEF ClaimInScene

(* In every behaviour one Administrator is made, with the claim that was    *)
(* current and in time; until then the file of a settled Host opens that    *)
(* claim or a renewal is set, afterwards the file is gone or a timer set    *)
(* that removes it, and who comes after a revocation is not admitted.       *)
THEOREM ClaimedOnceOnly == Spec => ClaimIsOneShot
  <1>1. Init => ClaimInScene
    BY ClaimInitInv DEF Init, ClaimInScene
  <1>2. ClaimInScene =>
           (scene = "claim" => Claim!TypeOK /\ Claim!Claimable /\ Claim!ClaimedIsRemoved /\ Claim!RevokedStaysOut)
    BY ClaimInvSays DEF ClaimInScene
  <1>3. ClaimInScene /\ [Next]_<<scene, slots>> => [scene = "claim" => Claim!ClaimsOnce]_slots
    <2> SUFFICES ASSUME ClaimInScene, [Next]_<<scene, slots>>, slots' # slots, scene = "claim"
                 PROVE  Claim!ClaimsOnce
      OBVIOUS
    <2>1. [Claim!Next]_Claim!vars
      BY DEF Next, slots, Claim!vars, Claim!claimVars, Claim!hostVars, Claim!sessionVars
    <2> QED BY <2>1, ClaimOnceOnly DEF ClaimInScene
  <1> QED BY <1>1, <1>2, <1>3, ClaimSceneStep, PTL DEF Spec, ClaimIsOneShot

(* The Secret service, while the scene is its own.                          *)
SecretInScene == scene = "secret" => Secret!Inv

(* A step of any scene keeps it.                                            *)
LEMMA SecretSceneStep == SecretInScene /\ [Next]_<<scene, slots>> => SecretInScene'
  <1> SUFFICES ASSUME SecretInScene, [Next]_<<scene, slots>>, scene' = "secret" PROVE Secret!Inv'
    BY DEF SecretInScene
  <1>1. scene = "secret" /\ [Secret!Next]_Secret!vars
    BY DEF Next, slots, Secret!vars
  <1> QED BY <1>1, SecretStep DEF SecretInScene

(* In every behaviour an ACTIVE Secret has the material that was committed  *)
(* unless two replacements shared a key, and no step brings a revoked       *)
(* Secret or an earlier generation back.                                    *)
THEOREM SecretKept == Spec => MaterialIsKept
  <1>1. Init => SecretInScene
    BY SecretInit DEF Init, SecretInScene
  <1>2. SecretInScene => (scene = "secret" => Secret!TypeOK /\ Secret!ActiveHasMaterial /\ Secret!CurrentIsCommitted)
    BY DEF SecretInScene, Secret!Inv
  <1>3. SecretInScene /\ [Next]_<<scene, slots>> => [scene = "secret" => Secret!StaysRevoked]_slots
    <2> SUFFICES ASSUME SecretInScene, [Next]_<<scene, slots>>, slots' # slots, scene = "secret"
                 PROVE  Secret!StaysRevoked
      OBVIOUS
    <2>1. [Secret!Next]_Secret!vars
      BY DEF Next, slots, Secret!vars
    <2> QED BY <2>1, SecretFinal DEF SecretInScene
  <1> QED BY <1>1, <1>2, <1>3, SecretSceneStep, PTL DEF Spec, MaterialIsKept

(* The reconciler, while the scene is its own.                              *)
ReconcilerInScene == scene = "reconciler" => Reconciler!Inv

(* A step of any scene keeps it.                                            *)
LEMMA ReconcilerSceneStep == ReconcilerInScene /\ [Next]_<<scene, slots>> => ReconcilerInScene'
  <1> SUFFICES ASSUME ReconcilerInScene, [Next]_<<scene, slots>>, scene' = "reconciler" PROVE Reconciler!Inv'
    BY DEF ReconcilerInScene
  <1>1. scene = "reconciler" /\ [Reconciler!Next]_Reconciler!vars
    BY DEF Next, slots, Reconciler!vars, Reconciler!rowVars, Reconciler!laneVars, Reconciler!lifeVars
  <1> QED BY <1>1, ReconcilerStep DEF ReconcilerInScene

(* In every behaviour a cycle of the anti-entropy lane that ends by itself  *)
(* has read every row that stayed while it ran, a started reconciler scans  *)
(* again and a stopped one does nothing.                                    *)
THEOREM EverythingScanned == Spec => ScansEverything
  <1>1. Init => ReconcilerInScene
    BY ReconcilerInit DEF Init, ReconcilerInScene
  <1>2. ReconcilerInScene =>
           (scene = "reconciler" => Reconciler!TypeOK /\ Reconciler!KeepsScanning /\ Reconciler!StoppedIsQuiet)
    BY DEF ReconcilerInScene, Reconciler!Inv
  <1>3. ReconcilerInScene /\ [Next]_<<scene, slots>> => [scene = "reconciler" => Reconciler!CycleReaches]_slots
    <2> SUFFICES ASSUME ReconcilerInScene, [Next]_<<scene, slots>>, slots' # slots, scene = "reconciler"
                 PROVE  Reconciler!CycleReaches
      OBVIOUS
    <2>1. [Reconciler!Next]_Reconciler!vars
      BY DEF Next, slots, Reconciler!vars
    <2> QED BY <2>1, ReconcilerCycle DEF ReconcilerInScene
  <1> QED BY <1>1, <1>2, <1>3, ReconcilerSceneStep, PTL DEF Spec, ScansEverything

(* The Host processes, while the scene is theirs.                           *)
HostInScene == scene = "product" => Product!Inv

(* A step of any scene keeps it.                                            *)
LEMMA HostSceneStep == HostInScene /\ [Next]_<<scene, slots>> => HostInScene'
  <1> SUFFICES ASSUME HostInScene, [Next]_<<scene, slots>>, scene' = "product" PROVE Product!Inv'
    BY DEF HostInScene
  <1>1. scene = "product" /\ [Product!Next]_Product!vars
    BY DEF Next, slots, Product!vars, Product!fileVars
  <1> QED BY <1>1, HostStep DEF HostInScene

(* In every behaviour, however many Hosts start, fail, lose their lease and *)
(* close on one installation, nothing of one outlives what it uses, one     *)
(* that runs without its lease has been asked to close, and one that runs   *)
(* with it is found by its descriptor, up to the two windows named.         *)
THEOREM HostWhole == Spec => []HostIsWhole
  <1>1. Init => HostInScene
    BY HostInit DEF Init, HostInScene
  <1>2. HostInScene => HostIsWhole
    BY HostPromise DEF HostInScene, HostIsWhole
  <1> QED BY <1>1, <1>2, HostSceneStep, PTL DEF Spec

(* The activations, while the scene is theirs.                              *)
ScopeInScene == scene = "scope" => Scope!Inv

(* A step of any scene keeps it.                                            *)
LEMMA ScopeSceneStep == ScopeInScene /\ [Next]_<<scene, slots>> => ScopeInScene'
  <1> SUFFICES ASSUME ScopeInScene, [Next]_<<scene, slots>>, scene' = "scope" PROVE Scope!Inv'
    BY DEF ScopeInScene
  <1>1. scene = "scope" /\ [Scope!Next]_Scope!vars
    BY DEF Next, slots, Scope!vars
  <1> QED BY <1>1, ScopeStep DEF ScopeInScene

(* In every behaviour a disposed activation has released its resources and  *)
(* awaited its tasks, and a closed substrate has disposed all of them,      *)
(* however disposals, failures and close() interleave.                      *)
THEOREM ScopeSettled == Spec => []ScopeIsSettled
  <1>1. Init => ScopeInScene
    BY ScopeInit DEF Init, ScopeInScene
  <1>2. ScopeInScene => ScopeIsSettled
    BY ScopePromise DEF ScopeInScene, ScopeIsSettled
  <1> QED BY <1>1, <1>2, ScopeSceneStep, PTL DEF Spec

(* The conversation, while the scene is its own.                            *)
ChatInScene == scene = "chat" => Chat!Inv

(* A step of any scene keeps it.                                            *)
LEMMA ChatSceneStep == ChatInScene /\ [Next]_<<scene, slots>> => ChatInScene'
  <1> SUFFICES ASSUME ChatInScene, [Next]_<<scene, slots>>, scene' = "chat" PROVE Chat!Inv'
    BY DEF ChatInScene
  <1>1. scene = "chat" /\ [Chat!Next]_Chat!vars
    BY DEF Next, slots, Chat!vars
  <1> QED BY <1>1, ChatStep DEF ChatInScene

(* In every behaviour a reader that follows the cursor skips no message,    *)
(* and a sender that retries finds what was accepted, however many writers  *)
(* retry, fail in doubt and race for the row.                               *)
THEOREM ChatComplete == Spec => []ChatIsComplete
  <1>1. Init => ChatInScene
    BY ChatInit DEF Init, ChatInScene
  <1>2. ChatInScene => ChatIsComplete
    BY ChatPromise DEF ChatInScene, ChatIsComplete
  <1> QED BY <1>1, <1>2, ChatSceneStep, PTL DEF Spec

(* The generations and their calls, while the scene is theirs.              *)
CallInScene == scene = "calls" => Generation!Inv

(* A step of any scene keeps it.                                            *)
LEMMA CallSceneStep == CallInScene /\ [Next]_<<scene, slots>> => CallInScene'
  <1> SUFFICES ASSUME CallInScene, [Next]_<<scene, slots>>, scene' = "calls" PROVE Generation!Inv'
    BY DEF CallInScene
  <1>1. scene = "calls" /\ [Generation!Next]_Generation!vars
    BY DEF Next, slots, Generation!vars
  <1> QED BY <1>1, CallStep DEF CallInScene

(* In every behaviour no call runs in a retired generation, and an idle     *)
(* generation that is stopping retires and lets its replacement register.   *)
THEOREM CallsRetired == Spec => []CallsAreRetired
  <1>1. Init => CallInScene
    BY CallInit DEF Init, CallInScene
  <1>2. CallInScene => CallsAreRetired
    BY CallPromise DEF CallInScene, CallsAreRetired
  <1> QED BY <1>1, <1>2, CallSceneStep, PTL DEF Spec

(* The persistence service, while the scene is its own.                     *)
PersistenceInScene == scene = "persistence" => Persistence!Inv

(* A step of any scene keeps it.                                            *)
LEMMA PersistenceSceneStep == PersistenceInScene /\ [Next]_<<scene, slots>> => PersistenceInScene'
  <1> SUFFICES ASSUME PersistenceInScene, [Next]_<<scene, slots>>, scene' = "persistence" PROVE Persistence!Inv'
    BY DEF PersistenceInScene
  <1>1. scene = "persistence" /\ [Persistence!Next]_Persistence!vars
    BY DEF Next, slots, Persistence!vars
  <1> QED BY <1>1, PersistenceStep DEF PersistenceInScene

(* In every behaviour the pool drains when nothing is under way, and an     *)
(* answer tells what the database did.                                      *)
THEOREM CallsSettled == Spec => []CallsAreSettled
  <1>1. Init => PersistenceInScene
    BY PersistenceInit DEF Init, PersistenceInScene
  <1>2. PersistenceInScene => CallsAreSettled
    BY PersistencePromise DEF PersistenceInScene, CallsAreSettled
  <1> QED BY <1>1, <1>2, PersistenceSceneStep, PTL DEF Spec

(* The route of an invocation, while the scene is its own.                  *)
RouteInScene == scene = "route" => Route!Inv

(* A step of any scene keeps it.                                            *)
LEMMA RouteSceneStep == RouteInScene /\ [Next]_<<scene, slots>> => RouteInScene'
  <1> SUFFICES ASSUME RouteInScene, [Next]_<<scene, slots>>, scene' = "route" PROVE Route!Inv'
    BY DEF RouteInScene
  <1>1. scene = "route" /\ [Route!Next]_Route!vars
    BY DEF Next, slots, Route!vars
  <1> QED BY <1>1, RouteNextInv DEF RouteInScene

(* In every behaviour a route that an owner accepts is the current one      *)
(* although it was read piecewise, a change commits over the row it was     *)
(* planned on, and no two transactions wait for each other.                 *)
THEOREM RoutesCurrent == Spec => RoutesAreCurrent
  <1>1. Init => RouteInScene
    BY RouteInitInv DEF Init, RouteInScene
  <1>2. RouteInScene =>
           (scene = "route" => Route!TypeOK /\ Route!AcceptedIsCurrent /\ Route!NoMutualWait)
    BY RouteAcceptedCurrent, RouteNobodyWaits DEF RouteInScene, Route!Inv
  <1>3. RouteInScene /\ [Next]_<<scene, slots>> => [scene = "route" => Route!CommitsAsPlanned]_slots
    <2> SUFFICES ASSUME RouteInScene, [Next]_<<scene, slots>>, slots' # slots, scene = "route"
                 PROVE  Route!CommitsAsPlanned
      OBVIOUS
    <2>1. [Route!Next]_Route!vars
      BY DEF Next, slots, Route!vars
    <2> QED BY <2>1, RouteCommitsOver DEF RouteInScene
  <1> QED BY <1>1, <1>2, <1>3, RouteSceneStep, PTL DEF Spec, RoutesAreCurrent

(* The private server, while the scene is its own.                          *)
PostgresInScene == scene = "postgres" => Postgres!Inv

(* A step of any scene keeps it.                                            *)
LEMMA PostgresSceneStep == PostgresInScene /\ [Next]_<<scene, slots>> => PostgresInScene'
  <1> SUFFICES ASSUME PostgresInScene, [Next]_<<scene, slots>>, scene' = "postgres" PROVE Postgres!Inv'
    BY DEF PostgresInScene
  <1>1. scene = "postgres" /\ [Postgres!Next]_Postgres!vars
    BY DEF Next, slots, Postgres!vars, Postgres!outside
  <1> QED BY <1>1, PostgresNextInv DEF PostgresInScene

(* In every behaviour, for any number of owners and faults, a quiescent     *)
(* session leaves no server and no start of its owner behind, a server runs *)
(* the cluster that BootstrapState names and never a part of one, and the   *)
(* bootstrap stops no server that a Host serves from.                       *)
THEOREM ServerOwned == Spec => []ServerIsOwned
  <1>1. Init => PostgresInScene
    BY PostgresInitInv DEF Init, PostgresInScene
  <1>2. PostgresInScene => ServerIsOwned
    BY PostgresInvSays DEF PostgresInScene, ServerIsOwned
  <1> QED BY <1>1, <1>2, PostgresSceneStep, PTL DEF Spec

(* The signal listener, while the scene is its own.                         *)
SignalInScene == scene = "signal" => Signal!Inv

(* A step of any scene keeps it.                                            *)
LEMMA SignalSceneStep == SignalInScene /\ [Next]_<<scene, slots>> => SignalInScene'
  <1> SUFFICES ASSUME SignalInScene, [Next]_<<scene, slots>>, scene' = "signal" PROVE Signal!Inv'
    BY DEF SignalInScene
  <1>1. scene = "signal" /\ [Signal!Next]_Signal!vars
    BY DEF Next, slots, Signal!vars
  <1> QED BY <1>1, SignalNextInv DEF SignalInScene

(* In every behaviour a listener that somebody subscribed to is connected,  *)
(* connecting or about to, and no subscriber was left without a scan, up to *)
(* the two lapses that are named, for any subscribers, attempts and faults. *)
THEOREM ListenedOn == Spec => []ListensOn
  <1>1. Init => SignalInScene
    BY SignalInitInv DEF Init, SignalInScene
  <1>2. SignalInScene => ListensOn
    BY SignalInvSays DEF SignalInScene, ListensOn
  <1> QED BY <1>1, <1>2, SignalSceneStep, PTL DEF Spec

(* The durable runtime, while the scene is its own.                         *)
DurableInScene == scene = "durable" => Durable!Inv

(* A step of any scene keeps it.                                            *)
LEMMA DurableSceneStep == DurableInScene /\ [Next]_<<scene, slots>> => DurableInScene'
  <1> SUFFICES ASSUME DurableInScene, [Next]_<<scene, slots>>, scene' = "durable" PROVE Durable!Inv'
    BY DEF DurableInScene
  <1>1. scene = "durable" /\ [Durable!Next]_Durable!vars
    BY DEF Next, slots, Durable!vars, Durable!lifeVars, Durable!resourceVars, Durable!attemptVars, Durable!queueVars
  <1> QED BY <1>1, DurableNextInv DEF DurableInScene

(* In every behaviour a runtime opens on the queue profile it projects and  *)
(* under authority, its pool ends when nothing runs on it, and a closed one *)
(* has left no engine, pool, binding or attempt, whatever fails and whoever *)
(* of the two releases it.                                                  *)
THEOREM RuntimeReleased == Spec => RuntimeIsReleased
  <1>1. Init => DurableInScene
    BY DurableInitInv DEF Init, DurableInScene
  <1>2. DurableInScene =>
           (scene = "durable" => Durable!TypeOK /\ Durable!DrainedBeforeEnd /\ Durable!ClosedIsReleased)
    BY DurableInvSays DEF DurableInScene
  <1>3. DurableInScene /\ [Next]_<<scene, slots>> => [scene = "durable" => Durable!OpensAsProjected]_slots
    <2> SUFFICES ASSUME DurableInScene, [Next]_<<scene, slots>>, slots' # slots, scene = "durable"
                 PROVE  Durable!OpensAsProjected
      OBVIOUS
    <2>1. [Durable!Next]_Durable!vars
      BY DEF Next, slots, Durable!vars, Durable!lifeVars, Durable!resourceVars, Durable!attemptVars, Durable!queueVars
    <2> QED BY <2>1, DurableOpensThen DEF DurableInScene
  <1> QED BY <1>1, <1>2, <1>3, DurableSceneStep, PTL DEF Spec, RuntimeIsReleased

(* The cognition Gateway, while the scene is its own.                       *)
GatewayInScene == scene = "gateway" => Gateway!Inv

(* A step of any scene keeps it.                                            *)
LEMMA GatewaySceneStep == GatewayInScene /\ [Next]_<<scene, slots>> => GatewayInScene'
  <1> SUFFICES ASSUME GatewayInScene, [Next]_<<scene, slots>>, scene' = "gateway" PROVE Gateway!Inv'
    BY DEF GatewayInScene
  <1>1. scene = "gateway" /\ [Gateway!Next]_Gateway!vars
    BY DEF Next, slots, Gateway!vars, Gateway!process, Gateway!files
  <1> QED BY <1>1, GatewayNextInv DEF GatewayInScene

(* In every behaviour at most one Gateway process lives but for one that    *)
(* outlived force, and none when stop() has returned; a Reaction runs on the *)
(* projection it read, no run waits for a process that is known to be gone, *)
(* and the descriptor names the live Gateway once its tasks are done, for   *)
(* any callers, projections, generations, changes and faults.               *)
THEOREM GatewayKept == Spec => []GatewayIsOne
  <1>1. Init => GatewayInScene
    BY GatewayInitInv DEF Init, GatewayInScene
  <1>2. GatewayInScene => GatewayIsOne
    BY GatewayInvSays DEF GatewayInScene, GatewayIsOne
  <1> QED BY <1>1, <1>2, GatewaySceneStep, PTL DEF Spec
==============================================================================
