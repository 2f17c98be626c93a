--------------------- MODULE InstallationScenes_proofs ----------------------
(***************************************************************************)
(* Proofs, for any number of processes, callers, boots, operations, owners *)
(* and faults, that each component of InstallationScenes, but the secret   *)
(* material (Components_proofs), keeps its inductive invariant, which      *)
(* stands beside its properties, and that the properties follow from it.   *)
(***************************************************************************)
EXTENDS InstallationScenes, Sequences, WellFoundedInduction, FiniteSetTheorems, TLAPS

------------------------------------------------------------------------------
(* BootstrapOwnership: v1 lock, v2 stale, v3 owner, v4 attempts, v5         *)
(* releasing, v6 alive, v7 reused, v8 stalled, v9 pc, v10 how, v11 lease,   *)
(* v12 seen, v13 incomplete, v14 faults.                                    *)

(* What a lease, a lock call and an inspection can be.                      *)
OwnershipStates == {"none", "HELD", "RELEASING", "COMPROMISED", "RELEASED"}
OwnershipModes == [reclaims : BOOLEAN, rechecks : BOOLEAN]
OwnershipSights == [lock : LeaseHolders \cup {None}, stale : BOOLEAN, owner : LeaseHolders \cup {None},
                    attempts : SUBSET LeaseHolders, releasing : SUBSET LeaseHolders]

(* The types one by one.                                                    *)
OwnershipTyped ==
    /\ v1 \in LeaseHolders \cup {None} /\ v3 \in LeaseHolders \cup {None}
    /\ v2 \in BOOLEAN /\ v13 \in BOOLEAN
    /\ v4 \subseteq LeaseHolders /\ v5 \subseteq LeaseHolders
    /\ v6 \subseteq LeaseHolders /\ v7 \subseteq LeaseHolders /\ v8 \subseteq LeaseHolders
    /\ v9 \in [LeaseHolders -> Ownership!Places] /\ v11 \in [LeaseHolders -> OwnershipStates]
    /\ v10 \in [LeaseHolders -> OwnershipModes] /\ v12 \in [LeaseHolders -> OwnershipSights]
    /\ v14 \in 0 .. LeaseFaults

(* They are those of the module.                                            *)
LEMMA OwnershipTypesAre == Ownership!TypeOK <=> OwnershipTyped
  <1>1. {v1, v3} \subseteq LeaseHolders \cup {None} <=> v1 \in LeaseHolders \cup {None} /\
          v3 \in LeaseHolders \cup {None}
    BY Zenon
  <1>2. {v2, v13} \subseteq BOOLEAN <=> v2 \in BOOLEAN /\ v13 \in BOOLEAN
    BY Zenon
  <1>3. v4 \cup v5 \cup v6 \cup v7 \cup v8 \subseteq LeaseHolders <=>
           /\ v4 \subseteq LeaseHolders /\ v5 \subseteq LeaseHolders
           /\ v6 \subseteq LeaseHolders /\ v7 \subseteq LeaseHolders /\ v8 \subseteq LeaseHolders
    BY Zenon
  <1> QED BY <1>1, <1>2, <1>3, Zenon DEF Ownership!TypeOK, OwnershipTyped, OwnershipStates,
             OwnershipModes, OwnershipSights

(* The invariant in those terms, before and after a step.                   *)
LEMMA OwnershipInvIs ==
    Ownership!Inv <=>
            /\ OwnershipTyped
            /\ \A p \in LeaseHolders : Ownership!HolderOK(p) /\ Ownership!WitnessOK(p) /\ Ownership!StaleOK(p)
            /\ \A p, q \in LeaseHolders : Ownership!SeenOK(p, q)
  BY OwnershipTypesAre, Zenon DEF Ownership!Inv

(* The same of the state after a step.                                      *)
LEMMA OwnershipInvIsAfter ==
    /\ OwnershipTyped'
    /\ (\A p \in LeaseHolders : Ownership!HolderOK(p) /\ Ownership!WitnessOK(p) /\ Ownership!StaleOK(p))'
    /\ (\A p, q \in LeaseHolders : Ownership!SeenOK(p, q))'
    => Ownership!Inv'
  BY OwnershipInvIs, PTL

(* What a step of one process leaves of the others.                         *)
OwnershipFrame(r) ==
    /\ \A d \in LeaseHolders \ {r} :
          /\ v9'[d] = v9[d] /\ v11'[d] = v11[d] /\ v12'[d] = v12[d] /\ v10'[d] = v10[d]
          /\ (d \in v6' <=> d \in v6) /\ (d \in v8' <=> d \in v8) /\ (d \in v7' <=> d \in v7)
          /\ (d \in v4' <=> d \in v4)
          /\ v1 = d => (d \in v5' <=> d \in v5)
    /\ \/ v1' = v1
       \/ v1 = r /\ v1' = None
       \/ /\ v1' = r
          /\ \A d \in LeaseHolders \ {r} : d \in v6 /\ Ownership!Locking(d) => v11[d] = "COMPROMISED" /\
               v9[d] \in Ownership!Late
    /\ v2' => v2
    /\ v3' = v3 \/ v1 = r \/ (v3 = r /\ v3' = None)

(* What of it concerns one of the others.                                   *)
LEMMA OwnershipAnother ==
    ASSUME Ownership!Inv, NEW r \in LeaseHolders, OwnershipFrame(r), NEW d \in LeaseHolders, d # r
    PROVE  /\ v9'[d] = v9[d] /\ v11'[d] = v11[d] /\ v12'[d] = v12[d] /\ v10'[d] = v10[d]
           /\ (d \in v6' <=> d \in v6) /\ (d \in v8' <=> d \in v8) /\ (d \in v7' <=> d \in v7)
           /\ (d \in v4' <=> d \in v4)
           /\ v1 = d => (d \in v5' <=> d \in v5)
           /\ v1' = d => v1 = d
           /\ v1 = d => v1' = d \/
             (d \in v6 /\ Ownership!Locking(d) => v11[d] = "COMPROMISED" /\ v9[d] \in Ownership!Late)
           /\ v2' => v2
           /\ v1 = d => v3' = v3 \/ (v3 = r /\ v3' = None)
  <1>1. /\ v9'[d] = v9[d] /\ v11'[d] = v11[d] /\ v12'[d] = v12[d] /\ v10'[d] = v10[d]
        /\ (d \in v6' <=> d \in v6) /\ (d \in v8' <=> d \in v8) /\ (d \in v7' <=> d \in v7)
        /\ (d \in v4' <=> d \in v4)
        /\ v1 = d => (d \in v5' <=> d \in v5)
    BY DEF OwnershipFrame
  <1>2. v1' = v1 \/ (v1 = r /\ v1' = None)
        \/ (v1' = r /\ (d \in v6 /\ Ownership!Locking(d) => v11[d] = "COMPROMISED" /\ v9[d] \in Ownership!Late))
    BY Zenon DEF OwnershipFrame
  <1>3. None # d
    BY OwnershipAssumption
  <1>4. (v2' => v2) /\ (v3' = v3 \/ v1 = r \/ (v3 = r /\ v3' = None))
    BY DEF OwnershipFrame
  <1> QED BY <1>1, <1>2, <1>3, <1>4

(* The invariant of the others then stays true.                             *)
LEMMA OwnershipOthers ==
    ASSUME Ownership!Inv, NEW r \in LeaseHolders, OwnershipFrame(r), NEW d \in LeaseHolders, d # r
    PROVE  Ownership!HolderOK(d)' /\ Ownership!WitnessOK(d)' /\ Ownership!StaleOK(d)' /\
             \A e \in LeaseHolders \ {r} : Ownership!SeenOK(d, e)'
  <1>0. OwnershipTyped /\ Ownership!HolderOK(d) /\ Ownership!WitnessOK(d) /\ Ownership!StaleOK(d) /\
          \A e \in LeaseHolders : Ownership!SeenOK(d, e)
    BY OwnershipInvIs
  <1>1. /\ v9'[d] = v9[d] /\ v11'[d] = v11[d] /\ v12'[d] = v12[d] /\ v10'[d] = v10[d]
        /\ (d \in v6' <=> d \in v6) /\ (d \in v8' <=> d \in v8) /\ (d \in v7' <=> d \in v7)
        /\ (d \in v4' <=> d \in v4)
        /\ v1 = d => (d \in v5' <=> d \in v5)
        /\ v1' = d => v1 = d
        /\ v1 = d => v1' = d \/
          (d \in v6 /\ Ownership!Locking(d) => v11[d] = "COMPROMISED" /\ v9[d] \in Ownership!Late)
        /\ v2' => v2
        /\ v1 = d => v3' = v3 \/ (v3 = r /\ v3' = None)
    BY OwnershipAnother
  <1>2. (Ownership!Locking(d)' <=> Ownership!Locking(d)) /\ (Ownership!Beats(d)' <=> Ownership!Beats(d))
    BY <1>1 DEF Ownership!Locking, Ownership!Beats
  <1>3. Ownership!HolderOK(d)' /\ Ownership!StaleOK(d)'
    BY <1>0, <1>1, <1>2, OwnershipAssumption DEF Ownership!HolderOK, Ownership!StaleOK
  <1>4. Ownership!WitnessOK(d)'
    BY <1>0, <1>1, OwnershipAssumption DEF Ownership!WitnessOK, Ownership!Early, Ownership!Late
  <1>5. ASSUME NEW e \in LeaseHolders \ {r} PROVE Ownership!SeenOK(d, e)'
    <2>1. v9'[e] = v9[e] /\ v12'[e] = v12[e] /\ v10'[e] = v10[e] /\ (e \in v6' <=> e \in v6)
      BY DEF OwnershipFrame
    <2>2. e \in Ownership!Recovering' => e \in Ownership!Recovering
      BY <2>1 DEF Ownership!Recovering
    <2>3. d \in v6 /\ v1 = d /\ v9[d] \in Ownership!Late => v3' = v3
      BY <1>0, <1>1, OwnershipAssumption DEF Ownership!WitnessOK, Ownership!Late
    <2> QED BY <1>0, <1>1, <1>2, <2>1, <2>2, <2>3 DEF Ownership!SeenOK
  <1> QED BY <1>3, <1>4, <1>5

(* What the others see of a process whose step leaves its heartbeat alone,  *)
(* or that is no holder after it.                                           *)
OwnershipSteady(r) ==
    r \in v6' /\ Ownership!Locking(r)' /\ v1' = r /\ ~Ownership!Beats(r)' =>
        r \in v6 /\ Ownership!Locking(r) /\ v1 = r /\ ~Ownership!Beats(r) /\ r \notin v8' /\
          (r \in v4' => r \in v4)

(* Such a step leaves every recovery with what it has to know.              *)
LEMMA OwnershipSeenOfMine ==
    ASSUME Ownership!Inv, NEW r \in LeaseHolders, OwnershipFrame(r), OwnershipSteady(r),
           NEW e \in LeaseHolders \ {r}
    PROVE  Ownership!SeenOK(r, e)'
  <1>1. Ownership!SeenOK(r, e)
    BY OwnershipInvIs
  <1>2. v9'[e] = v9[e] /\ v12'[e] = v12[e] /\ v10'[e] = v10[e] /\ (e \in v6' <=> e \in v6)
    BY DEF OwnershipFrame
  <1>3. e \in Ownership!Recovering' => e \in Ownership!Recovering
    BY <1>2 DEF Ownership!Recovering
  <1> QED BY <1>1, <1>2, <1>3 DEF Ownership!SeenOK, OwnershipSteady

(* What a process has seen is as good as it was while it reads nothing, or  *)
(* matters no longer.                                                       *)
OwnershipIdle(r) ==
    \/ ~(r \in v6' /\ v9'[r] \in {"i3", "i4", "i5", "eligible", "attempted"})
    \/ v9'[r] = "attempted" /\ ~v10'[r].reclaims
    \/ /\ r \in v6' => r \in v6
       /\ v9'[r] = v9[r] \/ (v9[r] = "eligible" /\ v9'[r] = "attempted")
       /\ v12'[r] = v12[r] /\ v10'[r] = v10[r]

LEMMA OwnershipSeenByMe ==
    ASSUME Ownership!Inv, NEW r \in LeaseHolders, OwnershipFrame(r), OwnershipIdle(r),
           NEW d \in LeaseHolders \ {r}
    PROVE  Ownership!SeenOK(d, r)'
  <1>0. Ownership!WitnessOK(d) /\ Ownership!SeenOK(d, r)
    BY OwnershipInvIs
  <1>1. /\ v9'[d] = v9[d] /\ v11'[d] = v11[d] /\ v12'[d] = v12[d] /\ v10'[d] = v10[d]
        /\ (d \in v6' <=> d \in v6) /\ (d \in v8' <=> d \in v8) /\ (d \in v7' <=> d \in v7)
        /\ (d \in v4' <=> d \in v4)
        /\ v1 = d => (d \in v5' <=> d \in v5)
        /\ v1' = d => v1 = d
        /\ v1 = d => v3' = v3 \/ (v3 = r /\ v3' = None)
    BY OwnershipAnother
  <1>2. (Ownership!Locking(d)' <=> Ownership!Locking(d)) /\ (Ownership!Beats(d)' <=> Ownership!Beats(d))
    BY <1>1 DEF Ownership!Locking, Ownership!Beats
  <1>3. d \in v6 /\ v1 = d /\ v9[d] \in Ownership!Late => v3' = v3
    BY <1>0, <1>1, OwnershipAssumption DEF Ownership!WitnessOK, Ownership!Late
  <1>4. CASE ~(r \in Ownership!Recovering' /\ v9'[r] # "i2")
    BY <1>4 DEF Ownership!SeenOK
  <1>5. CASE /\ r \in v6' => r \in v6
             /\ v9'[r] = v9[r] \/ (v9[r] = "eligible" /\ v9'[r] = "attempted")
             /\ v12'[r] = v12[r] /\ v10'[r] = v10[r]
    <2>1. r \in Ownership!Recovering' => r \in Ownership!Recovering
      BY <1>5 DEF Ownership!Recovering
    <2> QED BY <1>0, <1>1, <1>2, <1>3, <1>5, <2>1 DEF Ownership!SeenOK
  <1> QED BY <1>4, <1>5 DEF OwnershipIdle, Ownership!Recovering

(* All that a step of one process has to be shown to do.                    *)
OwnershipFits(r) ==
    /\ OwnershipTyped' /\ OwnershipFrame(r)
    /\ Ownership!HolderOK(r)' /\ Ownership!WitnessOK(r)' /\ Ownership!StaleOK(r)'
    /\ OwnershipSteady(r) \/ \A e \in LeaseHolders \ {r} : Ownership!SeenOK(r, e)'
    /\ OwnershipIdle(r) \/ \A d \in LeaseHolders \ {r} : Ownership!SeenOK(d, r)'

(* It then keeps the invariant.                                             *)
LEMMA OwnershipFitting ==
    ASSUME Ownership!Inv, NEW r \in LeaseHolders, OwnershipFits(r)
    PROVE  Ownership!Inv'
  <1>1. (\A p \in LeaseHolders : Ownership!HolderOK(p) /\ Ownership!WitnessOK(p) /\ Ownership!StaleOK(p))'
    <2> SUFFICES ASSUME NEW p \in LeaseHolders
                 PROVE  (Ownership!HolderOK(p) /\ Ownership!WitnessOK(p) /\ Ownership!StaleOK(p))'
      OBVIOUS
    <2> QED BY OwnershipOthers DEF OwnershipFits
  <1>2. Ownership!SeenOK(r, r)'
    BY DEF Ownership!SeenOK, Ownership!Locking, Ownership!Recovering
  <1>3. (\A p, q \in LeaseHolders : Ownership!SeenOK(p, q))'
    <2> SUFFICES ASSUME NEW p \in LeaseHolders, NEW q \in LeaseHolders PROVE Ownership!SeenOK(p, q)'
      OBVIOUS
    <2>1. CASE p # r /\ q # r
      BY <2>1, OwnershipOthers DEF OwnershipFits
    <2>2. CASE p = r /\ q # r
      BY <2>2, OwnershipSeenOfMine DEF OwnershipFits
    <2>3. CASE p # r /\ q = r
      BY <2>3, OwnershipSeenByMe DEF OwnershipFits
    <2> QED BY <1>2, <2>1, <2>2, <2>3
  <1> QED BY <1>1, <1>3, OwnershipInvIsAfter DEF OwnershipFits

(* CreateAttempt: the witness is there before the lock is asked for.        *)
LEMMA OwnershipCreateAttemptKeeps ==
    ASSUME Ownership!Inv, NEW r \in LeaseHolders, NEW from \in {"idle", "eligible"},
           Ownership!CreateAttempt(r, from)
    PROVE  Ownership!Inv' /\ OwnershipFrame(r)
  <1> USE DEF Ownership!CreateAttempt, Ownership!Moves, Ownership!createAttempt, Ownership!Fine,
          Ownership!Fault, Ownership!Sees, Ownership!disk, Ownership!os
  <1>0. OwnershipTyped /\ Ownership!HolderOK(r) /\ Ownership!WitnessOK(r) /\ Ownership!StaleOK(r)
    BY OwnershipInvIs
  <1>1. OwnershipTyped'
    BY <1>0, OwnershipAssumption DEF OwnershipTyped, Ownership!Places, OwnershipStates
  <1>2. OwnershipFrame(r)
    BY <1>0 DEF OwnershipTyped, OwnershipFrame, Ownership!HolderOK, Ownership!Locking, Ownership!Late
  <1>3. Ownership!HolderOK(r)' /\ Ownership!WitnessOK(r)' /\ Ownership!StaleOK(r)'
    BY <1>0 DEF OwnershipTyped, Ownership!HolderOK, Ownership!WitnessOK, Ownership!StaleOK,
       Ownership!Locking, Ownership!Early, Ownership!Late
  <1>4. OwnershipSteady(r) /\ OwnershipIdle(r)
    BY <1>0 DEF OwnershipTyped, OwnershipSteady, OwnershipIdle, Ownership!HolderOK, Ownership!Locking,
       Ownership!Beats
  <1> QED BY <1>1, <1>2, <1>3, <1>4, OwnershipFitting DEF OwnershipFits

(* LockRefused: nothing but the position changes.                           *)
LEMMA OwnershipLockRefusedKeeps ==
    ASSUME Ownership!Inv, NEW r \in LeaseHolders, Ownership!LockRefused(r)
    PROVE  Ownership!Inv' /\ OwnershipFrame(r)
  <1> USE DEF Ownership!LockRefused, Ownership!Moves, Ownership!Fine, Ownership!Fault, Ownership!Sees,
          Ownership!disk, Ownership!os
  <1>0. OwnershipTyped /\ Ownership!HolderOK(r) /\ Ownership!WitnessOK(r) /\ Ownership!StaleOK(r)
    BY OwnershipInvIs
  <1>1. OwnershipTyped'
    BY <1>0, OwnershipAssumption DEF OwnershipTyped, Ownership!Places, OwnershipStates
  <1>2. OwnershipFrame(r)
    BY <1>0 DEF OwnershipTyped, OwnershipFrame, Ownership!HolderOK, Ownership!Locking, Ownership!Late
  <1>3. Ownership!HolderOK(r)' /\ Ownership!WitnessOK(r)' /\ Ownership!StaleOK(r)'
    BY <1>0 DEF OwnershipTyped, Ownership!HolderOK, Ownership!WitnessOK, Ownership!StaleOK,
       Ownership!Locking, Ownership!Early, Ownership!Late
  <1>4. OwnershipSteady(r) /\ OwnershipIdle(r)
    BY <1>0 DEF OwnershipTyped, OwnershipSteady, OwnershipIdle, Ownership!HolderOK, Ownership!Locking,
       Ownership!Beats
  <1> QED BY <1>1, <1>2, <1>3, <1>4, OwnershipFitting DEF OwnershipFits

(* WithdrawAttempt: a process that was refused takes its witness back.      *)
LEMMA OwnershipWithdrawAttemptKeeps ==
    ASSUME Ownership!Inv, NEW r \in LeaseHolders, Ownership!WithdrawAttempt(r)
    PROVE  Ownership!Inv' /\ OwnershipFrame(r)
  <1> USE DEF Ownership!WithdrawAttempt, Ownership!Moves, Ownership!removeAttempt, Ownership!Fine,
          Ownership!Fault, Ownership!Sees, Ownership!disk, Ownership!os
  <1>0. OwnershipTyped /\ Ownership!HolderOK(r) /\ Ownership!WitnessOK(r) /\ Ownership!StaleOK(r)
    BY OwnershipInvIs
  <1>1. OwnershipTyped'
    BY <1>0, OwnershipAssumption DEF OwnershipTyped, Ownership!Places, OwnershipStates
  <1>2. OwnershipFrame(r)
    BY <1>0 DEF OwnershipTyped, OwnershipFrame, Ownership!HolderOK, Ownership!Locking, Ownership!Late
  <1>3. Ownership!HolderOK(r)' /\ Ownership!WitnessOK(r)' /\ Ownership!StaleOK(r)'
    BY <1>0 DEF OwnershipTyped, Ownership!HolderOK, Ownership!WitnessOK, Ownership!StaleOK,
       Ownership!Locking, Ownership!Early, Ownership!Late
  <1>4. OwnershipSteady(r) /\ OwnershipIdle(r)
    BY <1>0 DEF OwnershipTyped, OwnershipSteady, OwnershipIdle, Ownership!HolderOK, Ownership!Locking,
       Ownership!Beats
  <1> QED BY <1>1, <1>2, <1>3, <1>4, OwnershipFitting DEF OwnershipFits

(* SweepReleasing: only who has the lock sweeps.                            *)
LEMMA OwnershipSweepReleasingKeeps ==
    ASSUME Ownership!Inv, NEW r \in LeaseHolders, Ownership!SweepReleasing(r)
    PROVE  Ownership!Inv' /\ OwnershipFrame(r)
  <1> USE DEF Ownership!SweepReleasing, Ownership!Moves, Ownership!removeReleasing, Ownership!Fine,
          Ownership!Fault, Ownership!Sees, Ownership!disk, Ownership!os
  <1>0. OwnershipTyped /\ Ownership!HolderOK(r) /\ Ownership!WitnessOK(r) /\ Ownership!StaleOK(r)
    BY OwnershipInvIs
  <1>1. OwnershipTyped'
    BY <1>0, OwnershipAssumption DEF OwnershipTyped, Ownership!Places, OwnershipStates
  <1>2. OwnershipFrame(r)
    BY <1>0 DEF OwnershipTyped, OwnershipFrame, Ownership!HolderOK, Ownership!Locking, Ownership!Late
  <1>3. Ownership!HolderOK(r)' /\ Ownership!WitnessOK(r)' /\ Ownership!StaleOK(r)'
    BY <1>0 DEF OwnershipTyped, Ownership!HolderOK, Ownership!WitnessOK, Ownership!StaleOK,
       Ownership!Locking, Ownership!Early, Ownership!Late
  <1>4. OwnershipSteady(r) /\ OwnershipIdle(r)
    BY <1>0 DEF OwnershipTyped, OwnershipSteady, OwnershipIdle, Ownership!HolderOK, Ownership!Locking,
       Ownership!Beats
  <1> QED BY <1>1, <1>2, <1>3, <1>4, OwnershipFitting DEF OwnershipFits

(* PublishOwner: only who has the lock overwrites the witness of its owner. *)
LEMMA OwnershipPublishOwnerKeeps ==
    ASSUME Ownership!Inv, NEW r \in LeaseHolders, Ownership!PublishOwner(r)
    PROVE  Ownership!Inv' /\ OwnershipFrame(r)
  <1> USE DEF Ownership!PublishOwner, Ownership!Moves, Ownership!publishOwner, Ownership!Fine,
          Ownership!Fault, Ownership!Sees, Ownership!disk, Ownership!os
  <1>0. OwnershipTyped /\ Ownership!HolderOK(r) /\ Ownership!WitnessOK(r) /\ Ownership!StaleOK(r)
    BY OwnershipInvIs
  <1>1. OwnershipTyped'
    BY <1>0, OwnershipAssumption DEF OwnershipTyped, Ownership!Places, OwnershipStates
  <1>2. OwnershipFrame(r)
    BY <1>0 DEF OwnershipTyped, OwnershipFrame, Ownership!HolderOK, Ownership!Locking, Ownership!Late
  <1>3. Ownership!HolderOK(r)' /\ Ownership!WitnessOK(r)' /\ Ownership!StaleOK(r)'
    BY <1>0 DEF OwnershipTyped, Ownership!HolderOK, Ownership!WitnessOK, Ownership!StaleOK,
       Ownership!Locking, Ownership!Early, Ownership!Late
  <1>4. OwnershipSteady(r) /\ OwnershipIdle(r)
    BY <1>0 DEF OwnershipTyped, OwnershipSteady, OwnershipIdle, Ownership!HolderOK, Ownership!Locking,
       Ownership!Beats
  <1> QED BY <1>1, <1>2, <1>3, <1>4, OwnershipFitting DEF OwnershipFits

(* Acquired: the attempt is withdrawn once the owner is published.          *)
LEMMA OwnershipAcquiredKeeps ==
    ASSUME Ownership!Inv, NEW r \in LeaseHolders, Ownership!Acquired(r)
    PROVE  Ownership!Inv' /\ OwnershipFrame(r)
  <1> USE DEF Ownership!Moves, Ownership!removeAttempt, Ownership!Fine, Ownership!Fault, Ownership!Sees,
          Ownership!disk, Ownership!os
  <1>0. OwnershipTyped /\ Ownership!HolderOK(r) /\ Ownership!WitnessOK(r) /\ Ownership!StaleOK(r)
    BY OwnershipInvIs
  <1>1. PICK to \in {"recheck", "held"} :
            /\ Ownership!Moves(r, "owner", to) /\ Ownership!removeAttempt(r) /\ Ownership!Fine
            /\ UNCHANGED <<v1, v2, v3, v5, Ownership!os, v10, v11, v12, v13>>
    BY Zenon DEF Ownership!Acquired
  <1>2. OwnershipTyped'
    BY <1>0, <1>1, OwnershipAssumption DEF OwnershipTyped, Ownership!Places, OwnershipStates
  <1>3. OwnershipFrame(r)
    BY <1>0, <1>1 DEF OwnershipTyped, OwnershipFrame, Ownership!HolderOK, Ownership!Locking, Ownership!Late
  <1>4. Ownership!HolderOK(r)' /\ Ownership!WitnessOK(r)' /\ Ownership!StaleOK(r)'
    BY <1>0, <1>1 DEF OwnershipTyped, Ownership!HolderOK, Ownership!WitnessOK, Ownership!StaleOK,
       Ownership!Locking, Ownership!Early, Ownership!Late
  <1>5. OwnershipSteady(r) /\ OwnershipIdle(r)
    BY <1>0, <1>1 DEF OwnershipTyped, OwnershipSteady, OwnershipIdle, Ownership!HolderOK,
       Ownership!Locking, Ownership!Beats
  <1> QED BY <1>2, <1>3, <1>4, <1>5, OwnershipFitting DEF OwnershipFits

(* AcquireFails: the undoing begins with every witness in place.            *)
LEMMA OwnershipAcquireFailsKeeps ==
    ASSUME Ownership!Inv, NEW r \in LeaseHolders, NEW from \in {"locked", "swept", "owner"},
           Ownership!AcquireFails(r, from)
    PROVE  Ownership!Inv' /\ OwnershipFrame(r)
  <1> USE DEF Ownership!AcquireFails, Ownership!Moves, Ownership!Fine, Ownership!Fault, Ownership!Sees,
          Ownership!disk, Ownership!os
  <1>0. OwnershipTyped /\ Ownership!HolderOK(r) /\ Ownership!WitnessOK(r) /\ Ownership!StaleOK(r)
    BY OwnershipInvIs
  <1>1. OwnershipTyped'
    BY <1>0, OwnershipAssumption DEF OwnershipTyped, Ownership!Places, OwnershipStates
  <1>2. OwnershipFrame(r)
    BY <1>0 DEF OwnershipTyped, OwnershipFrame, Ownership!HolderOK, Ownership!Locking, Ownership!Late
  <1>3. Ownership!HolderOK(r)' /\ Ownership!WitnessOK(r)' /\ Ownership!StaleOK(r)'
    BY <1>0 DEF OwnershipTyped, Ownership!HolderOK, Ownership!WitnessOK, Ownership!StaleOK,
       Ownership!Locking, Ownership!Early, Ownership!Late
  <1>4. OwnershipSteady(r) /\ OwnershipIdle(r)
    BY <1>0 DEF OwnershipTyped, OwnershipSteady, OwnershipIdle, Ownership!HolderOK, Ownership!Locking,
       Ownership!Beats
  <1> QED BY <1>1, <1>2, <1>3, <1>4, OwnershipFitting DEF OwnershipFits

(* UndoPublish.                                                             *)
LEMMA OwnershipUndoPublishKeeps ==
    ASSUME Ownership!Inv, NEW r \in LeaseHolders, Ownership!UndoPublish(r)
    PROVE  Ownership!Inv' /\ OwnershipFrame(r)
  <1> USE DEF Ownership!UndoPublish, Ownership!Moves, Ownership!publishReleasing, Ownership!Fine,
          Ownership!Fault, Ownership!Sees, Ownership!disk, Ownership!os
  <1>0. OwnershipTyped /\ Ownership!HolderOK(r) /\ Ownership!WitnessOK(r) /\ Ownership!StaleOK(r)
    BY OwnershipInvIs
  <1>1. OwnershipTyped'
    BY <1>0, OwnershipAssumption DEF OwnershipTyped, Ownership!Places, OwnershipStates
  <1>2. OwnershipFrame(r)
    BY <1>0 DEF OwnershipTyped, OwnershipFrame, Ownership!HolderOK, Ownership!Locking, Ownership!Late
  <1>3. Ownership!HolderOK(r)' /\ Ownership!WitnessOK(r)' /\ Ownership!StaleOK(r)'
    BY <1>0 DEF OwnershipTyped, Ownership!HolderOK, Ownership!WitnessOK, Ownership!StaleOK,
       Ownership!Locking, Ownership!Early, Ownership!Late
  <1>4. OwnershipSteady(r) /\ OwnershipIdle(r)
    BY <1>0 DEF OwnershipTyped, OwnershipSteady, OwnershipIdle, Ownership!HolderOK, Ownership!Locking,
       Ownership!Beats
  <1> QED BY <1>1, <1>2, <1>3, <1>4, OwnershipFitting DEF OwnershipFits

(* UndoOwner: the attempt still names who undoes.                           *)
LEMMA OwnershipUndoOwnerKeeps ==
    ASSUME Ownership!Inv, NEW r \in LeaseHolders, Ownership!UndoOwner(r)
    PROVE  Ownership!Inv' /\ OwnershipFrame(r)
  <1> USE DEF Ownership!UndoOwner, Ownership!Moves, Ownership!removeCurrentOwnerWhileHeld, Ownership!Fine,
          Ownership!Fault, Ownership!Sees, Ownership!disk, Ownership!os
  <1>0. OwnershipTyped /\ Ownership!HolderOK(r) /\ Ownership!WitnessOK(r) /\ Ownership!StaleOK(r)
    BY OwnershipInvIs
  <1>1. OwnershipTyped'
    BY <1>0, OwnershipAssumption DEF OwnershipTyped, Ownership!Places, OwnershipStates
  <1>2. OwnershipFrame(r)
    BY <1>0 DEF OwnershipTyped, OwnershipFrame, Ownership!HolderOK, Ownership!Locking, Ownership!Late
  <1>3. Ownership!HolderOK(r)' /\ Ownership!WitnessOK(r)' /\ Ownership!StaleOK(r)'
    BY <1>0 DEF OwnershipTyped, Ownership!HolderOK, Ownership!WitnessOK, Ownership!StaleOK,
       Ownership!Locking, Ownership!Early, Ownership!Late
  <1>4. OwnershipSteady(r) /\ OwnershipIdle(r)
    BY <1>0 DEF OwnershipTyped, OwnershipSteady, OwnershipIdle, Ownership!HolderOK, Ownership!Locking,
       Ownership!Beats
  <1> QED BY <1>1, <1>2, <1>3, <1>4, OwnershipFitting DEF OwnershipFits

(* UndoLock: the lock goes, or stays with a process that is past it.        *)
LEMMA OwnershipUndoLockKeeps ==
    ASSUME Ownership!Inv, NEW r \in LeaseHolders, Ownership!UndoLock(r)
    PROVE  Ownership!Inv' /\ OwnershipFrame(r)
  <1> USE DEF Ownership!UndoLock, Ownership!Moves, Ownership!Fine, Ownership!Fault, Ownership!Sees,
          Ownership!disk, Ownership!os
  <1>0. OwnershipTyped /\ Ownership!HolderOK(r) /\ Ownership!WitnessOK(r) /\ Ownership!StaleOK(r)
    BY OwnershipInvIs
  <1>1. OwnershipTyped'
    BY <1>0, OwnershipAssumption DEF OwnershipTyped, Ownership!Places, OwnershipStates
  <1>2. OwnershipFrame(r)
    BY <1>0 DEF OwnershipTyped, OwnershipFrame, Ownership!HolderOK, Ownership!Locking, Ownership!Late
  <1>3. Ownership!HolderOK(r)' /\ Ownership!WitnessOK(r)' /\ Ownership!StaleOK(r)'
    BY <1>0 DEF OwnershipTyped, Ownership!HolderOK, Ownership!WitnessOK, Ownership!StaleOK,
       Ownership!Locking, Ownership!Early, Ownership!Late
  <1>4. OwnershipSteady(r) /\ OwnershipIdle(r)
    BY <1>0 DEF OwnershipTyped, OwnershipSteady, OwnershipIdle, Ownership!HolderOK, Ownership!Locking,
       Ownership!Beats
  <1> QED BY <1>1, <1>2, <1>3, <1>4, OwnershipFitting DEF OwnershipFits

(* UndoReleasing.                                                           *)
LEMMA OwnershipUndoReleasingKeeps ==
    ASSUME Ownership!Inv, NEW r \in LeaseHolders, Ownership!UndoReleasing(r)
    PROVE  Ownership!Inv' /\ OwnershipFrame(r)
  <1> USE DEF Ownership!UndoReleasing, Ownership!Moves, Ownership!removeReleasing, Ownership!Fine,
          Ownership!Fault, Ownership!Sees, Ownership!disk, Ownership!os
  <1>0. OwnershipTyped /\ Ownership!HolderOK(r) /\ Ownership!WitnessOK(r) /\ Ownership!StaleOK(r)
    BY OwnershipInvIs
  <1>1. OwnershipTyped'
    BY <1>0, OwnershipAssumption DEF OwnershipTyped, Ownership!Places, OwnershipStates
  <1>2. OwnershipFrame(r)
    BY <1>0 DEF OwnershipTyped, OwnershipFrame, Ownership!HolderOK, Ownership!Locking, Ownership!Late
  <1>3. Ownership!HolderOK(r)' /\ Ownership!WitnessOK(r)' /\ Ownership!StaleOK(r)'
    BY <1>0 DEF OwnershipTyped, Ownership!HolderOK, Ownership!WitnessOK, Ownership!StaleOK,
       Ownership!Locking, Ownership!Early, Ownership!Late
  <1>4. OwnershipSteady(r) /\ OwnershipIdle(r)
    BY <1>0 DEF OwnershipTyped, OwnershipSteady, OwnershipIdle, Ownership!HolderOK, Ownership!Locking,
       Ownership!Beats
  <1> QED BY <1>1, <1>2, <1>3, <1>4, OwnershipFitting DEF OwnershipFits

(* Release.                                                                 *)
LEMMA OwnershipReleaseKeeps ==
    ASSUME Ownership!Inv, NEW r \in LeaseHolders, Ownership!Release(r)
    PROVE  Ownership!Inv' /\ OwnershipFrame(r)
  <1> USE DEF Ownership!Release, Ownership!Moves, Ownership!Fine, Ownership!Fault, Ownership!Sees,
          Ownership!disk, Ownership!os
  <1>0. OwnershipTyped /\ Ownership!HolderOK(r) /\ Ownership!WitnessOK(r) /\ Ownership!StaleOK(r)
    BY OwnershipInvIs
  <1>1. OwnershipTyped'
    BY <1>0, OwnershipAssumption DEF OwnershipTyped, Ownership!Places, OwnershipStates
  <1>2. OwnershipFrame(r)
    BY <1>0 DEF OwnershipTyped, OwnershipFrame, Ownership!HolderOK, Ownership!Locking, Ownership!Late
  <1>3. Ownership!HolderOK(r)' /\ Ownership!WitnessOK(r)' /\ Ownership!StaleOK(r)'
    BY <1>0 DEF OwnershipTyped, Ownership!HolderOK, Ownership!WitnessOK, Ownership!StaleOK,
       Ownership!Locking, Ownership!Early, Ownership!Late
  <1>4. OwnershipSteady(r) /\ OwnershipIdle(r)
    BY <1>0 DEF OwnershipTyped, OwnershipSteady, OwnershipIdle, Ownership!HolderOK, Ownership!Locking,
       Ownership!Beats
  <1> QED BY <1>1, <1>2, <1>3, <1>4, OwnershipFitting DEF OwnershipFits

(* ReleaseNothing: a lease that was compromised gives up nothing.           *)
LEMMA OwnershipReleaseNothingKeeps ==
    ASSUME Ownership!Inv, NEW r \in LeaseHolders, Ownership!ReleaseNothing(r)
    PROVE  Ownership!Inv' /\ OwnershipFrame(r)
  <1> USE DEF Ownership!ReleaseNothing, Ownership!Moves, Ownership!Fine, Ownership!Fault, Ownership!Sees,
          Ownership!disk, Ownership!os
  <1>0. OwnershipTyped /\ Ownership!HolderOK(r) /\ Ownership!WitnessOK(r) /\ Ownership!StaleOK(r)
    BY OwnershipInvIs
  <1>1. OwnershipTyped'
    BY <1>0, OwnershipAssumption DEF OwnershipTyped, Ownership!Places, OwnershipStates
  <1>2. OwnershipFrame(r)
    BY <1>0 DEF OwnershipTyped, OwnershipFrame, Ownership!HolderOK, Ownership!Locking, Ownership!Late
  <1>3. Ownership!HolderOK(r)' /\ Ownership!WitnessOK(r)' /\ Ownership!StaleOK(r)'
    BY <1>0 DEF OwnershipTyped, Ownership!HolderOK, Ownership!WitnessOK, Ownership!StaleOK,
       Ownership!Locking, Ownership!Early, Ownership!Late
  <1>4. OwnershipSteady(r) /\ OwnershipIdle(r)
    BY <1>0 DEF OwnershipTyped, OwnershipSteady, OwnershipIdle, Ownership!HolderOK, Ownership!Locking,
       Ownership!Beats
  <1> QED BY <1>1, <1>2, <1>3, <1>4, OwnershipFitting DEF OwnershipFits

(* ReleasePublish: RELEASING is there before OWNER goes.                    *)
LEMMA OwnershipReleasePublishKeeps ==
    ASSUME Ownership!Inv, NEW r \in LeaseHolders, Ownership!ReleasePublish(r)
    PROVE  Ownership!Inv' /\ OwnershipFrame(r)
  <1> USE DEF Ownership!ReleasePublish, Ownership!Moves, Ownership!publishReleasing, Ownership!Fine,
          Ownership!Fault, Ownership!Sees, Ownership!disk, Ownership!os
  <1>0. OwnershipTyped /\ Ownership!HolderOK(r) /\ Ownership!WitnessOK(r) /\ Ownership!StaleOK(r)
    BY OwnershipInvIs
  <1>1. OwnershipTyped'
    BY <1>0, OwnershipAssumption DEF OwnershipTyped, Ownership!Places, OwnershipStates
  <1>2. OwnershipFrame(r)
    BY <1>0 DEF OwnershipTyped, OwnershipFrame, Ownership!HolderOK, Ownership!Locking, Ownership!Late
  <1>3. Ownership!HolderOK(r)' /\ Ownership!WitnessOK(r)' /\ Ownership!StaleOK(r)'
    BY <1>0 DEF OwnershipTyped, Ownership!HolderOK, Ownership!WitnessOK, Ownership!StaleOK,
       Ownership!Locking, Ownership!Early, Ownership!Late
  <1>4. OwnershipSteady(r) /\ OwnershipIdle(r)
    BY <1>0 DEF OwnershipTyped, OwnershipSteady, OwnershipIdle, Ownership!HolderOK, Ownership!Locking,
       Ownership!Beats
  <1> QED BY <1>1, <1>2, <1>3, <1>4, OwnershipFitting DEF OwnershipFits

(* ReleaseOwner.                                                            *)
LEMMA OwnershipReleaseOwnerKeeps ==
    ASSUME Ownership!Inv, NEW r \in LeaseHolders, Ownership!ReleaseOwner(r)
    PROVE  Ownership!Inv' /\ OwnershipFrame(r)
  <1> USE DEF Ownership!ReleaseOwner, Ownership!Moves, Ownership!removeCurrentOwnerWhileHeld,
          Ownership!Fine, Ownership!Fault, Ownership!Sees, Ownership!disk, Ownership!os
  <1>0. OwnershipTyped /\ Ownership!HolderOK(r) /\ Ownership!WitnessOK(r) /\ Ownership!StaleOK(r)
    BY OwnershipInvIs
  <1>1. OwnershipTyped'
    BY <1>0, OwnershipAssumption DEF OwnershipTyped, Ownership!Places, OwnershipStates
  <1>2. OwnershipFrame(r)
    BY <1>0 DEF OwnershipTyped, OwnershipFrame, Ownership!HolderOK, Ownership!Locking, Ownership!Late
  <1>3. Ownership!HolderOK(r)' /\ Ownership!WitnessOK(r)' /\ Ownership!StaleOK(r)'
    BY <1>0 DEF OwnershipTyped, Ownership!HolderOK, Ownership!WitnessOK, Ownership!StaleOK,
       Ownership!Locking, Ownership!Early, Ownership!Late
  <1>4. OwnershipSteady(r) /\ OwnershipIdle(r)
    BY <1>0 DEF OwnershipTyped, OwnershipSteady, OwnershipIdle, Ownership!HolderOK, Ownership!Locking,
       Ownership!Beats
  <1> QED BY <1>1, <1>2, <1>3, <1>4, OwnershipFitting DEF OwnershipFits

(* ReleaseLock.                                                             *)
LEMMA OwnershipReleaseLockKeeps ==
    ASSUME Ownership!Inv, NEW r \in LeaseHolders, Ownership!ReleaseLock(r)
    PROVE  Ownership!Inv' /\ OwnershipFrame(r)
  <1> USE DEF Ownership!ReleaseLock, Ownership!Moves, Ownership!Fine, Ownership!Fault, Ownership!Sees,
          Ownership!disk, Ownership!os
  <1>0. OwnershipTyped /\ Ownership!HolderOK(r) /\ Ownership!WitnessOK(r) /\ Ownership!StaleOK(r)
    BY OwnershipInvIs
  <1>1. OwnershipTyped'
    BY <1>0, OwnershipAssumption DEF OwnershipTyped, Ownership!Places, OwnershipStates
  <1>2. OwnershipFrame(r)
    BY <1>0 DEF OwnershipTyped, OwnershipFrame, Ownership!HolderOK, Ownership!Locking, Ownership!Late
  <1>3. Ownership!HolderOK(r)' /\ Ownership!WitnessOK(r)' /\ Ownership!StaleOK(r)'
    BY <1>0 DEF OwnershipTyped, Ownership!HolderOK, Ownership!WitnessOK, Ownership!StaleOK,
       Ownership!Locking, Ownership!Early, Ownership!Late
  <1>4. OwnershipSteady(r) /\ OwnershipIdle(r)
    BY <1>0 DEF OwnershipTyped, OwnershipSteady, OwnershipIdle, Ownership!HolderOK, Ownership!Locking,
       Ownership!Beats
  <1> QED BY <1>1, <1>2, <1>3, <1>4, OwnershipFitting DEF OwnershipFits

(* Released.                                                                *)
LEMMA OwnershipReleasedKeeps ==
    ASSUME Ownership!Inv, NEW r \in LeaseHolders, Ownership!Released(r)
    PROVE  Ownership!Inv' /\ OwnershipFrame(r)
  <1> USE DEF Ownership!Released, Ownership!Moves, Ownership!removeReleasing, Ownership!Fine,
          Ownership!Fault, Ownership!Sees, Ownership!disk, Ownership!os
  <1>0. OwnershipTyped /\ Ownership!HolderOK(r) /\ Ownership!WitnessOK(r) /\ Ownership!StaleOK(r)
    BY OwnershipInvIs
  <1>1. OwnershipTyped'
    BY <1>0, OwnershipAssumption DEF OwnershipTyped, Ownership!Places, OwnershipStates
  <1>2. OwnershipFrame(r)
    BY <1>0 DEF OwnershipTyped, OwnershipFrame, Ownership!HolderOK, Ownership!Locking, Ownership!Late
  <1>3. Ownership!HolderOK(r)' /\ Ownership!WitnessOK(r)' /\ Ownership!StaleOK(r)'
    BY <1>0 DEF OwnershipTyped, Ownership!HolderOK, Ownership!WitnessOK, Ownership!StaleOK,
       Ownership!Locking, Ownership!Early, Ownership!Late
  <1>4. OwnershipSteady(r) /\ OwnershipIdle(r)
    BY <1>0 DEF OwnershipTyped, OwnershipSteady, OwnershipIdle, Ownership!HolderOK, Ownership!Locking,
       Ownership!Beats
  <1> QED BY <1>1, <1>2, <1>3, <1>4, OwnershipFitting DEF OwnershipFits

(* ReleaseFails: the lock is given up, or stays with a process that is past it. *)
LEMMA OwnershipReleaseFailsKeeps ==
    ASSUME Ownership!Inv, NEW r \in LeaseHolders,
           NEW from \in {"release", "release-owner", "release-lock", "release-rest"},
           Ownership!ReleaseFails(r, from)
    PROVE  Ownership!Inv' /\ OwnershipFrame(r)
  <1> USE DEF Ownership!Moves, Ownership!Fine, Ownership!Fault, Ownership!Sees, Ownership!os
  <1>0. OwnershipTyped /\ Ownership!HolderOK(r) /\ Ownership!WitnessOK(r) /\ Ownership!StaleOK(r)
    BY OwnershipInvIs
  <1>1. /\ Ownership!Moves(r, from, "over") /\ Ownership!Fault /\ Ownership!Sees(r, "COMPROMISED")
        /\ UNCHANGED <<v3, v4, v5, Ownership!os, v10, v12, v13>>
        /\ (v1 = r /\ v1' = None /\ v2' = FALSE) \/ (v1' = v1 /\ v2' = v2)
    BY Zenon DEF Ownership!ReleaseFails
  <1>2. OwnershipTyped'
    <2>1. v1' \in LeaseHolders \cup {None} /\ v2' \in BOOLEAN
      BY <1>0, <1>1 DEF OwnershipTyped
    <2>2. v9' \in [LeaseHolders -> Ownership!Places] /\ v11' \in [LeaseHolders -> OwnershipStates]
      BY <1>0, <1>1 DEF OwnershipTyped, Ownership!Places, OwnershipStates
    <2>3. v14' \in 0 .. LeaseFaults
      BY <1>0, <1>1, OwnershipAssumption DEF OwnershipTyped
    <2> QED BY <1>0, <1>1, <2>1, <2>2, <2>3 DEF OwnershipTyped
  <1>3. OwnershipFrame(r)
    BY <1>0, <1>1 DEF OwnershipTyped, OwnershipFrame
  <1>4. Ownership!HolderOK(r)' /\ Ownership!WitnessOK(r)' /\ Ownership!StaleOK(r)'
    BY <1>0, <1>1 DEF OwnershipTyped, Ownership!HolderOK, Ownership!WitnessOK, Ownership!StaleOK,
       Ownership!Locking, Ownership!Early, Ownership!Late
  <1>5. OwnershipSteady(r) /\ OwnershipIdle(r)
    BY <1>0, <1>1 DEF OwnershipTyped, OwnershipSteady, OwnershipIdle, Ownership!Locking
  <1> QED BY <1>2, <1>3, <1>4, <1>5, OwnershipFitting DEF OwnershipFits

(* Recheck: the recovered lease is kept or released.                        *)
LEMMA OwnershipRecheckKeeps ==
    ASSUME Ownership!Inv, NEW r \in LeaseHolders, Ownership!Recheck(r)
    PROVE  Ownership!Inv' /\ OwnershipFrame(r)
  <1> USE DEF Ownership!os, Ownership!disk
  <1>0. OwnershipTyped /\ Ownership!HolderOK(r) /\ Ownership!WitnessOK(r) /\ Ownership!StaleOK(r)
    BY OwnershipInvIs
  <1>1. /\ r \in v6 \ v8 /\ v9[r] = "r5"
        /\ v12' = [v12 EXCEPT ![r] = Ownership!Nothing]
        /\ UNCHANGED <<Ownership!disk, Ownership!os, v10, v13>>
    BY Zenon DEF Ownership!Recheck, Ownership!Decide
  <1>2. UNCHANGED v14 \/ Ownership!Fault
    BY Zenon DEF Ownership!Recheck, Ownership!Decide, Ownership!Unreadable, Ownership!Fine
  <1>3. \/ v9' = [v9 EXCEPT ![r] = "held"] /\ v11' = v11
        \/ v9' = [v9 EXCEPT ![r] = "release"] /\ v11[r] = "HELD" /\ v11' = [v11 EXCEPT ![r] = "RELEASING"]
    BY Zenon DEF Ownership!Recheck, Ownership!Sees
  <1>4. OwnershipTyped'
    <2>1. Ownership!Nothing \in OwnershipSights
      BY DEF Ownership!Nothing, OwnershipSights
    <2>2. v14' \in 0 .. LeaseFaults
      BY <1>0, <1>2, OwnershipAssumption DEF OwnershipTyped, Ownership!Fault
    <2> QED BY <1>0, <1>1, <1>3, <2>1, <2>2 DEF OwnershipTyped, Ownership!Places, OwnershipStates
  <1>5. OwnershipFrame(r)
    BY <1>0, <1>1, <1>3 DEF OwnershipTyped, OwnershipFrame
  <1>6. Ownership!HolderOK(r)' /\ Ownership!WitnessOK(r)' /\ Ownership!StaleOK(r)'
    BY <1>0, <1>1, <1>3 DEF OwnershipTyped, Ownership!HolderOK, Ownership!WitnessOK, Ownership!StaleOK,
       Ownership!Locking, Ownership!Early, Ownership!Late
  <1>7. OwnershipSteady(r) /\ OwnershipIdle(r)
    BY <1>0, <1>1, <1>3 DEF OwnershipTyped, OwnershipSteady, OwnershipIdle, Ownership!Locking,
       Ownership!Beats
  <1> QED BY <1>4, <1>5, <1>6, <1>7, OwnershipFitting DEF OwnershipFits

(* Die: the witnesses of the dead stay.                                     *)
LEMMA OwnershipDieKeeps ==
    ASSUME Ownership!Inv, NEW r \in LeaseHolders, Ownership!Die(r)
    PROVE  Ownership!Inv' /\ OwnershipFrame(r)
  <1> USE DEF Ownership!disk, Ownership!Fine
  <1>0. OwnershipTyped /\ Ownership!HolderOK(r) /\ Ownership!WitnessOK(r) /\ Ownership!StaleOK(r)
    BY OwnershipInvIs
  <1>1. PICK to \in {"abandoned", "dead"} :
            /\ v9' = [v9 EXCEPT ![r] = to]
            /\ to = "abandoned" <=> Ownership!Locking(r)
    BY Zenon DEF Ownership!Die
  <1>2. OwnershipTyped'
    <2>1. Ownership!Nothing \in OwnershipSights /\ Ownership!Normal \in OwnershipModes
      BY DEF Ownership!Nothing, Ownership!Normal, OwnershipSights, OwnershipModes
    <2> QED BY <1>0, <1>1, <2>1 DEF Ownership!Die, OwnershipTyped, Ownership!Places, OwnershipStates
  <1>3. OwnershipFrame(r)
    BY <1>0, <1>1 DEF Ownership!Die, OwnershipTyped, OwnershipFrame
  <1>4. Ownership!HolderOK(r)' /\ Ownership!WitnessOK(r)' /\ Ownership!StaleOK(r)'
    BY <1>0, <1>1 DEF Ownership!Die, OwnershipTyped, Ownership!HolderOK, Ownership!WitnessOK,
       Ownership!StaleOK, Ownership!Locking, Ownership!Early, Ownership!Late
  <1>5. OwnershipSteady(r) /\ OwnershipIdle(r)
    BY DEF Ownership!Die, OwnershipSteady, OwnershipIdle
  <1> QED BY <1>2, <1>3, <1>4, <1>5, OwnershipFitting DEF OwnershipFits

(* ReusePid.                                                                *)
LEMMA OwnershipReusePidKeeps ==
    ASSUME Ownership!Inv, NEW r \in LeaseHolders, Ownership!ReusePid(r)
    PROVE  Ownership!Inv' /\ OwnershipFrame(r)
  <1> USE DEF Ownership!ReusePid, Ownership!Moves, Ownership!Fine, Ownership!Fault, Ownership!Sees,
          Ownership!disk, Ownership!os
  <1>0. OwnershipTyped /\ Ownership!HolderOK(r) /\ Ownership!WitnessOK(r) /\ Ownership!StaleOK(r)
    BY OwnershipInvIs
  <1>1. OwnershipTyped'
    BY <1>0, OwnershipAssumption DEF OwnershipTyped, Ownership!Places, OwnershipStates
  <1>2. OwnershipFrame(r)
    BY <1>0 DEF OwnershipTyped, OwnershipFrame, Ownership!HolderOK, Ownership!Locking, Ownership!Late
  <1>3. Ownership!HolderOK(r)' /\ Ownership!WitnessOK(r)' /\ Ownership!StaleOK(r)'
    BY <1>0 DEF OwnershipTyped, Ownership!HolderOK, Ownership!WitnessOK, Ownership!StaleOK,
       Ownership!Locking, Ownership!Early, Ownership!Late
  <1>4. OwnershipSteady(r) /\ OwnershipIdle(r)
    BY <1>0 DEF OwnershipTyped, OwnershipSteady, OwnershipIdle, Ownership!HolderOK, Ownership!Locking,
       Ownership!Beats
  <1> QED BY <1>1, <1>2, <1>3, <1>4, OwnershipFitting DEF OwnershipFits

(* Resume: a holder that comes back refreshes its lock.                     *)
LEMMA OwnershipResumeKeeps ==
    ASSUME Ownership!Inv, NEW r \in LeaseHolders, Ownership!Resume(r)
    PROVE  Ownership!Inv' /\ OwnershipFrame(r)
  <1> USE DEF Ownership!Resume, Ownership!Moves, Ownership!Fine, Ownership!Fault, Ownership!Sees,
          Ownership!disk, Ownership!os
  <1>0. OwnershipTyped /\ Ownership!HolderOK(r) /\ Ownership!WitnessOK(r) /\ Ownership!StaleOK(r)
    BY OwnershipInvIs
  <1>1. OwnershipTyped'
    BY <1>0, OwnershipAssumption DEF OwnershipTyped, Ownership!Places, OwnershipStates
  <1>2. OwnershipFrame(r)
    BY <1>0 DEF OwnershipTyped, OwnershipFrame, Ownership!HolderOK, Ownership!Locking, Ownership!Late
  <1>3. Ownership!HolderOK(r)' /\ Ownership!WitnessOK(r)' /\ Ownership!StaleOK(r)'
    BY <1>0 DEF OwnershipTyped, Ownership!HolderOK, Ownership!WitnessOK, Ownership!StaleOK,
       Ownership!Locking, Ownership!Early, Ownership!Late
  <1>4. OwnershipSteady(r) /\ OwnershipIdle(r)
    BY <1>0 DEF OwnershipTyped, OwnershipSteady, OwnershipIdle, Ownership!HolderOK, Ownership!Locking,
       Ownership!Beats
  <1> QED BY <1>1, <1>2, <1>3, <1>4, OwnershipFitting DEF OwnershipFits

(* Lock: a recovery is let in only when the holder it finds has died or has *)
(* been told that it is compromised.                                        *)
LEMMA OwnershipLockKeeps ==
    ASSUME Ownership!Inv, NEW r \in LeaseHolders, Ownership!Lock(r)
    PROVE  Ownership!Inv' /\ OwnershipFrame(r)
  <1> USE DEF Ownership!Lock, Ownership!Moves, Ownership!Fine, Ownership!Sees, Ownership!os
  <1>0. OwnershipTyped /\ Ownership!HolderOK(r) /\ Ownership!WitnessOK(r) /\ Ownership!StaleOK(r)
    BY OwnershipInvIs
  <1>1. OwnershipTyped'
    BY <1>0 DEF OwnershipTyped, Ownership!Places, OwnershipStates
  <1>2. ASSUME NEW d \in LeaseHolders \ {r}, d \in v6, Ownership!Locking(d)
        PROVE  v11[d] = "COMPROMISED" /\ v9[d] \in Ownership!Late
    <2>1. Ownership!HolderOK(d) /\ Ownership!WitnessOK(d) /\ Ownership!StaleOK(d) /\ Ownership!SeenOK(d, r)
      BY OwnershipInvIs
    <2>2. CASE v1 = d
      <3>1. v10[r].reclaims /\ v2 /\ r \in Ownership!Recovering
        BY <2>2, <1>0, OwnershipAssumption DEF Ownership!Obtainable, Ownership!Recovering
      <3>2. ~Ownership!Beats(d)
        BY <1>2, <2>1, <2>2, <3>1 DEF Ownership!StaleOK, Ownership!Beats
      <3>3. d \notin v4
        BY <1>2, <2>1, <2>2, <3>1, <3>2 DEF Ownership!SeenOK
      <3>4. v9[d] \in Ownership!Late
        BY <1>2, <2>1, <2>2, <3>3 DEF Ownership!WitnessOK, Ownership!Locking, Ownership!Early,
           Ownership!Late
      <3>5. d \notin v8
        BY <1>2, <2>1, <2>2, <3>1, <3>2, <3>4 DEF Ownership!SeenOK
      <3> QED BY <1>2, <2>1, <2>2, <3>1, <3>4, <3>5 DEF Ownership!StaleOK
    <2>3. CASE v1 # d
      BY <1>2, <2>1, <2>3 DEF Ownership!HolderOK
    <2> QED BY <2>2, <2>3
  <1>3. OwnershipFrame(r)
    BY <1>0, <1>2 DEF OwnershipTyped, OwnershipFrame
  <1>4. Ownership!HolderOK(r)' /\ Ownership!WitnessOK(r)' /\ Ownership!StaleOK(r)'
    BY <1>0 DEF OwnershipTyped, Ownership!HolderOK, Ownership!WitnessOK, Ownership!StaleOK,
       Ownership!Locking, Ownership!Early, Ownership!Late
  <1>5. OwnershipSteady(r) /\ OwnershipIdle(r)
    BY <1>0 DEF OwnershipTyped, OwnershipSteady, OwnershipIdle, Ownership!Beats
  <1> QED BY <1>1, <1>3, <1>4, <1>5, OwnershipFitting DEF OwnershipFits

(* Compromised: no recovery is under way.                                   *)
LEMMA OwnershipCompromisedKeeps ==
    ASSUME Ownership!Inv, NEW r \in LeaseHolders, Ownership!Compromised(r)
    PROVE  Ownership!Inv' /\ OwnershipFrame(r)
  <1> USE DEF Ownership!Compromised, Ownership!Fault, Ownership!Sees, Ownership!disk, Ownership!os
  <1>0. OwnershipTyped /\ Ownership!HolderOK(r) /\ Ownership!WitnessOK(r) /\ Ownership!StaleOK(r)
    BY OwnershipInvIs
  <1>1. OwnershipTyped'
    BY <1>0, OwnershipAssumption DEF OwnershipTyped, OwnershipStates
  <1>2. OwnershipFrame(r)
    BY <1>0 DEF OwnershipTyped, OwnershipFrame
  <1>3. Ownership!HolderOK(r)' /\ Ownership!WitnessOK(r)' /\ Ownership!StaleOK(r)'
    BY <1>0 DEF OwnershipTyped, Ownership!HolderOK, Ownership!WitnessOK, Ownership!StaleOK,
       Ownership!Locking, Ownership!Early, Ownership!Late
  <1>4. OwnershipIdle(r)
    BY DEF OwnershipIdle
  <1>5. \A e \in LeaseHolders \ {r} : Ownership!SeenOK(r, e)'
    BY DEF Ownership!SeenOK, Ownership!Recovering
  <1> QED BY <1>1, <1>2, <1>3, <1>4, <1>5, OwnershipFitting DEF OwnershipFits

(* Stall: no recovery is under way.                                         *)
LEMMA OwnershipStallKeeps ==
    ASSUME Ownership!Inv, NEW r \in LeaseHolders, Ownership!Stall(r)
    PROVE  Ownership!Inv' /\ OwnershipFrame(r)
  <1> USE DEF Ownership!Stall, Ownership!Fault, Ownership!disk
  <1>0. OwnershipTyped /\ Ownership!HolderOK(r) /\ Ownership!WitnessOK(r) /\ Ownership!StaleOK(r)
    BY OwnershipInvIs
  <1>1. OwnershipTyped'
    BY <1>0, OwnershipAssumption DEF OwnershipTyped
  <1>2. OwnershipFrame(r)
    BY <1>0 DEF OwnershipTyped, OwnershipFrame
  <1>3. Ownership!HolderOK(r)' /\ Ownership!WitnessOK(r)' /\ Ownership!StaleOK(r)'
    BY <1>0 DEF OwnershipTyped, Ownership!HolderOK, Ownership!WitnessOK, Ownership!StaleOK,
       Ownership!Locking, Ownership!Early, Ownership!Late, Ownership!Beats
  <1>4. OwnershipIdle(r)
    BY DEF OwnershipIdle
  <1>5. \A e \in LeaseHolders \ {r} : Ownership!SeenOK(r, e)'
    BY DEF Ownership!SeenOK, Ownership!Recovering
  <1> QED BY <1>1, <1>2, <1>3, <1>4, <1>5, OwnershipFitting DEF OwnershipFits

(* Age: only a lock whose holder does not refresh it.                       *)
LEMMA OwnershipAgeKeeps ==
    ASSUME Ownership!Inv, Ownership!Age
    PROVE  Ownership!Inv'
  <1> USE DEF Ownership!Age, Ownership!os
  <1>0. OwnershipTyped /\ \A p \in LeaseHolders : Ownership!HolderOK(p) /\ Ownership!WitnessOK(p) /\
          Ownership!StaleOK(p)
    BY OwnershipInvIs
  <1>1. OwnershipTyped'
    BY <1>0 DEF OwnershipTyped
  <1>2. (\A p \in LeaseHolders : Ownership!HolderOK(p) /\ Ownership!WitnessOK(p) /\ Ownership!StaleOK(p))'
    <2> SUFFICES ASSUME NEW p \in LeaseHolders
                 PROVE  (Ownership!HolderOK(p) /\ Ownership!WitnessOK(p) /\ Ownership!StaleOK(p))'
      OBVIOUS
    <2>1. Ownership!HolderOK(p) /\ Ownership!WitnessOK(p)
      BY <1>0
    <2>2. (Ownership!HolderOK(p) /\ Ownership!WitnessOK(p))'
      BY <2>1 DEF Ownership!HolderOK, Ownership!WitnessOK, Ownership!Locking
    <2>3. Ownership!StaleOK(p)'
      BY <2>1 DEF Ownership!HolderOK, Ownership!StaleOK, Ownership!Locking, Ownership!Beats
    <2> QED BY <2>2, <2>3
  <1>3. (\A p, q \in LeaseHolders : Ownership!SeenOK(p, q))'
    <2> SUFFICES ASSUME NEW p \in LeaseHolders, NEW q \in LeaseHolders PROVE Ownership!SeenOK(p, q)'
      OBVIOUS
    <2>1. Ownership!SeenOK(p, q)
      BY OwnershipInvIs
    <2> QED BY <2>1 DEF Ownership!SeenOK, Ownership!Locking, Ownership!Beats, Ownership!Recovering
  <1> QED BY <1>1, <1>2, <1>3, OwnershipInvIsAfter

(* ObserveLock: nothing is known of the witnesses yet.                      *)
LEMMA OwnershipObserveLockKeeps ==
    ASSUME Ownership!Inv, NEW r \in LeaseHolders, NEW from, NEW to, Ownership!ObserveLock(r, from, to),
           (from = "idle" /\ to = "i2") \/ (from = "recheck" /\ to = "r2")
    PROVE  Ownership!Inv' /\ OwnershipFrame(r)
  <1> USE DEF Ownership!Moves, Ownership!Fine, Ownership!disk, Ownership!os
  <1>0. OwnershipTyped /\ Ownership!HolderOK(r) /\ Ownership!WitnessOK(r) /\ Ownership!StaleOK(r)
    BY OwnershipInvIs
  <1>1. PICK sight : sight = [Ownership!Nothing EXCEPT !.lock = v1, !.stale = v2]
    OBVIOUS
  <1>2. /\ Ownership!Moves(r, from, to) /\ Ownership!Fine
        /\ UNCHANGED <<Ownership!disk, Ownership!os, v10, v11, v13>>
        /\ v12' = [v12 EXCEPT ![r] = sight]
    BY <1>1, Zenon DEF Ownership!ObserveLock
  <1>3. sight \in OwnershipSights
    BY <1>0, <1>1 DEF OwnershipTyped, Ownership!Nothing, OwnershipSights
  <1>4. OwnershipTyped'
    BY <1>0, <1>2, <1>3 DEF OwnershipTyped, Ownership!Places
  <1>5. OwnershipFrame(r)
    BY <1>0, <1>2 DEF OwnershipTyped, OwnershipFrame
  <1>6. Ownership!HolderOK(r)' /\ Ownership!WitnessOK(r)' /\ Ownership!StaleOK(r)'
    BY <1>0, <1>2 DEF OwnershipTyped, Ownership!HolderOK, Ownership!WitnessOK, Ownership!StaleOK,
       Ownership!Locking, Ownership!Early, Ownership!Late
  <1>7. OwnershipSteady(r) /\ OwnershipIdle(r)
    BY <1>0, <1>2 DEF OwnershipTyped, OwnershipSteady, OwnershipIdle, Ownership!Locking, Ownership!Beats
  <1> QED BY <1>4, <1>5, <1>6, <1>7, OwnershipFitting DEF OwnershipFits

(* The three readings of the witnesses, of which what names the holder of   *)
(* the lock is on disk at that moment and stays there.                      *)
LEMMA OwnershipReadOwnerKeeps ==
    ASSUME Ownership!Inv, NEW r \in LeaseHolders, NEW from, NEW to, Ownership!ReadOwner(r, from, to),
           (from = "i2" /\ to = "i3") \/ (from = "r2" /\ to = "r3")
    PROVE  Ownership!Inv' /\ OwnershipFrame(r)
  <1> USE DEF Ownership!Moves, Ownership!Fine, Ownership!disk, Ownership!os
  <1>0. OwnershipTyped /\ Ownership!HolderOK(r) /\ Ownership!WitnessOK(r) /\ Ownership!StaleOK(r)
    BY OwnershipInvIs
  <1>1. PICK sight : sight = [v12[r] EXCEPT !["owner"] = v3]
    OBVIOUS
  <1>2. /\ Ownership!Moves(r, from, to) /\ Ownership!Fine
        /\ UNCHANGED <<Ownership!disk, Ownership!os, v10, v11, v13>>
        /\ v12' = [v12 EXCEPT ![r] = sight]
    BY <1>1 DEF Ownership!ReadOwner, Ownership!Reads
  <1>3. sight \in OwnershipSights /\ sight.owner = v3
    BY <1>0, <1>1 DEF OwnershipTyped, OwnershipSights
  <1>4. OwnershipTyped'
    BY <1>0, <1>2, <1>3 DEF OwnershipTyped, Ownership!Places
  <1>5. OwnershipFrame(r)
    BY <1>0, <1>2 DEF OwnershipTyped, OwnershipFrame
  <1>6. Ownership!HolderOK(r)' /\ Ownership!WitnessOK(r)' /\ Ownership!StaleOK(r)'
    BY <1>0, <1>2 DEF OwnershipTyped, Ownership!HolderOK, Ownership!WitnessOK, Ownership!StaleOK,
       Ownership!Locking, Ownership!Early, Ownership!Late
  <1>7. OwnershipSteady(r)
    BY <1>0, <1>2 DEF OwnershipTyped, OwnershipSteady, Ownership!Locking, Ownership!Beats
  <1>8. \A d \in LeaseHolders \ {r} : Ownership!SeenOK(d, r)'
    BY <1>0, <1>2, <1>3 DEF OwnershipTyped, Ownership!SeenOK
  <1> QED BY <1>4, <1>5, <1>6, <1>7, <1>8, OwnershipFitting DEF OwnershipFits

(* The same of the attempts.                                                *)
LEMMA OwnershipListAttemptsKeeps ==
    ASSUME Ownership!Inv, NEW r \in LeaseHolders, NEW from, NEW to, Ownership!ListAttempts(r, from, to),
           (from = "i3" /\ to = "i4") \/ (from = "r3" /\ to = "r4")
    PROVE  Ownership!Inv' /\ OwnershipFrame(r)
  <1> USE DEF Ownership!Moves, Ownership!Fine, Ownership!disk, Ownership!os
  <1>0. OwnershipTyped /\ Ownership!HolderOK(r) /\ Ownership!WitnessOK(r) /\ Ownership!StaleOK(r)
    BY OwnershipInvIs
  <1>1. PICK sight : sight = [v12[r] EXCEPT !["attempts"] = v4]
    OBVIOUS
  <1>2. /\ Ownership!Moves(r, from, to) /\ Ownership!Fine
        /\ UNCHANGED <<Ownership!disk, Ownership!os, v10, v11, v13>>
        /\ v12' = [v12 EXCEPT ![r] = sight]
    BY <1>1 DEF Ownership!ListAttempts, Ownership!Reads
  <1>3. sight \in OwnershipSights /\ sight.attempts = v4 /\ sight.owner = v12[r].owner
    BY <1>0, <1>1 DEF OwnershipTyped, OwnershipSights
  <1>4. OwnershipTyped'
    BY <1>0, <1>2, <1>3 DEF OwnershipTyped, Ownership!Places
  <1>5. OwnershipFrame(r)
    BY <1>0, <1>2 DEF OwnershipTyped, OwnershipFrame
  <1>6. Ownership!HolderOK(r)' /\ Ownership!WitnessOK(r)' /\ Ownership!StaleOK(r)'
    BY <1>0, <1>2 DEF OwnershipTyped, Ownership!HolderOK, Ownership!WitnessOK, Ownership!StaleOK,
       Ownership!Locking, Ownership!Early, Ownership!Late
  <1>7. OwnershipSteady(r)
    BY <1>0, <1>2 DEF OwnershipTyped, OwnershipSteady, Ownership!Locking, Ownership!Beats
  <1>8. ASSUME NEW d \in LeaseHolders \ {r} PROVE Ownership!SeenOK(d, r)'
    <2>1. Ownership!SeenOK(d, r)
      BY OwnershipInvIs
    <2> QED BY <1>0, <1>2, <1>3, <2>1 DEF OwnershipTyped, Ownership!SeenOK, Ownership!Locking,
               Ownership!Beats, Ownership!Recovering
  <1> QED BY <1>4, <1>5, <1>6, <1>7, <1>8, OwnershipFitting DEF OwnershipFits

(* The same of the releases under way.                                      *)
LEMMA OwnershipListReleasingKeeps ==
    ASSUME Ownership!Inv, NEW r \in LeaseHolders, NEW from, NEW to, Ownership!ListReleasing(r, from, to),
           (from = "i4" /\ to = "i5") \/ (from = "r4" /\ to = "r5")
    PROVE  Ownership!Inv' /\ OwnershipFrame(r)
  <1> USE DEF Ownership!Moves, Ownership!Fine, Ownership!disk, Ownership!os
  <1>0. OwnershipTyped /\ Ownership!HolderOK(r) /\ Ownership!WitnessOK(r) /\ Ownership!StaleOK(r)
    BY OwnershipInvIs
  <1>1. PICK sight : sight = [v12[r] EXCEPT !["releasing"] = v5]
    OBVIOUS
  <1>2. /\ Ownership!Moves(r, from, to) /\ Ownership!Fine
        /\ UNCHANGED <<Ownership!disk, Ownership!os, v10, v11, v13>>
        /\ v12' = [v12 EXCEPT ![r] = sight]
    BY <1>1 DEF Ownership!ListReleasing, Ownership!Reads
  <1>3. /\ sight \in OwnershipSights /\ sight.releasing = v5
        /\ sight.attempts = v12[r].attempts /\ sight.owner = v12[r].owner
    BY <1>0, <1>1 DEF OwnershipTyped, OwnershipSights
  <1>4. OwnershipTyped'
    BY <1>0, <1>2, <1>3 DEF OwnershipTyped, Ownership!Places
  <1>5. OwnershipFrame(r)
    BY <1>0, <1>2 DEF OwnershipTyped, OwnershipFrame
  <1>6. Ownership!HolderOK(r)' /\ Ownership!WitnessOK(r)' /\ Ownership!StaleOK(r)'
    BY <1>0, <1>2 DEF OwnershipTyped, Ownership!HolderOK, Ownership!WitnessOK, Ownership!StaleOK,
       Ownership!Locking, Ownership!Early, Ownership!Late
  <1>7. OwnershipSteady(r)
    BY <1>0, <1>2 DEF OwnershipTyped, OwnershipSteady, Ownership!Locking, Ownership!Beats
  <1>8. ASSUME NEW d \in LeaseHolders \ {r} PROVE Ownership!SeenOK(d, r)'
    <2>1. Ownership!SeenOK(d, r)
      BY OwnershipInvIs
    <2> QED BY <1>0, <1>2, <1>3, <2>1 DEF OwnershipTyped, Ownership!SeenOK, Ownership!Locking,
               Ownership!Beats, Ownership!Recovering
  <1> QED BY <1>4, <1>5, <1>6, <1>7, <1>8, OwnershipFitting DEF OwnershipFits

(* Whoever is found alive among the witnesses is not recovered.             *)
LEMMA OwnershipAliveIsActive ==
    ASSUME NEW s, NEW d \in v6 \ v7, d \in Ownership!Witnesses(s), NEW problem \in BOOLEAN
    PROVE  Ownership!Classify(s, problem) # "ABANDONED_OWNER_ELIGIBLE"
  <1>1. Ownership!Status(d) = "SAME_PROCESS"
    BY DEF Ownership!Status
  <1>2. "SAME_PROCESS" \in Ownership!Statuses(s)
    BY <1>1 DEF Ownership!Statuses
  <1> QED BY <1>2 DEF Ownership!Classify

(* Admit: what a recovery reclaims has no living holder that stood still    *)
(* while it looked.                                                         *)
LEMMA OwnershipAdmitKeeps ==
    ASSUME Ownership!Inv, NEW r \in LeaseHolders, Ownership!Admit(r)
    PROVE  Ownership!Inv' /\ OwnershipFrame(r)
  <1> USE DEF Ownership!disk, Ownership!os
  <1>0. OwnershipTyped /\ Ownership!HolderOK(r) /\ Ownership!WitnessOK(r) /\ Ownership!StaleOK(r)
    BY OwnershipInvIs
  <1>1. PICK verdict \in Ownership!Verdicts :
          /\ Ownership!Decide(r, "i5", verdict)
          /\ IF verdict \in {"ABANDONED_OWNER_ELIGIBLE", "INCOMPLETE_MAINTENANCE"}
             THEN /\ v9' = [v9 EXCEPT ![r] = "eligible"]
                  /\ v10' = [v10 EXCEPT ![r] = Ownership!ReclaimPolicy(verdict)]
             ELSE v9' = [v9 EXCEPT ![r] = "over"] /\ UNCHANGED v10
    BY Zenon DEF Ownership!Admit
  <1>2. PICK problem \in BOOLEAN : verdict = Ownership!Classify(v12[r], problem)
    BY <1>1, Zenon DEF Ownership!Decide
  <1>3. /\ r \in v6 \ v8 /\ v9[r] = "i5"
        /\ v12' = [v12 EXCEPT ![r] = Ownership!Nothing]
        /\ UNCHANGED <<Ownership!disk, Ownership!os, v11, v13>>
        /\ UNCHANGED v14 \/ Ownership!Fault
    BY <1>1, Zenon DEF Ownership!Admit, Ownership!Decide, Ownership!Unreadable, Ownership!Fine
  <1>4. \/ v9' = [v9 EXCEPT ![r] = "eligible"] /\ v10' = [v10 EXCEPT ![r] = Ownership!ReclaimPolicy(verdict)]
        \/ v9' = [v9 EXCEPT ![r] = "over"] /\ v10' = v10
    BY <1>1
  <1>5. OwnershipTyped'
    <2>1. Ownership!Nothing \in OwnershipSights /\ Ownership!ReclaimPolicy(verdict) \in OwnershipModes
      BY DEF Ownership!Nothing, OwnershipSights, Ownership!ReclaimPolicy, OwnershipModes
    <2>2. v14' \in 0 .. LeaseFaults
      BY <1>0, <1>3, OwnershipAssumption DEF OwnershipTyped, Ownership!Fault
    <2> QED BY <1>0, <1>3, <1>4, <2>1, <2>2 DEF OwnershipTyped, Ownership!Places
  <1>6. OwnershipFrame(r)
    BY <1>0, <1>3, <1>4 DEF OwnershipTyped, OwnershipFrame
  <1>7. Ownership!HolderOK(r)' /\ Ownership!WitnessOK(r)' /\ Ownership!StaleOK(r)'
    BY <1>0, <1>3, <1>4 DEF OwnershipTyped, Ownership!HolderOK, Ownership!WitnessOK, Ownership!StaleOK,
       Ownership!Locking, Ownership!Early, Ownership!Late
  <1>8. OwnershipSteady(r)
    BY <1>0, <1>3, <1>4 DEF OwnershipTyped, OwnershipSteady, Ownership!Locking
  <1>9. ASSUME NEW d \in LeaseHolders \ {r} PROVE Ownership!SeenOK(d, r)'
    <2> SUFFICES ASSUME d \in v6, Ownership!Locking(d), v1 = d, ~Ownership!Beats(d), v9'[r] = "eligible",
                        d \in v4 \/ (d \in v8 /\ v9[d] \in Ownership!Late)
                 PROVE  ~v10'[r].reclaims
      BY <1>0, <1>3, <1>4 DEF OwnershipTyped, Ownership!SeenOK, Ownership!Locking, Ownership!Beats,
         Ownership!Recovering
    <2>1. Ownership!WitnessOK(d) /\ Ownership!SeenOK(d, r) /\ r \in Ownership!Recovering /\ d \notin v7
      BY <1>3, OwnershipInvIs DEF Ownership!Recovering, Ownership!HolderOK
    <2>2. d \in Ownership!Witnesses(v12[r])
      <3>1. CASE d \in v4
        BY <1>3, <2>1, <3>1 DEF Ownership!SeenOK, Ownership!Witnesses
      <3>2. CASE d \notin v4 /\ v3 = d
        <4>1. v12[r].owner = v3
          BY <1>3, <2>1, <3>2 DEF Ownership!SeenOK
        <4> QED BY <3>2, <4>1, OwnershipAssumption DEF Ownership!Witnesses
      <3>3. CASE d \notin v4 /\ v3 # d
        <4>1. v3 = None /\ d \in v5
          BY <2>1, <3>3 DEF Ownership!WitnessOK, Ownership!Late
        <4>2. v12[r].owner = v3 /\ d \in v12[r].releasing
          BY <1>3, <2>1, <3>3, <4>1 DEF Ownership!SeenOK
        <4> QED BY <4>1, <4>2 DEF Ownership!Witnesses
      <3> QED BY <3>1, <3>2, <3>3
    <2>3. verdict # "ABANDONED_OWNER_ELIGIBLE"
      BY <1>2, <2>1, <2>2, OwnershipAliveIsActive
    <2>4. v10'[r] = Ownership!ReclaimPolicy(verdict)
      BY <1>0, <1>3, <1>4 DEF OwnershipTyped
    <2>5. ~Ownership!ReclaimPolicy(verdict).reclaims
      BY <2>3, Zenon DEF Ownership!ReclaimPolicy
    <2> QED BY <2>4, <2>5
  <1> QED BY <1>5, <1>6, <1>7, <1>8, <1>9, OwnershipFitting DEF OwnershipFits

(* The invariant at the start.                                              *)
LEMMA OwnershipInitInv == Ownership!Init => Ownership!Inv
  <1> SUFFICES ASSUME Ownership!Init PROVE Ownership!Inv
    OBVIOUS
  <1>1. /\ Ownership!Nothing \in OwnershipSights /\ Ownership!Normal \in OwnershipModes
        /\ ~Ownership!Normal.reclaims
    BY DEF Ownership!Nothing, Ownership!Normal, OwnershipSights, OwnershipModes
  <1>2. v12 \in [LeaseHolders -> OwnershipSights] /\ v10 \in [LeaseHolders -> OwnershipModes]
    BY <1>1 DEF Ownership!Init
  <1>3. OwnershipTyped
    <2>1. /\ v9 \in [LeaseHolders -> Ownership!Places] /\ v11 \in [LeaseHolders -> OwnershipStates]
          /\ v14 \in 0 .. LeaseFaults
      BY OwnershipAssumption DEF Ownership!Init, Ownership!Places, OwnershipStates
    <2>2. v2 \in BOOLEAN /\ v13 \in BOOLEAN
      BY Zenon DEF Ownership!Init
    <2> QED BY <1>2, <2>1, <2>2 DEF Ownership!Init, OwnershipTyped
  <1>4. \A p \in LeaseHolders : Ownership!HolderOK(p) /\ Ownership!WitnessOK(p) /\ Ownership!StaleOK(p)
    BY <1>1, OwnershipAssumption DEF Ownership!Init, Ownership!HolderOK, Ownership!WitnessOK,
       Ownership!StaleOK, Ownership!Locking
  <1>5. \A p, q \in LeaseHolders : Ownership!SeenOK(p, q)
    BY DEF Ownership!Init, Ownership!SeenOK, Ownership!Locking
  <1> QED BY <1>3, <1>4, <1>5, OwnershipInvIs

(* Every step of a process keeps the invariant and stays in its frame.      *)
LEMMA OwnershipProcessKeeps ==
    ASSUME Ownership!Inv, NEW r \in LeaseHolders,
           Ownership!Acquires(r) \/ Ownership!Releases(r) \/ Ownership!Inspects(r) \/ Ownership!Die(r)
           \/ Ownership!ReusePid(r) \/ Ownership!Stall(r) \/ Ownership!Resume(r)
    PROVE  Ownership!Inv' /\ OwnershipFrame(r)
  <1>1. CASE Ownership!Acquires(r)
    <2>1. CASE Ownership!CreateAttempt(r, "idle") \/ Ownership!CreateAttempt(r, "eligible")
      BY <2>1, OwnershipCreateAttemptKeeps
    <2>2. CASE \E from \in {"locked", "swept", "owner"} : Ownership!AcquireFails(r, from)
      BY <2>2, OwnershipAcquireFailsKeeps
    <2> QED BY <1>1, <2>1, <2>2, OwnershipLockKeeps, OwnershipLockRefusedKeeps,
               OwnershipWithdrawAttemptKeeps, OwnershipSweepReleasingKeeps, OwnershipPublishOwnerKeeps,
               OwnershipAcquiredKeeps, OwnershipUndoPublishKeeps, OwnershipUndoOwnerKeeps,
               OwnershipUndoLockKeeps, OwnershipUndoReleasingKeeps DEF Ownership!Acquires
  <1>2. CASE Ownership!Releases(r)
    <2>1. CASE \E from \in {"release", "release-owner", "release-lock",
                            "release-rest"} : Ownership!ReleaseFails(r, from)
      BY <2>1, OwnershipReleaseFailsKeeps
    <2> QED BY <1>2, <2>1, OwnershipReleaseKeeps, OwnershipReleaseNothingKeeps,
               OwnershipReleasePublishKeeps, OwnershipReleaseOwnerKeeps, OwnershipReleaseLockKeeps,
               OwnershipReleasedKeeps, OwnershipCompromisedKeeps DEF Ownership!Releases
  <1>3. CASE Ownership!Inspects(r)
    BY <1>3, OwnershipObserveLockKeeps, OwnershipReadOwnerKeeps, OwnershipListAttemptsKeeps,
       OwnershipListReleasingKeeps, OwnershipAdmitKeeps,
       OwnershipRecheckKeeps DEF Ownership!Inspects
  <1> QED BY <1>1, <1>2, <1>3, OwnershipDieKeeps, OwnershipReusePidKeeps, OwnershipStallKeeps,
             OwnershipResumeKeeps

(* So does every step of the system.                                        *)
LEMMA OwnershipNextInv == Ownership!Inv /\ [Ownership!Next]_Ownership!vars => Ownership!Inv'
  <1> SUFFICES ASSUME Ownership!Inv, [Ownership!Next]_Ownership!vars PROVE Ownership!Inv'
    OBVIOUS
  <1>1. CASE UNCHANGED Ownership!vars
    <2> USE <1>1 DEF Ownership!vars, Ownership!disk, Ownership!os
    <2>1. OwnershipTyped'
      BY OwnershipInvIs DEF OwnershipTyped
    <2>2. (\A p \in LeaseHolders : Ownership!HolderOK(p) /\ Ownership!WitnessOK(p) /\ Ownership!StaleOK(p))'
      BY OwnershipInvIs DEF Ownership!HolderOK, Ownership!WitnessOK, Ownership!StaleOK, Ownership!Locking
    <2>3. (\A p, q \in LeaseHolders : Ownership!SeenOK(p, q))'
      BY OwnershipInvIs DEF Ownership!SeenOK, Ownership!Locking, Ownership!Beats, Ownership!Recovering
    <2> QED BY <2>1, <2>2, <2>3, OwnershipInvIsAfter
  <1>2. CASE Ownership!Next
    BY <1>2, OwnershipProcessKeeps, OwnershipAgeKeeps DEF Ownership!Next
  <1> QED BY <1>1, <1>2

(* Who acts for the installation.                                           *)
OwnershipHolds(p) == p \in v6 /\ Ownership!Locking(p) /\ v1 = p /\ v11[p] # "COMPROMISED"

(* The holder of the abstract lease, in those terms.                        *)
LEMMA OwnershipHolderIs ==
    /\ ~OwnershipHolds(v1) => Ownership!holder = None
    /\ OwnershipHolds(v1) => Ownership!holder = v1
  <1> DEFINE live == {p \in v6 : Ownership!Locking(p) /\ v1 = p /\ v11[p] # "COMPROMISED"}
  <1>1. Ownership!holder = IF live = {} THEN None ELSE CHOOSE p \in live : TRUE
    BY Zenon DEF Ownership!holder
  <1>2. ~OwnershipHolds(v1) => live = {}
    BY DEF OwnershipHolds
  <1>3. OwnershipHolds(v1) => live = {v1}
    BY DEF OwnershipHolds
  <1>4. live = {v1} => (CHOOSE p \in live : TRUE) = v1
    <2> HIDE DEF live
    <2> SUFFICES ASSUME live = {v1} PROVE (CHOOSE p \in live : TRUE) \in live
      OBVIOUS
    <2> QED OBVIOUS
  <1> HIDE DEF live
  <1> QED BY <1>1, <1>2, <1>3, <1>4

(* The same after a step.                                                   *)
LEMMA OwnershipHolderIsAfter ==
    (/\ ~OwnershipHolds(v1) => Ownership!holder = None
     /\ OwnershipHolds(v1) => Ownership!holder = v1)'
  BY OwnershipHolderIs, PTL

(* The types after a step that keeps the invariant.                         *)
LEMMA OwnershipTypedAfter == Ownership!Inv' => OwnershipTyped'
  BY OwnershipInvIs, PTL

(* A step that stays in its frame takes the lease from nobody who lives and *)
(* was not told.                                                            *)
LEMMA OwnershipFrameMoves ==
    ASSUME Ownership!Inv, Ownership!Inv', NEW r \in LeaseHolders, OwnershipFrame(r)
    PROVE  Ownership!LeaseMoves
  <1>1. OwnershipTyped /\ OwnershipTyped'
    BY OwnershipInvIs, OwnershipTypedAfter
  <1>2. CASE ~OwnershipHolds(v1) /\ ~OwnershipHolds(v1)'
    BY <1>2, OwnershipHolderIs, OwnershipHolderIsAfter DEF Ownership!LeaseMoves
  <1>3. CASE ~OwnershipHolds(v1) /\ OwnershipHolds(v1)'
    <2>1. v1' \in LeaseHolders
      BY <1>1, <1>3 DEF OwnershipTyped, OwnershipHolds
    <2> QED BY <1>3, <2>1, OwnershipHolderIs, OwnershipHolderIsAfter DEF Ownership!LeaseMoves,
               Ownership!Lease!Next, Ownership!Lease!Take
  <1>4. CASE OwnershipHolds(v1) /\ ~OwnershipHolds(v1)'
    <2>1. v1 # None
      BY <1>1, <1>4, OwnershipAssumption DEF OwnershipTyped, OwnershipHolds
    <2> QED BY <1>4, <2>1, OwnershipHolderIs, OwnershipHolderIsAfter DEF Ownership!LeaseMoves,
               Ownership!Lease!Next, Ownership!Lease!Leave
  <1>5. CASE OwnershipHolds(v1) /\ OwnershipHolds(v1)'
    <2>1. v1 \in LeaseHolders /\ v1' # None
      BY <1>1, <1>5, OwnershipAssumption DEF OwnershipTyped, OwnershipHolds
    <2>2. v1' = v1
      BY <1>5, <2>1 DEF OwnershipFrame, OwnershipHolds
    <2> QED BY <1>5, <2>2, OwnershipHolderIs, OwnershipHolderIsAfter DEF Ownership!LeaseMoves
  <1> QED BY <1>2, <1>3, <1>4, <1>5

(* No step lets anybody in before the holder has left, died or been told    *)
(* that it is compromised.                                                  *)
LEMMA OwnershipLeaseStep == Ownership!Inv /\ [Ownership!Next]_Ownership!vars => Ownership!LeaseMoves
  <1> SUFFICES ASSUME Ownership!Inv, [Ownership!Next]_Ownership!vars PROVE Ownership!LeaseMoves
    OBVIOUS
  <1>1. CASE UNCHANGED Ownership!vars
    BY <1>1 DEF Ownership!vars, Ownership!disk, Ownership!os, Ownership!LeaseMoves, Ownership!holder,
       Ownership!Locking
  <1>2. CASE Ownership!Age
    BY <1>2 DEF Ownership!Age, Ownership!os, Ownership!LeaseMoves, Ownership!holder, Ownership!Locking
  <1>3. ASSUME NEW r \in LeaseHolders,
               Ownership!Acquires(r) \/ Ownership!Releases(r) \/ Ownership!Inspects(r) \/ Ownership!Die(r)
               \/ Ownership!ReusePid(r) \/ Ownership!Stall(r) \/ Ownership!Resume(r)
        PROVE  Ownership!LeaseMoves
    BY <1>3, OwnershipProcessKeeps, OwnershipFrameMoves
  <1> QED BY <1>1, <1>2, <1>3 DEF Ownership!Next

(* Nobody has the lease at the start.                                       *)
LEMMA OwnershipLeaseInit == Ownership!Init => Ownership!Lease!Init
  <1> SUFFICES ASSUME Ownership!Init PROVE Ownership!holder = None
    BY DEF Ownership!Lease!Init
  <1> QED BY OwnershipHolderIs DEF Ownership!Init, OwnershipHolds, Ownership!Locking

(* A lock whose holder died is found abandoned.                             *)
LEMMA OwnershipRecoverable == Ownership!Inv => Ownership!AbandonedIsRecoverable
  <1> DEFINE found == [lock |-> v1, stale |-> TRUE, owner |-> v3,
                       attempts |-> v4, releasing |-> v5]
  <1> SUFFICES ASSUME Ownership!Inv, v1 # None, v9[v1] = "abandoned",
                      Ownership!Witnesses(found) \cap (v6 \cup v7) = {}
               PROVE  Ownership!Classify(found, FALSE) = "ABANDONED_OWNER_ELIGIBLE"
    BY Zenon DEF Ownership!AbandonedIsRecoverable
  <1>1. v1 \in LeaseHolders /\ Ownership!WitnessOK(v1)
    BY OwnershipInvIs DEF OwnershipTyped
  <1>2. found.lock = v1 /\ found.stale
    BY Zenon
  <1>3. Ownership!Witnesses(found) # {}
    BY <1>1, OwnershipAssumption DEF Ownership!WitnessOK, Ownership!Witnesses
  <1> HIDE DEF found
  <1>4. Ownership!Statuses(found) = {"PROCESS_DEAD"}
    BY <1>3 DEF Ownership!Statuses, Ownership!Status
  <1> QED BY <1>2, <1>4 DEF Ownership!Classify

------------------------------------------------------------------------------
(* BootstrapRecords: v1 file, v2 log, v3 queue, v4 call, v5 lost, v6 told,  *)
(* v7 faults.                                                               *)

(* What a call is, as a record.                                             *)
RecordsCall ==
    [at : Records!Places, key : Records!Keys, body : Records!Body, read : Records!Body,
     entries : SUBSET (RecordCallers \cup Records!Unreadable)]

(* Nothing is written and nobody calls.                                     *)
LEMMA RecordsInitInv ==
    ASSUME Records!Init
    PROVE  Records!Inv
  <1>1. Records!Typed
    <2>1. Records!Missing \in Records!Body
      BY RecordsAssumption DEF Records!Missing, Records!Body
    <2>2. v1 \in [Records!Records -> [current : Records!Body, previous : Records!Body]]
      BY <2>1 DEF Records!Init
    <2>3. Records!Idle \in RecordsCall
      BY <2>1 DEF Records!Idle, Records!Places, Records!Keys, RecordsCall
    <2>4. v3 \in [Records!Keys -> Seq(RecordCallers)]
      BY DEF Records!Init
    <2>5. DOMAIN v6 = Records!Keys /\ \A r \in Records!Records : v6[r] = {}
      BY DEF Records!Init, Records!Keys, Records!Records
    <2>6. v4 \in [RecordCallers -> RecordsCall]
      BY <2>3 DEF Records!Init
    <2>7. v5 \in BOOLEAN
      BY Zenon DEF Records!Init
    <2>8. v2 = {} /\ v7 \in 0 .. RecordFaults
      BY RecordsAssumption DEF Records!Init
    <2> QED BY <2>2, <2>4, <2>5, <2>6, <2>7, <2>8 DEF Records!Typed, RecordsCall
  <1>2. Records!InTurn("maintenance") /\ Records!InTurn("journal") /\ Records!OneCaller
    BY DEF Records!Init, Records!InTurn, Records!OneCaller, Records!Idle, Records!Keys
  <1>3. ASSUME NEW c \in RecordCallers PROVE Records!ReadStands(c)
    BY DEF Records!Init, Records!ReadStands, Records!Idle
  <1>4. ASSUME NEW r \in Records!Records PROVE Records!Kept(r)
    BY DEF Records!Init, Records!Kept, Records!Valid, Records!Missing, Records!Keys, Records!Records
  <1> QED BY <1>1, <1>2, <1>3, <1>4 DEF Records!Init, Records!Inv, Records!Keys

(* Of the calls of a key, only the one whose turn it is has begun.          *)
LEMMA RecordsOneWorks ==
    ASSUME Records!Inv, NEW c \in RecordCallers, v4[c].at # "idle", Records!Turn(c),
           NEW d \in RecordCallers, v4[d].at \notin {"idle", "load"}, v4[d].key = v4[c].key
    PROVE  d = c
  <1>1. CASE v4[c].key = "state"
    BY <1>1 DEF Records!Inv, Records!OneCaller
  <1>2. CASE v4[c].key # "state"
    <2> DEFINE k == v4[c].key
    <2>1. k \in {"maintenance", "journal"} /\ Records!InTurn(k)
      BY <1>2 DEF Records!Inv, Records!Typed, Records!Keys, RecordsCall
    <2>2. PICK i \in 1 .. Len(v3[k]) : v3[k][i] = d
      BY <2>1 DEF Records!InTurn
    <2>3. v3[k] \in Seq(RecordCallers) /\ v3[k] # <<>> /\ Head(v3[k]) = c
      BY <1>2, <2>1 DEF Records!Inv, Records!Typed, Records!Keys, Records!Turn, RecordsCall
    <2>4. i = 1
      BY <2>1, <2>2 DEF Records!InTurn
    <2> QED BY <2>2, <2>3, <2>4
  <1> QED BY <1>1, <1>2

(* What one call does to its own files leaves the others' reads as they     *)
(* were.                                                                    *)
LEMMA RecordsOthersStand ==
    ASSUME Records!Inv, NEW c \in RecordCallers, v4[c].at # "idle", Records!Turn(c),
           \A d \in RecordCallers \ {c} : v4'[d] = v4[d],
           \A r \in Records!Records : r # v4[c].key => v1'[r] = v1[r],
           v4[c].key # "journal" => v2' = v2
    PROVE  \A d \in RecordCallers \ {c} : Records!ReadStands(d)'
  <1> SUFFICES ASSUME NEW d \in RecordCallers \ {c} PROVE Records!ReadStands(d)'
    OBVIOUS
  <1>1. CASE v4[d].at \in {"idle", "load"}
    BY <1>1 DEF Records!Inv, Records!ReadStands
  <1>2. CASE v4[d].at \notin {"idle", "load"}
    <2>1. v4[d].key # v4[c].key
      BY <1>2, RecordsOneWorks
    <2>2. v4[d].at \in {"previous", "current", "verify", "append"}
      BY <1>2 DEF Records!Inv, Records!Typed, Records!Places, RecordsCall
    <2>3. CASE v4[d].at = "append"
      BY <2>1, <2>3 DEF Records!Inv, Records!ReadStands
    <2>4. CASE v4[d].at # "append"
      BY <2>1, <2>2, <2>4 DEF Records!Inv, Records!ReadStands
    <2> QED BY <2>3, <2>4
  <1> QED BY <1>1, <1>2

(* A call that ends leaves the front of its queue.                          *)
LEMMA RecordsLeaveInTurn ==
    ASSUME Records!Inv, NEW c \in RecordCallers, v4[c].at # "idle", Records!Turn(c), Records!Leave(c)
    PROVE  /\ v4' \in [RecordCallers -> RecordsCall]
           /\ v3' \in [Records!Keys -> Seq(RecordCallers)]
           /\ Records!InTurn("maintenance")' /\ Records!InTurn("journal")' /\ Records!OneCaller'
           /\ v4'[c] = Records!Idle /\ \A d \in RecordCallers \ {c} : v4'[d] = v4[d]
           /\ Records!ReadStands(c)'
  <1>1. Records!Idle \in RecordsCall
    BY RecordsAssumption DEF Records!Idle, Records!Places, Records!Keys, Records!Body, Records!Missing,
       RecordsCall
  <1>2. /\ v4' \in [RecordCallers -> RecordsCall]
        /\ v4'[c] = Records!Idle /\ \A d \in RecordCallers \ {c} : v4'[d] = v4[d]
    BY <1>1 DEF Records!Inv, Records!Typed, Records!Leave, RecordsCall
  <1>3. v3' \in [Records!Keys -> Seq(RecordCallers)]
    BY DEF Records!Inv, Records!Typed, Records!Leave, Records!Turn, RecordsCall
  <1>4. Records!OneCaller'
    BY <1>2 DEF Records!Inv, Records!OneCaller, Records!Idle
  <1>5. Records!ReadStands(c)'
    BY <1>2 DEF Records!ReadStands, Records!Idle
  <1>6. ASSUME NEW k \in {"maintenance", "journal"} PROVE Records!InTurn(k)'
    <2>1. CASE v4[c].key # k
      <3>1. v3'[k] = v3[k]
        BY <2>1 DEF Records!Inv, Records!Typed, Records!Leave, Records!Keys, RecordsCall
      <3>2. v3[k] \in Seq(RecordCallers) /\ \A i \in 1 .. Len(v3[k]) : v3[k][i] \in RecordCallers \ {c}
        BY <2>1 DEF Records!Inv, Records!Typed, Records!InTurn, Records!Keys, RecordsCall
      <3>3. \A d \in RecordCallers : v4'[d].at # "idle" => d # c
        BY <1>2 DEF Records!Idle
      <3>4. \A i \in 1 .. Len(v3[k]) : v4'[v3[k][i]] = v4[v3[k][i]]
        BY <1>2, <3>2
      <3>5. Records!InTurn(k)
        BY DEF Records!Inv
      <3> QED BY <1>2, <3>1, <3>3, <3>4, <3>5 DEF Records!InTurn
    <2>2. CASE v4[c].key = k
      <3> DEFINE q == v3[k]
                 n == Len(q)
      <3>1. q \in Seq(RecordCallers) /\ q # <<>> /\ q[1] = c /\ v3'[k] = Tail(q)
        BY <2>2 DEF Records!Inv, Records!Typed, Records!Keys, Records!Leave, Records!Turn, RecordsCall
      <3>2. n \in Nat \ {0} /\ Len(v3'[k]) = n - 1 /\ \A i \in 1 .. n - 1 : v3'[k][i] = q[i + 1]
        BY <3>1
      <3>3. \A i \in 2 .. n : q[i] \in RecordCallers \ {c} /\ v4'[q[i]] = v4[q[i]]
        BY <1>2, <3>1, <3>2 DEF Records!Inv, Records!InTurn
      <3>4. Records!InTurn(k)
        BY DEF Records!Inv
      <3>5. \A i \in 1 .. n - 1 : i + 1 \in 2 .. n /\ i + 1 \in 1 .. n /\ 1 # i + 1
        BY <3>2
      <3>6. ASSUME NEW i \in 1 .. Len(v3'[k])
            PROVE  /\ v4'[v3'[k][i]].at = "load" /\ v4'[v3'[k][i]].key = k
        <4>1. i \in 1 .. n - 1 /\ i + 1 \in 1 .. n /\ i + 1 > 1 /\ v3'[k][i] = q[i + 1]
          BY <3>2
        <4>2. v4'[q[i + 1]] = v4[q[i + 1]]
          BY <3>3, <3>5, <4>1
        <4> QED BY <3>4, <4>1, <4>2 DEF Records!InTurn
      <3>7. ASSUME NEW i \in 1 .. Len(v3'[k]), NEW j \in 1 .. Len(v3'[k]), v3'[k][i] = v3'[k][j]
            PROVE  i = j
        <4>1. i + 1 = j + 1
          BY <3>2, <3>4, <3>5, <3>7 DEF Records!InTurn
        <4> QED BY <3>2, <4>1
      <3>8. ASSUME NEW d \in RecordCallers, v4'[d].at # "idle", v4'[d].key = k
            PROVE  \E i \in 1 .. Len(v3'[k]) : v3'[k][i] = d
        <4>1. d # c /\ v4'[d] = v4[d]
          BY <1>2, <3>8 DEF Records!Idle
        <4>2. PICK i \in 1 .. n : q[i] = d
          BY <3>4, <3>8, <4>1 DEF Records!InTurn
        <4>3. i # 1 /\ i - 1 \in 1 .. n - 1 /\ (i - 1) + 1 = i
          BY <3>1, <3>2, <4>1, <4>2
        <4> QED BY <3>2, <4>2, <4>3
      <3> QED BY <3>6, <3>7, <3>8 DEF Records!InTurn
    <2> QED BY <2>1, <2>2
  <1> QED BY <1>2, <1>3, <1>4, <1>5, <1>6

(* A call that goes on stays where it is in its queue.                      *)
LEMMA RecordsGoInTurn ==
    ASSUME Records!Inv, NEW c \in RecordCallers, v4[c].at # "idle", Records!Turn(c), UNCHANGED v3,
           NEW new, new.at # "idle", new.key = v4[c].key, v4' = [v4 EXCEPT ![c] = new]
    PROVE  /\ Records!InTurn("maintenance")' /\ Records!InTurn("journal")' /\ Records!OneCaller'
           /\ v4'[c] = new /\ \A d \in RecordCallers \ {c} : v4'[d] = v4[d]
  <1>1. v4'[c] = new /\ \A d \in RecordCallers \ {c} : v4'[d] = v4[d]
    BY DEF Records!Inv, Records!Typed, RecordsCall
  <1>2. Records!OneCaller'
    BY <1>1 DEF Records!Inv, Records!OneCaller
  <1>3. ASSUME NEW k \in {"maintenance", "journal"} PROVE Records!InTurn(k)'
    <2>1. v3[k] \in Seq(RecordCallers) /\ \A i \in 1 .. Len(v3[k]) : v3[k][i] \in RecordCallers
      BY DEF Records!Inv, Records!Typed, Records!Keys, RecordsCall
    <2>2. ASSUME NEW i \in 1 .. Len(v3[k]), i > 1 PROVE v3[k][i] # c
      <3>1. v4[c].key = k => Head(v3[k]) = c /\ v3[k][1] = c /\ 1 \in 1 .. Len(v3[k])
        BY <2>1 DEF Records!Turn
      <3> QED BY <2>2, <3>1 DEF Records!Inv, Records!InTurn
    <2> QED BY <1>1, <2>1, <2>2 DEF Records!Inv, Records!InTurn
  <1> QED BY <1>1, <1>2, <1>3

(* A step of a call keeps the invariant when it keeps its own part of it.   *)
LEMMA RecordsStepKeeps ==
    ASSUME Records!Inv, NEW c \in RecordCallers, v4[c].at # "idle", Records!Turn(c),
           \/ Records!Leave(c)
           \/ \E new : /\ new.at # "idle" /\ new.key = v4[c].key
                      /\ v4' = [v4 EXCEPT ![c] = new] /\ UNCHANGED v3
                      /\ new \in RecordsCall,
           Records!Leave(c) \/ Records!ReadStands(c)',
           v1' \in [Records!Records -> [current : Records!Body,
                                        previous : Records!Body]],
           v2' \subseteq RecordCallers \cup Records!Unreadable,
           DOMAIN v6' = Records!Keys, \A r \in Records!Records : v6'[r] \subseteq Records!Body /\
             Records!Kept(r)',
           v5' \in BOOLEAN, v7' \in 0 .. RecordFaults,
           \A r \in Records!Records : r # v4[c].key => v1'[r] = v1[r],
           v4[c].key # "journal" => v2' = v2,
           v2' # Records!Unreadable => v6'["journal"] \subseteq v2'
    PROVE  Records!Inv'
  <1>1. CASE Records!Leave(c)
    <2>1. /\ v4' \in [RecordCallers -> RecordsCall]
          /\ v3' \in [Records!Keys -> Seq(RecordCallers)]
          /\ Records!InTurn("maintenance")' /\ Records!InTurn("journal")' /\ Records!OneCaller'
          /\ \A d \in RecordCallers \ {c} : v4'[d] = v4[d]
          /\ Records!ReadStands(c)'
      BY <1>1, RecordsLeaveInTurn
    <2>2. \A d \in RecordCallers \ {c} : Records!ReadStands(d)'
      BY <2>1, RecordsOthersStand
    <2> QED BY <2>1, <2>2 DEF Records!Inv, Records!Typed, RecordsCall
  <1>2. CASE ~Records!Leave(c)
    <2>1. PICK new : /\ new.at # "idle" /\ new.key = v4[c].key
                     /\ v4' = [v4 EXCEPT ![c] = new] /\ UNCHANGED v3
                     /\ new \in RecordsCall
      BY <1>2
    <2>2. /\ Records!InTurn("maintenance")' /\ Records!InTurn("journal")' /\ Records!OneCaller'
          /\ \A d \in RecordCallers \ {c} : v4'[d] = v4[d]
      BY <2>1, RecordsGoInTurn
    <2>3. \A d \in RecordCallers \ {c} : Records!ReadStands(d)'
      BY <2>2, RecordsOthersStand
    <2>4. v4' \in [RecordCallers -> RecordsCall]
      BY <2>1 DEF Records!Inv, Records!Typed, RecordsCall
    <2> QED BY <1>2, <2>1, <2>2, <2>3, <2>4 DEF Records!Inv, Records!Typed, RecordsCall
  <1> QED BY <1>1, <1>2

(* A new call waits behind the others.                                      *)
LEMMA RecordsBeginKeeps ==
    ASSUME Records!Inv, NEW c \in RecordCallers, NEW k \in Records!Keys, NEW v \in 1 .. MaxRevision,
           Records!Begin(c, k, v)
    PROVE  Records!Inv'
  <1> DEFINE new == [at |-> "load", key |-> k, read |-> Records!Missing, entries |-> {},
                     body |-> [revision |-> v, by |-> c]]
  <1>1. new \in RecordsCall
    BY RecordsAssumption DEF Records!Places, Records!Body, Records!Missing, RecordsCall
  <1>2. v4' = [v4 EXCEPT ![c] = new]
    BY DEF Records!Begin
  <1>3. v4'[c] = new /\ \A d \in RecordCallers \ {c} : v4'[d] = v4[d]
    BY <1>2 DEF Records!Inv, Records!Typed, RecordsCall
  <1>4. /\ v4' \in [RecordCallers -> RecordsCall]
        /\ new.at = "load" /\ new.key = k /\ Records!Valid(new.body)
    BY <1>1, <1>2, RecordsAssumption DEF Records!Inv, Records!Typed, Records!Valid, RecordsCall
  <1> HIDE DEF new
  <1>5. v3' \in [Records!Keys -> Seq(RecordCallers)]
    BY DEF Records!Inv, Records!Typed, Records!Begin, RecordsCall
  <1>6. Records!OneCaller'
    BY <1>3, <1>4 DEF Records!Inv, Records!OneCaller, Records!Begin
  <1>7. ASSUME NEW j \in {"maintenance", "journal"} PROVE Records!InTurn(j)'
    <2> DEFINE q == v3[j]
               n == Len(q)
    <2>1. Records!InTurn(j) /\ q \in Seq(RecordCallers) /\ n \in Nat /\ \A i \in 1 .. n : q[i] \in RecordCallers
      BY DEF Records!Inv, Records!Typed, Records!Keys, RecordsCall
    <2>2. \A i \in 1 .. n : q[i] # c
      BY <2>1 DEF Records!InTurn, Records!Begin
    <2>3. \A i \in 1 .. n : v4'[q[i]] = v4[q[i]]
      BY <1>3, <2>1, <2>2
    <2>4. CASE k # j
      <3>1. v3'[j] = q
        BY <2>4 DEF Records!Inv, Records!Typed, Records!Begin, Records!Keys, RecordsCall
      <3>2. \A d \in RecordCallers : v4'[d].key = j => v4'[d] = v4[d]
        BY <1>3, <1>4, <2>4
      <3> QED BY <2>1, <2>3, <3>1, <3>2 DEF Records!InTurn
    <2>5. CASE k = j
      <3>1. v3'[j] = Append(q, c)
        BY <2>5 DEF Records!Inv, Records!Typed, Records!Begin, Records!Keys, RecordsCall
      <3>2. Len(v3'[j]) = n + 1 /\ v3'[j][n + 1] = c /\ \A i \in 1 .. n : v3'[j][i] = q[i]
        BY <2>1, <3>1
      <3>3. \A i \in 1 .. n + 1 : i \in 1 .. n \/ i = n + 1
        BY <2>1
      <3>4. ASSUME NEW i \in 1 .. n + 1
            PROVE  /\ v4'[v3'[j][i]].at # "idle" /\ v4'[v3'[j][i]].key = j
                   /\ i > 1 => v4'[v3'[j][i]].at = "load"
        <4>1. CASE i = n + 1
          BY <1>3, <1>4, <2>5, <3>2, <4>1
        <4>2. CASE i \in 1 .. n
          <5>1. v3'[j][i] = q[i] /\ v4'[q[i]] = v4[q[i]] /\ q[i] \in RecordCallers
            BY <2>1, <2>3, <3>2, <4>2
          <5>2. v4[q[i]].at # "idle" /\ v4[q[i]].key = j /\ (i > 1 => v4[q[i]].at = "load")
            BY <2>1, <4>2 DEF Records!InTurn
          <5> QED BY <5>1, <5>2
        <4> QED BY <3>3, <4>1, <4>2
      <3>5. ASSUME NEW i \in 1 .. n + 1, NEW l \in 1 .. n + 1, v3'[j][i] = v3'[j][l]
            PROVE  i = l
        BY <2>1, <2>2, <3>2, <3>3, <3>5 DEF Records!InTurn
      <3>6. ASSUME NEW d \in RecordCallers, v4'[d].at # "idle", v4'[d].key = j
            PROVE  \E i \in 1 .. n + 1 : v3'[j][i] = d
        <4>1. CASE d = c
          BY <2>1, <3>2, <4>1
        <4>2. CASE d # c
          <5>1. PICK i \in 1 .. n : q[i] = d
            BY <1>3, <2>1, <3>6, <4>2 DEF Records!InTurn
          <5> QED BY <2>1, <3>2, <5>1
        <4> QED BY <4>1, <4>2
      <3> QED BY <3>2, <3>4, <3>5, <3>6 DEF Records!InTurn
    <2> QED BY <2>4, <2>5
  <1>8. ASSUME NEW d \in RecordCallers PROVE Records!ReadStands(d)'
    BY <1>3, <1>4 DEF Records!Inv, Records!ReadStands, Records!Begin
  <1>9. ASSUME NEW r \in Records!Records PROVE Records!Kept(r)'
    BY DEF Records!Inv, Records!Kept, Records!Begin
  <1> QED BY <1>4, <1>5, <1>6, <1>7, <1>8, <1>9 DEF Records!Inv, Records!Typed, Records!Begin, RecordsCall

(* A call that only ends.                                                   *)
LEMMA RecordsEndKeeps ==
    ASSUME Records!Inv, NEW c \in RecordCallers, v4[c].at # "idle", Records!Turn(c), Records!Leave(c),
           UNCHANGED <<v1, v2, v5, v6, v7>>
    PROVE  Records!Inv'
  <1>1. \A r \in Records!Records : Records!Kept(r)'
    BY DEF Records!Inv, Records!Kept
  <1> QED BY <1>1, RecordsStepKeeps DEF Records!Inv, Records!Typed, RecordsCall

(* Reads: what an authorized call has read is the current revision.         *)
LEMMA RecordsReadsKeeps ==
    ASSUME Records!Inv, NEW c \in RecordCallers, Records!Reads(c)
    PROVE  Records!Inv'
  <1> DEFINE r == v4[c].key
             body == v4[c].body
             l == Records!Load(r)
  <1>1. r \in Records!Records /\ v4[c].at = "load" /\ Records!Turn(c) /\ UNCHANGED <<v1, v2, v5, v6, v7>>
    BY DEF Records!Reads
  <1>2. CASE ~Records!Authorized(r, body)
    BY <1>1, <1>2, RecordsEndKeeps DEF Records!Reads
  <1>3. CASE Records!Authorized(r, body)
    <2> DEFINE at == IF l.status = "EMPTY" THEN "current" ELSE "previous"
               new == [v4[c] EXCEPT !.read = l.value, !.at = at]
    <2>1. \/ l.status = "EMPTY" /\ body.revision = 1
          \/ l.status = "CURRENT" /\ body.revision = l.value.revision + 1
      BY <1>1, <1>3 DEF Records!Authorized, Records!commit, Records!create, Records!advance,
         Records!loadUnlocked, Records!Records
    <2>2. /\ l.status = "EMPTY" => v1[r].current = Records!Missing /\ v1[r].previous = Records!Missing
          /\ l.status = "CURRENT" => Records!Valid(v1[r].current) /\ l.value = v1[r].current
          /\ l.value \in Records!Body
      BY <1>1, RecordsAssumption DEF Records!Load, Records!Inv, Records!Typed, Records!Body,
         Records!Missing, RecordsCall
    <2>3. v4' = [v4 EXCEPT ![c] = new] /\ UNCHANGED v3
      BY <1>3 DEF Records!Reads
    <2>4. /\ v4[c] \in RecordsCall
          /\ at \in {"current", "previous"}
      BY DEF Records!Inv, Records!Typed, RecordsCall
    <2>5. /\ new \in RecordsCall
          /\ new.at = at /\ new.key = r /\ new.read = l.value /\ new.body = body
      BY <2>2, <2>4 DEF Records!Places, RecordsCall
    <2>6. v4'[c] = new
      BY <2>3 DEF Records!Inv, Records!Typed, RecordsCall
    <2> HIDE DEF new
    <2>7. Records!ReadStands(c)'
      BY <1>1, <2>1, <2>2, <2>5, <2>6 DEF Records!ReadStands, Records!Inv
    <2>8. \A s \in Records!Records : Records!Kept(s)'
      BY <1>1 DEF Records!Inv, Records!Kept
    <2> QED BY <1>1, <2>3, <2>4, <2>5, <2>7, <2>8, RecordsStepKeeps DEF Records!Inv, Records!Typed,
               RecordsCall
  <1> QED BY <1>2, <1>3

(* A call that writes one of its files and goes on, or fails and ends.      *)
LEMMA RecordsWriteKeeps ==
    ASSUME Records!Inv, NEW c \in RecordCallers, NEW which \in {"previous", "current"},
           NEW content \in Records!Body,
           NEW next \in {"current", "verify"}, Records!Write(c, which, content, next),
           LET written == [v1 EXCEPT ![v4[c].key][which] = content] IN
           /\ \A r \in Records!Records : v1' = written => Records!Kept(r)'
           /\ v1' = written /\ v4'[c] = [v4[c] EXCEPT !.at = next] => Records!ReadStands(c)'
    PROVE  Records!Inv'
  <1> DEFINE r == v4[c].key
             written == [v1 EXCEPT ![r][which] = content]
  <1>1. v4[c].at = which /\ Records!Turn(c) /\ UNCHANGED <<v2, v5, v6>> /\ r \in Records!Records
    BY DEF Records!Inv, Records!ReadStands, Records!Write
  <1>2. /\ written \in [Records!Records -> [current : Records!Body, previous : Records!Body]]
        /\ \A s \in Records!Records : s # r => written[s] = v1[s]
    BY <1>1 DEF Records!Inv, Records!Typed, RecordsCall
  <1> HIDE DEF written
  <1>3. v1' \in {v1, written}
    BY DEF Records!Write, written
  <1>4. \A s \in Records!Records : Records!Kept(s)'
    <2>1. CASE v1' = written
      BY <2>1 DEF written
    <2>2. CASE v1' = v1
      BY <1>1, <2>2 DEF Records!Inv, Records!Kept
    <2> QED BY <1>3, <2>1, <2>2
  <1>5. v7' \in 0 .. RecordFaults
    BY RecordsAssumption DEF Records!Write, Records!Fault, Records!Inv, Records!Typed, RecordsCall
  <1>6. CASE Records!Leave(c)
    BY <1>1, <1>2, <1>3, <1>4, <1>5, <1>6, RecordsStepKeeps DEF Records!Inv, Records!Typed, RecordsCall
  <1>7. CASE ~Records!Leave(c)
    <2> DEFINE new == [v4[c] EXCEPT !.at = next]
    <2>1. v1' = written /\ v4' = [v4 EXCEPT ![c] = new] /\ UNCHANGED v3
      BY <1>7 DEF Records!Write, Records!Goes, written
    <2>2. new \in RecordsCall
      BY DEF Records!Inv, Records!Typed, Records!Places, RecordsCall
    <2>3. new.at # "idle" /\ new.key = r /\ v4'[c] = new
      BY <2>1 DEF Records!Inv, Records!Typed, RecordsCall
    <2>4. Records!ReadStands(c)'
      BY <2>1, <2>3 DEF written
    <2> HIDE DEF new
    <2> QED BY <1>1, <1>2, <1>3, <1>4, <1>5, <2>1, <2>2, <2>3, <2>4, RecordsStepKeeps DEF Records!Inv,
               Records!Typed, RecordsCall
  <1> QED BY <1>6, <1>7

(* WritePrevious: the previous file becomes a copy of the current one.      *)
LEMMA RecordsWritePreviousKeeps ==
    ASSUME Records!Inv, NEW c \in RecordCallers, Records!WritePrevious(c)
    PROVE  Records!Inv'
  <1> DEFINE r == v4[c].key
             read == v4[c].read
             written == [v1 EXCEPT ![r]["previous"] = read]
  <1>1. /\ v4[c].at = "previous" /\ r \in Records!Records /\ UNCHANGED v6 /\ read \in Records!Body
        /\ Records!Valid(read) /\ v1[r].current = read /\ v4[c].body.revision = read.revision + 1
    BY DEF Records!WritePrevious, Records!Write, Records!Inv, Records!Typed, Records!ReadStands, RecordsCall
  <1>2. ASSUME v1' = written PROVE v1'[r].current = read /\ v1'[r].previous = read
    BY <1>1, <1>2 DEF Records!Inv, Records!Typed, RecordsCall
  <1>3. ASSUME NEW s \in Records!Records, v1' = written PROVE Records!Kept(s)'
    <2>1. CASE s # r
      BY <1>1, <1>3, <2>1 DEF Records!Inv, Records!Typed, Records!Kept, RecordsCall
    <2>2. CASE s = r
      BY <1>1, <1>2, <1>3, <2>2 DEF Records!Inv, Records!Kept, Records!Valid, Records!Missing
    <2> QED BY <2>1, <2>2
  <1>4. ASSUME v1' = written, v4'[c] = [v4[c] EXCEPT !.at = "current"] PROVE Records!ReadStands(c)'
    <2>1. /\ v4'[c].at = "current" /\ v4'[c].key = r /\ v4'[c].read = read
          /\ v4'[c].body = v4[c].body /\ Records!Valid(v4[c].body)
      BY <1>1, <1>4 DEF Records!Inv, Records!Typed, Records!ReadStands, RecordsCall
    <2> QED BY <1>1, <1>2, <1>4, <2>1 DEF Records!ReadStands
  <1> QED BY <1>1, <1>3, <1>4, RecordsWriteKeeps DEF Records!WritePrevious

(* WriteCurrent: the body follows what is current.                          *)
LEMMA RecordsWriteCurrentKeeps ==
    ASSUME Records!Inv, NEW c \in RecordCallers, Records!WriteCurrent(c)
    PROVE  Records!Inv'
  <1> DEFINE r == v4[c].key
             body == v4[c].body
             now == v1[r]
             written == [v1 EXCEPT ![r]["current"] = body]
  <1>1. /\ v4[c].at = "current" /\ r \in Records!Records /\ UNCHANGED v6 /\ body \in Records!Body
        /\ Records!Valid(body)
        /\ \/ /\ Records!Valid(now.current) /\ now.previous = now.current
              /\ body.revision = now.current.revision + 1
           \/ now.current = Records!Missing /\ now.previous = Records!Missing /\ body.revision = 1
    BY DEF Records!WriteCurrent, Records!Write, Records!Inv, Records!Typed, Records!ReadStands, RecordsCall
  <1>2. ASSUME v1' = written PROVE v1'[r].current = body /\ v1'[r].previous = now.previous
    BY <1>1, <1>2 DEF Records!Inv, Records!Typed, RecordsCall
  <1>3. ASSUME NEW s \in Records!Records, v1' = written PROVE Records!Kept(s)'
    <2>1. CASE s # r
      BY <1>1, <1>3, <2>1 DEF Records!Inv, Records!Typed, Records!Kept, RecordsCall
    <2>2. CASE s = r
      <3>1. /\ now \in [current : Records!Body, previous : Records!Body] /\ Records!Kept(r)
            /\ v6'[r] = v6[r] /\ v6[r] \subseteq Records!Body
        BY <1>1 DEF Records!Inv, Records!Typed, RecordsCall
      <3>2. CASE Records!Valid(now.current) /\ now.previous = now.current /\
                   body.revision = now.current.revision + 1
        <4>1. v1'[r].current = body /\ v1'[r].previous = now.current
          BY <1>2, <1>3, <3>2
        <4>2. now.current.revision \in Nat /\ body.revision > now.current.revision /\ body.revision > 0
          BY <1>1, <3>1, <3>2, RecordsAssumption DEF Records!Body
        <4>3. \A b \in v6[r] : b.revision \in Nat /\ (now.current = b \/ now.current.revision > b.revision)
          BY <3>1, <3>2, RecordsAssumption DEF Records!Kept, Records!Body
        <4>4. \A b \in v6[r] : body.revision > b.revision
          BY <1>1, <4>2, <4>3, RecordsAssumption DEF Records!Body
        <4>5. \A b, e \in v6[r] : b.revision = e.revision => b = e
          BY <3>1 DEF Records!Kept
        <4>6. body # Records!Missing
          BY <4>2 DEF Records!Missing
        <4> HIDE DEF now, body, r, written
        <4> QED BY <2>2, <3>1, <3>2, <4>1, <4>2, <4>4, <4>5, <4>6 DEF Records!Kept, Records!Valid
      <3>3. CASE now.current = Records!Missing /\ now.previous = Records!Missing
        BY <1>1, <1>2, <1>3, <2>2, <3>1, <3>3 DEF Records!Kept, Records!Valid, Records!Missing, Records!Body
      <3> QED BY <1>1, <3>2, <3>3
    <2> QED BY <2>1, <2>2
  <1>4. ASSUME v1' = written, v4'[c] = [v4[c] EXCEPT !.at = "verify"] PROVE Records!ReadStands(c)'
    <2>1. v4'[c].at = "verify" /\ v4'[c].key = r /\ v4'[c].body = body
      BY <1>4 DEF Records!Inv, Records!Typed, RecordsCall
    <2> QED BY <1>1, <1>2, <1>4, <2>1 DEF Records!ReadStands
  <1> QED BY <1>1, <1>3, <1>4, RecordsWriteKeeps DEF Records!WriteCurrent

(* Verify: the caller is told of the current body.                          *)
LEMMA RecordsVerifyKeeps ==
    ASSUME Records!Inv, NEW c \in RecordCallers, Records!Verify(c)
    PROVE  Records!Inv'
  <1> DEFINE r == v4[c].key
             body == v4[c].body
  <1>1. /\ v4[c].at = "verify" /\ r \in Records!Records /\ Records!Turn(c) /\ Records!Leave(c)
        /\ UNCHANGED <<v1, v2, v5, v7>>
        /\ v1[r].current = body /\ body \in Records!Body /\ Records!Valid(body)
        /\ v6' = [v6 EXCEPT ![r] = @ \cup {body}]
    BY DEF Records!Verify, Records!Inv, Records!Typed, Records!ReadStands, RecordsCall
  <1>2. /\ DOMAIN v6' = Records!Keys /\ v6'[r] = v6[r] \cup {body} /\ v6'["journal"] = v6["journal"]
        /\ \A s \in Records!Records : s # r => v6'[s] = v6[s]
    BY <1>1 DEF Records!Inv, Records!Typed, Records!Keys, Records!Records, RecordsCall
  <1>3. ASSUME NEW s \in Records!Records PROVE v6'[s] \subseteq Records!Body /\ Records!Kept(s)'
    <2>1. CASE s # r
      BY <1>1, <1>2, <2>1 DEF Records!Inv, Records!Typed, Records!Kept, RecordsCall
    <2>2. CASE s = r
      <3>1. Records!Kept(r) /\ v6[r] \subseteq Records!Body
        BY <1>1 DEF Records!Inv, Records!Typed, RecordsCall
      <3> QED BY <1>1, <1>2, <2>2, <3>1 DEF Records!Kept, Records!Valid, Records!Missing, Records!Body
    <2> QED BY <2>1, <2>2
  <1> QED BY <1>1, <1>2, <1>3, RecordsStepKeeps DEF Records!Inv, Records!Typed, RecordsCall

(* readEntries: all of the journal.                                         *)
LEMMA RecordsReadEntriesKeeps ==
    ASSUME Records!Inv, NEW c \in RecordCallers, Records!readEntries(c)
    PROVE  Records!Inv'
  <1>1. v4[c].at = "load" /\ Records!Turn(c) /\ v4[c].key = "journal" /\ UNCHANGED <<v1, v2, v5, v6, v7>>
    BY DEF Records!readEntries
  <1>2. CASE v2 = Records!Unreadable
    BY <1>1, <1>2, RecordsEndKeeps DEF Records!readEntries
  <1>3. CASE v2 # Records!Unreadable
    <2> DEFINE new == [v4[c] EXCEPT !.entries = v2, !.at = "append"]
    <2>1. v4' = [v4 EXCEPT ![c] = new] /\ UNCHANGED v3
      BY <1>3 DEF Records!readEntries
    <2>2. v4[c] \in RecordsCall
      BY DEF Records!Inv, Records!Typed, RecordsCall
    <2>3. /\ new \in RecordsCall
          /\ new.at = "append" /\ new.key = "journal" /\ new.entries = v2 /\ new.body = v4[c].body
      BY <1>1, <2>2 DEF Records!Places, Records!Inv, Records!Typed, RecordsCall
    <2>4. v4'[c] = new
      BY <2>1 DEF Records!Inv, Records!Typed, RecordsCall
    <2> HIDE DEF new
    <2>5. Records!ReadStands(c)'
      BY <1>1, <1>3, <2>3, <2>4 DEF Records!ReadStands, Records!Inv
    <2>6. \A s \in Records!Records : Records!Kept(s)'
      BY <1>1 DEF Records!Inv, Records!Kept
    <2> QED BY <1>1, <2>1, <2>3, <2>5, <2>6, RecordsStepKeeps DEF Records!Inv, Records!Typed, RecordsCall
  <1> QED BY <1>2, <1>3

(* checkpoint: nothing of the journal is lost.                              *)
LEMMA RecordsCheckpointKeeps ==
    ASSUME Records!Inv, NEW c \in RecordCallers, Records!checkpoint(c)
    PROVE  Records!Inv'
  <1>1. /\ v4[c].at = "append" /\ Records!Turn(c) /\ Records!Leave(c) /\ UNCHANGED <<v1, v5>>
        /\ v4[c].key = "journal" /\ v2 # Records!Unreadable /\ v2' \in {v2, v2 \cup {c}}
    BY DEF Records!checkpoint, Records!Inv, Records!ReadStands
  <1>2. \/ v6' = v6
        \/ v2' = v2 \cup {c} /\ v6' = [v6 EXCEPT !["journal"] = @ \cup {c}]
    BY DEF Records!checkpoint, Records!Inv, Records!ReadStands
  <1>3. /\ DOMAIN v6' = Records!Keys /\ \A s \in Records!Records : v6'[s] = v6[s]
        /\ v6'["journal"] \subseteq v2'
    BY <1>1, <1>2 DEF Records!Inv, Records!Typed, Records!Keys, Records!Records, RecordsCall
  <1>4. v7' \in 0 .. RecordFaults
    BY RecordsAssumption DEF Records!checkpoint, Records!Fault, Records!Inv, Records!Typed, RecordsCall
  <1>5. \A s \in Records!Records : v6'[s] \subseteq Records!Body /\ Records!Kept(s)'
    BY <1>1, <1>3 DEF Records!Inv, Records!Typed, Records!Kept, RecordsCall
  <1>6. v2' \subseteq RecordCallers \cup Records!Unreadable
    BY <1>1 DEF Records!Inv, Records!Typed, RecordsCall
  <1> QED BY <1>1, <1>3, <1>4, <1>5, <1>6, RecordsStepKeeps DEF Records!Inv, Records!Typed, RecordsCall

(* Crash: nobody calls, and the files are as they were.                     *)
LEMMA RecordsCrashKeeps ==
    ASSUME Records!Inv, Records!Crash
    PROVE  Records!Inv'
  <1>1. Records!Idle \in RecordsCall
    BY RecordsAssumption DEF Records!Idle, Records!Places, Records!Keys, Records!Body, Records!Missing,
       RecordsCall
  <1>2. Records!Typed'
    <2>1. v4' \in [RecordCallers -> RecordsCall]
      BY <1>1 DEF Records!Crash
    <2>2. v3' \in [Records!Keys -> Seq(RecordCallers)]
      BY DEF Records!Crash
    <2>3. v5' \in BOOLEAN
      BY Zenon DEF Records!Crash
    <2>4. v7' \in 0 .. RecordFaults
      BY RecordsAssumption DEF Records!Inv, Records!Typed, Records!Crash, Records!Fault, RecordsCall
    <2> QED BY <2>1, <2>2, <2>3, <2>4 DEF Records!Inv, Records!Typed, Records!Crash, RecordsCall
  <1>3. Records!InTurn("maintenance")' /\ Records!InTurn("journal")' /\ Records!OneCaller'
    BY DEF Records!Crash, Records!InTurn, Records!OneCaller, Records!Idle, Records!Keys
  <1>4. (\A c \in RecordCallers : Records!ReadStands(c)') /\ (\A r \in Records!Records : Records!Kept(r)')
    BY DEF Records!Inv, Records!Crash, Records!ReadStands, Records!Kept, Records!Idle
  <1> QED BY <1>2, <1>3, <1>4 DEF Records!Inv, Records!Crash

(* LoseAuthority.                                                           *)
LEMMA RecordsLoseAuthorityKeeps ==
    ASSUME Records!Inv, Records!LoseAuthority
    PROVE  Records!Inv'
  BY RecordsAssumption DEF Records!Inv, Records!Typed, Records!LoseAuthority, Records!Fault, RecordsCall,
     Records!InTurn, Records!OneCaller, Records!ReadStands, Records!Kept

(* Damage: what is left answers at most one revision less, as evidence.     *)
LEMMA RecordsDamageKeeps ==
    ASSUME Records!Inv, Records!Damage
    PROVE  Records!Inv'
  <1>1. v7' \in 0 .. RecordFaults /\ UNCHANGED <<v3, v4, v5, v6>>
    BY RecordsAssumption DEF Records!Inv, Records!Typed, Records!Damage, Records!Fault, RecordsCall
  <1>2. Records!InTurn("maintenance")' /\ Records!InTurn("journal")' /\ Records!OneCaller'
    BY <1>1 DEF Records!Inv, Records!InTurn, Records!OneCaller
  <1>3. ASSUME NEW c \in RecordCallers PROVE Records!ReadStands(c)'
    BY <1>1 DEF Records!Inv, Records!ReadStands, Records!Damage
  <1>4. CASE v2' = Records!Unreadable /\ UNCHANGED v1
    BY <1>1, <1>2, <1>3, <1>4 DEF Records!Inv, Records!Typed, Records!Kept, RecordsCall
  <1>5. CASE ~(v2' = Records!Unreadable /\ UNCHANGED v1)
    <2>1. PICK r \in Records!Records, w \in {"current", "previous"}, bad \in {Records!Missing,
                                                                              Records!Invalid} :
              /\ Records!Valid(v1[r][w])
              /\ bad = Records!Missing => v1[r].current # Records!Missing /\ Records!Valid(v1[r].previous)
              /\ v1' = [v1 EXCEPT ![r][w] = bad]
              /\ UNCHANGED v2
      BY <1>5 DEF Records!Damage
    <2>2. bad \in Records!Body /\ ~Records!Valid(bad)
      BY RecordsAssumption DEF Records!Body, Records!Missing, Records!Invalid, Records!Valid
    <2>3. v1' \in [Records!Records -> [current : Records!Body, previous : Records!Body]] /\
            \A s \in Records!Records : s # r => v1'[s] = v1[s]
      BY <2>1, <2>2 DEF Records!Inv, Records!Typed, RecordsCall
    <2>4. /\ w = "current" => v1'[r].current = bad /\ v1'[r].previous = v1[r].previous
          /\ w = "previous" => v1'[r].previous = bad /\ v1'[r].current = v1[r].current
      BY <2>1 DEF Records!Inv, Records!Typed, RecordsCall
    <2>5. ASSUME NEW s \in Records!Records PROVE Records!Kept(s)'
      <3>1. CASE s # r
        BY <1>1, <2>3, <3>1 DEF Records!Inv, Records!Kept
      <3>2. CASE s = r
        <4>1. /\ v1[r] \in [current : Records!Body, previous : Records!Body] /\ Records!Kept(r)
              /\ v6'[r] = v6[r] /\ v6[r] \subseteq Records!Body
              /\ Records!Invalid # Records!Missing
          BY <1>1 DEF Records!Inv, Records!Typed, Records!Invalid, Records!Missing, RecordsCall
        <4>2. ~Records!Valid(Records!Missing) /\ ~Records!Valid(Records!Invalid)
          BY DEF Records!Valid, Records!Missing, Records!Invalid
        <4>3. CASE w = "current"
          BY <2>1, <2>2, <2>4, <3>2, <4>1, <4>2, <4>3 DEF Records!Kept, Records!Valid, Records!Body
        <4>4. CASE w = "previous"
          BY <2>1, <2>2, <2>4, <3>2, <4>1, <4>2, <4>4 DEF Records!Kept, Records!Valid, Records!Body
        <4> QED BY <4>3, <4>4
      <3> QED BY <3>1, <3>2
    <2> QED BY <1>1, <1>2, <1>3, <2>1, <2>3, <2>5 DEF Records!Inv, Records!Typed, RecordsCall
  <1> QED BY <1>4, <1>5

(* Every step keeps the invariant.                                          *)
LEMMA RecordsNextInv ==
    ASSUME Records!Inv, [Records!Next]_Records!vars
    PROVE  Records!Inv'
  <1>1. CASE UNCHANGED Records!vars
    BY <1>1 DEF Records!Inv, Records!Typed, Records!InTurn, Records!OneCaller, Records!ReadStands,
       Records!Kept, Records!vars, RecordsCall
  <1>2. ASSUME NEW c \in RecordCallers, Records!Revoked(c) PROVE Records!Inv'
    BY <1>2, RecordsEndKeeps DEF Records!Revoked
  <1> QED BY <1>1, <1>2, RecordsBeginKeeps, RecordsReadsKeeps, RecordsWritePreviousKeeps,
             RecordsWriteCurrentKeeps, RecordsVerifyKeeps, RecordsReadEntriesKeeps,
             RecordsCheckpointKeeps, RecordsCrashKeeps, RecordsLoseAuthorityKeeps, RecordsDamageKeeps DEF
             Records!Next

(* What the invariant says to whoever was told.                             *)
LEMMA RecordsInvSays ==
    ASSUME Records!Inv
    PROVE  Records!TypeOK /\ Records!KeptAsTold
  <1>1. Records!TypeOK
    BY DEF Records!Inv, Records!Typed, Records!TypeOK, Records!Body, RecordsCall
  <1>2. ASSUME NEW r \in Records!Records, NEW b \in v6[r]
        PROVE  LET l == Records!Load(r) IN
               /\ l.status = "CURRENT" => l.value = b \/ l.value.revision > b.revision
               /\ l.status = "RECOVERED_PREVIOUS" => l.value.revision + 1 >= b.revision
    <2>1. CASE Records!Valid(v1[r].current)
      <3>1. Records!Load(r) = [status |-> "CURRENT", value |-> v1[r].current]
        BY <2>1 DEF Records!Load, Records!Valid, Records!Missing
      <3> QED BY <1>2, <2>1, <3>1 DEF Records!Inv, Records!Kept
    <2>2. CASE ~Records!Valid(v1[r].current) /\ Records!Valid(v1[r].previous)
      <3>1. Records!Load(r) = [status |-> "RECOVERED_PREVIOUS", value |-> v1[r].previous]
        BY <2>2 DEF Records!Load, Records!Valid, Records!Missing
      <3> QED BY <1>2, <2>2, <3>1 DEF Records!Inv, Records!Kept
    <2>3. CASE ~Records!Valid(v1[r].current) /\ ~Records!Valid(v1[r].previous)
      BY <2>3 DEF Records!Load
    <2> QED BY <2>1, <2>2, <2>3
  <1>3. \A r \in Records!Records : \A b, d \in v6[r] : b.revision = d.revision => b = d
    BY DEF Records!Inv, Records!Kept
  <1> QED BY <1>1, <1>2, <1>3 DEF Records!Inv, Records!KeptAsTold

(* A current file changes to the revision that follows it, or to none.      *)
LEMMA RecordsAdvancesThen ==
    ASSUME Records!Inv, [Records!Next]_Records!vars
    PROVE  Records!CurrentAdvances
  <1> SUFFICES ASSUME NEW r \in Records!Records, v1'[r].current # v1[r].current, Records!Valid(v1'[r].current)
               PROVE  LET now == v1[r].current
                          next == v1'[r].current IN
                      \/ now = Records!Missing /\ next.revision = 1
                      \/ Records!Valid(now) /\ next.revision = now.revision + 1
    BY DEF Records!CurrentAdvances
  <1>1. ~Records!Damage
    <2> SUFFICES ASSUME Records!Damage PROVE FALSE
      OBVIOUS
    <2>1. v1' # v1
      OBVIOUS
    <2>2. PICK s \in Records!Records, w \in {"current", "previous"}, bad \in {Records!Missing,
                                                                              Records!Invalid} :
              v1' = [v1 EXCEPT ![s][w] = bad]
      BY <2>1 DEF Records!Damage
    <2>3. v1'[r].current \in {v1[r].current, bad}
      BY <2>2 DEF Records!Inv, Records!Typed, RecordsCall
    <2> QED BY <2>3 DEF Records!Valid, Records!Missing, Records!Invalid
  <1>2. ASSUME NEW c \in RecordCallers PROVE ~Records!WritePrevious(c)
    <2> SUFFICES ASSUME Records!WritePrevious(c) PROVE FALSE
      OBVIOUS
    <2>1. PICK s, content : v1' = v1 \/ v1' = [v1 EXCEPT ![s]["previous"] = content]
      BY DEF Records!WritePrevious, Records!Write
    <2>2. v1'[r].current = v1[r].current
      BY <2>1 DEF Records!Inv, Records!Typed
    <2> QED BY <2>2
  <1>3. PICK c \in RecordCallers : Records!WriteCurrent(c)
    BY <1>1, <1>2 DEF Records!Next, Records!vars, Records!Begin, Records!Revoked, Records!Reads,
       Records!Verify, Records!readEntries, Records!checkpoint, Records!Crash, Records!LoseAuthority
  <1>4. v1'[r].current = v4[c].body /\ r = v4[c].key /\ v4[c].at = "current"
    BY <1>3 DEF Records!WriteCurrent, Records!Write, Records!Inv, Records!Typed, RecordsCall
  <1> QED BY <1>4 DEF Records!Inv, Records!ReadStands

------------------------------------------------------------------------------
(* Provisioning: v1 catalog, v2 applied, v3 boot, v4 owner, v5 advisory, v6 *)
(* torn, v7 faults.                                                         *)

ProvisionSteps == Provision!Objects \cup {"reserve", "unreserve", "hostLease", "migrate"}

(* The objects, one by one.                                                 *)
LEMMA ProvisionObjectsAre ==
    Provision!Objects = {"roles", "migration", "durable", "database", "connectAcl", "publicAcl", "schema",
                         "schemaAcl",
               "table", "tableAcl", "function", "functionAcl", "fenceRow", "continuity", "vendor"}
  <1>1. Provision!Elements(Provision!DatabasePart) = {"roles", "migration", "durable", "database", "connectAcl"}
    BY DEF Provision!Elements, Provision!DatabasePart
  <1>2. Provision!Elements(Provision!SchemaPart) = {"connectAcl", "publicAcl", "schema", "schemaAcl",
                                                    "table", "tableAcl",
                                "function", "functionAcl", "fenceRow"}
    BY DEF Provision!Elements, Provision!SchemaPart
  <1> QED BY <1>1, <1>2 DEF Provision!Objects

(* What two plans contain and order, one after the other does.              *)
LEMMA ProvisionJoined ==
    ASSUME NEW s \in Seq(ProvisionSteps), NEW t \in Seq(ProvisionSteps)
    PROVE  /\ s \o t \in Seq(ProvisionSteps)
           /\ Provision!Elements(s \o t) = Provision!Elements(s) \cup Provision!Elements(t)
           /\ \A a, b \in ProvisionSteps :
                Provision!NeverAfter(s, a, b) /\ Provision!NeverAfter(t, a, b) /\
                  (b \notin Provision!Elements(s) \/ a \notin Provision!Elements(t)) =>
                  Provision!NeverAfter(s \o t, a, b)
  <1> DEFINE u == s \o t
             m == Len(s)
             n == Len(t)
  <1>1. /\ u \in Seq(ProvisionSteps) /\ m \in Nat /\ n \in Nat /\ Len(u) = m + n
        /\ \A i \in 1..m : u[i] = s[i]
        /\ \A i \in 1..n : u[m + i] = t[i]
        /\ DOMAIN u = 1..(m + n) /\ DOMAIN s = 1..m /\ DOMAIN t = 1..n
    OBVIOUS
  <1>2. \A i \in 1..(m + n) : i \in 1..m \/ (i - m \in 1..n /\ i = m + (i - m) /\ u[i] = t[i - m])
    BY <1>1
  <1> HIDE DEF u, m, n
  <1>3. ASSUME NEW i \in 1..(m + n) PROVE u[i] \in Provision!Elements(s) \cup Provision!Elements(t)
    BY <1>1, <1>2 DEF Provision!Elements
  <1>4. \A i \in 1..n : m + i \in 1..(m + n)
    BY <1>1
  <1>5. \A i \in 1..m : i \in 1..(m + n)
    BY <1>1
  <1>6. Provision!Elements(u) = Provision!Elements(s) \cup Provision!Elements(t)
    <2>1. Provision!Elements(s) \subseteq Provision!Elements(u)
      BY <1>1, <1>5 DEF Provision!Elements
    <2>2. Provision!Elements(t) \subseteq Provision!Elements(u)
      BY <1>1, <1>4 DEF Provision!Elements
    <2> QED BY <1>1, <1>3, <2>1, <2>2 DEF Provision!Elements
  <1>7. ASSUME NEW a \in ProvisionSteps, NEW b \in ProvisionSteps, Provision!NeverAfter(s, a, b),
               Provision!NeverAfter(t, a, b),
               b \notin Provision!Elements(s) \/ a \notin Provision!Elements(t),
               NEW i \in 1..(m + n), NEW j \in 1..(m + n), u[i] = a, u[j] = b
        PROVE  i <= j
    <2>1. CASE i \in 1..m /\ j \in 1..m
      BY <1>1, <1>7, <2>1 DEF Provision!NeverAfter, m
    <2>2. CASE i \in 1..m /\ j \notin 1..m
      BY <1>1, <2>2
    <2>3. CASE i \notin 1..m /\ j \notin 1..m
      <3>1. i - m \in 1..n /\ j - m \in 1..n /\ t[i - m] = a /\ t[j - m] = b
        BY <1>2, <1>7, <2>3
      <3>2. i - m <= j - m
        BY <1>7, <3>1 DEF Provision!NeverAfter, n
      <3> QED BY <1>1, <3>2
    <2>4. CASE i \notin 1..m /\ j \in 1..m
      <3>1. t[i - m] \in Provision!Elements(t) /\ s[j] \in Provision!Elements(s)
        BY <1>1, <1>2, <2>4 DEF Provision!Elements
      <3> QED BY <1>1, <1>2, <1>7, <2>4, <3>1
    <2> QED BY <2>1, <2>2, <2>3, <2>4
  <1>8. \A a, b \in ProvisionSteps :
           Provision!NeverAfter(s, a, b) /\ Provision!NeverAfter(t, a, b) /\
             (b \notin Provision!Elements(s) \/ a \notin Provision!Elements(t)) =>
             Provision!NeverAfter(u, a, b)
    BY <1>1, <1>7 DEF Provision!NeverAfter
  <1> QED BY <1>1, <1>6, <1>8 DEF u

(* A plan does everything, in order.                                        *)
LEMMA ProvisionPlanIsOrdered ==
    ASSUME NEW exists \in BOOLEAN
    PROVE  /\ Provision!Plan(exists) \in Seq(ProvisionSteps)
           /\ Provision!Elements(Provision!Plan(exists)) =
                ProvisionSteps
           /\ Provision!Ordered(Provision!Plan(exists))
  <1> DEFINE first == IF exists THEN <<"reserve">> \o
    Provision!DatabasePart ELSE Provision!DatabasePart \o <<"reserve">>
             lease == <<"unreserve", "hostLease">>
             early == first \o Provision!SchemaPart
             late == early \o lease
  <1>1. /\ <<"reserve">> \in Seq(ProvisionSteps) /\ Provision!DatabasePart \in Seq(ProvisionSteps)
        /\ Provision!SchemaPart \in Seq(ProvisionSteps)
        /\ lease \in Seq(ProvisionSteps) /\ Provision!CanonicalPart \in Seq(ProvisionSteps)
    BY ProvisionObjectsAre DEF ProvisionSteps, Provision!DatabasePart, Provision!SchemaPart,
       Provision!CanonicalPart
  <1>2. /\ Provision!Elements(<<"reserve">>) = {"reserve"}
        /\ Provision!Elements(lease) = {"unreserve", "hostLease"}
        /\ Provision!Elements(Provision!CanonicalPart) = {"migrate", "continuity", "vendor"}
    BY DEF Provision!Elements, Provision!CanonicalPart
  <1>3. /\ Provision!Elements(Provision!DatabasePart) = {"roles", "migration", "durable", "database",
                                                         "connectAcl"}
        /\ Provision!Elements(Provision!SchemaPart) = {"connectAcl", "publicAcl", "schema", "schemaAcl",
                                                       "table", "tableAcl",
                                   "function", "functionAcl", "fenceRow"}
    BY DEF Provision!Elements, Provision!DatabasePart, Provision!SchemaPart
  <1>4. ASSUME NEW s \in Seq(ProvisionSteps), NEW a \in ProvisionSteps, NEW b \in ProvisionSteps,
               a \notin Provision!Elements(s) \/ b \notin Provision!Elements(s)
        PROVE  Provision!NeverAfter(s, a, b)
    BY <1>4 DEF Provision!NeverAfter, Provision!Elements
  <1>5. /\ Provision!NeverAfter(lease, "unreserve", "unreserve")
        /\ Provision!NeverAfter(lease, "unreserve", "hostLease")
    BY DEF Provision!NeverAfter
  <1>6. {"reserve", "unreserve", "hostLease", "migrate"} \subseteq ProvisionSteps
    BY DEF ProvisionSteps
  <1>7. /\ first \in Seq(ProvisionSteps)
        /\ Provision!Elements(first) = {"reserve"} \cup Provision!Elements(Provision!DatabasePart)
    <2> DEFINE one == <<"reserve">>
    <2>1. one \in Seq(ProvisionSteps) /\ Provision!Elements(one) = {"reserve"}
      BY <1>1, <1>2
    <2> HIDE DEF one
    <2>2. /\ one \o Provision!DatabasePart \in Seq(ProvisionSteps)
          /\ Provision!Elements(one \o Provision!DatabasePart) =
                {"reserve"} \cup Provision!Elements(Provision!DatabasePart)
      BY <1>1, <2>1, ProvisionJoined
    <2>3. /\ Provision!DatabasePart \o one \in Seq(ProvisionSteps)
          /\ Provision!Elements(Provision!DatabasePart \o one) =
                {"reserve"} \cup Provision!Elements(Provision!DatabasePart)
      BY <1>1, <2>1, ProvisionJoined
    <2>4. first = one \o Provision!DatabasePart \/ first = Provision!DatabasePart \o one
      BY DEF one
    <2> QED BY <2>2, <2>3, <2>4
  <1> HIDE DEF first, lease
  <1>8. /\ early \in Seq(ProvisionSteps)
        /\ Provision!Elements(early) = Provision!Elements(first) \cup Provision!Elements(Provision!SchemaPart)
    BY <1>1, <1>7, ProvisionJoined
  <1>9. /\ "unreserve" \notin Provision!Elements(early) /\ "hostLease" \notin Provision!Elements(early)
        /\ "migrate" \notin Provision!Elements(early)
    BY <1>3, <1>7, <1>8
  <1> HIDE DEF early
  <1>10. /\ late \in Seq(ProvisionSteps)
         /\ Provision!Elements(late) = Provision!Elements(early) \cup {"unreserve", "hostLease"}
    BY <1>1, <1>2, <1>8, ProvisionJoined
  <1>11. /\ Provision!NeverAfter(late, "reserve", "unreserve")
         /\ Provision!NeverAfter(late, "reserve", "hostLease")
         /\ Provision!NeverAfter(late, "unreserve", "unreserve")
         /\ Provision!NeverAfter(late, "unreserve", "hostLease")
         /\ Provision!NeverAfter(late, "hostLease", "migrate")
    BY <1>1, <1>2, <1>4, <1>5, <1>6, <1>8, <1>9, ProvisionJoined
  <1> HIDE DEF late
  <1>12. Provision!Plan(exists) = late \o Provision!CanonicalPart
    BY DEF Provision!Plan, late, early, first, lease
  <1>13. /\ Provision!Plan(exists) \in Seq(ProvisionSteps)
         /\ Provision!Elements(Provision!Plan(exists)) =
                ProvisionSteps
    <2>1. /\ Provision!Plan(exists) \in Seq(ProvisionSteps)
          /\ Provision!Elements(Provision!Plan(exists)) =
                Provision!Elements(late) \cup Provision!Elements(Provision!CanonicalPart)
      BY <1>1, <1>10, <1>12, ProvisionJoined
    <2> QED BY <1>2, <1>3, <1>7, <1>8, <1>10, <2>1, ProvisionObjectsAre DEF ProvisionSteps
  <1>14. Provision!Ordered(Provision!Plan(exists))
    <2>1. \A a \in {"reserve", "unreserve",
                    "hostLease"}, b \in ProvisionSteps : Provision!NeverAfter(Provision!CanonicalPart, a, b)
      BY <1>1, <1>2, <1>4, <1>6
    <2>2. \A a, b \in ProvisionSteps :
            Provision!NeverAfter(late, a, b) /\ Provision!NeverAfter(Provision!CanonicalPart, a, b) /\
              a \notin Provision!Elements(Provision!CanonicalPart) =>
              Provision!NeverAfter(Provision!Plan(exists), a, b)
      BY <1>1, <1>10, <1>12, ProvisionJoined
    <2> QED BY <1>2, <1>6, <1>11, <2>1, <2>2 DEF Provision!Ordered
  <1> QED BY <1>13, <1>14

(* A boot in the model's types.                                             *)
ProvisionBootRecord == [pc : {"idle", "ready", "sent", "refused", "failed", "yielded", "host", "dead", "ghost"},
               plan : Seq(ProvisionSteps), half : BOOLEAN, build : Provision!Builds]

(* What is left of a plan after its first step.                             *)
LEMMA ProvisionTailOfPlan ==
    ASSUME NEW plan \in Seq(ProvisionSteps), plan # <<>>, Provision!Ordered(plan)
    PROVE  /\ Head(plan) \in Provision!Elements(plan) /\ Tail(plan) \in Seq(ProvisionSteps)
           /\ Provision!Ordered(Tail(plan))
           /\ Provision!Elements(plan) = {Head(plan)} \cup Provision!Elements(Tail(plan))
           /\ Head(plan) = "unreserve" => "unreserve" \notin Provision!Elements(Tail(plan)) /\
                "reserve" \notin Provision!Elements(plan)
           /\ Head(plan) = "hostLease" => "unreserve" \notin Provision!Elements(plan) /\
                "reserve" \notin Provision!Elements(plan)
           /\ Head(plan) = "migrate" => "hostLease" \notin Provision!Elements(plan)
  <1> DEFINE n == Len(plan)
             tail == Tail(plan)
  <1>1. /\ n \in Nat \ {0} /\ DOMAIN plan = 1..n /\ Head(plan) = plan[1]
        /\ tail \in Seq(ProvisionSteps) /\ Len(tail) = n - 1 /\ DOMAIN tail = 1..n - 1
        /\ \A i \in 1..n - 1 : tail[i] = plan[i + 1]
    OBVIOUS
  <1>2. /\ \A i \in 1..n - 1 : i + 1 \in 1..n
        /\ \A i \in 1..n : i = 1 \/ (i - 1 \in 1..n - 1 /\ plan[i] = tail[i - 1])
        /\ 1 \in 1..n
    BY <1>1
  <1> HIDE DEF n, tail
  <1>3. Provision!Elements(plan) = {Head(plan)} \cup Provision!Elements(tail)
    <2>1. ASSUME NEW i \in 1..n PROVE plan[i] \in {Head(plan)} \cup Provision!Elements(tail)
      BY <1>1, <1>2 DEF Provision!Elements
    <2>2. ASSUME NEW i \in 1..n - 1 PROVE tail[i] \in Provision!Elements(plan)
      BY <1>1, <1>2 DEF Provision!Elements
    <2>3. Head(plan) \in Provision!Elements(plan)
      BY <1>1, <1>2 DEF Provision!Elements
    <2> QED BY <1>1, <2>1, <2>2, <2>3 DEF Provision!Elements
  <1>4. ASSUME NEW a, NEW b, Provision!NeverAfter(plan, a, b), a # b
        PROVE  /\ Provision!NeverAfter(tail, a, b)
               /\ Head(plan) = b => a \notin Provision!Elements(plan)
    <2>1. ASSUME NEW i \in 1..n - 1, NEW j \in 1..n - 1, tail[i] = a, tail[j] = b PROVE i <= j
      <3>1. i + 1 <= j + 1
        BY <1>1, <1>2, <1>4, <2>1 DEF Provision!NeverAfter, n
      <3> QED BY <1>1, <3>1
    <2>2. ASSUME Head(plan) = b, NEW i \in 1..n, plan[i] = a PROVE FALSE
      <3>1. i <= 1
        BY <1>1, <1>2, <1>4, <2>2 DEF Provision!NeverAfter, n
      <3> QED BY <1>1, <1>4, <2>2, <3>1
    <2> QED BY <1>1, <2>1, <2>2 DEF Provision!NeverAfter, Provision!Elements
  <1>5. ASSUME NEW a, Provision!NeverAfter(plan, a, a)
        PROVE  /\ Provision!NeverAfter(tail, a, a)
               /\ Head(plan) = a => a \notin Provision!Elements(tail)
    <2>1. ASSUME NEW i \in 1..n - 1, NEW j \in 1..n - 1, tail[i] = a, tail[j] = a PROVE i <= j
      <3>1. i + 1 <= j + 1
        BY <1>1, <1>2, <1>5, <2>1 DEF Provision!NeverAfter, n
      <3> QED BY <1>1, <3>1
    <2>2. ASSUME Head(plan) = a, NEW i \in 1..n - 1, tail[i] = a PROVE FALSE
      <3>1. i + 1 <= 1
        BY <1>1, <1>2, <1>5, <2>2 DEF Provision!NeverAfter, n
      <3> QED BY <1>1, <3>1
    <2> QED BY <1>1, <2>1, <2>2 DEF Provision!NeverAfter, Provision!Elements
  <1>6. Head(plan) \in Provision!Elements(plan)
    BY <1>3
  <1> QED BY <1>1, <1>3, <1>4, <1>5, <1>6 DEF Provision!Ordered, tail

(* Nothing done is undone in the catalog.                                   *)
ProvisionGrows ==
  \A o \in Provision!Objects :
    /\ v1[o] = "exact" => v1'[o] = "exact"
    /\ v1[o] = "partial" => v1'[o] \in {"partial", "exact"}
    /\ v1'[o] = "strange" <=> v1[o] = "strange"

(* A statement, whoever is there to hear of it.                             *)
LEMMA ProvisionExecuteGrows ==
    ASSUME Provision!TypeOK, NEW p \in ProvisionBoots,
           Provision!Step(p) \in Provision!Objects \cup {"migrate"}, Provision!Execute(p)
    PROVE  /\ ProvisionGrows /\ v1' \in [Provision!Objects -> {"absent", "partial", "exact", "strange"}]
           /\ v2' \in 0..NewestMigration
           /\ \A o \in Provision!Objects : o # Provision!Step(p) => v1'[o] = v1[o]
           /\ Provision!Step(p) \in Provision!Objects =>
                v1'[Provision!Step(p)] = Provision!Effect(Provision!Step(p), v3[p].half) /\ v2' = v2
           /\ Provision!Step(p) = "migrate" => /\ UNCHANGED v1
                                     /\ v2' = IF v2 <= v3[p].build THEN v3[p].build ELSE v2
  <1>1. "migrate" \notin Provision!Objects
    BY ProvisionObjectsAre
  <1>2. v3[p].build \in 0..NewestMigration
    <2>1. v3[p].build \in Provision!Builds
      BY DEF Provision!TypeOK
    <2> QED BY <2>1, ProvisionAssumption DEF Provision!Builds
  <1>3. CASE Provision!Step(p) = "migrate"
    BY <1>1, <1>2, <1>3 DEF Provision!Execute, Provision!TypeOK, ProvisionGrows
  <1>4. CASE Provision!Step(p) # "migrate"
    <2> DEFINE o == Provision!Step(p)
    <2>1. o \in Provision!Objects /\ v1[o] \in {"absent", "partial", "exact", "strange"}
      BY <1>4 DEF Provision!TypeOK
    <2>2. v1' = [v1 EXCEPT ![o] = Provision!Effect(o, v3[p].half)] /\ v2' = v2
      BY <1>4 DEF Provision!Execute
    <2>3. /\ Provision!Effect(o, v3[p].half) \in {"absent", "partial", "exact", "strange"}
          /\ v1[o] = "exact" => Provision!Effect(o, v3[p].half) = "exact"
          /\ v1[o] = "partial" => Provision!Effect(o, v3[p].half) \in {"partial", "exact"}
          /\ Provision!Effect(o, v3[p].half) = "strange" <=> v1[o] = "strange"
      BY <2>1 DEF Provision!Effect
    <2> QED BY <1>4, <2>1, <2>2, <2>3 DEF Provision!TypeOK, ProvisionGrows
  <1> QED BY <1>3, <1>4

(* A step of one boot keeps the invariant when it keeps that boot's part    *)
(* and leaves to the others what they rely on.                              *)
LEMMA ProvisionStepKeeps ==
    ASSUME Provision!Inv, NEW p \in ProvisionBoots, Provision!TypeOK', ProvisionGrows, v6 \subseteq v6',
           \A q \in ProvisionBoots \ {p} : v3'[q] = v3[q],
           Provision!Ordered(v3'[p].plan), Provision!Sent(p)', p \in Provision!Acting' => Provision!Done(p)',
           \A q \in Provision!Booting' : v4' = q,
           \A q \in Provision!Acting \ {p} : v5 = q => v5' = q,
           \A q \in Provision!Acting \ {p} : "migrate" \notin Provision!Left(q) =>
               v2' = v2 /\ (v3'[p].pc = "ghost" => Provision!Step(p)' # "migrate"),
           \A o \in Provision!Objects : Provision!HalfDone(o)',
           v3'[p].pc = "refused" =>
               Provision!Step(p)' = "migrate" \/ v1'[Provision!Step(p)'] = "strange"
               \/ Provision!Step(p)' \in v6'
    PROVE  Provision!Inv'
  <1>1. ASSUME NEW q \in ProvisionBoots \ {p} PROVE Provision!Ordered(v3'[q].plan) /\ Provision!Sent(q)'
    <2>1. v3'[q] = v3[q] /\ Provision!Step(q)' = Provision!Step(q)
      BY DEF Provision!Step
    <2> QED BY <2>1 DEF Provision!Inv, Provision!TypeOK, Provision!Sent, ProvisionGrows
  <1>2. ASSUME NEW q \in Provision!Acting' \ {p} PROVE Provision!Done(q)'
    <2>1. q \in Provision!Acting \ {p} /\ v3'[q] = v3[q] /\ Provision!Left(q)' = Provision!Left(q)
      BY <1>2 DEF Provision!Acting, Provision!Left
    <2>2. ASSUME "migrate" \notin Provision!Left(q), NEW g \in ProvisionBoots,
                 v3'[g].pc = "ghost" PROVE Provision!Step(g)' # "migrate"
      BY <2>1, <2>2 DEF Provision!Inv, Provision!Done, Provision!Step
    <2> QED BY <2>1, <2>2 DEF Provision!Inv, Provision!Done, ProvisionGrows
  <1>3. ASSUME NEW q \in ProvisionBoots \ {p}, v3'[q].pc = "refused"
        PROVE  Provision!Step(q)' = "migrate" \/ v1'[Provision!Step(q)'] = "strange"
        \/ Provision!Step(q)' \in v6'
    <2>1. v3'[q] = v3[q] /\ Provision!Step(q)' = Provision!Step(q)
      BY DEF Provision!Step
    <2>2. Provision!Step(q) \in Provision!Objects \cup {"migrate"}
      BY <1>3, <2>1 DEF Provision!Inv, Provision!Sent
    <2> QED BY <1>3, <2>1, <2>2 DEF Provision!Inv, Provision!OnlyTornObjectsBlock, ProvisionGrows
  <1> QED BY <1>1, <1>2, <1>3 DEF Provision!Inv, Provision!OnlyTornObjectsBlock

(* A fresh or a complete cluster, and nobody boots.                         *)
LEMMA ProvisionInitInv ==
    ASSUME Provision!Init
    PROVE  Provision!Inv
  <1>1. PICK base \in {[o \in Provision!Objects |-> "absent"], Provision!Complete} :
           /\ \E strange \in Provision!Objects \cup {None} :
                v1 = [o \in Provision!Objects |-> IF o = strange THEN "strange" ELSE base[o]]
           /\ v2 \in IF base = Provision!Complete THEN Provision!Builds ELSE {0}
    BY DEF Provision!Init
  <1>2. /\ v1 \in [Provision!Objects -> {"absent", "partial", "exact", "strange"}]
        /\ \A o \in Provision!Objects : v1[o] # "partial"
    BY <1>1 DEF Provision!Complete
  <1>3. v2 \in 0..NewestMigration /\ v7 \in 0..ProvisionFaults
    BY <1>1, ProvisionAssumption DEF Provision!Builds, Provision!Init
  <1>4. v3 \in [ProvisionBoots -> ProvisionBootRecord] /\ \A p \in ProvisionBoots : v3[p].pc = "idle" /\
          v3[p].plan = <<>> /\ ~v3[p].half
    BY DEF Provision!Init, ProvisionBootRecord, Provision!Builds
  <1>5. Provision!TypeOK
    BY <1>2, <1>3, <1>4 DEF Provision!Init, Provision!TypeOK, ProvisionBootRecord, ProvisionSteps
  <1>6. ASSUME NEW p \in ProvisionBoots PROVE Provision!Ordered(v3[p].plan) /\ Provision!Sent(p)
    BY <1>4 DEF Provision!Ordered, Provision!NeverAfter, Provision!Sent
  <1> QED BY <1>2, <1>4, <1>5, <1>6 DEF Provision!Inv, Provision!OnlyTornObjectsBlock, Provision!Booting,
             Provision!Acting, Provision!HalfDone

(* What Done lets a boot count on.                                          *)
LEMMA ProvisionHoldsKey ==
    ASSUME Provision!Inv, NEW p \in Provision!Booting, v3[p].plan # <<>>,
           Provision!Step(p) \in {"unreserve", "migrate"}
    PROVE  /\ v5 = p
           /\ \A q \in Provision!Acting \ {p} : "migrate" \in Provision!Left(q)
  <1>1. /\ p \in ProvisionBoots /\ p \in Provision!Acting /\ Provision!Done(p)
        /\ v3[p].plan \in Seq(ProvisionSteps) /\ Provision!Ordered(v3[p].plan)
    BY DEF Provision!Booting, Provision!Acting, Provision!Inv, Provision!TypeOK, ProvisionSteps
  <1>2. /\ Provision!Step(p) \in Provision!Left(p)
        /\ (Provision!Step(p) = "unreserve" => "reserve" \notin Provision!Left(p))
        /\ Provision!Step(p) = "migrate" => "hostLease" \notin Provision!Left(p)
    BY <1>1, ProvisionTailOfPlan DEF Provision!Step, Provision!Left
  <1>3. v5 = p
    BY <1>1, <1>2 DEF Provision!Done
  <1>4. ASSUME NEW q \in Provision!Acting \ {p}, "migrate" \notin Provision!Left(q) PROVE FALSE
    <2>1. Provision!Done(q)
      BY DEF Provision!Inv
    <2>2. v5 = q
      BY <1>4, <2>1 DEF Provision!Done
    <2> QED BY <1>3, <2>2
  <1> QED BY <1>3, <1>4

(* Begin: everything is left to do.                                         *)
LEMMA ProvisionBeginKeeps ==
    ASSUME Provision!Inv, NEW p \in ProvisionBoots, Provision!Begin(p)
    PROVE  Provision!Inv'
  <1> DEFINE exists == v1["database"] # "absent"
             plan == Provision!Plan(exists)
  <1>1. plan \in Seq(ProvisionSteps) /\ Provision!Elements(plan) = ProvisionSteps /\ Provision!Ordered(plan)
    BY ProvisionPlanIsOrdered
  <1> HIDE DEF plan
  <1>2. PICK build \in Provision!Builds :
           v3' = [v3 EXCEPT ![p].pc = "ready", ![p].build = build, ![p].plan = plan]
    BY DEF Provision!Begin, plan
  <1> DEFINE new == [v3[p] EXCEPT !.pc = "ready", !.build = build, !.plan = plan]
  <1>3. v3[p] \in ProvisionBootRecord /\ v3[p].pc = "idle" /\ ~v3[p].half
    BY DEF Provision!Inv, Provision!TypeOK, ProvisionBootRecord, ProvisionSteps, Provision!Begin,
       Provision!Sent
  <1>4. /\ new \in ProvisionBootRecord /\ new.pc = "ready" /\ ~new.half /\ new.plan = plan
    BY <1>1, <1>3 DEF ProvisionBootRecord
  <1>5. v3' = [v3 EXCEPT ![p] = new]
    BY <1>2
  <1> HIDE DEF new
  <1>6. v3' \in [ProvisionBoots -> ProvisionBootRecord] /\ v3'[p] = new /\
          \A q \in ProvisionBoots \ {p} : v3'[q] = v3[q]
    BY <1>4, <1>5 DEF Provision!Inv, Provision!TypeOK, ProvisionBootRecord, ProvisionSteps
  <1>7. Provision!TypeOK'
    BY <1>6 DEF Provision!Inv, Provision!TypeOK, ProvisionBootRecord, ProvisionSteps, Provision!Begin
  <1>8. Provision!Left(p)' = ProvisionSteps
    BY <1>1, <1>4, <1>6 DEF Provision!Left
  <1>9. Provision!Ordered(v3'[p].plan) /\ Provision!Sent(p)' /\ Provision!Done(p)'
    BY <1>1, <1>4, <1>6, <1>8 DEF Provision!Sent, Provision!Done, ProvisionSteps
  <1>10. ASSUME NEW q \in Provision!Booting' PROVE v4' = q
    <2>1. CASE q # p
      <3>1. q \in Provision!Booting /\ v4 = q
        BY <1>6, <2>1 DEF Provision!Booting, Provision!Inv
      <3> QED BY <3>1 DEF Provision!Begin, Provision!Booting
    <2> QED BY <2>1 DEF Provision!Begin
  <1>11. ASSUME NEW o \in Provision!Objects PROVE Provision!HalfDone(o)'
    BY <1>3, <1>6 DEF Provision!Inv, Provision!HalfDone, Provision!Begin, Provision!Step
  <1>12. ProvisionGrows
    BY DEF Provision!Begin, ProvisionGrows
  <1> QED BY <1>4, <1>6, <1>7, <1>9, <1>10, <1>11, <1>12, ProvisionStepKeeps DEF Provision!Begin

(* A boot that goes elsewhere with the same plan.                           *)
LEMMA ProvisionGotoIs ==
    ASSUME Provision!Inv, NEW p \in ProvisionBoots,
           NEW pc \in {"idle", "ready", "sent", "refused", "failed", "yielded", "host", "dead", "ghost"},
           Provision!Goto(p, pc)
    PROVE  /\ v3' \in [ProvisionBoots -> ProvisionBootRecord] /\ \A q \in ProvisionBoots \ {p} : v3'[q] = v3[q]
           /\ v3'[p].pc = pc /\ v3'[p].plan = v3[p].plan /\ v3'[p].half = v3[p].half
           /\ v3'[p].build = v3[p].build /\ Provision!Step(p)' = Provision!Step(p)
           /\ Provision!Left(p)' = Provision!Left(p)
           /\ v3[p].plan \in Seq(ProvisionSteps) /\ Provision!Ordered(v3[p].plan)
  <1> DEFINE new == [v3[p] EXCEPT !.pc = pc]
  <1>1. /\ v3[p] \in ProvisionBootRecord /\ v3 \in [ProvisionBoots -> ProvisionBootRecord]
        /\ v3' = [v3 EXCEPT ![p] = new]
    BY DEF Provision!Inv, Provision!TypeOK, ProvisionBootRecord, ProvisionSteps, Provision!Goto
  <1>2. /\ new \in ProvisionBootRecord /\ new.pc = pc /\ new.plan = v3[p].plan /\ new.half = v3[p].half
        /\ new.build = v3[p].build /\ v3[p].plan \in Seq(ProvisionSteps)
    BY <1>1 DEF ProvisionBootRecord
  <1> HIDE DEF new
  <1>3. v3' \in [ProvisionBoots -> ProvisionBootRecord] /\ v3'[p] = new /\
          \A q \in ProvisionBoots \ {p} : v3'[q] = v3[q]
    BY <1>1, <1>2
  <1> QED BY <1>2, <1>3 DEF Provision!Step, Provision!Left, Provision!Inv

(* A boot that ends leaves what is done to the others.                      *)
LEMMA ProvisionEndKeeps ==
    ASSUME Provision!Inv, NEW p \in ProvisionBoots, NEW pc \in {"refused", "failed", "yielded", "dead"},
           Provision!Goto(p, pc),
           ProvisionGrows, v1' \in [Provision!Objects -> {"absent", "partial", "exact",
                                                          "strange"}], v2' \in 0..NewestMigration,
           v6 \subseteq v6', v6' \subseteq Provision!TwoStatements, v7' \in 0..ProvisionFaults,
           v4' \in {v4, None}, p \notin Provision!Booting => v4' = v4,
           v5' \in {v5, None}, v5 # p => v5' = v5,
           v2' = v2 \/ (\A q \in Provision!Acting \ {p} : "migrate" \in Provision!Left(q)),
           \A o \in Provision!Objects : Provision!HalfDone(o)',
           pc = "refused" =>
             /\ v3[p].plan # <<>> /\ Provision!Step(p) \in Provision!Objects \cup {"migrate"}
             /\ Provision!Step(p) = "migrate" \/ v1'[Provision!Step(p)] = "strange" \/ Provision!Step(p) \in v6'
    PROVE  Provision!Inv'
  <1>1. /\ v3' \in [ProvisionBoots -> ProvisionBootRecord] /\ \A q \in ProvisionBoots \ {p} : v3'[q] = v3[q]
        /\ v3'[p].pc = pc /\ v3'[p].plan = v3[p].plan
        /\ Provision!Step(p)' = Provision!Step(p) /\ Provision!Ordered(v3[p].plan)
    BY ProvisionGotoIs
  <1>2. Provision!TypeOK'
    BY <1>1 DEF Provision!Inv, Provision!TypeOK, ProvisionBootRecord, ProvisionSteps
  <1>3. p \notin Provision!Acting' /\ Provision!Sent(p)'
    BY <1>1 DEF Provision!Acting, Provision!Sent
  <1>4. ASSUME NEW q \in Provision!Booting' PROVE v4' = q
    <2>1. q # p /\ q \in Provision!Booting /\ v4 = q
      BY <1>1 DEF Provision!Booting, Provision!Inv
    <2>2. p \notin Provision!Booting
      BY <2>1 DEF Provision!Inv
    <2> QED BY <2>1, <2>2
  <1> QED BY <1>1, <1>2, <1>3, <1>4, ProvisionStepKeeps

(* A boot that advances has done its step.                                  *)
LEMMA ProvisionAdvanceKeeps ==
    ASSUME Provision!Inv, NEW p \in Provision!Booting,
           v3[p].plan # <<>>, Provision!Advance(p), UNCHANGED <<v4, v6, v7>>,
           ProvisionGrows, v1' \in [Provision!Objects -> {"absent", "partial", "exact",
                                                          "strange"}], v2' \in 0..NewestMigration,
           \A o \in Provision!Objects : o # Provision!Step(p) => v1'[o] = v1[o],
           Provision!Step(p) \in Provision!Objects => v1'[Provision!Step(p)] = "exact",
           v5' \in ProvisionBoots \cup {None},
           \A q \in Provision!Acting \ {p} : v5 = q => v5' = q,
           Provision!Step(p) \in {"reserve", "hostLease"} => v5' = p,
           Provision!Step(p) \notin {"reserve", "hostLease", "unreserve"} => v5' = v5,
           Provision!Step(p) # "migrate" => v2' = v2,
           Provision!Step(p) = "migrate" =>
             /\ v2' = v3[p].build /\ Provision!LockFree
             /\ \A q \in Provision!Acting \ {p} : "migrate" \in Provision!Left(q)
    PROVE  Provision!Inv'
  <1> DEFINE plan == v3[p].plan
             new == [v3[p] EXCEPT !.pc = "ready", !.plan = Tail(plan), !.half = FALSE]
  <1>1. /\ p \in ProvisionBoots /\ p \in Provision!Acting /\ Provision!Done(p)
        /\ v3[p] \in ProvisionBootRecord /\ v3 \in [ProvisionBoots -> ProvisionBootRecord]
        /\ plan \in Seq(ProvisionSteps) /\ Provision!Ordered(plan)
    BY DEF Provision!Booting, Provision!Acting, Provision!Inv, Provision!TypeOK, ProvisionBootRecord,
       ProvisionSteps
  <1>2. /\ Tail(plan) \in Seq(ProvisionSteps) /\ Provision!Ordered(Tail(plan))
        /\ Provision!Left(p) = {Provision!Step(p)} \cup Provision!Elements(Tail(plan))
        /\ Provision!Step(p) = "unreserve" => "unreserve" \notin Provision!Elements(Tail(plan)) /\
             "reserve" \notin Provision!Left(p)
        /\ Provision!Step(p) = "hostLease" => "unreserve" \notin Provision!Left(p) /\
             "reserve" \notin Provision!Left(p)
        /\ Provision!Step(p) = "migrate" => "hostLease" \notin Provision!Left(p)
    BY <1>1, ProvisionTailOfPlan DEF Provision!Step, Provision!Left
  <1>3. /\ new \in ProvisionBootRecord /\ new.pc = "ready" /\ new.plan = Tail(plan) /\ ~new.half
        /\ new.build = v3[p].build
        /\ v3' = [v3 EXCEPT ![p] = new]
    BY <1>1, <1>2 DEF ProvisionBootRecord, Provision!Advance
  <1> HIDE DEF new
  <1>4. v3' \in [ProvisionBoots -> ProvisionBootRecord] /\ v3'[p] = new /\
          \A q \in ProvisionBoots \ {p} : v3'[q] = v3[q]
    BY <1>1, <1>3
  <1>5. Provision!TypeOK'
    BY <1>4 DEF Provision!Inv, Provision!TypeOK, ProvisionBootRecord, ProvisionSteps
  <1>6. Provision!Left(p)' = Provision!Elements(Tail(plan))
    BY <1>3, <1>4 DEF Provision!Left
  <1>7. ASSUME NEW g \in ProvisionBoots,
               Provision!Step(p) = "migrate" \/ "migrate" \notin Provision!Left(p), v3'[g].pc = "ghost"
        PROVE  Provision!Step(g)' # "migrate"
    <2>1. g # p /\ v3'[g] = v3[g] /\ Provision!Step(g)' = Provision!Step(g)
      BY <1>3, <1>4, <1>7 DEF Provision!Step
    <2> QED BY <1>1, <1>7, <2>1 DEF Provision!LockFree, Provision!Done
  <1>8. Provision!Done(p)'
    <2>1. \A o \in Provision!Objects \ Provision!Elements(Tail(plan)) : v1'[o] = "exact"
      BY <1>1, <1>2 DEF Provision!Done, ProvisionGrows
    <2>2. "migrate" \notin Provision!Elements(Tail(plan)) =>
            /\ v2' = v3[p].build /\ "hostLease" \notin Provision!Elements(Tail(plan))
            /\ (Provision!Step(p) = "migrate" \/ "migrate" \notin Provision!Left(p))
      BY <1>1, <1>2 DEF Provision!Done
    <2>3. "hostLease" \notin Provision!Elements(Tail(plan)) =>
            "unreserve" \notin Provision!Elements(Tail(plan)) /\ "reserve" \notin Provision!Elements(Tail(plan))
      BY <1>1, <1>2 DEF Provision!Done
    <2>4. "reserve" \notin Provision!Elements(Tail(plan)) /\
            ("unreserve" \in Provision!Elements(Tail(plan)) \/
               "hostLease" \notin Provision!Elements(Tail(plan))) => v5' = p
      BY <1>1, <1>2 DEF Provision!Done
    <2> QED BY <1>3, <1>4, <1>6, <1>7, <2>1, <2>2, <2>3, <2>4 DEF Provision!Done
  <1>9. Provision!Sent(p)' /\ Provision!Ordered(v3'[p].plan)
    BY <1>2, <1>3, <1>4 DEF Provision!Sent
  <1>10. ASSUME NEW q \in Provision!Booting' PROVE v4' = q
    BY <1>4 DEF Provision!Booting, Provision!Inv
  <1>11. ASSUME NEW o \in Provision!Objects PROVE Provision!HalfDone(o)'
    <2>1. CASE o = Provision!Step(p)
      BY <2>1 DEF Provision!HalfDone
    <2>2. CASE o # Provision!Step(p)
      BY <1>4, <2>2 DEF Provision!HalfDone, Provision!Inv, Provision!Step
    <2> QED BY <2>1, <2>2
  <1> QED BY <1>1, <1>3, <1>4, <1>5, <1>8, <1>9, <1>10, <1>11, ProvisionStepKeeps

(* A boot that leaves.                                                      *)
LEMMA ProvisionLeaveKeeps ==
    ASSUME Provision!Inv, NEW p \in Provision!Booting, NEW pc \in {"refused", "failed", "yielded"},
           Provision!Leave(p, pc),
           v3[p].pc = "ready" \/ Provision!Step(p) = "migrate",
           pc = "refused" =>
             /\ v3[p].plan # <<>> /\ Provision!Step(p) \in Provision!Objects \cup {"migrate"}
             /\ Provision!Step(p) = "migrate" \/ v1[Provision!Step(p)] = "strange" \/ Provision!Step(p) \in v6
    PROVE  Provision!Inv'
  <1>1. p \in ProvisionBoots /\ UNCHANGED <<v1, v2, v6, v7>> /\ Provision!Goto(p, pc)
    BY DEF Provision!Leave, Provision!Booting
  <1>2. ASSUME NEW o \in Provision!Objects PROVE Provision!HalfDone(o)'
    <2>1. \A q \in ProvisionBoots \ {p} : v3'[q] = v3[q] /\ Provision!Step(q)' = Provision!Step(q)
      BY <1>1, ProvisionGotoIs DEF Provision!Step
    <2>2. "migrate" \notin Provision!TwoStatements
      BY DEF Provision!TwoStatements
    <2> QED BY <1>1, <2>1, <2>2 DEF Provision!Inv, Provision!HalfDone
  <1>3. ProvisionGrows
    BY <1>1 DEF ProvisionGrows
  <1> QED BY <1>1, <1>2, <1>3, ProvisionEndKeeps DEF Provision!Inv, Provision!TypeOK, Provision!Leave

(* Reserve and Unreserve: the key of the Hosts is taken and given back.     *)
LEMMA ProvisionReserveKeeps ==
    ASSUME Provision!Inv, NEW p \in ProvisionBoots, Provision!Reserve(p) \/ Provision!Unreserve(p)
    PROVE  Provision!Inv'
  <1>1. /\ v3[p].pc = "ready" /\ v3[p].plan # <<>> /\ p \in Provision!Booting
        /\ Provision!Step(p) \in {"reserve", "unreserve", "hostLease"}
        /\ Provision!Step(p) \notin Provision!Objects
    BY ProvisionObjectsAre DEF Provision!Reserve, Provision!Unreserve, Provision!Booting
  <1>2. Provision!Inv /\ Provision!TypeOK
    BY DEF Provision!Inv
  <1>3. CASE Provision!Unreserve(p)
    <2>1. /\ Provision!Step(p) = "unreserve" /\ v5' = None /\ Provision!Advance(p)
          /\ UNCHANGED <<v1, v2, v4, v6, v7>>
      BY <1>3 DEF Provision!Unreserve
    <2>2. \A q \in Provision!Acting \ {p} : v5 # q
      BY <1>1, <2>1, ProvisionHoldsKey
    <2>3. ProvisionGrows
      BY <2>1 DEF ProvisionGrows
    <2> QED BY <1>1, <1>2, <2>1, <2>2, <2>3, ProvisionAdvanceKeeps DEF Provision!TypeOK
  <1>4. CASE Provision!Reserve(p) /\ v5 = None
    <2>1. /\ v5' = p /\ Provision!Advance(p) /\ UNCHANGED <<v1, v2, v4, v6, v7>>
          /\ Provision!Step(p) \in {"reserve", "hostLease"}
      BY <1>4 DEF Provision!Reserve
    <2>2. \A q \in Provision!Acting \ {p} : v5 # q
      BY <1>4, ProvisionAssumption DEF Provision!Acting
    <2>3. ProvisionGrows
      BY <2>1 DEF ProvisionGrows
    <2> QED BY <1>1, <1>2, <2>1, <2>2, <2>3, ProvisionAdvanceKeeps DEF Provision!TypeOK
  <1>5. CASE Provision!Reserve(p) /\ v5 # None
    <2>1. PICK pc \in {"yielded", "failed"} : Provision!Leave(p, pc)
      BY <1>5 DEF Provision!Reserve
    <2> QED BY <1>1, <2>1, ProvisionLeaveKeeps
  <1> QED BY <1>3, <1>4, <1>5

(* Look: an object is refused, written or accepted.                         *)
LEMMA ProvisionLookKeeps ==
    ASSUME Provision!Inv, NEW p \in ProvisionBoots, Provision!Look(p)
    PROVE  Provision!Inv'
  <1>1. /\ v3[p].pc = "ready" /\ v3[p].plan # <<>> /\ p \in Provision!Booting /\ p \in Provision!Acting
        /\ Provision!Step(p) \in Provision!Objects \cup {"migrate"} /\ "migrate" \notin Provision!Objects
        /\ Provision!Refuse(p) \/ Provision!Send(p) \/ Provision!Accept(p)
    BY ProvisionObjectsAre DEF Provision!Look, Provision!Booting, Provision!Acting, Provision!EnsureRole,
       Provision!EnsureDatabase, Provision!EnsureDatabasePrivileges,
       Provision!EnsurePublicSchemaPrivileges, Provision!EnsureProductSchema, Provision!EnsureFenceTable,
       Provision!EnsureFenceLockFunction, Provision!EnsureFenceRow, Provision!InitializeCanonicalSchema,
       Provision!MaterializeContinuity, Provision!EnsureVendorSchema, Provision!Ensure, Provision!Set
  <1>2. Provision!TypeOK /\ Provision!Sent(p) /\ Provision!Done(p) /\ v4 = p /\ ~v3[p].half
    BY <1>1 DEF Provision!Inv, Provision!Sent
  <1>3. CASE Provision!Refuse(p)
    <2>1. /\ Provision!Step(p) \in Provision!Objects /\ Provision!Step(p) # "migrate"
          /\ v1[Provision!Step(p)] \in {"partial", "strange"}
      BY <1>1, <1>2, <1>3 DEF Provision!Refuse, Provision!Acceptable, Provision!TypeOK
    <2>2. ASSUME v1[Provision!Step(p)] = "partial" PROVE Provision!Step(p) \in v6
      <3>1. Provision!Step(p) \notin Provision!Resumable /\ Provision!HalfDone(Provision!Step(p))
        BY <1>3, <2>1, <2>2 DEF Provision!Refuse, Provision!Acceptable, Provision!Inv
      <3>2. ASSUME NEW q \in ProvisionBoots, v3[q].pc = "sent" PROVE FALSE
        <4>1. v4 = q
          BY <3>2 DEF Provision!Inv, Provision!Booting
        <4> QED BY <1>1, <1>2, <3>2, <4>1
      <3> QED BY <2>2, <3>1, <3>2 DEF Provision!HalfDone
    <2> QED BY <1>1, <1>3, <2>1, <2>2, ProvisionLeaveKeeps DEF Provision!Refuse
  <1>4. CASE Provision!Send(p)
    <2>1. Provision!Goto(p, "sent") /\ UNCHANGED <<v1, v2, v4, v5, v6, v7>> /\ Provision!Acceptable(p)
      BY <1>4 DEF Provision!Send
    <2>2. /\ v3' \in [ProvisionBoots -> ProvisionBootRecord] /\ \A q \in ProvisionBoots \ {p} : v3'[q] = v3[q]
          /\ v3'[p].pc = "sent" /\ v3'[p].plan = v3[p].plan /\ v3'[p].half = v3[p].half
          /\ v3'[p].build = v3[p].build /\ Provision!Step(p)' = Provision!Step(p)
          /\ Provision!Left(p)' = Provision!Left(p) /\ Provision!Ordered(v3[p].plan)
      BY <2>1, ProvisionGotoIs
    <2>3. Provision!TypeOK'
      BY <1>2, <2>1, <2>2 DEF Provision!TypeOK, ProvisionBootRecord, ProvisionSteps
    <2>4. Provision!Sent(p)'
      BY <1>1, <1>2, <2>1, <2>2 DEF Provision!Sent, Provision!Acceptable
    <2>5. ASSUME NEW g \in ProvisionBoots,
                 v3'[g].pc = "ghost" PROVE v3[g].pc = "ghost" /\ Provision!Step(g)' = Provision!Step(g)
      BY <2>2, <2>5 DEF Provision!Step
    <2>6. Provision!Done(p)'
      BY <1>2, <2>1, <2>2, <2>5 DEF Provision!Done
    <2>7. ASSUME NEW q \in Provision!Booting' PROVE v4' = q
      BY <1>1, <2>1, <2>2 DEF Provision!Inv, Provision!Booting
    <2>8. ASSUME NEW o \in Provision!Objects PROVE Provision!HalfDone(o)'
      BY <1>1, <2>1, <2>2 DEF Provision!Inv, Provision!HalfDone, Provision!Step
    <2>9. ProvisionGrows
      BY <2>1 DEF ProvisionGrows
    <2> QED BY <2>1, <2>2, <2>3, <2>4, <2>6, <2>7, <2>8, <2>9, ProvisionStepKeeps
  <1>5. CASE Provision!Accept(p)
    <2>1. Provision!Step(p) \in Provision!Objects /\ v1[Provision!Step(p)] = "exact"
      BY <1>1, <1>5 DEF Provision!Accept, Provision!Writes
    <2>2. Provision!Step(p) \notin {"reserve", "hostLease", "unreserve", "migrate"}
      BY <2>1, ProvisionObjectsAre
    <2>3. ProvisionGrows
      BY <1>5 DEF Provision!Accept, ProvisionGrows
    <2> QED BY <1>1, <1>2, <1>5, <2>1, <2>2, <2>3, ProvisionAdvanceKeeps DEF Provision!Accept,
               Provision!TypeOK
  <1> QED BY <1>1, <1>3, <1>4, <1>5

(* Admit: everything is done, and the key is kept.                          *)
LEMMA ProvisionAdmitKeeps ==
    ASSUME Provision!Inv, NEW p \in ProvisionBoots, Provision!Admit(p)
    PROVE  Provision!Inv'
  <1>1. /\ v3[p].pc = "ready" /\ v3[p].plan = <<>> /\ p \in Provision!Booting /\ p \in Provision!Acting
        /\ Provision!Goto(p, "host") /\ v4' = None /\ UNCHANGED <<v1, v2, v5, v6, v7>>
    BY DEF Provision!Admit, Provision!Booting, Provision!Acting
  <1>2. Provision!TypeOK /\ Provision!Sent(p) /\ Provision!Done(p) /\ v4 = p
    BY <1>1 DEF Provision!Inv
  <1>3. /\ v3' \in [ProvisionBoots -> ProvisionBootRecord] /\ \A q \in ProvisionBoots \ {p} : v3'[q] = v3[q]
        /\ v3'[p].pc = "host" /\ v3'[p].plan = v3[p].plan
        /\ v3'[p].build = v3[p].build /\ Provision!Step(p)' = Provision!Step(p)
        /\ Provision!Left(p)' = Provision!Left(p) /\ Provision!Ordered(v3[p].plan)
    BY <1>1, ProvisionGotoIs
  <1>4. Provision!TypeOK'
    BY <1>1, <1>2, <1>3 DEF Provision!TypeOK, ProvisionBootRecord, ProvisionSteps
  <1>5. Provision!Sent(p)'
    BY <1>1, <1>3 DEF Provision!Sent
  <1>6. ASSUME NEW g \in ProvisionBoots,
               v3'[g].pc = "ghost" PROVE v3[g].pc = "ghost" /\ Provision!Step(g)' = Provision!Step(g)
    BY <1>3, <1>6 DEF Provision!Step
  <1>7. Provision!Done(p)'
    BY <1>1, <1>2, <1>3, <1>6 DEF Provision!Done
  <1>8. \A q \in Provision!Booting' : v4' = q
    BY <1>1, <1>2, <1>3 DEF Provision!Inv, Provision!Booting
  <1>9. ASSUME NEW o \in Provision!Objects PROVE Provision!HalfDone(o)'
    BY <1>1, <1>3 DEF Provision!Inv, Provision!HalfDone, Provision!Step
  <1>10. ProvisionGrows
    BY <1>1 DEF ProvisionGrows
  <1> QED BY <1>1, <1>3, <1>4, <1>5, <1>7, <1>8, <1>9, <1>10, ProvisionStepKeeps

(* Land: the answer is an error, half of the object, or the whole of it.    *)
LEMMA ProvisionLandKeeps ==
    ASSUME Provision!Inv, NEW p \in ProvisionBoots, Provision!Land(p)
    PROVE  Provision!Inv'
  <1> DEFINE o == Provision!Step(p)
             half == v3[p].half
  <1>1. /\ v3[p].pc = "sent" /\ v3[p].plan # <<>> /\ p \in Provision!Booting /\ p \in Provision!Acting
        /\ o \in Provision!Objects /\ o # "migrate" /\ Provision!Execute(p) /\ UNCHANGED <<v6, v7>>
        /\ o \notin {"reserve", "hostLease", "unreserve"}
        /\ v1[o] \in IF half THEN {"partial", "exact"} ELSE {"absent", "partial", "exact"}
    BY ProvisionObjectsAre DEF Provision!Land, Provision!Inv, Provision!Sent, Provision!Booting,
       Provision!Acting
  <1>2. /\ Provision!TypeOK /\ Provision!Done(p) /\ v4 = p /\ v3[p] \in ProvisionBootRecord
        /\ Provision!Ordered(v3[p].plan)
    BY <1>1 DEF Provision!Inv, Provision!TypeOK, ProvisionBootRecord, ProvisionSteps
  <1>3. /\ ProvisionGrows /\ v1' \in [Provision!Objects -> {"absent", "partial", "exact", "strange"}]
        /\ v2' = v2
        /\ \A u \in Provision!Objects : u # o => v1'[u] = v1[u]
        /\ v1'[o] = Provision!Effect(o, half)
    BY <1>1, <1>2, ProvisionExecuteGrows
  <1>4. CASE Provision!Rejected(o, half)
    <2>1. /\ Provision!Goto(p, "failed") /\ v4' = None /\ v5' = IF v5 = p THEN None ELSE v5
      BY <1>4 DEF Provision!Land
    <2>2. \A q \in ProvisionBoots \ {p} : v3'[q] = v3[q] /\ Provision!Step(q)' = Provision!Step(q)
      BY <2>1, ProvisionGotoIs DEF Provision!Step
    <2>3. v1'[o] = v1[o] /\ ~half
      BY <1>3, <1>4 DEF Provision!Rejected, Provision!Effect
    <2>4. ASSUME NEW u \in Provision!Objects PROVE Provision!HalfDone(u)'
      BY <1>1, <1>3, <2>2, <2>3 DEF Provision!Inv, Provision!HalfDone
    <2> QED BY <1>1, <1>2, <1>3, <2>1, <2>4, ProvisionEndKeeps DEF Provision!TypeOK
  <1>5. CASE ~Provision!Rejected(o, half) /\ ~Provision!LastStatement(o, half)
    <2> DEFINE new == [v3[p] EXCEPT !.half = TRUE]
    <2>1. v3' = [v3 EXCEPT ![p] = new] /\ UNCHANGED <<v4, v5>>
      BY <1>5 DEF Provision!Land
    <2>2. /\ new \in ProvisionBootRecord /\ new.pc = "sent" /\ new.plan = v3[p].plan /\ new.half
          /\ new.build = v3[p].build
      BY <1>1, <1>2 DEF ProvisionBootRecord
    <2> HIDE DEF new
    <2>3. v3' \in [ProvisionBoots -> ProvisionBootRecord] /\ v3'[p] = new /\
            \A q \in ProvisionBoots \ {p} : v3'[q] = v3[q]
      BY <1>2, <2>1, <2>2 DEF Provision!TypeOK, ProvisionBootRecord, ProvisionSteps
    <2>4. Provision!Step(p)' = o /\ Provision!Left(p)' = Provision!Left(p) /\
            \A q \in ProvisionBoots \ {p} : Provision!Step(q)' = Provision!Step(q)
      BY <2>2, <2>3 DEF Provision!Step, Provision!Left
    <2>5. Provision!TypeOK'
      BY <1>1, <1>2, <1>3, <2>1, <2>3 DEF Provision!TypeOK, ProvisionBootRecord, ProvisionSteps
    <2>6. o \in Provision!TwoStatements \cup Provision!Resumable /\ ~half /\ v1'[o] \in {"partial", "exact"}
      BY <1>1, <1>3, <1>5 DEF Provision!LastStatement, Provision!Rejected, Provision!Effect
    <2>7. Provision!Sent(p)'
      BY <1>1, <2>2, <2>3, <2>4, <2>6 DEF Provision!Sent
    <2>8. ASSUME NEW g \in ProvisionBoots,
                 v3'[g].pc = "ghost" PROVE v3[g].pc = "ghost" /\ Provision!Step(g)' = Provision!Step(g)
      BY <2>2, <2>3, <2>4, <2>8
    <2>9. Provision!Done(p)'
      BY <1>2, <1>3, <2>1, <2>2, <2>3, <2>4, <2>8 DEF Provision!Done, ProvisionGrows
    <2>10. ASSUME NEW q \in Provision!Booting' PROVE v4' = q
      BY <1>1, <2>1, <2>3 DEF Provision!Inv, Provision!Booting
    <2>11. ASSUME NEW u \in Provision!Objects PROVE Provision!HalfDone(u)'
      <3>1. CASE u = o
        BY <1>1, <2>2, <2>3, <2>4, <2>6, <3>1 DEF Provision!HalfDone
      <3>2. CASE u # o
        BY <1>1, <1>3, <2>2, <2>3, <2>4, <3>2 DEF Provision!HalfDone, Provision!Inv
      <3> QED BY <3>1, <3>2
    <2> QED BY <1>1, <1>2, <1>3, <2>1, <2>2, <2>3, <2>5, <2>7, <2>9, <2>10, <2>11, ProvisionStepKeeps
  <1>6. CASE ~Provision!Rejected(o, half) /\ Provision!LastStatement(o, half)
    <2>1. Provision!Advance(p) /\ UNCHANGED <<v4, v5>>
      BY <1>6 DEF Provision!Land
    <2>2. v1'[o] = "exact"
      BY <1>1, <1>3, <1>6 DEF Provision!LastStatement, Provision!Rejected, Provision!Effect
    <2> QED BY <1>1, <1>2, <1>3, <2>1, <2>2, ProvisionAdvanceKeeps DEF Provision!TypeOK
  <1> QED BY <1>4, <1>5, <1>6

(* Migrate: the migrations become those of the build, with no late one.     *)
LEMMA ProvisionMigrateKeeps ==
    ASSUME Provision!Inv, NEW p \in ProvisionBoots, Provision!Migrate(p)
    PROVE  Provision!Inv'
  <1>1. /\ v3[p].pc = "sent" /\ v3[p].plan # <<>> /\ p \in Provision!Booting
        /\ Provision!Step(p) = "migrate" /\ Provision!LockFree
        /\ "migrate" \notin Provision!Objects
    BY ProvisionObjectsAre DEF Provision!Migrate, Provision!Inv, Provision!Sent, Provision!Booting
  <1>2. Provision!TypeOK
    BY DEF Provision!Inv
  <1>3. CASE v2 > v3[p].build
    <2>1. v3[p].build \in Provision!Builds /\ v2 \in 0..NewestMigration
      BY <1>2 DEF Provision!TypeOK
    <2>2. ~(v2 <= v3[p].build)
      BY <1>3, <2>1, ProvisionAssumption DEF Provision!Builds
    <2>3. Provision!Leave(p, "refused")
      BY <2>2 DEF Provision!Migrate
    <2> QED BY <1>1, <2>3, ProvisionLeaveKeeps
  <1>4. CASE ~(v2 > v3[p].build)
    <2>1. v2 <= v3[p].build /\ Provision!Execute(p) /\ Provision!Advance(p) /\ UNCHANGED <<v4, v5, v6, v7>>
      BY <1>4 DEF Provision!Migrate
    <2>2. /\ ProvisionGrows /\ v1' \in [Provision!Objects -> {"absent", "partial", "exact", "strange"}]
          /\ v2' \in 0..NewestMigration
          /\ UNCHANGED v1 /\ v2' = v3[p].build
      BY <1>1, <1>2, <2>1, ProvisionExecuteGrows
    <2>3. \A q \in Provision!Acting \ {p} : "migrate" \in Provision!Left(q)
      BY <1>1, ProvisionHoldsKey
    <2> QED BY <1>1, <1>2, <2>1, <2>2, <2>3, ProvisionAdvanceKeeps DEF Provision!TypeOK
  <1> QED BY <1>3, <1>4

(* What a step of a torn boot leaves of the half done objects.              *)
LEMMA ProvisionTornKeeps ==
    ASSUME Provision!Inv, NEW p \in ProvisionBoots, v6 \subseteq v6',
           \A q \in ProvisionBoots \ {p} : v3'[q] = v3[q],
           v3[p].pc = "sent" /\ Provision!Step(p) \in Provision!TwoStatements => Provision!Step(p) \in v6',
           UNCHANGED v1 \/ (/\ v3[p].pc \in {"sent", "ghost"} /\ Provision!Execute(p))
    PROVE  \A o \in Provision!Objects : Provision!HalfDone(o)'
  <1> SUFFICES ASSUME NEW o \in Provision!Objects, v1'[o] = "partial" PROVE Provision!HalfDone(o)'
    BY DEF Provision!HalfDone
  <1>1. \A q \in ProvisionBoots \ {p} : Provision!Step(q)' = Provision!Step(q)
    BY DEF Provision!Step
  <1>2. CASE v1[o] = "partial"
    BY <1>1, <1>2 DEF Provision!Inv, Provision!HalfDone
  <1>3. CASE v1[o] # "partial"
    <2>1. /\ v3[p].pc \in {"sent", "ghost"} /\ Provision!Execute(p)
          /\ Provision!Step(p) \in Provision!Objects \cup {"migrate"}
      BY <1>3 DEF Provision!Inv, Provision!Sent
    <2>2. o = Provision!Step(p) /\ v1'[o] = Provision!Effect(o, v3[p].half)
      BY <1>3, <2>1, ProvisionExecuteGrows DEF Provision!Inv
    <2>3. o \in Provision!TwoStatements \cup Provision!Resumable
      BY <1>3, <2>2 DEF Provision!Effect
    <2>4. o \in Provision!TwoStatements => o \in v6'
      BY <2>1, <2>2 DEF Provision!Inv, Provision!Sent
    <2> QED BY <2>3, <2>4 DEF Provision!HalfDone
  <1> QED BY <1>2, <1>3

(* LandLate: what lands late was torn.                                      *)
LEMMA ProvisionLandLateKeeps ==
    ASSUME Provision!Inv, NEW p \in ProvisionBoots, Provision!LandLate(p)
    PROVE  Provision!Inv'
  <1>1. /\ v3[p].pc = "ghost" /\ Provision!Execute(p) /\ Provision!Goto(p, "dead")
        /\ UNCHANGED <<v4, v5, v6, v7>>
        /\ Provision!Step(p) \in Provision!Objects \cup {"migrate"} /\ Provision!TypeOK
    BY DEF Provision!LandLate, Provision!Inv, Provision!Sent
  <1>2. /\ ProvisionGrows /\ v1' \in [Provision!Objects -> {"absent", "partial", "exact", "strange"}]
        /\ v2' \in 0..NewestMigration
        /\ Provision!Step(p) \in Provision!Objects => v2' = v2
    BY <1>1, ProvisionExecuteGrows
  <1>3. Provision!Step(p) = "migrate" => \A q \in Provision!Acting \ {p} : "migrate" \in Provision!Left(q)
    BY <1>1 DEF Provision!Inv, Provision!Done
  <1>4. \A q \in ProvisionBoots \ {p} : v3'[q] = v3[q]
    BY <1>1, ProvisionGotoIs
  <1>5. \A o \in Provision!Objects : Provision!HalfDone(o)'
    BY <1>1, <1>4, ProvisionTornKeeps
  <1> QED BY <1>1, <1>2, <1>3, <1>5, ProvisionEndKeeps DEF Provision!TypeOK

(* Die: a statement may be on its way, and its object is torn.              *)
LEMMA ProvisionDieKeeps ==
    ASSUME Provision!Inv, NEW p \in ProvisionBoots, Provision!Die(p)
    PROVE  Provision!Inv'
  <1>1. /\ UNCHANGED <<v1, v2, v4, v5>> /\ Provision!CutOff(p) /\ Provision!TypeOK /\ Provision!Sent(p)
        /\ v3[p].pc \in {"ready", "sent", "host", "failed"}
    BY DEF Provision!Die, Provision!Inv
  <1>2. PICK pc \in IF v3[p].pc = "sent" THEN {"dead", "ghost"} ELSE {"dead"} : Provision!Goto(p, pc)
    BY DEF Provision!Die
  <1>3. v7' \in 0..ProvisionFaults
    BY <1>1, ProvisionAssumption DEF Provision!Die, Provision!TypeOK
  <1>4. /\ v6 \subseteq v6' /\ v6' \subseteq Provision!TwoStatements
        /\ v3[p].pc = "sent" /\ Provision!Step(p) \in Provision!TwoStatements => Provision!Step(p) \in v6'
    BY <1>1 DEF Provision!CutOff, Provision!TypeOK, Provision!Booting
  <1>5. /\ v3' \in [ProvisionBoots -> ProvisionBootRecord] /\ \A q \in ProvisionBoots \ {p} : v3'[q] = v3[q]
        /\ v3'[p].pc = pc /\ v3'[p].plan = v3[p].plan
        /\ Provision!Step(p)' = Provision!Step(p) /\ Provision!Ordered(v3[p].plan)
    BY <1>2, ProvisionGotoIs
  <1>6. \A o \in Provision!Objects : Provision!HalfDone(o)'
    BY <1>1, <1>4, <1>5, ProvisionTornKeeps
  <1>7. ProvisionGrows
    BY <1>1 DEF ProvisionGrows
  <1>8. CASE pc = "dead"
    BY <1>1, <1>2, <1>3, <1>4, <1>6, <1>7, <1>8, ProvisionEndKeeps DEF Provision!TypeOK
  <1>9. CASE pc = "ghost"
    <2>1. v3[p].pc = "sent" /\ p \in Provision!Booting /\ v3[p].plan # <<>>
      BY <1>1, <1>2, <1>9 DEF Provision!Booting, Provision!Sent
    <2>2. Provision!TypeOK'
      BY <1>1, <1>3, <1>4, <1>5 DEF Provision!TypeOK, ProvisionBootRecord, ProvisionSteps
    <2>3. p \notin Provision!Acting' /\ Provision!Sent(p)'
      BY <1>1, <1>4, <1>5, <1>9, <2>1 DEF Provision!Acting, Provision!Sent
    <2>4. \A q \in Provision!Booting' : v4' = q
      BY <1>1, <1>5, <1>9 DEF Provision!Inv, Provision!Booting
    <2>5. Provision!Step(p) = "migrate" => \A q \in Provision!Acting \ {p} : "migrate" \in Provision!Left(q)
      BY <2>1, ProvisionHoldsKey
    <2> QED BY <1>1, <1>4, <1>5, <1>6, <1>7, <1>9, <2>2, <2>3, <2>4, <2>5, ProvisionStepKeeps
  <1> QED BY <1>2, <1>8, <1>9

(* LoseOwnership: the last statement may have landed.                       *)
LEMMA ProvisionLoseOwnershipKeeps ==
    ASSUME Provision!Inv, NEW p \in ProvisionBoots, Provision!LoseOwnership(p)
    PROVE  Provision!Inv'
  <1>1. /\ p \in Provision!Booting /\ Provision!Goto(p, "failed") /\ Provision!CutOff(p) /\ Provision!TypeOK
        /\ Provision!Sent(p)
        /\ UNCHANGED v4 /\ v5' = IF v5 = p THEN None ELSE v5
        /\ UNCHANGED <<v1, v2>> \/ (v3[p].pc = "sent" /\ Provision!Execute(p))
    BY DEF Provision!LoseOwnership, Provision!Inv
  <1>2. v7' \in 0..ProvisionFaults
    BY <1>1, ProvisionAssumption DEF Provision!LoseOwnership, Provision!TypeOK
  <1>3. /\ v6 \subseteq v6' /\ v6' \subseteq Provision!TwoStatements
        /\ v3[p].pc = "sent" /\ Provision!Step(p) \in Provision!TwoStatements => Provision!Step(p) \in v6'
    BY <1>1 DEF Provision!CutOff, Provision!TypeOK, Provision!Booting
  <1>4. \A q \in ProvisionBoots \ {p} : v3'[q] = v3[q]
    BY <1>1, ProvisionGotoIs
  <1>5. \A o \in Provision!Objects : Provision!HalfDone(o)'
    BY <1>1, <1>3, <1>4, ProvisionTornKeeps
  <1>6. CASE UNCHANGED <<v1, v2>>
    <2>1. ProvisionGrows
      BY <1>6 DEF ProvisionGrows
    <2> QED BY <1>1, <1>2, <1>3, <1>5, <1>6, <2>1, ProvisionEndKeeps DEF Provision!TypeOK
  <1>7. CASE v3[p].pc = "sent" /\ Provision!Execute(p)
    <2>1. v3[p].plan # <<>> /\ Provision!Step(p) \in Provision!Objects \cup {"migrate"}
      BY <1>1, <1>7 DEF Provision!Sent
    <2>2. /\ ProvisionGrows /\ v1' \in [Provision!Objects -> {"absent", "partial", "exact", "strange"}]
          /\ v2' \in 0..NewestMigration
          /\ Provision!Step(p) \in Provision!Objects => v2' = v2
      BY <1>1, <1>7, <2>1, ProvisionExecuteGrows
    <2>3. Provision!Step(p) = "migrate" => \A q \in Provision!Acting \ {p} : "migrate" \in Provision!Left(q)
      BY <1>1, <2>1, ProvisionHoldsKey
    <2> QED BY <1>1, <1>2, <1>3, <1>5, <2>1, <2>2, <2>3, ProvisionEndKeeps DEF Provision!TypeOK
  <1> QED BY <1>1, <1>6, <1>7

(* ServerDrops: only the dead rely on that key no more.                     *)
LEMMA ProvisionServerDropsKeeps ==
    ASSUME Provision!Inv, Provision!ServerDrops
    PROVE  Provision!Inv'
  <1>1. \A q \in Provision!Acting : v5 # q
    BY DEF Provision!ServerDrops, Provision!Acting
  <1>2. \A q \in Provision!Acting : Provision!Done(q)'
    BY <1>1 DEF Provision!Inv, Provision!Done, Provision!ServerDrops, Provision!Left, Provision!Step
  <1>3. UNCHANGED <<v1, v2, v3, v4, v6, v7>> /\ v5' = None
    BY DEF Provision!ServerDrops
  <1> QED BY <1>2, <1>3 DEF Provision!Inv, Provision!TypeOK, Provision!OnlyTornObjectsBlock,
             Provision!Step, Provision!Sent, Provision!Booting, Provision!Acting, Provision!HalfDone

(* Every step keeps the invariant.                                          *)
LEMMA ProvisionNextInv ==
    ASSUME Provision!Inv, [Provision!Next]_Provision!vars
    PROVE  Provision!Inv'
  <1>1. CASE UNCHANGED Provision!vars
    BY <1>1 DEF Provision!Inv, Provision!TypeOK, Provision!OnlyTornObjectsBlock, Provision!Step,
       Provision!Sent, Provision!Booting, Provision!Acting, Provision!HalfDone, Provision!Done,
       Provision!Left, Provision!vars
  <1> QED BY <1>1, ProvisionBeginKeeps, ProvisionReserveKeeps, ProvisionLookKeeps, ProvisionAdmitKeeps,
             ProvisionLandKeeps, ProvisionMigrateKeeps, ProvisionLandLateKeeps, ProvisionDieKeeps,
             ProvisionLoseOwnershipKeeps, ProvisionServerDropsKeeps DEF Provision!Next

(* A Host's plan is empty, so that everything is done.                      *)
LEMMA ProvisionInvSays ==
    ASSUME Provision!Inv
    PROVE  Provision!ProvisionedInOrder
  <1>1. ASSUME NEW p \in ProvisionBoots, v3[p].pc = "host"
        PROVE  v1 = Provision!Complete /\ v2 = v3[p].build /\ v5 = p
    <2>1. Provision!Done(p) /\ v3[p].plan = <<>>
      BY <1>1 DEF Provision!Inv, Provision!Acting, Provision!Sent
    <2>2. Provision!Left(p) = {}
      BY <2>1 DEF Provision!Left, Provision!Elements
    <2>3. \A o \in Provision!Objects : v1[o] = "exact"
      BY <2>1, <2>2 DEF Provision!Done
    <2> QED BY <2>1, <2>2, <2>3 DEF Provision!Done, Provision!Inv, Provision!TypeOK, Provision!Complete
  <1> QED BY <1>1 DEF Provision!Inv, Provision!ProvisionedInOrder, Provision!ServingIsComplete

------------------------------------------------------------------------------
(* Installation: v1 state, v2 lock, v3 holder, v4 journal, v5 intent,       *)
(* v6 pointer, v7 server, v8 token, v9 advisory, v10 issued, v11 proc,      *)
(* v12 faults.                                                              *)

(* Nobody has begun.                                                        *)
LEMMA UpkeepInitInv ==
    ASSUME Upkeep!Init
    PROVE  Upkeep!Inv
  <1>1. Upkeep!TypeOK
    BY MaintenanceAssumption DEF Upkeep!Init, Upkeep!TypeOK, Upkeep!Process, Upkeep!Places, Upkeep!Fresh,
       Upkeep!Incomplete, Upkeep!Ended, Upkeep!Ops
  <1>2. ASSUME NEW p \in ProcessSlots PROVE Upkeep!ProcessOK(p) /\ v11[p].tok <= v10
    BY MaintenanceAssumption DEF Upkeep!Init, Upkeep!ProcessOK, Upkeep!OwnsLock, Upkeep!TokenOK,
       Upkeep!OperationOK, Upkeep!IntentOK, Upkeep!HostOK, Upkeep!At, Upkeep!Fresh, Upkeep!Owning,
       Upkeep!Working, Upkeep!Preparing, Upkeep!Active, Upkeep!Open, Upkeep!Holds
  <1>3. \A o \in Upkeep!Ops : v5[o].source <= v10
    BY DEF Upkeep!Init
  <1> QED BY <1>1, <1>2, <1>3 DEF Upkeep!Init, Upkeep!Inv

(* A step of one process, which changes what is on disk only with the lock, *)
(* and the fence only if no other process is the Host.                      *)
UpkeepDoes(p) ==
  /\ Upkeep!TypeOK'
  /\ \A q \in ProcessSlots \ {p} : v11'[q] = v11[q]
  /\ \A q \in ProcessSlots \ {p} :
       Upkeep!Holds(q) => Upkeep!Holds(q)' /\ UNCHANGED <<Upkeep!disk, v7, v8>> /\ v9' \in {v9, "none"}
  /\ v9 \in ProcessSlots \ {p} =>
       /\ UNCHANGED <<v9, v8>>
       /\ Upkeep!Open' => Upkeep!Open /\ v6' = v6 /\ v5'[v6].source = v5[v6].source
  /\ v10 <= v10' /\ v8' <= v10' /\ v11'[p].tok <= v10'
  /\ \A o \in Upkeep!Ops : v5'[o].source <= v10'
  /\ Upkeep!ProcessOK(p)'

(* Such a step keeps the invariant.                                         *)
LEMMA UpkeepDoesKeeps ==
    ASSUME Upkeep!Inv, NEW p \in ProcessSlots, UpkeepDoes(p)
    PROVE  Upkeep!Inv'
  <1>1. ASSUME NEW q \in ProcessSlots, q # p PROVE Upkeep!ProcessOK(q)'
    <2>1. Upkeep!ProcessOK(q) /\ v11'[q] = v11[q] /\ q # "none"
      BY <1>1, MaintenanceAssumption DEF Upkeep!Inv, UpkeepDoes
    <2>2. Upkeep!Holds(q) => Upkeep!Holds(q)' /\ UNCHANGED <<Upkeep!disk, v7, v8>> /\ v9' \in {v9, "none"}
      BY <1>1 DEF UpkeepDoes
    <2>3. v9 = q =>
            /\ UNCHANGED <<v9, v8>>
            /\ Upkeep!Open' => Upkeep!Open /\ v6' = v6 /\ v5'[v6].source = v5[v6].source
      BY <1>1 DEF UpkeepDoes
    <2>4. Upkeep!OwnsLock(q)'
      BY <2>1, <2>2 DEF Upkeep!ProcessOK, Upkeep!OwnsLock, Upkeep!At
    <2>5. Upkeep!At(q, Upkeep!Active) => v9 = q
      BY <2>1 DEF Upkeep!ProcessOK, Upkeep!TokenOK
    <2>6. Upkeep!HostOK(q)'
      BY <2>1, <2>3, <2>5 DEF Upkeep!ProcessOK, Upkeep!HostOK, Upkeep!At
    <2>7. CASE Upkeep!At(q, Upkeep!Owning)
      <3>1. UNCHANGED <<Upkeep!disk, v7, v8>> /\ v9' \in {v9, "none"}
        BY <2>1, <2>2, <2>7 DEF Upkeep!ProcessOK, Upkeep!OwnsLock
      <3>2. Upkeep!TokenOK(q)'
        BY <2>1, <2>3, <2>5, <3>1 DEF Upkeep!ProcessOK, Upkeep!TokenOK, Upkeep!At, Upkeep!LiveHost
      <3>3. Upkeep!OperationOK(q)' /\ Upkeep!IntentOK(q)'
        BY <2>1, <3>1 DEF Upkeep!ProcessOK, Upkeep!OperationOK, Upkeep!IntentOK, Upkeep!At, Upkeep!Open,
           Upkeep!disk
      <3> QED BY <2>4, <2>6, <3>2, <3>3 DEF Upkeep!ProcessOK
    <2>8. CASE ~Upkeep!At(q, Upkeep!Owning)
      <3>1. Upkeep!TokenOK(q)'
        BY <2>1, <2>3, <2>5, <2>8 DEF Upkeep!ProcessOK, Upkeep!TokenOK, Upkeep!At, Upkeep!Owning,
           Upkeep!Working, Upkeep!Preparing, Upkeep!Active
      <3>2. Upkeep!OperationOK(q)' /\ Upkeep!IntentOK(q)'
        BY <2>1, <2>8 DEF Upkeep!ProcessOK, Upkeep!OperationOK, Upkeep!IntentOK, Upkeep!At, Upkeep!Owning,
           Upkeep!Working, Upkeep!Preparing
      <3> QED BY <2>4, <2>6, <3>1, <3>2 DEF Upkeep!ProcessOK
    <2> QED BY <2>7, <2>8
  <1>2. ASSUME NEW q \in ProcessSlots, q # p PROVE v11'[q].tok <= v10'
    <2>1. v11[q].tok <= v10 /\ v11'[q] = v11[q] /\ v10 <= v10'
      BY <1>2 DEF Upkeep!Inv, UpkeepDoes
    <2>2. v11[q].tok \in Nat /\ v10 \in Nat /\ v10' \in Nat
      BY MaintenanceAssumption DEF Upkeep!Inv, UpkeepDoes, Upkeep!TypeOK, Upkeep!Process
    <2> QED BY <2>1, <2>2
  <1> QED BY <1>1, <1>2 DEF Upkeep!Inv, UpkeepDoes

(* What is known of a process that takes a step.                            *)
LEMMA UpkeepKnows ==
    ASSUME Upkeep!Inv, NEW p \in ProcessSlots
    PROVE  /\ Upkeep!TypeOK /\ p # "none" /\ v11[p] \in Upkeep!Process /\ Upkeep!ProcessOK(p)
           /\ v11[p].tok \in Nat /\ v11[p].tok <= v10
           /\ v10 \in Nat /\ v8 \in Nat /\ v8 <= v10
           /\ \A o \in Upkeep!Ops : v5[o].source \in Nat /\ v5[o].source <= v10
           /\ Upkeep!At(p, Upkeep!Owning) => \A q \in ProcessSlots \ {p} : ~Upkeep!Holds(q)
  <1>1. Upkeep!TypeOK /\ p # "none" /\ v11[p] \in Upkeep!Process /\ Upkeep!ProcessOK(p)
    BY MaintenanceAssumption DEF Upkeep!Inv, Upkeep!TypeOK
  <1>2. Upkeep!At(p, Upkeep!Owning) => \A q \in ProcessSlots \ {p} : ~Upkeep!Holds(q)
    BY <1>1 DEF Upkeep!ProcessOK, Upkeep!OwnsLock, Upkeep!Holds
  <1> QED BY <1>1, <1>2, MaintenanceAssumption DEF Upkeep!Inv, Upkeep!TypeOK, Upkeep!Process

(* Such a step goes to another place.                                       *)
LEMMA UpkeepGoing ==
    ASSUME Upkeep!TypeOK, NEW p \in ProcessSlots, NEW pc \in Upkeep!Places, Upkeep!Goto(p, pc)
    PROVE  /\ v11' \in [ProcessSlots -> Upkeep!Process]
           /\ \A q \in ProcessSlots \ {p} : v11'[q] = v11[q]
           /\ v11'[p].pc = pc /\ v11'[p].mode = v11[p].mode
           /\ v11'[p].tok = v11[p].tok /\ v11'[p].op = v11[p].op
  BY DEF Upkeep!TypeOK, Upkeep!Goto, Upkeep!Process

(* Such a step returns to serving.                                          *)
LEMMA UpkeepReturning ==
    ASSUME Upkeep!TypeOK, NEW p \in ProcessSlots,
           v11' = [v11 EXCEPT ![p].pc = "serving", ![p].op = 0]
    PROVE  /\ v11' \in [ProcessSlots -> Upkeep!Process]
           /\ \A q \in ProcessSlots \ {p} : v11'[q] = v11[q]
           /\ v11'[p].pc = "serving" /\ v11'[p].tok = v11[p].tok
  <1> DEFINE new == [v11[p] EXCEPT !.pc = "serving", !.op = 0]
  <1>1. v11[p] \in Upkeep!Process /\ v11' = [v11 EXCEPT ![p] = new]
    BY DEF Upkeep!TypeOK
  <1>2. new \in Upkeep!Process /\ new.pc = "serving" /\ new.tok = v11[p].tok
    <2>1. 0 \in 0..MaxOps /\ "serving" \in Upkeep!Places
      BY MaintenanceAssumption DEF Upkeep!Places, Upkeep!Active
    <2> QED BY <1>1, <2>1 DEF Upkeep!Process
  <1> QED BY <1>1, <1>2 DEF Upkeep!TypeOK

(* A step that changes nothing but the process and the lock.                *)
UpkeepLocksOnly(p) ==
  /\ UNCHANGED <<Upkeep!disk, Upkeep!db>> /\ v12' \in 0..MaintenanceFaults
  /\ v2' \in {"free", "held", "abandoned"} /\ v3' \in ProcessSlots
  /\ v11' \in [ProcessSlots -> Upkeep!Process]
  /\ \A q \in ProcessSlots \ {p} : v11'[q] = v11[q]
  /\ \A q \in ProcessSlots \ {p} : Upkeep!Holds(q) => Upkeep!Holds(q)'
  /\ v11'[p].tok <= v10
  /\ Upkeep!ProcessOK(p)'

(* Such a step keeps the invariant.                                         *)
LEMMA UpkeepLocksKeeps ==
    ASSUME Upkeep!Inv, NEW p \in ProcessSlots, UpkeepLocksOnly(p)
    PROVE  Upkeep!Inv'
  <1>1. Upkeep!TypeOK'
    BY UpkeepKnows DEF Upkeep!TypeOK, UpkeepLocksOnly, Upkeep!disk, Upkeep!db
  <1>2. UpkeepDoes(p)
    BY <1>1, UpkeepKnows DEF UpkeepLocksOnly, UpkeepDoes, Upkeep!disk, Upkeep!db, Upkeep!Open
  <1> QED BY <1>2, UpkeepDoesKeeps

(* Outside the lock little has to be true of a process.                     *)
LEMMA UpkeepOutside ==
    ASSUME NEW p,
           v11'[p].pc \in {"idle", "failed", "dead", "cleared", "chosen", "continue", "stuck"},
           v11'[p].pc \in {"idle", "cleared", "continue"} => v11'[p].op = 0,
           v11'[p].pc = "chosen" => v11'[p].op # 0,
           v11'[p].pc = "stuck" => Upkeep!Holds(p)'
    PROVE  Upkeep!ProcessOK(p)'
  BY DEF Upkeep!ProcessOK, Upkeep!OwnsLock, Upkeep!TokenOK, Upkeep!OperationOK, Upkeep!IntentOK,
     Upkeep!HostOK, Upkeep!At, Upkeep!Owning, Upkeep!Working, Upkeep!Preparing, Upkeep!Active

(* A process that took no part in anything yet, or does so no more.         *)
LEMMA UpkeepOutsideKeeps ==
    ASSUME Upkeep!Inv, NEW p \in ProcessSlots,
           Upkeep!Prepare(p) \/ Upkeep!ReleaseStopped(p) \/ Upkeep!Recover(p) \/ Upkeep!Reuse(p)
    PROVE  Upkeep!Inv'
  <1>0. Upkeep!TypeOK /\ v11[p] \in Upkeep!Process /\ Upkeep!ProcessOK(p)
    BY UpkeepKnows
  <1>1. CASE Upkeep!Prepare(p)
    <2>1. PICK pc \in {"cleared", "failed"} : Upkeep!Goto(p, pc)
      BY <1>1 DEF Upkeep!Prepare, Upkeep!Goto
    <2>2. v11[p].op = 0
      BY <1>0, <1>1 DEF Upkeep!Prepare, Upkeep!ProcessOK, Upkeep!OperationOK, Upkeep!At
    <2>3. Upkeep!ProcessOK(p)'
      BY <1>0, <2>1, <2>2, UpkeepGoing, UpkeepOutside DEF Upkeep!Places, Upkeep!Ended
    <2>4. v11' \in [ProcessSlots -> Upkeep!Process] /\ v11'[p].tok = v11[p].tok
          /\ \A q \in ProcessSlots \ {p} : v11'[q] = v11[q]
      BY <1>0, <2>1, UpkeepGoing DEF Upkeep!Places, Upkeep!Ended
    <2> QED BY <1>0, <1>1, <2>3, <2>4, UpkeepKnows, UpkeepLocksKeeps DEF Upkeep!Prepare, UpkeepLocksOnly,
               Upkeep!TypeOK, Upkeep!Holds
  <1>2. CASE Upkeep!ReleaseStopped(p)
    <2>1. Upkeep!Goto(p, "failed")
      BY <1>2 DEF Upkeep!ReleaseStopped
    <2>2. Upkeep!ProcessOK(p)'
      BY <1>0, <2>1, UpkeepGoing, UpkeepOutside DEF Upkeep!Places, Upkeep!Ended
    <2>3. v11' \in [ProcessSlots -> Upkeep!Process] /\ v11'[p].tok = v11[p].tok
          /\ \A q \in ProcessSlots \ {p} : v11'[q] = v11[q]
      BY <1>0, <2>1, UpkeepGoing DEF Upkeep!Places, Upkeep!Ended
    <2> QED BY <1>0, <1>2, <2>2, <2>3, UpkeepKnows, UpkeepLocksKeeps DEF Upkeep!ReleaseStopped,
               Upkeep!Drop, UpkeepLocksOnly, Upkeep!TypeOK, Upkeep!Holds
  <1>3. CASE Upkeep!Recover(p)
    <2>1. /\ v11' \in [ProcessSlots -> Upkeep!Process] /\ v11'[p].tok = v11[p].tok
          /\ \A q \in ProcessSlots \ {p} : v11'[q] = v11[q]
          /\ v11'[p].pc \in {"chosen", "continue"}
          /\ (v11'[p].pc = "continue" => v11'[p].op = v11[p].op)
          /\ (v11'[p].pc = "chosen" => v11'[p].op # 0)
      <3>1. CASE Upkeep!Goto(p, "continue")
        BY <1>0, <3>1, UpkeepGoing DEF Upkeep!Places
      <3>2. CASE ~Upkeep!Goto(p, "continue")
        <4> DEFINE new == [v11[p] EXCEPT !.pc = "chosen", !.mode = "recover", !.op = v6]
        <4>1. v11' = [v11 EXCEPT ![p] = new] /\ v6 # 0
          BY <1>3, <3>2 DEF Upkeep!Recover, Upkeep!Obliged
        <4>2. new \in Upkeep!Process /\ new.pc = "chosen" /\ new.op = v6 /\ new.tok = v11[p].tok
          BY <1>0 DEF Upkeep!Process, Upkeep!Places, Upkeep!TypeOK
        <4> QED BY <1>0, <4>1, <4>2 DEF Upkeep!TypeOK
      <3> QED BY <3>1, <3>2
    <2>2. v11[p].op = 0
      BY <1>0, <1>3 DEF Upkeep!Recover, Upkeep!ProcessOK, Upkeep!OperationOK, Upkeep!At
    <2>3. Upkeep!ProcessOK(p)'
      BY <2>1, <2>2, UpkeepOutside
    <2> QED BY <1>0, <1>3, <2>1, <2>3, UpkeepKnows, UpkeepLocksKeeps DEF Upkeep!Recover, UpkeepLocksOnly,
               Upkeep!TypeOK, Upkeep!Holds
  <1>4. CASE Upkeep!Reuse(p)
    <2>1. v11' \in [ProcessSlots -> Upkeep!Process] /\ v11'[p] = Upkeep!Fresh
          /\ \A q \in ProcessSlots \ {p} : v11'[q] = v11[q]
      BY <1>0, <1>4, MaintenanceAssumption DEF Upkeep!Reuse, Upkeep!Fresh, Upkeep!TypeOK, Upkeep!Process,
         Upkeep!Places, Upkeep!Ended
    <2>2. v11'[p].pc = "idle" /\ v11'[p].op = 0 /\ v11'[p].tok = 0
      BY <2>1 DEF Upkeep!Fresh
    <2>3. Upkeep!ProcessOK(p)'
      BY <2>2, UpkeepOutside
    <2> QED BY <1>0, <1>4, <2>1, <2>2, <2>3, UpkeepKnows, UpkeepLocksKeeps DEF Upkeep!Reuse,
               UpkeepLocksOnly, Upkeep!TypeOK, Upkeep!Holds
  <1> QED BY <1>1, <1>2, <1>3, <1>4

(* The lock is taken while it is free or abandoned.                         *)
LEMMA UpkeepTakingKeeps ==
    ASSUME Upkeep!Inv, NEW p \in ProcessSlots,
           Upkeep!Acquire(p) \/ Upkeep!AcquireRecovery(p) \/ Upkeep!Continue(p) \/ Upkeep!Lock(p)
    PROVE  Upkeep!Inv'
  <1>0. Upkeep!TypeOK /\ v11[p] \in Upkeep!Process /\ Upkeep!ProcessOK(p)
    BY UpkeepKnows
  <1>1. PICK pc \in {"owned", "recovering", "failed", "locked"} :
          /\ Upkeep!Goto(p, pc) /\ UNCHANGED <<Upkeep!disk, Upkeep!db, v12>>
          /\ pc = "failed" => UNCHANGED <<v2, v3>>
          /\ pc # "failed" => v2 # "held" /\ v2' = "held" /\ v3' = p
          /\ pc = "owned" => Upkeep!At(p, {"cleared", "continue"})
          /\ pc = "recovering" => Upkeep!At(p, {"chosen"})
          /\ pc = "locked" => Upkeep!At(p, {"serving"})
    BY DEF Upkeep!Acquire, Upkeep!AcquireRecovery, Upkeep!Continue, Upkeep!Lock, Upkeep!Take, Upkeep!At
  <1>2. v11' \in [ProcessSlots -> Upkeep!Process] /\ (\A q \in ProcessSlots \ {p} : v11'[q] = v11[q])
        /\ v11'[p].pc = pc /\ v11'[p].tok = v11[p].tok /\ v11'[p].op = v11[p].op
    BY <1>0, <1>1, UpkeepGoing DEF Upkeep!Places, Upkeep!Ended, Upkeep!Working, Upkeep!Active,
       Upkeep!Preparing
  <1>3. Upkeep!ProcessOK(p)'
    <2>1. CASE pc = "failed"
      BY <1>2, <2>1, UpkeepOutside
    <2>2. CASE pc # "failed"
      BY <1>0, <1>1, <1>2, <2>2 DEF Upkeep!ProcessOK, Upkeep!OwnsLock, Upkeep!TokenOK,
         Upkeep!OperationOK, Upkeep!IntentOK, Upkeep!HostOK, Upkeep!At, Upkeep!Owning, Upkeep!Working,
         Upkeep!Preparing, Upkeep!Active, Upkeep!Open, Upkeep!Holds, Upkeep!disk, Upkeep!db
    <2> QED BY <2>1, <2>2
  <1>4. \A q \in ProcessSlots \ {p} : Upkeep!Holds(q) => Upkeep!Holds(q)'
    BY <1>1 DEF Upkeep!Holds
  <1> QED BY <1>0, <1>1, <1>2, <1>3, <1>4, UpkeepKnows, UpkeepLocksKeeps DEF UpkeepLocksOnly, Upkeep!TypeOK

(* Steps of who holds the lock that touch neither disk nor server.          *)
LEMMA UpkeepHoldingKeeps ==
    ASSUME Upkeep!Inv, NEW p \in ProcessSlots,
           Upkeep!Materialize(p) \/ Upkeep!Serve(p) \/ Upkeep!PrepareFails(p)
    PROVE  Upkeep!Inv'
  <1>0. Upkeep!TypeOK /\ v11[p] \in Upkeep!Process /\ Upkeep!ProcessOK(p)
    BY UpkeepKnows
  <1>1. Upkeep!At(p, Upkeep!Owning)
    BY DEF Upkeep!Materialize, Upkeep!Serve, Upkeep!PrepareFails, Upkeep!At, Upkeep!Owning,
       Upkeep!Working, Upkeep!Preparing
  <1>2. Upkeep!Holds(p) /\ UNCHANGED <<Upkeep!disk, Upkeep!db, v12>>
    BY <1>0, <1>1 DEF Upkeep!Materialize, Upkeep!Serve, Upkeep!PrepareFails, Upkeep!ProcessOK,
       Upkeep!OwnsLock
  <1>3. v11' \in [ProcessSlots -> Upkeep!Process] /\ (\A q \in ProcessSlots \ {p} : v11'[q] = v11[q])
        /\ v11'[p].tok = v11[p].tok
    BY <1>0, MaintenanceAssumption DEF Upkeep!Materialize, Upkeep!Serve, Upkeep!PrepareFails, Upkeep!Goto,
       Upkeep!TypeOK, Upkeep!Process, Upkeep!Places, Upkeep!Ended, Upkeep!Working, Upkeep!Active
  <1>4. v2' \in {"free", "held"} /\ v3' = p
    BY <1>0, <1>2 DEF Upkeep!Materialize, Upkeep!Serve, Upkeep!PrepareFails, Upkeep!Drop, Upkeep!Holds,
       Upkeep!TypeOK
  <1>5. Upkeep!ProcessOK(p)'
    <2>1. CASE Upkeep!Materialize(p)
      <3>1. PICK pc \in {"opened", "failed"} :
              Upkeep!Goto(p, pc) /\ (pc = "opened" => Upkeep!Bootable /\ UNCHANGED <<v2, v3>>)
        BY <2>1 DEF Upkeep!Materialize
      <3>2. v11'[p].pc = pc /\ v11'[p].op = 0
        BY <1>0, <2>1, <3>1, UpkeepGoing DEF Upkeep!Places, Upkeep!Ended, Upkeep!Working,
           Upkeep!Materialize, Upkeep!ProcessOK, Upkeep!OperationOK, Upkeep!At
      <3>3. CASE pc = "failed"
        BY <3>2, <3>3, UpkeepOutside
      <3>4. CASE pc = "opened"
        <4>1. Upkeep!Holds(p)' /\ ~Upkeep!Open'
          BY <1>2, <3>1, <3>4 DEF Upkeep!Holds, Upkeep!Bootable, Upkeep!Obliged, Upkeep!Open,
             Upkeep!Entered, Upkeep!Incomplete, Upkeep!disk
        <4> QED BY <3>2, <3>4, <4>1 DEF Upkeep!ProcessOK, Upkeep!OwnsLock, Upkeep!TokenOK,
                   Upkeep!OperationOK, Upkeep!IntentOK, Upkeep!HostOK, Upkeep!At, Upkeep!Active,
                   Upkeep!Preparing
      <3> QED BY <3>3, <3>4
    <2>2. CASE Upkeep!Serve(p)
      <3>1. /\ v11'[p].pc = IF v9 = p THEN "serving" ELSE "failed"
            /\ v8 = v11[p].tok /\ ~Upkeep!Open
        BY <1>0, <2>2 DEF Upkeep!Serve, Upkeep!TypeOK, Upkeep!ProcessOK, Upkeep!TokenOK,
           Upkeep!OperationOK, Upkeep!At
      <3>2. CASE v9 # p
        BY <3>1, <3>2, UpkeepOutside
      <3>3. CASE v9 = p
        BY <1>2, <1>3, <3>1, <3>3 DEF Upkeep!ProcessOK, Upkeep!OwnsLock, Upkeep!TokenOK,
           Upkeep!OperationOK, Upkeep!IntentOK, Upkeep!HostOK, Upkeep!At, Upkeep!Owning, Upkeep!Working,
           Upkeep!Preparing, Upkeep!Active, Upkeep!Open, Upkeep!disk, Upkeep!db
      <3> QED BY <3>2, <3>3
    <2>3. CASE Upkeep!PrepareFails(p)
      <3>1. v11'[p].pc = "serving" /\ Upkeep!At(p, Upkeep!Active)
        BY <1>0, <2>3 DEF Upkeep!PrepareFails, Upkeep!TypeOK, Upkeep!At, Upkeep!Active, Upkeep!Preparing
      <3> QED BY <1>0, <1>2, <1>3, <3>1 DEF Upkeep!ProcessOK, Upkeep!OwnsLock, Upkeep!TokenOK,
                 Upkeep!OperationOK, Upkeep!IntentOK, Upkeep!HostOK, Upkeep!At, Upkeep!Owning,
             Upkeep!Working, Upkeep!Preparing, Upkeep!Active, Upkeep!Open, Upkeep!disk, Upkeep!db
    <2> QED BY <2>1, <2>2, <2>3
  <1>6. \A q \in ProcessSlots \ {p} : ~Upkeep!Holds(q)
    BY <1>1, UpkeepKnows
  <1>7. UpkeepLocksOnly(p)
    BY <1>0, <1>2, <1>3, <1>4, <1>5, <1>6, UpkeepKnows DEF UpkeepLocksOnly, Upkeep!TypeOK
  <1> QED BY <1>7, UpkeepLocksKeeps

(* A step of the owner of the lock, who is alone in it.                     *)
LEMMA UpkeepOwnerKeeps ==
    ASSUME Upkeep!Inv, NEW p \in ProcessSlots, Upkeep!At(p, Upkeep!Owning), Upkeep!TypeOK',
           \A q \in ProcessSlots \ {p} : v11'[q] = v11[q],
           v9 \in ProcessSlots \ {p} =>
             /\ UNCHANGED <<v9, v8>>
             /\ Upkeep!Open' => Upkeep!Open /\ v6' = v6 /\ v5'[v6].source = v5[v6].source,
           v10 <= v10', v8' <= v10', v11'[p].tok <= v10',
           \A o \in Upkeep!Ops : v5'[o].source <= v10',
           Upkeep!ProcessOK(p)'
    PROVE  Upkeep!Inv'
  <1>1. \A q \in ProcessSlots \ {p} : ~Upkeep!Holds(q)
    BY UpkeepKnows
  <1>2. UpkeepDoes(p)
    BY <1>1 DEF UpkeepDoes
  <1> QED BY <1>2, UpkeepDoesKeeps

(* The same, when fence and intents stay.                                   *)
LEMMA UpkeepWriterKeeps ==
    ASSUME Upkeep!Inv, NEW p \in ProcessSlots, NEW pc \in Upkeep!Places, Upkeep!At(p, Upkeep!Owning),
           Upkeep!Goto(p, pc),
           UNCHANGED <<v5, v8, v10, v9>>,
           v9 \in ProcessSlots \ {p} => (Upkeep!Open' => Upkeep!Open /\ v6' = v6),
           v1' \in {"EMPTY", "CURRENT", "DAMAGED"}, v7' \in {"up", "down"},
           v4' \in [Upkeep!Ops -> {"NONE", "SUCCEEDED", "ABORTED"} \cup Upkeep!Incomplete], v6' \in 0..MaxOps,
           v2' \in {"free", "held", "abandoned"}, v3' \in ProcessSlots, v12' \in 0..MaintenanceFaults,
           Upkeep!ProcessOK(p)'
    PROVE  Upkeep!Inv'
  <1>0. Upkeep!TypeOK
    BY UpkeepKnows
  <1>1. /\ v11' \in [ProcessSlots -> Upkeep!Process] /\ v11'[p].tok = v11[p].tok
        /\ \A q \in ProcessSlots \ {p} : v11'[q] = v11[q]
    BY <1>0, UpkeepGoing
  <1>2. Upkeep!TypeOK'
    BY <1>0, <1>1 DEF Upkeep!TypeOK
  <1> QED BY <1>1, <1>2, UpkeepKnows, UpkeepOwnerKeeps

(* PrepareServer, Stop and Start: the server.                               *)
LEMMA UpkeepServerKeeps ==
    ASSUME Upkeep!Inv, NEW p \in ProcessSlots, Upkeep!PrepareServer(p) \/ Upkeep!Stop(p) \/ Upkeep!Start(p)
    PROVE  Upkeep!Inv'
  <1>0. Upkeep!TypeOK /\ v11[p] \in Upkeep!Process /\ Upkeep!ProcessOK(p)
    BY UpkeepKnows
  <1>1. Upkeep!At(p, Upkeep!Owning)
    BY DEF Upkeep!PrepareServer, Upkeep!Stop, Upkeep!Start, Upkeep!At, Upkeep!Owning, Upkeep!Working
  <1>2. /\ Upkeep!Holds(p) /\ Upkeep!Holds(p)' /\ v1' \in {"EMPTY", "CURRENT", "DAMAGED"}
        /\ v7' \in {"up", "down"}
        /\ UNCHANGED <<v4, v5, v6, v2, v3, v8, v9, v10, v12>>
    BY <1>0, <1>1 DEF Upkeep!PrepareServer, Upkeep!Stop, Upkeep!Start, Upkeep!ProcessOK, Upkeep!OwnsLock,
       Upkeep!TypeOK, Upkeep!disk, Upkeep!Holds
  <1>3. PICK pc \in {"ready", "stopped"} :
          /\ Upkeep!Goto(p, pc)
          /\ pc = "ready" =>
               \/ Upkeep!At(p, {"opened"})
               \/ Upkeep!At(p, {"stopped"}) /\ v5[v11[p].op].kind = "RESTART"
          /\ pc = "stopped" => Upkeep!At(p, {"closed", "revoked"}) /\ v7' = "down"
    BY DEF Upkeep!PrepareServer, Upkeep!Stop, Upkeep!Start
  <1>4. pc \in Upkeep!Places
    BY DEF Upkeep!Places, Upkeep!Working
  <1>5. v11'[p].pc = pc /\ v11'[p].tok = v11[p].tok /\ v11'[p].op = v11[p].op
    BY <1>0, <1>3, <1>4, UpkeepGoing
  <1>6. CASE pc = "ready"
    <2>1. v11[p].op # 0 => v6 = v11[p].op /\ v5[v11[p].op].kind = "RESTART"
      BY <1>0, <1>3, <1>6 DEF Upkeep!ProcessOK, Upkeep!OperationOK, Upkeep!IntentOK, Upkeep!At
    <2>2. v11[p].op = 0 => ~Upkeep!Open
      BY <1>0, <1>3, <1>6 DEF Upkeep!ProcessOK, Upkeep!OperationOK, Upkeep!At
    <2>3. Upkeep!ProcessOK(p)'
      BY <1>2, <1>5, <1>6, <2>1, <2>2 DEF Upkeep!ProcessOK, Upkeep!OwnsLock, Upkeep!TokenOK,
         Upkeep!OperationOK, Upkeep!IntentOK, Upkeep!HostOK, Upkeep!At, Upkeep!Active, Upkeep!Preparing,
         Upkeep!Open
    <2> QED BY <1>0, <1>1, <1>2, <1>3, <1>4, <2>3, UpkeepWriterKeeps DEF Upkeep!TypeOK, Upkeep!Open
  <1>7. CASE pc = "stopped"
    <2>1. v11[p].op # 0 /\ v6 = v11[p].op /\ ~Upkeep!LiveHost
      BY <1>0, <1>3, <1>7 DEF Upkeep!ProcessOK, Upkeep!OperationOK, Upkeep!TokenOK, Upkeep!At
    <2>2. Upkeep!ProcessOK(p)'
      BY <1>2, <1>3, <1>5, <1>7, <2>1 DEF Upkeep!ProcessOK, Upkeep!OwnsLock, Upkeep!TokenOK,
         Upkeep!OperationOK, Upkeep!IntentOK, Upkeep!HostOK, Upkeep!At, Upkeep!Active, Upkeep!Preparing,
         Upkeep!Open, Upkeep!LiveHost
    <2> QED BY <1>0, <1>1, <1>2, <1>3, <1>4, <2>2, UpkeepWriterKeeps DEF Upkeep!TypeOK, Upkeep!Open
  <1> QED BY <1>3, <1>6, <1>7

(* A phase is written; one that is not Entered opens nothing.               *)
LEMMA UpkeepWrites ==
    ASSUME Upkeep!TypeOK, NEW o \in 0..MaxOps,
           NEW phase \in {"SUCCEEDED", "ABORTED"} \cup Upkeep!Incomplete, Upkeep!Write(o, phase), UNCHANGED v6
    PROVE  /\ v4' \in [Upkeep!Ops -> {"NONE", "SUCCEEDED", "ABORTED"} \cup Upkeep!Incomplete]
           /\ o \in Upkeep!Ops => v4'[o] = phase
           /\ phase \notin Upkeep!Entered => (Upkeep!Open' => Upkeep!Open)
  <1>1. v4' \in [Upkeep!Ops -> {"NONE", "SUCCEEDED", "ABORTED"} \cup Upkeep!Incomplete]
        /\ \A k \in Upkeep!Ops : v4'[k] = IF k = o THEN phase ELSE v4[k]
    BY DEF Upkeep!TypeOK, Upkeep!Write
  <1>2. v6 # 0 => v6 \in Upkeep!Ops
    BY MaintenanceAssumption DEF Upkeep!TypeOK, Upkeep!Ops
  <1> QED BY <1>1, <1>2 DEF Upkeep!Open

(* Finalize, Stopped and AbortPrepared: an operation ends.                  *)
LEMMA UpkeepEndingKeeps ==
    ASSUME Upkeep!Inv, NEW p \in ProcessSlots,
           Upkeep!Finalize(p) \/ Upkeep!Stopped(p) \/ Upkeep!AbortPrepared(p)
    PROVE  Upkeep!Inv'
  <1>0. Upkeep!TypeOK /\ v11[p] \in Upkeep!Process /\ Upkeep!ProcessOK(p)
    BY UpkeepKnows
  <1>1. Upkeep!At(p, Upkeep!Owning)
    BY DEF Upkeep!Finalize, Upkeep!Stopped, Upkeep!AbortPrepared, Upkeep!At, Upkeep!Owning, Upkeep!Working
  <1>2. Upkeep!Holds(p) /\ Upkeep!Holds(p)' /\ UNCHANGED <<v1, v5, v6, Upkeep!db, v2, v3, v12>>
    BY <1>0, <1>1 DEF Upkeep!Finalize, Upkeep!Stopped, Upkeep!AbortPrepared, Upkeep!ProcessOK,
       Upkeep!OwnsLock, Upkeep!Holds
  <1>3. PICK pc \in {"finalized", "released"}, phase \in {"SUCCEEDED", "ABORTED"} :
          /\ Upkeep!Goto(p, pc) /\ Upkeep!Write(v11[p].op, phase)
          /\ pc = "finalized" => Upkeep!At(p, {"published"})
    BY DEF Upkeep!Finalize, Upkeep!Stopped, Upkeep!AbortPrepared
  <1>4. pc \in Upkeep!Places
    BY DEF Upkeep!Places, Upkeep!Working
  <1>5. v11'[p].pc = pc /\ v11'[p].tok = v11[p].tok /\ v11'[p].op = v11[p].op
    BY <1>0, <1>3, <1>4, UpkeepGoing
  <1>6. /\ v11[p].op \in 0..MaxOps /\ phase \notin Upkeep!Entered
        /\ phase \in {"SUCCEEDED", "ABORTED"} \cup Upkeep!Incomplete
    BY <1>0 DEF Upkeep!Process, Upkeep!Entered
  <1>7. v4' \in [Upkeep!Ops -> {"NONE", "SUCCEEDED", "ABORTED"} \cup Upkeep!Incomplete]
        /\ (v11[p].op \in Upkeep!Ops => v4'[v11[p].op] = phase) /\ (Upkeep!Open' => Upkeep!Open)
    BY <1>0, <1>2, <1>3, <1>6, UpkeepWrites
  <1>8. Upkeep!ProcessOK(p)'
    <2>1. CASE pc = "finalized"
      <3>1. v11[p].op # 0 /\ v6 = v11[p].op /\ v8 = v11[p].tok
        BY <1>0, <1>3, <2>1 DEF Upkeep!ProcessOK, Upkeep!OperationOK, Upkeep!TokenOK, Upkeep!At
      <3>2. v11[p].op \in Upkeep!Ops
        BY <1>6, <3>1, MaintenanceAssumption DEF Upkeep!Ops
      <3>3. ~Upkeep!Open'
        BY <1>2, <1>6, <1>7, <3>1, <3>2 DEF Upkeep!Open
      <3> QED BY <1>2, <1>5, <2>1, <3>1, <3>3 DEF Upkeep!ProcessOK, Upkeep!OwnsLock, Upkeep!TokenOK,
                 Upkeep!OperationOK, Upkeep!IntentOK, Upkeep!HostOK, Upkeep!At, Upkeep!Active,
                 Upkeep!Preparing, Upkeep!db
    <2>2. CASE pc = "released"
      BY <1>2, <1>5, <2>2 DEF Upkeep!ProcessOK, Upkeep!OwnsLock, Upkeep!TokenOK, Upkeep!OperationOK,
         Upkeep!IntentOK, Upkeep!HostOK, Upkeep!At, Upkeep!Active, Upkeep!Preparing
    <2> QED BY <2>1, <2>2
  <1> QED BY <1>0, <1>1, <1>2, <1>3, <1>4, <1>7, <1>8, UpkeepWriterKeeps DEF Upkeep!TypeOK, Upkeep!db

(* What is done between lock and execution.                                 *)
LEMMA UpkeepCreateKeeps ==
    ASSUME Upkeep!Inv, NEW p \in ProcessSlots, Upkeep!CreateJournal(p)
    PROVE  Upkeep!Inv'
  <1>0. Upkeep!TypeOK /\ v11[p] \in Upkeep!Process /\ Upkeep!ProcessOK(p)
    BY UpkeepKnows
  <1>1. Upkeep!At(p, {"locked"}) /\ Upkeep!At(p, Upkeep!Owning) /\ Upkeep!At(p, Upkeep!Active)
    BY DEF Upkeep!CreateJournal, Upkeep!At, Upkeep!Owning, Upkeep!Active, Upkeep!Preparing
  <1>2. PICK o \in Upkeep!Ops, kind \in {"STOP", "RESTART"} :
          /\ Upkeep!Write(o, "PREPARED")
          /\ v5' = [v5 EXCEPT ![o] = [kind |-> kind, source |-> v11[p].tok]]
          /\ v11' = [v11 EXCEPT ![p].pc = "created", ![p].op = o]
    BY DEF Upkeep!CreateJournal
  <1>3. UNCHANGED <<v1, v6, Upkeep!db, v2, v3, v12>> /\ v9 = p /\ v8 = v11[p].tok
        /\ Upkeep!Holds(p) /\ Upkeep!Holds(p)'
    BY <1>0, <1>1 DEF Upkeep!CreateJournal, Upkeep!ProcessOK, Upkeep!OwnsLock, Upkeep!TokenOK, Upkeep!At,
       Upkeep!Active, Upkeep!Holds
  <1>4. /\ v11' \in [ProcessSlots -> Upkeep!Process] /\ \A q \in ProcessSlots \ {p} : v11'[q] = v11[q]
        /\ v11'[p].pc = "created" /\ v11'[p].op = o /\ v11'[p].tok = v11[p].tok
    <2>1. v11' = [v11 EXCEPT ![p] = [v11[p] EXCEPT !.pc = "created", !.op = o]]
      BY <1>2
    <2>2. [v11[p] EXCEPT !.pc = "created", !.op = o] \in Upkeep!Process
      <3>1. o \in 0..MaxOps
        BY <1>2, MaintenanceAssumption DEF Upkeep!Ops
      <3> QED BY <1>0, <3>1 DEF Upkeep!Process, Upkeep!Places, Upkeep!Active, Upkeep!Preparing
    <2> QED BY <1>0, <2>1, <2>2 DEF Upkeep!TypeOK, Upkeep!Process
  <1>5. o \in 0..MaxOps /\ o # 0 /\ "PREPARED" \in Upkeep!Incomplete /\ "PREPARED" \notin Upkeep!Entered
    BY MaintenanceAssumption DEF Upkeep!Ops, Upkeep!Incomplete, Upkeep!Entered
  <1>6. /\ v4' \in [Upkeep!Ops -> {"NONE", "SUCCEEDED", "ABORTED"} \cup Upkeep!Incomplete]
        /\ v4'[o] = "PREPARED" /\ (Upkeep!Open' => Upkeep!Open)
    BY <1>0, <1>2, <1>3, <1>5, UpkeepWrites
  <1>7. /\ v5' \in [Upkeep!Ops -> [kind : {"STOP", "RESTART"}, source : 0..MaxTokens]]
        /\ v5'[o].source = v11[p].tok /\ \A k \in Upkeep!Ops : k # o => v5'[k] = v5[k]
    BY <1>0, <1>2 DEF Upkeep!TypeOK, Upkeep!Process
  <1>8. Upkeep!HostOK(p)'
    <2>1. SUFFICES ASSUME Upkeep!Open' PROVE v11[p].tok = v5'[v6].source
      BY <1>3, <1>4 DEF Upkeep!HostOK
    <2>2. v11[p].tok = v5[v6].source /\ v6 \in Upkeep!Ops
      BY <1>0, <1>1, <1>6, <2>1, MaintenanceAssumption DEF Upkeep!ProcessOK, Upkeep!HostOK, Upkeep!Open,
         Upkeep!TypeOK, Upkeep!Ops
    <2> QED BY <1>7, <2>2
  <1>9. Upkeep!ProcessOK(p)'
    BY <1>3, <1>4, <1>5, <1>6, <1>7, <1>8 DEF Upkeep!ProcessOK, Upkeep!OwnsLock, Upkeep!TokenOK,
       Upkeep!OperationOK, Upkeep!IntentOK, Upkeep!At, Upkeep!db
  <1>10. \A k \in Upkeep!Ops : v5'[k].source <= v10
    BY <1>7, UpkeepKnows
  <1>11. Upkeep!TypeOK'
    BY <1>0, <1>3, <1>4, <1>6, <1>7 DEF Upkeep!TypeOK, Upkeep!db
  <1> QED BY <1>1, <1>3, <1>4, <1>9, <1>10, <1>11, UpkeepKnows, UpkeepOwnerKeeps DEF Upkeep!db

(* CommitPointer: the new operation is only prepared.                       *)
LEMMA UpkeepCommitKeeps ==
    ASSUME Upkeep!Inv, NEW p \in ProcessSlots, Upkeep!CommitPointer(p)
    PROVE  Upkeep!Inv'
  <1>0. Upkeep!TypeOK /\ v11[p] \in Upkeep!Process /\ Upkeep!ProcessOK(p)
    BY UpkeepKnows
  <1>1. Upkeep!At(p, {"created"}) /\ Upkeep!At(p, Upkeep!Owning) /\ Upkeep!At(p, Upkeep!Active)
    BY DEF Upkeep!CommitPointer, Upkeep!At, Upkeep!Owning, Upkeep!Active, Upkeep!Preparing
  <1>2. /\ v6' = v11[p].op /\ Upkeep!Goto(p, "prepared") /\ "prepared" \in Upkeep!Places
        /\ UNCHANGED <<v1, v4, v5, Upkeep!db, v2, v3, v12>>
    BY DEF Upkeep!CommitPointer, Upkeep!Places, Upkeep!Active, Upkeep!Preparing
  <1>3. /\ v9 = p /\ v8 = v11[p].tok /\ Upkeep!Holds(p) /\ Upkeep!Holds(p)'
        /\ v11[p].op # 0 /\ v4[v11[p].op] = "PREPARED" /\ v5[v11[p].op].source = v11[p].tok
    BY <1>0, <1>1, <1>2 DEF Upkeep!ProcessOK, Upkeep!OwnsLock, Upkeep!TokenOK, Upkeep!OperationOK,
       Upkeep!IntentOK, Upkeep!At, Upkeep!Holds
  <1>4. v11'[p].pc = "prepared" /\ v11'[p].tok = v11[p].tok /\ v11'[p].op = v11[p].op
    BY <1>0, <1>2, UpkeepGoing
  <1>5. ~Upkeep!Open'
    BY <1>2, <1>3 DEF Upkeep!Open, Upkeep!Entered
  <1>6. Upkeep!ProcessOK(p)'
    BY <1>2, <1>3, <1>4, <1>5 DEF Upkeep!ProcessOK, Upkeep!OwnsLock, Upkeep!TokenOK, Upkeep!OperationOK,
       Upkeep!IntentOK, Upkeep!HostOK, Upkeep!At, Upkeep!db
  <1> QED BY <1>0, <1>1, <1>2, <1>5, <1>6, UpkeepWriterKeeps DEF Upkeep!TypeOK, Upkeep!Process, Upkeep!db

(* AbortBeforeExecute and PublishExecuting: the Host decides.               *)
LEMMA UpkeepDecidingKeeps ==
    ASSUME Upkeep!Inv, NEW p \in ProcessSlots, Upkeep!AbortBeforeExecute(p) \/ Upkeep!PublishExecuting(p)
    PROVE  Upkeep!Inv'
  <1>0. Upkeep!TypeOK /\ v11[p] \in Upkeep!Process /\ Upkeep!ProcessOK(p)
    BY UpkeepKnows
  <1>1. Upkeep!At(p, {"prepared"}) /\ Upkeep!At(p, Upkeep!Owning) /\ Upkeep!At(p, Upkeep!Active)
    BY DEF Upkeep!AbortBeforeExecute, Upkeep!PublishExecuting, Upkeep!At, Upkeep!Owning, Upkeep!Active,
       Upkeep!Preparing
  <1>2. /\ v9 = p /\ v8 = v11[p].tok /\ Upkeep!Holds(p) /\ v6 = v11[p].op /\ v6 # 0
        /\ v4[v6] = "PREPARED" /\ v5[v6].source = v11[p].tok /\ v6 \in Upkeep!Ops
    BY <1>0, <1>1, MaintenanceAssumption DEF Upkeep!ProcessOK, Upkeep!OwnsLock, Upkeep!TokenOK,
       Upkeep!OperationOK, Upkeep!IntentOK, Upkeep!At, Upkeep!TypeOK, Upkeep!Ops
  <1>3. UNCHANGED <<v1, v5, v6, Upkeep!db>> /\ v12' \in 0..MaintenanceFaults
    BY <1>0, MaintenanceAssumption DEF Upkeep!AbortBeforeExecute, Upkeep!PublishExecuting, Upkeep!Fault,
       Upkeep!TypeOK
  <1>4. /\ v11' \in [ProcessSlots -> Upkeep!Process] /\ \A q \in ProcessSlots \ {p} : v11'[q] = v11[q]
        /\ v11'[p].tok = v11[p].tok /\ v11'[p].pc \in {"serving", "entered", "prepared"}
        /\ v11'[p].pc \in {"entered", "prepared"} =>
             v11'[p].op = v11[p].op /\ v2' = v2 /\ v3' = v3
        /\ v11'[p].pc = "prepared" => v4' = v4
    <2>1. CASE v11' = [v11 EXCEPT ![p].pc = "serving", ![p].op = 0]
      BY <1>0, <2>1, UpkeepReturning
    <2>2. CASE Upkeep!Goto(p, "entered") /\ UNCHANGED <<v2, v3>>
      BY <1>0, <2>2, UpkeepGoing DEF Upkeep!Places, Upkeep!Working
    <2>3. CASE UNCHANGED <<v11, v4, v2, v3>>
      BY <1>0, <1>1, <2>3 DEF Upkeep!TypeOK, Upkeep!At
    <2> QED BY <2>1, <2>2, <2>3 DEF Upkeep!AbortBeforeExecute, Upkeep!PublishExecuting
  <1>5. v4' \in [Upkeep!Ops -> {"NONE", "SUCCEEDED", "ABORTED"} \cup Upkeep!Incomplete]
        /\ v2' \in {"free", "held", "abandoned"} /\ v3' \in ProcessSlots
    BY <1>0, <1>2 DEF Upkeep!AbortBeforeExecute, Upkeep!PublishExecuting, Upkeep!Write, Upkeep!Drop,
       Upkeep!TypeOK, Upkeep!Incomplete
  <1>6. Upkeep!TypeOK'
    BY <1>0, <1>3, <1>4, <1>5 DEF Upkeep!TypeOK, Upkeep!db
  <1>7. Upkeep!ProcessOK(p)'
    BY <1>0, <1>1, <1>2, <1>3, <1>4 DEF Upkeep!ProcessOK, Upkeep!OwnsLock, Upkeep!TokenOK,
       Upkeep!OperationOK, Upkeep!IntentOK, Upkeep!HostOK, Upkeep!At, Upkeep!Owning, Upkeep!Working,
       Upkeep!Preparing, Upkeep!Active, Upkeep!Holds, Upkeep!db
  <1> QED BY <1>1, <1>2, <1>3, <1>4, <1>6, <1>7, UpkeepKnows, UpkeepOwnerKeeps DEF Upkeep!db

(* Retire and RevokeSource: the token of the source goes.                   *)
LEMMA UpkeepRevokingKeeps ==
    ASSUME Upkeep!Inv, NEW p \in ProcessSlots, Upkeep!Retire(p) \/ Upkeep!RevokeSource(p)
    PROVE  Upkeep!Inv'
  <1>0. Upkeep!TypeOK /\ v11[p] \in Upkeep!Process /\ Upkeep!ProcessOK(p)
    BY UpkeepKnows
  <1>1. Upkeep!At(p, {"entered", "recovering"}) /\ Upkeep!At(p, Upkeep!Owning)
    BY DEF Upkeep!Retire, Upkeep!RevokeSource, Upkeep!At, Upkeep!Owning, Upkeep!Working
  <1>2. /\ UNCHANGED <<Upkeep!disk, v2, v3, v7, v10, v12>> /\ v8' = 0 /\ v9' = "none"
        /\ v9 \notin ProcessSlots \ {p} /\ Upkeep!Holds(p) /\ Upkeep!Holds(p)'
    BY <1>0, <1>1, UpkeepKnows, MaintenanceAssumption DEF Upkeep!Retire, Upkeep!RevokeSource,
       Upkeep!ProcessOK, Upkeep!OwnsLock, Upkeep!LiveHost, Upkeep!Holds
  <1>3. PICK pc \in {"closed", "revoked", "opened"} : Upkeep!Goto(p, pc)
          /\ (pc = "opened" => v5[v11[p].op].kind = "RESTART")
          /\ v11[p].op # 0 /\ v6 = v11[p].op
    <2>1. CASE Upkeep!Retire(p)
      BY <1>0, <2>1 DEF Upkeep!Retire, Upkeep!ProcessOK, Upkeep!OperationOK, Upkeep!At
    <2>2. CASE Upkeep!RevokeSource(p)
      <3>1. v6 = v11[p].op /\ v11[p].op # 0 /\ v11[p].op \in Upkeep!Ops
        BY <1>0, <2>2, MaintenanceAssumption DEF Upkeep!RevokeSource, Upkeep!Selected, Upkeep!Process,
           Upkeep!ProcessOK, Upkeep!OperationOK, Upkeep!At, Upkeep!Ops
      <3>2. v5[v11[p].op].kind \in {"STOP", "RESTART"}
        BY <1>0, <3>1 DEF Upkeep!TypeOK
      <3> QED BY <2>2, <3>1, <3>2 DEF Upkeep!RevokeSource
    <2> QED BY <2>1, <2>2
  <1>4. pc \in Upkeep!Places
    BY DEF Upkeep!Places, Upkeep!Working
  <1>5. /\ v11' \in [ProcessSlots -> Upkeep!Process] /\ \A q \in ProcessSlots \ {p} : v11'[q] = v11[q]
        /\ v11'[p].pc = pc /\ v11'[p].tok = v11[p].tok /\ v11'[p].op = v11[p].op
    BY <1>0, <1>3, <1>4, UpkeepGoing
  <1>6. Upkeep!ProcessOK(p)'
    BY <1>2, <1>3, <1>5 DEF Upkeep!ProcessOK, Upkeep!OwnsLock, Upkeep!TokenOK, Upkeep!OperationOK,
       Upkeep!IntentOK, Upkeep!HostOK, Upkeep!At, Upkeep!Active, Upkeep!Preparing, Upkeep!LiveHost,
       Upkeep!disk
  <1>7. Upkeep!TypeOK'
    BY <1>0, <1>2, <1>5, MaintenanceAssumption DEF Upkeep!TypeOK, Upkeep!disk
  <1> QED BY <1>1, <1>2, <1>5, <1>6, <1>7, UpkeepKnows, UpkeepOwnerKeeps DEF Upkeep!disk

(* Publish: nobody else is the Host.                                        *)
LEMMA UpkeepPublishKeeps ==
    ASSUME Upkeep!Inv, NEW p \in ProcessSlots, Upkeep!Publish(p)
    PROVE  Upkeep!Inv'
  <1>0. Upkeep!TypeOK /\ v11[p] \in Upkeep!Process /\ Upkeep!ProcessOK(p)
    BY UpkeepKnows
  <1>1. Upkeep!At(p, {"ready"}) /\ Upkeep!At(p, Upkeep!Owning)
    BY DEF Upkeep!Publish, Upkeep!At, Upkeep!Owning, Upkeep!Working
  <1>2. /\ v10' = v10 + 1 /\ v10 + 1 \in 0..MaxTokens /\ v8' = v10 + 1 /\ v9' = p /\ v9 = "none"
        /\ UNCHANGED <<Upkeep!disk, v7, v2, v3, v12>> /\ Upkeep!Holds(p) /\ Upkeep!Holds(p)'
    BY <1>0, <1>1, MaintenanceAssumption DEF Upkeep!Publish, Upkeep!LiveHost, Upkeep!ProcessOK,
       Upkeep!OwnsLock, Upkeep!Holds, Upkeep!TypeOK
  <1>3. /\ v11' \in [ProcessSlots -> Upkeep!Process] /\ \A q \in ProcessSlots \ {p} : v11'[q] = v11[q]
        /\ v11'[p].pc = (IF v11[p].op = 0 THEN "finalized" ELSE "published")
        /\ v11'[p].tok = v10 + 1 /\ v11'[p].op = v11[p].op
    BY <1>0, <1>2 DEF Upkeep!Publish, Upkeep!TypeOK, Upkeep!Process, Upkeep!Places, Upkeep!Working
  <1>4. v11[p].op # 0 =>
          /\ v6 = v11[p].op /\ v5[v11[p].op].kind = "RESTART"
          /\ v10 + 1 > v5[v11[p].op].source
    <2>1. v11[p].op # 0 => v11[p].op \in Upkeep!Ops
      BY <1>0, MaintenanceAssumption DEF Upkeep!Process, Upkeep!Ops
    <2>2. v11[p].op # 0 => v6 = v11[p].op /\ v5[v11[p].op].kind = "RESTART"
      BY <1>0, <1>1 DEF Upkeep!ProcessOK, Upkeep!OperationOK, Upkeep!IntentOK, Upkeep!At
    <2> QED BY <2>1, <2>2, UpkeepKnows
  <1>5. v11[p].op = 0 => ~Upkeep!Open
    BY <1>0, <1>1 DEF Upkeep!ProcessOK, Upkeep!OperationOK, Upkeep!At
  <1>6. Upkeep!ProcessOK(p)'
    BY <1>2, <1>3, <1>4, <1>5 DEF Upkeep!ProcessOK, Upkeep!OwnsLock, Upkeep!TokenOK, Upkeep!OperationOK,
       Upkeep!IntentOK, Upkeep!HostOK, Upkeep!At, Upkeep!Active, Upkeep!Preparing, Upkeep!Open, Upkeep!disk
  <1>7. Upkeep!TypeOK'
    BY <1>0, <1>2, <1>3 DEF Upkeep!TypeOK, Upkeep!disk
  <1>8. v10 <= v10' /\ v8' <= v10' /\ v11'[p].tok <= v10' /\ \A o \in Upkeep!Ops : v5'[o].source <= v10'
    BY <1>2, <1>3, UpkeepKnows DEF Upkeep!disk
  <1> QED BY <1>1, <1>2, <1>3, <1>6, <1>7, <1>8, UpkeepOwnerKeeps, UpkeepKnows

(* Fail: what it marks was open before.                                     *)
LEMMA UpkeepFailKeeps ==
    ASSUME Upkeep!Inv, NEW p \in ProcessSlots, Upkeep!Fail(p)
    PROVE  Upkeep!Inv'
  <1>0. Upkeep!TypeOK /\ v11[p] \in Upkeep!Process /\ Upkeep!ProcessOK(p)
    BY UpkeepKnows
  <1>1. Upkeep!At(p, Upkeep!Owning)
    BY DEF Upkeep!Fail, Upkeep!At, Upkeep!Owning
  <1>2. Upkeep!Holds(p) /\ UNCHANGED <<v1, v5, v6, v7, v8, v10>> /\ v12' \in 0..MaintenanceFaults
        /\ v9' \in {v9, "none"} /\ (v9' # v9 => v9 = p)
    BY <1>0, <1>1, MaintenanceAssumption DEF Upkeep!Fail, Upkeep!Fault, Upkeep!Unfenced, Upkeep!ProcessOK,
       Upkeep!OwnsLock, Upkeep!TypeOK
  <1>3. PICK pc \in {"failed", "stuck"} : Upkeep!Goto(p, pc) /\ (pc = "stuck" => UNCHANGED <<v2, v3>>)
    BY DEF Upkeep!Fail
  <1>4. pc \in Upkeep!Places
    BY DEF Upkeep!Places, Upkeep!Ended
  <1>5. /\ v11' \in [ProcessSlots -> Upkeep!Process] /\ \A q \in ProcessSlots \ {p} : v11'[q] = v11[q]
        /\ v11'[p].pc = pc /\ v11'[p].tok = v11[p].tok
    BY <1>0, <1>3, <1>4, UpkeepGoing
  <1>6. v2' \in {"free", "held", "abandoned"} /\ v3' \in ProcessSlots
    BY <1>0 DEF Upkeep!Fail, Upkeep!Drop, Upkeep!TypeOK
  <1>7. v4' \in [Upkeep!Ops -> {"NONE", "SUCCEEDED", "ABORTED"} \cup Upkeep!Incomplete]
        /\ (Upkeep!Open' => Upkeep!Open)
    <2> DEFINE o == v11[p].op
    <2>1. CASE v4' = v4
      BY <1>0, <1>2, <2>1 DEF Upkeep!TypeOK, Upkeep!Open
    <2>2. CASE v4' # v4
      <3>1. o # 0 /\ v4[o] \in Upkeep!Entered /\ v4' = [v4 EXCEPT ![o] = "RECOVERY_REQUIRED"] /\ v6' = v6
        BY <1>2, <2>2 DEF Upkeep!Fail, Upkeep!Mark, Upkeep!Write
      <3>2. o \in Upkeep!Ops
        BY <1>0, <3>1, MaintenanceAssumption DEF Upkeep!Process, Upkeep!Ops
      <3>3. \A k \in Upkeep!Ops : v4'[k] = IF k = o THEN "RECOVERY_REQUIRED" ELSE v4[k]
        BY <1>0, <3>1 DEF Upkeep!TypeOK
      <3>4. v6 # 0 => v6 \in Upkeep!Ops
        BY <1>0, MaintenanceAssumption DEF Upkeep!TypeOK, Upkeep!Ops
      <3> QED BY <1>0, <3>1, <3>2, <3>3, <3>4 DEF Upkeep!TypeOK, Upkeep!Open, Upkeep!Incomplete
    <2> QED BY <2>1, <2>2
  <1>8. Upkeep!ProcessOK(p)'
    BY <1>2, <1>3, <1>5, UpkeepOutside DEF Upkeep!Holds
  <1>9. Upkeep!TypeOK'
    BY <1>0, <1>2, <1>5, <1>6, <1>7 DEF Upkeep!TypeOK
  <1> QED BY <1>1, <1>2, <1>5, <1>7, <1>8, <1>9, UpkeepKnows, UpkeepOwnerKeeps

(* Shutdown and Die.                                                        *)
LEMMA UpkeepLeavingKeeps ==
    ASSUME Upkeep!Inv, NEW p \in ProcessSlots, Upkeep!Shutdown(p) \/ Upkeep!Die(p)
    PROVE  Upkeep!Inv'
  <1>0. Upkeep!TypeOK /\ v11[p] \in Upkeep!Process /\ Upkeep!ProcessOK(p)
    BY UpkeepKnows
  <1>1. UNCHANGED <<Upkeep!disk, v3, v7, v8, v10>> /\ v12' \in 0..MaintenanceFaults
        /\ v9' \in {v9, "none"} /\ (v9' # v9 => v9 = p)
        /\ v2' \in {"free", "held", "abandoned"} /\ (v2' # v2 => Upkeep!Holds(p))
    BY <1>0, MaintenanceAssumption DEF Upkeep!Shutdown, Upkeep!Die, Upkeep!Fault, Upkeep!Unfenced,
       Upkeep!TypeOK
  <1>2. /\ v11' \in [ProcessSlots -> Upkeep!Process] /\ \A q \in ProcessSlots \ {p} : v11'[q] = v11[q]
        /\ v11'[p].pc \in {"failed", "dead"} /\ v11'[p].tok \in {v11[p].tok, 0}
    <2>1. CASE Upkeep!Goto(p, "failed")
      BY <1>0, <2>1, UpkeepGoing DEF Upkeep!Places, Upkeep!Ended
    <2>2. CASE Upkeep!Die(p)
      <3> DEFINE new == [Upkeep!Fresh EXCEPT !.pc = "dead"]
      <3>1. v11' = [v11 EXCEPT ![p] = new]
        BY <2>2 DEF Upkeep!Die
      <3>2. new \in Upkeep!Process /\ new.pc = "dead" /\ new.tok = 0
        BY MaintenanceAssumption DEF Upkeep!Fresh, Upkeep!Process, Upkeep!Places, Upkeep!Ended
      <3> QED BY <1>0, <3>1, <3>2 DEF Upkeep!TypeOK
    <2> QED BY <2>1, <2>2 DEF Upkeep!Shutdown
  <1>3. Upkeep!ProcessOK(p)'
    BY <1>2, UpkeepOutside
  <1>4. Upkeep!TypeOK'
    BY <1>0, <1>1, <1>2 DEF Upkeep!TypeOK, Upkeep!disk
  <1>5. \A q \in ProcessSlots \ {p} : Upkeep!Holds(q) => Upkeep!Holds(q)'
    BY <1>1 DEF Upkeep!Holds
  <1>6. UpkeepDoes(p)
    BY <1>1, <1>2, <1>3, <1>4, <1>5, UpkeepKnows DEF UpkeepDoes, Upkeep!disk, Upkeep!Open
  <1> QED BY <1>6, UpkeepDoesKeeps

(* What strikes everybody.                                                  *)
LEMMA UpkeepCrashKeeps ==
    ASSUME Upkeep!Inv, Upkeep!ServerCrash
    PROVE  Upkeep!Inv'
  <1>1. /\ UNCHANGED <<Upkeep!disk, v2, v3, v8, v10>> /\ v7' = "down" /\ v9' = "none"
        /\ v12' \in 0..MaintenanceFaults
    BY MaintenanceAssumption DEF Upkeep!ServerCrash, Upkeep!Fault, Upkeep!Inv, Upkeep!TypeOK
  <1>2. ASSUME NEW p \in ProcessSlots
        PROVE  /\ v11'[p] \in Upkeep!Process /\ v11'[p].tok = v11[p].tok /\ v11'[p].op = v11[p].op
               /\ \/ v11'[p].pc = v11[p].pc /\ ~Upkeep!At(p, Upkeep!Active)
                  \/ v11'[p].pc = "failed"
                  \/ v11'[p].pc = "stuck" /\ Upkeep!At(p, Upkeep!Preparing)
    <2>0. v11[p] \in Upkeep!Process
      BY DEF Upkeep!Inv, Upkeep!TypeOK
    <2>1. CASE Upkeep!At(p, {"serving"})
      <3>1. v11'[p] = [v11[p] EXCEPT !.pc = "failed"]
        BY <2>1 DEF Upkeep!ServerCrash, Upkeep!At, Upkeep!Preparing
      <3> QED BY <2>0, <3>1 DEF Upkeep!Process, Upkeep!Places, Upkeep!Ended
    <2>2. CASE Upkeep!At(p, Upkeep!Preparing)
      <3>1. v11'[p] = [v11[p] EXCEPT !.pc = "stuck"]
        BY <2>2 DEF Upkeep!ServerCrash, Upkeep!At, Upkeep!Preparing
      <3> QED BY <2>0, <2>2, <3>1 DEF Upkeep!Process, Upkeep!Places
    <2>3. CASE ~Upkeep!At(p, {"serving"}) /\ ~Upkeep!At(p, Upkeep!Preparing)
      <3>1. v11'[p] = v11[p]
        BY <2>3 DEF Upkeep!ServerCrash
      <3> QED BY <2>0, <2>3, <3>1 DEF Upkeep!At, Upkeep!Active
    <2> QED BY <2>1, <2>2, <2>3
  <1>3. Upkeep!TypeOK'
    BY <1>1, <1>2 DEF Upkeep!ServerCrash, Upkeep!Inv, Upkeep!TypeOK, Upkeep!disk
  <1>4. ASSUME NEW p \in ProcessSlots PROVE Upkeep!ProcessOK(p)'
    <2>0. Upkeep!ProcessOK(p) /\ (Upkeep!Holds(p)' <=> Upkeep!Holds(p))
      BY <1>1 DEF Upkeep!Inv, Upkeep!Holds
    <2>1. CASE v11'[p].pc = "failed"
      BY <2>1, UpkeepOutside
    <2>2. CASE v11'[p].pc = "stuck" /\ Upkeep!At(p, Upkeep!Preparing)
      BY <2>0, <2>2, UpkeepOutside DEF Upkeep!ProcessOK, Upkeep!OwnsLock, Upkeep!Owning, Upkeep!At
    <2>3. CASE v11'[p].pc = v11[p].pc /\ ~Upkeep!At(p, Upkeep!Active)
      BY <1>1, <1>2, <2>0, <2>3 DEF Upkeep!ProcessOK, Upkeep!OwnsLock, Upkeep!TokenOK,
         Upkeep!OperationOK, Upkeep!IntentOK, Upkeep!HostOK, Upkeep!At, Upkeep!LiveHost, Upkeep!Open,
         Upkeep!disk, Upkeep!Active, Upkeep!Preparing
    <2> QED BY <1>2, <2>1, <2>2, <2>3
  <1> QED BY <1>1, <1>2, <1>3, <1>4 DEF Upkeep!Inv, Upkeep!disk

(* PowerLoss.                                                               *)
LEMMA UpkeepPowerKeeps ==
    ASSUME Upkeep!Inv, Upkeep!PowerLoss
    PROVE  Upkeep!Inv'
  <1>1. UNCHANGED <<Upkeep!disk, v3, v8, v10>> /\ v12' \in 0..MaintenanceFaults /\ v7' = "down" /\ v9' = "none"
        /\ v2' \in {"free", "held", "abandoned"}
    BY MaintenanceAssumption DEF Upkeep!PowerLoss, Upkeep!Fault, Upkeep!Inv, Upkeep!TypeOK
  <1>2. \A p \in ProcessSlots : v11'[p].pc = "dead" /\ v11'[p].tok = 0
    BY DEF Upkeep!PowerLoss, Upkeep!Fresh
  <1>3. v11' \in [ProcessSlots -> Upkeep!Process]
    BY MaintenanceAssumption DEF Upkeep!PowerLoss, Upkeep!Fresh, Upkeep!Process, Upkeep!Places, Upkeep!Ended
  <1>4. Upkeep!TypeOK'
    BY <1>1, <1>3 DEF Upkeep!Inv, Upkeep!TypeOK, Upkeep!disk
  <1>5. \A p \in ProcessSlots : Upkeep!ProcessOK(p)'
    BY <1>2, UpkeepOutside
  <1> QED BY <1>1, <1>2, <1>4, <1>5, MaintenanceAssumption DEF Upkeep!Inv, Upkeep!TypeOK, Upkeep!disk

(* Damage.                                                                  *)
LEMMA UpkeepDamageKeeps ==
    ASSUME Upkeep!Inv, Upkeep!Damage
    PROVE  Upkeep!Inv'
  <1>1. UNCHANGED <<v4, v5, v6, Upkeep!db, v2, v3, v11>> /\ v1' = "DAMAGED" /\ v12' \in 0..MaintenanceFaults
    BY MaintenanceAssumption DEF Upkeep!Damage, Upkeep!Fault, Upkeep!Inv, Upkeep!TypeOK
  <1>2. Upkeep!TypeOK'
    BY <1>1 DEF Upkeep!Inv, Upkeep!TypeOK, Upkeep!db
  <1>3. ASSUME NEW p \in ProcessSlots PROVE Upkeep!ProcessOK(p)'
    BY <1>1 DEF Upkeep!Inv, Upkeep!ProcessOK, Upkeep!OwnsLock, Upkeep!TokenOK, Upkeep!OperationOK,
       Upkeep!IntentOK, Upkeep!HostOK, Upkeep!At, Upkeep!Holds, Upkeep!Open, Upkeep!LiveHost, Upkeep!db
  <1> QED BY <1>1, <1>2, <1>3 DEF Upkeep!Inv, Upkeep!db

(* Every step keeps the invariant.                                          *)
LEMMA UpkeepNextInv ==
    ASSUME Upkeep!Inv, [Upkeep!Next]_Upkeep!vars
    PROVE  Upkeep!Inv'
  <1>1. CASE UNCHANGED Upkeep!vars
    <2>1. Upkeep!TypeOK'
      BY <1>1 DEF Upkeep!Inv, Upkeep!TypeOK, Upkeep!vars
    <2>2. ASSUME NEW p \in ProcessSlots PROVE Upkeep!ProcessOK(p)'
      BY <1>1 DEF Upkeep!Inv, Upkeep!ProcessOK, Upkeep!OwnsLock, Upkeep!TokenOK, Upkeep!OperationOK,
         Upkeep!IntentOK, Upkeep!HostOK, Upkeep!At, Upkeep!Holds, Upkeep!Open, Upkeep!LiveHost,
         Upkeep!vars
    <2> QED BY <1>1, <2>1, <2>2 DEF Upkeep!Inv, Upkeep!vars
  <1>2. CASE Upkeep!Next
    <2>1. ASSUME NEW p \in ProcessSlots,
                 Upkeep!Boots(p) \/ Upkeep!Works(p) \/ Upkeep!Requests(p) \/ Upkeep!Recover(p)
                 \/ Upkeep!Die(p) \/ Upkeep!Reuse(p)
          PROVE  Upkeep!Inv'
      <3>1. CASE Upkeep!Prepare(p) \/ Upkeep!ReleaseStopped(p) \/ Upkeep!Recover(p) \/ Upkeep!Reuse(p)
        BY <3>1, UpkeepOutsideKeeps
      <3>2. CASE Upkeep!Acquire(p) \/ Upkeep!AcquireRecovery(p) \/ Upkeep!Continue(p) \/ Upkeep!Lock(p)
        BY <3>2, UpkeepTakingKeeps
      <3>3. CASE Upkeep!Materialize(p) \/ Upkeep!Serve(p) \/ Upkeep!PrepareFails(p)
        BY <3>3, UpkeepHoldingKeeps
      <3>4. CASE Upkeep!PrepareServer(p) \/ Upkeep!Stop(p) \/ Upkeep!Start(p)
        BY <3>4, UpkeepServerKeeps
      <3>5. CASE Upkeep!Finalize(p) \/ Upkeep!Stopped(p) \/ Upkeep!AbortPrepared(p)
        BY <3>5, UpkeepEndingKeeps
      <3>6. CASE Upkeep!CreateJournal(p)
        BY <3>6, UpkeepCreateKeeps
      <3>7. CASE Upkeep!CommitPointer(p)
        BY <3>7, UpkeepCommitKeeps
      <3>8. CASE Upkeep!AbortBeforeExecute(p) \/ Upkeep!PublishExecuting(p)
        BY <3>8, UpkeepDecidingKeeps
      <3>9. CASE Upkeep!Retire(p) \/ Upkeep!RevokeSource(p)
        BY <3>9, UpkeepRevokingKeeps
      <3>10. CASE Upkeep!Publish(p)
        BY <3>10, UpkeepPublishKeeps
      <3>11. CASE Upkeep!Fail(p)
        BY <3>11, UpkeepFailKeeps
      <3>12. CASE Upkeep!Shutdown(p) \/ Upkeep!Die(p)
        BY <3>12, UpkeepLeavingKeeps
      <3> QED BY <2>1, <3>1, <3>2, <3>3, <3>4, <3>5, <3>6, <3>7, <3>8, <3>9, <3>10, <3>11, <3>12
             DEF Upkeep!Boots, Upkeep!Works, Upkeep!Requests
    <2>2. CASE Upkeep!ServerCrash \/ Upkeep!PowerLoss \/ Upkeep!Damage
      BY <2>2, UpkeepCrashKeeps, UpkeepPowerKeeps, UpkeepDamageKeeps
    <2> QED BY <1>2, <2>1, <2>2 DEF Upkeep!Next
  <1> QED BY <1>1, <1>2

(* The invariant says what the run checks of a state.                       *)
LEMMA UpkeepInvSays ==
    ASSUME Upkeep!Inv
    PROVE  Upkeep!TypeOK /\ Upkeep!NoHostOverObligation /\ Upkeep!ServingIsFenced /\ Upkeep!NotEnteredIsTrue
  <1>1. Upkeep!NoHostOverObligation
    BY DEF Upkeep!Inv, Upkeep!ProcessOK, Upkeep!HostOK, Upkeep!NoHostOverObligation, Upkeep!Open
  <1>2. Upkeep!ServingIsFenced
    BY DEF Upkeep!Inv, Upkeep!ProcessOK, Upkeep!TokenOK, Upkeep!ServingIsFenced, Upkeep!At
  <1>3. Upkeep!NotEnteredIsTrue
    BY DEF Upkeep!Inv, Upkeep!ProcessOK, Upkeep!IntentOK, Upkeep!NotEnteredIsTrue, Upkeep!At
  <1> QED BY <1>1, <1>2, <1>3 DEF Upkeep!Inv

(* An operation ends as SUCCEEDED by Finalize or Stopped.                   *)
LEMMA UpkeepSucceedsThen ==
    ASSUME Upkeep!Inv, [Upkeep!Next]_Upkeep!vars
    PROVE  Upkeep!SucceedsWhenReached
  <1> SUFFICES ASSUME NEW o \in Upkeep!Ops, v4[o] # "SUCCEEDED", v4'[o] = "SUCCEEDED"
               PROVE  IF v5[o].kind = "STOP"
                      THEN v7 = "down" /\ \A p \in ProcessSlots : ~Upkeep!At(p, Upkeep!Active)
                      ELSE v8 > v5[o].source
    BY DEF Upkeep!SucceedsWhenReached
  <1>1. PICK p \in ProcessSlots : (Upkeep!Finalize(p) \/ Upkeep!Stopped(p)) /\ o = v11[p].op
    <2>0. v4 \in [Upkeep!Ops -> {"NONE", "SUCCEEDED", "ABORTED"} \cup Upkeep!Incomplete]
      BY DEF Upkeep!Inv, Upkeep!TypeOK
    <2>1. v4' # v4
      OBVIOUS
    <2>2. PICK p \in ProcessSlots : Upkeep!Boots(p) \/ Upkeep!Works(p) \/ Upkeep!Requests(p)
                                    \/ Upkeep!Recover(p) \/ Upkeep!Die(p) \/ Upkeep!Reuse(p)
      BY <2>1 DEF Upkeep!Next, Upkeep!vars, Upkeep!ServerCrash, Upkeep!PowerLoss, Upkeep!Damage, Upkeep!disk
    <2>3. Upkeep!Finalize(p) \/ Upkeep!Stopped(p) \/ Upkeep!CreateJournal(p)
          \/ Upkeep!AbortBeforeExecute(p) \/ Upkeep!PublishExecuting(p)
          \/ Upkeep!AbortPrepared(p) \/ Upkeep!Fail(p)
      BY <2>1, <2>2 DEF Upkeep!Boots, Upkeep!Works, Upkeep!Requests, Upkeep!Recover, Upkeep!Die,
         Upkeep!Reuse, Upkeep!Prepare, Upkeep!Acquire, Upkeep!Materialize, Upkeep!PrepareServer,
         Upkeep!Publish, Upkeep!Serve, Upkeep!Retire, Upkeep!Stop, Upkeep!ReleaseStopped, Upkeep!Start,
         Upkeep!AcquireRecovery, Upkeep!Continue, Upkeep!RevokeSource, Upkeep!Shutdown, Upkeep!Lock,
         Upkeep!CommitPointer, Upkeep!PrepareFails, Upkeep!disk
    <2>4. /\ ~Upkeep!CreateJournal(p) /\ ~Upkeep!AbortBeforeExecute(p) /\ ~Upkeep!PublishExecuting(p)
          /\ ~Upkeep!AbortPrepared(p) /\ ~Upkeep!Fail(p)
      BY <2>0 DEF Upkeep!CreateJournal, Upkeep!AbortBeforeExecute, Upkeep!PublishExecuting,
         Upkeep!AbortPrepared, Upkeep!Fail, Upkeep!Mark, Upkeep!Write
    <2>5. o = v11[p].op
      BY <2>0, <2>3, <2>4 DEF Upkeep!Finalize, Upkeep!Stopped, Upkeep!Write
    <2> QED BY <2>3, <2>4, <2>5
  <1>2. Upkeep!ProcessOK(p)
    BY DEF Upkeep!Inv
  <1>3. CASE Upkeep!Finalize(p)
    BY <1>1, <1>2, <1>3 DEF Upkeep!Finalize, Upkeep!ProcessOK, Upkeep!OperationOK, Upkeep!IntentOK,
       Upkeep!At
  <1>4. CASE Upkeep!Stopped(p)
    <2>1. v5[o].kind = "STOP" /\ v7 = "down" /\ ~Upkeep!LiveHost
      BY <1>1, <1>2, <1>4 DEF Upkeep!Stopped, Upkeep!ProcessOK, Upkeep!IntentOK, Upkeep!TokenOK, Upkeep!At
    <2>2. \A q \in ProcessSlots : ~Upkeep!At(q, Upkeep!Active)
      BY <2>1, MaintenanceAssumption DEF Upkeep!Inv, Upkeep!ProcessOK, Upkeep!TokenOK, Upkeep!LiveHost
    <2> QED BY <2>1, <2>2
  <1> QED BY <1>1, <1>3, <1>4

------------------------------------------------------------------------------
(* ProductHost: v1 mode, v2 up, v3 step, v4 stuck, v5 lost, v6 asked,       *)
(* v7 lock, v8 holder, v9 server, v10 descriptor, v11 removing,             *)
(* v12 displaced, v13 faults.                                               *)

Modes == {"off", "starting", "running", "closing", "failing", "closed", "failed"}

(* The types one by one.                                                    *)
HostTypes ==
    /\ v1 \in [HostBoots -> Modes]
    /\ v2 \in [HostBoots -> SUBSET Product!Parts] /\ v4 \in [HostBoots -> SUBSET Product!Parts]
    /\ v3 \in [HostBoots -> 0..9]
    /\ v5 \subseteq HostBoots /\ v6 \subseteq HostBoots /\ v11 \subseteq HostBoots
    /\ v7 \in HostBoots \cup {None} /\ v8 \in HostBoots \cup {None} /\ v10 \in HostBoots \cup {None}
    /\ v9 \in BOOLEAN /\ v12 \in BOOLEAN /\ v13 \in 0..HostFaults

(* They are the module's.                                                   *)
LEMMA HostTyped == Product!TypeOK <=> HostTypes
  <1>1. {v5, v6, v11} \subseteq SUBSET HostBoots <=>
           v5 \subseteq HostBoots /\ v6 \subseteq HostBoots /\ v11 \subseteq HostBoots
    BY Zenon
  <1>2. {v7, v8, v10} \subseteq HostBoots \cup {None} <=>
           v7 \in HostBoots \cup {None} /\ v8 \in HostBoots \cup {None} /\ v10 \in HostBoots \cup {None}
    BY Zenon
  <1> QED BY <1>1, <1>2, Zenon DEF Product!TypeOK, HostTypes, Modes

(* What a boot has up of the parts that use others.                         *)
Whole(U, S) ==
    /\ "persistence" \in U \ S => "host" \in U
    /\ "cognition" \in U \ S => "persistence" \in U
    /\ "supervisor" \in U \ S => "persistence" \in U
    /\ "durable" \in U \ S => "supervisor" \in U /\ "persistence" \in U
    /\ "reconciler" \in U \ S => "durable" \in U
    /\ "http" \in U \ S => "reconciler" \in U /\ "supervisor" \in U /\ "cognition" \in U

(* The parts that use others.                                               *)
Users == {"persistence", "cognition", "supervisor", "durable", "reconciler", "http"}

(* They are the module's, and so is what they use.                          *)
LEMMA HostUses ==
    /\ DOMAIN Product!Uses = Users
    /\ \A U, S : (\A part \in (DOMAIN Product!Uses \cap U) \ S : Product!Uses[part] \subseteq U) <=> Whole(U, S)
  <1>1. DOMAIN Product!Uses = Users
    BY DEF Product!Uses, Users
  <1>2. /\ Product!Uses["persistence"] = {"host"} /\ Product!Uses["cognition"] = {"persistence"}
        /\ Product!Uses["supervisor"] = {"persistence"} /\ Product!Uses["durable"] = {"supervisor", "persistence"}
        /\ Product!Uses["reconciler"] = {"durable"}
        /\ Product!Uses["http"] = {"reconciler", "supervisor", "cognition"}
    BY DEF Product!Uses
  <1>3. ASSUME NEW U, NEW S
        PROVE  (\A part \in (Users \cap U) \ S : Product!Uses[part] \subseteq U) <=> Whole(U, S)
    BY <1>2 DEF Whole, Users
  <1> QED BY <1>1, <1>3

(* Before a step down, whatever uses the part it takes has been tried, and  *)
(* the step adds that part.                                                 *)
LEMMA HostOrder ==
    ASSUME NEW b \in HostBoots, HostTypes, v1[b] \in {"closing", "failing"}, v3[b] < 9
    PROVE  LET T == Product!Tried(b)
               part == Product!Next9(b) IN
           /\ part = "reconciler" => "http" \in T
           /\ part = "cognition" => "http" \in T
           /\ part = "durable" => "reconciler" \in T
           /\ part = "supervisor" => "durable" \in T /\ "http" \in T
           /\ part = "persistence" => "cognition" \in T /\ "supervisor" \in T /\ "durable" \in T
           /\ part = "host" => "persistence" \in T
           /\ part # "postgres" /\ (part = "published" => v1[b] = "closing" /\ v3[b] = 2)
           /\ v3[b] = 2 /\ v1[b] = "closing" => part = "published"
  <1>0. v3[b] \in 0..8
    BY DEF HostTypes
  <1>1. CASE v1[b] = "closing"
    <2>1. /\ Product!CloseOrder[1] = "claim" /\ Product!CloseOrder[2] = "http" /\ Product!CloseOrder[3] = "published"
          /\ Product!CloseOrder[4] = "reconciler" /\ Product!CloseOrder[5] = "durable"
          /\ Product!CloseOrder[6] = "cognition" /\ Product!CloseOrder[7] = "supervisor"
          /\ Product!CloseOrder[8] = "persistence" /\ Product!CloseOrder[9] = "host"
      BY DEF Product!CloseOrder
    <2>2. \A n \in 1..v3[b] : Product!CloseOrder[n] \in Product!Tried(b)
      BY <1>1 DEF Product!Tried
    <2>3. Product!Next9(b) = Product!CloseOrder[v3[b] + 1]
      BY <1>1 DEF Product!Next9
    <2> HIDE DEF Product!CloseOrder
    <2> QED BY <1>0, <1>1, <2>1, <2>2, <2>3
  <1>2. CASE v1[b] = "failing"
    <2>1. /\ Product!FailOrder[1] = "claim" /\ Product!FailOrder[2] = "http"
          /\ Product!FailOrder[3] = "reconciler" /\ Product!FailOrder[4] = "durable"
          /\ Product!FailOrder[5] = "cognition" /\ Product!FailOrder[6] = "supervisor"
          /\ Product!FailOrder[7] = "persistence" /\ Product!FailOrder[8] = "host"
          /\ Product!FailOrder[9] = "ownership"
      BY DEF Product!FailOrder
    <2>2. \A n \in 1..v3[b] : Product!FailOrder[n] \in Product!Tried(b)
      BY <1>2 DEF Product!Tried
    <2>3. Product!Next9(b) = Product!FailOrder[v3[b] + 1]
      BY <1>2 DEF Product!Next9
    <2> QED BY <1>0, <1>2, <2>1, <2>2, <2>3
  <1> QED BY <1>1, <1>2

(* What a step down adds to the parts that have been tried.                 *)
LEMMA HostTries ==
    ASSUME NEW b \in HostBoots, HostTypes, v1[b] \in {"closing", "failing"}, v3[b] < 9,
           Product!Taken(b), v1' = v1
    PROVE  Product!Tried(b)' = Product!Tried(b) \cup {Product!Next9(b)}
  <1>0. v3[b] \in 0..8 /\ v3'[b] = v3[b] + 1 /\ 1..(v3[b] + 1) = (1..v3[b]) \cup {v3[b] + 1}
    BY DEF HostTypes, Product!Taken
  <1>1. CASE v1[b] = "closing"
    <2>1. /\ Product!Tried(b) = {Product!CloseOrder[n] : n \in 1..v3[b]}
          /\ Product!Tried(b)' = {Product!CloseOrder[n] : n \in 1..(v3[b] + 1)}
          /\ Product!Next9(b) = Product!CloseOrder[v3[b] + 1]
      BY <1>0, <1>1 DEF Product!Tried, Product!Next9
    <2> QED BY <1>0, <2>1
  <1>2. CASE v1[b] = "failing"
    <2>1. /\ Product!Tried(b) = {Product!FailOrder[n] : n \in 1..v3[b]}
          /\ Product!Tried(b)' = {Product!FailOrder[n] : n \in 1..(v3[b] + 1)}
          /\ Product!Next9(b) = Product!FailOrder[v3[b] + 1]
      BY <1>0, <1>2 DEF Product!Tried, Product!Next9
    <2> QED BY <1>0, <2>1
  <1> QED BY <1>1, <1>2

(* What the invariant says of one boot.                                     *)
BootKept(b) ==
    /\ Product!BootOK(b) /\ Product!DescriptorOK(b)
    /\ b \notin v5 => Whole(v2[b], v4[b])
    /\ v1[b] = "running" /\ b \in v5 => b \in v6

(* It says nothing else.                                                    *)
LEMMA HostByBoot == Product!Inv <=> HostTypes /\ \A b \in HostBoots : BootKept(b)
  BY HostTyped, HostUses DEF Product!Inv, Product!NothingOutlivesItsUse, Product!LostIsClosing, BootKept

(* Nothing is up yet.                                                       *)
LEMMA HostInit == Product!Init => Product!Inv
  <1> SUFFICES ASSUME Product!Init PROVE Product!Inv
    OBVIOUS
  <1>1. /\ v12 = FALSE /\ v9 \in BOOLEAN
        /\ v1 = [b \in HostBoots |-> "off"] /\ v2 = [b \in HostBoots |-> {}] /\ v4 = [b \in HostBoots |-> {}]
        /\ v3 = [b \in HostBoots |-> 0] /\ v5 = {} /\ v6 = {} /\ v11 = {}
        /\ v7 = None /\ v8 = None /\ v10 = None /\ v13 = 0
    BY DEF Product!Init
  <1>2. HostTypes
    <2>1. v12 \in BOOLEAN
      BY <1>1
    <2> QED BY <1>1, <2>1, HostAssumption DEF HostTypes, Modes
  <1>3. ASSUME NEW b \in HostBoots PROVE BootKept(b)
    BY <1>1 DEF BootKept, Product!BootOK, Product!DescriptorOK, Product!Canonical, Whole
  <1> QED BY <1>2, <1>3, HostByBoot

(* The same of the state after a step.                                      *)
LEMMA HostByBootAfter == HostTypes' /\ (\A b \in HostBoots : BootKept(b))' => Product!Inv'
  BY HostByBoot, PTL

(* What a step of one boot leaves of another.                               *)
OthersKept(b) ==
    \A d \in HostBoots \ {b} :
       /\ v1'[d] = v1[d] /\ v2'[d] = v2[d] /\ v3'[d] = v3[d] /\ v4'[d] = v4[d]
       /\ (d \in v5' <=> d \in v5) /\ (d \in v6 => d \in v6') /\ (d \in v11' => d \in v11)
       /\ v8' = d => v8 = d
       /\ d \in v11 \/ v8 = d => (v10 = d \/ v12 => v10' = d \/ v12')

(* The invariant of the other boots then stays true.                        *)
LEMMA HostOthers ==
    ASSUME Product!Inv, NEW b \in HostBoots, OthersKept(b), HostTypes', BootKept(b)'
    PROVE  Product!Inv'
  <1>1. ASSUME NEW d \in HostBoots, d # b PROVE BootKept(d)'
    <2>1. BootKept(d)
      BY HostByBoot
    <2>2. /\ v1'[d] = v1[d] /\ v2'[d] = v2[d] /\ v3'[d] = v3[d] /\ v4'[d] = v4[d]
          /\ (d \in v5' <=> d \in v5) /\ (d \in v6 => d \in v6') /\ (d \in v11' => d \in v11)
          /\ v8' = d => v8 = d
          /\ d \in v11 \/ v8 = d => (v10 = d \/ v12 => v10' = d \/ v12')
      BY <1>1 DEF OthersKept
    <2>3. Product!Tried(d)' = Product!Tried(d)
      BY <2>2 DEF Product!Tried
    <2>4. Product!BootOK(d)'
      BY <2>1, <2>2, <2>3 DEF BootKept, Product!BootOK
    <2>5. Product!DescriptorOK(d)'
      BY <2>1, <2>2 DEF BootKept, Product!DescriptorOK, Product!Canonical
    <2> QED BY <2>1, <2>2, <2>4, <2>5 DEF BootKept, Whole
  <1> QED BY <1>1, HostByBootAfter

(* The part each one is brought up behind.                                  *)
Behind(part, U) ==
    /\ part = "persistence" => "host" \in U
    /\ part = "cognition" => "persistence" \in U
    /\ part = "supervisor" => "cognition" \in U
    /\ part = "durable" => "supervisor" \in U
    /\ part = "reconciler" => "durable" \in U
    /\ part = "http" => "reconciler" \in U
    /\ part = "published" => "http" \in U
    /\ part = "claim" => "published" \in U

(* One part more of a start, with or without the lease and the descriptor.  *)
LEMMA HostBring ==
    ASSUME Product!Inv, NEW b \in HostBoots, NEW part \in Product!Parts, NEW after,
           Product!Bring(b, part, after), v11' = v11, Behind(part, v2[b]),
           v7' \in HostBoots \cup {None}, v9' \in BOOLEAN, v12' \in BOOLEAN,
           v8' = v8 \/ (v8 = None /\ v8' = b /\ part = "host"),
           \/ part # "published" /\ v10' = v10 /\ v12' = v12
           \/ /\ part = "published" /\ v10' = b
              /\ v12' <=> v12 \/ v11 \ {b} # {} \/ v8 # b
    PROVE  Product!Inv'
  <1>0. HostTypes /\ BootKept(b) /\ None \notin HostBoots
    BY HostByBoot, HostAssumption
  <1>1. /\ v1[b] = "starting" /\ part \notin v2[b] /\ v2' = [v2 EXCEPT ![b] = @ \cup {part}]
        /\ UNCHANGED <<v1, v3, v4, v5, v6, v13>>
    BY DEF Product!Bring
  <1>2. HostTypes'
    BY <1>0, <1>1 DEF HostTypes
  <1>3. v2'[b] = v2[b] \cup {part} /\ \A d \in HostBoots \ {b} : v2'[d] = v2[d]
    BY <1>0, <1>1 DEF HostTypes
  <1>4. OthersKept(b)
    BY <1>0, <1>1, <1>3 DEF OthersKept
  <1>5. Product!Tried(b)' = {}
    <2>1. v3[b] = 0 /\ v3'[b] = 0 /\ 1..0 = {}
      BY <1>0, <1>1 DEF BootKept, Product!BootOK
    <2> QED BY <2>1 DEF Product!Tried
  <1>6. ASSUME b \notin v5 PROVE Whole(v2'[b], v4'[b])
    <2>1. v4[b] = {} /\ v4'[b] = {} /\ Whole(v2[b], {}) /\ ("supervisor" \in v2[b] => "cognition" \in v2[b])
      BY <1>0, <1>1, <1>6 DEF BootKept, Product!BootOK
    <2> QED BY <1>3, <2>1 DEF Whole, Behind
  <1>7. Product!BootOK(b)'
    BY <1>0, <1>1, <1>3, <1>5 DEF BootKept, Product!BootOK, Behind
  <1>8. Product!DescriptorOK(b)'
    <2>1. b \notin v11
      BY <1>0, <1>1 DEF BootKept, Product!DescriptorOK
    <2>2. ASSUME b \notin v5, v8' = b, "published" \in v2'[b] PROVE v10' = b \/ v12'
      <3>1. CASE part = "published"
        BY <1>0, <1>1, <2>2, <3>1
      <3>2. CASE part # "published"
        <4>1. "published" \in v2[b] /\ v10' = v10 /\ v12' = v12
          BY <1>3, <2>2, <3>2
        <4>2. "host" \in v2[b]
          BY <1>0, <1>1, <2>2, <4>1 DEF BootKept, Product!BootOK, Whole
        <4>3. v8 = b
          BY <1>1, <2>2, <4>2
        <4> QED BY <1>0, <1>1, <2>2, <4>1, <4>3 DEF BootKept, Product!DescriptorOK, Product!Canonical
      <3> QED BY <3>1, <3>2
    <2> QED BY <1>1, <2>1, <2>2 DEF Product!DescriptorOK, Product!Canonical
  <1> QED BY <1>0, <1>1, <1>2, <1>4, <1>6, <1>7, <1>8, HostOthers DEF BootKept

(* The ten parts of a start.                                                *)
LEMMA HostStarts ==
    ASSUME Product!Inv, NEW b \in HostBoots,
           \/ Product!preparePrivatePostgres(b) \/ Product!handoffPrivatePostgresToHost(b)
           \/ Product!ComposeServices(b) \/ Product!StartCognition(b) \/ Product!Supervise(b)
           \/ Product!StartDurable(b) \/ Product!StartReconciler(b) \/ Product!Listen(b)
           \/ Product!writeManagementEndpointDescriptor(b) \/ Product!MaintainClaim(b)
    PROVE  Product!Inv'
  <1>0. HostTypes /\ b \in HostBoots \cup {None} /\ None \in HostBoots \cup {None}
    BY HostByBoot
  <1>1. {"postgres", "host", "persistence", "cognition", "supervisor", "durable", "reconciler",
         "http", "published", "claim"} = Product!Parts
    BY DEF Product!Parts
  <1>2. CASE Product!preparePrivatePostgres(b)
    <2>1. Product!Bring(b, "postgres", {}) /\ v9' = TRUE /\ UNCHANGED <<v7, v8, v10, v11, v12>>
      BY <1>2 DEF Product!preparePrivatePostgres, Product!fileVars
    <2> QED BY <1>0, <1>1, <2>1, HostBring DEF Behind, HostTypes
  <1>3. CASE Product!handoffPrivatePostgresToHost(b)
    <2>1. Product!Bring(b, "host", {"postgres"}) /\ v8 = None /\ v8' = b /\ v7' = None /\ UNCHANGED <<v9, v10, v11, v12>>
      BY <1>3 DEF Product!handoffPrivatePostgresToHost, Product!fileVars
    <2> QED BY <1>0, <1>1, <2>1, HostBring DEF Behind, HostTypes
  <1>4. ASSUME NEW part, NEW after, <<part, after>> \in
                  {<<"persistence", {"host"}>>, <<"cognition", {"persistence"}>>, <<"supervisor", {"cognition"}>>,
                   <<"durable", {"supervisor"}>>, <<"reconciler", {"durable"}>>, <<"http", {"reconciler"}>>,
                   <<"claim", {"published"}>>},
               Product!Bring(b, part, after), UNCHANGED <<v7, v8, v9, v10, v11, v12>>
        PROVE  Product!Inv'
    <2>1. Behind(part, v2[b])
      BY <1>4 DEF Behind, Product!Bring
    <2>2. part \in Product!Parts
      BY <1>1, <1>4
    <2> QED BY <1>0, <1>4, <2>1, <2>2, HostBring DEF HostTypes
  <1>5. CASE \/ Product!ComposeServices(b) \/ Product!StartCognition(b) \/ Product!Supervise(b)
             \/ Product!StartDurable(b) \/ Product!StartReconciler(b) \/ Product!Listen(b)
             \/ Product!MaintainClaim(b)
    BY <1>4, <1>5 DEF Product!ComposeServices, Product!StartCognition, Product!Supervise, Product!StartDurable,
       Product!StartReconciler, Product!Listen, Product!MaintainClaim, Product!fileVars
  <1>6. CASE Product!writeManagementEndpointDescriptor(b)
    <2>1. /\ Product!Bring(b, "published", {"http"}) /\ v10' = b /\ UNCHANGED <<v7, v8, v9, v11>>
          /\ v12' = (v12 \/ v11 \ {b} # {} \/ v8 # b)
      BY <1>6 DEF Product!writeManagementEndpointDescriptor
    <2>2. v12' \in BOOLEAN
      BY <2>1
    <2>3. Behind("published", v2[b])
      BY <2>1 DEF Behind, Product!Bring
    <2> QED BY <1>0, <1>1, <2>1, <2>2, <2>3, HostBring DEF HostTypes
  <1> QED BY <1>2, <1>3, <1>5, <1>6

(* A step that brings no part up or down.                                   *)
LEMMA HostMoves ==
    ASSUME Product!Inv, NEW b \in HostBoots,
           \/ Product!acquireOwnership(b) \/ Product!Ready(b) \/ Product!StartFails(b)
           \/ Product!LoseHost(b) \/ Product!requestClose(b) \/ Product!ReleaseOwnership(b)
           \/ Product!Ended(b)
    PROVE  Product!Inv'
  <1>0. HostTypes /\ BootKept(b) /\ None \notin HostBoots
    BY HostByBoot, HostAssumption
  <1>1. ASSUME NEW m \in Modes, v1' = [v1 EXCEPT ![b] = m], UNCHANGED <<v2, v3, v4, v5, v9, v10, v11, v12>>,
               v6' \in {v6, v6 \cup {b}}, v7' \in HostBoots \cup {None}, v8' \in {v8, None}, v13' \in 0..HostFaults,
               b \in v11 => m = "closing",
               m # "off", m \in {"off", "starting", "running"} => v3[b] = 0 /\ (b \notin v5 => v4[b] = {}),
               m = "running" => v1[b] = "starting" /\ b \notin v5 /\ "claim" \in v2[b],
               m = "starting" => v2[b] = {},
               v3[b] = 0 \/ (m \in {"closing", "closed"} <=> v1[b] \in {"closing", "closed"})
        PROVE  Product!Inv'
    <2>1. HostTypes'
      BY <1>0, <1>1 DEF HostTypes
    <2>2. v1'[b] = m /\ \A d \in HostBoots \ {b} : v1'[d] = v1[d]
      BY <1>0, <1>1 DEF HostTypes
    <2>3. OthersKept(b)
      BY <1>0, <1>1, <2>2 DEF OthersKept
    <2>4. Product!Tried(b)' = Product!Tried(b)
      <3>1. CASE v3[b] = 0
        <4>1. 1..0 = {}
          OBVIOUS
        <4> QED BY <1>1, <3>1, <4>1 DEF Product!Tried
      <3>2. CASE m \in {"closing", "closed"} <=> v1[b] \in {"closing", "closed"}
        BY <1>1, <2>2, <3>2 DEF Product!Tried
      <3> QED BY <1>1, <3>1, <3>2
    <2>5. Product!BootOK(b)'
      BY <1>0, <1>1, <2>2, <2>4 DEF BootKept, Product!BootOK
    <2>6. Product!DescriptorOK(b)'
      BY <1>0, <1>1, <2>2 DEF BootKept, Product!DescriptorOK, Product!Canonical
    <2> QED BY <1>0, <1>1, <2>1, <2>2, <2>3, <2>5, <2>6, HostOthers DEF BootKept
  <1>2. CASE Product!acquireOwnership(b)
    BY <1>0, <1>1, <1>2 DEF Product!acquireOwnership, Product!fileVars, BootKept, Product!BootOK, Product!DescriptorOK,
       HostTypes, Modes
  <1>3. CASE Product!Ready(b)
    BY <1>0, <1>1, <1>3 DEF Product!Ready, Product!Canonical, Product!fileVars, BootKept, Product!BootOK,
       Product!DescriptorOK, HostTypes, Modes
  <1>4. CASE Product!StartFails(b)
    <2>1. v13' \in 0..HostFaults
      BY <1>0, <1>4, HostAssumption DEF Product!StartFails, Product!Fault, HostTypes
    <2> QED BY <1>0, <1>1, <1>4, <2>1 DEF Product!StartFails, Product!fileVars, BootKept, Product!BootOK,
               Product!DescriptorOK, HostTypes, Modes
  <1>5. CASE Product!requestClose(b)
    BY <1>0, <1>1, <1>5 DEF Product!requestClose, Product!fileVars, BootKept, Product!BootOK, Product!DescriptorOK,
       HostTypes, Modes
  <1>6. CASE Product!Ended(b)
    <2>1. PICK m \in {"closed", "failed"} : v1' = [v1 EXCEPT ![b] = m] /\ (m = "closed" <=> v1[b] = "closing")
      <3>1. CASE v1[b] = "closing"
        BY <1>0, <1>6, <3>1 DEF Product!Ended
      <3>2. CASE v1[b] # "closing"
        BY <1>0, <1>6, <3>2 DEF Product!Ended
      <3> QED BY <3>1, <3>2
    <2>2. b \notin v11
      BY <1>0, <1>6 DEF Product!Ended, BootKept, Product!DescriptorOK
    <2> QED BY <1>0, <1>1, <1>6, <2>1, <2>2 DEF Product!Ended, Product!fileVars, HostTypes, Modes
  <1>7. CASE Product!ReleaseOwnership(b)
    <2>1. /\ v1[b] \in {"closing", "failing"} /\ v3[b] < 9 /\ Product!Next9(b) = "ownership"
          /\ UNCHANGED <<v1, v2, v4, v5, v6, v8, v9, v10, v11, v12, v13>>
          /\ Product!Taken(b) /\ v7' \in {v7, None} /\ v3' = [v3 EXCEPT ![b] = @ + 1]
      BY <1>7 DEF Product!ReleaseOwnership, Product!Taking, Product!Taken, Product!fileVars
    <2>2. Product!Tried(b)' = Product!Tried(b) \cup {"ownership"}
      BY <1>0, <2>1, HostTries
    <2>3. b \notin v11
      BY <1>0, <2>1, HostOrder DEF BootKept, Product!DescriptorOK
    <2>4. HostTypes'
      BY <1>0, <2>1 DEF HostTypes
    <2>5. OthersKept(b)
      BY <1>0, <2>1 DEF OthersKept, HostTypes
    <2>6. Product!BootOK(b)'
      BY <1>0, <2>1, <2>2, HostUses DEF BootKept, Product!BootOK, Users
    <2> QED BY <1>0, <2>1, <2>3, <2>4, <2>5, <2>6, HostOthers DEF BootKept, Product!DescriptorOK
  <1>8. CASE Product!LoseHost(b)
    <2>1. /\ v8' = None /\ v5' = v5 \cup {b} /\ UNCHANGED <<v1, v2, v3, v4, v7, v9, v10, v11, v12>>
          /\ v6' = IF v1[b] = "running" THEN v6 \cup {b} ELSE v6
          /\ v13 < HostFaults /\ v13' = v13 + 1
      BY <1>8 DEF Product!LoseHost, Product!Fault, Product!fileVars
    <2>2. HostTypes'
      BY <1>0, <2>1, HostAssumption DEF HostTypes
    <2>3. OthersKept(b)
      BY <1>0, <2>1 DEF OthersKept
    <2>4. Product!Tried(b)' = Product!Tried(b)
      BY <2>1 DEF Product!Tried
    <2>5. Product!BootOK(b)'
      BY <1>0, <2>1, <2>4 DEF BootKept, Product!BootOK
    <2> QED BY <1>0, <2>1, <2>2, <2>3, <2>5, HostOthers DEF BootKept, Product!DescriptorOK, Product!Canonical
  <1> QED BY <1>2, <1>3, <1>4, <1>5, <1>6, <1>7, <1>8

(* One part less: it is gone, or its stop failed.                           *)
LEMMA HostDown ==
    ASSUME Product!Inv, NEW b \in HostBoots, NEW part, Product!Taking(b, part), Product!Taken(b),
           NEW U \in SUBSET Product!Parts, v2' = [v2 EXCEPT ![b] = U],
           NEW S \in SUBSET Product!Parts, v4' = [v4 EXCEPT ![b] = S],
           \/ U \in {v2[b] \ {part}, v2[b] \ {part, "postgres"}} /\ S = v4[b]
           \/ U = v2[b] /\ S \in {v4[b] \cup {part}, v4[b] \cup {part, "postgres"}},
           UNCHANGED <<v1, v5, v6, v7, v12>>, v8' \in {v8, None}, v9' \in BOOLEAN,
           v11' = v11 \ {b}, v13' \in 0..HostFaults,
           v10' = v10 \/ (b \in v11 /\ v10' = None)
    PROVE  Product!Inv'
  <1>0. HostTypes /\ BootKept(b) /\ None \notin HostBoots
    BY HostByBoot, HostAssumption
  <1>1. /\ v1[b] \in {"closing", "failing"} /\ v3[b] < 9 /\ Product!Next9(b) = part
        /\ v3' = [v3 EXCEPT ![b] = @ + 1]
    BY DEF Product!Taking, Product!Taken
  <1>2. HostTypes'
    BY <1>0, <1>1 DEF HostTypes
  <1>3. v2'[b] = U /\ v4'[b] = S /\ \A d \in HostBoots \ {b} : v2'[d] = v2[d] /\ v3'[d] = v3[d] /\ v4'[d] = v4[d]
    BY <1>0, <1>1 DEF HostTypes
  <1>4. OthersKept(b)
    <2>1. ASSUME NEW d \in HostBoots \ {b}, d \in v11 \/ v8 = d, v10 = d \/ v12 PROVE v10' = d \/ v12'
      BY <1>0, <2>1 DEF BootKept, Product!DescriptorOK
    <2> QED BY <1>0, <1>3, <2>1 DEF OthersKept
  <1>5. Product!Tried(b)' = Product!Tried(b) \cup {part}
    BY <1>0, <1>1, HostTries
  <1>6. Product!BootOK(b)'
    BY <1>0, <1>1, <1>3, <1>5, HostUses DEF BootKept, Product!BootOK
  <1>7. ASSUME b \notin v5 PROVE Whole(U, S)
    <2>1. Whole(v2[b], v4[b]) /\ (Users \cap Product!Tried(b)) \cap v2[b] \subseteq v4[b]
      BY <1>0, <1>7, HostUses DEF BootKept, Product!BootOK
    <2>2. /\ part = "reconciler" => "http" \in Product!Tried(b)
          /\ part = "cognition" => "http" \in Product!Tried(b)
          /\ part = "durable" => "reconciler" \in Product!Tried(b)
          /\ part = "supervisor" => "durable" \in Product!Tried(b) /\ "http" \in Product!Tried(b)
          /\ part = "persistence" => /\ "cognition" \in Product!Tried(b) /\ "supervisor" \in Product!Tried(b)
                                     /\ "durable" \in Product!Tried(b)
          /\ part = "host" => "persistence" \in Product!Tried(b)
      BY <1>0, <1>1, HostOrder
    <2>3. v4[b] \subseteq S /\ U \subseteq v2[b] /\ v2[b] \ U \subseteq {part, "postgres"}
      OBVIOUS
    <2> QED BY <2>1, <2>2, <2>3 DEF Whole, Users
  <1> QED BY <1>0, <1>1, <1>2, <1>3, <1>4, <1>6, <1>7, HostOthers DEF BootKept, Product!DescriptorOK

(* The steps by which a Host is taken down, or takes itself down.           *)
LEMMA HostStops ==
    ASSUME Product!Inv, NEW b \in HostBoots,
           \/ Product!SelfClose(b) \/ Product!StopPart(b) \/ Product!ReadDescriptor(b)
           \/ Product!UnlinkDescriptor(b) \/ Product!StopServer(b)
    PROVE  Product!Inv'
  <1>0. HostTypes /\ BootKept(b) /\ v2[b] \in SUBSET Product!Parts /\ v4[b] \in SUBSET Product!Parts
    BY HostByBoot DEF HostTypes
  <1>1. /\ v2 = [v2 EXCEPT ![b] = v2[b]] /\ v4 = [v4 EXCEPT ![b] = v4[b]]
        /\ \A P : v2[b] \ P \in SUBSET Product!Parts
    BY <1>0 DEF HostTypes
  <1>2. ASSUME NEW part, Product!Taking(b, part), v11 # v11 \ {b} PROVE part = "published"
    BY <1>0, <1>2, HostOrder DEF Product!Taking, BootKept, Product!DescriptorOK
  <1>3. CASE Product!SelfClose(b)
    <2>1. PICK part \in {"supervisor", "durable", "persistence"} : v2' = [v2 EXCEPT ![b] = @ \ {part}]
      BY <1>3 DEF Product!SelfClose
    <2>2. b \in v5 /\ UNCHANGED <<v1, v3, v4, v5, v6, v7, v8, v9, v10, v11, v12, v13>>
      BY <1>3 DEF Product!SelfClose, Product!fileVars
    <2>3. v2'[b] = v2[b] \ {part} /\ \A d \in HostBoots \ {b} : v2'[d] = v2[d]
      BY <1>0, <2>1 DEF HostTypes
    <2>4. HostTypes'
      BY <1>0, <2>1, <2>2 DEF HostTypes
    <2>5. Product!Tried(b)' = Product!Tried(b)
      BY <2>2 DEF Product!Tried
    <2>6. Product!BootOK(b)' /\ Product!DescriptorOK(b)'
      BY <1>0, <2>2, <2>3, <2>5 DEF BootKept, Product!BootOK, Product!DescriptorOK, Product!Canonical
    <2>7. OthersKept(b)
      BY <2>2, <2>3 DEF OthersKept
    <2> QED BY <1>0, <2>2, <2>4, <2>6, <2>7, HostOthers DEF BootKept
  <1>4. CASE Product!StopPart(b)
    <2>1. PICK part \in Product!Parts \ {"published", "host", "postgres"} :
             /\ Product!Taking(b, part)
             /\ \/ v2' = [v2 EXCEPT ![b] = v2[b] \ {part}] /\ v4' = v4 /\ v13' = v13
                \/ v4' = [v4 EXCEPT ![b] = v4[b] \cup {part}] /\ v2' = v2 /\ v13 < HostFaults /\ v13' = v13 + 1
      BY <1>4 DEF Product!StopPart, Product!Fault
    <2>2. Product!Taken(b) /\ UNCHANGED <<v1, v5, v6, v7, v8, v9, v10, v11, v12>>
      BY <1>4 DEF Product!StopPart, Product!fileVars
    <2>3. v13' \in 0..HostFaults /\ v9' \in BOOLEAN
      BY <1>0, <2>1, <2>2, HostAssumption DEF HostTypes
    <2>4. v11' = v11 \ {b}
      BY <1>2, <2>1, <2>2
    <2>5. CASE v2' = [v2 EXCEPT ![b] = v2[b] \ {part}] /\ v4' = v4
      BY <1>0, <1>1, <2>1, <2>2, <2>3, <2>4, <2>5, HostDown, ZenonT(40)
    <2>6. CASE v4' = [v4 EXCEPT ![b] = v4[b] \cup {part}] /\ v2' = v2
      <3>1. v4[b] \cup {part} \in SUBSET Product!Parts
        BY <1>0, <2>1
      <3> QED BY <1>0, <1>1, <2>1, <2>2, <2>3, <2>4, <2>6, <3>1, HostDown, ZenonT(40)
    <2> QED BY <2>1, <2>5, <2>6
  <1>5. CASE Product!ReadDescriptor(b)
    <2>1. /\ Product!Taking(b, "published") /\ b \notin v11
          /\ UNCHANGED <<v1, v4, v5, v6, v7, v8, v9, v10, v12, v13>>
      BY <1>5 DEF Product!ReadDescriptor
    <2>2. CASE v10 = b
      <3>1. v11' = v11 \cup {b} /\ v2' = v2 /\ v3' = v3
        BY <1>5, <2>2 DEF Product!ReadDescriptor
      <3>2. v1[b] = "closing" /\ v3[b] = 2
        BY <1>0, <2>1, HostOrder DEF Product!Taking
      <3>3. HostTypes'
        BY <1>0, <2>1, <3>1 DEF HostTypes
      <3>4. OthersKept(b)
        BY <2>1, <3>1 DEF OthersKept
      <3>5. Product!Tried(b)' = Product!Tried(b)
        BY <2>1, <3>1 DEF Product!Tried
      <3> QED BY <1>0, <2>1, <2>2, <3>1, <3>2, <3>3, <3>4, <3>5, HostOthers
              DEF BootKept, Product!BootOK, Product!DescriptorOK
    <2>3. CASE v10 # b
      <3>1. v11' = v11 /\ v2' = [v2 EXCEPT ![b] = v2[b] \ {"published"}] /\ Product!Taken(b)
        BY <1>5, <2>3 DEF Product!ReadDescriptor
      <3>2. v13' \in 0..HostFaults /\ v9' \in BOOLEAN /\ v11' = v11 \ {b}
        BY <1>0, <2>1, <3>1 DEF HostTypes
      <3> QED BY <1>0, <1>1, <2>1, <3>1, <3>2, HostDown
    <2> QED BY <2>2, <2>3
  <1>6. CASE Product!UnlinkDescriptor(b)
    <2>1. /\ b \in v11 /\ v10' = None /\ v11' = v11 \ {b} /\ v2' = [v2 EXCEPT ![b] = v2[b] \ {"published"}]
          /\ Product!Taken(b) /\ UNCHANGED <<v1, v4, v5, v6, v7, v8, v9, v12, v13>>
      BY <1>6 DEF Product!UnlinkDescriptor
    <2>2. Product!Taking(b, "published")
      BY <1>0, <2>1, HostOrder DEF Product!Taking, BootKept, Product!DescriptorOK
    <2>3. v13' \in 0..HostFaults /\ v9' \in BOOLEAN
      BY <1>0, <2>1 DEF HostTypes
    <2> QED BY <1>0, <1>1, <2>1, <2>2, <2>3, HostDown
  <1>7. CASE Product!StopServer(b)
    <2>1. Product!Taking(b, "host") /\ Product!Taken(b) /\ UNCHANGED <<v1, v5, v6, v7, v10, v11, v12>>
      BY <1>7 DEF Product!StopServer, Product!fileVars
    <2>2. v11' = v11 \ {b}
      BY <1>2, <2>1
    <2>3. v2[b] \ {"host", "postgres"} \in SUBSET Product!Parts /\ v4[b] \cup {"host", "postgres"} \in SUBSET Product!Parts
      BY <1>0 DEF Product!Parts
    <2>4. v8' \in {v8, None} /\ v9' \in {v9, FALSE} /\ v13' \in {v13, v13 + 1} /\ (v13' # v13 => v13 < HostFaults)
      <3>1. CASE Product!Canonical(b) /\ v9' = FALSE /\ v8' = None /\ v13' = v13
        BY <3>1
      <3>2. CASE v9' = v9 /\ v8' = v8 /\ (Product!Fault \/ v13' = v13)
        BY <3>2 DEF Product!Fault
      <3>3. CASE /\ v8' = v8 /\ v13' = v13
                 /\ v9' = IF v1[b] = "failing" /\ v7 = b /\ "postgres" \in v2[b] THEN FALSE ELSE v9
        BY <3>3
      <3>4. (IF v7 = None THEN Product!Fault ELSE UNCHANGED v13) => Product!Fault \/ v13' = v13
        OBVIOUS
      <3> QED BY <1>7, <3>1, <3>2, <3>3, <3>4 DEF Product!StopServer
    <2>5. v9' \in BOOLEAN /\ v13' \in 0..HostFaults
      <3>1. v9 \in BOOLEAN /\ FALSE \in BOOLEAN
        BY <1>0, Zenon DEF HostTypes
      <3>2. v13' \in 0..HostFaults
        BY <1>0, <2>4, HostAssumption DEF HostTypes
      <3> QED BY <2>4, <3>1, <3>2, Zenon
    <2>6. \/ v2' = [v2 EXCEPT ![b] = v2[b] \ {"host", "postgres"}] /\ v4' = v4
          \/ v4' = [v4 EXCEPT ![b] = v4[b] \cup {"host", "postgres"}] /\ v2' = v2
      BY <1>7 DEF Product!StopServer
    <2>7. PICK U \in SUBSET Product!Parts, S \in SUBSET Product!Parts :
             /\ v2' = [v2 EXCEPT ![b] = U] /\ v4' = [v4 EXCEPT ![b] = S]
             /\ \/ U = v2[b] \ {"host", "postgres"} /\ S = v4[b]
                \/ U = v2[b] /\ S = v4[b] \cup {"host", "postgres"}
      <3>1. CASE v2' = [v2 EXCEPT ![b] = v2[b] \ {"host", "postgres"}] /\ v4' = v4
        BY <1>0, <1>1, <2>3, <3>1
      <3>2. CASE v4' = [v4 EXCEPT ![b] = v4[b] \cup {"host", "postgres"}] /\ v2' = v2
        BY <1>0, <1>1, <2>3, <3>2
      <3> QED BY <2>6, <3>1, <3>2
    <2> QED BY <2>1, <2>2, <2>4, <2>5, <2>7, HostDown
  <1> QED BY <1>3, <1>4, <1>5, <1>6, <1>7

(* Every step of the Host processes keeps the invariant.                    *)
LEMMA HostStep == Product!Inv /\ [Product!Next]_Product!vars => Product!Inv'
  <1> SUFFICES ASSUME Product!Inv, [Product!Next]_Product!vars PROVE Product!Inv'
    OBVIOUS
  <1>1. CASE UNCHANGED Product!vars
    <2>1. HostTypes /\ \A b \in HostBoots : BootKept(b)
      BY HostByBoot
    <2>2. UNCHANGED <<v1, v2, v3, v4, v5, v6, v7, v8, v9, v10, v11, v12, v13>>
      BY <1>1 DEF Product!vars, Product!fileVars
    <2>3. HostTypes' /\ \A b \in HostBoots : BootKept(b)'
      BY <2>1, <2>2 DEF HostTypes, BootKept, Product!BootOK, Product!DescriptorOK, Product!Canonical, Product!Tried, Whole
    <2> QED BY <2>3, HostByBootAfter
  <1> QED BY <1>1, HostStarts, HostMoves, HostStops DEF Product!Next

(* What a Host promises follows.                                            *)
LEMMA HostPromise == Product!Inv => Product!HostIsWhole
  <1> SUFFICES ASSUME Product!Inv PROVE Product!RunningIsFound
    BY DEF Product!Inv, Product!HostIsWhole
  <1> QED BY DEF Product!Inv, Product!BootOK, Product!DescriptorOK, Product!RunningIsFound, Product!Canonical

------------------------------------------------------------------------------
(* FirstAdministrator: v1 owner, v2 claim, v3 expired, v4 administrator, v5 *)
(* file, v6 maintenance, v7 held, v8 started, v9 active, v10 timer, v11     *)
(* request, v12 session, v13 bearer, v14 lapses, v15 faults.                *)

(* The type of a request.                                                   *)
ClaimRequest ==
    [pc : {"no", "hashing", "claiming", "claimed", "removing"}, host : ClaimHosts,
     claim : 0..MaxClaims, inTime : BOOLEAN]

(* Nobody has begun.                                                        *)
LEMMA ClaimInitInv ==
    ASSUME Claim!Init
    PROVE  Claim!Inv
  <1>1. Claim!TypeOK
    BY ClaimAssumption DEF Claim!Init, Claim!TypeOK, Claim!Idle, Claim!Out, Claim!Claims, Claim!Sessions
  <1>2. Claim!ClaimsKnown
    BY DEF Claim!Init, Claim!ClaimsKnown, Claim!Known, Claim!Current, Claim!Idle
  <1>3. ASSUME NEW h \in ClaimHosts PROVE Claim!Maintained(h) /\ Claim!Published(h) /\ Claim!Removed(h)
    BY DEF Claim!Init, Claim!Maintained, Claim!Published, Claim!Renewing, Claim!Removed
  <1>4. ASSUME NEW k \in ClaimClients PROVE Claim!ClaimedBy(k) /\ Claim!LateIsOut(k)
    BY DEF Claim!Init, Claim!ClaimedBy, Claim!LateIsOut, Claim!Idle, Claim!Out
  <1> QED BY <1>1, <1>2, <1>3, <1>4 DEF Claim!Inv

(* startFirstClaimMaintenance: it reads the file.                           *)
LEMMA ClaimStartFirstClaimMaintenanceKeeps ==
    ASSUME Claim!Inv, NEW h \in ClaimHosts, Claim!startFirstClaimMaintenance(h)
    PROVE  Claim!Inv'
  <1>1. Claim!TypeOK'
    BY ClaimAssumption DEF Claim!Inv, Claim!TypeOK, Claim!Claims, Claim!Sessions,
       Claim!startFirstClaimMaintenance, Claim!claimVars, Claim!hostVars, Claim!sessionVars, Claim!Goes,
       Claim!Fault, Claim!Fenced, Claim!Starting, Claim!Current, Claim!Idle, Claim!Out
  <1>2. Claim!ClaimsKnown'
    BY DEF Claim!Inv, Claim!TypeOK, Claim!ClaimsKnown, Claim!Known, Claim!Claims,
       Claim!startFirstClaimMaintenance, Claim!claimVars, Claim!hostVars, Claim!sessionVars, Claim!Goes,
       Claim!Fault, Claim!Fenced, Claim!Starting, Claim!Current, Claim!Idle, Claim!Out
  <1>3. ASSUME NEW i \in ClaimHosts PROVE Claim!Maintained(i)'
    BY DEF Claim!Inv, Claim!TypeOK, Claim!Maintained, Claim!ClaimedBy, Claim!startFirstClaimMaintenance,
       Claim!claimVars, Claim!hostVars, Claim!sessionVars, Claim!Goes, Claim!Fault, Claim!Fenced,
       Claim!Starting, Claim!Current, Claim!Idle, Claim!Out
  <1>4. ASSUME NEW i \in ClaimHosts PROVE Claim!Published(i)'
    BY DEF Claim!Inv, Claim!TypeOK, Claim!ClaimsKnown, Claim!Known, Claim!Claims, Claim!Maintained,
       Claim!Published, Claim!Renewing, Claim!Open, Claim!Usable, Claim!ClaimedBy,
       Claim!startFirstClaimMaintenance, Claim!claimVars, Claim!hostVars, Claim!sessionVars, Claim!Goes,
       Claim!Fault, Claim!Fenced, Claim!Starting, Claim!Current, Claim!Idle, Claim!Out
  <1>5. ASSUME NEW i \in ClaimHosts PROVE Claim!Removed(i)'
    BY DEF Claim!Inv, Claim!TypeOK, Claim!ClaimsKnown, Claim!Claims, Claim!Maintained, Claim!Published,
       Claim!Removed, Claim!Renewing, Claim!Open, Claim!Usable, Claim!ClaimedBy,
       Claim!startFirstClaimMaintenance, Claim!claimVars, Claim!hostVars, Claim!sessionVars, Claim!Goes,
       Claim!Fault, Claim!Fenced, Claim!Starting, Claim!Current, Claim!Idle, Claim!Out
  <1>6. ASSUME NEW i \in ClaimClients PROVE Claim!ClaimedBy(i)' /\ Claim!LateIsOut(i)'
    BY DEF Claim!Inv, Claim!TypeOK, Claim!ClaimedBy, Claim!LateIsOut, Claim!startFirstClaimMaintenance,
       Claim!claimVars, Claim!hostVars, Claim!sessionVars, Claim!Goes, Claim!Fault, Claim!Fenced,
       Claim!Starting, Claim!Current, Claim!Idle, Claim!Out
  <1> QED BY <1>1, <1>2, <1>3, <1>4, <1>5, <1>6 DEF Claim!Inv

(* renew: what a Host with an expired claim renews, nobody can use.         *)
LEMMA ClaimRenewKeeps ==
    ASSUME Claim!Inv, NEW h \in ClaimHosts, Claim!renew(h)
    PROVE  Claim!Inv'
  <1>1. Claim!TypeOK'
    BY ClaimAssumption DEF Claim!Inv, Claim!TypeOK, Claim!Claims, Claim!Sessions, Claim!renew,
       Claim!claimVars, Claim!hostVars, Claim!sessionVars, Claim!Goes, Claim!Fault, Claim!Fenced,
       Claim!Starting, Claim!Current, Claim!Idle, Claim!Out
  <1>2. Claim!ClaimsKnown'
    BY DEF Claim!Inv, Claim!TypeOK, Claim!ClaimsKnown, Claim!Known, Claim!Claims, Claim!renew,
       Claim!claimVars, Claim!hostVars, Claim!sessionVars, Claim!Goes, Claim!Fault, Claim!Fenced,
       Claim!Starting, Claim!Current, Claim!Idle, Claim!Out
  <1>3. ASSUME NEW i \in ClaimHosts PROVE Claim!Maintained(i)'
    BY DEF Claim!Inv, Claim!TypeOK, Claim!Maintained, Claim!ClaimedBy, Claim!renew, Claim!claimVars,
       Claim!hostVars, Claim!sessionVars, Claim!Goes, Claim!Fault, Claim!Fenced, Claim!Starting,
       Claim!Current, Claim!Idle, Claim!Out
  <1>4. ASSUME NEW i \in ClaimHosts PROVE Claim!Published(i)'
    BY DEF Claim!Inv, Claim!TypeOK, Claim!ClaimsKnown, Claim!Known, Claim!Claims, Claim!Maintained,
       Claim!Published, Claim!Renewing, Claim!Open, Claim!Usable, Claim!ClaimedBy, Claim!renew,
       Claim!claimVars, Claim!hostVars, Claim!sessionVars, Claim!Goes, Claim!Fault, Claim!Fenced,
       Claim!Starting, Claim!Current, Claim!Idle, Claim!Out
  <1>5. ASSUME NEW i \in ClaimHosts PROVE Claim!Removed(i)'
    BY DEF Claim!Inv, Claim!TypeOK, Claim!ClaimsKnown, Claim!Claims, Claim!Maintained, Claim!Published,
       Claim!Removed, Claim!Renewing, Claim!Open, Claim!Usable, Claim!ClaimedBy, Claim!renew,
       Claim!claimVars, Claim!hostVars, Claim!sessionVars, Claim!Goes, Claim!Fault, Claim!Fenced,
       Claim!Starting, Claim!Current, Claim!Idle, Claim!Out
  <1>6. ASSUME NEW i \in ClaimClients PROVE Claim!ClaimedBy(i)' /\ Claim!LateIsOut(i)'
    BY DEF Claim!Inv, Claim!TypeOK, Claim!ClaimedBy, Claim!LateIsOut, Claim!renew, Claim!claimVars,
       Claim!hostVars, Claim!sessionVars, Claim!Goes, Claim!Fault, Claim!Fenced, Claim!Starting,
       Claim!Current, Claim!Idle, Claim!Out
  <1> QED BY <1>1, <1>2, <1>3, <1>4, <1>5, <1>6 DEF Claim!Inv

(* EnsureReads.                                                             *)
LEMMA ClaimEnsureReadsKeeps ==
    ASSUME Claim!Inv, NEW h \in ClaimHosts, Claim!EnsureReads(h)
    PROVE  Claim!Inv'
  <1>1. Claim!TypeOK'
    BY ClaimAssumption DEF Claim!Inv, Claim!TypeOK, Claim!Claims, Claim!Sessions, Claim!EnsureReads,
       Claim!claimVars, Claim!hostVars, Claim!sessionVars, Claim!Goes, Claim!Fault, Claim!Fenced,
       Claim!Starting, Claim!Current, Claim!Idle, Claim!Out
  <1>2. Claim!ClaimsKnown'
    BY DEF Claim!Inv, Claim!TypeOK, Claim!ClaimsKnown, Claim!Known, Claim!Claims, Claim!EnsureReads,
       Claim!claimVars, Claim!hostVars, Claim!sessionVars, Claim!Goes, Claim!Fault, Claim!Fenced,
       Claim!Starting, Claim!Current, Claim!Idle, Claim!Out
  <1>3. ASSUME NEW i \in ClaimHosts PROVE Claim!Maintained(i)'
    BY DEF Claim!Inv, Claim!TypeOK, Claim!Maintained, Claim!ClaimedBy, Claim!EnsureReads, Claim!claimVars,
       Claim!hostVars, Claim!sessionVars, Claim!Goes, Claim!Fault, Claim!Fenced, Claim!Starting,
       Claim!Current, Claim!Idle, Claim!Out
  <1>4. ASSUME NEW i \in ClaimHosts PROVE Claim!Published(i)'
    BY DEF Claim!Inv, Claim!TypeOK, Claim!ClaimsKnown, Claim!Known, Claim!Claims, Claim!Maintained,
       Claim!Published, Claim!Renewing, Claim!Open, Claim!Usable, Claim!ClaimedBy, Claim!EnsureReads,
       Claim!claimVars, Claim!hostVars, Claim!sessionVars, Claim!Goes, Claim!Fault, Claim!Fenced,
       Claim!Starting, Claim!Current, Claim!Idle, Claim!Out
  <1>5. ASSUME NEW i \in ClaimHosts PROVE Claim!Removed(i)'
    BY DEF Claim!Inv, Claim!TypeOK, Claim!Removed, Claim!EnsureReads, Claim!claimVars, Claim!Goes,
       Claim!Fenced
  <1>6. ASSUME NEW i \in ClaimClients PROVE Claim!ClaimedBy(i)' /\ Claim!LateIsOut(i)'
    BY DEF Claim!Inv, Claim!TypeOK, Claim!ClaimedBy, Claim!LateIsOut, Claim!EnsureReads, Claim!claimVars,
       Claim!hostVars, Claim!sessionVars, Claim!Goes, Claim!Fault, Claim!Fenced, Claim!Starting,
       Claim!Current, Claim!Idle, Claim!Out
  <1> QED BY <1>1, <1>2, <1>3, <1>4, <1>5, <1>6 DEF Claim!Inv

(* PassFails: a pass that fails is retried while nobody has claimed.        *)
LEMMA ClaimPassFailsKeeps ==
    ASSUME Claim!Inv, NEW h \in ClaimHosts, Claim!PassFails(h)
    PROVE  Claim!Inv'
  <1>1. Claim!TypeOK'
    <2>1. v6' \in [ClaimHosts -> {"off", "starting", "ensuring", "creating", "created", "publishing",
                                  "removing", "on"}]
      BY DEF Claim!Inv, Claim!TypeOK, Claim!PassFails, Claim!Goes
    <2>2. v10' \in [ClaimHosts -> {"none", "expiry", "retry"}]
      BY DEF Claim!Inv, Claim!TypeOK, Claim!PassFails
    <2>3. v15' \in 0..ClaimFaults
      BY ClaimAssumption DEF Claim!Inv, Claim!TypeOK, Claim!PassFails, Claim!Fault
    <2> QED BY <2>1, <2>2, <2>3 DEF Claim!Inv, Claim!TypeOK, Claim!PassFails, Claim!claimVars,
               Claim!sessionVars
  <1>2. Claim!ClaimsKnown'
    BY DEF Claim!Inv, Claim!TypeOK, Claim!ClaimsKnown, Claim!Known, Claim!Claims, Claim!PassFails,
       Claim!claimVars, Claim!hostVars, Claim!sessionVars, Claim!Goes, Claim!Fault, Claim!Fenced,
       Claim!Starting, Claim!Current, Claim!Idle, Claim!Out
  <1>3. ASSUME NEW i \in ClaimHosts PROVE Claim!Maintained(i)'
    BY DEF Claim!Inv, Claim!TypeOK, Claim!Maintained, Claim!ClaimedBy, Claim!PassFails, Claim!claimVars,
       Claim!hostVars, Claim!sessionVars, Claim!Goes, Claim!Fault, Claim!Fenced, Claim!Starting,
       Claim!Current, Claim!Idle, Claim!Out
  <1>4. ASSUME NEW i \in ClaimHosts PROVE Claim!Published(i)'
    BY DEF Claim!Inv, Claim!TypeOK, Claim!ClaimsKnown, Claim!Known, Claim!Claims, Claim!Maintained,
       Claim!Published, Claim!Renewing, Claim!Open, Claim!Usable, Claim!ClaimedBy, Claim!PassFails,
       Claim!claimVars, Claim!hostVars, Claim!sessionVars, Claim!Goes, Claim!Fault, Claim!Fenced,
       Claim!Starting, Claim!Current, Claim!Idle, Claim!Out
  <1>5. ASSUME NEW i \in ClaimHosts PROVE Claim!Removed(i)'
    BY DEF Claim!Inv, Claim!TypeOK, Claim!ClaimsKnown, Claim!Claims, Claim!Maintained, Claim!Published,
       Claim!Removed, Claim!Renewing, Claim!Open, Claim!Usable, Claim!ClaimedBy, Claim!PassFails,
       Claim!claimVars, Claim!hostVars, Claim!sessionVars, Claim!Goes, Claim!Fault, Claim!Fenced,
       Claim!Starting, Claim!Current, Claim!Idle, Claim!Out
  <1>6. ASSUME NEW i \in ClaimClients PROVE Claim!ClaimedBy(i)' /\ Claim!LateIsOut(i)'
    BY DEF Claim!Inv, Claim!TypeOK, Claim!ClaimedBy, Claim!LateIsOut, Claim!PassFails, Claim!claimVars,
       Claim!hostVars, Claim!sessionVars, Claim!Goes, Claim!Fault, Claim!Fenced, Claim!Starting,
       Claim!Current, Claim!Idle, Claim!Out
  <1> QED BY <1>1, <1>2, <1>3, <1>4, <1>5, <1>6 DEF Claim!Inv

(* Created: a renewal that is stopped publishes nothing.                    *)
LEMMA ClaimCreatedKeeps ==
    ASSUME Claim!Inv, NEW h \in ClaimHosts, Claim!Created(h)
    PROVE  Claim!Inv'
  <1>1. Claim!TypeOK'
    BY ClaimAssumption DEF Claim!Inv, Claim!TypeOK, Claim!Claims, Claim!Sessions, Claim!Created,
       Claim!claimVars, Claim!hostVars, Claim!sessionVars, Claim!Goes, Claim!Fault, Claim!Fenced,
       Claim!Starting, Claim!Current, Claim!Idle, Claim!Out
  <1>2. Claim!ClaimsKnown'
    BY DEF Claim!Inv, Claim!TypeOK, Claim!ClaimsKnown, Claim!Known, Claim!Claims, Claim!Created,
       Claim!claimVars, Claim!hostVars, Claim!sessionVars, Claim!Goes, Claim!Fault, Claim!Fenced,
       Claim!Starting, Claim!Current, Claim!Idle, Claim!Out
  <1>3. ASSUME NEW i \in ClaimHosts PROVE Claim!Maintained(i)'
    BY DEF Claim!Inv, Claim!TypeOK, Claim!Maintained, Claim!ClaimedBy, Claim!Created, Claim!claimVars,
       Claim!hostVars, Claim!sessionVars, Claim!Goes, Claim!Fault, Claim!Fenced, Claim!Starting,
       Claim!Current, Claim!Idle, Claim!Out
  <1>4. ASSUME NEW i \in ClaimHosts PROVE Claim!Published(i)'
    BY DEF Claim!Inv, Claim!TypeOK, Claim!ClaimsKnown, Claim!Known, Claim!Claims, Claim!Maintained,
       Claim!Published, Claim!Renewing, Claim!Open, Claim!Usable, Claim!ClaimedBy, Claim!Created,
       Claim!claimVars, Claim!hostVars, Claim!sessionVars, Claim!Goes, Claim!Fault, Claim!Fenced,
       Claim!Starting, Claim!Current, Claim!Idle, Claim!Out
  <1>5. ASSUME NEW i \in ClaimHosts PROVE Claim!Removed(i)'
    BY DEF Claim!Inv, Claim!TypeOK, Claim!ClaimsKnown, Claim!Claims, Claim!Maintained, Claim!Published,
       Claim!Removed, Claim!Renewing, Claim!Open, Claim!Usable, Claim!ClaimedBy, Claim!Created,
       Claim!claimVars, Claim!hostVars, Claim!sessionVars, Claim!Goes, Claim!Fault, Claim!Fenced,
       Claim!Starting, Claim!Current, Claim!Idle, Claim!Out
  <1>6. ASSUME NEW i \in ClaimClients PROVE Claim!ClaimedBy(i)' /\ Claim!LateIsOut(i)'
    BY DEF Claim!Inv, Claim!TypeOK, Claim!ClaimedBy, Claim!LateIsOut, Claim!Created, Claim!claimVars,
       Claim!hostVars, Claim!sessionVars, Claim!Goes, Claim!Fault, Claim!Fenced, Claim!Starting,
       Claim!Current, Claim!Idle, Claim!Out
  <1> QED BY <1>1, <1>2, <1>3, <1>4, <1>5, <1>6 DEF Claim!Inv

(* createOrReplaceClaim: the new claim is the only one, and nobody knows it. *)
LEMMA ClaimCreateOrReplaceClaimKeeps ==
    ASSUME Claim!Inv, NEW h \in ClaimHosts, NEW c \in Claim!Claims, Claim!createOrReplaceClaim(h, c)
    PROVE  Claim!Inv'
  <1>1. Claim!TypeOK'
    BY ClaimAssumption DEF Claim!Inv, Claim!TypeOK, Claim!Claims, Claim!Sessions,
       Claim!createOrReplaceClaim, Claim!claimVars, Claim!hostVars, Claim!sessionVars, Claim!Goes,
       Claim!Fault, Claim!Fenced, Claim!Starting, Claim!Current, Claim!Idle, Claim!Out
  <1>2. Claim!ClaimsKnown'
    BY DEF Claim!Inv, Claim!TypeOK, Claim!ClaimsKnown, Claim!Known, Claim!Claims,
       Claim!createOrReplaceClaim, Claim!claimVars, Claim!hostVars, Claim!sessionVars, Claim!Goes,
       Claim!Fault, Claim!Fenced, Claim!Starting, Claim!Current, Claim!Idle, Claim!Out
  <1>3. ASSUME NEW i \in ClaimHosts PROVE Claim!Maintained(i)'
    BY DEF Claim!Inv, Claim!TypeOK, Claim!Maintained, Claim!ClaimedBy, Claim!createOrReplaceClaim,
       Claim!claimVars, Claim!hostVars, Claim!sessionVars, Claim!Goes, Claim!Fault, Claim!Fenced,
       Claim!Starting, Claim!Current, Claim!Idle, Claim!Out
  <1>7. Claim!Current' = {c} /\ v7'[h] = c
    BY DEF Claim!Inv, Claim!TypeOK, Claim!createOrReplaceClaim, Claim!Current, Claim!Claims
  <1>8. v5 # c /\ \A k \in ClaimClients : v11[k].claim # c
    BY ClaimAssumption DEF Claim!Inv, Claim!ClaimsKnown, Claim!Known, Claim!createOrReplaceClaim,
       Claim!Claims
  <1>4. ASSUME NEW i \in ClaimHosts PROVE Claim!Published(i)'
    <2>1. CASE i = h
      BY <1>7, <1>8, <2>1 DEF Claim!Inv, Claim!TypeOK, Claim!Maintained, Claim!Published, Claim!Open,
         Claim!Usable, Claim!createOrReplaceClaim, Claim!Goes, Claim!Fenced
    <2>2. CASE i # h
      BY <2>2 DEF Claim!Inv, Claim!TypeOK, Claim!Published, Claim!createOrReplaceClaim, Claim!Fenced
    <2> QED BY <2>1, <2>2
  <1>5. ASSUME NEW i \in ClaimHosts PROVE Claim!Removed(i)'
    BY DEF Claim!Inv, Claim!TypeOK, Claim!ClaimsKnown, Claim!Claims, Claim!Maintained, Claim!Published,
       Claim!Removed, Claim!Renewing, Claim!Open, Claim!Usable, Claim!ClaimedBy,
       Claim!createOrReplaceClaim, Claim!claimVars, Claim!hostVars, Claim!sessionVars, Claim!Goes,
       Claim!Fault, Claim!Fenced, Claim!Starting, Claim!Current, Claim!Idle, Claim!Out
  <1>6. ASSUME NEW i \in ClaimClients PROVE Claim!ClaimedBy(i)' /\ Claim!LateIsOut(i)'
    BY DEF Claim!Inv, Claim!TypeOK, Claim!ClaimedBy, Claim!LateIsOut, Claim!createOrReplaceClaim,
       Claim!claimVars, Claim!hostVars, Claim!sessionVars, Claim!Goes, Claim!Fault, Claim!Fenced,
       Claim!Starting, Claim!Current, Claim!Idle, Claim!Out
  <1> QED BY <1>1, <1>2, <1>3, <1>4, <1>5, <1>6 DEF Claim!Inv

(* publishClaim: the Host with the fence publishes the current claim.       *)
LEMMA ClaimPublishClaimKeeps ==
    ASSUME Claim!Inv, NEW h \in ClaimHosts, Claim!publishClaim(h)
    PROVE  Claim!Inv'
  <1>1. Claim!TypeOK'
    BY ClaimAssumption DEF Claim!Inv, Claim!TypeOK, Claim!Claims, Claim!Sessions, Claim!publishClaim,
       Claim!claimVars, Claim!hostVars, Claim!sessionVars, Claim!Goes, Claim!Fault, Claim!Fenced,
       Claim!Starting, Claim!Current, Claim!Idle, Claim!Out
  <1>2. Claim!ClaimsKnown'
    BY DEF Claim!Inv, Claim!TypeOK, Claim!ClaimsKnown, Claim!Known, Claim!Claims, Claim!publishClaim,
       Claim!claimVars, Claim!hostVars, Claim!sessionVars, Claim!Goes, Claim!Fault, Claim!Fenced,
       Claim!Starting, Claim!Current, Claim!Idle, Claim!Out
  <1>3. ASSUME NEW i \in ClaimHosts PROVE Claim!Maintained(i)'
    BY DEF Claim!Inv, Claim!TypeOK, Claim!Maintained, Claim!ClaimedBy, Claim!publishClaim,
       Claim!claimVars, Claim!hostVars, Claim!sessionVars, Claim!Goes, Claim!Fault, Claim!Fenced,
       Claim!Starting, Claim!Current, Claim!Idle, Claim!Out
  <1>4. ASSUME NEW i \in ClaimHosts PROVE Claim!Published(i)'
    BY DEF Claim!Inv, Claim!TypeOK, Claim!ClaimsKnown, Claim!Known, Claim!Claims, Claim!Maintained,
       Claim!Published, Claim!Renewing, Claim!Open, Claim!Usable, Claim!ClaimedBy, Claim!publishClaim,
       Claim!claimVars, Claim!hostVars, Claim!sessionVars, Claim!Goes, Claim!Fault, Claim!Fenced,
       Claim!Starting, Claim!Current, Claim!Idle, Claim!Out
  <1>5. ASSUME NEW i \in ClaimHosts PROVE Claim!Removed(i)'
    BY DEF Claim!Inv, Claim!TypeOK, Claim!ClaimsKnown, Claim!Claims, Claim!Maintained, Claim!Published,
       Claim!Removed, Claim!Renewing, Claim!Open, Claim!Usable, Claim!ClaimedBy, Claim!publishClaim,
       Claim!claimVars, Claim!hostVars, Claim!sessionVars, Claim!Goes, Claim!Fault, Claim!Fenced,
       Claim!Starting, Claim!Current, Claim!Idle, Claim!Out
  <1>6. ASSUME NEW i \in ClaimClients PROVE Claim!ClaimedBy(i)' /\ Claim!LateIsOut(i)'
    BY DEF Claim!Inv, Claim!TypeOK, Claim!ClaimedBy, Claim!LateIsOut, Claim!publishClaim, Claim!claimVars,
       Claim!hostVars, Claim!sessionVars, Claim!Goes, Claim!Fault, Claim!Fenced, Claim!Starting,
       Claim!Current, Claim!Idle, Claim!Out
  <1> QED BY <1>1, <1>2, <1>3, <1>4, <1>5, <1>6 DEF Claim!Inv

(* removeClaim.                                                             *)
LEMMA ClaimRemoveClaimKeeps ==
    ASSUME Claim!Inv, NEW h \in ClaimHosts, Claim!removeClaim(h)
    PROVE  Claim!Inv'
  <1>1. Claim!TypeOK'
    BY ClaimAssumption DEF Claim!Inv, Claim!TypeOK, Claim!Claims, Claim!Sessions, Claim!removeClaim,
       Claim!claimVars, Claim!hostVars, Claim!sessionVars, Claim!Goes, Claim!Fault, Claim!Fenced,
       Claim!Starting, Claim!Current, Claim!Idle, Claim!Out
  <1>2. Claim!ClaimsKnown'
    BY DEF Claim!Inv, Claim!TypeOK, Claim!ClaimsKnown, Claim!Known, Claim!Claims, Claim!removeClaim,
       Claim!claimVars, Claim!hostVars, Claim!sessionVars, Claim!Goes, Claim!Fault, Claim!Fenced,
       Claim!Starting, Claim!Current, Claim!Idle, Claim!Out
  <1>3. ASSUME NEW i \in ClaimHosts PROVE Claim!Maintained(i)'
    BY DEF Claim!Inv, Claim!TypeOK, Claim!Maintained, Claim!ClaimedBy, Claim!removeClaim, Claim!claimVars,
       Claim!hostVars, Claim!sessionVars, Claim!Goes, Claim!Fault, Claim!Fenced, Claim!Starting,
       Claim!Current, Claim!Idle, Claim!Out
  <1>4. ASSUME NEW i \in ClaimHosts PROVE Claim!Published(i)'
    BY DEF Claim!Inv, Claim!TypeOK, Claim!ClaimsKnown, Claim!Known, Claim!Claims, Claim!Maintained,
       Claim!Published, Claim!Renewing, Claim!Open, Claim!Usable, Claim!ClaimedBy, Claim!removeClaim,
       Claim!claimVars, Claim!hostVars, Claim!sessionVars, Claim!Goes, Claim!Fault, Claim!Fenced,
       Claim!Starting, Claim!Current, Claim!Idle, Claim!Out
  <1>5. ASSUME NEW i \in ClaimHosts PROVE Claim!Removed(i)'
    BY DEF Claim!Inv, Claim!TypeOK, Claim!ClaimsKnown, Claim!Claims, Claim!Maintained, Claim!Published,
       Claim!Removed, Claim!Renewing, Claim!Open, Claim!Usable, Claim!ClaimedBy, Claim!removeClaim,
       Claim!claimVars, Claim!hostVars, Claim!sessionVars, Claim!Goes, Claim!Fault, Claim!Fenced,
       Claim!Starting, Claim!Current, Claim!Idle, Claim!Out
  <1>6. ASSUME NEW i \in ClaimClients PROVE Claim!ClaimedBy(i)' /\ Claim!LateIsOut(i)'
    BY DEF Claim!Inv, Claim!TypeOK, Claim!ClaimedBy, Claim!LateIsOut, Claim!removeClaim, Claim!claimVars,
       Claim!hostVars, Claim!sessionVars, Claim!Goes, Claim!Fault, Claim!Fenced, Claim!Starting,
       Claim!Current, Claim!Idle, Claim!Out
  <1> QED BY <1>1, <1>2, <1>3, <1>4, <1>5, <1>6 DEF Claim!Inv

(* close.                                                                   *)
LEMMA ClaimCloseKeeps ==
    ASSUME Claim!Inv, NEW h \in ClaimHosts, Claim!close(h)
    PROVE  Claim!Inv'
  <1>1. Claim!TypeOK'
    BY ClaimAssumption DEF Claim!Inv, Claim!TypeOK, Claim!Claims, Claim!Sessions, Claim!close,
       Claim!claimVars, Claim!hostVars, Claim!sessionVars, Claim!Goes, Claim!Fault, Claim!Fenced,
       Claim!Starting, Claim!Current, Claim!Idle, Claim!Out
  <1>2. Claim!ClaimsKnown'
    BY DEF Claim!Inv, Claim!TypeOK, Claim!ClaimsKnown, Claim!Known, Claim!Claims, Claim!close,
       Claim!claimVars, Claim!hostVars, Claim!sessionVars, Claim!Goes, Claim!Fault, Claim!Fenced,
       Claim!Starting, Claim!Current, Claim!Idle, Claim!Out
  <1>3. ASSUME NEW i \in ClaimHosts PROVE Claim!Maintained(i)'
    BY DEF Claim!Inv, Claim!TypeOK, Claim!Maintained, Claim!ClaimedBy, Claim!close, Claim!claimVars,
       Claim!hostVars, Claim!sessionVars, Claim!Goes, Claim!Fault, Claim!Fenced, Claim!Starting,
       Claim!Current, Claim!Idle, Claim!Out
  <1>4. ASSUME NEW i \in ClaimHosts PROVE Claim!Published(i)'
    BY DEF Claim!Inv, Claim!TypeOK, Claim!ClaimsKnown, Claim!Known, Claim!Claims, Claim!Maintained,
       Claim!Published, Claim!Renewing, Claim!Open, Claim!Usable, Claim!ClaimedBy, Claim!close,
       Claim!claimVars, Claim!hostVars, Claim!sessionVars, Claim!Goes, Claim!Fault, Claim!Fenced,
       Claim!Starting, Claim!Current, Claim!Idle, Claim!Out
  <1>5. ASSUME NEW i \in ClaimHosts PROVE Claim!Removed(i)'
    BY DEF Claim!Inv, Claim!TypeOK, Claim!ClaimsKnown, Claim!Claims, Claim!Maintained, Claim!Published,
       Claim!Removed, Claim!Renewing, Claim!Open, Claim!Usable, Claim!ClaimedBy, Claim!close,
       Claim!claimVars, Claim!hostVars, Claim!sessionVars, Claim!Goes, Claim!Fault, Claim!Fenced,
       Claim!Starting, Claim!Current, Claim!Idle, Claim!Out
  <1>6. ASSUME NEW i \in ClaimClients PROVE Claim!ClaimedBy(i)' /\ Claim!LateIsOut(i)'
    BY DEF Claim!Inv, Claim!TypeOK, Claim!ClaimedBy, Claim!LateIsOut, Claim!close, Claim!claimVars,
       Claim!hostVars, Claim!sessionVars, Claim!Goes, Claim!Fault, Claim!Fenced, Claim!Starting,
       Claim!Current, Claim!Idle, Claim!Out
  <1> QED BY <1>1, <1>2, <1>3, <1>4, <1>5, <1>6 DEF Claim!Inv

(* Takeover: the new owner has not started.                                 *)
LEMMA ClaimTakeoverKeeps ==
    ASSUME Claim!Inv, NEW h \in ClaimHosts, Claim!Takeover(h)
    PROVE  Claim!Inv'
  <1>1. Claim!TypeOK'
    BY ClaimAssumption DEF Claim!Inv, Claim!TypeOK, Claim!Claims, Claim!Sessions, Claim!Takeover,
       Claim!claimVars, Claim!hostVars, Claim!sessionVars, Claim!Goes, Claim!Fault, Claim!Fenced,
       Claim!Starting, Claim!Current, Claim!Idle, Claim!Out
  <1>2. Claim!ClaimsKnown'
    BY DEF Claim!Inv, Claim!TypeOK, Claim!ClaimsKnown, Claim!Known, Claim!Claims, Claim!Takeover,
       Claim!claimVars, Claim!hostVars, Claim!sessionVars, Claim!Goes, Claim!Fault, Claim!Fenced,
       Claim!Starting, Claim!Current, Claim!Idle, Claim!Out
  <1>3. ASSUME NEW i \in ClaimHosts PROVE Claim!Maintained(i)'
    BY DEF Claim!Inv, Claim!TypeOK, Claim!Maintained, Claim!ClaimedBy, Claim!Takeover, Claim!claimVars,
       Claim!hostVars, Claim!sessionVars, Claim!Goes, Claim!Fault, Claim!Fenced, Claim!Starting,
       Claim!Current, Claim!Idle, Claim!Out
  <1>4. ASSUME NEW i \in ClaimHosts PROVE Claim!Published(i)'
    BY DEF Claim!Inv, Claim!TypeOK, Claim!ClaimsKnown, Claim!Known, Claim!Claims, Claim!Maintained,
       Claim!Published, Claim!Renewing, Claim!Open, Claim!Usable, Claim!ClaimedBy, Claim!Takeover,
       Claim!claimVars, Claim!hostVars, Claim!sessionVars, Claim!Goes, Claim!Fault, Claim!Fenced,
       Claim!Starting, Claim!Current, Claim!Idle, Claim!Out
  <1>5. ASSUME NEW i \in ClaimHosts PROVE Claim!Removed(i)'
    BY DEF Claim!Inv, Claim!TypeOK, Claim!ClaimsKnown, Claim!Claims, Claim!Maintained, Claim!Published,
       Claim!Removed, Claim!Renewing, Claim!Open, Claim!Usable, Claim!ClaimedBy, Claim!Takeover,
       Claim!claimVars, Claim!hostVars, Claim!sessionVars, Claim!Goes, Claim!Fault, Claim!Fenced,
       Claim!Starting, Claim!Current, Claim!Idle, Claim!Out
  <1>6. ASSUME NEW i \in ClaimClients PROVE Claim!ClaimedBy(i)' /\ Claim!LateIsOut(i)'
    BY DEF Claim!Inv, Claim!TypeOK, Claim!ClaimedBy, Claim!LateIsOut, Claim!Takeover, Claim!claimVars,
       Claim!hostVars, Claim!sessionVars, Claim!Goes, Claim!Fault, Claim!Fenced, Claim!Starting,
       Claim!Current, Claim!Idle, Claim!Out
  <1> QED BY <1>1, <1>2, <1>3, <1>4, <1>5, <1>6 DEF Claim!Inv

(* Expire.                                                                  *)
LEMMA ClaimExpireKeeps ==
    ASSUME Claim!Inv, NEW c \in Claim!Claims, Claim!Expire(c)
    PROVE  Claim!Inv'
  <1>1. Claim!TypeOK'
    BY ClaimAssumption DEF Claim!Inv, Claim!TypeOK, Claim!Claims, Claim!Sessions, Claim!Expire,
       Claim!claimVars, Claim!hostVars, Claim!sessionVars, Claim!Goes, Claim!Fault, Claim!Fenced,
       Claim!Starting, Claim!Current, Claim!Idle, Claim!Out
  <1>2. Claim!ClaimsKnown'
    BY DEF Claim!Inv, Claim!TypeOK, Claim!ClaimsKnown, Claim!Known, Claim!Claims, Claim!Expire,
       Claim!claimVars, Claim!hostVars, Claim!sessionVars, Claim!Goes, Claim!Fault, Claim!Fenced,
       Claim!Starting, Claim!Current, Claim!Idle, Claim!Out
  <1>3. ASSUME NEW i \in ClaimHosts PROVE Claim!Maintained(i)'
    BY DEF Claim!Inv, Claim!TypeOK, Claim!Maintained, Claim!ClaimedBy, Claim!Expire, Claim!claimVars,
       Claim!hostVars, Claim!sessionVars, Claim!Goes, Claim!Fault, Claim!Fenced, Claim!Starting,
       Claim!Current, Claim!Idle, Claim!Out
  <1>4. ASSUME NEW i \in ClaimHosts PROVE Claim!Published(i)'
    BY DEF Claim!Inv, Claim!TypeOK, Claim!ClaimsKnown, Claim!Known, Claim!Claims, Claim!Maintained,
       Claim!Published, Claim!Renewing, Claim!Open, Claim!Usable, Claim!ClaimedBy, Claim!Expire,
       Claim!claimVars, Claim!hostVars, Claim!sessionVars, Claim!Goes, Claim!Fault, Claim!Fenced,
       Claim!Starting, Claim!Current, Claim!Idle, Claim!Out
  <1>5. ASSUME NEW i \in ClaimHosts PROVE Claim!Removed(i)'
    BY DEF Claim!Inv, Claim!TypeOK, Claim!ClaimsKnown, Claim!Claims, Claim!Maintained, Claim!Published,
       Claim!Removed, Claim!Renewing, Claim!Open, Claim!Usable, Claim!ClaimedBy, Claim!Expire,
       Claim!claimVars, Claim!hostVars, Claim!sessionVars, Claim!Goes, Claim!Fault, Claim!Fenced,
       Claim!Starting, Claim!Current, Claim!Idle, Claim!Out
  <1>6. ASSUME NEW i \in ClaimClients PROVE Claim!ClaimedBy(i)' /\ Claim!LateIsOut(i)'
    BY DEF Claim!Inv, Claim!TypeOK, Claim!ClaimedBy, Claim!LateIsOut, Claim!Expire, Claim!claimVars,
       Claim!hostVars, Claim!sessionVars, Claim!Goes, Claim!Fault, Claim!Fenced, Claim!Starting,
       Claim!Current, Claim!Idle, Claim!Out
  <1> QED BY <1>1, <1>2, <1>3, <1>4, <1>5, <1>6 DEF Claim!Inv

(* claimFirstAdministrator: the claim is that of the file.                  *)
LEMMA ClaimClaimFirstAdministratorKeeps ==
    ASSUME Claim!Inv, NEW k \in ClaimClients, NEW h \in ClaimHosts, Claim!claimFirstAdministrator(k, h)
    PROVE  Claim!Inv'
  <1>1. Claim!TypeOK'
    BY ClaimAssumption DEF Claim!Inv, Claim!TypeOK, Claim!Claims, Claim!Sessions,
       Claim!claimFirstAdministrator, Claim!claimVars, Claim!hostVars, Claim!sessionVars, Claim!Goes,
       Claim!Fault, Claim!Fenced, Claim!Starting, Claim!Current, Claim!Idle, Claim!Out
  <1>2. Claim!ClaimsKnown'
    BY DEF Claim!Inv, Claim!TypeOK, Claim!ClaimsKnown, Claim!Known, Claim!Claims,
       Claim!claimFirstAdministrator, Claim!claimVars, Claim!hostVars, Claim!sessionVars, Claim!Goes,
       Claim!Fault, Claim!Fenced, Claim!Starting, Claim!Current, Claim!Idle, Claim!Out
  <1>3. ASSUME NEW i \in ClaimHosts PROVE Claim!Maintained(i)'
    BY DEF Claim!Inv, Claim!TypeOK, Claim!Maintained, Claim!ClaimedBy, Claim!claimFirstAdministrator,
       Claim!claimVars, Claim!hostVars, Claim!sessionVars, Claim!Goes, Claim!Fault, Claim!Fenced,
       Claim!Starting, Claim!Current, Claim!Idle, Claim!Out
  <1>4. ASSUME NEW i \in ClaimHosts PROVE Claim!Published(i)'
    BY DEF Claim!Inv, Claim!TypeOK, Claim!ClaimsKnown, Claim!Known, Claim!Claims, Claim!Maintained,
       Claim!Published, Claim!Renewing, Claim!Open, Claim!Usable, Claim!ClaimedBy,
       Claim!claimFirstAdministrator, Claim!claimVars, Claim!hostVars, Claim!sessionVars, Claim!Goes,
       Claim!Fault, Claim!Fenced, Claim!Starting, Claim!Current, Claim!Idle, Claim!Out
  <1>5. ASSUME NEW i \in ClaimHosts PROVE Claim!Removed(i)'
    BY DEF Claim!Inv, Claim!TypeOK, Claim!ClaimsKnown, Claim!Claims, Claim!Maintained, Claim!Published,
       Claim!Removed, Claim!Renewing, Claim!Open, Claim!Usable, Claim!ClaimedBy,
       Claim!claimFirstAdministrator, Claim!claimVars, Claim!hostVars, Claim!sessionVars, Claim!Goes,
       Claim!Fault, Claim!Fenced, Claim!Starting, Claim!Current, Claim!Idle, Claim!Out
  <1>6. ASSUME NEW i \in ClaimClients PROVE Claim!ClaimedBy(i)' /\ Claim!LateIsOut(i)'
    BY DEF Claim!Inv, Claim!TypeOK, Claim!ClaimedBy, Claim!LateIsOut, Claim!claimFirstAdministrator,
       Claim!claimVars, Claim!hostVars, Claim!sessionVars, Claim!Goes, Claim!Fault, Claim!Fenced,
       Claim!Starting, Claim!Current, Claim!Idle, Claim!Out
  <1> QED BY <1>1, <1>2, <1>3, <1>4, <1>5, <1>6 DEF Claim!Inv

(* consumeClaimCreateAdministrator: nobody claims while the owner renews.   *)
LEMMA ClaimConsumeClaimCreateAdministratorKeeps ==
    ASSUME Claim!Inv, NEW k \in ClaimClients, Claim!consumeClaimCreateAdministrator(k)
    PROVE  Claim!Inv'
  <1> DEFINE r == v11[k]
  <1>1. r.host \in ClaimHosts /\ r.claim \in 0..MaxClaims
    BY DEF Claim!Inv, Claim!TypeOK
  <1>2. CASE ~(Claim!Fenced(r.host) /\ r.claim \in Claim!Current /\ r.inTime /\ v4 = 0)
    <2>1. /\ v11' = [v11 EXCEPT ![k] = Claim!Idle]
          /\ UNCHANGED <<Claim!claimVars, v5, Claim!hostVars, Claim!sessionVars, v14, v15>>
      BY <1>2 DEF Claim!consumeClaimCreateAdministrator, Claim!claimVars
    <2>2. Claim!Idle \in ClaimRequest
      BY <1>1, ClaimAssumption DEF Claim!Idle, ClaimRequest
    <2>3. Claim!TypeOK'
      BY <2>1, <2>2 DEF Claim!Inv, Claim!TypeOK, ClaimRequest, Claim!claimVars, Claim!hostVars, Claim!sessionVars
    <2>4. \A l \in ClaimClients : v11'[l] = v11[l] \/ (v11'[l].pc = "no" /\ v11'[l].claim = 0)
      BY <2>1 DEF Claim!Inv, Claim!TypeOK, Claim!Idle
    <2>5. \A l \in ClaimClients : v11[l].pc = "removing" => v11'[l].pc = "removing"
      BY <2>1 DEF Claim!Inv, Claim!TypeOK, Claim!consumeClaimCreateAdministrator
    <2>6. Claim!ClaimsKnown' /\ \A l \in ClaimClients : Claim!ClaimedBy(l)' /\ Claim!LateIsOut(l)'
      BY <2>1, <2>4 DEF Claim!Inv, Claim!ClaimsKnown, Claim!Known, Claim!Current, Claim!ClaimedBy,
         Claim!LateIsOut, Claim!claimVars, Claim!hostVars, Claim!sessionVars
    <2>7. ASSUME NEW i \in ClaimHosts PROVE Claim!Maintained(i)' /\ Claim!Published(i)' /\ Claim!Removed(i)'
      BY <2>1, <2>4, <2>5 DEF Claim!Inv, Claim!Maintained, Claim!Published, Claim!Renewing, Claim!Open,
         Claim!Usable, Claim!Current, Claim!Fenced, Claim!Removed, Claim!claimVars, Claim!hostVars
    <2> QED BY <2>3, <2>6, <2>7 DEF Claim!Inv
  <1>3. CASE Claim!Fenced(r.host) /\ r.claim \in Claim!Current /\ r.inTime /\ v4 = 0
    <2>1. /\ v4' = r.claim /\ v2' = [v2 EXCEPT ![r.claim] = "consumed"]
          /\ v11' = [v11 EXCEPT ![k].pc = "claimed"]
          /\ v14' \in SUBSET {"stale", "late"} /\ (v14' = {} => v14 = {} /\ r.claim \notin v3)
          /\ UNCHANGED <<v1, v3, v5, Claim!hostVars, Claim!sessionVars, v15>>
      BY <1>3 DEF Claim!Inv, Claim!TypeOK, Claim!consumeClaimCreateAdministrator
    <2>2. r.claim \in Claim!Claims /\ v4' # 0
      BY <1>3, <2>1, ClaimAssumption DEF Claim!Current, Claim!Claims
    <2>3. Claim!TypeOK'
      BY <1>1, <2>1, <2>2 DEF Claim!Inv, Claim!TypeOK, Claim!hostVars, Claim!sessionVars
    <2>4. v14' = {} => Claim!Open
      BY <1>3, <2>1 DEF Claim!Open, Claim!Usable, Claim!consumeClaimCreateAdministrator
    <2>5. Claim!ClaimsKnown'
      BY <2>1, <2>2 DEF Claim!Inv, Claim!TypeOK, Claim!ClaimsKnown, Claim!Known, Claim!Current,
         Claim!hostVars
    <2>6. ASSUME NEW i \in ClaimHosts PROVE Claim!Maintained(i)' /\ Claim!Published(i)' /\ Claim!Removed(i)'
      BY <1>3, <2>1, <2>2, <2>4 DEF Claim!Inv, Claim!TypeOK, Claim!Maintained, Claim!Published,
         Claim!Renewing, Claim!Fenced, Claim!Removed, Claim!hostVars
    <2>7. ASSUME NEW l \in ClaimClients PROVE Claim!ClaimedBy(l)' /\ Claim!LateIsOut(l)'
      BY <2>1, <2>2 DEF Claim!Inv, Claim!ClaimedBy, Claim!LateIsOut, Claim!sessionVars
    <2> QED BY <2>3, <2>5, <2>6, <2>7 DEF Claim!Inv
  <1> QED BY <1>2, <1>3

(* administratorClaimed: the removal of the file is ahead.                  *)
LEMMA ClaimAdministratorClaimedKeeps ==
    ASSUME Claim!Inv, NEW k \in ClaimClients, Claim!administratorClaimed(k)
    PROVE  Claim!Inv'
  <1>1. Claim!TypeOK'
    <2>1. v11' \in [ClaimClients -> ClaimRequest]
      BY DEF Claim!Inv, Claim!TypeOK, Claim!administratorClaimed, ClaimRequest
    <2>2. v9' \in [ClaimHosts -> BOOLEAN] /\ v10' \in [ClaimHosts -> {"none", "expiry", "retry"}]
      BY DEF Claim!Inv, Claim!TypeOK, Claim!administratorClaimed
    <2> QED BY <2>1, <2>2 DEF Claim!Inv, Claim!TypeOK, Claim!administratorClaimed, Claim!claimVars,
               Claim!sessionVars, ClaimRequest
  <1>2. Claim!ClaimsKnown'
    BY DEF Claim!Inv, Claim!TypeOK, Claim!ClaimsKnown, Claim!Known, Claim!Claims,
       Claim!administratorClaimed, Claim!claimVars, Claim!hostVars, Claim!sessionVars, Claim!Goes,
       Claim!Fault, Claim!Fenced, Claim!Starting, Claim!Current, Claim!Idle, Claim!Out
  <1>3. ASSUME NEW i \in ClaimHosts PROVE Claim!Maintained(i)'
    BY DEF Claim!Inv, Claim!TypeOK, Claim!Maintained, Claim!ClaimedBy, Claim!administratorClaimed,
       Claim!claimVars, Claim!hostVars, Claim!sessionVars, Claim!Goes, Claim!Fault, Claim!Fenced,
       Claim!Starting, Claim!Current, Claim!Idle, Claim!Out
  <1>4. ASSUME NEW i \in ClaimHosts PROVE Claim!Published(i)'
    BY DEF Claim!Inv, Claim!TypeOK, Claim!ClaimsKnown, Claim!Known, Claim!Claims, Claim!Maintained,
       Claim!Published, Claim!Renewing, Claim!Open, Claim!Usable, Claim!ClaimedBy,
       Claim!administratorClaimed, Claim!claimVars, Claim!hostVars, Claim!sessionVars, Claim!Goes,
       Claim!Fault, Claim!Fenced, Claim!Starting, Claim!Current, Claim!Idle, Claim!Out
  <1>5. ASSUME NEW i \in ClaimHosts PROVE Claim!Removed(i)'
    BY DEF Claim!Inv, Claim!TypeOK, Claim!ClaimsKnown, Claim!Claims, Claim!Maintained, Claim!Published,
       Claim!Removed, Claim!Renewing, Claim!Open, Claim!Usable, Claim!ClaimedBy,
       Claim!administratorClaimed, Claim!claimVars, Claim!hostVars, Claim!sessionVars, Claim!Goes,
       Claim!Fault, Claim!Fenced, Claim!Starting, Claim!Current, Claim!Idle, Claim!Out
  <1>6. ASSUME NEW i \in ClaimClients PROVE Claim!ClaimedBy(i)' /\ Claim!LateIsOut(i)'
    BY DEF Claim!Inv, Claim!TypeOK, Claim!ClaimedBy, Claim!LateIsOut, Claim!administratorClaimed,
       Claim!claimVars, Claim!hostVars, Claim!sessionVars, Claim!Goes, Claim!Fault, Claim!Fenced,
       Claim!Starting, Claim!Current, Claim!Idle, Claim!Out
  <1> QED BY <1>1, <1>2, <1>3, <1>4, <1>5, <1>6 DEF Claim!Inv

(* removeFirstClaimMaterial.                                                *)
LEMMA ClaimRemoveFirstClaimMaterialKeeps ==
    ASSUME Claim!Inv, NEW k \in ClaimClients, Claim!removeFirstClaimMaterial(k)
    PROVE  Claim!Inv'
  <1>1. Claim!TypeOK'
    BY ClaimAssumption, SMTT(30) DEF Claim!Inv, Claim!TypeOK, Claim!Claims, Claim!Sessions,
       Claim!removeFirstClaimMaterial, Claim!claimVars, Claim!hostVars, Claim!sessionVars, Claim!Goes,
       Claim!Fault, Claim!Fenced, Claim!Starting, Claim!Current, Claim!Idle, Claim!Out
  <1>2. Claim!ClaimsKnown'
    BY DEF Claim!Inv, Claim!TypeOK, Claim!ClaimsKnown, Claim!Known, Claim!Claims,
       Claim!removeFirstClaimMaterial, Claim!claimVars, Claim!hostVars, Claim!sessionVars, Claim!Goes,
       Claim!Fault, Claim!Fenced, Claim!Starting, Claim!Current, Claim!Idle, Claim!Out
  <1>3. ASSUME NEW i \in ClaimHosts PROVE Claim!Maintained(i)'
    BY DEF Claim!Inv, Claim!TypeOK, Claim!Maintained, Claim!ClaimedBy, Claim!removeFirstClaimMaterial,
       Claim!claimVars, Claim!hostVars, Claim!sessionVars, Claim!Goes, Claim!Fault, Claim!Fenced,
       Claim!Starting, Claim!Current, Claim!Idle, Claim!Out
  <1>4. ASSUME NEW i \in ClaimHosts PROVE Claim!Published(i)'
    BY DEF Claim!Inv, Claim!TypeOK, Claim!ClaimsKnown, Claim!Known, Claim!Claims, Claim!Maintained,
       Claim!Published, Claim!Renewing, Claim!Open, Claim!Usable, Claim!ClaimedBy,
       Claim!removeFirstClaimMaterial, Claim!claimVars, Claim!hostVars, Claim!sessionVars, Claim!Goes,
       Claim!Fault, Claim!Fenced, Claim!Starting, Claim!Current, Claim!Idle, Claim!Out
  <1>5. ASSUME NEW i \in ClaimHosts PROVE Claim!Removed(i)'
    BY DEF Claim!Inv, Claim!TypeOK, Claim!ClaimsKnown, Claim!Claims, Claim!Maintained, Claim!Published,
       Claim!Removed, Claim!Renewing, Claim!Open, Claim!Usable, Claim!ClaimedBy,
       Claim!removeFirstClaimMaterial, Claim!claimVars, Claim!hostVars, Claim!sessionVars, Claim!Goes,
       Claim!Fault, Claim!Fenced, Claim!Starting, Claim!Current, Claim!Idle, Claim!Out
  <1>6. ASSUME NEW i \in ClaimClients PROVE Claim!ClaimedBy(i)' /\ Claim!LateIsOut(i)'
    BY DEF Claim!Inv, Claim!TypeOK, Claim!ClaimedBy, Claim!LateIsOut, Claim!removeFirstClaimMaterial,
       Claim!claimVars, Claim!hostVars, Claim!sessionVars, Claim!Goes, Claim!Fault, Claim!Fenced,
       Claim!Starting, Claim!Current, Claim!Idle, Claim!Out
  <1> QED BY <1>1, <1>2, <1>3, <1>4, <1>5, <1>6 DEF Claim!Inv

(* runMutationActivity: the claim stays as usable as it was.                *)
LEMMA ClaimRunMutationActivityKeeps ==
    ASSUME Claim!Inv, NEW k \in ClaimClients, Claim!runMutationActivity(k)
    PROVE  Claim!Inv'
  <1>1. Claim!TypeOK'
    <2> DEFINE x == [v11[k] EXCEPT !.pc = "claiming", !.inTime = v11[k].claim \notin v3]
    <2>1. v11 \in [ClaimClients -> ClaimRequest]
      BY DEF Claim!Inv, Claim!TypeOK, ClaimRequest
    <2>2. \A b \in BOOLEAN : [v11[k] EXCEPT !.pc = "claiming", !.inTime = b] \in ClaimRequest
      BY <2>1 DEF ClaimRequest
    <2>3. x \in ClaimRequest
      BY <2>2
    <2>4. v11' = [v11 EXCEPT ![k] = x]
      BY DEF Claim!runMutationActivity
    <2> HIDE DEF x
    <2>5. v11' \in [ClaimClients -> ClaimRequest]
      BY <2>1, <2>3, <2>4
    <2> QED BY <2>5 DEF Claim!Inv, Claim!TypeOK, Claim!runMutationActivity, Claim!claimVars,
               Claim!hostVars, Claim!sessionVars, ClaimRequest
  <1>2. /\ v11[k].pc = "hashing" /\ v11'[k].pc = "claiming" /\ v11'[k].claim = v11[k].claim
        /\ \A l \in ClaimClients \ {k} : v11'[l] = v11[l]
        /\ UNCHANGED <<Claim!claimVars, v5, Claim!hostVars, Claim!sessionVars, v14>>
    BY DEF Claim!Inv, Claim!TypeOK, Claim!runMutationActivity
  <1>3. Claim!ClaimsKnown' /\ \A i \in ClaimClients : Claim!ClaimedBy(i)' /\ Claim!LateIsOut(i)'
    BY <1>2 DEF Claim!Inv, Claim!ClaimsKnown, Claim!Known, Claim!Current, Claim!ClaimedBy, Claim!LateIsOut,
       Claim!claimVars, Claim!hostVars, Claim!sessionVars
  <1>4. /\ Claim!Open' <=> Claim!Open
        /\ (\E i \in ClaimClients : v11'[i].pc = "removing") <=> \E i \in ClaimClients : v11[i].pc = "removing"
    BY <1>2 DEF Claim!Open, Claim!Usable, Claim!Current, Claim!claimVars
  <1>5. \A i \in ClaimHosts : Claim!Maintained(i)' /\ Claim!Published(i)' /\ Claim!Removed(i)'
    BY <1>2, <1>4 DEF Claim!Inv, Claim!Maintained, Claim!Published, Claim!Renewing, Claim!Current,
       Claim!Fenced, Claim!Removed, Claim!claimVars, Claim!hostVars
  <1> QED BY <1>1, <1>3, <1>5 DEF Claim!Inv

(* ClaimFails: the timer of the Host was not touched.                       *)
LEMMA ClaimClaimFailsKeeps ==
    ASSUME Claim!Inv, NEW k \in ClaimClients, Claim!ClaimFails(k)
    PROVE  Claim!Inv'
  <1>1. Claim!TypeOK'
    <2>1. v11[k].host \in ClaimHosts /\ v11 \in [ClaimClients -> ClaimRequest]
      BY DEF Claim!Inv, Claim!TypeOK, ClaimRequest
    <2>2. Claim!Idle \in ClaimRequest
      BY <2>1, ClaimAssumption DEF Claim!Idle, ClaimRequest
    <2>3. v11' \in [ClaimClients -> ClaimRequest] /\ v15' \in 0..ClaimFaults
      BY <2>1, <2>2, ClaimAssumption DEF Claim!Inv, Claim!TypeOK, Claim!ClaimFails, Claim!Fault
    <2> QED BY <2>3 DEF Claim!Inv, Claim!TypeOK, Claim!ClaimFails, Claim!claimVars, Claim!hostVars,
               Claim!sessionVars, ClaimRequest
  <1>2. Claim!ClaimsKnown'
    BY DEF Claim!Inv, Claim!TypeOK, Claim!ClaimsKnown, Claim!Known, Claim!Claims, Claim!ClaimFails,
       Claim!claimVars, Claim!hostVars, Claim!sessionVars, Claim!Goes, Claim!Fault, Claim!Fenced,
       Claim!Starting, Claim!Current, Claim!Idle, Claim!Out
  <1>3. ASSUME NEW i \in ClaimHosts PROVE Claim!Maintained(i)'
    BY DEF Claim!Inv, Claim!TypeOK, Claim!Maintained, Claim!ClaimedBy, Claim!ClaimFails,
       Claim!claimVars, Claim!hostVars, Claim!sessionVars, Claim!Goes, Claim!Fault, Claim!Fenced,
       Claim!Starting, Claim!Current, Claim!Idle, Claim!Out
  <1>4. ASSUME NEW i \in ClaimHosts PROVE Claim!Published(i)'
    BY DEF Claim!Inv, Claim!TypeOK, Claim!ClaimsKnown, Claim!Known, Claim!Claims, Claim!Maintained,
       Claim!Published, Claim!Renewing, Claim!Open, Claim!Usable, Claim!ClaimedBy, Claim!ClaimFails,
       Claim!claimVars, Claim!hostVars, Claim!sessionVars, Claim!Goes, Claim!Fault, Claim!Fenced,
       Claim!Starting, Claim!Current, Claim!Idle, Claim!Out
  <1>5. ASSUME NEW i \in ClaimHosts PROVE Claim!Removed(i)'
    BY DEF Claim!Inv, Claim!TypeOK, Claim!ClaimsKnown, Claim!Claims, Claim!Maintained, Claim!Published,
       Claim!Removed, Claim!Renewing, Claim!Open, Claim!Usable, Claim!ClaimedBy, Claim!ClaimFails,
       Claim!claimVars, Claim!hostVars, Claim!sessionVars, Claim!Goes, Claim!Fault, Claim!Fenced,
       Claim!Starting, Claim!Current, Claim!Idle, Claim!Out
  <1>6. ASSUME NEW i \in ClaimClients PROVE Claim!ClaimedBy(i)' /\ Claim!LateIsOut(i)'
    BY DEF Claim!Inv, Claim!TypeOK, Claim!ClaimedBy, Claim!LateIsOut, Claim!ClaimFails,
       Claim!claimVars, Claim!hostVars, Claim!sessionVars, Claim!Goes, Claim!Fault, Claim!Fenced,
       Claim!Starting, Claim!Current, Claim!Idle, Claim!Out
  <1> QED BY <1>1, <1>2, <1>3, <1>4, <1>5, <1>6 DEF Claim!Inv

(* login.                                                                   *)
LEMMA ClaimLoginKeeps ==
    ASSUME Claim!Inv, NEW s \in Claim!Sessions, Claim!login(s)
    PROVE  Claim!Inv'
  <1>1. Claim!TypeOK'
    BY ClaimAssumption DEF Claim!Inv, Claim!TypeOK, Claim!Claims, Claim!Sessions, Claim!login,
       Claim!claimVars, Claim!hostVars, Claim!sessionVars, Claim!Goes, Claim!Fault, Claim!Fenced,
       Claim!Starting, Claim!Current, Claim!Idle, Claim!Out
  <1>2. UNCHANGED <<Claim!claimVars, v5, Claim!hostVars, v11, v14>>
    BY DEF Claim!login
  <1>3. Claim!ClaimsKnown' /\ \A i \in ClaimClients : Claim!ClaimedBy(i)'
    BY <1>2 DEF Claim!Inv, Claim!ClaimsKnown, Claim!Known, Claim!Current, Claim!ClaimedBy,
       Claim!claimVars, Claim!hostVars
  <1>4. \A i \in ClaimHosts : Claim!Maintained(i)' /\ Claim!Published(i)' /\ Claim!Removed(i)'
    BY <1>2 DEF Claim!Inv, Claim!Maintained, Claim!Published, Claim!Renewing, Claim!Open, Claim!Usable,
       Claim!Current, Claim!Fenced, Claim!Removed, Claim!claimVars, Claim!hostVars
  <1>5. ASSUME NEW i \in ClaimClients PROVE Claim!LateIsOut(i)'
    BY DEF Claim!Inv, Claim!TypeOK, Claim!Sessions, Claim!LateIsOut, Claim!login, Claim!Out
  <1> QED BY <1>1, <1>3, <1>4, <1>5 DEF Claim!Inv

(* authenticate.                                                            *)
LEMMA ClaimAuthenticateKeeps ==
    ASSUME Claim!Inv, NEW k \in ClaimClients, NEW s \in Claim!Sessions, Claim!authenticate(k, s)
    PROVE  Claim!Inv'
  <1>1. Claim!TypeOK'
    BY ClaimAssumption DEF Claim!Inv, Claim!TypeOK, Claim!Claims, Claim!Sessions, Claim!authenticate,
       Claim!claimVars, Claim!hostVars, Claim!sessionVars, Claim!Goes, Claim!Fault, Claim!Fenced,
       Claim!Starting, Claim!Current, Claim!Idle, Claim!Out
  <1>2. UNCHANGED <<Claim!claimVars, v5, Claim!hostVars, v11, v14>>
    BY DEF Claim!authenticate
  <1>3. Claim!ClaimsKnown' /\ \A i \in ClaimClients : Claim!ClaimedBy(i)'
    BY <1>2 DEF Claim!Inv, Claim!ClaimsKnown, Claim!Known, Claim!Current, Claim!ClaimedBy,
       Claim!claimVars, Claim!hostVars
  <1>4. \A i \in ClaimHosts : Claim!Maintained(i)' /\ Claim!Published(i)' /\ Claim!Removed(i)'
    BY <1>2 DEF Claim!Inv, Claim!Maintained, Claim!Published, Claim!Renewing, Claim!Open, Claim!Usable,
       Claim!Current, Claim!Fenced, Claim!Removed, Claim!claimVars, Claim!hostVars
  <1>5. ASSUME NEW i \in ClaimClients PROVE Claim!LateIsOut(i)'
    BY DEF Claim!Inv, Claim!TypeOK, Claim!Sessions, Claim!LateIsOut, Claim!authenticate, Claim!Out
  <1> QED BY <1>1, <1>3, <1>4, <1>5 DEF Claim!Inv

(* Authenticated: a session revoked before is still revoked.                *)
LEMMA ClaimAuthenticatedKeeps ==
    ASSUME Claim!Inv, NEW k \in ClaimClients, Claim!Authenticated(k)
    PROVE  Claim!Inv'
  <1>1. Claim!TypeOK'
    <2>1. v13' \in [ClaimClients -> [pc : {"no", "reading", "admitted", "revoking"},
                                     session : 0..MaxSessions, late : BOOLEAN]]
      <3>1. v13[k] \in [pc : {"no", "reading", "admitted", "revoking"}, session : 0..MaxSessions,
                        late : BOOLEAN]
        BY DEF Claim!Inv, Claim!TypeOK
      <3>2. Claim!Out \in [pc : {"no", "reading", "admitted", "revoking"}, session : 0..MaxSessions,
                           late : BOOLEAN]
        BY ClaimAssumption DEF Claim!Out
      <3> DEFINE new == IF v12[v13[k].session] = "revoked" THEN Claim!Out ELSE [v13[k] EXCEPT !.pc = "admitted"]
      <3>3. new \in [pc : {"no", "reading", "admitted", "revoking"}, session : 0..MaxSessions, late : BOOLEAN]
        BY <3>1, <3>2
      <3>4. v13' = [v13 EXCEPT ![k] = new]
        BY DEF Claim!Authenticated
      <3> HIDE DEF new
      <3> QED BY <3>3, <3>4 DEF Claim!Inv, Claim!TypeOK
    <2> QED BY <2>1 DEF Claim!Inv, Claim!TypeOK, Claim!Authenticated, Claim!claimVars, Claim!hostVars
  <1>2. UNCHANGED <<Claim!claimVars, v5, Claim!hostVars, v11, v14>>
    BY DEF Claim!Authenticated
  <1>3. Claim!ClaimsKnown' /\ \A i \in ClaimClients : Claim!ClaimedBy(i)'
    BY <1>2 DEF Claim!Inv, Claim!ClaimsKnown, Claim!Known, Claim!Current, Claim!ClaimedBy,
       Claim!claimVars, Claim!hostVars
  <1>4. \A i \in ClaimHosts : Claim!Maintained(i)' /\ Claim!Published(i)' /\ Claim!Removed(i)'
    BY <1>2 DEF Claim!Inv, Claim!Maintained, Claim!Published, Claim!Renewing, Claim!Open, Claim!Usable,
       Claim!Current, Claim!Fenced, Claim!Removed, Claim!claimVars, Claim!hostVars
  <1>5. ASSUME NEW i \in ClaimClients PROVE Claim!LateIsOut(i)'
    BY DEF Claim!Inv, Claim!TypeOK, Claim!Sessions, Claim!LateIsOut, Claim!Authenticated, Claim!Out
  <1> QED BY <1>1, <1>3, <1>4, <1>5 DEF Claim!Inv

(* logout.                                                                  *)
LEMMA ClaimLogoutKeeps ==
    ASSUME Claim!Inv, NEW k \in ClaimClients, Claim!logout(k)
    PROVE  Claim!Inv'
  <1>1. Claim!TypeOK'
    <2>1. v12' \in [Claim!Sessions -> {"none", "issued", "revoked"}]
      BY DEF Claim!Inv, Claim!TypeOK, Claim!logout
    <2>2. v13' \in [ClaimClients -> [pc : {"no", "reading", "admitted", "revoking"},
                                     session : 0..MaxSessions, late : BOOLEAN]]
      BY ClaimAssumption DEF Claim!Inv, Claim!TypeOK, Claim!logout, Claim!Out
    <2> QED BY <2>1, <2>2 DEF Claim!Inv, Claim!TypeOK, Claim!logout, Claim!claimVars, Claim!hostVars
  <1>2. UNCHANGED <<Claim!claimVars, v5, Claim!hostVars, v11, v14>>
    BY DEF Claim!logout
  <1>3. Claim!ClaimsKnown' /\ \A i \in ClaimClients : Claim!ClaimedBy(i)'
    BY <1>2 DEF Claim!Inv, Claim!ClaimsKnown, Claim!Known, Claim!Current, Claim!ClaimedBy,
       Claim!claimVars, Claim!hostVars
  <1>4. \A i \in ClaimHosts : Claim!Maintained(i)' /\ Claim!Published(i)' /\ Claim!Removed(i)'
    BY <1>2 DEF Claim!Inv, Claim!Maintained, Claim!Published, Claim!Renewing, Claim!Open, Claim!Usable,
       Claim!Current, Claim!Fenced, Claim!Removed, Claim!claimVars, Claim!hostVars
  <1>5. ASSUME NEW i \in ClaimClients PROVE Claim!LateIsOut(i)'
    BY ZenonT(40) DEF Claim!Inv, Claim!TypeOK, Claim!Sessions, Claim!LateIsOut, Claim!logout, Claim!Out
  <1> QED BY <1>1, <1>3, <1>4, <1>5 DEF Claim!Inv

(* Every step keeps the invariant.                                          *)
LEMMA ClaimNextInv ==
    ASSUME Claim!Inv, [Claim!Next]_Claim!vars
    PROVE  Claim!Inv'
  <1>1. CASE UNCHANGED Claim!vars
    <2>1. Claim!TypeOK' /\ Claim!ClaimsKnown'
      BY <1>1 DEF Claim!Inv, Claim!TypeOK, Claim!ClaimsKnown, Claim!Known, Claim!Current, Claim!vars,
         Claim!claimVars, Claim!hostVars, Claim!sessionVars
    <2>2. \A i \in ClaimHosts : Claim!Maintained(i)' /\ Claim!Published(i)' /\ Claim!Removed(i)'
      BY <1>1 DEF Claim!Inv, Claim!Maintained, Claim!Published, Claim!Renewing, Claim!Open, Claim!Usable,
         Claim!Current, Claim!Fenced, Claim!Removed, Claim!vars, Claim!claimVars, Claim!hostVars
    <2>3. \A i \in ClaimClients : Claim!ClaimedBy(i)' /\ Claim!LateIsOut(i)'
      BY <1>1 DEF Claim!Inv, Claim!ClaimedBy, Claim!LateIsOut, Claim!vars, Claim!claimVars,
         Claim!sessionVars
    <2> QED BY <2>1, <2>2, <2>3 DEF Claim!Inv
  <1>2. CASE Claim!Next
    <2>1. ASSUME NEW h \in ClaimHosts,
                 \/ Claim!startFirstClaimMaintenance(h) \/ Claim!renew(h) \/ Claim!EnsureReads(h)
                 \/ Claim!PassFails(h) \/ Claim!Created(h)
                 \/ Claim!publishClaim(h) \/ Claim!removeClaim(h) \/ Claim!close(h) \/ Claim!Takeover(h)
                 \/ \E c \in Claim!Claims : Claim!createOrReplaceClaim(h, c)
          PROVE  Claim!Inv'
      BY <2>1, ClaimStartFirstClaimMaintenanceKeeps, ClaimRenewKeeps, ClaimEnsureReadsKeeps,
         ClaimPassFailsKeeps, ClaimCreatedKeeps, ClaimPublishClaimKeeps, ClaimRemoveClaimKeeps,
         ClaimCloseKeeps, ClaimTakeoverKeeps, ClaimCreateOrReplaceClaimKeeps
    <2>2. ASSUME NEW k \in ClaimClients,
                 \/ \E h \in ClaimHosts : Claim!claimFirstAdministrator(k, h)
                 \/ Claim!runMutationActivity(k)
                 \/ Claim!consumeClaimCreateAdministrator(k) \/ Claim!administratorClaimed(k)
                 \/ Claim!removeFirstClaimMaterial(k) \/ Claim!ClaimFails(k)
                 \/ \E s \in Claim!Sessions : Claim!authenticate(k, s)
                 \/ Claim!Authenticated(k) \/ Claim!logout(k)
          PROVE  Claim!Inv'
      BY <2>2, ClaimClaimFirstAdministratorKeeps, ClaimRunMutationActivityKeeps, ClaimConsumeClaimCreateAdministratorKeeps,
         ClaimAdministratorClaimedKeeps, ClaimRemoveFirstClaimMaterialKeeps, ClaimClaimFailsKeeps,
         ClaimAuthenticateKeeps, ClaimAuthenticatedKeeps, ClaimLogoutKeeps
    <2> QED BY <1>2, <2>1, <2>2, ClaimExpireKeeps, ClaimLoginKeeps DEF Claim!Next
  <1> QED BY <1>1, <1>2

(* What the invariant says to a reader of the file and of a session.        *)
LEMMA ClaimInvSays ==
    ASSUME Claim!Inv
    PROVE  Claim!TypeOK /\ Claim!Claimable /\ Claim!ClaimedIsRemoved /\ Claim!RevokedStaysOut
  <1>1. Claim!Claimable
    BY DEF Claim!Inv, Claim!TypeOK, Claim!Claimable, Claim!Settled, Claim!Maintained, Claim!Published
  <1>2. Claim!ClaimedIsRemoved
    <2> SUFFICES ASSUME NEW h \in ClaimHosts, Claim!Settled(h), v4 # 0, v14 = {}
                 PROVE  v5 = 0 \/ v10[h] # "none"
      BY DEF Claim!ClaimedIsRemoved
    <2> QED BY DEF Claim!Inv, Claim!Settled, Claim!Removed
  <1>3. Claim!RevokedStaysOut
    BY DEF Claim!Inv, Claim!RevokedStaysOut, Claim!LateIsOut
  <1> QED BY <1>1, <1>2, <1>3 DEF Claim!Inv

(* Whoever becomes the Administrator does it with the current claim.        *)
LEMMA ClaimOnceOnly ==
    ASSUME Claim!Inv, [Claim!Next]_Claim!vars
    PROVE  Claim!ClaimsOnce
  <1> SUFFICES ASSUME v4' # v4 PROVE Claim!ClaimsOnce
    BY DEF Claim!ClaimsOnce
  <1>1. PICK k \in ClaimClients : Claim!consumeClaimCreateAdministrator(k)
    BY DEF Claim!Next, Claim!vars, Claim!claimVars, Claim!startFirstClaimMaintenance, Claim!renew,
       Claim!EnsureReads, Claim!createOrReplaceClaim, Claim!PassFails, Claim!Created, Claim!publishClaim,
       Claim!removeClaim, Claim!close, Claim!Takeover, Claim!Expire, Claim!claimFirstAdministrator,
       Claim!runMutationActivity, Claim!administratorClaimed, Claim!removeFirstClaimMaterial, Claim!ClaimFails,
       Claim!authenticate, Claim!Authenticated, Claim!logout, Claim!login
  <1> QED BY <1>1 DEF Claim!consumeClaimCreateAdministrator, Claim!ClaimsOnce, Claim!Current,
             Claim!claimVars

------------------------------------------------------------------------------
(* PrivatePostgres: v1 directory, v2 identity, v3 expected, v4 server, v5   *)
(* pending, v6 startedBy, v7 owner, v8 held, v9 session, v10 machine, v11   *)
(* mechanics, v12 pc, v13 goal, v14 ctl, v15 faults.                        *)

(* Which event leads where.                                                 *)
LEMMA PostgresEventsLead ==
    ASSUME Postgres!Types
    PROVE  /\ Postgres!send("START_COMMAND_ISSUED") => v10 = "stopped" /\ v10' = "startCommandPending"
           /\ Postgres!send("RESTART_COMMAND_ISSUED") => v10 = "ready" /\ v10' = "startCommandPending"
           /\ Postgres!send("START_COMMAND_SUCCEEDED") =>
                 v10 = "startCommandPending" /\ v10' = "startedPendingReady"
           /\ Postgres!send("START_OUTCOME_UNCERTAIN") =>
                 v10 = "startCommandPending" /\ v10' = "startOutcomeUncertain"
           /\ Postgres!send("READY_PROVEN") => v10 = "startedPendingReady" /\ v10' = "ready"
           /\ Postgres!send("POST_START_PROOF_FAILED") =>
                 v10 = "startedPendingReady" /\ v10' = "processUncertain"
           /\ Postgres!send("STOP_COMMAND_ISSUED") =>
                 v10 \in {"ready", "runningObservedUncertain"} /\ v10' = "stopping"
           /\ Postgres!send("UNEXPECTED_PROCESS_EXIT") => v10 = "ready" /\ v10' = "processUncertain"
           /\ Postgres!send("STOP_OUTCOME_UNCERTAIN") => v10 = "stopping" /\ v10' = "processUncertain"
           /\ Postgres!send("STATUS_STOPPED_PROVEN") =>
                 v10 \in {"stopping", "processUncertain"} /\ v10' = "stopped"
           /\ Postgres!can("UNEXPECTED_PROCESS_EXIT") => v10 = "ready"
           /\ Postgres!sendIf("STATUS_RUNNING_PROVEN") =>
                 \/ v10 \in {"startOutcomeUncertain", "processUncertain"} /\ v10' = "runningObservedUncertain"
                 \/ v10 \notin {"startOutcomeUncertain", "processUncertain"} /\ v10' = v10
  BY DEF Postgres!Types, Postgres!send, Postgres!sendIf, Postgres!can, Postgres!lifecycleMachine,
     Postgres!Settled

(* Only a ready server, or one that was seen running, is told to stop.      *)
LEMMA PostgresStoppable == \A m : Postgres!lifecycleMachine(m, "STOP_COMMAND_ISSUED") # "" =>
                             m \in {"ready", "runningObservedUncertain"}
  BY DEF Postgres!lifecycleMachine, Postgres!Settled

(* A mark leaves the token as it is.                                        *)
LEMMA PostgresMarks ==
    ASSUME Postgres!Types
    PROVE  \A s \in {"QUIESCENT", "TRANSITIONING"} \cup Postgres!Placed : Postgres!mark(s) =>
              /\ v9' \in [state : {"QUIESCENT", "TRANSITIONING"} \cup Postgres!Placed, current : BOOLEAN]
              /\ v9'.state = s /\ v9'.current = v9.current
  BY DEF Postgres!Types, Postgres!mark

(* The owners are told apart from the Host, from nobody and from what the   *)
(* cluster directory may hold.                                              *)
LEMMA PostgresApart ==
    ASSUME Postgres!Types
    PROVE  /\ v7 # Postgres!Host /\ v7 # Postgres!Nobody /\ Postgres!Host # Postgres!Nobody
           /\ Postgres!Partial # Postgres!Nothing
           /\ v7 <= ServerOwners => v7 # Postgres!Partial /\ v7 \in 0..ServerOwners
  BY ServerAssumption DEF Postgres!Types, Postgres!TypeOK, Postgres!Host, Postgres!Nobody,
     Postgres!Partial, Postgres!Nothing

(* What starts, and what is on its way, is of an owner or of a Host.        *)
LEMMA PostgresOwnersStay ==
    ASSUME Postgres!Types, v7' \in {v7, v7 + 1}, v5' \subseteq v5 \cup {v7},
           v6' \in v5 \cup {v6, Postgres!Nobody}
    PROVE  v5' \subseteq 1..v7' \cup {Postgres!Host} /\ v6' \in 0..v7' \cup {Postgres!Host}
  <1>1. v7 \in Nat /\ 1 <= v7
    BY ServerAssumption DEF Postgres!Types, Postgres!TypeOK
  <1>2. 1..v7 \subseteq 1..v7' /\ 0..v7 \subseteq 0..v7' /\ v7 \in 1..v7'
        /\ 1..v7' \subseteq 0..v7'
    BY <1>1
  <1>3. v5 \cup {v7} \subseteq 1..v7' \cup {Postgres!Host}
    BY <1>2 DEF Postgres!Types
  <1>4. v6 \in 0..v7' \cup {Postgres!Host} /\ Postgres!Nobody \in 0..v7'
    BY <1>1, <1>2 DEF Postgres!Types, Postgres!Nobody
  <1> QED BY <1>2, <1>3, <1>4

(* The next owner has started nothing.                                      *)
LEMMA PostgresNextOwner ==
    ASSUME Postgres!Types, v7 <= ServerOwners
    PROVE  v7 + 1 \notin v5 \cup {v7, v6}
  <1>1. v7 \in Nat /\ ServerOwners \in Nat /\ v7 + 1 # Postgres!Host
    BY ServerAssumption DEF Postgres!Types, Postgres!TypeOK, Postgres!Host
  <1>2. v7 + 1 \notin 0..v7 /\ v7 + 1 \notin 1..v7 /\ v7 + 1 # v7
    BY <1>1
  <1> QED BY <1>1, <1>2 DEF Postgres!Types

(* Faults are counted up to their bound.                                    *)
LEMMA PostgresFaultsStay ==
    ASSUME Postgres!Types, v15' = v15 \/ (v15 < ServerFaults /\ v15' = v15 + 1)
    PROVE  v15' \in 0..ServerFaults
  BY ServerAssumption DEF Postgres!Types, Postgres!TypeOK

(* There was nobody yet.                                                    *)
LEMMA PostgresInitInv ==
    ASSUME Postgres!Init
    PROVE  Postgres!Inv
  BY ServerAssumption DEF Postgres!Init, Postgres!Inv, Postgres!Types, Postgres!TypeOK, Postgres!Named,
     Postgres!SessionOK, Postgres!PreparationOK, Postgres!MachineOK, Postgres!HostOK, Postgres!Preparing,
     Postgres!Working, Postgres!Placed, Postgres!Validated, Postgres!Unstarted, Postgres!Controls,
     Postgres!Nobody, Postgres!Nothing, Postgres!Partial, Postgres!Host

(* A preparation begins with nothing of its own.                            *)
LEMMA PostgresBeginPreparationKeeps ==
    ASSUME Postgres!Inv, Postgres!beginPreparation
    PROVE  Postgres!Inv'
  <1> USE DEF Postgres!beginPreparation, Postgres!Acts, Postgres!To, Postgres!assertSessionState,
          Postgres!outside
  <1>1. Postgres!Types'
    BY DEF Postgres!Inv, Postgres!Types, Postgres!TypeOK, Postgres!SessionOK, Postgres!Placed,
       Postgres!Preparing, Postgres!Working
  <1>2. Postgres!Named'
    BY DEF Postgres!Inv, Postgres!Types, Postgres!TypeOK, Postgres!Named, Postgres!SessionOK,
       Postgres!PreparationOK, Postgres!MachineOK, Postgres!HostOK, Postgres!Preparing, Postgres!Working,
       Postgres!Placed, Postgres!Validated, Postgres!Unstarted, Postgres!Controls, Postgres!Nobody,
       Postgres!Nothing
  <1>3. Postgres!SessionOK'
    BY DEF Postgres!Inv, Postgres!Types, Postgres!TypeOK, Postgres!Named, Postgres!SessionOK,
       Postgres!PreparationOK, Postgres!MachineOK, Postgres!HostOK, Postgres!Preparing, Postgres!Working,
       Postgres!Placed, Postgres!Validated, Postgres!Unstarted, Postgres!Controls, Postgres!Nobody,
       Postgres!Nothing
  <1>4. Postgres!PreparationOK'
    BY DEF Postgres!Inv, Postgres!Types, Postgres!TypeOK, Postgres!Named, Postgres!SessionOK,
       Postgres!PreparationOK, Postgres!MachineOK, Postgres!HostOK, Postgres!Preparing, Postgres!Working,
       Postgres!Placed, Postgres!Validated, Postgres!Unstarted, Postgres!Controls, Postgres!Nobody,
       Postgres!Nothing
  <1>5. Postgres!MachineOK'
    BY DEF Postgres!Inv, Postgres!Types, Postgres!TypeOK, Postgres!Named, Postgres!SessionOK,
       Postgres!PreparationOK, Postgres!MachineOK, Postgres!HostOK, Postgres!Preparing, Postgres!Working,
       Postgres!Placed, Postgres!Validated, Postgres!Unstarted, Postgres!Controls, Postgres!Nobody,
       Postgres!Nothing
  <1>6. Postgres!HostOK'
    BY DEF Postgres!Inv, Postgres!Types, Postgres!TypeOK, Postgres!Named, Postgres!SessionOK,
       Postgres!PreparationOK, Postgres!MachineOK, Postgres!HostOK, Postgres!Preparing, Postgres!Working,
       Postgres!Placed, Postgres!Validated, Postgres!Unstarted, Postgres!Controls, Postgres!Nobody,
       Postgres!Nothing
  <1> QED BY <1>1, <1>2, <1>3, <1>4, <1>5, <1>6 DEF Postgres!Inv

(* What it sees is the named cluster, or a place for a new one.             *)
LEMMA PostgresInspectKeeps ==
    ASSUME Postgres!Inv, Postgres!inspect
    PROVE  Postgres!Inv'
  <1> USE PostgresMarks, PostgresApart DEF Postgres!inspect, Postgres!Acts, Postgres!To, Postgres!Ends,
          Postgres!PrepareFails, Postgres!outside, Postgres!classifyClusterDirectory,
          Postgres!assertFirstInitializationTarget, Postgres!resolvePrivatePostgresToolchain,
          Postgres!Fault
  <1>1. Postgres!Types'
    <2>1. {v1', v2', v3'} \subseteq 0..ServerOwners \cup {Postgres!Partial} /\ v7' \in 1..ServerOwners + 1
      BY ServerAssumption DEF Postgres!Inv, Postgres!Types, Postgres!TypeOK
    <2>2. v15' \in 0..ServerFaults
      BY ServerAssumption DEF Postgres!Inv, Postgres!Types, Postgres!TypeOK
    <2>3. v8' \in BOOLEAN /\ v9'.current \in BOOLEAN
      BY DEF Postgres!Inv, Postgres!Types, Postgres!TypeOK, Postgres!Placed
    <2>4. v9' \in [state : {"QUIESCENT", "TRANSITIONING"} \cup Postgres!Placed, current : BOOLEAN]
      BY DEF Postgres!Inv, Postgres!Types, Postgres!TypeOK, Postgres!Placed
    <2>5. /\ v4' \in {"stopped", "running", "ready", "stopping"}
          /\ v5' \subseteq 1..v7' \cup {Postgres!Host} /\ v6' \in 0..v7' \cup {Postgres!Host}
      BY ServerAssumption DEF Postgres!Inv, Postgres!Types, Postgres!TypeOK, Postgres!Nobody
    <2>6. /\ v10' \in {"stopped", "startCommandPending", "startedPendingReady", "ready", "stopping",
                           "startOutcomeUncertain", "processUncertain", "runningObservedUncertain"}
          /\ v12' \in {"idle"} \cup Postgres!Preparing \cup Postgres!Working
      BY DEF Postgres!Inv, Postgres!Types, Postgres!TypeOK, Postgres!Preparing, Postgres!Working
    <2> QED BY <2>1, <2>2, <2>3, <2>4, <2>5, <2>6 DEF Postgres!Types, Postgres!TypeOK
  <1>2. Postgres!Named'
    BY DEF Postgres!Inv, Postgres!Types, Postgres!TypeOK, Postgres!Named, Postgres!SessionOK,
       Postgres!PreparationOK, Postgres!MachineOK, Postgres!HostOK, Postgres!Preparing, Postgres!Working,
       Postgres!Placed, Postgres!Validated, Postgres!Unstarted, Postgres!Controls, Postgres!Nobody,
       Postgres!Nothing
  <1>3. Postgres!SessionOK'
    BY DEF Postgres!Inv, Postgres!Types, Postgres!TypeOK, Postgres!Named, Postgres!SessionOK,
       Postgres!PreparationOK, Postgres!MachineOK, Postgres!HostOK, Postgres!Preparing, Postgres!Working,
       Postgres!Placed, Postgres!Validated, Postgres!Unstarted, Postgres!Controls, Postgres!Nobody,
       Postgres!Nothing
  <1>4. Postgres!PreparationOK'
    BY DEF Postgres!Inv, Postgres!Types, Postgres!TypeOK, Postgres!Named, Postgres!SessionOK,
       Postgres!PreparationOK, Postgres!MachineOK, Postgres!HostOK, Postgres!Preparing, Postgres!Working,
       Postgres!Placed, Postgres!Validated, Postgres!Unstarted, Postgres!Controls, Postgres!Nobody,
       Postgres!Nothing
  <1>5. Postgres!MachineOK'
    BY DEF Postgres!Inv, Postgres!Types, Postgres!TypeOK, Postgres!Named, Postgres!SessionOK,
       Postgres!PreparationOK, Postgres!MachineOK, Postgres!HostOK, Postgres!Preparing, Postgres!Working,
       Postgres!Placed, Postgres!Validated, Postgres!Unstarted, Postgres!Controls, Postgres!Nobody,
       Postgres!Nothing
  <1>6. Postgres!HostOK'
    BY DEF Postgres!Inv, Postgres!Types, Postgres!TypeOK, Postgres!Named, Postgres!SessionOK,
       Postgres!PreparationOK, Postgres!MachineOK, Postgres!HostOK, Postgres!Preparing, Postgres!Working,
       Postgres!Placed, Postgres!Validated, Postgres!Unstarted, Postgres!Controls, Postgres!Nobody,
       Postgres!Nothing
  <1> QED BY <1>1, <1>2, <1>3, <1>4, <1>5, <1>6 DEF Postgres!Inv

(* A cluster, or a part of one, appears where nothing was.                  *)
LEMMA PostgresInitializePrivatePostgresClusterKeeps ==
    ASSUME Postgres!Inv, Postgres!initializePrivatePostgresCluster
    PROVE  Postgres!Inv'
  <1> USE PostgresMarks, PostgresApart DEF Postgres!initializePrivatePostgresCluster, Postgres!Acts,
          Postgres!To, Postgres!Ends, Postgres!outside, Postgres!withRestrictedPasswordFile,
          Postgres!Fault
  <1>1. Postgres!Types'
    <2>1. {v1', v2', v3'} \subseteq 0..ServerOwners \cup {Postgres!Partial} /\ v7' \in 1..ServerOwners + 1
      BY ServerAssumption DEF Postgres!Inv, Postgres!Types, Postgres!TypeOK
    <2>2. v15' \in 0..ServerFaults
      BY ServerAssumption DEF Postgres!Inv, Postgres!Types, Postgres!TypeOK
    <2>3. v8' \in BOOLEAN /\ v9'.current \in BOOLEAN
      BY DEF Postgres!Inv, Postgres!Types, Postgres!TypeOK, Postgres!Placed
    <2>4. v9' \in [state : {"QUIESCENT", "TRANSITIONING"} \cup Postgres!Placed, current : BOOLEAN]
      BY DEF Postgres!Inv, Postgres!Types, Postgres!TypeOK, Postgres!Placed
    <2>5. /\ v4' \in {"stopped", "running", "ready", "stopping"}
          /\ v5' \subseteq 1..v7' \cup {Postgres!Host} /\ v6' \in 0..v7' \cup {Postgres!Host}
      BY ServerAssumption DEF Postgres!Inv, Postgres!Types, Postgres!TypeOK, Postgres!Nobody
    <2>6. /\ v10' \in {"stopped", "startCommandPending", "startedPendingReady", "ready", "stopping",
                           "startOutcomeUncertain", "processUncertain", "runningObservedUncertain"}
          /\ v12' \in {"idle"} \cup Postgres!Preparing \cup Postgres!Working
      BY DEF Postgres!Inv, Postgres!Types, Postgres!TypeOK, Postgres!Preparing, Postgres!Working
    <2> QED BY <2>1, <2>2, <2>3, <2>4, <2>5, <2>6 DEF Postgres!Types, Postgres!TypeOK
  <1>2. Postgres!Named'
    BY DEF Postgres!Inv, Postgres!Types, Postgres!TypeOK, Postgres!Named, Postgres!SessionOK,
       Postgres!PreparationOK, Postgres!MachineOK, Postgres!HostOK, Postgres!Preparing, Postgres!Working,
       Postgres!Placed, Postgres!Validated, Postgres!Unstarted, Postgres!Controls, Postgres!Nobody,
       Postgres!Nothing
  <1>3. Postgres!SessionOK'
    BY DEF Postgres!Inv, Postgres!Types, Postgres!TypeOK, Postgres!Named, Postgres!SessionOK,
       Postgres!PreparationOK, Postgres!MachineOK, Postgres!HostOK, Postgres!Preparing, Postgres!Working,
       Postgres!Placed, Postgres!Validated, Postgres!Unstarted, Postgres!Controls, Postgres!Nobody,
       Postgres!Nothing
  <1>4. Postgres!PreparationOK'
    BY DEF Postgres!Inv, Postgres!Types, Postgres!TypeOK, Postgres!Named, Postgres!SessionOK,
       Postgres!PreparationOK, Postgres!MachineOK, Postgres!HostOK, Postgres!Preparing, Postgres!Working,
       Postgres!Placed, Postgres!Validated, Postgres!Unstarted, Postgres!Controls, Postgres!Nobody,
       Postgres!Nothing
  <1>5. Postgres!MachineOK'
    BY DEF Postgres!Inv, Postgres!Types, Postgres!TypeOK, Postgres!Named, Postgres!SessionOK,
       Postgres!PreparationOK, Postgres!MachineOK, Postgres!HostOK, Postgres!Preparing, Postgres!Working,
       Postgres!Placed, Postgres!Validated, Postgres!Unstarted, Postgres!Controls, Postgres!Nobody,
       Postgres!Nothing
  <1>6. Postgres!HostOK'
    BY DEF Postgres!Inv, Postgres!Types, Postgres!TypeOK, Postgres!Named, Postgres!SessionOK,
       Postgres!PreparationOK, Postgres!MachineOK, Postgres!HostOK, Postgres!Preparing, Postgres!Working,
       Postgres!Placed, Postgres!Validated, Postgres!Unstarted, Postgres!Controls, Postgres!Nobody,
       Postgres!Nothing
  <1> QED BY <1>1, <1>2, <1>3, <1>4, <1>5, <1>6 DEF Postgres!Inv

(* The identity is the one of the new cluster.                              *)
LEMMA PostgresCommitIdentityKeeps ==
    ASSUME Postgres!Inv, Postgres!commitIdentity
    PROVE  Postgres!Inv'
  <1> USE PostgresMarks, PostgresApart DEF Postgres!commitIdentity, Postgres!Acts, Postgres!To,
          Postgres!Ends, Postgres!outside, Postgres!Fault
  <1>1. Postgres!Types'
    <2>1. {v1', v2', v3'} \subseteq 0..ServerOwners \cup {Postgres!Partial} /\ v7' \in 1..ServerOwners + 1
      BY ServerAssumption DEF Postgres!Inv, Postgres!Types, Postgres!TypeOK
    <2>2. v15' \in 0..ServerFaults
      BY ServerAssumption DEF Postgres!Inv, Postgres!Types, Postgres!TypeOK
    <2>3. v8' \in BOOLEAN /\ v9'.current \in BOOLEAN
      BY DEF Postgres!Inv, Postgres!Types, Postgres!TypeOK, Postgres!Placed
    <2>4. v9' \in [state : {"QUIESCENT", "TRANSITIONING"} \cup Postgres!Placed, current : BOOLEAN]
      BY DEF Postgres!Inv, Postgres!Types, Postgres!TypeOK, Postgres!Placed
    <2>5. /\ v4' \in {"stopped", "running", "ready", "stopping"}
          /\ v5' \subseteq 1..v7' \cup {Postgres!Host} /\ v6' \in 0..v7' \cup {Postgres!Host}
      BY ServerAssumption DEF Postgres!Inv, Postgres!Types, Postgres!TypeOK, Postgres!Nobody
    <2>6. /\ v10' \in {"stopped", "startCommandPending", "startedPendingReady", "ready", "stopping",
                           "startOutcomeUncertain", "processUncertain", "runningObservedUncertain"}
          /\ v12' \in {"idle"} \cup Postgres!Preparing \cup Postgres!Working
      BY DEF Postgres!Inv, Postgres!Types, Postgres!TypeOK, Postgres!Preparing, Postgres!Working
    <2> QED BY <2>1, <2>2, <2>3, <2>4, <2>5, <2>6 DEF Postgres!Types, Postgres!TypeOK
  <1>2. Postgres!Named'
    BY DEF Postgres!Inv, Postgres!Types, Postgres!TypeOK, Postgres!Named, Postgres!SessionOK,
       Postgres!PreparationOK, Postgres!MachineOK, Postgres!HostOK, Postgres!Preparing, Postgres!Working,
       Postgres!Placed, Postgres!Validated, Postgres!Unstarted, Postgres!Controls, Postgres!Nobody,
       Postgres!Nothing
  <1>3. Postgres!SessionOK'
    BY DEF Postgres!Inv, Postgres!Types, Postgres!TypeOK, Postgres!Named, Postgres!SessionOK,
       Postgres!PreparationOK, Postgres!MachineOK, Postgres!HostOK, Postgres!Preparing, Postgres!Working,
       Postgres!Placed, Postgres!Validated, Postgres!Unstarted, Postgres!Controls, Postgres!Nobody,
       Postgres!Nothing
  <1>4. Postgres!PreparationOK'
    BY DEF Postgres!Inv, Postgres!Types, Postgres!TypeOK, Postgres!Named, Postgres!SessionOK,
       Postgres!PreparationOK, Postgres!MachineOK, Postgres!HostOK, Postgres!Preparing, Postgres!Working,
       Postgres!Placed, Postgres!Validated, Postgres!Unstarted, Postgres!Controls, Postgres!Nobody,
       Postgres!Nothing
  <1>5. Postgres!MachineOK'
    BY DEF Postgres!Inv, Postgres!Types, Postgres!TypeOK, Postgres!Named, Postgres!SessionOK,
       Postgres!PreparationOK, Postgres!MachineOK, Postgres!HostOK, Postgres!Preparing, Postgres!Working,
       Postgres!Placed, Postgres!Validated, Postgres!Unstarted, Postgres!Controls, Postgres!Nobody,
       Postgres!Nothing
  <1>6. Postgres!HostOK'
    BY DEF Postgres!Inv, Postgres!Types, Postgres!TypeOK, Postgres!Named, Postgres!SessionOK,
       Postgres!PreparationOK, Postgres!MachineOK, Postgres!HostOK, Postgres!Preparing, Postgres!Working,
       Postgres!Placed, Postgres!Validated, Postgres!Unstarted, Postgres!Controls, Postgres!Nobody,
       Postgres!Nothing
  <1> QED BY <1>1, <1>2, <1>3, <1>4, <1>5, <1>6 DEF Postgres!Inv

(* What is validated is what BootstrapState names.                          *)
LEMMA PostgresValidateKeeps ==
    ASSUME Postgres!Inv, Postgres!validate
    PROVE  Postgres!Inv'
  <1> USE PostgresMarks DEF Postgres!validate, Postgres!Acts, Postgres!To, Postgres!Ends,
          Postgres!PrepareFails, Postgres!outside, Postgres!validateExistingCluster,
          Postgres!inspectPrivatePostgresCluster, Postgres!inspectEffectivePrivatePostgresProfile
  <1>1. Postgres!Types'
    BY DEF Postgres!Inv, Postgres!Types, Postgres!TypeOK, Postgres!SessionOK, Postgres!Placed,
       Postgres!Preparing, Postgres!Working
  <1>2. Postgres!Named'
    BY DEF Postgres!Inv, Postgres!Types, Postgres!TypeOK, Postgres!Named, Postgres!SessionOK,
       Postgres!PreparationOK, Postgres!MachineOK, Postgres!HostOK, Postgres!Preparing, Postgres!Working,
       Postgres!Placed, Postgres!Validated, Postgres!Unstarted, Postgres!Controls, Postgres!Nobody,
       Postgres!Nothing
  <1>3. Postgres!SessionOK'
    BY DEF Postgres!Inv, Postgres!Types, Postgres!TypeOK, Postgres!Named, Postgres!SessionOK,
       Postgres!PreparationOK, Postgres!MachineOK, Postgres!HostOK, Postgres!Preparing, Postgres!Working,
       Postgres!Placed, Postgres!Validated, Postgres!Unstarted, Postgres!Controls, Postgres!Nobody,
       Postgres!Nothing
  <1>4. Postgres!PreparationOK'
    BY DEF Postgres!Inv, Postgres!Types, Postgres!TypeOK, Postgres!Named, Postgres!SessionOK,
       Postgres!PreparationOK, Postgres!MachineOK, Postgres!HostOK, Postgres!Preparing, Postgres!Working,
       Postgres!Placed, Postgres!Validated, Postgres!Unstarted, Postgres!Controls, Postgres!Nobody,
       Postgres!Nothing
  <1>5. Postgres!MachineOK'
    BY DEF Postgres!Inv, Postgres!Types, Postgres!TypeOK, Postgres!Named, Postgres!SessionOK,
       Postgres!PreparationOK, Postgres!MachineOK, Postgres!HostOK, Postgres!Preparing, Postgres!Working,
       Postgres!Placed, Postgres!Validated, Postgres!Unstarted, Postgres!Controls, Postgres!Nobody,
       Postgres!Nothing
  <1>6. Postgres!HostOK'
    BY DEF Postgres!Inv, Postgres!Types, Postgres!TypeOK, Postgres!Named, Postgres!SessionOK,
       Postgres!PreparationOK, Postgres!MachineOK, Postgres!HostOK, Postgres!Preparing, Postgres!Working,
       Postgres!Placed, Postgres!Validated, Postgres!Unstarted, Postgres!Controls, Postgres!Nobody,
       Postgres!Nothing
  <1> QED BY <1>1, <1>2, <1>3, <1>4, <1>5, <1>6 DEF Postgres!Inv

(* An adopted server is a Host's, and none of this owner.                   *)
LEMMA PostgresAdoptKeeps ==
    ASSUME Postgres!Inv, Postgres!Adopt
    PROVE  Postgres!Inv'
  <1> USE PostgresMarks, PostgresApart DEF Postgres!Adopt, Postgres!Acts, Postgres!To, Postgres!Ends,
          Postgres!PrepareFails, Postgres!outside, Postgres!readPrivatePostgresProcessStatus,
          Postgres!Fault
  <1>1. Postgres!Types'
    <2>1. {v1', v2', v3'} \subseteq 0..ServerOwners \cup {Postgres!Partial} /\ v7' \in 1..ServerOwners + 1
      BY ServerAssumption DEF Postgres!Inv, Postgres!Types, Postgres!TypeOK
    <2>2. v15' \in 0..ServerFaults
      BY ServerAssumption DEF Postgres!Inv, Postgres!Types, Postgres!TypeOK
    <2>3. v8' \in BOOLEAN /\ v9'.current \in BOOLEAN
      BY DEF Postgres!Inv, Postgres!Types, Postgres!TypeOK, Postgres!Placed
    <2>4. v9' \in [state : {"QUIESCENT", "TRANSITIONING"} \cup Postgres!Placed, current : BOOLEAN]
      BY DEF Postgres!Inv, Postgres!Types, Postgres!TypeOK, Postgres!Placed
    <2>5. /\ v4' \in {"stopped", "running", "ready", "stopping"}
          /\ v5' \subseteq 1..v7' \cup {Postgres!Host} /\ v6' \in 0..v7' \cup {Postgres!Host}
      BY ServerAssumption DEF Postgres!Inv, Postgres!Types, Postgres!TypeOK, Postgres!Nobody
    <2>6. /\ v10' \in {"stopped", "startCommandPending", "startedPendingReady", "ready", "stopping",
                           "startOutcomeUncertain", "processUncertain", "runningObservedUncertain"}
          /\ v12' \in {"idle"} \cup Postgres!Preparing \cup Postgres!Working
      BY DEF Postgres!Inv, Postgres!Types, Postgres!TypeOK, Postgres!Preparing, Postgres!Working
    <2> QED BY <2>1, <2>2, <2>3, <2>4, <2>5, <2>6 DEF Postgres!Types, Postgres!TypeOK
  <1>2. Postgres!Named'
    BY DEF Postgres!Inv, Postgres!Types, Postgres!TypeOK, Postgres!Named, Postgres!SessionOK,
       Postgres!PreparationOK, Postgres!MachineOK, Postgres!HostOK, Postgres!Preparing, Postgres!Working,
       Postgres!Placed, Postgres!Validated, Postgres!Unstarted, Postgres!Controls, Postgres!Nobody,
       Postgres!Nothing
  <1>3. Postgres!SessionOK'
    <2>1. /\ v12' = "idle" <=> v9'.state # "TRANSITIONING"
          /\ v9'.state \in {"TRANSITIONING", "READY", "UNCERTAIN"} => v9'.current
          /\ v9'.state \in {"HANDED_OFF", "YIELDED_TO_EXISTING_HOST"} =>
               ~v9'.current /\ v5' \subseteq {Postgres!Host}
      BY DEF Postgres!Inv, Postgres!Types, Postgres!TypeOK, Postgres!Named, Postgres!SessionOK,
         Postgres!PreparationOK, Postgres!MachineOK, Postgres!HostOK, Postgres!Preparing, Postgres!Working,
         Postgres!Placed, Postgres!Validated, Postgres!Unstarted, Postgres!Controls, Postgres!Nobody,
         Postgres!Nothing
    <2>2. v9'.state = "QUIESCENT" => Postgres!Unstarted'
      BY DEF Postgres!Inv, Postgres!Types, Postgres!TypeOK, Postgres!Named, Postgres!SessionOK,
         Postgres!PreparationOK, Postgres!MachineOK, Postgres!HostOK, Postgres!Preparing, Postgres!Working,
         Postgres!Placed, Postgres!Validated, Postgres!Unstarted, Postgres!Controls, Postgres!Nobody,
         Postgres!Nothing
    <2>3. v9'.state = "READY" => v5' = {}
      BY DEF Postgres!Inv, Postgres!Types, Postgres!TypeOK, Postgres!Named, Postgres!SessionOK,
         Postgres!PreparationOK, Postgres!MachineOK, Postgres!HostOK, Postgres!Preparing, Postgres!Working,
         Postgres!Placed, Postgres!Validated, Postgres!Unstarted, Postgres!Controls, Postgres!Nobody,
         Postgres!Nothing
    <2>4. v9'.state \in Postgres!Placed \/ v12' \in Postgres!Working \cup {"status"}
          \/ v11' # "NONE" => Postgres!Validated'
      BY DEF Postgres!Inv, Postgres!Types, Postgres!TypeOK, Postgres!Named, Postgres!SessionOK,
         Postgres!PreparationOK, Postgres!MachineOK, Postgres!HostOK, Postgres!Preparing, Postgres!Working,
         Postgres!Placed, Postgres!Validated, Postgres!Unstarted, Postgres!Controls, Postgres!Nobody,
         Postgres!Nothing
    <2> QED BY <2>1, <2>2, <2>3, <2>4 DEF Postgres!SessionOK
  <1>4. Postgres!PreparationOK'
    BY DEF Postgres!Inv, Postgres!Types, Postgres!TypeOK, Postgres!Named, Postgres!SessionOK,
       Postgres!PreparationOK, Postgres!MachineOK, Postgres!HostOK, Postgres!Preparing, Postgres!Working,
       Postgres!Placed, Postgres!Validated, Postgres!Unstarted, Postgres!Controls, Postgres!Nobody,
       Postgres!Nothing
  <1>5. Postgres!MachineOK'
    BY DEF Postgres!Inv, Postgres!Types, Postgres!TypeOK, Postgres!Named, Postgres!SessionOK,
       Postgres!PreparationOK, Postgres!MachineOK, Postgres!HostOK, Postgres!Preparing, Postgres!Working,
       Postgres!Placed, Postgres!Validated, Postgres!Unstarted, Postgres!Controls, Postgres!Nobody,
       Postgres!Nothing
  <1>6. Postgres!HostOK'
    BY DEF Postgres!Inv, Postgres!Types, Postgres!TypeOK, Postgres!Named, Postgres!SessionOK,
       Postgres!PreparationOK, Postgres!MachineOK, Postgres!HostOK, Postgres!Preparing, Postgres!Working,
       Postgres!Placed, Postgres!Validated, Postgres!Unstarted, Postgres!Controls, Postgres!Nobody,
       Postgres!Nothing
  <1> QED BY <1>1, <1>2, <1>3, <1>4, <1>5, <1>6 DEF Postgres!Inv

(* A start is on its way for the validated cluster.                         *)
LEMMA PostgresStartKeeps ==
    ASSUME Postgres!Inv, Postgres!Start
    PROVE  Postgres!Inv'
  <1> USE PostgresMarks, PostgresApart, PostgresEventsLead DEF Postgres!Start, Postgres!Acts, Postgres!To,
          Postgres!Ends, Postgres!outside, Postgres!readPrivatePostgresProcessStatus,
          Postgres!startProcess, Postgres!Fault
  <1>1. Postgres!Types'
    <2>1. {v1', v2', v3'} \subseteq 0..ServerOwners \cup {Postgres!Partial} /\ v7' \in 1..ServerOwners + 1
      BY ServerAssumption DEF Postgres!Inv, Postgres!Types, Postgres!TypeOK
    <2>2. v15' \in 0..ServerFaults
      BY ServerAssumption DEF Postgres!Inv, Postgres!Types, Postgres!TypeOK
    <2>3. v8' \in BOOLEAN /\ v9'.current \in BOOLEAN
      BY DEF Postgres!Inv, Postgres!Types, Postgres!TypeOK, Postgres!Placed
    <2>4. v9' \in [state : {"QUIESCENT", "TRANSITIONING"} \cup Postgres!Placed, current : BOOLEAN]
      BY DEF Postgres!Inv, Postgres!Types, Postgres!TypeOK, Postgres!Placed
    <2>5. /\ v4' \in {"stopped", "running", "ready", "stopping"}
          /\ v5' \subseteq 1..v7' \cup {Postgres!Host} /\ v6' \in 0..v7' \cup {Postgres!Host}
      <3>1. /\ v7' \in {v7, v7 + 1} /\ v5' \subseteq v5 \cup {v7}
            /\ v6' \in v5 \cup {v6, Postgres!Nobody}
        OBVIOUS
      <3>2. v4' \in {"stopped", "running", "ready", "stopping"}
        BY DEF Postgres!Inv, Postgres!Types
      <3> QED BY <3>1, <3>2, PostgresOwnersStay DEF Postgres!Inv
    <2>6. /\ v10' \in {"stopped", "startCommandPending", "startedPendingReady", "ready", "stopping",
                           "startOutcomeUncertain", "processUncertain", "runningObservedUncertain"}
          /\ v12' \in {"idle"} \cup Postgres!Preparing \cup Postgres!Working
      BY DEF Postgres!Inv, Postgres!Types, Postgres!TypeOK, Postgres!Preparing, Postgres!Working
    <2> QED BY <2>1, <2>2, <2>3, <2>4, <2>5, <2>6 DEF Postgres!Types, Postgres!TypeOK
  <1>2. Postgres!Named'
    BY DEF Postgres!Inv, Postgres!Types, Postgres!TypeOK, Postgres!Named, Postgres!SessionOK,
       Postgres!PreparationOK, Postgres!MachineOK, Postgres!HostOK, Postgres!Preparing, Postgres!Working,
       Postgres!Placed, Postgres!Validated, Postgres!Unstarted, Postgres!Controls, Postgres!Nobody,
       Postgres!Nothing
  <1>3. Postgres!SessionOK'
    BY DEF Postgres!Inv, Postgres!Types, Postgres!TypeOK, Postgres!Named, Postgres!SessionOK,
       Postgres!PreparationOK, Postgres!MachineOK, Postgres!HostOK, Postgres!Preparing, Postgres!Working,
       Postgres!Placed, Postgres!Validated, Postgres!Unstarted, Postgres!Controls, Postgres!Nobody,
       Postgres!Nothing
  <1>4. Postgres!PreparationOK'
    BY DEF Postgres!Inv, Postgres!Types, Postgres!TypeOK, Postgres!Named, Postgres!SessionOK,
       Postgres!PreparationOK, Postgres!MachineOK, Postgres!HostOK, Postgres!Preparing, Postgres!Working,
       Postgres!Placed, Postgres!Validated, Postgres!Unstarted, Postgres!Controls, Postgres!Nobody,
       Postgres!Nothing
  <1>5. Postgres!MachineOK'
    BY DEF Postgres!Inv, Postgres!Types, Postgres!TypeOK, Postgres!Named, Postgres!SessionOK,
       Postgres!PreparationOK, Postgres!MachineOK, Postgres!HostOK, Postgres!Preparing, Postgres!Working,
       Postgres!Placed, Postgres!Validated, Postgres!Unstarted, Postgres!Controls, Postgres!Nobody,
       Postgres!Nothing
  <1>6. Postgres!HostOK'
    BY DEF Postgres!Inv, Postgres!Types, Postgres!TypeOK, Postgres!Named, Postgres!SessionOK,
       Postgres!PreparationOK, Postgres!MachineOK, Postgres!HostOK, Postgres!Preparing, Postgres!Working,
       Postgres!Placed, Postgres!Validated, Postgres!Unstarted, Postgres!Controls, Postgres!Nobody,
       Postgres!Nothing
  <1> QED BY <1>1, <1>2, <1>3, <1>4, <1>5, <1>6 DEF Postgres!Inv

(* pg_ctl answers once the server is there, or does not know.               *)
LEMMA PostgresCommandReturnsKeeps ==
    ASSUME Postgres!Inv, Postgres!CommandReturns
    PROVE  Postgres!Inv'
  <1> USE PostgresApart, PostgresEventsLead DEF Postgres!CommandReturns, Postgres!Acts, Postgres!To,
          Postgres!outside, Postgres!Fault
  <1>1. Postgres!Types'
    <2>1. {v1', v2', v3'} \subseteq 0..ServerOwners \cup {Postgres!Partial} /\ v7' \in 1..ServerOwners + 1
      BY ServerAssumption DEF Postgres!Inv, Postgres!Types, Postgres!TypeOK
    <2>2. v15' \in 0..ServerFaults
      BY ServerAssumption DEF Postgres!Inv, Postgres!Types, Postgres!TypeOK
    <2>3. v8' \in BOOLEAN /\ v9'.current \in BOOLEAN
      BY DEF Postgres!Inv, Postgres!Types, Postgres!TypeOK, Postgres!Placed
    <2>4. v9' \in [state : {"QUIESCENT", "TRANSITIONING"} \cup Postgres!Placed, current : BOOLEAN]
      BY DEF Postgres!Inv, Postgres!Types, Postgres!TypeOK, Postgres!Placed
    <2>5. /\ v4' \in {"stopped", "running", "ready", "stopping"}
          /\ v5' \subseteq 1..v7' \cup {Postgres!Host} /\ v6' \in 0..v7' \cup {Postgres!Host}
      BY ServerAssumption DEF Postgres!Inv, Postgres!Types, Postgres!TypeOK, Postgres!Nobody
    <2>6. /\ v10' \in {"stopped", "startCommandPending", "startedPendingReady", "ready", "stopping",
                           "startOutcomeUncertain", "processUncertain", "runningObservedUncertain"}
          /\ v12' \in {"idle"} \cup Postgres!Preparing \cup Postgres!Working
      BY DEF Postgres!Inv, Postgres!Types, Postgres!TypeOK, Postgres!Preparing, Postgres!Working
    <2> QED BY <2>1, <2>2, <2>3, <2>4, <2>5, <2>6 DEF Postgres!Types, Postgres!TypeOK
  <1>2. Postgres!Named'
    BY DEF Postgres!Inv, Postgres!Types, Postgres!TypeOK, Postgres!Named, Postgres!SessionOK,
       Postgres!PreparationOK, Postgres!MachineOK, Postgres!HostOK, Postgres!Preparing, Postgres!Working,
       Postgres!Placed, Postgres!Validated, Postgres!Unstarted, Postgres!Controls, Postgres!Nobody,
       Postgres!Nothing
  <1>3. Postgres!SessionOK'
    BY DEF Postgres!Inv, Postgres!Types, Postgres!TypeOK, Postgres!Named, Postgres!SessionOK,
       Postgres!PreparationOK, Postgres!MachineOK, Postgres!HostOK, Postgres!Preparing, Postgres!Working,
       Postgres!Placed, Postgres!Validated, Postgres!Unstarted, Postgres!Controls, Postgres!Nobody,
       Postgres!Nothing
  <1>4. Postgres!PreparationOK'
    BY DEF Postgres!Inv, Postgres!Types, Postgres!TypeOK, Postgres!Named, Postgres!SessionOK,
       Postgres!PreparationOK, Postgres!MachineOK, Postgres!HostOK, Postgres!Preparing, Postgres!Working,
       Postgres!Placed, Postgres!Validated, Postgres!Unstarted, Postgres!Controls, Postgres!Nobody,
       Postgres!Nothing
  <1>5. Postgres!MachineOK'
    BY DEF Postgres!Inv, Postgres!Types, Postgres!TypeOK, Postgres!Named, Postgres!SessionOK,
       Postgres!PreparationOK, Postgres!MachineOK, Postgres!HostOK, Postgres!Preparing, Postgres!Working,
       Postgres!Placed, Postgres!Validated, Postgres!Unstarted, Postgres!Controls, Postgres!Nobody,
       Postgres!Nothing
  <1>6. Postgres!HostOK'
    BY DEF Postgres!Inv, Postgres!Types, Postgres!TypeOK, Postgres!Named, Postgres!SessionOK,
       Postgres!PreparationOK, Postgres!MachineOK, Postgres!HostOK, Postgres!Preparing, Postgres!Working,
       Postgres!Placed, Postgres!Validated, Postgres!Unstarted, Postgres!Controls, Postgres!Nobody,
       Postgres!Nothing
  <1> QED BY <1>1, <1>2, <1>3, <1>4, <1>5, <1>6 DEF Postgres!Inv

(* Whatever is seen of the server, no start is on its way any more.         *)
LEMMA PostgresWaitForPrivatePostgresReadinessKeeps ==
    ASSUME Postgres!Inv, Postgres!waitForPrivatePostgresReadiness
    PROVE  Postgres!Inv'
  <1> USE PostgresEventsLead DEF Postgres!waitForPrivatePostgresReadiness, Postgres!Acts, Postgres!To,
          Postgres!outside, Postgres!Fault
  <1>1. Postgres!Types'
    <2>1. {v1', v2', v3'} \subseteq 0..ServerOwners \cup {Postgres!Partial} /\ v7' \in 1..ServerOwners + 1
      BY ServerAssumption DEF Postgres!Inv, Postgres!Types, Postgres!TypeOK
    <2>2. v15' \in 0..ServerFaults
      BY ServerAssumption DEF Postgres!Inv, Postgres!Types, Postgres!TypeOK
    <2>3. v8' \in BOOLEAN /\ v9'.current \in BOOLEAN
      BY DEF Postgres!Inv, Postgres!Types, Postgres!TypeOK, Postgres!Placed
    <2>4. v9' \in [state : {"QUIESCENT", "TRANSITIONING"} \cup Postgres!Placed, current : BOOLEAN]
      BY DEF Postgres!Inv, Postgres!Types, Postgres!TypeOK, Postgres!Placed
    <2>5. /\ v4' \in {"stopped", "running", "ready", "stopping"}
          /\ v5' \subseteq 1..v7' \cup {Postgres!Host} /\ v6' \in 0..v7' \cup {Postgres!Host}
      BY ServerAssumption DEF Postgres!Inv, Postgres!Types, Postgres!TypeOK, Postgres!Nobody
    <2>6. /\ v10' \in {"stopped", "startCommandPending", "startedPendingReady", "ready", "stopping",
                           "startOutcomeUncertain", "processUncertain", "runningObservedUncertain"}
          /\ v12' \in {"idle"} \cup Postgres!Preparing \cup Postgres!Working
      BY DEF Postgres!Inv, Postgres!Types, Postgres!TypeOK, Postgres!Preparing, Postgres!Working
    <2> QED BY <2>1, <2>2, <2>3, <2>4, <2>5, <2>6 DEF Postgres!Types, Postgres!TypeOK
  <1>2. Postgres!Named'
    BY DEF Postgres!Inv, Postgres!Types, Postgres!TypeOK, Postgres!Named, Postgres!SessionOK,
       Postgres!PreparationOK, Postgres!MachineOK, Postgres!HostOK, Postgres!Preparing, Postgres!Working,
       Postgres!Placed, Postgres!Validated, Postgres!Unstarted, Postgres!Controls, Postgres!Nobody,
       Postgres!Nothing
  <1>3. Postgres!SessionOK'
    BY DEF Postgres!Inv, Postgres!Types, Postgres!TypeOK, Postgres!Named, Postgres!SessionOK,
       Postgres!PreparationOK, Postgres!MachineOK, Postgres!HostOK, Postgres!Preparing, Postgres!Working,
       Postgres!Placed, Postgres!Validated, Postgres!Unstarted, Postgres!Controls, Postgres!Nobody,
       Postgres!Nothing
  <1>4. Postgres!PreparationOK'
    BY DEF Postgres!Inv, Postgres!Types, Postgres!TypeOK, Postgres!Named, Postgres!SessionOK,
       Postgres!PreparationOK, Postgres!MachineOK, Postgres!HostOK, Postgres!Preparing, Postgres!Working,
       Postgres!Placed, Postgres!Validated, Postgres!Unstarted, Postgres!Controls, Postgres!Nobody,
       Postgres!Nothing
  <1>5. Postgres!MachineOK'
    BY DEF Postgres!Inv, Postgres!Types, Postgres!TypeOK, Postgres!Named, Postgres!SessionOK,
       Postgres!PreparationOK, Postgres!MachineOK, Postgres!HostOK, Postgres!Preparing, Postgres!Working,
       Postgres!Placed, Postgres!Validated, Postgres!Unstarted, Postgres!Controls, Postgres!Nobody,
       Postgres!Nothing
  <1>6. Postgres!HostOK'
    BY DEF Postgres!Inv, Postgres!Types, Postgres!TypeOK, Postgres!Named, Postgres!SessionOK,
       Postgres!PreparationOK, Postgres!MachineOK, Postgres!HostOK, Postgres!Preparing, Postgres!Working,
       Postgres!Placed, Postgres!Validated, Postgres!Unstarted, Postgres!Controls, Postgres!Nobody,
       Postgres!Nothing
  <1> QED BY <1>1, <1>2, <1>3, <1>4, <1>5, <1>6 DEF Postgres!Inv

(* The handle is returned, or what was started is stopped.                  *)
LEMMA PostgresReadyReturnedKeeps ==
    ASSUME Postgres!Inv, Postgres!ReadyReturned
    PROVE  Postgres!Inv'
  <1> USE PostgresMarks DEF Postgres!ReadyReturned, Postgres!Acts, Postgres!To, Postgres!Ends,
          Postgres!outside, Postgres!Fault
  <1>1. Postgres!Types'
    <2>1. {v1', v2', v3'} \subseteq 0..ServerOwners \cup {Postgres!Partial} /\ v7' \in 1..ServerOwners + 1
      BY ServerAssumption DEF Postgres!Inv, Postgres!Types, Postgres!TypeOK
    <2>2. v15' \in 0..ServerFaults
      BY ServerAssumption DEF Postgres!Inv, Postgres!Types, Postgres!TypeOK
    <2>3. v8' \in BOOLEAN /\ v9'.current \in BOOLEAN
      BY DEF Postgres!Inv, Postgres!Types, Postgres!TypeOK, Postgres!Placed
    <2>4. v9' \in [state : {"QUIESCENT", "TRANSITIONING"} \cup Postgres!Placed, current : BOOLEAN]
      BY DEF Postgres!Inv, Postgres!Types, Postgres!TypeOK, Postgres!Placed
    <2>5. /\ v4' \in {"stopped", "running", "ready", "stopping"}
          /\ v5' \subseteq 1..v7' \cup {Postgres!Host} /\ v6' \in 0..v7' \cup {Postgres!Host}
      BY ServerAssumption DEF Postgres!Inv, Postgres!Types, Postgres!TypeOK, Postgres!Nobody
    <2>6. /\ v10' \in {"stopped", "startCommandPending", "startedPendingReady", "ready", "stopping",
                           "startOutcomeUncertain", "processUncertain", "runningObservedUncertain"}
          /\ v12' \in {"idle"} \cup Postgres!Preparing \cup Postgres!Working
      BY DEF Postgres!Inv, Postgres!Types, Postgres!TypeOK, Postgres!Preparing, Postgres!Working
    <2> QED BY <2>1, <2>2, <2>3, <2>4, <2>5, <2>6 DEF Postgres!Types, Postgres!TypeOK
  <1>2. Postgres!Named'
    BY DEF Postgres!Inv, Postgres!Types, Postgres!TypeOK, Postgres!Named, Postgres!SessionOK,
       Postgres!PreparationOK, Postgres!MachineOK, Postgres!HostOK, Postgres!Preparing, Postgres!Working,
       Postgres!Placed, Postgres!Validated, Postgres!Unstarted, Postgres!Controls, Postgres!Nobody,
       Postgres!Nothing
  <1>3. Postgres!SessionOK'
    BY DEF Postgres!Inv, Postgres!Types, Postgres!TypeOK, Postgres!Named, Postgres!SessionOK,
       Postgres!PreparationOK, Postgres!MachineOK, Postgres!HostOK, Postgres!Preparing, Postgres!Working,
       Postgres!Placed, Postgres!Validated, Postgres!Unstarted, Postgres!Controls, Postgres!Nobody,
       Postgres!Nothing
  <1>4. Postgres!PreparationOK'
    BY DEF Postgres!Inv, Postgres!Types, Postgres!TypeOK, Postgres!Named, Postgres!SessionOK,
       Postgres!PreparationOK, Postgres!MachineOK, Postgres!HostOK, Postgres!Preparing, Postgres!Working,
       Postgres!Placed, Postgres!Validated, Postgres!Unstarted, Postgres!Controls, Postgres!Nobody,
       Postgres!Nothing
  <1>5. Postgres!MachineOK'
    BY DEF Postgres!Inv, Postgres!Types, Postgres!TypeOK, Postgres!Named, Postgres!SessionOK,
       Postgres!PreparationOK, Postgres!MachineOK, Postgres!HostOK, Postgres!Preparing, Postgres!Working,
       Postgres!Placed, Postgres!Validated, Postgres!Unstarted, Postgres!Controls, Postgres!Nobody,
       Postgres!Nothing
  <1>6. Postgres!HostOK'
    BY DEF Postgres!Inv, Postgres!Types, Postgres!TypeOK, Postgres!Named, Postgres!SessionOK,
       Postgres!PreparationOK, Postgres!MachineOK, Postgres!HostOK, Postgres!Preparing, Postgres!Working,
       Postgres!Placed, Postgres!Validated, Postgres!Unstarted, Postgres!Controls, Postgres!Nobody,
       Postgres!Nothing
  <1> QED BY <1>1, <1>2, <1>3, <1>4, <1>5, <1>6 DEF Postgres!Inv

(* A stop is of what this bootstrap started.                                *)
LEMMA PostgresStopKeeps ==
    ASSUME Postgres!Inv, Postgres!stop
    PROVE  Postgres!Inv'
  <1> USE PostgresMarks DEF Postgres!stop, Postgres!Acts, Postgres!To, Postgres!outside,
          Postgres!assertCurrent, Postgres!assertSessionState
  <1>0. /\ v9.state \in {"READY", "UNCERTAIN"} /\ v9'.state = "TRANSITIONING"
        /\ v9'.current /\ v12' = "before"
        /\ UNCHANGED <<v5, v4, v6, v7, v11, v1, v2, v3>>
    BY DEF Postgres!Inv, Postgres!SessionOK
  <1>1. Postgres!Types'
    BY DEF Postgres!Inv, Postgres!Types, Postgres!TypeOK, Postgres!SessionOK, Postgres!Placed,
       Postgres!Preparing, Postgres!Working
  <1>2. Postgres!Named'
    BY DEF Postgres!Inv, Postgres!Types, Postgres!TypeOK, Postgres!Named, Postgres!SessionOK,
       Postgres!PreparationOK, Postgres!MachineOK, Postgres!HostOK, Postgres!Preparing, Postgres!Working,
       Postgres!Placed, Postgres!Validated, Postgres!Unstarted, Postgres!Controls, Postgres!Nobody,
       Postgres!Nothing
  <1>3. Postgres!SessionOK'
    <2>1. /\ v12' = "idle" <=> v9'.state # "TRANSITIONING"
          /\ v9'.state \in {"TRANSITIONING", "READY", "UNCERTAIN"} => v9'.current
          /\ v9'.state \in {"HANDED_OFF", "YIELDED_TO_EXISTING_HOST"} =>
               ~v9'.current /\ v5' \subseteq {Postgres!Host}
      BY <1>0 DEF Postgres!Inv, Postgres!SessionOK
    <2>2. v9'.state = "QUIESCENT" => Postgres!Unstarted'
      BY <1>0 DEF Postgres!Inv, Postgres!MachineOK, Postgres!Unstarted, Postgres!SessionOK
    <2>3. v9'.state = "READY" => v5' = {}
      BY <1>0
    <2>4. v9'.state \in Postgres!Placed \/ v12' \in Postgres!Working \cup {"status"}
          \/ v11' # "NONE" => Postgres!Validated'
      BY <1>0 DEF Postgres!Inv, Postgres!SessionOK, Postgres!Validated, Postgres!Working, Postgres!Placed
    <2> QED BY <2>1, <2>2, <2>3, <2>4 DEF Postgres!SessionOK
  <1>4. Postgres!PreparationOK'
    BY DEF Postgres!Inv, Postgres!Types, Postgres!TypeOK, Postgres!Named, Postgres!SessionOK,
       Postgres!PreparationOK, Postgres!MachineOK, Postgres!HostOK, Postgres!Preparing, Postgres!Working,
       Postgres!Placed, Postgres!Validated, Postgres!Unstarted, Postgres!Controls, Postgres!Nobody,
       Postgres!Nothing
  <1>5. Postgres!MachineOK'
    BY DEF Postgres!Inv, Postgres!Types, Postgres!TypeOK, Postgres!Named, Postgres!SessionOK,
       Postgres!PreparationOK, Postgres!MachineOK, Postgres!HostOK, Postgres!Preparing, Postgres!Working,
       Postgres!Placed, Postgres!Validated, Postgres!Unstarted, Postgres!Controls, Postgres!Nobody,
       Postgres!Nothing
  <1>6. Postgres!HostOK'
    BY DEF Postgres!Inv, Postgres!Types, Postgres!TypeOK, Postgres!Named, Postgres!SessionOK,
       Postgres!PreparationOK, Postgres!MachineOK, Postgres!HostOK, Postgres!Preparing, Postgres!Working,
       Postgres!Placed, Postgres!Validated, Postgres!Unstarted, Postgres!Controls, Postgres!Nobody,
       Postgres!Nothing
  <1> QED BY <1>1, <1>2, <1>3, <1>4, <1>5, <1>6 DEF Postgres!Inv

(* A restart is the one start on its way.                                   *)
LEMMA PostgresRestartKeeps ==
    ASSUME Postgres!Inv, Postgres!restart
    PROVE  Postgres!Inv'
  <1> USE PostgresMarks, PostgresApart, PostgresEventsLead DEF Postgres!restart, Postgres!Acts,
          Postgres!To, Postgres!outside, Postgres!assertCurrent, Postgres!assertSessionState,
          Postgres!startProcess, Postgres!readPrivatePostgresProcessStatus
  <1>0. /\ v9.current /\ v9'.current /\ v9.state \in {"QUIESCENT", "READY"} /\ v12 = "idle"
        /\ \/ v9'.state = "TRANSITIONING" /\ v12' \in {"started", "failed"}
           \/ v9'.state = "UNCERTAIN" /\ v12' = "idle"
        /\ UNCHANGED <<v7, v11, v1, v2, v3>>
        /\ v11 # "NONE"
    <2>1. v9.current /\ v9.state \in {"QUIESCENT", "READY"} /\ v12 = "idle"
      BY DEF Postgres!Inv, Postgres!SessionOK
    <2>2. v9'.current = v9.current
      BY DEF Postgres!Inv, Postgres!Types, Postgres!Placed
    <2>3. \/ v9'.state = "TRANSITIONING" /\ v12' \in {"started", "failed"}
          \/ v9'.state = "UNCERTAIN" /\ v12' = "idle"
      BY <2>1 DEF Postgres!Inv, Postgres!Placed
    <2>4. UNCHANGED <<v7, v11, v1, v2, v3>> /\ v11 # "NONE"
      BY DEF Postgres!Controls
    <2> QED BY <2>1, <2>2, <2>3, <2>4
  <1>1. Postgres!Types'
    <2>1. {v1', v2', v3'} \subseteq 0..ServerOwners \cup {Postgres!Partial} /\ v7' \in 1..ServerOwners + 1
      BY ServerAssumption DEF Postgres!Inv, Postgres!Types, Postgres!TypeOK
    <2>2. v15' \in 0..ServerFaults
      BY ServerAssumption DEF Postgres!Inv, Postgres!Types, Postgres!TypeOK, Postgres!Fault
    <2>3. v8' \in BOOLEAN /\ v9'.current \in BOOLEAN
      BY DEF Postgres!Inv, Postgres!Types, Postgres!TypeOK, Postgres!Placed
    <2>4. v9' \in [state : {"QUIESCENT", "TRANSITIONING"} \cup Postgres!Placed, current : BOOLEAN]
      BY DEF Postgres!Inv, Postgres!Types, Postgres!TypeOK, Postgres!Placed
    <2>5. /\ v4' \in {"stopped", "running", "ready", "stopping"}
          /\ v5' \subseteq 1..v7' \cup {Postgres!Host} /\ v6' \in 0..v7' \cup {Postgres!Host}
      <3>1. /\ v7' \in {v7, v7 + 1} /\ v5' \subseteq v5 \cup {v7}
            /\ v6' \in v5 \cup {v6, Postgres!Nobody}
        OBVIOUS
      <3>2. v4' \in {"stopped", "running", "ready", "stopping"}
        BY DEF Postgres!Inv, Postgres!Types
      <3> QED BY <3>1, <3>2, PostgresOwnersStay DEF Postgres!Inv
    <2>6. /\ v10' \in {"stopped", "startCommandPending", "startedPendingReady", "ready", "stopping",
                           "startOutcomeUncertain", "processUncertain", "runningObservedUncertain"}
          /\ v12' \in {"idle"} \cup Postgres!Preparing \cup Postgres!Working
      BY DEF Postgres!Inv, Postgres!Types, Postgres!TypeOK, Postgres!Preparing, Postgres!Working
    <2> QED BY <2>1, <2>2, <2>3, <2>4, <2>5, <2>6 DEF Postgres!Types, Postgres!TypeOK
  <1>2. Postgres!Named'
    BY DEF Postgres!Inv, Postgres!Types, Postgres!TypeOK, Postgres!Named, Postgres!SessionOK,
       Postgres!PreparationOK, Postgres!MachineOK, Postgres!HostOK, Postgres!Preparing, Postgres!Working,
       Postgres!Placed, Postgres!Validated, Postgres!Unstarted, Postgres!Controls, Postgres!Nobody,
       Postgres!Nothing
  <1>3. Postgres!SessionOK'
    <2>1. /\ v12' = "idle" <=> v9'.state # "TRANSITIONING"
          /\ v9'.state \in {"TRANSITIONING", "READY", "UNCERTAIN"} => v9'.current
          /\ v9'.state \in {"HANDED_OFF", "YIELDED_TO_EXISTING_HOST"} =>
               ~v9'.current /\ v5' \subseteq {Postgres!Host}
      BY <1>0 DEF Postgres!Inv, Postgres!SessionOK
    <2>2. v9'.state = "QUIESCENT" => Postgres!Unstarted'
      BY <1>0 DEF Postgres!Inv, Postgres!MachineOK, Postgres!Unstarted, Postgres!SessionOK
    <2>3. v9'.state = "READY" => v5' = {}
      BY <1>0
    <2>4. v9'.state \in Postgres!Placed \/ v12' \in Postgres!Working \cup {"status"}
          \/ v11' # "NONE" => Postgres!Validated'
      BY <1>0 DEF Postgres!Inv, Postgres!SessionOK, Postgres!Validated, Postgres!Working, Postgres!Placed
    <2> QED BY <2>1, <2>2, <2>3, <2>4 DEF Postgres!SessionOK
  <1>4. Postgres!PreparationOK'
    BY DEF Postgres!Inv, Postgres!Types, Postgres!TypeOK, Postgres!Named, Postgres!SessionOK,
       Postgres!PreparationOK, Postgres!MachineOK, Postgres!HostOK, Postgres!Preparing, Postgres!Working,
       Postgres!Placed, Postgres!Validated, Postgres!Unstarted, Postgres!Controls, Postgres!Nobody,
       Postgres!Nothing
  <1>5. Postgres!MachineOK'
    BY DEF Postgres!Inv, Postgres!Types, Postgres!TypeOK, Postgres!Named, Postgres!SessionOK,
       Postgres!PreparationOK, Postgres!MachineOK, Postgres!HostOK, Postgres!Preparing, Postgres!Working,
       Postgres!Placed, Postgres!Validated, Postgres!Unstarted, Postgres!Controls, Postgres!Nobody,
       Postgres!Nothing
  <1>6. Postgres!HostOK'
    BY DEF Postgres!Inv, Postgres!Types, Postgres!TypeOK, Postgres!Named, Postgres!SessionOK,
       Postgres!PreparationOK, Postgres!MachineOK, Postgres!HostOK, Postgres!Preparing, Postgres!Working,
       Postgres!Placed, Postgres!Validated, Postgres!Unstarted, Postgres!Controls, Postgres!Nobody,
       Postgres!Nothing
  <1> QED BY <1>1, <1>2, <1>3, <1>4, <1>5, <1>6 DEF Postgres!Inv

(* A restart that failed leaves the handle for its stop.                    *)
LEMMA PostgresRestartFailsKeeps ==
    ASSUME Postgres!Inv, Postgres!restartFails
    PROVE  Postgres!Inv'
  <1> USE PostgresMarks DEF Postgres!restartFails, Postgres!Acts, Postgres!Ends, Postgres!outside
  <1>1. Postgres!Types'
    BY DEF Postgres!Inv, Postgres!Types, Postgres!TypeOK, Postgres!SessionOK, Postgres!Placed,
       Postgres!Preparing, Postgres!Working
  <1>2. Postgres!Named'
    BY DEF Postgres!Inv, Postgres!Types, Postgres!TypeOK, Postgres!Named, Postgres!SessionOK,
       Postgres!PreparationOK, Postgres!MachineOK, Postgres!HostOK, Postgres!Preparing, Postgres!Working,
       Postgres!Placed, Postgres!Validated, Postgres!Unstarted, Postgres!Controls, Postgres!Nobody,
       Postgres!Nothing
  <1>3. Postgres!SessionOK'
    BY DEF Postgres!Inv, Postgres!Types, Postgres!TypeOK, Postgres!Named, Postgres!SessionOK,
       Postgres!PreparationOK, Postgres!MachineOK, Postgres!HostOK, Postgres!Preparing, Postgres!Working,
       Postgres!Placed, Postgres!Validated, Postgres!Unstarted, Postgres!Controls, Postgres!Nobody,
       Postgres!Nothing
  <1>4. Postgres!PreparationOK'
    BY DEF Postgres!Inv, Postgres!Types, Postgres!TypeOK, Postgres!Named, Postgres!SessionOK,
       Postgres!PreparationOK, Postgres!MachineOK, Postgres!HostOK, Postgres!Preparing, Postgres!Working,
       Postgres!Placed, Postgres!Validated, Postgres!Unstarted, Postgres!Controls, Postgres!Nobody,
       Postgres!Nothing
  <1>5. Postgres!MachineOK'
    BY DEF Postgres!Inv, Postgres!Types, Postgres!TypeOK, Postgres!Named, Postgres!SessionOK,
       Postgres!PreparationOK, Postgres!MachineOK, Postgres!HostOK, Postgres!Preparing, Postgres!Working,
       Postgres!Placed, Postgres!Validated, Postgres!Unstarted, Postgres!Controls, Postgres!Nobody,
       Postgres!Nothing
  <1>6. Postgres!HostOK'
    BY DEF Postgres!Inv, Postgres!Types, Postgres!TypeOK, Postgres!Named, Postgres!SessionOK,
       Postgres!PreparationOK, Postgres!MachineOK, Postgres!HostOK, Postgres!Preparing, Postgres!Working,
       Postgres!Placed, Postgres!Validated, Postgres!Unstarted, Postgres!Controls, Postgres!Nobody,
       Postgres!Nothing
  <1> QED BY <1>1, <1>2, <1>3, <1>4, <1>5, <1>6 DEF Postgres!Inv

(* What the first status proves is so.                                      *)
LEMMA PostgresStopBeforeKeeps ==
    ASSUME Postgres!Inv, Postgres!StopBefore
    PROVE  Postgres!Inv'
  <1> USE PostgresMarks, PostgresApart, PostgresEventsLead, PostgresStoppable DEF Postgres!StopBefore,
          Postgres!Acts, Postgres!To, Postgres!Ends, Postgres!outside, Postgres!Proven,
          Postgres!stopUncertain, Postgres!readPrivatePostgresProcessStatus, Postgres!Fault
  <1>0. /\ v9.state = "TRANSITIONING" /\ v12 = "before" /\ v9.current /\ v9'.current
        /\ \/ v9'.state = "TRANSITIONING" /\ v12' = "command"
           \/ v9'.state = "UNCERTAIN" /\ v12' = "idle"
           \/ /\ v9'.state = "QUIESCENT" /\ v12' = "idle" /\ v4 = "stopped"
              /\ v10 \in {"stopping", "processUncertain", "ready"}
        /\ UNCHANGED <<v5, v4, v6, v7, v11, v1, v2, v3>>
    <2>1. v9.state = "TRANSITIONING" /\ v12 = "before" /\ v9.current
      BY DEF Postgres!Inv, Postgres!SessionOK
    <2>2. v9'.current = v9.current
      BY <2>1 DEF Postgres!Inv, Postgres!Types, Postgres!Placed
    <2>3. \/ v9' = v9 /\ v12' = "command"
          \/ Postgres!mark("UNCERTAIN") /\ v12' = "idle"
          \/ /\ Postgres!mark("QUIESCENT") /\ v12' = "idle" /\ v4 = "stopped"
             /\ Postgres!send("STATUS_STOPPED_PROVEN") \/ Postgres!can("UNEXPECTED_PROCESS_EXIT")
      OBVIOUS
    <2> QED BY <2>1, <2>2, <2>3 DEF Postgres!Inv, Postgres!Placed
  <1>1. Postgres!Types'
    <2>1. {v1', v2', v3'} \subseteq 0..ServerOwners \cup {Postgres!Partial} /\ v7' \in 1..ServerOwners + 1
      BY ServerAssumption DEF Postgres!Inv, Postgres!Types, Postgres!TypeOK
    <2>2. v15' \in 0..ServerFaults
      <3>1. v15' = v15 \/ (v15 < ServerFaults /\ v15' = v15 + 1)
        BY Zenon
      <3> QED BY <3>1, PostgresFaultsStay, Zenon DEF Postgres!Inv
    <2>3. v8' \in BOOLEAN /\ v9'.current \in BOOLEAN
      BY DEF Postgres!Inv, Postgres!Types, Postgres!TypeOK, Postgres!Placed
    <2>4. v9' \in [state : {"QUIESCENT", "TRANSITIONING"} \cup Postgres!Placed, current : BOOLEAN]
      BY DEF Postgres!Inv, Postgres!Types, Postgres!TypeOK, Postgres!Placed
    <2>5. /\ v4' \in {"stopped", "running", "ready", "stopping"}
          /\ v5' \subseteq 1..v7' \cup {Postgres!Host} /\ v6' \in 0..v7' \cup {Postgres!Host}
      <3>1. /\ v7' \in {v7, v7 + 1} /\ v5' \subseteq v5 \cup {v7}
            /\ v6' \in v5 \cup {v6, Postgres!Nobody}
        OBVIOUS
      <3>2. v4' \in {"stopped", "running", "ready", "stopping"}
        BY DEF Postgres!Inv, Postgres!Types
      <3> QED BY <3>1, <3>2, PostgresOwnersStay DEF Postgres!Inv
    <2>6. /\ v10' \in {"stopped", "startCommandPending", "startedPendingReady", "ready", "stopping",
                           "startOutcomeUncertain", "processUncertain", "runningObservedUncertain"}
          /\ v12' \in {"idle"} \cup Postgres!Preparing \cup Postgres!Working
      BY DEF Postgres!Inv, Postgres!Types, Postgres!TypeOK, Postgres!Preparing, Postgres!Working
    <2> QED BY <2>1, <2>2, <2>3, <2>4, <2>5, <2>6 DEF Postgres!Types, Postgres!TypeOK
  <1>2. Postgres!Named'
    BY DEF Postgres!Inv, Postgres!Types, Postgres!TypeOK, Postgres!Named, Postgres!SessionOK,
       Postgres!PreparationOK, Postgres!MachineOK, Postgres!HostOK, Postgres!Preparing, Postgres!Working,
       Postgres!Placed, Postgres!Validated, Postgres!Unstarted, Postgres!Controls, Postgres!Nobody,
       Postgres!Nothing
  <1>3. Postgres!SessionOK'
    <2>1. /\ v12' = "idle" <=> v9'.state # "TRANSITIONING"
          /\ v9'.state \in {"TRANSITIONING", "READY", "UNCERTAIN"} => v9'.current
          /\ v9'.state \in {"HANDED_OFF", "YIELDED_TO_EXISTING_HOST"} =>
               ~v9'.current /\ v5' \subseteq {Postgres!Host}
      BY <1>0 DEF Postgres!Inv, Postgres!SessionOK
    <2>2. v9'.state = "QUIESCENT" => Postgres!Unstarted'
      BY <1>0 DEF Postgres!Inv, Postgres!MachineOK, Postgres!Unstarted, Postgres!SessionOK
    <2>3. v9'.state = "READY" => v5' = {}
      BY <1>0
    <2>4. v9'.state \in Postgres!Placed \/ v12' \in Postgres!Working \cup {"status"}
          \/ v11' # "NONE" => Postgres!Validated'
      BY <1>0 DEF Postgres!Inv, Postgres!SessionOK, Postgres!Validated, Postgres!Working, Postgres!Placed
    <2> QED BY <2>1, <2>2, <2>3, <2>4 DEF Postgres!SessionOK
  <1>4. Postgres!PreparationOK'
    BY DEF Postgres!Inv, Postgres!Types, Postgres!TypeOK, Postgres!Named, Postgres!SessionOK,
       Postgres!PreparationOK, Postgres!MachineOK, Postgres!HostOK, Postgres!Preparing, Postgres!Working,
       Postgres!Placed, Postgres!Validated, Postgres!Unstarted, Postgres!Controls, Postgres!Nobody,
       Postgres!Nothing
  <1>5. Postgres!MachineOK'
    BY DEF Postgres!Inv, Postgres!Types, Postgres!TypeOK, Postgres!Named, Postgres!SessionOK,
       Postgres!PreparationOK, Postgres!MachineOK, Postgres!HostOK, Postgres!Preparing, Postgres!Working,
       Postgres!Placed, Postgres!Validated, Postgres!Unstarted, Postgres!Controls, Postgres!Nobody,
       Postgres!Nothing
  <1>6. Postgres!HostOK'
    BY DEF Postgres!Inv, Postgres!Types, Postgres!TypeOK, Postgres!Named, Postgres!SessionOK,
       Postgres!PreparationOK, Postgres!MachineOK, Postgres!HostOK, Postgres!Preparing, Postgres!Working,
       Postgres!Placed, Postgres!Validated, Postgres!Unstarted, Postgres!Controls, Postgres!Nobody,
       Postgres!Nothing
  <1> QED BY <1>1, <1>2, <1>3, <1>4, <1>5, <1>6 DEF Postgres!Inv

(* What is stopped is what was started here.                                *)
LEMMA PostgresStopProcessKeeps ==
    ASSUME Postgres!Inv, Postgres!stopProcess
    PROVE  Postgres!Inv'
  <1> USE PostgresEventsLead DEF Postgres!stopProcess, Postgres!Acts, Postgres!To, Postgres!Fault
  <1>1. Postgres!Types'
    <2>1. {v1', v2', v3'} \subseteq 0..ServerOwners \cup {Postgres!Partial} /\ v7' \in 1..ServerOwners + 1
      BY ServerAssumption DEF Postgres!Inv, Postgres!Types, Postgres!TypeOK
    <2>2. v15' \in 0..ServerFaults
      BY ServerAssumption DEF Postgres!Inv, Postgres!Types, Postgres!TypeOK
    <2>3. v8' \in BOOLEAN /\ v9'.current \in BOOLEAN
      BY DEF Postgres!Inv, Postgres!Types, Postgres!TypeOK, Postgres!Placed
    <2>4. v9' \in [state : {"QUIESCENT", "TRANSITIONING"} \cup Postgres!Placed, current : BOOLEAN]
      BY DEF Postgres!Inv, Postgres!Types, Postgres!TypeOK, Postgres!Placed
    <2>5. /\ v4' \in {"stopped", "running", "ready", "stopping"}
          /\ v5' \subseteq 1..v7' \cup {Postgres!Host} /\ v6' \in 0..v7' \cup {Postgres!Host}
      BY ServerAssumption DEF Postgres!Inv, Postgres!Types, Postgres!TypeOK, Postgres!Nobody
    <2>6. /\ v10' \in {"stopped", "startCommandPending", "startedPendingReady", "ready", "stopping",
                           "startOutcomeUncertain", "processUncertain", "runningObservedUncertain"}
          /\ v12' \in {"idle"} \cup Postgres!Preparing \cup Postgres!Working
      BY DEF Postgres!Inv, Postgres!Types, Postgres!TypeOK, Postgres!Preparing, Postgres!Working
    <2> QED BY <2>1, <2>2, <2>3, <2>4, <2>5, <2>6 DEF Postgres!Types, Postgres!TypeOK
  <1>2. Postgres!Named'
    BY DEF Postgres!Inv, Postgres!Types, Postgres!TypeOK, Postgres!Named, Postgres!SessionOK,
       Postgres!PreparationOK, Postgres!MachineOK, Postgres!HostOK, Postgres!Preparing, Postgres!Working,
       Postgres!Placed, Postgres!Validated, Postgres!Unstarted, Postgres!Controls, Postgres!Nobody,
       Postgres!Nothing
  <1>3. Postgres!SessionOK'
    BY DEF Postgres!Inv, Postgres!Types, Postgres!TypeOK, Postgres!Named, Postgres!SessionOK,
       Postgres!PreparationOK, Postgres!MachineOK, Postgres!HostOK, Postgres!Preparing, Postgres!Working,
       Postgres!Placed, Postgres!Validated, Postgres!Unstarted, Postgres!Controls, Postgres!Nobody,
       Postgres!Nothing
  <1>4. Postgres!PreparationOK'
    BY DEF Postgres!Inv, Postgres!Types, Postgres!TypeOK, Postgres!Named, Postgres!SessionOK,
       Postgres!PreparationOK, Postgres!MachineOK, Postgres!HostOK, Postgres!Preparing, Postgres!Working,
       Postgres!Placed, Postgres!Validated, Postgres!Unstarted, Postgres!Controls, Postgres!Nobody,
       Postgres!Nothing
  <1>5. Postgres!MachineOK'
    BY DEF Postgres!Inv, Postgres!Types, Postgres!TypeOK, Postgres!Named, Postgres!SessionOK,
       Postgres!PreparationOK, Postgres!MachineOK, Postgres!HostOK, Postgres!Preparing, Postgres!Working,
       Postgres!Placed, Postgres!Validated, Postgres!Unstarted, Postgres!Controls, Postgres!Nobody,
       Postgres!Nothing
  <1>6. Postgres!HostOK'
    BY DEF Postgres!Inv, Postgres!Types, Postgres!TypeOK, Postgres!Named, Postgres!SessionOK,
       Postgres!PreparationOK, Postgres!MachineOK, Postgres!HostOK, Postgres!Preparing, Postgres!Working,
       Postgres!Placed, Postgres!Validated, Postgres!Unstarted, Postgres!Controls, Postgres!Nobody,
       Postgres!Nothing
  <1> QED BY <1>1, <1>2, <1>3, <1>4, <1>5, <1>6 DEF Postgres!Inv

(* What the second status proves is so.                                     *)
LEMMA PostgresStopAfterKeeps ==
    ASSUME Postgres!Inv, Postgres!StopAfter
    PROVE  Postgres!Inv'
  <1> USE PostgresMarks, PostgresApart, PostgresEventsLead DEF Postgres!StopAfter, Postgres!Acts,
          Postgres!Ends, Postgres!outside, Postgres!Proven, Postgres!stopUncertain,
          Postgres!readPrivatePostgresProcessStatus, Postgres!Fault
  <1>1. Postgres!Types'
    <2>1. {v1', v2', v3'} \subseteq 0..ServerOwners \cup {Postgres!Partial} /\ v7' \in 1..ServerOwners + 1
      BY ServerAssumption DEF Postgres!Inv, Postgres!Types, Postgres!TypeOK
    <2>2. v15' \in 0..ServerFaults
      BY ServerAssumption DEF Postgres!Inv, Postgres!Types, Postgres!TypeOK
    <2>3. v8' \in BOOLEAN /\ v9'.current \in BOOLEAN
      BY DEF Postgres!Inv, Postgres!Types, Postgres!TypeOK, Postgres!Placed
    <2>4. v9' \in [state : {"QUIESCENT", "TRANSITIONING"} \cup Postgres!Placed, current : BOOLEAN]
      BY DEF Postgres!Inv, Postgres!Types, Postgres!TypeOK, Postgres!Placed
    <2>5. /\ v4' \in {"stopped", "running", "ready", "stopping"}
          /\ v5' \subseteq 1..v7' \cup {Postgres!Host} /\ v6' \in 0..v7' \cup {Postgres!Host}
      BY ServerAssumption DEF Postgres!Inv, Postgres!Types, Postgres!TypeOK, Postgres!Nobody
    <2>6. /\ v10' \in {"stopped", "startCommandPending", "startedPendingReady", "ready", "stopping",
                           "startOutcomeUncertain", "processUncertain", "runningObservedUncertain"}
          /\ v12' \in {"idle"} \cup Postgres!Preparing \cup Postgres!Working
      BY DEF Postgres!Inv, Postgres!Types, Postgres!TypeOK, Postgres!Preparing, Postgres!Working
    <2> QED BY <2>1, <2>2, <2>3, <2>4, <2>5, <2>6 DEF Postgres!Types, Postgres!TypeOK
  <1>2. Postgres!Named'
    BY DEF Postgres!Inv, Postgres!Types, Postgres!TypeOK, Postgres!Named, Postgres!SessionOK,
       Postgres!PreparationOK, Postgres!MachineOK, Postgres!HostOK, Postgres!Preparing, Postgres!Working,
       Postgres!Placed, Postgres!Validated, Postgres!Unstarted, Postgres!Controls, Postgres!Nobody,
       Postgres!Nothing
  <1>3. Postgres!SessionOK'
    BY DEF Postgres!Inv, Postgres!Types, Postgres!TypeOK, Postgres!Named, Postgres!SessionOK,
       Postgres!PreparationOK, Postgres!MachineOK, Postgres!HostOK, Postgres!Preparing, Postgres!Working,
       Postgres!Placed, Postgres!Validated, Postgres!Unstarted, Postgres!Controls, Postgres!Nobody,
       Postgres!Nothing
  <1>4. Postgres!PreparationOK'
    BY DEF Postgres!Inv, Postgres!Types, Postgres!TypeOK, Postgres!Named, Postgres!SessionOK,
       Postgres!PreparationOK, Postgres!MachineOK, Postgres!HostOK, Postgres!Preparing, Postgres!Working,
       Postgres!Placed, Postgres!Validated, Postgres!Unstarted, Postgres!Controls, Postgres!Nobody,
       Postgres!Nothing
  <1>5. Postgres!MachineOK'
    BY DEF Postgres!Inv, Postgres!Types, Postgres!TypeOK, Postgres!Named, Postgres!SessionOK,
       Postgres!PreparationOK, Postgres!MachineOK, Postgres!HostOK, Postgres!Preparing, Postgres!Working,
       Postgres!Placed, Postgres!Validated, Postgres!Unstarted, Postgres!Controls, Postgres!Nobody,
       Postgres!Nothing
  <1>6. Postgres!HostOK'
    BY DEF Postgres!Inv, Postgres!Types, Postgres!TypeOK, Postgres!Named, Postgres!SessionOK,
       Postgres!PreparationOK, Postgres!MachineOK, Postgres!HostOK, Postgres!Preparing, Postgres!Working,
       Postgres!Placed, Postgres!Validated, Postgres!Unstarted, Postgres!Controls, Postgres!Nobody,
       Postgres!Nothing
  <1> QED BY <1>1, <1>2, <1>3, <1>4, <1>5, <1>6 DEF Postgres!Inv

(* Who takes over finds no start on its way.                                *)
LEMMA PostgresMarkHandedOffKeeps ==
    ASSUME Postgres!Inv, Postgres!markHandedOff
    PROVE  Postgres!Inv'
  <1> USE PostgresApart DEF Postgres!markHandedOff, Postgres!Acts, Postgres!assertCurrent,
          Postgres!assertSessionState
  <1>0. /\ v9' \in [state : {"QUIESCENT", "TRANSITIONING"} \cup Postgres!Placed, current : BOOLEAN]
        /\ v9'.current = FALSE /\ v9'.state \in {"HANDED_OFF", "YIELDED_TO_EXISTING_HOST"}
    <2>1. PICK s \in {"HANDED_OFF", "YIELDED_TO_EXISTING_HOST"} : v9' = [state |-> s, current |-> FALSE]
      OBVIOUS
    <2> QED BY <2>1 DEF Postgres!Placed
  <1>1. Postgres!Types'
    <2>1. {v1', v2', v3'} \subseteq 0..ServerOwners \cup {Postgres!Partial} /\ v7' \in 1..ServerOwners + 1
      BY ServerAssumption DEF Postgres!Inv, Postgres!Types, Postgres!TypeOK
    <2>2. v15' \in 0..ServerFaults
      BY ServerAssumption DEF Postgres!Inv, Postgres!Types, Postgres!TypeOK
    <2>3. v8' \in BOOLEAN /\ v9'.current \in BOOLEAN
      BY <1>0, Zenon DEF Postgres!Inv, Postgres!Types, Postgres!TypeOK, Postgres!Placed
    <2>4. v9' \in [state : {"QUIESCENT", "TRANSITIONING"} \cup Postgres!Placed, current : BOOLEAN]
      BY <1>0
    <2>5. /\ v4' \in {"stopped", "running", "ready", "stopping"}
          /\ v5' \subseteq 1..v7' \cup {Postgres!Host} /\ v6' \in 0..v7' \cup {Postgres!Host}
      BY ServerAssumption DEF Postgres!Inv, Postgres!Types, Postgres!TypeOK, Postgres!Nobody
    <2>6. /\ v10' \in {"stopped", "startCommandPending", "startedPendingReady", "ready", "stopping",
                           "startOutcomeUncertain", "processUncertain", "runningObservedUncertain"}
          /\ v12' \in {"idle"} \cup Postgres!Preparing \cup Postgres!Working
      BY DEF Postgres!Inv, Postgres!Types, Postgres!TypeOK, Postgres!Preparing, Postgres!Working
    <2> QED BY <2>1, <2>2, <2>3, <2>4, <2>5, <2>6 DEF Postgres!Types, Postgres!TypeOK
  <1>2. Postgres!Named'
    BY DEF Postgres!Inv, Postgres!Types, Postgres!TypeOK, Postgres!Named, Postgres!SessionOK,
       Postgres!PreparationOK, Postgres!MachineOK, Postgres!HostOK, Postgres!Preparing, Postgres!Working,
       Postgres!Placed, Postgres!Validated, Postgres!Unstarted, Postgres!Controls, Postgres!Nobody,
       Postgres!Nothing
  <1>3. Postgres!SessionOK'
    BY DEF Postgres!Inv, Postgres!Types, Postgres!TypeOK, Postgres!Named, Postgres!SessionOK,
       Postgres!PreparationOK, Postgres!MachineOK, Postgres!HostOK, Postgres!Preparing, Postgres!Working,
       Postgres!Placed, Postgres!Validated, Postgres!Unstarted, Postgres!Controls, Postgres!Nobody,
       Postgres!Nothing
  <1>4. Postgres!PreparationOK'
    BY DEF Postgres!Inv, Postgres!Types, Postgres!TypeOK, Postgres!Named, Postgres!SessionOK,
       Postgres!PreparationOK, Postgres!MachineOK, Postgres!HostOK, Postgres!Preparing, Postgres!Working,
       Postgres!Placed, Postgres!Validated, Postgres!Unstarted, Postgres!Controls, Postgres!Nobody,
       Postgres!Nothing
  <1>5. Postgres!MachineOK'
    BY DEF Postgres!Inv, Postgres!Types, Postgres!TypeOK, Postgres!Named, Postgres!SessionOK,
       Postgres!PreparationOK, Postgres!MachineOK, Postgres!HostOK, Postgres!Preparing, Postgres!Working,
       Postgres!Placed, Postgres!Validated, Postgres!Unstarted, Postgres!Controls, Postgres!Nobody,
       Postgres!Nothing
  <1>6. Postgres!HostOK'
    BY DEF Postgres!Inv, Postgres!Types, Postgres!TypeOK, Postgres!Named, Postgres!SessionOK,
       Postgres!PreparationOK, Postgres!MachineOK, Postgres!HostOK, Postgres!Preparing, Postgres!Working,
       Postgres!Placed, Postgres!Validated, Postgres!Unstarted, Postgres!Controls, Postgres!Nobody,
       Postgres!Nothing
  <1> QED BY <1>1, <1>2, <1>3, <1>4, <1>5, <1>6 DEF Postgres!Inv

(* Who comes next finds nothing of the one before.                          *)
LEMMA PostgresCloseKeeps ==
    ASSUME Postgres!Inv, Postgres!close
    PROVE  Postgres!Inv'
  <1> USE PostgresApart DEF Postgres!close, Postgres!Acts, Postgres!Fresh, Postgres!outside,
          Postgres!assertReleaseAllowed, Postgres!assertSessionState
  <1>1. Postgres!Types'
    <2>1. {v1', v2', v3'} \subseteq 0..ServerOwners \cup {Postgres!Partial} /\ v7' \in 1..ServerOwners + 1
      BY ServerAssumption DEF Postgres!Inv, Postgres!Types, Postgres!TypeOK
    <2>2. v15' \in 0..ServerFaults
      BY ServerAssumption DEF Postgres!Inv, Postgres!Types, Postgres!TypeOK
    <2>3. v8' \in BOOLEAN /\ v9'.current \in BOOLEAN
      BY DEF Postgres!Inv, Postgres!Types, Postgres!TypeOK, Postgres!Placed
    <2>4. v9' \in [state : {"QUIESCENT", "TRANSITIONING"} \cup Postgres!Placed, current : BOOLEAN]
      BY DEF Postgres!Inv, Postgres!Types, Postgres!TypeOK, Postgres!Placed
    <2>5. /\ v4' \in {"stopped", "running", "ready", "stopping"}
          /\ v5' \subseteq 1..v7' \cup {Postgres!Host} /\ v6' \in 0..v7' \cup {Postgres!Host}
      BY ServerAssumption DEF Postgres!Inv, Postgres!Types, Postgres!TypeOK, Postgres!Nobody
    <2>6. /\ v10' \in {"stopped", "startCommandPending", "startedPendingReady", "ready", "stopping",
                           "startOutcomeUncertain", "processUncertain", "runningObservedUncertain"}
          /\ v12' \in {"idle"} \cup Postgres!Preparing \cup Postgres!Working
      BY DEF Postgres!Inv, Postgres!Types, Postgres!TypeOK, Postgres!Preparing, Postgres!Working
    <2> QED BY <2>1, <2>2, <2>3, <2>4, <2>5, <2>6 DEF Postgres!Types, Postgres!TypeOK
  <1>2. Postgres!Named'
    BY DEF Postgres!Inv, Postgres!Types, Postgres!TypeOK, Postgres!Named, Postgres!SessionOK,
       Postgres!PreparationOK, Postgres!MachineOK, Postgres!HostOK, Postgres!Preparing, Postgres!Working,
       Postgres!Placed, Postgres!Validated, Postgres!Unstarted, Postgres!Controls, Postgres!Nobody,
       Postgres!Nothing
  <1>3. Postgres!SessionOK'
    <2>1. /\ v12' = "idle" <=> v9'.state # "TRANSITIONING"
          /\ v9'.state \in {"TRANSITIONING", "READY", "UNCERTAIN"} => v9'.current
          /\ v9'.state \in {"HANDED_OFF", "YIELDED_TO_EXISTING_HOST"} =>
               ~v9'.current /\ v5' \subseteq {Postgres!Host}
      BY DEF Postgres!Inv, Postgres!Types, Postgres!TypeOK, Postgres!Named, Postgres!SessionOK,
         Postgres!PreparationOK, Postgres!MachineOK, Postgres!HostOK, Postgres!Preparing, Postgres!Working,
         Postgres!Placed, Postgres!Validated, Postgres!Unstarted, Postgres!Controls, Postgres!Nobody,
         Postgres!Nothing
    <2>2. v9'.state = "QUIESCENT" => Postgres!Unstarted'
      <3>1. v7 <= ServerOwners /\ v7' = v7 + 1 /\ v5' \subseteq v5 \cup {v7} /\ v6' = v6
        OBVIOUS
      <3> QED BY <3>1, PostgresNextOwner DEF Postgres!Inv, Postgres!Unstarted
    <2>3. v9'.state = "READY" => v5' = {}
      BY DEF Postgres!Inv, Postgres!Types, Postgres!TypeOK, Postgres!Named, Postgres!SessionOK,
         Postgres!PreparationOK, Postgres!MachineOK, Postgres!HostOK, Postgres!Preparing, Postgres!Working,
         Postgres!Placed, Postgres!Validated, Postgres!Unstarted, Postgres!Controls, Postgres!Nobody,
         Postgres!Nothing
    <2>4. v9'.state \in Postgres!Placed \/ v12' \in Postgres!Working \cup {"status"}
          \/ v11' # "NONE" => Postgres!Validated'
      BY DEF Postgres!Inv, Postgres!Types, Postgres!TypeOK, Postgres!Named, Postgres!SessionOK,
         Postgres!PreparationOK, Postgres!MachineOK, Postgres!HostOK, Postgres!Preparing, Postgres!Working,
         Postgres!Placed, Postgres!Validated, Postgres!Unstarted, Postgres!Controls, Postgres!Nobody,
         Postgres!Nothing
    <2> QED BY <2>1, <2>2, <2>3, <2>4 DEF Postgres!SessionOK
  <1>4. Postgres!PreparationOK'
    BY DEF Postgres!Inv, Postgres!Types, Postgres!TypeOK, Postgres!Named, Postgres!SessionOK,
       Postgres!PreparationOK, Postgres!MachineOK, Postgres!HostOK, Postgres!Preparing, Postgres!Working,
       Postgres!Placed, Postgres!Validated, Postgres!Unstarted, Postgres!Controls, Postgres!Nobody,
       Postgres!Nothing
  <1>5. Postgres!MachineOK'
    BY DEF Postgres!Inv, Postgres!Types, Postgres!TypeOK, Postgres!Named, Postgres!SessionOK,
       Postgres!PreparationOK, Postgres!MachineOK, Postgres!HostOK, Postgres!Preparing, Postgres!Working,
       Postgres!Placed, Postgres!Validated, Postgres!Unstarted, Postgres!Controls, Postgres!Nobody,
       Postgres!Nothing
  <1>6. Postgres!HostOK'
    BY DEF Postgres!Inv, Postgres!Types, Postgres!TypeOK, Postgres!Named, Postgres!SessionOK,
       Postgres!PreparationOK, Postgres!MachineOK, Postgres!HostOK, Postgres!Preparing, Postgres!Working,
       Postgres!Placed, Postgres!Validated, Postgres!Unstarted, Postgres!Controls, Postgres!Nobody,
       Postgres!Nothing
  <1> QED BY <1>1, <1>2, <1>3, <1>4, <1>5, <1>6 DEF Postgres!Inv

(* Who comes next may find a start of the dead on its way.                  *)
LEMMA PostgresDieKeeps ==
    ASSUME Postgres!Inv, Postgres!Die
    PROVE  Postgres!Inv'
  <1> USE PostgresApart DEF Postgres!Die, Postgres!Fresh, Postgres!Fault
  <1>1. Postgres!Types'
    <2>1. {v1', v2', v3'} \subseteq 0..ServerOwners \cup {Postgres!Partial} /\ v7' \in 1..ServerOwners + 1
      BY ServerAssumption DEF Postgres!Inv, Postgres!Types, Postgres!TypeOK
    <2>2. v15' \in 0..ServerFaults
      BY ServerAssumption DEF Postgres!Inv, Postgres!Types, Postgres!TypeOK
    <2>3. v8' \in BOOLEAN /\ v9'.current \in BOOLEAN
      BY DEF Postgres!Inv, Postgres!Types, Postgres!TypeOK, Postgres!Placed
    <2>4. v9' \in [state : {"QUIESCENT", "TRANSITIONING"} \cup Postgres!Placed, current : BOOLEAN]
      BY DEF Postgres!Inv, Postgres!Types, Postgres!TypeOK, Postgres!Placed
    <2>5. /\ v4' \in {"stopped", "running", "ready", "stopping"}
          /\ v5' \subseteq 1..v7' \cup {Postgres!Host} /\ v6' \in 0..v7' \cup {Postgres!Host}
      <3>1. /\ v7' \in {v7, v7 + 1} /\ v5' \subseteq v5 \cup {v7}
            /\ v6' \in v5 \cup {v6, Postgres!Nobody}
        OBVIOUS
      <3>2. v4' \in {"stopped", "running", "ready", "stopping"}
        BY DEF Postgres!Inv, Postgres!Types
      <3> QED BY <3>1, <3>2, PostgresOwnersStay DEF Postgres!Inv
    <2>6. /\ v10' \in {"stopped", "startCommandPending", "startedPendingReady", "ready", "stopping",
                           "startOutcomeUncertain", "processUncertain", "runningObservedUncertain"}
          /\ v12' \in {"idle"} \cup Postgres!Preparing \cup Postgres!Working
      BY DEF Postgres!Inv, Postgres!Types, Postgres!TypeOK, Postgres!Preparing, Postgres!Working
    <2> QED BY <2>1, <2>2, <2>3, <2>4, <2>5, <2>6 DEF Postgres!Types, Postgres!TypeOK
  <1>2. Postgres!Named'
    BY DEF Postgres!Inv, Postgres!Types, Postgres!TypeOK, Postgres!Named, Postgres!SessionOK,
       Postgres!PreparationOK, Postgres!MachineOK, Postgres!HostOK, Postgres!Preparing, Postgres!Working,
       Postgres!Placed, Postgres!Validated, Postgres!Unstarted, Postgres!Controls, Postgres!Nobody,
       Postgres!Nothing
  <1>3. Postgres!SessionOK'
    <2>1. /\ v12' = "idle" <=> v9'.state # "TRANSITIONING"
          /\ v9'.state \in {"TRANSITIONING", "READY", "UNCERTAIN"} => v9'.current
          /\ v9'.state \in {"HANDED_OFF", "YIELDED_TO_EXISTING_HOST"} =>
               ~v9'.current /\ v5' \subseteq {Postgres!Host}
      BY DEF Postgres!Inv, Postgres!Types, Postgres!TypeOK, Postgres!Named, Postgres!SessionOK,
         Postgres!PreparationOK, Postgres!MachineOK, Postgres!HostOK, Postgres!Preparing, Postgres!Working,
         Postgres!Placed, Postgres!Validated, Postgres!Unstarted, Postgres!Controls, Postgres!Nobody,
         Postgres!Nothing
    <2>2. v9'.state = "QUIESCENT" => Postgres!Unstarted'
      <3>1. v7 <= ServerOwners /\ v7' = v7 + 1 /\ v5' \subseteq v5 \cup {v7} /\ v6' = v6
        OBVIOUS
      <3> QED BY <3>1, PostgresNextOwner DEF Postgres!Inv, Postgres!Unstarted
    <2>3. v9'.state = "READY" => v5' = {}
      BY DEF Postgres!Inv, Postgres!Types, Postgres!TypeOK, Postgres!Named, Postgres!SessionOK,
         Postgres!PreparationOK, Postgres!MachineOK, Postgres!HostOK, Postgres!Preparing, Postgres!Working,
         Postgres!Placed, Postgres!Validated, Postgres!Unstarted, Postgres!Controls, Postgres!Nobody,
         Postgres!Nothing
    <2>4. v9'.state \in Postgres!Placed \/ v12' \in Postgres!Working \cup {"status"}
          \/ v11' # "NONE" => Postgres!Validated'
      BY DEF Postgres!Inv, Postgres!Types, Postgres!TypeOK, Postgres!Named, Postgres!SessionOK,
         Postgres!PreparationOK, Postgres!MachineOK, Postgres!HostOK, Postgres!Preparing, Postgres!Working,
         Postgres!Placed, Postgres!Validated, Postgres!Unstarted, Postgres!Controls, Postgres!Nobody,
         Postgres!Nothing
    <2> QED BY <2>1, <2>2, <2>3, <2>4 DEF Postgres!SessionOK
  <1>4. Postgres!PreparationOK'
    BY DEF Postgres!Inv, Postgres!Types, Postgres!TypeOK, Postgres!Named, Postgres!SessionOK,
       Postgres!PreparationOK, Postgres!MachineOK, Postgres!HostOK, Postgres!Preparing, Postgres!Working,
       Postgres!Placed, Postgres!Validated, Postgres!Unstarted, Postgres!Controls, Postgres!Nobody,
       Postgres!Nothing
  <1>5. Postgres!MachineOK'
    BY DEF Postgres!Inv, Postgres!Types, Postgres!TypeOK, Postgres!Named, Postgres!SessionOK,
       Postgres!PreparationOK, Postgres!MachineOK, Postgres!HostOK, Postgres!Preparing, Postgres!Working,
       Postgres!Placed, Postgres!Validated, Postgres!Unstarted, Postgres!Controls, Postgres!Nobody,
       Postgres!Nothing
  <1>6. Postgres!HostOK'
    BY DEF Postgres!Inv, Postgres!Types, Postgres!TypeOK, Postgres!Named, Postgres!SessionOK,
       Postgres!PreparationOK, Postgres!MachineOK, Postgres!HostOK, Postgres!Preparing, Postgres!Working,
       Postgres!Placed, Postgres!Validated, Postgres!Unstarted, Postgres!Controls, Postgres!Nobody,
       Postgres!Nothing
  <1> QED BY <1>1, <1>2, <1>3, <1>4, <1>5, <1>6 DEF Postgres!Inv

(* Losing the lease changes nothing outside.                                *)
LEMMA PostgresLoseLeaseKeeps ==
    ASSUME Postgres!Inv, Postgres!LoseLease
    PROVE  Postgres!Inv'
  <1> USE DEF Postgres!LoseLease, Postgres!Fault, Postgres!outside
  <1>1. Postgres!Types'
    <2>1. {v1', v2', v3'} \subseteq 0..ServerOwners \cup {Postgres!Partial} /\ v7' \in 1..ServerOwners + 1
      BY ServerAssumption DEF Postgres!Inv, Postgres!Types, Postgres!TypeOK
    <2>2. v15' \in 0..ServerFaults
      BY ServerAssumption DEF Postgres!Inv, Postgres!Types, Postgres!TypeOK
    <2>3. v8' \in BOOLEAN /\ v9'.current \in BOOLEAN
      BY DEF Postgres!Inv, Postgres!Types, Postgres!TypeOK, Postgres!Placed
    <2>4. v9' \in [state : {"QUIESCENT", "TRANSITIONING"} \cup Postgres!Placed, current : BOOLEAN]
      BY DEF Postgres!Inv, Postgres!Types, Postgres!TypeOK, Postgres!Placed
    <2>5. /\ v4' \in {"stopped", "running", "ready", "stopping"}
          /\ v5' \subseteq 1..v7' \cup {Postgres!Host} /\ v6' \in 0..v7' \cup {Postgres!Host}
      BY ServerAssumption DEF Postgres!Inv, Postgres!Types, Postgres!TypeOK, Postgres!Nobody
    <2>6. /\ v10' \in {"stopped", "startCommandPending", "startedPendingReady", "ready", "stopping",
                           "startOutcomeUncertain", "processUncertain", "runningObservedUncertain"}
          /\ v12' \in {"idle"} \cup Postgres!Preparing \cup Postgres!Working
      BY DEF Postgres!Inv, Postgres!Types, Postgres!TypeOK, Postgres!Preparing, Postgres!Working
    <2> QED BY <2>1, <2>2, <2>3, <2>4, <2>5, <2>6 DEF Postgres!Types, Postgres!TypeOK
  <1>2. Postgres!Named'
    BY DEF Postgres!Inv, Postgres!Types, Postgres!TypeOK, Postgres!Named, Postgres!SessionOK,
       Postgres!PreparationOK, Postgres!MachineOK, Postgres!HostOK, Postgres!Preparing, Postgres!Working,
       Postgres!Placed, Postgres!Validated, Postgres!Unstarted, Postgres!Controls, Postgres!Nobody,
       Postgres!Nothing
  <1>3. Postgres!SessionOK'
    BY DEF Postgres!Inv, Postgres!Types, Postgres!TypeOK, Postgres!Named, Postgres!SessionOK,
       Postgres!PreparationOK, Postgres!MachineOK, Postgres!HostOK, Postgres!Preparing, Postgres!Working,
       Postgres!Placed, Postgres!Validated, Postgres!Unstarted, Postgres!Controls, Postgres!Nobody,
       Postgres!Nothing
  <1>4. Postgres!PreparationOK'
    BY DEF Postgres!Inv, Postgres!Types, Postgres!TypeOK, Postgres!Named, Postgres!SessionOK,
       Postgres!PreparationOK, Postgres!MachineOK, Postgres!HostOK, Postgres!Preparing, Postgres!Working,
       Postgres!Placed, Postgres!Validated, Postgres!Unstarted, Postgres!Controls, Postgres!Nobody,
       Postgres!Nothing
  <1>5. Postgres!MachineOK'
    BY DEF Postgres!Inv, Postgres!Types, Postgres!TypeOK, Postgres!Named, Postgres!SessionOK,
       Postgres!PreparationOK, Postgres!MachineOK, Postgres!HostOK, Postgres!Preparing, Postgres!Working,
       Postgres!Placed, Postgres!Validated, Postgres!Unstarted, Postgres!Controls, Postgres!Nobody,
       Postgres!Nothing
  <1>6. Postgres!HostOK'
    BY DEF Postgres!Inv, Postgres!Types, Postgres!TypeOK, Postgres!Named, Postgres!SessionOK,
       Postgres!PreparationOK, Postgres!MachineOK, Postgres!HostOK, Postgres!Preparing, Postgres!Working,
       Postgres!Placed, Postgres!Validated, Postgres!Unstarted, Postgres!Controls, Postgres!Nobody,
       Postgres!Nothing
  <1> QED BY <1>1, <1>2, <1>3, <1>4, <1>5, <1>6 DEF Postgres!Inv

(* The controller opens over a server that is up or down.                   *)
LEMMA PostgresOpenKeeps ==
    ASSUME Postgres!Inv, Postgres!Open
    PROVE  Postgres!Inv'
  <1> USE DEF Postgres!Open, Postgres!Acts, Postgres!outside
  <1>1. Postgres!Types'
    BY DEF Postgres!Inv, Postgres!Types, Postgres!TypeOK, Postgres!SessionOK, Postgres!Placed,
       Postgres!Preparing, Postgres!Working
  <1>2. Postgres!Named'
    BY DEF Postgres!Inv, Postgres!Types, Postgres!TypeOK, Postgres!Named, Postgres!SessionOK,
       Postgres!PreparationOK, Postgres!MachineOK, Postgres!HostOK, Postgres!Preparing, Postgres!Working,
       Postgres!Placed, Postgres!Validated, Postgres!Unstarted, Postgres!Controls, Postgres!Nobody,
       Postgres!Nothing
  <1>3. Postgres!SessionOK'
    BY DEF Postgres!Inv, Postgres!Types, Postgres!TypeOK, Postgres!Named, Postgres!SessionOK,
       Postgres!PreparationOK, Postgres!MachineOK, Postgres!HostOK, Postgres!Preparing, Postgres!Working,
       Postgres!Placed, Postgres!Validated, Postgres!Unstarted, Postgres!Controls, Postgres!Nobody,
       Postgres!Nothing
  <1>4. Postgres!PreparationOK'
    BY DEF Postgres!Inv, Postgres!Types, Postgres!TypeOK, Postgres!Named, Postgres!SessionOK,
       Postgres!PreparationOK, Postgres!MachineOK, Postgres!HostOK, Postgres!Preparing, Postgres!Working,
       Postgres!Placed, Postgres!Validated, Postgres!Unstarted, Postgres!Controls, Postgres!Nobody,
       Postgres!Nothing
  <1>5. Postgres!MachineOK'
    BY DEF Postgres!Inv, Postgres!Types, Postgres!TypeOK, Postgres!Named, Postgres!SessionOK,
       Postgres!PreparationOK, Postgres!MachineOK, Postgres!HostOK, Postgres!Preparing, Postgres!Working,
       Postgres!Placed, Postgres!Validated, Postgres!Unstarted, Postgres!Controls, Postgres!Nobody,
       Postgres!Nothing
  <1>6. Postgres!HostOK'
    BY DEF Postgres!Inv, Postgres!Types, Postgres!TypeOK, Postgres!Named, Postgres!SessionOK,
       Postgres!PreparationOK, Postgres!MachineOK, Postgres!HostOK, Postgres!Preparing, Postgres!Working,
       Postgres!Placed, Postgres!Validated, Postgres!Unstarted, Postgres!Controls, Postgres!Nobody,
       Postgres!Nothing
  <1> QED BY <1>1, <1>2, <1>3, <1>4, <1>5, <1>6 DEF Postgres!Inv

(* The controller stops the server of its Host.                             *)
LEMMA PostgresCtlStopKeeps ==
    ASSUME Postgres!Inv, Postgres!ctlStop
    PROVE  Postgres!Inv'
  <1> USE PostgresApart DEF Postgres!ctlStop, Postgres!Acts, Postgres!Fault
  <1>1. Postgres!Types'
    <2>1. {v1', v2', v3'} \subseteq 0..ServerOwners \cup {Postgres!Partial} /\ v7' \in 1..ServerOwners + 1
      BY ServerAssumption DEF Postgres!Inv, Postgres!Types, Postgres!TypeOK
    <2>2. v15' \in 0..ServerFaults
      BY ServerAssumption DEF Postgres!Inv, Postgres!Types, Postgres!TypeOK
    <2>3. v8' \in BOOLEAN /\ v9'.current \in BOOLEAN
      BY DEF Postgres!Inv, Postgres!Types, Postgres!TypeOK, Postgres!Placed
    <2>4. v9' \in [state : {"QUIESCENT", "TRANSITIONING"} \cup Postgres!Placed, current : BOOLEAN]
      BY DEF Postgres!Inv, Postgres!Types, Postgres!TypeOK, Postgres!Placed
    <2>5. /\ v4' \in {"stopped", "running", "ready", "stopping"}
          /\ v5' \subseteq 1..v7' \cup {Postgres!Host} /\ v6' \in 0..v7' \cup {Postgres!Host}
      BY ServerAssumption DEF Postgres!Inv, Postgres!Types, Postgres!TypeOK, Postgres!Nobody
    <2>6. /\ v10' \in {"stopped", "startCommandPending", "startedPendingReady", "ready", "stopping",
                           "startOutcomeUncertain", "processUncertain", "runningObservedUncertain"}
          /\ v12' \in {"idle"} \cup Postgres!Preparing \cup Postgres!Working
      BY DEF Postgres!Inv, Postgres!Types, Postgres!TypeOK, Postgres!Preparing, Postgres!Working
    <2> QED BY <2>1, <2>2, <2>3, <2>4, <2>5, <2>6 DEF Postgres!Types, Postgres!TypeOK
  <1>2. Postgres!Named'
    BY DEF Postgres!Inv, Postgres!Types, Postgres!TypeOK, Postgres!Named, Postgres!SessionOK,
       Postgres!PreparationOK, Postgres!MachineOK, Postgres!HostOK, Postgres!Preparing, Postgres!Working,
       Postgres!Placed, Postgres!Validated, Postgres!Unstarted, Postgres!Controls, Postgres!Nobody,
       Postgres!Nothing
  <1>3. Postgres!SessionOK'
    BY DEF Postgres!Inv, Postgres!Types, Postgres!TypeOK, Postgres!Named, Postgres!SessionOK,
       Postgres!PreparationOK, Postgres!MachineOK, Postgres!HostOK, Postgres!Preparing, Postgres!Working,
       Postgres!Placed, Postgres!Validated, Postgres!Unstarted, Postgres!Controls, Postgres!Nobody,
       Postgres!Nothing
  <1>4. Postgres!PreparationOK'
    BY DEF Postgres!Inv, Postgres!Types, Postgres!TypeOK, Postgres!Named, Postgres!SessionOK,
       Postgres!PreparationOK, Postgres!MachineOK, Postgres!HostOK, Postgres!Preparing, Postgres!Working,
       Postgres!Placed, Postgres!Validated, Postgres!Unstarted, Postgres!Controls, Postgres!Nobody,
       Postgres!Nothing
  <1>5. Postgres!MachineOK'
    BY DEF Postgres!Inv, Postgres!Types, Postgres!TypeOK, Postgres!Named, Postgres!SessionOK,
       Postgres!PreparationOK, Postgres!MachineOK, Postgres!HostOK, Postgres!Preparing, Postgres!Working,
       Postgres!Placed, Postgres!Validated, Postgres!Unstarted, Postgres!Controls, Postgres!Nobody,
       Postgres!Nothing
  <1>6. Postgres!HostOK'
    BY DEF Postgres!Inv, Postgres!Types, Postgres!TypeOK, Postgres!Named, Postgres!SessionOK,
       Postgres!PreparationOK, Postgres!MachineOK, Postgres!HostOK, Postgres!Preparing, Postgres!Working,
       Postgres!Placed, Postgres!Validated, Postgres!Unstarted, Postgres!Controls, Postgres!Nobody,
       Postgres!Nothing
  <1> QED BY <1>1, <1>2, <1>3, <1>4, <1>5, <1>6 DEF Postgres!Inv

(* The controller starts the cluster that was handed over.                  *)
LEMMA PostgresCtlStartKeeps ==
    ASSUME Postgres!Inv, Postgres!ctlStart
    PROVE  Postgres!Inv'
  <1> USE PostgresApart DEF Postgres!ctlStart, Postgres!Acts
  <1>1. Postgres!Types'
    BY DEF Postgres!Inv, Postgres!Types, Postgres!TypeOK, Postgres!SessionOK, Postgres!Placed,
       Postgres!Preparing, Postgres!Working
  <1>2. Postgres!Named'
    BY DEF Postgres!Inv, Postgres!Types, Postgres!TypeOK, Postgres!Named, Postgres!SessionOK,
       Postgres!PreparationOK, Postgres!MachineOK, Postgres!HostOK, Postgres!Preparing, Postgres!Working,
       Postgres!Placed, Postgres!Validated, Postgres!Unstarted, Postgres!Controls, Postgres!Nobody,
       Postgres!Nothing
  <1>3. Postgres!SessionOK'
    BY DEF Postgres!Inv, Postgres!Types, Postgres!TypeOK, Postgres!Named, Postgres!SessionOK,
       Postgres!PreparationOK, Postgres!MachineOK, Postgres!HostOK, Postgres!Preparing, Postgres!Working,
       Postgres!Placed, Postgres!Validated, Postgres!Unstarted, Postgres!Controls, Postgres!Nobody,
       Postgres!Nothing
  <1>4. Postgres!PreparationOK'
    BY DEF Postgres!Inv, Postgres!Types, Postgres!TypeOK, Postgres!Named, Postgres!SessionOK,
       Postgres!PreparationOK, Postgres!MachineOK, Postgres!HostOK, Postgres!Preparing, Postgres!Working,
       Postgres!Placed, Postgres!Validated, Postgres!Unstarted, Postgres!Controls, Postgres!Nobody,
       Postgres!Nothing
  <1>5. Postgres!MachineOK'
    BY DEF Postgres!Inv, Postgres!Types, Postgres!TypeOK, Postgres!Named, Postgres!SessionOK,
       Postgres!PreparationOK, Postgres!MachineOK, Postgres!HostOK, Postgres!Preparing, Postgres!Working,
       Postgres!Placed, Postgres!Validated, Postgres!Unstarted, Postgres!Controls, Postgres!Nobody,
       Postgres!Nothing
  <1>6. Postgres!HostOK'
    BY DEF Postgres!Inv, Postgres!Types, Postgres!TypeOK, Postgres!Named, Postgres!SessionOK,
       Postgres!PreparationOK, Postgres!MachineOK, Postgres!HostOK, Postgres!Preparing, Postgres!Working,
       Postgres!Placed, Postgres!Validated, Postgres!Unstarted, Postgres!Controls, Postgres!Nobody,
       Postgres!Nothing
  <1> QED BY <1>1, <1>2, <1>3, <1>4, <1>5, <1>6 DEF Postgres!Inv

(* The controller goes by what it sees.                                     *)
LEMMA PostgresCtlProvesKeeps ==
    ASSUME Postgres!Inv, Postgres!ctlProves
    PROVE  Postgres!Inv'
  <1> USE DEF Postgres!ctlProves, Postgres!Acts, Postgres!outside
  <1>1. Postgres!Types'
    BY DEF Postgres!Inv, Postgres!Types, Postgres!TypeOK, Postgres!SessionOK, Postgres!Placed,
       Postgres!Preparing, Postgres!Working
  <1>2. Postgres!Named'
    BY DEF Postgres!Inv, Postgres!Types, Postgres!TypeOK, Postgres!Named, Postgres!SessionOK,
       Postgres!PreparationOK, Postgres!MachineOK, Postgres!HostOK, Postgres!Preparing, Postgres!Working,
       Postgres!Placed, Postgres!Validated, Postgres!Unstarted, Postgres!Controls, Postgres!Nobody,
       Postgres!Nothing
  <1>3. Postgres!SessionOK'
    BY DEF Postgres!Inv, Postgres!Types, Postgres!TypeOK, Postgres!Named, Postgres!SessionOK,
       Postgres!PreparationOK, Postgres!MachineOK, Postgres!HostOK, Postgres!Preparing, Postgres!Working,
       Postgres!Placed, Postgres!Validated, Postgres!Unstarted, Postgres!Controls, Postgres!Nobody,
       Postgres!Nothing
  <1>4. Postgres!PreparationOK'
    BY DEF Postgres!Inv, Postgres!Types, Postgres!TypeOK, Postgres!Named, Postgres!SessionOK,
       Postgres!PreparationOK, Postgres!MachineOK, Postgres!HostOK, Postgres!Preparing, Postgres!Working,
       Postgres!Placed, Postgres!Validated, Postgres!Unstarted, Postgres!Controls, Postgres!Nobody,
       Postgres!Nothing
  <1>5. Postgres!MachineOK'
    BY DEF Postgres!Inv, Postgres!Types, Postgres!TypeOK, Postgres!Named, Postgres!SessionOK,
       Postgres!PreparationOK, Postgres!MachineOK, Postgres!HostOK, Postgres!Preparing, Postgres!Working,
       Postgres!Placed, Postgres!Validated, Postgres!Unstarted, Postgres!Controls, Postgres!Nobody,
       Postgres!Nothing
  <1>6. Postgres!HostOK'
    BY DEF Postgres!Inv, Postgres!Types, Postgres!TypeOK, Postgres!Named, Postgres!SessionOK,
       Postgres!PreparationOK, Postgres!MachineOK, Postgres!HostOK, Postgres!Preparing, Postgres!Working,
       Postgres!Placed, Postgres!Validated, Postgres!Unstarted, Postgres!Controls, Postgres!Nobody,
       Postgres!Nothing
  <1> QED BY <1>1, <1>2, <1>3, <1>4, <1>5, <1>6 DEF Postgres!Inv

(* The first postmaster that shows itself ends the starts of the others.    *)
LEMMA PostgresAppearKeeps ==
    ASSUME Postgres!Inv, Postgres!Appear
    PROVE  Postgres!Inv'
  <1> USE PostgresApart DEF Postgres!Appear, Postgres!Fault
  <1>1. Postgres!Types'
    <2>1. {v1', v2', v3'} \subseteq 0..ServerOwners \cup {Postgres!Partial} /\ v7' \in 1..ServerOwners + 1
      BY ServerAssumption DEF Postgres!Inv, Postgres!Types, Postgres!TypeOK
    <2>2. v15' \in 0..ServerFaults
      BY ServerAssumption DEF Postgres!Inv, Postgres!Types, Postgres!TypeOK
    <2>3. v8' \in BOOLEAN /\ v9'.current \in BOOLEAN
      BY DEF Postgres!Inv, Postgres!Types, Postgres!TypeOK, Postgres!Placed
    <2>4. v9' \in [state : {"QUIESCENT", "TRANSITIONING"} \cup Postgres!Placed, current : BOOLEAN]
      BY DEF Postgres!Inv, Postgres!Types, Postgres!TypeOK, Postgres!Placed
    <2>5. /\ v4' \in {"stopped", "running", "ready", "stopping"}
          /\ v5' \subseteq 1..v7' \cup {Postgres!Host} /\ v6' \in 0..v7' \cup {Postgres!Host}
      <3>1. /\ v7' \in {v7, v7 + 1} /\ v5' \subseteq v5 \cup {v7}
            /\ v6' \in v5 \cup {v6, Postgres!Nobody}
        OBVIOUS
      <3>2. v4' \in {"stopped", "running", "ready", "stopping"}
        BY DEF Postgres!Inv, Postgres!Types
      <3> QED BY <3>1, <3>2, PostgresOwnersStay DEF Postgres!Inv
    <2>6. /\ v10' \in {"stopped", "startCommandPending", "startedPendingReady", "ready", "stopping",
                           "startOutcomeUncertain", "processUncertain", "runningObservedUncertain"}
          /\ v12' \in {"idle"} \cup Postgres!Preparing \cup Postgres!Working
      BY DEF Postgres!Inv, Postgres!Types, Postgres!TypeOK, Postgres!Preparing, Postgres!Working
    <2> QED BY <2>1, <2>2, <2>3, <2>4, <2>5, <2>6 DEF Postgres!Types, Postgres!TypeOK
  <1>2. Postgres!Named'
    BY DEF Postgres!Inv, Postgres!Types, Postgres!TypeOK, Postgres!Named, Postgres!SessionOK,
       Postgres!PreparationOK, Postgres!MachineOK, Postgres!HostOK, Postgres!Preparing, Postgres!Working,
       Postgres!Placed, Postgres!Validated, Postgres!Unstarted, Postgres!Controls, Postgres!Nobody,
       Postgres!Nothing
  <1>3. Postgres!SessionOK'
    BY DEF Postgres!Inv, Postgres!Types, Postgres!TypeOK, Postgres!Named, Postgres!SessionOK,
       Postgres!PreparationOK, Postgres!MachineOK, Postgres!HostOK, Postgres!Preparing, Postgres!Working,
       Postgres!Placed, Postgres!Validated, Postgres!Unstarted, Postgres!Controls, Postgres!Nobody,
       Postgres!Nothing
  <1>4. Postgres!PreparationOK'
    BY DEF Postgres!Inv, Postgres!Types, Postgres!TypeOK, Postgres!Named, Postgres!SessionOK,
       Postgres!PreparationOK, Postgres!MachineOK, Postgres!HostOK, Postgres!Preparing, Postgres!Working,
       Postgres!Placed, Postgres!Validated, Postgres!Unstarted, Postgres!Controls, Postgres!Nobody,
       Postgres!Nothing
  <1>5. Postgres!MachineOK'
    BY DEF Postgres!Inv, Postgres!Types, Postgres!TypeOK, Postgres!Named, Postgres!SessionOK,
       Postgres!PreparationOK, Postgres!MachineOK, Postgres!HostOK, Postgres!Preparing, Postgres!Working,
       Postgres!Placed, Postgres!Validated, Postgres!Unstarted, Postgres!Controls, Postgres!Nobody,
       Postgres!Nothing
  <1>6. Postgres!HostOK'
    BY DEF Postgres!Inv, Postgres!Types, Postgres!TypeOK, Postgres!Named, Postgres!SessionOK,
       Postgres!PreparationOK, Postgres!MachineOK, Postgres!HostOK, Postgres!Preparing, Postgres!Working,
       Postgres!Placed, Postgres!Validated, Postgres!Unstarted, Postgres!Controls, Postgres!Nobody,
       Postgres!Nothing
  <1> QED BY <1>1, <1>2, <1>3, <1>4, <1>5, <1>6 DEF Postgres!Inv

(* The server moves on.                                                     *)
LEMMA PostgresMovesKeeps ==
    ASSUME Postgres!Inv, Postgres!Moves
    PROVE  Postgres!Inv'
  <1> USE DEF Postgres!Moves, Postgres!Fault
  <1>1. Postgres!Types'
    <2>1. {v1', v2', v3'} \subseteq 0..ServerOwners \cup {Postgres!Partial} /\ v7' \in 1..ServerOwners + 1
      BY ServerAssumption DEF Postgres!Inv, Postgres!Types, Postgres!TypeOK
    <2>2. v15' \in 0..ServerFaults
      BY ServerAssumption DEF Postgres!Inv, Postgres!Types, Postgres!TypeOK
    <2>3. v8' \in BOOLEAN /\ v9'.current \in BOOLEAN
      BY DEF Postgres!Inv, Postgres!Types, Postgres!TypeOK, Postgres!Placed
    <2>4. v9' \in [state : {"QUIESCENT", "TRANSITIONING"} \cup Postgres!Placed, current : BOOLEAN]
      BY DEF Postgres!Inv, Postgres!Types, Postgres!TypeOK, Postgres!Placed
    <2>5. /\ v4' \in {"stopped", "running", "ready", "stopping"}
          /\ v5' \subseteq 1..v7' \cup {Postgres!Host} /\ v6' \in 0..v7' \cup {Postgres!Host}
      BY ServerAssumption DEF Postgres!Inv, Postgres!Types, Postgres!TypeOK, Postgres!Nobody
    <2>6. /\ v10' \in {"stopped", "startCommandPending", "startedPendingReady", "ready", "stopping",
                           "startOutcomeUncertain", "processUncertain", "runningObservedUncertain"}
          /\ v12' \in {"idle"} \cup Postgres!Preparing \cup Postgres!Working
      BY DEF Postgres!Inv, Postgres!Types, Postgres!TypeOK, Postgres!Preparing, Postgres!Working
    <2> QED BY <2>1, <2>2, <2>3, <2>4, <2>5, <2>6 DEF Postgres!Types, Postgres!TypeOK
  <1>2. Postgres!Named'
    BY DEF Postgres!Inv, Postgres!Types, Postgres!TypeOK, Postgres!Named, Postgres!SessionOK,
       Postgres!PreparationOK, Postgres!MachineOK, Postgres!HostOK, Postgres!Preparing, Postgres!Working,
       Postgres!Placed, Postgres!Validated, Postgres!Unstarted, Postgres!Controls, Postgres!Nobody,
       Postgres!Nothing
  <1>3. Postgres!SessionOK'
    BY DEF Postgres!Inv, Postgres!Types, Postgres!TypeOK, Postgres!Named, Postgres!SessionOK,
       Postgres!PreparationOK, Postgres!MachineOK, Postgres!HostOK, Postgres!Preparing, Postgres!Working,
       Postgres!Placed, Postgres!Validated, Postgres!Unstarted, Postgres!Controls, Postgres!Nobody,
       Postgres!Nothing
  <1>4. Postgres!PreparationOK'
    BY DEF Postgres!Inv, Postgres!Types, Postgres!TypeOK, Postgres!Named, Postgres!SessionOK,
       Postgres!PreparationOK, Postgres!MachineOK, Postgres!HostOK, Postgres!Preparing, Postgres!Working,
       Postgres!Placed, Postgres!Validated, Postgres!Unstarted, Postgres!Controls, Postgres!Nobody,
       Postgres!Nothing
  <1>5. Postgres!MachineOK'
    BY DEF Postgres!Inv, Postgres!Types, Postgres!TypeOK, Postgres!Named, Postgres!SessionOK,
       Postgres!PreparationOK, Postgres!MachineOK, Postgres!HostOK, Postgres!Preparing, Postgres!Working,
       Postgres!Placed, Postgres!Validated, Postgres!Unstarted, Postgres!Controls, Postgres!Nobody,
       Postgres!Nothing
  <1>6. Postgres!HostOK'
    BY DEF Postgres!Inv, Postgres!Types, Postgres!TypeOK, Postgres!Named, Postgres!SessionOK,
       Postgres!PreparationOK, Postgres!MachineOK, Postgres!HostOK, Postgres!Preparing, Postgres!Working,
       Postgres!Placed, Postgres!Validated, Postgres!Unstarted, Postgres!Controls, Postgres!Nobody,
       Postgres!Nothing
  <1> QED BY <1>1, <1>2, <1>3, <1>4, <1>5, <1>6 DEF Postgres!Inv

(* A step of nobody here changes nothing.                                   *)
LEMMA PostgresUnchangedKeeps == Postgres!Inv /\ UNCHANGED Postgres!vars => Postgres!Inv'
  BY DEF Postgres!vars, Postgres!outside, Postgres!Inv, Postgres!Types, Postgres!TypeOK, Postgres!Named,
     Postgres!SessionOK, Postgres!PreparationOK, Postgres!MachineOK, Postgres!HostOK, Postgres!Preparing,
     Postgres!Working, Postgres!Placed, Postgres!Validated, Postgres!Unstarted, Postgres!Controls,
     Postgres!Nobody, Postgres!Nothing, Postgres!Partial, Postgres!Host

(* Every step keeps the invariant.                                          *)
LEMMA PostgresNextInv ==
    ASSUME Postgres!Inv, [Postgres!Next]_Postgres!vars
    PROVE  Postgres!Inv'
  <1>1. CASE UNCHANGED Postgres!vars
    BY <1>1, PostgresUnchangedKeeps
  <1>2. CASE Postgres!Next
    BY <1>2, PostgresBeginPreparationKeeps, PostgresInspectKeeps,
       PostgresInitializePrivatePostgresClusterKeeps, PostgresCommitIdentityKeeps, PostgresValidateKeeps,
       PostgresAdoptKeeps, PostgresStartKeeps, PostgresCommandReturnsKeeps,
       PostgresWaitForPrivatePostgresReadinessKeeps, PostgresReadyReturnedKeeps, PostgresStopKeeps,
       PostgresRestartKeeps, PostgresRestartFailsKeeps, PostgresStopBeforeKeeps, PostgresStopProcessKeeps,
       PostgresStopAfterKeeps, PostgresMarkHandedOffKeeps, PostgresCloseKeeps, PostgresDieKeeps,
       PostgresLoseLeaseKeeps, PostgresOpenKeeps, PostgresCtlStopKeeps, PostgresCtlStartKeeps,
       PostgresCtlProvesKeeps, PostgresAppearKeeps, PostgresMovesKeeps DEF Postgres!Next
  <1> QED BY <1>1, <1>2

(* What the invariant says of the server and its owners.                    *)
LEMMA PostgresInvSays ==
    ASSUME Postgres!Inv
    PROVE  Postgres!ServerIsOwned
  <1>1. Postgres!TypeOK
    BY DEF Postgres!Inv, Postgres!Types
  <1>2. Postgres!QuiescentIsQuiet
    BY DEF Postgres!Inv, Postgres!SessionOK, Postgres!Unstarted, Postgres!QuiescentIsQuiet
  <1>3. Postgres!RunsTheNamedCluster
    BY DEF Postgres!Inv, Postgres!Named, Postgres!RunsTheNamedCluster
  <1>4. Postgres!HostKeepsServer
    BY DEF Postgres!Inv, Postgres!Types, Postgres!SessionOK, Postgres!MachineOK, Postgres!HostKeepsServer,
       Postgres!Working
  <1> QED BY <1>1, <1>2, <1>3, <1>4 DEF Postgres!ServerIsOwned
==============================================================================
