------------------------- MODULE StatusManagerProofs -------------------------
(***************************************************************************)
(* Proofs about StatusManager, for every set of callbacks and listeners.   *)
(***************************************************************************)
EXTENDS StatusManager, TLAPS

USE SetToAssumption DEF Statuses

\* Every step keeps the types.
LEMMA TypeStep == TypeOK /\ [Next]_vars => TypeOK'
  <1> SUFFICES ASSUME TypeOK, [Next]_vars PROVE TypeOK'
    OBVIOUS
  <1> USE DEF TypeOK
  <1>1. ASSUME NEW s \in Setters, LoadStatus(s) \/ StoreStatus(s)
        PROVE  TypeOK'
    BY <1>1 DEF LoadStatus, NextStep, StoreStatus
  <1>2. ASSUME NEW s \in Setters, CallListeners(s)
        PROVE  TypeOK'
    <2>1. spawned' \in [Listeners -> [Statuses -> Nat]]
      BY <1>2 DEF CallListeners, SpawnedFor
    <2>2. QED
      BY <1>2, <2>1 DEF CallListeners
  <1>3. ASSUME NEW l \in Listeners, AddListener(l)
        PROVE  TypeOK'
    <2>1. spawned[l] \in [Statuses -> Nat]
      OBVIOUS
    <2>2. spawned' \in [Listeners -> [Statuses -> Nat]]
      BY <1>3, <2>1 DEF AddListener, SpawnedAtOnce
    <2>3. QED
      BY <1>3, <2>2 DEF AddListener
  <1>4. ASSUME NEW l \in Listeners, RemoveListener(l)
        PROVE  TypeOK'
    BY <1>4 DEF RemoveListener
  <1>5. ASSUME NEW l \in Listeners, NEW v \in Statuses, OnStatusChange(l, v)
        PROVE  TypeOK'
    <2>1. spawned[l] \in [Statuses -> Nat] /\ spawned[l][v] - 1 \in Nat
      BY <1>5 DEF OnStatusChange
    <2>2. spawned' \in [Listeners -> [Statuses -> Nat]]
      BY <1>5, <2>1 DEF OnStatusChange
    <2>3. QED
      BY <1>5, <2>2 DEF OnStatusChange
  <1>6. CASE UNCHANGED vars
    BY <1>6 DEF vars
  <1>7. QED
    BY <1>1, <1>2, <1>3, <1>4, <1>5, <1>6 DEF Next, SetStep

\* The initial state has its types.
LEMMA TypeInit == Init => TypeOK
  BY DEF Init, InitialStatus, TypeOK

\* Type correctness.
THEOREM TypeCorrect == Spec => []TypeOK
  BY TypeInit, TypeStep, PTL DEF Spec

\* Every step leaves every listener told, or somebody to tell it.
LEMMA NeverMissedStep == TypeOK /\ NeverMissed /\ [Next]_vars => NeverMissed'
  <1> SUFFICES ASSUME TypeOK, NeverMissed, [Next]_vars PROVE NeverMissed'
    OBVIOUS
  <1> USE DEF TypeOK, NeverMissed
  <1>1. ASSUME NEW s \in Setters, LoadStatus(s) \/ StoreStatus(s)
        PROVE  NeverMissed'
    BY <1>1 DEF LoadStatus, NextStep, StoreStatus
  <1>2. ASSUME NEW s \in Setters, CallListeners(s)
        PROVE  NeverMissed'
    <2>1. /\ UNCHANGED <<status, listeners, told>>
          /\ spawned' = SpawnedFor(SetTo[s])
          /\ pc' = [pc EXCEPT ![s] = "done"]
      BY <1>2 DEF CallListeners
    <2>2. ASSUME NEW l \in listeners
          PROVE  /\ spawned[l][status] > 0 => spawned'[l][status] > 0
                 /\ SetTo[s] = status => spawned'[l][status] > 0
      BY <2>1 DEF SpawnedFor
    <2>3. QED
      BY <2>1, <2>2
  <1>3. ASSUME NEW l \in Listeners, AddListener(l)
        PROVE  NeverMissed'
    <2>1. /\ listeners' = listeners \cup {l}
          /\ UNCHANGED <<status, pc, told>>
          /\ spawned'[l][status] > 0
          /\ \A k \in Listeners \ {l} : spawned'[k] = spawned[k]
      BY <1>3 DEF AddListener, SpawnedAtOnce
    <2>2. QED
      BY <2>1
  <1>4. ASSUME NEW l \in Listeners, RemoveListener(l)
        PROVE  NeverMissed'
    BY <1>4 DEF RemoveListener
  <1>5. ASSUME NEW l \in Listeners, NEW v \in Statuses, OnStatusChange(l, v)
        PROVE  NeverMissed'
    <2>1. /\ told' = [told EXCEPT ![l] = @ \cup {v}]
          /\ UNCHANGED <<status, pc, listeners>>
          /\ \A k \in Listeners, u \in Statuses :
               k # l \/ u # v => spawned'[k][u] = spawned[k][u]
      BY <1>5 DEF OnStatusChange
    <2>2. QED
      BY <2>1
  <1>6. CASE UNCHANGED vars
    BY <1>6 DEF vars
  <1>7. QED
    BY <1>1, <1>2, <1>3, <1>4, <1>5, <1>6 DEF Next, SetStep

\* No listener misses the status that is set, whoever sets it and whenever it
\* registers.
THEOREM NobodyMisses == Spec => []NeverMissed
  <1>1. Init => NeverMissed
    BY DEF Init, NeverMissed
  <1>2. QED
    BY <1>1, TypeInit, TypeStep, NeverMissedStep, PTL DEF Spec

=============================================================================
