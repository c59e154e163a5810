-------------------------- MODULE TopicTypesProofs --------------------------
(***************************************************************************)
(* Proofs about TopicTypes, for all readers, writers, topics and types, and *)
(* however client topics share bus topics.  Types and counters are right   *)
(* whatever overlaps; the table agrees with its readers while the network  *)
(* is up, if no two creations overlap on a bus topic.                      *)
(***************************************************************************)
EXTENDS TopicTypes, FiniteSetTheorems, TLAPS

\* A user has a topic and a type while it exists, and the topic is known.
UseInv ==
  \A u \in Users :
    /\ topic[u] = None <=> pc[u] \in {"none", "gone"}
    /\ topic[u] # None => type[u] \in Types /\ stored[topic[u]] # None
    /\ pc[u] \in {"insert", "add", "left"} => u \in Readers

Inv == TypeOK /\ UseInv /\ CounterExact

-----------------------------------------------------------------------------
(* Numbers of users. *)

\* The users of a set are counted one by one.
LEMMA CountUsers ==
  ASSUME NEW S \in SUBSET Users, NEW u \in Users
  PROVE  /\ Cardinality(S) \in Nat
         /\ Cardinality(S) = 0 <=> S = {}
         /\ u \notin S => Cardinality(S \cup {u}) = Cardinality(S) + 1
         /\ u \in S => Cardinality(S \ {u}) = Cardinality(S) - 1
  <1>1. IsFiniteSet(S)
    BY KindAssumption, FS_Subset
  <1>2. QED
    BY <1>1, FS_CardinalityType, FS_EmptySet, FS_AddElement, FS_RemoveElement

\* A user that gets a topic is one more holder of its counter.
LEMMA HolderEnters ==
  ASSUME TypeOK, NEW u \in Users, topic[u] = None,
         NEW t \in Topics, topic' = [topic EXCEPT ![u] = t]
  PROVE  \A s \in Topics : Cardinality(HoldersOf(s))' =
           Cardinality(HoldersOf(s)) + IF s = t THEN 1 ELSE 0
  <1> SUFFICES ASSUME NEW s \in Topics
               PROVE  Cardinality(HoldersOf(s))' =
                        Cardinality(HoldersOf(s)) + IF s = t THEN 1 ELSE 0
    OBVIOUS
  <1>1. HoldersOf(s) \in SUBSET Users /\ u \notin HoldersOf(s)
    BY NoneAssumption DEF HoldersOf
  <1>2. HoldersOf(s)' = IF s = t THEN HoldersOf(s) \cup {u} ELSE HoldersOf(s)
    BY <1>1 DEF HoldersOf, TypeOK
  <1>3. Cardinality(HoldersOf(s) \cup {u}) = Cardinality(HoldersOf(s)) + 1
    BY <1>1, CountUsers
  <1>4. Cardinality(HoldersOf(s)) \in Nat
    BY <1>1, CountUsers
  <1>5. CASE s = t
    BY <1>2, <1>3, <1>5
  <1>6. CASE s # t
    BY <1>2, <1>4, <1>6
  <1>7. QED
    BY <1>5, <1>6

\* A user that loses its topic is one less.
LEMMA HolderLeaves ==
  ASSUME TypeOK, NEW u \in Users, topic[u] \in Topics,
         topic' = [topic EXCEPT ![u] = None]
  PROVE  \A s \in Topics : Cardinality(HoldersOf(s))' =
           Cardinality(HoldersOf(s)) - IF s = topic[u] THEN 1 ELSE 0
  <1> SUFFICES ASSUME NEW s \in Topics
               PROVE  Cardinality(HoldersOf(s))' =
                        Cardinality(HoldersOf(s)) - IF s = topic[u] THEN 1 ELSE 0
    OBVIOUS
  <1>1. HoldersOf(s) \in SUBSET Users /\ (u \in HoldersOf(s) <=> s = topic[u])
    BY DEF HoldersOf
  <1>2. HoldersOf(s)' = IF s = topic[u] THEN HoldersOf(s) \ {u} ELSE HoldersOf(s)
    BY <1>1, NoneAssumption DEF HoldersOf, TypeOK
  <1>3. u \in HoldersOf(s) =>
          Cardinality(HoldersOf(s) \ {u}) = Cardinality(HoldersOf(s)) - 1
    BY <1>1, CountUsers
  <1>4. Cardinality(HoldersOf(s)) \in Nat
    BY <1>1, CountUsers
  <1>5. CASE s = topic[u]
    BY <1>1, <1>2, <1>3, <1>5
  <1>6. CASE s # topic[u]
    BY <1>2, <1>4, <1>6
  <1>7. QED
    BY <1>5, <1>6

-----------------------------------------------------------------------------
(* The steps that change the counters. *)

\* get_topic_ctr gives the counter to one more.
LEMMA AdmitStep ==
  ASSUME Inv, NEW u \in Users, NEW t \in Topics, NEW ty \in Types,
         AdmitKnown(u, t, ty) \/ AdmitNew(u, t, ty)
  PROVE  Inv'
  <1> USE DEF Inv
  <1>1. /\ pc[u] = "none" /\ topic[u] = None
        /\ pc' = [pc EXCEPT ![u] = "admitted"]
        /\ topic' = [topic EXCEPT ![u] = t]
        /\ type' = [type EXCEPT ![u] = ty]
        /\ UNCHANGED <<handle, table>>
    BY DEF AdmitKnown, AdmitNew, UseInv
  <1>2. /\ stored[t] = None => stored' = [stored EXCEPT ![t] = ty]
                               /\ counter' = [counter EXCEPT ![t] = 2]
        /\ stored[t] # None => stored' = stored
                               /\ counter' = [counter EXCEPT ![t] = @ + 1]
    BY DEF AdmitKnown, AdmitNew
  <1>3. stored[t] = None => HoldersOf(t) = {}
    BY NoneAssumption DEF UseInv, HoldersOf
  <1>4. TypeOK'
    BY <1>1, <1>2 DEF TypeOK, table
  <1>5. UseInv'
    BY <1>1, <1>2, NoneAssumption DEF UseInv, TypeOK
  <1>6. CounterExact'
    <2> SUFFICES ASSUME NEW s \in Topics
                 PROVE  counter'[s] = IF stored'[s] = None THEN 0
                                      ELSE Cardinality(HoldersOf(s))' + 1
      BY DEF CounterExact
    <2>1. Cardinality(HoldersOf(s))' = Cardinality(HoldersOf(s)) + IF s = t THEN 1 ELSE 0
      BY <1>1, HolderEnters
    <2>2. Cardinality(HoldersOf(s)) \in Nat /\ (HoldersOf(s) = {} => Cardinality(HoldersOf(s)) = 0)
      BY CountUsers DEF HoldersOf
    <2>3. QED
      BY <1>2, <1>3, <2>1, <2>2, NoneAssumption DEF CounterExact, TypeOK
  <1>7. QED
    BY <1>4, <1>5, <1>6

\* A user that vanishes gives its counter back.
LEMMA VanishStep ==
  ASSUME Inv, NEW u \in Users, pc[u] \notin {"none", "gone"}, Vanish(u)
  PROVE  Inv'
  <1> USE DEF Inv
  <1>1. /\ topic[u] \in Topics /\ stored[topic[u]] # None
        /\ counter' = [counter EXCEPT ![topic[u]] = @ - 1]
        /\ pc' = [pc EXCEPT ![u] = "gone"]
        /\ topic' = [topic EXCEPT ![u] = None]
        /\ type' = [type EXCEPT ![u] = None]
        /\ UNCHANGED <<stored, handle, table>>
    BY DEF Vanish, CounterReleased, UseInv, TypeOK
  <1>2. \A s \in Topics : /\ Cardinality(HoldersOf(s))' =
                               Cardinality(HoldersOf(s)) - IF s = topic[u] THEN 1 ELSE 0
                          /\ Cardinality(HoldersOf(s)) \in Nat
    BY <1>1, HolderLeaves, CountUsers DEF HoldersOf
  <1>3. u \in HoldersOf(topic[u]) /\ HoldersOf(topic[u]) \in SUBSET Users
    BY DEF HoldersOf
  <1>4. counter[topic[u]] - 1 \in Nat
    BY <1>1, <1>2, <1>3, CountUsers DEF CounterExact
  <1>5. TypeOK'
    BY <1>1, <1>4 DEF TypeOK, table
  <1>6. UseInv'
    BY <1>1 DEF UseInv, TypeOK
  <1>7. CounterExact'
    BY <1>1, <1>2 DEF CounterExact, TypeOK
  <1>8. QED
    BY <1>5, <1>6, <1>7


\* A clone is one more holder.
LEMMA CloneStep ==
  ASSUME Inv, NEW u \in Users, NEW c \in Users, Clone(u, c)
  PROVE  Inv'
  <1> USE DEF Inv
  <1>1. /\ pc[u] = "live" /\ pc[c] = "none" /\ u # c
        /\ topic[u] \in Topics /\ type[u] \in Types /\ topic[c] = None
        /\ stored[topic[u]] # None
        /\ counter' = [counter EXCEPT ![topic[u]] = @ + 1]
        /\ pc' = [pc EXCEPT ![c] = "live"]
        /\ topic' = [topic EXCEPT ![c] = topic[u]]
        /\ type' = [type EXCEPT ![c] = type[u]]
        /\ handle' = [handle EXCEPT ![c] = handle[u]]
        /\ UNCHANGED <<stored, table>>
    BY DEF Clone, CounterCloned, UseInv, TypeOK
  <1>2. TypeOK'
    BY <1>1 DEF TypeOK, table
  <1>3. UseInv'
    BY <1>1, NoneAssumption DEF UseInv, TypeOK
  <1>4. CounterExact'
    <2> SUFFICES ASSUME NEW s \in Topics
                 PROVE  counter'[s] = IF stored'[s] = None THEN 0
                                      ELSE Cardinality(HoldersOf(s))' + 1
      BY DEF CounterExact
    <2>1. Cardinality(HoldersOf(s))' =
            Cardinality(HoldersOf(s)) + IF s = topic[u] THEN 1 ELSE 0
      BY <1>1, HolderEnters
    <2>2. Cardinality(HoldersOf(s)) \in Nat
      BY CountUsers DEF HoldersOf
    <2>3. QED
      BY <1>1, <2>1, <2>2 DEF CounterExact, TypeOK
  <1>5. QED
    BY <1>2, <1>3, <1>4

\* A count stays a u16.
LEMMA CountWraps ==
  ASSUME NEW n \in 0..(CounterMod - 1)
  PROVE  /\ (n + 1) % CounterMod \in 0..(CounterMod - 1)
         /\ (n - 1) % CounterMod \in 0..(CounterMod - 1)
         /\ 0 \in 0..(CounterMod - 1)
  <1>1. CounterMod \in Nat
    BY CounterAssumption
  <1>2. CounterMod > 0
    BY <1>1
  <1>3. QED
    BY <1>1, <1>2

\* The steps on the table, which leave the counters alone.
LEMMA TableKeepsCounters ==
  ASSUME Inv, NEW u \in Users,
         \/ CreateWriter(u) \/ Lookup(u) \/ Insert(u) \/ AddReader(u)
         \/ DropShared(u) \/ LeaveTable(u)
  PROVE  Inv'
  <1> USE DEF Inv
  <1>1. UNCHANGED <<map, use, link>>
    BY DEF CreateWriter, Lookup, Insert, AddReader, DropShared, LeaveTable, table
  <1>2. /\ pc[u] \notin {"none", "gone"}
        /\ \E place \in {"insert", "add", "live", "left"} :
             /\ pc' = [pc EXCEPT ![u] = place]
             /\ place \in {"insert", "add", "left"} => u \in Readers
    BY DEF CreateWriter, Lookup, Insert, AddReader, DropShared, LeaveTable, UseInv
  <1>3. topic[u] \in Topics /\ type[u] \in Types /\ Bus(u) \in BusTopics
    BY <1>2, BusAssumption DEF UseInv, TypeOK, Bus
  <1>4. UseInv'
    BY <1>1, <1>2 DEF UseInv, TypeOK, map, use
  <1>5. CounterExact'
    BY <1>1 DEF CounterExact, HoldersOf, map, use
  <1>6. master' \in [BusTopics -> Types \cup {None}]
    BY <1>3 DEF TypeOK, table, CreateWriter, Lookup, Insert, AddReader, DropShared, LeaveTable
  <1>7. readers' \in [BusTopics -> 0..(CounterMod - 1)]
    <2>1. readers \in [BusTopics -> 0..(CounterMod - 1)] /\ readers[Bus(u)] \in 0..(CounterMod - 1)
      BY <1>3 DEF TypeOK
    <2>2. /\ (readers[Bus(u)] + 1) % CounterMod \in 0..(CounterMod - 1)
          /\ (readers[Bus(u)] - 1) % CounterMod \in 0..(CounterMod - 1)
          /\ 0 \in 0..(CounterMod - 1)
      BY <2>1, CountWraps
    <2>3. \/ readers' = readers
          \/ \E n \in 0..(CounterMod - 1) : readers' = [readers EXCEPT ![Bus(u)] = n]
      BY <2>2 DEF table, CreateWriter, Lookup, Insert, AddReader, DropShared, LeaveTable
    <2>4. QED
      BY <2>1, <2>3
  <1>8. TypeOK'
    BY <1>1, <1>2, <1>6, <1>7 DEF TypeOK, map, use
  <1>9. QED
    BY <1>4, <1>5, <1>8

LEMMA InitInv == Init => Inv
  <1> SUFFICES ASSUME Init PROVE Inv
    OBVIOUS
  <1>1. TypeOK
    <2>1. 0 \in 0..(CounterMod - 1)
      BY CounterAssumption, KindAssumption, FS_Subset, FS_CardinalityType DEF Users
    <2>2. QED
      BY <2>1 DEF Init, TypeOK
  <1>2. UseInv
    BY DEF Init, UseInv
  <1>3. CounterExact
    BY DEF Init, CounterExact
  <1>4. QED
    BY <1>1, <1>2, <1>3 DEF Inv

LEMMA StepInv == Inv /\ [Next]_vars => Inv'
  <1> SUFFICES ASSUME Inv, [Next]_vars PROVE Inv'
    OBVIOUS
  <1>1. CASE UNCHANGED vars
    <2> USE <1>1 DEF Inv, vars, map, use, table
    <2>1. TypeOK'
      BY DEF TypeOK
    <2>2. UseInv'
      BY DEF UseInv
    <2>3. CounterExact'
      BY DEF CounterExact, HoldersOf
    <2>4. QED
      BY <2>1, <2>2, <2>3
  <1>2. CASE Shutdown
    <2>1. 0 \in 0..(CounterMod - 1)
      BY CounterAssumption, KindAssumption, FS_Subset, FS_CardinalityType DEF Users
    <2>2. TypeOK'
      BY <1>2, <2>1 DEF Inv, TypeOK, Shutdown, map, use
    <2>3. UseInv'
      BY <1>2 DEF Inv, UseInv, Shutdown, map, use
    <2>4. CounterExact'
      BY <1>2 DEF Inv, CounterExact, HoldersOf, Shutdown, map, use
    <2>5. QED
      BY <2>2, <2>3, <2>4 DEF Inv
  <1>3. ASSUME NEW u \in Users, Admit(u)
        PROVE  Inv'
    BY <1>3, AdmitStep DEF Admit
  <1>4. ASSUME NEW u \in Users,
               CreateFails(u) \/ CastPanics(u) \/ AddPanics(u) \/ DropCounter(u)
        PROVE  Inv'
    BY <1>4, VanishStep DEF CreateFails, CastPanics, AddPanics, DropCounter
  <1>5. ASSUME NEW u \in Users,
               \/ CreateWriter(u) \/ Lookup(u) \/ Insert(u) \/ AddReader(u)
               \/ DropShared(u) \/ LeaveTable(u)
        PROVE  Inv'
    BY <1>5, TableKeepsCounters
  <1>6. ASSUME NEW u \in Users, NEW c \in Users, Clone(u, c)
        PROVE  Inv'
    BY <1>6, CloneStep
  <1>7. QED
    BY <1>1, <1>2, <1>3, <1>4, <1>5, <1>6 DEF Next

\* What is stored, counted and cast has the types declared for it, the u16
\* counts of the table included.
THEOREM TypeCorrect == Spec => []TypeOK
  <1>1. Inv => TypeOK
    BY DEF Inv
  <1>2. QED
    BY <1>1, InitInv, StepInv, PTL DEF Spec

\* The PossessCtr of a topic is exact: get_topic_ctr finds it unique when, and
\* only when, no reader and no writer of the topic exists, whatever overlaps,
\* fails, panics or is given up.
THEOREM CountersExact == Spec => []CounterExact
  <1>1. Inv => CounterExact
    BY DEF Inv
  <1>2. QED
    BY <1>1, InitInv, StepInv, PTL DEF Spec

-----------------------------------------------------------------------------
(* The invariant of the table, when creations on one bus topic do not       *)
(* overlap.                                                                 *)

Places == {"none", "admitted", "insert", "add", "live", "left", "gone"}

\* A reader that has not been counted has an AsbReaderNet of its own.
Fresh ==
  \A u \in Users : pc[u] \in {"none", "admitted", "insert", "add"} =>
    handle[u] = u /\ \A v \in Users : handle[v] = u => v = u

OneCreation ==
  \A u, v \in Readers :
    /\ pc[u] \in {"insert", "add"}
    /\ pc[v] \in {"insert", "add"}
    /\ Bus(u) = Bus(v)
    => u = v

\* A creation that found no ringmaster still finds none when it inserts its own,
\* and the one it adds itself to has its type.
Pending ==
  \A u \in Readers :
    /\ pc[u] = "insert" => master[Bus(u)] = None
    /\ pc[u] = "add" => master[Bus(u)] \in {None, type[u]}

Handles(b) == {handle[u] : u \in RegisteredOn(b)}

Matches(b) ==
  /\ readers[b] = Cardinality(Handles(b))
  /\ \A u \in RegisteredOn(b) : type[u] = master[b]
  /\ master[b] # None => RegisteredOn(b) # {} \/ CreatingOn(b) # {}

TableInv ==
  /\ Fresh
  /\ OneCreation
  /\ link = "up" => Pending /\ \A b \in BusTopics : Matches(b)

\* The AsbReaderNets of a bus topic are fewer than a u16 counts to.
LEMMA HandlesFinite ==
  ASSUME NEW S \in SUBSET Readers
  PROVE  /\ IsFiniteSet({handle[u] : u \in S})
         /\ Cardinality({handle[u] : u \in S}) \in 0..(CounterMod - 1)
         /\ Cardinality({handle[u] : u \in S}) = 0 <=> S = {}
  <1>1. IsFiniteSet(Readers) /\ IsFiniteSet(S) /\ Cardinality(S) <= Cardinality(Readers)
    BY KindAssumption, FS_Subset DEF Users
  <1>2. /\ IsFiniteSet({handle[u] : u \in S})
        /\ Cardinality({handle[u] : u \in S}) <= Cardinality(S)
    <2> DEFINE f == [u \in S |-> handle[u]]
    <2>1. f \in Surjection(S, {handle[u] : u \in S})
      BY DEF Surjection
    <2>2. QED
      BY <1>1, <2>1, FS_Surjection
  <1>3. /\ Cardinality(Readers) \in Nat /\ Cardinality(S) \in Nat
        /\ Cardinality({handle[u] : u \in S}) \in Nat
    BY <1>1, <1>2, FS_CardinalityType
  <1>4. Cardinality({handle[u] : u \in S}) = 0 <=> {handle[u] : u \in S} = {}
    BY <1>2, FS_EmptySet
  <1>5. Cardinality({handle[u] : u \in S}) \in 0..(CounterMod - 1)
    BY <1>1, <1>2, <1>3, CounterAssumption
  <1>6. {handle[u] : u \in S} = {} <=> S = {}
    OBVIOUS
  <1>7. QED
    BY <1>2, <1>4, <1>5, <1>6

\* A reader that exists has a bus topic and a type.
LEMMA ReaderTyped ==
  ASSUME Inv, NEW u \in Users, pc[u] \notin {"none", "gone"}
  PROVE  topic[u] \in Topics /\ type[u] \in Types /\ Bus(u) \in BusTopics
  BY BusAssumption DEF Inv, TypeOK, UseInv, Bus

\* Creations keep out of each other's way, and handles are given to new readers
\* or to clones.
LEMMA FreshStep ==
  ASSUME Inv, Fresh, [Next]_vars
  PROVE  Fresh'
  <1> USE DEF map, use, table
  <1>0. handle \in [Users -> Users] /\ pc \in [Users -> Places]
    BY DEF Inv, TypeOK, Places
  <1>1. ASSUME NEW u \in Users,
               \/ Admit(u) \/ CreateWriter(u) \/ CreateFails(u)
               \/ Lookup(u) \/ CastPanics(u) \/ Insert(u) \/ AddReader(u) \/ AddPanics(u)
               \/ DropShared(u) \/ LeaveTable(u) \/ DropCounter(u)
        PROVE  Fresh'
    <2>1. /\ handle' = handle
          /\ \A v \in Users \ {u} : pc'[v] = pc[v]
          /\ pc'[u] \in {"none", "admitted", "insert", "add"} =>
               pc[u] \in {"none", "admitted", "insert", "add"}
      BY <1>0, <1>1 DEF Admit, AdmitKnown, AdmitNew, CreateWriter, CreateFails, Lookup,
           CastPanics, Insert, AddReader, AddPanics, DropShared, LeaveTable, DropCounter,
           Vanish
    <2>2. QED
      BY <2>1 DEF Fresh
  <1>2. ASSUME NEW u \in Users, NEW c \in Users, Clone(u, c)
        PROVE  Fresh'
    <2>1. /\ pc[u] = "live" /\ pc[c] = "none" /\ pc'[c] = "live"
          /\ handle'[c] = handle[u]
          /\ \A v \in Users \ {c} : pc'[v] = pc[v] /\ handle'[v] = handle[v]
      BY <1>0, <1>2 DEF Clone
    <2>2. QED
      BY <2>1 DEF Fresh
  <1>3. CASE Shutdown \/ UNCHANGED vars
    BY <1>3 DEF Fresh, Shutdown, vars
  <1>4. QED
    BY <1>1, <1>2, <1>3 DEF Next

LEMMA OneCreationStep ==
  ASSUME MayOverlap = FALSE, Inv, OneCreation, [Next]_vars
  PROVE  OneCreation'
  <1> USE DEF map, use, table
  <1>0. /\ pc \in [Users -> Places] /\ topic \in [Users -> Topics \cup {None}]
        /\ Readers \subseteq Users
    BY DEF Inv, TypeOK, Users, Places
  <1>1. ASSUME NEW u \in Users, Lookup(u)
        PROVE  OneCreation'
    <2>1. /\ topic' = topic /\ u \in Readers
          /\ \A v \in Users \ {u} : pc'[v] = pc[v]
          /\ \A v \in Readers : pc[v] \in {"insert", "add"} => Bus(v) # Bus(u)
      BY <1>0, <1>1 DEF Lookup, CreatingOn, On
    <2>2. QED
      BY <1>0, <2>1 DEF OneCreation, Bus
  <1>2. ASSUME NEW u \in Users, Insert(u)
        PROVE  OneCreation'
    <2>1. /\ topic' = topic /\ pc[u] = "insert"
          /\ \A v \in Users \ {u} : pc'[v] = pc[v]
      BY <1>0, <1>2 DEF Insert
    <2>2. QED
      BY <1>0, <2>1 DEF OneCreation, Bus
  <1>3. ASSUME NEW u \in Users,
               \/ Admit(u) \/ CreateWriter(u) \/ CreateFails(u)
               \/ CastPanics(u) \/ AddReader(u) \/ AddPanics(u)
               \/ DropShared(u) \/ LeaveTable(u) \/ DropCounter(u)
               \/ \E v \in Users : Clone(v, u)
        PROVE  OneCreation'
    <2>1. /\ \A v \in Users \ {u} : pc'[v] = pc[v] /\ topic'[v] = topic[v]
          /\ pc'[u] \notin {"insert", "add"}
      BY <1>0, <1>3 DEF Admit, AdmitKnown, AdmitNew, CreateWriter, CreateFails, CastPanics,
           AddReader, AddPanics, DropShared, LeaveTable, DropCounter, Vanish, Clone
    <2>2. QED
      BY <1>0, <2>1 DEF OneCreation, Bus
  <1>4. CASE Shutdown \/ UNCHANGED vars
    BY <1>4 DEF OneCreation, Bus, Shutdown, vars
  <1>5. QED
    BY <1>1, <1>2, <1>3, <1>4 DEF Next

-----------------------------------------------------------------------------
(* The steps that leave the table alone. *)

\* A user that is not counted before or after does not matter to the table, if
\* it leaves no entry behind and finds the one it is about to use.
LEMMA TableSame ==
  ASSUME Inv, TableInv, link = "up", NEW u \in Users,
         UNCHANGED <<master, readers>>,
         \A v \in Users \ {u} : /\ pc'[v] = pc[v] /\ topic'[v] = topic[v]
                                /\ type'[v] = type[v] /\ handle'[v] = handle[v],
         u \in Readers => pc[u] # "live" /\ pc'[u] # "live",
         u \in Readers /\ pc[u] \in {"insert", "add"} =>
           \/ master[Bus(u)] = None
           \/ pc'[u] \in {"insert", "add"} /\ topic'[u] = topic[u],
         u \in Readers /\ pc'[u] = "insert" => master[BusOf[topic'[u]]] = None,
         u \in Readers /\ pc'[u] = "add" => master[BusOf[topic'[u]]] \in {None, type'[u]}
  PROVE  Pending' /\ \A b \in BusTopics : Matches(b)'
  <1>0. Readers \subseteq Users
    BY DEF Users
  <1>1. Pending'
    BY <1>0 DEF TableInv, Pending, Bus
  <1>2. ASSUME NEW b \in BusTopics
        PROVE  Matches(b)'
    <2>1. Matches(b)
      BY DEF TableInv
    <2>2. /\ RegisteredOn(b)' = RegisteredOn(b)
          /\ \A v \in RegisteredOn(b) : v # u /\ v \in Users
      BY <1>0 DEF RegisteredOn, On, Bus
    <2>3. Handles(b)' = Handles(b) /\ \A v \in RegisteredOn(b) : type'[v] = type[v]
      BY <2>2 DEF Handles
    <2>4. master[b] # None /\ CreatingOn(b) # {} => CreatingOn(b)' # {}
      <3> SUFFICES ASSUME master[b] # None, NEW v \in CreatingOn(b)
                   PROVE  v \in CreatingOn(b)'
        OBVIOUS
      <3>1. v \in Readers /\ v \in Users /\ pc[v] \in {"insert", "add"} /\ BusOf[topic[v]] = b
        BY <1>0 DEF CreatingOn, On, Bus
      <3>2. pc'[v] \in {"insert", "add"} /\ topic'[v] = topic[v]
        BY <3>1 DEF Bus
      <3>3. QED
        BY <3>1, <3>2 DEF CreatingOn, On, Bus
    <2>5. QED
      BY <2>1, <2>2, <2>3, <2>4 DEF Matches
  <1>3. QED
    BY <1>1, <1>2

\* The steps of users that are not counted, the look-up among them.
LEMMA UncountedStep ==
  ASSUME Inv, TableInv, link = "up", NEW u \in Users,
         \/ Admit(u) \/ CreateWriter(u) \/ CreateFails(u) \/ Lookup(u)
         \/ CastPanics(u) \/ AddPanics(u) \/ DropCounter(u)
         \/ u \notin Readers /\ \E v \in Users : Clone(v, u)
  PROVE  Pending' /\ \A b \in BusTopics : Matches(b)'
  <1> USE DEF map, use, table
  <1>0. /\ pc \in [Users -> Places]
        /\ topic \in [Users -> Topics \cup {None}]
        /\ type \in [Users -> Types \cup {None}]
        /\ handle \in [Users -> Users]
    BY DEF Inv, TypeOK, Places
  <1>1. /\ UNCHANGED <<master, readers>>
        /\ \A v \in Users \ {u} : /\ pc'[v] = pc[v] /\ topic'[v] = topic[v]
                                  /\ type'[v] = type[v] /\ handle'[v] = handle[v]
    BY <1>0 DEF Admit, AdmitKnown, AdmitNew, CreateWriter, CreateFails, Lookup,
         CastPanics, AddPanics, DropCounter, Vanish, Clone
  <1>2. u \in Readers => pc[u] # "live" /\ pc'[u] # "live"
    BY <1>0, KindAssumption DEF Admit, AdmitKnown, AdmitNew, CreateWriter, CreateFails, Lookup,
         CastPanics, AddPanics, DropCounter, Vanish
  <1>3. CASE Lookup(u)
    <2>1. /\ pc[u] = "admitted" /\ topic' = topic /\ type' = type
          /\ master[Bus(u)] \in {None, type[u]}
          /\ pc'[u] = "insert" => master[Bus(u)] = None
      BY <1>0, <1>3 DEF Lookup, CastSucceeds
    <2>2. QED
      BY <1>1, <1>2, <2>1, TableSame DEF Bus
  <1>4. CASE ~Lookup(u)
    <2>1. pc'[u] \notin {"insert", "add"}
      BY <1>0, <1>4 DEF Admit, AdmitKnown, AdmitNew, CreateWriter, CreateFails,
           CastPanics, AddPanics, DropCounter, Vanish, Clone
    <2>2. u \in Readers /\ pc[u] \in {"insert", "add"} => master[Bus(u)] = None
      <3>1. u \in Readers /\ pc[u] = "insert" => master[Bus(u)] = None
        BY DEF TableInv, Pending
      <3>2. u \in Readers /\ pc[u] = "add" => AddPanics(u)
        BY <1>4, KindAssumption DEF Admit, AdmitKnown, AdmitNew, CreateWriter, CreateFails,
             CastPanics, DropCounter
      <3>3. AddPanics(u) => master[Bus(u)] = None
        BY DEF AddPanics
      <3>4. QED
        BY <3>1, <3>2, <3>3
    <2>3. QED
      BY <1>1, <1>2, <2>1, <2>2, TableSame
  <1>5. QED
    BY <1>3, <1>4

-----------------------------------------------------------------------------
(* The steps that change the table or the readers it counts. *)

\* The ringmaster that is inserted is the first.
LEMMA InsertStep ==
  ASSUME Inv, TableInv, link = "up", NEW u \in Users, Insert(u)
  PROVE  Pending' /\ \A b \in BusTopics : Matches(b)'
  <1> USE DEF map, use
  <1>1. /\ pc[u] = "insert" /\ u \in Readers /\ Readers \subseteq Users
        /\ topic[u] \in Topics /\ type[u] \in Types /\ Bus(u) \in BusTopics
        /\ UNCHANGED <<topic, type, handle>>
        /\ pc'[u] = "add" /\ \A v \in Users \ {u} : pc'[v] = pc[v]
    BY ReaderTyped DEF Inv, TypeOK, UseInv, Insert, Users
  <1>2. /\ master'[Bus(u)] = type[u] /\ readers'[Bus(u)] = 0
        /\ \A b \in BusTopics \ {Bus(u)} : master'[b] = master[b] /\ readers'[b] = readers[b]
    BY <1>1 DEF Inv, TypeOK, Insert
  <1>3. \A b \in BusTopics : RegisteredOn(b)' = RegisteredOn(b) /\ Handles(b)' = Handles(b)
    <2>1. \A b \in BusTopics : RegisteredOn(b)' = RegisteredOn(b)
      BY <1>1 DEF RegisteredOn, On, Bus
    <2>2. QED
      BY <1>1, <2>1 DEF Handles
  <1>4. \A v \in Readers \ {u} : pc[v] \in {"insert", "add"} => Bus(v) # Bus(u)
    BY <1>1 DEF TableInv, OneCreation
  <1>5. Pending'
    <2> SUFFICES ASSUME NEW v \in Readers
                 PROVE  /\ pc'[v] = "insert" => master'[Bus(v)'] = None
                        /\ pc'[v] = "add" => master'[Bus(v)'] \in {None, type'[v]}
      BY DEF Pending
    <2>1. Bus(v)' = Bus(v)
      BY <1>1 DEF Bus
    <2>2. CASE v = u
      BY <1>1, <1>2, <2>1, <2>2
    <2>3. CASE v # u /\ pc[v] \in {"insert", "add"}
      <3>1. Bus(v) \in BusTopics \ {Bus(u)} /\ pc'[v] = pc[v]
        BY <1>1, <1>4, <2>3, ReaderTyped
      <3>2. QED
        BY <1>1, <1>2, <2>1, <3>1 DEF TableInv, Pending
    <2>4. CASE v # u /\ pc[v] \notin {"insert", "add"}
      BY <1>1, <2>4
    <2>5. QED
      BY <2>2, <2>3, <2>4
  <1>6. ASSUME NEW b \in BusTopics
        PROVE  Matches(b)'
    <2>1. Matches(b)
      BY DEF TableInv
    <2>2. CASE b = Bus(u)
      <3>1. master[b] = None
        BY <1>1, <2>2 DEF TableInv, Pending
      <3>2. RegisteredOn(b) = {}
        <4> SUFFICES ASSUME NEW v \in RegisteredOn(b) PROVE FALSE
          OBVIOUS
        <4>1. type[v] \in Types
          BY <1>1, ReaderTyped DEF RegisteredOn, On
        <4>2. QED
          BY <2>1, <3>1, <4>1, NoneAssumption DEF Matches
      <3>3. Cardinality(Handles(b)) = 0
        BY <3>2, HandlesFinite DEF Handles
      <3>4. u \in CreatingOn(b)'
        BY <1>1, <2>2 DEF CreatingOn, On, Bus
      <3>5. QED
        BY <1>2, <1>3, <2>2, <3>2, <3>3, <3>4 DEF Matches
    <2>3. CASE b # Bus(u)
      <3>1. CreatingOn(b)' = CreatingOn(b)
        BY <1>1, <2>3 DEF CreatingOn, On, Bus
      <3>2. QED
        BY <1>1, <1>2, <1>3, <2>1, <2>3, <3>1 DEF Matches
    <2>4. QED
      BY <2>2, <2>3
  <1>7. QED
    BY <1>5, <1>6

\* What the steps below have in common: b is the only bus topic they touch.
LEMMA OneTopic ==
  ASSUME Inv, TableInv, link = "up", NEW u \in Readers, NEW b \in BusTopics,
         UNCHANGED master \/ (pc[u] = "live" /\ master'[b] = None),
         \A a \in BusTopics \ {b} : master'[a] = master[a] /\ readers'[a] = readers[a],
         \A v \in Users \ {u} : /\ pc'[v] = pc[v] /\ topic'[v] = topic[v]
                                /\ type'[v] = type[v] /\ handle'[v] = handle[v],
         BusOf[topic'[u]] = b,
         pc[u] \in {"none", "gone"} \/ Bus(u) = b,
         pc'[u] \notin {"insert", "add"},
         Matches(b)'
  PROVE  Pending' /\ \A a \in BusTopics : Matches(a)'
  <1>0. Readers \subseteq Users
    BY DEF Users
  <1>1. Pending'
    <2> SUFFICES ASSUME NEW v \in Readers, pc'[v] \in {"insert", "add"}
                 PROVE  /\ pc'[v] = "insert" => master'[Bus(v)'] = None
                        /\ pc'[v] = "add" => master'[Bus(v)'] \in {None, type'[v]}
      BY DEF Pending
    <2>1. v # u /\ v \in Users /\ pc[v] = pc'[v] /\ Bus(v)' = Bus(v) /\ type'[v] = type[v]
      BY <1>0 DEF Bus
    <2>2. Bus(v) \in BusTopics
      BY <2>1, ReaderTyped
    <2>3. master'[Bus(v)] \in {master[Bus(v)], None}
      BY <2>2
    <2>4. QED
      BY <2>1, <2>3 DEF TableInv, Pending
  <1>2. ASSUME NEW a \in BusTopics \ {b}
        PROVE  Matches(a)'
    <2>1. RegisteredOn(a)' = RegisteredOn(a) /\ CreatingOn(a)' = CreatingOn(a)
      BY <1>0 DEF RegisteredOn, CreatingOn, On, Bus
    <2>2. \A v \in RegisteredOn(a) : v # u /\ v \in Users
      BY <1>0, <2>1 DEF RegisteredOn, On, Bus
    <2>3. Handles(a)' = Handles(a)
      BY <2>1, <2>2 DEF Handles
    <2>4. QED
      BY <2>1, <2>2, <2>3 DEF TableInv, Matches
  <1>3. QED
    BY <1>1, <1>2

\* The AsbReaderNet of a new reader is one more.
LEMMA AddReaderStep ==
  ASSUME Inv, TableInv, link = "up", NEW u \in Users, AddReader(u)
  PROVE  Pending' /\ \A b \in BusTopics : Matches(b)'
  <1> USE DEF map, use
  <1>1. /\ pc[u] = "add" /\ u \in Readers /\ Readers \subseteq Users
        /\ Bus(u) \in BusTopics
        /\ UNCHANGED <<topic, type, handle, master>>
        /\ pc'[u] = "live" /\ \A v \in Users \ {u} : pc'[v] = pc[v]
        /\ master[Bus(u)] # None
    BY ReaderTyped DEF Inv, TypeOK, UseInv, AddReader, Users
  <1> DEFINE b == Bus(u)
  <1>2. /\ readers'[b] = (readers[b] + 1) % CounterMod
        /\ \A a \in BusTopics \ {b} : readers'[a] = readers[a]
    BY <1>1 DEF Inv, TypeOK, AddReader
  <1>3. Matches(b) /\ type[u] = master[b]
    BY <1>1 DEF TableInv, Pending
  <1>4. RegisteredOn(b)' = RegisteredOn(b) \cup {u}
    BY <1>1 DEF RegisteredOn, On, Bus
  <1>5. Handles(b)' = Handles(b) \cup {u} /\ u \notin Handles(b)
    <2>1. handle[u] = u /\ \A v \in Users : handle[v] = u => v = u
      BY <1>1 DEF TableInv, Fresh
    <2>2. \A v \in RegisteredOn(b) : v \in Users /\ v # u
      BY <1>1 DEF RegisteredOn, On
    <2>3. QED
      BY <1>1, <1>4, <2>1, <2>2 DEF Handles
  <1>6. /\ IsFiniteSet(Handles(b))
        /\ Cardinality(Handles(b)) \in 0..(CounterMod - 1)
        /\ Cardinality(Handles(b) \cup {u}) \in 0..(CounterMod - 1)
    <2>1. RegisteredOn(b) \in SUBSET Readers /\ RegisteredOn(b) \cup {u} \in SUBSET Readers
      BY <1>1 DEF RegisteredOn, On
    <2>2. {handle[v] : v \in RegisteredOn(b) \cup {u}} = Handles(b) \cup {u}
      BY <1>1, <1>4, <1>5 DEF Handles
    <2>3. QED
      BY <2>1, <2>2, HandlesFinite DEF Handles
  <1>7. Cardinality(Handles(b) \cup {u}) = Cardinality(Handles(b)) + 1
    BY <1>5, <1>6, FS_AddElement
  <1>8. readers'[b] = Cardinality(Handles(b)')
    <2>1. Cardinality(Handles(b)) + 1 \in 0..(CounterMod - 1) /\ CounterMod \in Nat
      BY <1>6, <1>7, CounterAssumption
    <2>2. (Cardinality(Handles(b)) + 1) % CounterMod = Cardinality(Handles(b)) + 1
      BY <2>1, <1>6
    <2>3. QED
      BY <1>2, <1>3, <1>5, <1>7, <2>2 DEF Matches
  <1>9. readers'[b] = Cardinality(Handles(b))' /\ b' = b
    BY <1>1, <1>8 DEF Bus
  <1>10. Matches(b)'
    BY <1>1, <1>3, <1>4, <1>9 DEF Matches
  <1>11. PICK c \in BusTopics : c = Bus(u)
    BY <1>1
  <1>12. Matches(c)' /\ BusOf[topic'[u]] = c
    BY <1>1, <1>10, <1>11, <1>9 DEF Bus
  <1>13. QED
    BY <1>1, <1>2, <1>11, <1>12, OneTopic DEF Bus

\* A clone has the type and the AsbReaderNet of a reader that is counted.
LEMMA CloneReaderStep ==
  ASSUME Inv, TableInv, link = "up", NEW u \in Users, NEW c \in Readers, Clone(u, c)
  PROVE  Pending' /\ \A b \in BusTopics : Matches(b)'
  <1> USE DEF map, use, table
  <1>1. /\ pc[u] = "live" /\ pc[c] = "none" /\ u # c /\ u \in Readers
        /\ Readers \subseteq Users
        /\ Bus(u) \in BusTopics
        /\ UNCHANGED <<master, readers>>
        /\ pc'[c] = "live" /\ topic'[c] = topic[u]
        /\ type'[c] = type[u] /\ handle'[c] = handle[u]
        /\ \A v \in Users \ {c} : /\ pc'[v] = pc[v] /\ topic'[v] = topic[v]
                                  /\ type'[v] = type[v] /\ handle'[v] = handle[v]
    BY ReaderTyped DEF Inv, TypeOK, Clone, Users
  <1>2. PICK b \in BusTopics : b = Bus(u)
    BY <1>1
  <1>3. RegisteredOn(b)' = RegisteredOn(b) \cup {c} /\ u \in RegisteredOn(b)
    BY <1>1, <1>2 DEF RegisteredOn, On, Bus
  <1>4. \A v \in RegisteredOn(b) : v \in Users /\ v # c
    BY <1>1 DEF RegisteredOn, On
  <1>5. Handles(b)' = Handles(b)
    BY <1>1, <1>3, <1>4 DEF Handles
  <1>6. Matches(b)'
    BY <1>1, <1>3, <1>4, <1>5 DEF TableInv, Matches
  <1>7. BusOf[topic'[c]] = b
    BY <1>1, <1>2 DEF Bus
  <1>8. QED
    BY <1>1, <1>6, <1>7, OneTopic

\* The drop of a clone leaves the AsbReaderNet to the others.
LEMMA DropSharedStep ==
  ASSUME Inv, TableInv, link = "up", NEW u \in Users, DropShared(u)
  PROVE  Pending' /\ \A b \in BusTopics : Matches(b)'
  <1> USE DEF map, use, table
  <1>1. /\ pc[u] = "live" /\ u \in Readers /\ Readers \subseteq Users
        /\ Bus(u) \in BusTopics
        /\ UNCHANGED <<master, readers, topic, type, handle>>
        /\ pc'[u] = "left" /\ \A v \in Users \ {u} : pc'[v] = pc[v]
    BY ReaderTyped DEF Inv, TypeOK, DropShared, Users
  <1>2. PICK b \in BusTopics : b = Bus(u)
    BY <1>1
  <1>3. RegisteredOn(b)' = RegisteredOn(b) \ {u}
    BY <1>1 DEF RegisteredOn, On, Bus
  <1>4. PICK v \in RegisteredOn(b) \ {u} : handle[v] = handle[u]
    BY <1>2 DEF DropShared, IsShared
  <1>5. Handles(b)' = Handles(b)
    BY <1>1, <1>2, <1>3, <1>4 DEF Handles, RegisteredOn, On
  <1>6. Matches(b)'
    BY <1>1, <1>3, <1>4, <1>5 DEF TableInv, Matches
  <1>7. BusOf[topic'[u]] = b
    BY <1>1, <1>2 DEF Bus
  <1>8. QED
    BY <1>1, <1>2, <1>6, <1>7, OneTopic

\* The drop of the last of the clones takes its AsbReaderNet away, and with the
\* last of these the entry goes.
LEMMA LeaveTableStep ==
  ASSUME Inv, TableInv, link = "up", NEW u \in Users, LeaveTable(u)
  PROVE  Pending' /\ \A b \in BusTopics : Matches(b)'
  <1> USE DEF map, use
  <1>1. /\ pc[u] = "live" /\ u \in Readers /\ Readers \subseteq Users
        /\ Bus(u) \in BusTopics /\ type[u] # None
        /\ UNCHANGED <<topic, type, handle>>
        /\ pc'[u] = "left" /\ \A v \in Users \ {u} : pc'[v] = pc[v]
    BY ReaderTyped, NoneAssumption DEF Inv, TypeOK, LeaveTable, Users
  <1>2. PICK b \in BusTopics : b = Bus(u)
    BY <1>1
  <1>3. RegisteredOn(b)' = RegisteredOn(b) \ {u} /\ u \in RegisteredOn(b)
    BY <1>1, <1>2 DEF RegisteredOn, On, Bus
  <1>4. Handles(b)' = Handles(b) \ {handle[u]} /\ handle[u] \in Handles(b)
    <2>1. \A v \in RegisteredOn(b) \ {u} : handle[v] # handle[u]
      BY <1>2 DEF LeaveTable, IsShared
    <2>2. QED
      BY <1>1, <1>3, <2>1 DEF Handles
  <1>5. Matches(b) /\ master[b] # None
    BY <1>1, <1>3 DEF TableInv, Matches
  <1>6. /\ IsFiniteSet(Handles(b)) /\ RegisteredOn(b) \in SUBSET Readers
        /\ Cardinality(Handles(b)) \in 0..(CounterMod - 1)
    BY HandlesFinite DEF Handles, RegisteredOn, On
  <1>7. Cardinality(Handles(b)') = Cardinality(Handles(b)) - 1
    <2>1. Cardinality(Handles(b) \ {handle[u]}) = Cardinality(Handles(b)) - 1
      BY <1>4, <1>6, FS_RemoveElement
    <2>2. QED
      BY <1>4, <2>1
  <1>8. /\ Cardinality(Handles(b)') \in 0..(CounterMod - 1)
        /\ Cardinality(Handles(b)') = 0 <=> RegisteredOn(b)' = {}
    <2>1. RegisteredOn(b) \ {u} \in SUBSET Readers
      BY <1>6
    <2>2. Handles(b)' = {handle[v] : v \in RegisteredOn(b) \ {u}}
      BY <1>1, <1>3 DEF Handles
    <2>3. QED
      BY <1>3, <2>1, <2>2, HandlesFinite
  <1>9. /\ \A a \in BusTopics \ {b} : master'[a] = master[a] /\ readers'[a] = readers[a]
        /\ \/ /\ readers[b] # 1
              /\ readers'[b] = (readers[b] - 1) % CounterMod
              /\ master' = master
           \/ /\ readers[b] = 1
              /\ readers'[b] = 0
              /\ master'[b] = None
    BY <1>2, <1>5 DEF Inv, TypeOK, LeaveTable
  <1>10. readers[b] = Cardinality(Handles(b))
    BY <1>5 DEF Matches
  <1>11. readers'[b] = Cardinality(Handles(b)')
    <2>1. CASE readers[b] = 1
      BY <1>7, <1>9, <1>10, <2>1
    <2>2. CASE readers[b] # 1
      <3>1. readers[b] - 1 \in 0..(CounterMod - 1) /\ CounterMod \in Nat
        BY <1>7, <1>8, <1>10, CounterAssumption
      <3>2. (readers[b] - 1) % CounterMod = readers[b] - 1
        BY <3>1, <1>6, <1>10
      <3>3. QED
        BY <1>7, <1>9, <1>10, <2>2, <3>2
    <2>3. QED
      BY <2>1, <2>2
  <1>12. Matches(b)'
    <2>1. readers'[b] = Cardinality(Handles(b))'
      BY <1>11
    <2>2. CASE RegisteredOn(b)' = {}
      <3>1. readers[b] = 1
        BY <1>6, <1>7, <1>8, <1>10, <2>2
      <3>2. master'[b] = None
        BY <1>9, <3>1
      <3>3. QED
        BY <2>1, <2>2, <3>2 DEF Matches
    <2>3. CASE RegisteredOn(b)' # {}
      <3>1. readers[b] # 1
        BY <1>6, <1>7, <1>8, <1>10, <2>3
      <3>2. master' = master
        BY <1>9, <3>1
      <3>3. QED
        BY <1>1, <1>3, <1>5, <2>1, <2>3, <3>2 DEF Matches
    <2>4. QED
      BY <2>2, <2>3
  <1>13. BusOf[topic'[u]] = b
    BY <1>1, <1>2 DEF Bus
  <1>14. UNCHANGED master \/ (pc[u] = "live" /\ master'[b] = None)
    BY <1>1, <1>9
  <1>15. QED
    BY <1>1, <1>2, <1>9, <1>12, <1>13, <1>14, OneTopic

-----------------------------------------------------------------------------
(* The theorem. *)

\* The table is empty at first.
LEMMA TableInit == Init => TableInv
  <1> SUFFICES ASSUME Init PROVE TableInv
    OBVIOUS
  <1>0. Readers \subseteq Users
    BY DEF Users
  <1>1. Fresh /\ OneCreation /\ Pending
    BY <1>0 DEF Init, Fresh, OneCreation, Pending
  <1>2. ASSUME NEW b \in BusTopics
        PROVE  Matches(b)
    <2>1. RegisteredOn(b) = {}
      BY <1>0 DEF Init, RegisteredOn, On
    <2>2. Cardinality(Handles(b)) = 0
      BY <2>1, HandlesFinite DEF Handles
    <2>3. QED
      BY <2>1, <2>2 DEF Init, Matches
  <1>3. QED
    BY <1>1, <1>2 DEF TableInv

\* Every step keeps the invariant of the table.
LEMMA TableStep ==
  ASSUME MayOverlap = FALSE, Inv, TableInv, [Next]_vars
  PROVE  TableInv'
  <1>1. Fresh' /\ OneCreation'
    BY FreshStep, OneCreationStep DEF TableInv
  <1>2. ASSUME link' = "up"
        PROVE  Pending' /\ \A b \in BusTopics : Matches(b)'
    <2>1. link = "up"
      BY <1>2 DEF Next, Admit, AdmitKnown, AdmitNew, CreateWriter, CreateFails, Lookup,
           CastPanics, Insert, AddReader, AddPanics, Clone, DropShared, LeaveTable,
           DropCounter, Vanish, Shutdown, table, vars
    <2>2. CASE UNCHANGED vars
      <3> USE <2>2 DEF vars, use, table
      <3>1. Pending'
        BY <2>1 DEF TableInv, Pending, Bus
      <3>2. ASSUME NEW b \in BusTopics PROVE Matches(b)'
        BY <2>1 DEF TableInv, Matches, Handles, RegisteredOn, CreatingOn, On, Bus
      <3>3. QED
        BY <3>1, <3>2
    <2>3. CASE Shutdown
      BY <1>2, <2>3 DEF Shutdown
    <2>4. ASSUME NEW u \in Users, Insert(u)
          PROVE  Pending' /\ \A b \in BusTopics : Matches(b)'
      BY <2>1, <2>4, InsertStep
    <2>5. ASSUME NEW u \in Users, AddReader(u)
          PROVE  Pending' /\ \A b \in BusTopics : Matches(b)'
      BY <2>1, <2>5, AddReaderStep
    <2>6. ASSUME NEW u \in Users, NEW c \in Users, Clone(u, c)
          PROVE  Pending' /\ \A b \in BusTopics : Matches(b)'
      BY <2>1, <2>6, CloneReaderStep, UncountedStep
    <2>7. ASSUME NEW u \in Users, DropShared(u)
          PROVE  Pending' /\ \A b \in BusTopics : Matches(b)'
      BY <2>1, <2>7, DropSharedStep
    <2>8. ASSUME NEW u \in Users, LeaveTable(u)
          PROVE  Pending' /\ \A b \in BusTopics : Matches(b)'
      BY <2>1, <2>8, LeaveTableStep
    <2>9. ASSUME NEW u \in Users,
                 \/ Admit(u) \/ CreateWriter(u) \/ CreateFails(u) \/ Lookup(u)
                 \/ CastPanics(u) \/ AddPanics(u) \/ DropCounter(u)
          PROVE  Pending' /\ \A b \in BusTopics : Matches(b)'
      BY <2>1, <2>9, UncountedStep
    <2>10. QED
      BY <2>2, <2>3, <2>4, <2>5, <2>6, <2>7, <2>8, <2>9 DEF Next
  <1>3. QED
    BY <1>1, <1>2 DEF TableInv

\* While the network is up, the readers of one bus topic have the type of its
\* ringmaster and the count of the entry is theirs, also where client topics of
\* different types share the bus topic, if no two creations overlap there; drops,
\* failed and abandoned creations may overlap with anything, and the network may
\* fail at any time.
THEOREM NobodyMiscast ==
  ASSUME MayOverlap = FALSE
  PROVE  Spec => []ReadersMatchRingmaster
  <1>1. Inv /\ TableInv /\ [Next]_vars => TableInv'
    BY TableStep
  <1>2. TableInv => ReadersMatchRingmaster
    BY DEF TableInv, Matches, Handles, ReadersMatchRingmaster
  <1>3. QED
    BY <1>1, <1>2, InitInv, StepInv, TableInit, PTL DEF Spec

=============================================================================
