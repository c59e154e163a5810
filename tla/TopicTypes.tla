----------------------------- MODULE TopicTypes -----------------------------
(***************************************************************************)
(* The types of topics: AsbConnection::topics remembers for each client    *)
(* topic a type and a possession counter that every reader and writer of   *)
(* the topic holds; a network's table holds for each bus topic a           *)
(* ringmaster that is cast to the type of every further reader.            *)
(*                                                                         *)
(* Readers register with the table as in MqttReaders; of a ringmaster only *)
(* its type is kept here, and senders, subscriptions and the order of the  *)
(* steps of a drop before del_reader are left to that module.  A reader or *)
(* writer is created at most once.                                         *)
(***************************************************************************)
EXTENDS Integers, FiniteSets

CONSTANTS Readers,    \* readers ...
          Writers,    \* ... and writers, each created or cloned at most once
          Topics,     \* client topics
          BusTopics,  \* bus topics
          BusOf,      \* the bus topic that the config gives a client topic
          Types,      \* message types
          None,       \* no topic, no type
          CounterMod, \* the reader count is a u16: arithmetic modulo 2^16
          MayOverlap  \* whether clients create two readers of one bus topic
                      \* at the same time

Users == Readers \cup Writers

ASSUME KindAssumption == Readers \cap Writers = {} /\ IsFiniteSet(Users)
ASSUME BusAssumption == BusOf \in [Topics -> BusTopics]
ASSUME NoneAssumption == None \notin Types \cup Topics
ASSUME CounterAssumption == CounterMod \in Nat /\ Cardinality(Readers) < CounterMod
ASSUME OverlapAssumption == MayOverlap \in BOOLEAN

VARIABLES stored,   \* for each topic in the map, the type stored there
          counter,  \* for each topic in the map, its PossessCtr
          pc,       \* for each user, where it is in its life
          topic,    \* for each user that exists, its topic
          type,     \* for each user that exists, its type
          handle,   \* for each reader, its AsbReaderNet, shared by clones
          master,   \* for each bus topic with a ringmaster, its type
          readers,  \* for each bus topic, its reader count
          link      \* "up"; "down" after the table has been shut down

map == <<stored, counter>>
use == <<topic, type, handle>>
table == <<master, readers, link>>
vars == <<map, pc, use, table>>

\* The users that hold the counter of topic t.
HoldersOf(t) == {u \in Users : topic[u] = t}

Bus(u) == BusOf[topic[u]]

\* The readers of bus topic b that are in one of the places.
On(b, places) == {u \in Readers : pc[u] \in places /\ Bus(u) = b}

\* The readers whose AsbReaderNet has been counted in and not been dropped.
RegisteredOn(b) == On(b, {"live"})

\* The readers between their look-up of the entry and their registration.
CreatingOn(b) == On(b, {"insert", "add"})

-----------------------------------------------------------------------------
Init ==
  /\ stored = [t \in Topics |-> None]
  /\ counter = [t \in Topics |-> 0]
  /\ pc = [u \in Users |-> "none"]
  /\ topic = [u \in Users |-> None]
  /\ type = [u \in Users |-> None]
  /\ handle = [u \in Users |-> u]
  /\ master = [b \in BusTopics |-> None]
  /\ readers = [b \in BusTopics |-> 0]
  /\ link = "up"

\* get_topic_ctr, for a topic in the map: the stored type, or any type while
\* nothing but the map holds the counter.
IsAdmitted(t, ty) == ty = stored[t] \/ counter[t] = 1

\* The stored type stays what it was.
AdmitKnown(u, t, ty) ==
  /\ pc[u] = "none"
  /\ stored[t] # None
  /\ IsAdmitted(t, ty)
  /\ counter' = [counter EXCEPT ![t] = @ + 1]
  /\ pc' = [pc EXCEPT ![u] = "admitted"]
  /\ topic' = [topic EXCEPT ![u] = t]
  /\ type' = [type EXCEPT ![u] = ty]
  /\ UNCHANGED <<stored, handle, table>>

\* One count is the map's, one the user's.
AdmitNew(u, t, ty) ==
  /\ pc[u] = "none"
  /\ stored[t] = None
  /\ stored' = [stored EXCEPT ![t] = ty]
  /\ counter' = [counter EXCEPT ![t] = 2]
  /\ pc' = [pc EXCEPT ![u] = "admitted"]
  /\ topic' = [topic EXCEPT ![u] = t]
  /\ type' = [type EXCEPT ![u] = ty]
  /\ UNCHANGED <<handle, table>>

CounterKept(u) == counter

\* Drop of a PossessCtr.
CounterReleased(u) == [counter EXCEPT ![topic[u]] = @ - 1]

\* What u had is gone, its PossessCtr last.
Vanish(u) ==
  /\ counter' = CounterReleased(u)
  /\ pc' = [pc EXCEPT ![u] = "gone"]
  /\ topic' = [topic EXCEPT ![u] = None]
  /\ type' = [type EXCEPT ![u] = None]
  /\ UNCHANGED <<stored, handle, table>>

CreateWriter(u) ==
  /\ u \in Writers
  /\ pc[u] = "admitted"
  /\ pc' = [pc EXCEPT ![u] = "live"]
  /\ UNCHANGED <<map, use, table>>

-----------------------------------------------------------------------------
(* create_mqtt_reader_async. *)

UncheckedCast(u) == TRUE

\* The ringmaster found is downcast to the type of the reader.
CastSucceeds(u) == master[Bus(u)] \in {None, type[u]}

\* get_clone_for and the cast of what it finds.
Lookup(u) ==
  /\ u \in Readers
  /\ pc[u] = "admitted"
  /\ CastSucceeds(u)
  /\ MayOverlap \/ CreatingOn(Bus(u)) = {}
  /\ pc' = [pc EXCEPT ![u] = IF master[Bus(u)] = None THEN "insert" ELSE "add"]
  /\ UNCHANGED <<map, use, table>>

\* downcast().unwrap() panics; the counter is dropped as the stack unwinds.
CastPanics(u) ==
  /\ u \in Readers
  /\ pc[u] = "admitted"
  /\ ~CastSucceeds(u)
  /\ Vanish(u)

\* After the await of subscribe: an entry put there since is overwritten.
Insert(u) ==
  /\ pc[u] = "insert"
  /\ master' = [master EXCEPT ![Bus(u)] = type[u]]
  /\ readers' = [readers EXCEPT ![Bus(u)] = 0]
  /\ pc' = [pc EXCEPT ![u] = "add"]
  /\ UNCHANGED <<map, use, link>>

AddReader(u) ==
  /\ pc[u] = "add"
  /\ master[Bus(u)] # None
  /\ readers' = [readers EXCEPT ![Bus(u)] = (@ + 1) % CounterMod]
  /\ pc' = [pc EXCEPT ![u] = "live"]
  /\ UNCHANGED <<map, use, master, link>>

\* add_reader(..).unwrap() panics: the entry has gone.
AddPanics(u) ==
  /\ pc[u] = "add"
  /\ master[Bus(u)] = None
  /\ Vanish(u)

\* The creation returns an error (no config, for a writer also a network that
\* fails), or its future is dropped at the await.
CreateFails(u) ==
  /\ pc[u] \in {"admitted", "insert"}
  /\ Vanish(u)

-----------------------------------------------------------------------------
(* Clone and Drop, and the end of the network. *)

\* Clone of a PossessCtr.
CounterCloned(u) == [counter EXCEPT ![topic[u]] = @ + 1]

\* A clone shares the type, the topic, the counter, and the AsbReaderNet.
Clone(u, c) ==
  /\ pc[u] = "live"
  /\ pc[c] = "none"
  /\ u \in Readers <=> c \in Readers
  /\ counter' = CounterCloned(u)
  /\ pc' = [pc EXCEPT ![c] = "live"]
  /\ topic' = [topic EXCEPT ![c] = topic[u]]
  /\ type' = [type EXCEPT ![c] = type[u]]
  /\ handle' = [handle EXCEPT ![c] = handle[u]]
  /\ UNCHANGED <<stored, table>>

\* Another clone keeps the AsbReaderNet alive.
IsShared(u) == \E v \in RegisteredOn(Bus(u)) \ {u} : handle[v] = handle[u]

\* The fields of an AsbReader are dropped in the order of their declaration,
\* the AsbReaderNet before the counter.
DropShared(u) ==
  /\ u \in Readers
  /\ pc[u] = "live"
  /\ IsShared(u)
  /\ pc' = [pc EXCEPT ![u] = "left"]
  /\ UNCHANGED <<map, use, table>>

\* del_reader: the count is that of whatever entry the bus topic has by now.
LeaveTable(u) ==
  /\ u \in Readers
  /\ pc[u] = "live"
  /\ ~IsShared(u)
  /\ LET b == Bus(u)
     IN  \/ /\ master[b] = None
            /\ UNCHANGED <<master, readers>>
         \/ /\ master[b] # None
            /\ readers[b] # 1
            /\ readers' = [readers EXCEPT ![b] = (@ - 1) % CounterMod]
            /\ UNCHANGED master
         \/ /\ master[b] # None
            /\ readers[b] = 1
            /\ readers' = [readers EXCEPT ![b] = 0]
            /\ master' = [master EXCEPT ![b] = None]
  /\ pc' = [pc EXCEPT ![u] = "left"]
  /\ UNCHANGED <<map, use, link>>

DropCounter(u) ==
  /\ pc[u] = IF u \in Readers THEN "left" ELSE "live"
  /\ Vanish(u)

\* MqttAsb::shutdown empties the table, whoever lives or is being created.
\* Readers may be created after a failure of the link; after the drop of the
\* connection none are, which allows no more than the failure does.
Shutdown ==
  /\ link = "up"
  /\ link' = "down"
  /\ master' = [b \in BusTopics |-> None]
  /\ readers' = [b \in BusTopics |-> 0]
  /\ UNCHANGED <<map, pc, use>>

-----------------------------------------------------------------------------
Admit(u) ==
  \E t \in Topics, ty \in Types : AdmitKnown(u, t, ty) \/ AdmitNew(u, t, ty)

Next ==
  \/ \E u \in Users :
       \/ Admit(u) \/ CreateWriter(u) \/ CreateFails(u)
       \/ Lookup(u) \/ CastPanics(u) \/ Insert(u) \/ AddReader(u) \/ AddPanics(u)
       \/ \E c \in Users : Clone(u, c)
       \/ DropShared(u) \/ LeaveTable(u) \/ DropCounter(u)
  \/ Shutdown

Spec == Init /\ [][Next]_vars

-----------------------------------------------------------------------------
(* Safety. *)

\* Types.
TypeOK ==
  /\ stored \in [Topics -> Types \cup {None}]
  /\ counter \in [Topics -> Nat]
  /\ pc \in [Users -> {"none", "admitted", "insert", "add", "live", "left", "gone"}]
  /\ topic \in [Users -> Topics \cup {None}]
  /\ type \in [Users -> Types \cup {None}]
  /\ handle \in [Users -> Users]
  /\ master \in [BusTopics -> Types \cup {None}]
  /\ readers \in [BusTopics -> 0..(CounterMod - 1)]
  /\ link \in {"up", "down"}

\* The counter is one more than the readers and writers that hold it: it
\* never says unique while one of them exists, and it always does after,
\* whether their creations return, fail, panic or are given up.
CounterExact ==
  \A t \in Topics :
    counter[t] = IF stored[t] = None THEN 0 ELSE Cardinality(HoldersOf(t)) + 1

\* While the network is up, the table agrees with the readers it is about,
\* although it goes by bus topics and types go by client topics: it counts their
\* AsbReaderNets, its ringmaster decodes messages as the type of each of them,
\* and there is none left over for the next type to be cast to.  (The shutdown
\* empties the table under the readers there are.)
ReadersMatchRingmaster ==
  link = "up" =>
    \A b \in BusTopics :
      /\ readers[b] = Cardinality({handle[u] : u \in RegisteredOn(b)})
      /\ \A u \in RegisteredOn(b) : type[u] = master[b]
      /\ master[b] # None => RegisteredOn(b) # {} \/ CreatingOn(b) # {}

-----------------------------------------------------------------------------
(* What a comment says of types. *)

\* "[get_topic_ctr] at start of fn ensures TypeId of `T` matches any readers
\* on this topic": the cast does not fail.
CastSafe == \A u \in Readers : pc[u] = "admitted" => CastSucceeds(u)

=============================================================================
