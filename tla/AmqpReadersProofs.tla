-------------------------- MODULE AmqpReadersProofs --------------------------
(***************************************************************************)
(* Proofs about AmqpReaders, for any number of readers and topics, with or *)
(* without an exchange.  The types need no more than that.  That nothing   *)
(* panics, and that the channel survives, needs creations that no drop     *)
(* overlaps on their bus topic; the rest, creations that no other creation *)
(* overlaps there either.  Creations may be abandoned or fail, and the     *)
(* server may close the channel or the connection, at any time.            *)
(***************************************************************************)
EXTENDS AmqpReaders, FiniteSetTheorems, TLAPS

USE DEF Creating

-----------------------------------------------------------------------------
(* Types.  That what is bound has been declared needs to know that a queue  *)
(* the broker has named stays until its reader has consumed from it.        *)

\* Only a creation that has got so far has a consumer.
ConsumersOld == \A r \in consumers : pc[r] \notin {"unused", "declare", "bind", "consume"}

\* A queue that is to be bound is there.
BindDeclared == chan = "open" => \A r \in Readers : pc[r] = "bind" => exchange /\ r \in queues

TypeInv == TypeOK /\ ConsumersOld /\ BindDeclared

\* The initial state has its types.
LEMMA TypeInit == Init => TypeInv
  <1> SUFFICES ASSUME Init PROVE TypeInv
    OBVIOUS
  <1>1. 0 \in 0..(CounterMod - 1)
    BY CounterAssumption, FS_CardinalityType
  <1>2. TypeOK
    BY <1>1 DEF Init, TypeOK
  <1>3. QED
    BY <1>2 DEF Init, TypeInv, ConsumersOld, BindDeclared

\* A count stays a u16 when it is incremented or decremented.
LEMMA CountWraps ==
  ASSUME NEW n \in 0..(CounterMod - 1)
  PROVE  /\ (n + 1) % CounterMod \in 0..(CounterMod - 1)
         /\ (n - 1) % CounterMod \in 0..(CounterMod - 1)
         /\ 0 \in 0..(CounterMod - 1)
  <1>1. CounterMod \in Nat /\ CounterMod > 0
    BY CounterAssumption, FS_CardinalityType
  <1>2. QED
    BY <1>1

\* Emptying the table keeps the types.
LEMMA ShutdownTypes ==
  ASSUME TypeOK, ShutdownTable
  PROVE  /\ master' \in [Topics -> Readers \cup {None}]
         /\ count' \in [Topics -> 0..(CounterMod - 1)]
         /\ senders' \in [Readers -> SUBSET Readers]
  <1>1. 0 \in 0..(CounterMod - 1)
    BY CounterAssumption, FS_CardinalityType
  <1>2. QED
    BY <1>1 DEF ShutdownTable, TypeOK

\* Taking consumers away leaves what is bound declared.
LEMMA BrokerTypes ==
  ASSUME TypeOK,
         (\E c : BrokerCancel(c)) \/ ChannelGone \/ ConnectionGone \/ UNCHANGED broker
  PROVE  /\ queues' \subseteq Topics \cup Readers
         /\ bound' \subseteq queues'
         /\ consumers' \subseteq consumers
  BY DEF TypeOK, BrokerCancel, ChannelGone, ConnectionGone, broker

\* Every step keeps the types.
LEMMA TypeStep == TypeInv /\ [Next]_vars => TypeOK'
  <1> SUFFICES ASSUME TypeOK, ConsumersOld, BindDeclared, [Next]_vars PROVE TypeOK'
    BY DEF TypeInv
  <1> USE DEF table, client, broker, Goto
  <1>1. ASSUME NEW r \in Readers, Lookup(r)
        PROVE  TypeOK'
    BY <1>1, NoneAssumption DEF TypeOK, Lookup, Ringmaster
  <1>2. ASSUME NEW r \in Readers, Declare(r)
        PROVE  TypeOK'
    <2>1. QueueOf(r) \in Topics \cup Readers
      BY DEF TypeOK, QueueOf
    <2>2. QED
      BY <1>2, <2>1 DEF TypeOK, Declare, Declared
  <1>3. ASSUME NEW r \in Readers, Bind(r)
        PROVE  TypeOK'
    <2>1. QueueOf(r) \in queues
      BY <1>3 DEF BindDeclared, Bind, QueueOf
    <2>2. QED
      BY <1>3, <2>1 DEF TypeOK, Bind, BoundToTopic
  <1>4. ASSUME NEW r \in Readers, Consume(r)
        PROVE  TypeOK'
    <2>1. /\ queues' \subseteq Topics \cup Readers
          /\ bound' \subseteq queues'
          /\ consumers' \subseteq Readers
      BY <1>4, BrokerTypes DEF TypeOK, Consume
    <2>2. QED
      BY <1>4, <2>1 DEF TypeOK, Consume
  <1>5. ASSUME NEW r \in Readers, RequestFails(r) \/ Abandon(r)
        PROVE  TypeOK'
    BY <1>5 DEF TypeOK, RequestFails, Abandon
  <1>6. ASSUME NEW r \in Readers, Insert(r)
        PROVE  TypeOK'
    <2>1. count' \in [Topics -> 0..(CounterMod - 1)]
      BY <1>6, CountWraps DEF TypeOK, Insert
    <2>2. QED
      BY <1>6, <2>1 DEF TypeOK, Insert, Inserted
  <1>7. ASSUME NEW r \in Readers, AddReader(r)
        PROVE  TypeOK'
    <2>1. count \in [Topics -> 0..(CounterMod - 1)] /\ topic[r] \in Topics
      BY DEF TypeOK
    <2>2. (count[topic[r]] + 1) % CounterMod \in 0..(CounterMod - 1)
      BY <2>1, CountWraps
    <2>3. count' \in [Topics -> 0..(CounterMod - 1)]
      BY <1>7, <2>1, <2>2 DEF AddReader
    <2>4. QED
      BY <1>7, <2>3 DEF TypeOK, AddReader
  <1>8. ASSUME NEW r \in Readers, Attach(r) \/ RemoveSender(r) \/ DropShared(r)
        PROVE  TypeOK'
    <2>1. senders' \in [Readers -> SUBSET Readers]
      <3>1. \/ senders' = senders
            \/ senders' = [senders EXCEPT ![rm[r]] = @ \cup {r}]
            \/ senders' = [senders EXCEPT ![rm[r]] = @ \ {r}]
        BY <1>8 DEF Attach, RemoveSender, SenderRemoved, DropShared
      <3>2. senders \in [Readers -> SUBSET Readers]
        BY DEF TypeOK
      <3>3. QED
        BY <3>1, <3>2
    <2>2. \/ pc' = [pc EXCEPT ![r] = "live"]
          \/ pc' = [pc EXCEPT ![r] = "detached"]
          \/ pc' = [pc EXCEPT ![r] = "gone"]
      BY <1>8 DEF Attach, RemoveSender, DropShared
    <2>3. UNCHANGED <<exchange, table, client, broker, chan>>
      BY <1>8 DEF Attach, RemoveSender, DropShared
    <2>4. QED
      BY <2>1, <2>2, <2>3 DEF TypeOK
  <1>9. ASSUME NEW r \in Readers, NEW c \in Readers, Clone(r, c)
        PROVE  TypeOK'
    BY <1>9 DEF TypeOK, Clone
  <1>10. ASSUME NEW r \in Readers, DelReader(r)
         PROVE  TypeOK'
    <2>1. count \in [Topics -> 0..(CounterMod - 1)] /\ topic[r] \in Topics
      BY DEF TypeOK
    <2>2. /\ (count[topic[r]] - 1) % CounterMod \in 0..(CounterMod - 1)
          /\ 0 \in 0..(CounterMod - 1)
      BY <2>1, CountWraps
    <2>3. count' \in [Topics -> 0..(CounterMod - 1)]
      BY <1>10, <2>1, <2>2 DEF DelReader
    <2>4. master' \in [Topics -> Readers \cup {None}]
      BY <1>10, <2>1 DEF TypeOK, DelReader
    <2>5. senders' \in [Readers -> SUBSET Readers]
      <3>1. \/ senders' = senders
            \/ senders' = [senders EXCEPT ![master[topic[r]]] = {}]
        BY <1>10 DEF DelReader
      <3>2. QED
        BY <3>1 DEF TypeOK
    <2>6. tag' \in [Readers -> Readers]
      <3>1. \/ tag' = tag
            \/ tag' = [tag EXCEPT ![r] = master[topic[r]]] /\ master[topic[r]] # None
        BY <1>10 DEF DelReader, CancelledTag
      <3>2. QED
        BY <2>1, <3>1 DEF TypeOK
    <2>7. pc' = [pc EXCEPT ![r] = "gone"] \/ pc' = [pc EXCEPT ![r] = "cancel"]
      BY <1>10 DEF DelReader
    <2>8. UNCHANGED <<exchange, topic, rm, handle, broker, chan>>
      BY <1>10 DEF DelReader
    <2>9. QED
      BY <2>3, <2>4, <2>5, <2>6, <2>7, <2>8 DEF TypeOK
  <1>11. ASSUME NEW r \in Readers, Cancel(r)
         PROVE  TypeOK'
    <2>1. /\ queues' \subseteq Topics \cup Readers
          /\ bound' \subseteq queues'
          /\ consumers' \subseteq consumers
      BY <1>11, BrokerTypes DEF Cancel
    <2>2. QED
      BY <1>11, <2>1 DEF TypeOK, Cancel
  <1>12. CASE ServerClosesChannel \/ ServerClosesConnection
    <2>1. /\ queues' \subseteq Topics \cup Readers
          /\ bound' \subseteq queues'
          /\ consumers' \subseteq consumers
      BY <1>12, BrokerTypes DEF ServerClosesChannel, ServerClosesConnection
    <2>2. QED
      BY <1>12, <2>1 DEF TypeOK, ServerClosesChannel, ServerClosesConnection
  <1>13. CASE Close
    <2>1. /\ queues' \subseteq Topics \cup Readers
          /\ bound' \subseteq queues'
          /\ consumers' \subseteq consumers
      BY <1>13, BrokerTypes DEF Close
    <2>2. /\ master' \in [Topics -> Readers \cup {None}]
          /\ count' \in [Topics -> 0..(CounterMod - 1)]
          /\ senders' \in [Readers -> SUBSET Readers]
      BY <1>13, ShutdownTypes DEF Close
    <2>3. QED
      BY <1>13, <2>1, <2>2 DEF TypeOK, Close
  <1>14. CASE UNCHANGED vars
    BY <1>14 DEF TypeOK, vars
  <1>15. QED
    BY <1>1, <1>2, <1>3, <1>4, <1>5, <1>6, <1>7, <1>8, <1>9, <1>10, <1>11, <1>12, <1>13, <1>14
       DEF Next, ReaderStep

\* A cancelled consumer takes at most its own queue with it, and that only if
\* no other consumer is left there.
LEMMA CancelDeletes ==
  ASSUME NEW x, BrokerCancel(x)
  PROVE  /\ consumers' = consumers \ {x}
         /\ queues' \subseteq queues
         /\ \A q \in queues : q \in queues' \/ (x \in consumers /\ q = QueueOf(x))
         /\ \A q \in bound : q \in bound' \/ (x \in consumers /\ q = QueueOf(x))
         /\ \A c \in consumers \ {x} : /\ QueueOf(c) \in queues => QueueOf(c) \in queues'
                                       /\ QueueOf(c) \in bound => QueueOf(c) \in bound'
         /\ \A q \in queues' : x \in consumers /\ q = QueueOf(x) =>
                              \E c \in consumers \ {x} : q = QueueOf(c)
  BY DEF BrokerCancel, AutoDeleted

\* Every step leaves the consumers to creations that have got so far.
LEMMA ConsumersOldStep == TypeOK /\ ConsumersOld /\ [Next]_vars => ConsumersOld'
  <1> SUFFICES ASSUME TypeOK, ConsumersOld, [Next]_vars PROVE ConsumersOld'
    OBVIOUS
  <1> USE DEF table, client, broker, Goto
  <1>1. ASSUME NEW r \in Readers,
               \/ pc'[r] \notin {"unused", "declare", "bind", "consume"}
               \/ pc[r] \in {"unused", "declare", "bind", "consume"},
               \A q \in Readers \ {r} : pc'[q] = pc[q],
               consumers' \subseteq consumers
        PROVE  ConsumersOld'
    BY <1>1 DEF ConsumersOld, TypeOK
  <1>2. ASSUME NEW r \in Readers,
               \/ Lookup(r) \/ Declare(r) \/ Bind(r) \/ RequestFails(r) \/ Abandon(r)
               \/ Insert(r) \/ AddReader(r) \/ Attach(r) \/ RemoveSender(r) \/ DropShared(r)
        PROVE  ConsumersOld'
    <2>1. /\ consumers' = consumers
          /\ \A q \in Readers \ {r} : pc'[q] = pc[q]
          /\ \/ pc'[r] \notin {"unused", "declare", "bind", "consume"}
             \/ pc[r] \in {"unused", "declare", "bind", "consume"}
      BY <1>2 DEF TypeOK, Lookup, Declare, Bind, RequestFails, Abandon, Insert, AddReader,
                  Attach, RemoveSender, DropShared
    <2>2. QED
      BY <1>1, <2>1
  <1>3. ASSUME NEW r \in Readers, Consume(r)
        PROVE  ConsumersOld'
    <2>1. /\ consumers' = consumers \cup {r} \/ consumers' = {}
          /\ pc'[r] \in {"insert", "failed"}
          /\ \A q \in Readers \ {r} : pc'[q] = pc[q]
      BY <1>3 DEF TypeOK, Consume, ChannelGone
    <2>2. QED
      BY <2>1 DEF ConsumersOld, TypeOK
  <1>4. ASSUME NEW r \in Readers, NEW c \in Readers, Clone(r, c)
        PROVE  ConsumersOld'
    <2>1. /\ consumers' = consumers
          /\ pc'[c] = "live"
          /\ \A q \in Readers \ {c} : pc'[q] = pc[q]
      BY <1>4 DEF TypeOK, Clone
    <2>2. QED
      BY <1>1, <2>1
  <1>5. ASSUME NEW r \in Readers, DelReader(r) \/ Cancel(r)
        PROVE  ConsumersOld'
    <2>1. /\ consumers' \subseteq consumers
          /\ pc'[r] \in {"gone", "cancel"}
          /\ \A q \in Readers \ {r} : pc'[q] = pc[q]
      BY <1>5 DEF TypeOK, DelReader, Cancel, BrokerCancel
    <2>2. QED
      BY <1>1, <2>1
  <1>6. CASE ServerClosesChannel \/ ServerClosesConnection \/ Close \/ UNCHANGED vars
    <2>1. consumers' \subseteq consumers /\ pc' = pc
      BY <1>6 DEF ServerClosesChannel, ServerClosesConnection, Close, ChannelGone,
                  ConnectionGone, vars
    <2>2. QED
      BY <2>1 DEF ConsumersOld
  <1>7. QED
    BY <1>2, <1>3, <1>4, <1>5, <1>6 DEF Next, ReaderStep

\* Every step leaves a queue that is to be bound alone.
LEMMA BindDeclaredStep == TypeInv /\ [Next]_vars => BindDeclared'
  <1> SUFFICES ASSUME TypeOK, ConsumersOld, BindDeclared, [Next]_vars, chan' = "open"
               PROVE  BindDeclared'
    BY DEF TypeInv, BindDeclared
  <1> USE DEF table, client, broker, Goto
  <1>1. ASSUME NEW r \in Readers, chan' = chan, exchange' = exchange, queues \subseteq queues',
               pc'[r] # "bind" \/ pc[r] = "bind",
               \A q \in Readers \ {r} : pc'[q] = pc[q]
        PROVE  BindDeclared'
    BY <1>1 DEF BindDeclared
  <1>2. ASSUME NEW r \in Readers,
               \/ Lookup(r) \/ Bind(r) \/ RequestFails(r) \/ Abandon(r)
               \/ Insert(r) \/ AddReader(r) \/ Attach(r) \/ RemoveSender(r)
               \/ DropShared(r) \/ DelReader(r)
        PROVE  BindDeclared'
    <2>1. /\ UNCHANGED <<chan, exchange, queues>>
          /\ pc'[r] # "bind"
          /\ \A q \in Readers \ {r} : pc'[q] = pc[q]
      BY <1>2 DEF TypeOK, Lookup, Bind, RequestFails, Abandon, Insert, AddReader,
                  Attach, RemoveSender, DropShared, DelReader
    <2>2. QED
      BY <1>1, <2>1
  <1>3. ASSUME NEW r \in Readers, Declare(r)
        PROVE  BindDeclared'
    <2>1. /\ UNCHANGED <<chan, exchange>>
          /\ queues' = queues \cup {QueueOf(r)}
          /\ pc'[r] = IF exchange THEN "bind" ELSE "consume"
          /\ \A q \in Readers \ {r} : pc'[q] = pc[q]
      BY <1>3 DEF TypeOK, Declare, Declared
    <2>2. QED
      BY <2>1 DEF BindDeclared, QueueOf
  <1>4. ASSUME NEW r \in Readers, Consume(r)
        PROVE  BindDeclared'
    <2>1. /\ UNCHANGED <<chan, exchange, queues>>
          /\ pc'[r] # "bind"
          /\ \A q \in Readers \ {r} : pc'[q] = pc[q]
      BY <1>4 DEF TypeOK, Consume
    <2>2. QED
      BY <1>1, <2>1
  <1>5. ASSUME NEW r \in Readers, NEW c \in Readers, Clone(r, c)
        PROVE  BindDeclared'
    <2>1. /\ UNCHANGED <<chan, exchange, queues>>
          /\ pc'[c] # "bind"
          /\ \A q \in Readers \ {c} : pc'[q] = pc[q]
      BY <1>5 DEF TypeOK, Clone
    <2>2. QED
      BY <1>1, <2>1
  <1>6. ASSUME NEW r \in Readers, Cancel(r)
        PROVE  BindDeclared'
    <2>1. /\ UNCHANGED <<chan, exchange>> /\ chan = "open"
          /\ BrokerCancel(tag[r])
          /\ pc'[r] # "bind"
          /\ \A q \in Readers \ {r} : pc'[q] = pc[q]
      BY <1>6 DEF TypeOK, Cancel
    <2>2. \A q \in queues : q \in queues' \/ (tag[r] \in consumers /\ q = QueueOf(tag[r]))
      BY <2>1, CancelDeletes
    <2>3. ASSUME NEW q \in Readers, pc'[q] = "bind"
          PROVE  exchange' /\ q \in queues'
      <3>1. exchange /\ q \in queues /\ pc[q] = "bind"
        BY <2>1, <2>3 DEF BindDeclared
      <3>2. q \notin consumers
        BY <3>1 DEF ConsumersOld
      <3>3. QED
        BY <2>1, <2>2, <3>1, <3>2 DEF QueueOf
    <2>4. QED
      BY <2>3 DEF BindDeclared
  <1>7. CASE ServerClosesChannel \/ ServerClosesConnection \/ Close \/ UNCHANGED vars
    BY <1>7 DEF ServerClosesChannel, ServerClosesConnection, Close, vars, BindDeclared
  <1>8. QED
    BY <1>2, <1>3, <1>4, <1>5, <1>6, <1>7 DEF Next, ReaderStep

\* The invariant of the types holds in every reachable state.
LEMMA TypeHolds == Spec => []TypeInv
  <1>1. TypeInv /\ [Next]_vars => TypeInv'
    BY TypeStep, ConsumersOldStep, BindDeclaredStep DEF TypeInv
  <1>2. QED
    BY <1>1, TypeInit, PTL DEF Spec

\* In every reachable state the variables have their types, however creations
\* and drops overlap: the counts stay within a u16, and what is bound to the
\* exchange is a queue that has been declared and not been deleted.
THEOREM TypeCorrect == Spec => []TypeOK
  <1>1. TypeInv => TypeOK
    BY DEF TypeInv
  <1>2. QED
    BY <1>1, TypeHolds, PTL

-----------------------------------------------------------------------------
(* What needs no more than that no drop overlaps a creation on its topic:  *)
(* creations may overlap.                                                  *)

\* A reader whose creation has found an entry or inserted one.
Created(r) == pc[r] \in {"add", "attach", "live", "detached", "cancel", "gone", "panicked"}

\* A ringmaster, and its consumer, were made for the topic of the entry, ...
EntryMade ==
  \A t \in Topics : master[t] # None => topic[master[t]] = t /\ Created(master[t])

\* ... and so was a consumer that is about to be cancelled.
TagMade ==
  \A r \in Readers : pc[r] = "cancel" => topic[tag[r]] = topic[r] /\ Created(tag[r])

MadeHere == EntryMade /\ TagMade

\* Every step keeps ringmasters and tags on the topic they were made for,
\* whatever overlaps.
LEMMA MadeHereStep == TypeOK /\ MadeHere /\ [Next]_vars => MadeHere'
  <1> SUFFICES ASSUME TypeOK, MadeHere, [Next]_vars PROVE MadeHere'
    OBVIOUS
  <1> USE DEF table, client, broker, Goto
  <1>0. ASSUME UNCHANGED <<master, tag>>,
               \A q \in Readers : Created(q) => Created(q)' /\ topic'[q] = topic[q],
               \A q \in Readers : pc'[q] = "cancel" => pc[q] = "cancel"
        PROVE  MadeHere'
    <2>1. EntryMade'
      BY <1>0 DEF MadeHere, EntryMade, TypeOK, Created
    <2>2. ASSUME NEW q \in Readers, pc'[q] = "cancel"
          PROVE  topic'[tag'[q]] = topic'[q] /\ Created(tag[q])'
      <3>1. PICK x \in Readers : x = tag[q]
        BY DEF TypeOK
      <3>2. topic[x] = topic[q] /\ Created(x) /\ Created(q)
        BY <1>0, <2>2, <3>1 DEF MadeHere, TagMade, Created
      <3>3. Created(x)' /\ topic'[x] = topic[x] /\ topic'[q] = topic[q] /\ tag' = tag
        BY <1>0, <3>2
      <3>4. QED
        BY <3>1, <3>2, <3>3 DEF Created
    <2>3. QED
      BY <1>0, <2>1, <2>2 DEF MadeHere, TagMade, Created
  <1>1. ASSUME NEW r \in Readers,
               \/ Lookup(r) \/ Declare(r) \/ Bind(r) \/ Consume(r) \/ RequestFails(r)
               \/ Abandon(r) \/ AddReader(r) \/ Attach(r) \/ RemoveSender(r) \/ DropShared(r)
               \/ Cancel(r)
        PROVE  MadeHere'
    <2>1. /\ UNCHANGED <<master, tag, topic>>
          /\ Created(r) => Created(r)'
          /\ pc'[r] # "cancel"
          /\ \A q \in Readers \ {r} : pc'[q] = pc[q]
      BY <1>1 DEF TypeOK, Created, Lookup, Declare, Bind, Consume, RequestFails, Abandon,
                  AddReader, Attach, RemoveSender, DropShared, Cancel
    <2>2. QED
      BY <1>0, <2>1 DEF Created
  <1>2. ASSUME NEW r \in Readers, NEW c \in Readers, Clone(r, c)
        PROVE  MadeHere'
    <2>1. /\ UNCHANGED <<master, tag>>
          /\ pc[c] = "unused" /\ pc'[c] = "live"
          /\ \A q \in Readers \ {c} : pc'[q] = pc[q] /\ topic'[q] = topic[q]
      BY <1>2 DEF TypeOK, Clone
    <2>2. QED
      BY <1>0, <2>1 DEF Created
  <1>3. ASSUME NEW r \in Readers, Insert(r)
        PROVE  MadeHere'
    <2>1. /\ UNCHANGED <<tag, topic>>
          /\ pc[r] = "insert" /\ pc'[r] = "add"
          /\ \A q \in Readers \ {r} : pc'[q] = pc[q]
          /\ master'[topic[r]] = r
          /\ \A t \in Topics \ {topic[r]} : master'[t] = master[t]
      BY <1>3 DEF TypeOK, Insert, Inserted
    <2>2. EntryMade'
      BY <2>1 DEF MadeHere, EntryMade, TypeOK, Created
    <2>3. TagMade'
      BY <2>1 DEF MadeHere, TagMade, TypeOK, Created
    <2>4. QED
      BY <2>2, <2>3 DEF MadeHere
  <1>4. ASSUME NEW r \in Readers, DelReader(r)
        PROVE  MadeHere'
    <2>1. /\ topic' = topic
          /\ pc[r] = "detached" /\ pc'[r] \in {"gone", "cancel"}
          /\ \A q \in Readers \ {r} : pc'[q] = pc[q] /\ tag'[q] = tag[q]
          /\ \A t \in Topics : master'[t] \in {master[t], None}
          /\ pc'[r] = "cancel" => master[topic[r]] # None /\ tag'[r] = master[topic[r]]
      BY <1>4 DEF TypeOK, DelReader, CancelledTag
    <2>2. topic[r] \in Topics /\ \A q \in Readers : Created(q) => Created(q)'
      BY <2>1 DEF TypeOK, Created
    <2>3. EntryMade'
      BY <2>1, <2>2 DEF MadeHere, EntryMade, TypeOK, Created
    <2>4. TagMade'
      BY <2>1, <2>2 DEF MadeHere, EntryMade, TagMade, TypeOK, Created
    <2>5. QED
      BY <2>3, <2>4 DEF MadeHere
  <1>5. CASE Close
    <2>1. UNCHANGED <<pc, topic, tag>> /\ \A t \in Topics : master'[t] = None
      BY <1>5 DEF Close, ShutdownTable
    <2>2. QED
      BY <2>1 DEF MadeHere, EntryMade, TagMade, Created
  <1>6. CASE ServerClosesChannel \/ ServerClosesConnection \/ UNCHANGED vars
    BY <1>6 DEF MadeHere, EntryMade, TagMade, Created,
                ServerClosesChannel, ServerClosesConnection, vars
  <1>7. QED
    BY <1>1, <1>2, <1>3, <1>4, <1>5, <1>6 DEF Next, ReaderStep

\* No creation is on a topic where a last reader is on its way out.
DropsExcluded ==
  \A r, q \in Readers :
    pc[r] \in Creating /\ pc[q] \in {"detached", "cancel"} => topic[r] # topic[q]

\* Creations and drops keep out of each other's way.
LEMMA DropsExcludedStep ==
  ASSUME "drop" \notin MayOverlap, TypeOK, DropsExcluded, [Next]_vars
  PROVE  DropsExcluded'
  <1> USE DEF table, client, broker, Goto
  <1>1. ASSUME NEW r \in Readers, Lookup(r)
        PROVE  DropsExcluded'
    <2>1. /\ topic' = topic
          /\ pc'[r] \in Creating
          /\ \A q \in Readers \ {r} : pc'[q] = pc[q]
          /\ \A q \in Readers : pc[q] \in {"detached", "cancel"} => topic[q] # topic[r]
      BY <1>1 DEF TypeOK, Lookup, On
    <2>2. QED
      BY <2>1 DEF DropsExcluded
  <1>2. ASSUME NEW r \in Readers,
               \/ Declare(r) \/ Bind(r) \/ Consume(r) \/ RequestFails(r) \/ Abandon(r)
               \/ Insert(r) \/ AddReader(r) \/ Attach(r)
        PROVE  DropsExcluded'
    <2>1. /\ topic' = topic
          /\ pc[r] \in Creating
          /\ pc'[r] \in Creating \cup {"live", "panicked", "failed", "abandoned"}
          /\ \A q \in Readers \ {r} : pc'[q] = pc[q]
      BY <1>2 DEF TypeOK, Declare, Bind, Consume, RequestFails, Abandon, Insert, AddReader, Attach
    <2>2. QED
      BY <2>1 DEF DropsExcluded
  <1>3. ASSUME NEW r \in Readers, RemoveSender(r)
        PROVE  DropsExcluded'
    <2>1. /\ topic' = topic
          /\ pc'[r] = "detached"
          /\ \A q \in Readers \ {r} : pc'[q] = pc[q]
          /\ \A q \in Readers : pc[q] \in Creating => topic[q] # topic[r]
      BY <1>3 DEF TypeOK, RemoveSender, On
    <2>2. QED
      BY <2>1 DEF DropsExcluded
  <1>4. ASSUME NEW r \in Readers, DropShared(r) \/ DelReader(r) \/ Cancel(r)
        PROVE  DropsExcluded'
    <2>1. /\ topic' = topic
          /\ pc[r] \in {"detached", "cancel"}
          /\ pc'[r] \in {"cancel", "gone"}
          /\ \A q \in Readers \ {r} : pc'[q] = pc[q]
      BY <1>4 DEF TypeOK, DropShared, DelReader, Cancel
    <2>2. QED
      BY <2>1 DEF DropsExcluded
  <1>5. ASSUME NEW r \in Readers, NEW c \in Readers, Clone(r, c)
        PROVE  DropsExcluded'
    <2>1. /\ pc'[c] = "live"
          /\ \A q \in Readers \ {c} : pc'[q] = pc[q] /\ topic'[q] = topic[q]
      BY <1>5 DEF TypeOK, Clone
    <2>2. QED
      BY <2>1 DEF DropsExcluded
  <1>6. CASE ServerClosesChannel \/ ServerClosesConnection \/ Close \/ UNCHANGED vars
    BY <1>6 DEF DropsExcluded, ServerClosesChannel, ServerClosesConnection, Close, vars
  <1>7. QED
    BY <1>1, <1>2, <1>3, <1>4, <1>5, <1>6 DEF Next, ReaderStep

\* A creation that is about to count itself in finds an entry.
EntryToAdd == \A r \in Readers : pc[r] = "add" => master[topic[r]] # None

\* No entry goes while a creation is on its way to it.
LEMMA EntryToAddStep ==
  ASSUME TypeOK, DropsExcluded, EntryToAdd, [Next]_vars
  PROVE  EntryToAdd'
  <1> USE DEF table, client, broker, Goto
  <1>1. ASSUME NEW r \in Readers, Lookup(r)
        PROVE  EntryToAdd'
    <2>1. /\ UNCHANGED <<master, topic>>
          /\ pc'[r] = "add" => master[topic[r]] # None
          /\ \A q \in Readers \ {r} : pc'[q] = pc[q]
      BY <1>1 DEF TypeOK, Lookup
    <2>2. QED
      BY <2>1 DEF EntryToAdd
  <1>2. ASSUME NEW r \in Readers, Insert(r)
        PROVE  EntryToAdd'
    <2>1. /\ topic' = topic
          /\ \A t \in Topics : t # topic[r] => master'[t] = master[t]
          /\ master'[topic[r]] = r
          /\ \A q \in Readers \ {r} : pc'[q] = pc[q]
      BY <1>2 DEF TypeOK, Insert, Inserted
    <2>2. QED
      BY <2>1, NoneAssumption DEF EntryToAdd, TypeOK
  <1>3. ASSUME NEW r \in Readers,
               \/ Declare(r) \/ Bind(r) \/ Consume(r) \/ RequestFails(r) \/ Abandon(r)
               \/ AddReader(r) \/ Attach(r) \/ RemoveSender(r) \/ DropShared(r) \/ Cancel(r)
        PROVE  EntryToAdd'
    <2>1. /\ UNCHANGED <<master, topic>>
          /\ pc'[r] # "add"
          /\ \A q \in Readers \ {r} : pc'[q] = pc[q]
      BY <1>3 DEF TypeOK, Declare, Bind, Consume, RequestFails, Abandon, AddReader, Attach,
                  RemoveSender, DropShared, Cancel
    <2>2. QED
      BY <2>1 DEF EntryToAdd
  <1>4. ASSUME NEW r \in Readers, NEW c \in Readers, Clone(r, c)
        PROVE  EntryToAdd'
    <2>1. /\ master' = master
          /\ pc'[c] = "live"
          /\ \A q \in Readers \ {c} : pc'[q] = pc[q] /\ topic'[q] = topic[q]
      BY <1>4 DEF TypeOK, Clone
    <2>2. QED
      BY <2>1 DEF EntryToAdd
  <1>5. ASSUME NEW r \in Readers, DelReader(r)
        PROVE  EntryToAdd'
    <2>1. /\ topic' = topic
          /\ pc[r] = "detached" /\ pc'[r] # "add"
          /\ \A q \in Readers \ {r} : pc'[q] = pc[q]
          /\ \A t \in Topics : t # topic[r] => master'[t] = master[t]
      BY <1>5 DEF TypeOK, DelReader
    <2>2. \A q \in Readers : pc[q] = "add" => topic[q] # topic[r]
      BY <2>1 DEF DropsExcluded
    <2>3. QED
      BY <2>1, <2>2 DEF EntryToAdd, TypeOK
  <1>6. CASE Close
    <2>1. UNCHANGED <<pc, topic>> /\ \A t \in Topics : On(t, Creating) = {}
      BY <1>6 DEF Close
    <2>2. \A q \in Readers : pc'[q] # "add"
      BY <2>1 DEF TypeOK, On
    <2>3. QED
      BY <2>2 DEF EntryToAdd
  <1>7. CASE ServerClosesChannel \/ ServerClosesConnection \/ UNCHANGED vars
    BY <1>7 DEF EntryToAdd, ServerClosesChannel, ServerClosesConnection, vars
  <1>8. QED
    BY <1>1, <1>2, <1>3, <1>4, <1>5, <1>6, <1>7 DEF Next, ReaderStep

\* A creation does not panic.
NoPanic == \A r \in Readers : pc[r] # "panicked"

\* Only AddReader panics, and only when the entry has gone.
LEMMA NoPanicStep ==
  ASSUME TypeOK, EntryToAdd, NoPanic, [Next]_vars
  PROVE  NoPanic'
  <1> USE DEF table, client, broker, Goto
  <1>1. ASSUME NEW r \in Readers, AddReader(r)
        PROVE  NoPanic'
    <2>1. pc'[r] = "attach" /\ \A q \in Readers \ {r} : pc'[q] = pc[q]
      BY <1>1 DEF TypeOK, AddReader, EntryToAdd
    <2>2. QED
      BY <2>1 DEF NoPanic
  <1>2. ASSUME NEW r \in Readers,
               \/ Lookup(r) \/ Declare(r) \/ Bind(r) \/ Consume(r) \/ RequestFails(r)
               \/ Abandon(r) \/ Insert(r) \/ Attach(r)
               \/ RemoveSender(r) \/ DropShared(r) \/ DelReader(r) \/ Cancel(r)
               \/ \E q \in Readers : Clone(q, r)
        PROVE  NoPanic'
    <2>1. pc'[r] # "panicked" /\ \A q \in Readers \ {r} : pc'[q] = pc[q]
      BY <1>2 DEF TypeOK, Lookup, Declare, Bind, Consume, RequestFails, Abandon, Insert, Attach,
                  RemoveSender, DropShared, DelReader, Cancel, Clone
    <2>2. QED
      BY <2>1 DEF NoPanic
  <1>3. CASE ServerClosesChannel \/ ServerClosesConnection \/ Close \/ UNCHANGED vars
    BY <1>3 DEF NoPanic, ServerClosesChannel, ServerClosesConnection, Close, vars
  <1>4. QED
    BY <1>1, <1>2, <1>3 DEF Next, ReaderStep

\* A channel that is open has been open before.
LEMMA ChannelStaysShut == [Next]_vars /\ chan' = "open" => chan = "open"
  BY DEF Next, ReaderStep, Lookup, Declare, Bind, Consume, RequestFails, Abandon, Insert,
         AddReader, Attach, RemoveSender, DropShared, DelReader, Cancel, Clone,
         ServerClosesChannel, ServerClosesConnection, Close, vars

\* The queue a creation is about to consume from is there, and bound.
QueueReady ==
  \A r \in Readers : pc[r] = "consume" => QueueOf(r) \in queues /\ (exchange => r \in bound)

\* Every step on an open channel leaves such a queue there: only a cancelled
\* consumer takes its queue along, which is that of another topic or reader.
LEMMA QueueReadyStep ==
  ASSUME TypeInv, MadeHere, DropsExcluded, QueueReady, [Next]_vars,
         chan = "open", chan' = "open"
  PROVE  QueueReady'
  <1> USE DEF table, client, broker, Goto
  <1>0. TypeOK /\ BindDeclared
    BY DEF TypeInv
  <1>1. ASSUME NEW r \in Readers,
               \/ Lookup(r) \/ Consume(r) \/ RequestFails(r) \/ Abandon(r)
               \/ Insert(r) \/ AddReader(r) \/ Attach(r)
               \/ RemoveSender(r) \/ DropShared(r) \/ DelReader(r)
        PROVE  QueueReady'
    <2>1. /\ UNCHANGED <<exchange, queues, bound, topic>>
          /\ pc'[r] # "consume"
          /\ \A q \in Readers \ {r} : pc'[q] = pc[q]
      BY <1>0, <1>1 DEF TypeOK, Lookup, Consume, RequestFails, Abandon, Insert, AddReader,
                        Attach, RemoveSender, DropShared, DelReader
    <2>2. QED
      BY <2>1 DEF QueueReady, QueueOf
  <1>2. ASSUME NEW r \in Readers, Declare(r)
        PROVE  QueueReady'
    <2>1. /\ UNCHANGED <<exchange, bound, topic>>
          /\ queues' = queues \cup {QueueOf(r)}
          /\ pc'[r] = IF exchange THEN "bind" ELSE "consume"
          /\ \A q \in Readers \ {r} : pc'[q] = pc[q]
      BY <1>0, <1>2 DEF TypeOK, Declare, Declared
    <2>2. QED
      BY <2>1 DEF QueueReady, QueueOf
  <1>3. ASSUME NEW r \in Readers, Bind(r)
        PROVE  QueueReady'
    <2>1. /\ UNCHANGED <<exchange, queues, topic>>
          /\ bound' = bound \cup {QueueOf(r)}
          /\ pc[r] = "bind"
          /\ \A q \in Readers \ {r} : pc'[q] = pc[q]
      BY <1>0, <1>3 DEF TypeOK, Bind, BoundToTopic
    <2>2. exchange /\ r \in queues
      BY <1>0, <2>1 DEF BindDeclared
    <2>3. QED
      BY <2>1, <2>2 DEF QueueReady, QueueOf
  <1>4. ASSUME NEW r \in Readers, NEW c \in Readers, Clone(r, c)
        PROVE  QueueReady'
    <2>1. /\ UNCHANGED <<exchange, queues, bound>>
          /\ pc'[c] = "live"
          /\ \A q \in Readers \ {c} : pc'[q] = pc[q] /\ topic'[q] = topic[q]
      BY <1>0, <1>4 DEF TypeOK, Clone
    <2>2. QED
      BY <2>1 DEF QueueReady, QueueOf
  <1>5. ASSUME NEW r \in Readers, Cancel(r)
        PROVE  QueueReady'
    <2>1. /\ UNCHANGED <<exchange, topic>>
          /\ pc[r] = "cancel" /\ pc'[r] = "gone"
          /\ \A q \in Readers \ {r} : pc'[q] = pc[q]
          /\ BrokerCancel(tag[r])
      BY <1>0, <1>5 DEF TypeOK, Cancel
    <2>2. PICK x \in Readers : x = tag[r]
      BY <1>0 DEF TypeOK
    <2>3. /\ \A q \in queues : q \in queues' \/ q = QueueOf(x)
          /\ \A q \in bound : q \in bound' \/ q = QueueOf(x)
      BY <2>1, <2>2, CancelDeletes
    <2>4. topic[x] = topic[r] /\ Created(x)
      BY <2>1, <2>2 DEF MadeHere, TagMade
    <2>5. ASSUME NEW q \in Readers, pc'[q] = "consume"
          PROVE  QueueOf(q) \in queues' /\ (exchange => q \in bound')
      <3>1. pc[q] = "consume" /\ QueueOf(q) \in queues /\ (exchange => q \in bound)
        BY <2>1, <2>5 DEF QueueReady
      <3>2. q # x /\ topic[q] # topic[x]
        BY <2>1, <2>4, <3>1 DEF Created, DropsExcluded
      <3>3. QueueOf(q) # QueueOf(x) /\ (exchange => QueueOf(q) = q)
        BY <3>2 DEF QueueOf
      <3>4. QED
        BY <2>3, <3>1, <3>3
    <2>6. QED
      BY <2>1, <2>5 DEF QueueReady, QueueOf
  <1>6. CASE UNCHANGED vars
    BY <1>6 DEF QueueReady, QueueOf, vars
  <1>7. CASE ServerClosesChannel \/ ServerClosesConnection \/ Close
    BY <1>7 DEF ServerClosesChannel, ServerClosesConnection, Close
  <1>8. QED
    BY <1>1, <1>2, <1>3, <1>4, <1>5, <1>6, <1>7 DEF Next, ReaderStep

\* A creation finds its queue, so the broker does not close the channel.
LEMMA ChannelStep ==
  ASSUME chan = "open" => QueueReady, ChannelSurvives, [Next]_vars
  PROVE  ChannelSurvives'
  <1>1. ASSUME NEW r \in Readers, Consume(r)
        PROVE  chan' # "notFound"
    BY <1>1 DEF Consume, QueueReady
  <1>2. QED
    BY <1>1 DEF ChannelSurvives, Next, ReaderStep, Lookup, Declare, Bind, RequestFails,
                Abandon, Insert, AddReader, Attach, RemoveSender, DropShared, DelReader, Cancel,
                Clone, ServerClosesChannel, ServerClosesConnection, Close, vars

\* All of this together.
SharedInv ==
  /\ TypeInv
  /\ MadeHere
  /\ DropsExcluded
  /\ EntryToAdd
  /\ NoPanic
  /\ chan = "open" => QueueReady
  /\ ChannelSurvives

\* It holds in every reachable state.
LEMMA SharedHolds ==
  ASSUME "drop" \notin MayOverlap
  PROVE  Spec => []SharedInv
  <1>1. Init => SharedInv
    <2> SUFFICES ASSUME Init PROVE SharedInv
      OBVIOUS
    <2>1. MadeHere
      BY DEF Init, MadeHere, EntryMade, TagMade
    <2>2. DropsExcluded /\ EntryToAdd /\ NoPanic /\ QueueReady /\ ChannelSurvives
      BY DEF Init, DropsExcluded, EntryToAdd, NoPanic, QueueReady, ChannelSurvives
    <2>3. QED
      BY <2>1, <2>2, TypeInit DEF SharedInv
  <1>2. SharedInv /\ [Next]_vars => SharedInv'
    <2> SUFFICES ASSUME SharedInv, [Next]_vars PROVE SharedInv'
      OBVIOUS
    <2>0. /\ TypeInv /\ TypeOK /\ ConsumersOld /\ MadeHere /\ DropsExcluded
          /\ EntryToAdd /\ NoPanic /\ ChannelSurvives
      BY DEF SharedInv, TypeInv
    <2>1. TypeInv'
      BY <2>0, TypeStep, ConsumersOldStep, BindDeclaredStep DEF TypeInv
    <2>2. MadeHere' /\ DropsExcluded'
      BY <2>0, MadeHereStep, DropsExcludedStep
    <2>3. EntryToAdd' /\ NoPanic'
      BY <2>0, EntryToAddStep, NoPanicStep
    <2>4. chan' = "open" => QueueReady'
      BY <2>0, ChannelStaysShut, QueueReadyStep DEF SharedInv
    <2>5. ChannelSurvives'
      BY <2>0, ChannelStep DEF SharedInv
    <2>6. QED
      BY <2>1, <2>2, <2>3, <2>4, <2>5 DEF SharedInv
  <1>3. QED
    BY <1>1, <1>2, PTL DEF Spec

\* add_reader's unwrap never panics, as its SAFETY comment says, if no drop
\* overlaps a creation on the topic; other creations may.
THEOREM UnwrapSafe ==
  ASSUME "drop" \notin MayOverlap
  PROVE  Spec => []NoPanic
  <1>1. SharedInv => NoPanic
    BY DEF SharedInv
  <1>2. QED
    BY <1>1, SharedHolds, PTL

\* No request of a creation makes the broker close the channel that all
\* readers and writers share, under the same condition: its queue is there when
\* it consumes from it, although creations are abandoned and overlap.
THEOREM SharedChannelSurvives ==
  ASSUME "drop" \notin MayOverlap
  PROVE  Spec => []ChannelSurvives
  <1>1. SharedInv => ChannelSurvives
    BY DEF SharedInv
  <1>2. QED
    BY <1>1, SharedHolds, PTL

-----------------------------------------------------------------------------
(* The invariant of the table, when on one bus topic neither two creations  *)
(* overlap nor a creation and a drop.                                       *)

NoOverlap == "create" \notin MayOverlap /\ "drop" \notin MayOverlap

CreationsExcluded ==
  \A r, q \in Readers :
    pc[r] \in Creating /\ pc[q] \in Creating /\ topic[r] = topic[q] => r = q

\* A creation that makes a new ringmaster, up to its insertion.
Preparing == {"declare", "bind", "consume", "insert"}

\* A reader that has not been counted has an AsbReaderNet of its own, and a
\* ringmaster that is not in the table yet is its creator's.
Fresh ==
  \A r \in Readers :
    /\ pc[r] \in {"unused", "add"} \cup Preparing =>
         handle[r] = r /\ \A q \in Readers : handle[q] = r => q = r
    /\ pc[r] \in Preparing => rm[r] = r

\* A reader from its look-up of the entry, or its insertion, to its own drop.
Using(r) == pc[r] \in {"add", "attach", "live", "detached"}

\* The entry of a topic has the ringmaster of each reader that uses it, ...
EntryOwned == \A r \in Readers : Using(r) => master[topic[r]] = rm[r]

\* ... is there only as long as a reader uses it, ...
EntryUsed ==
  \A t \in Topics : master[t] # None => \E r \in Readers : topic[r] = t /\ Using(r)

\* ... not before its creator inserts it, ...
EntryNew == \A r \in Readers : pc[r] \in Preparing => master[topic[r]] = None

\* ... and not after its last reader removes it.
EntryLeft ==
  \A r \in Readers : pc[r] = "cancel" =>
    /\ master[topic[r]] = None
    /\ \A q \in Readers : pc[q] = "cancel" /\ topic[q] = topic[r] => q = r

Entries == EntryOwned /\ EntryUsed /\ EntryNew /\ EntryLeft

Attached == \A r \in Readers : pc[r] = "live" => r \in senders[rm[r]]

Handles(t) == {handle[r] : r \in Holding(t)}

CountExact == \A t \in Topics : master[t] # None => count[t] = Cardinality(Handles(t))

TableInv ==
  /\ CreationsExcluded
  /\ Fresh
  /\ chan # "dropped" => Entries /\ Attached /\ CountExact

\* Creations on one topic take turns.
LEMMA CreationsExcludedStep ==
  ASSUME "create" \notin MayOverlap, TypeOK, CreationsExcluded, [Next]_vars
  PROVE  CreationsExcluded'
  <1> USE DEF table, client, broker, Goto
  <1>1. ASSUME NEW r \in Readers, Lookup(r)
        PROVE  CreationsExcluded'
    <2>1. /\ topic' = topic
          /\ \A q \in Readers \ {r} : pc'[q] = pc[q]
          /\ \A q \in Readers : pc[q] \in Creating => topic[q] # topic[r]
      BY <1>1 DEF TypeOK, Lookup, On
    <2>2. QED
      BY <2>1 DEF CreationsExcluded
  <1>2. ASSUME NEW r \in Readers,
               \/ Declare(r) \/ Bind(r) \/ Consume(r) \/ RequestFails(r) \/ Abandon(r)
               \/ Insert(r) \/ AddReader(r) \/ Attach(r)
               \/ RemoveSender(r) \/ DropShared(r) \/ DelReader(r) \/ Cancel(r)
        PROVE  CreationsExcluded'
    <2>1. /\ topic' = topic
          /\ pc'[r] \in Creating => pc[r] \in Creating
          /\ \A q \in Readers \ {r} : pc'[q] = pc[q]
      BY <1>2 DEF TypeOK, Declare, Bind, Consume, RequestFails, Abandon, Insert, AddReader,
                  Attach, RemoveSender, DropShared, DelReader, Cancel
    <2>2. QED
      BY <2>1 DEF CreationsExcluded
  <1>3. ASSUME NEW r \in Readers, NEW c \in Readers, Clone(r, c)
        PROVE  CreationsExcluded'
    <2>1. /\ pc'[c] = "live"
          /\ \A q \in Readers \ {c} : pc'[q] = pc[q] /\ topic'[q] = topic[q]
      BY <1>3 DEF TypeOK, Clone
    <2>2. QED
      BY <2>1 DEF CreationsExcluded
  <1>4. CASE ServerClosesChannel \/ ServerClosesConnection \/ Close \/ UNCHANGED vars
    BY <1>4 DEF CreationsExcluded, ServerClosesChannel, ServerClosesConnection, Close, vars
  <1>5. QED
    BY <1>1, <1>2, <1>3, <1>4 DEF Next, ReaderStep

\* What a creation has made stays its own until it is counted or inserted.
LEMMA FreshStep ==
  ASSUME TypeOK, Fresh, [Next]_vars
  PROVE  Fresh'
  <1> USE DEF table, client, broker, Goto, Preparing
  <1>1. ASSUME NEW r \in Readers, Lookup(r)
        PROVE  Fresh'
    <2>1. /\ handle' = handle
          /\ pc[r] = "unused"
          /\ pc'[r] \in {"declare", "add"}
          /\ pc'[r] = "declare" => rm'[r] = r
          /\ \A q \in Readers \ {r} : pc'[q] = pc[q] /\ rm'[q] = rm[q]
      BY <1>1 DEF TypeOK, Lookup, Ringmaster
    <2>2. QED
      BY <2>1 DEF Fresh
  <1>2. ASSUME NEW r \in Readers,
               \/ Declare(r) \/ Bind(r) \/ Consume(r) \/ RequestFails(r) \/ Abandon(r)
               \/ Insert(r) \/ AddReader(r) \/ Attach(r)
               \/ RemoveSender(r) \/ DropShared(r) \/ DelReader(r) \/ Cancel(r)
        PROVE  Fresh'
    <2>1. /\ handle' = handle
          /\ rm' = rm
          /\ pc'[r] \in {"unused", "add"} \cup Preparing => pc[r] \in Preparing
          /\ \A q \in Readers \ {r} : pc'[q] = pc[q]
      BY <1>2 DEF TypeOK, Declare, Bind, Consume, RequestFails, Abandon, Insert, AddReader,
                  Attach, RemoveSender, DropShared, DelReader, Cancel
    <2>2. QED
      BY <2>1 DEF Fresh
  <1>3. ASSUME NEW r \in Readers, NEW c \in Readers, Clone(r, c)
        PROVE  Fresh'
    <2>1. /\ pc[r] = "live"
          /\ pc'[c] = "live"
          /\ handle'[c] = handle[r]
          /\ \A q \in Readers \ {c} : pc'[q] = pc[q] /\ rm'[q] = rm[q] /\ handle'[q] = handle[q]
      BY <1>3 DEF TypeOK, Clone
    <2>2. QED
      BY <2>1 DEF Fresh
  <1>4. CASE ServerClosesChannel \/ ServerClosesConnection \/ Close \/ UNCHANGED vars
    BY <1>4 DEF Fresh, ServerClosesChannel, ServerClosesConnection, Close, vars
  <1>5. QED
    BY <1>1, <1>2, <1>3, <1>4 DEF Next, ReaderStep

-----------------------------------------------------------------------------
(* What the count of an entry says about those who hold it. *)

\* The AsbReaderNets of a topic are finitely many, fewer than a u16 counts to.
LEMMA HandlesFinite ==
  ASSUME TypeOK, NEW t \in Topics
  PROVE  /\ Handles(t) \subseteq Readers
         /\ IsFiniteSet(Handles(t))
         /\ Cardinality(Handles(t)) \in 0..(CounterMod - 1)
         /\ CounterMod \in Nat
  <1>1. Handles(t) \subseteq Readers
    BY DEF TypeOK, Handles, Holding, On
  <1>2. /\ IsFiniteSet(Handles(t))
        /\ Cardinality(Handles(t)) <= Cardinality(Readers)
    BY <1>1, CounterAssumption, FS_Subset
  <1>3. Cardinality(Handles(t)) \in Nat /\ Cardinality(Readers) \in Nat
    BY <1>2, CounterAssumption, FS_CardinalityType
  <1>4. QED
    BY <1>1, <1>2, <1>3, CounterAssumption

\* A last clone whose entry counts one AsbReaderNet is the last reader.
LEMMA LastReader ==
  ASSUME TypeOK, CountExact, NEW r \in Readers, pc[r] = "detached", ~IsShared(r),
         master[topic[r]] # None, count[topic[r]] = 1
  PROVE  \A q \in Readers :
           topic[q] = topic[r] /\ pc[q] \in {"attach", "live", "detached"} => q = r
  <1>1. topic[r] \in Topics
    BY DEF TypeOK
  <1>2. Cardinality(Handles(topic[r])) = 1
    BY <1>1 DEF CountExact
  <1>3. PICK x : Handles(topic[r]) = {x}
    BY <1>1, <1>2, HandlesFinite, FS_Singleton
  <1>4. \A q \in Holding(topic[r]) : handle[q] = x
    BY <1>3 DEF Handles
  <1>5. r \in Holding(topic[r])
    BY DEF Holding, On
  <1>6. \A q \in Holding(topic[r]) : q = r
    BY <1>4, <1>5 DEF IsShared
  <1>7. QED
    BY <1>6 DEF Holding, On

\* One whose entry counts another number leaves others behind, one fewer.
LEMMA OtherReaders ==
  ASSUME TypeOK, CountExact, NEW r \in Readers, pc[r] = "detached", ~IsShared(r),
         master[topic[r]] # None, count[topic[r]] # 1
  PROVE  /\ \E q \in Readers \ {r} :
              topic[q] = topic[r] /\ pc[q] \in {"attach", "live", "detached"}
         /\ (count[topic[r]] - 1) % CounterMod
              = Cardinality(Handles(topic[r]) \ {handle[r]})
  <1> DEFINE t == topic[r]
  <1>1. t \in Topics
    BY DEF TypeOK
  <1>2. count[t] = Cardinality(Handles(t))
    BY <1>1 DEF CountExact
  <1>3. r \in Holding(t) /\ handle[r] \in Handles(t)
    BY DEF Holding, On, Handles
  <1>4. /\ IsFiniteSet(Handles(t))
        /\ Cardinality(Handles(t)) \in 0..(CounterMod - 1)
        /\ CounterMod \in Nat
    BY <1>1, HandlesFinite
  <1> HIDE DEF t
  <1>5. Cardinality(Handles(t) \ {handle[r]}) = Cardinality(Handles(t)) - 1
    BY <1>3, <1>4, FS_RemoveElement
  <1>6. IsFiniteSet(Handles(t) \ {handle[r]})
    BY <1>4, FS_RemoveElement
  <1>7. Cardinality(Handles(t) \ {handle[r]}) \in Nat
    BY <1>6, FS_CardinalityType
  <1>8. (count[t] - 1) % CounterMod = Cardinality(Handles(t) \ {handle[r]})
    BY <1>2, <1>4, <1>5, <1>7
  <1>9. Handles(t) # {handle[r]}
    BY <1>2, FS_Singleton DEF t
  <1>10. PICK q \in Holding(t) : handle[q] # handle[r]
    BY <1>3, <1>9 DEF Handles
  <1>11. QED
    BY <1>8, <1>10 DEF t, Holding, On

-----------------------------------------------------------------------------
(* The entries. *)

\* Steps that change nothing the entries depend on.
LEMMA EntriesSame ==
  ASSUME TypeOK, Entries, UNCHANGED master, NEW r \in Readers,
         \A q \in Readers \ {r} : pc'[q] = pc[q] /\ topic'[q] = topic[q] /\ rm'[q] = rm[q],
         \/ /\ Using(r) /\ Using(r)'
            /\ topic'[r] = topic[r] /\ rm'[r] = rm[r]
         \/ /\ pc[r] \in Preparing /\ pc'[r] \in Preparing \cup {"failed", "abandoned"}
            /\ topic'[r] = topic[r] /\ rm'[r] = rm[r]
         \/ /\ pc[r] = "unused" /\ pc'[r] \in {"declare", "add", "live"}
            /\ pc'[r] = "declare" => master[topic'[r]] = None
            /\ pc'[r] # "declare" => master[topic'[r]] # None /\ rm'[r] = master[topic'[r]]
         \/ /\ pc[r] \in {"detached", "cancel"} /\ pc'[r] = "gone"
            /\ topic'[r] = topic[r] /\ rm'[r] = rm[r]
            /\ \/ master[topic[r]] = None
               \/ \E q \in Readers \ {r} : topic[q] = topic[r] /\ Using(q)
  PROVE  Entries'
  <1> USE DEF Preparing
  <1>1. EntryOwned'
    BY DEF Entries, EntryOwned, Using
  <1>2. EntryUsed'
    BY DEF Entries, EntryUsed, Using
  <1>3. EntryNew'
    BY DEF Entries, EntryNew, Using
  <1>4. EntryLeft'
    BY DEF Entries, EntryLeft, Using
  <1>5. QED
    BY <1>1, <1>2, <1>3, <1>4 DEF Entries

\* The insertion of an entry: nobody else is on the topic.
LEMMA EntriesInsert ==
  ASSUME TypeOK, DropsExcluded, CreationsExcluded, Fresh, Entries,
         NEW r \in Readers, Insert(r)
  PROVE  Entries'
  <1> USE DEF table, client, broker, Goto, Preparing
  <1>1. /\ UNCHANGED <<topic, rm>>
        /\ pc[r] = "insert" /\ pc'[r] = "add"
        /\ \A q \in Readers \ {r} : pc'[q] = pc[q]
        /\ master'[topic[r]] = r
        /\ \A t \in Topics \ {topic[r]} : master'[t] = master[t]
    BY DEF TypeOK, Insert, Inserted
  <1>2. /\ topic \in [Readers -> Topics]
        /\ rm \in [Readers -> Readers]
        /\ rm[r] = r
        /\ master[topic[r]] = None
        /\ None \notin Readers
        /\ \A t \in Topics : master[t] # None => master[t] \in Readers
    BY <1>1, NoneAssumption DEF TypeOK, Fresh, Entries, EntryNew
  <1>3. \A q \in Readers \ {r} : topic[q] = topic[r] =>
          pc[q] \notin Preparing \cup {"cancel"} /\ ~Using(q)
    BY <1>1, <1>2 DEF DropsExcluded, CreationsExcluded, Entries, EntryOwned
  <1>4. EntryOwned'
    BY <1>1, <1>2, <1>3 DEF Entries, EntryOwned, Using
  <1>5. EntryUsed'
    BY <1>1, <1>2, <1>3 DEF Entries, EntryUsed, Using
  <1>6. EntryNew'
    BY <1>1, <1>2, <1>3 DEF Entries, EntryNew
  <1>7. EntryLeft'
    BY <1>1, <1>2, <1>3 DEF Entries, EntryLeft
  <1>8. QED
    BY <1>4, <1>5, <1>6, <1>7 DEF Entries

\* The removal of an entry: its last reader is alone on the topic.
LEMMA EntriesRemove ==
  ASSUME TypeOK, DropsExcluded, Entries, CountExact,
         NEW r \in Readers, DelReader(r), master[topic[r]] # None, count[topic[r]] = 1
  PROVE  Entries'
  <1> USE DEF table, client, broker, Goto, Preparing
  <1>1. /\ UNCHANGED <<topic, rm>>
        /\ pc[r] = "detached" /\ pc'[r] = "cancel" /\ ~IsShared(r)
        /\ \A q \in Readers \ {r} : pc'[q] = pc[q]
        /\ master'[topic[r]] = None
        /\ \A t \in Topics \ {topic[r]} : master'[t] = master[t]
    BY DEF TypeOK, DelReader, IsLast
  <1>2. /\ topic \in [Readers -> Topics]
        /\ rm \in [Readers -> Readers]
        /\ None \notin Readers
        /\ \A t \in Topics : master[t] # None => master[t] \in Readers
    BY NoneAssumption DEF TypeOK
  <1>3. \A q \in Readers \ {r} : topic[q] = topic[r] =>
          pc[q] \notin Preparing \cup {"add", "attach", "live", "detached"}
    BY <1>1, LastReader DEF DropsExcluded
  <1>4. EntryOwned'
    BY <1>1, <1>2, <1>3 DEF Entries, EntryOwned, Using
  <1>5. EntryUsed'
    BY <1>1, <1>2, <1>3 DEF Entries, EntryUsed, Using
  <1>6. EntryNew'
    BY <1>1, <1>2, <1>3 DEF Entries, EntryNew
  <1>7. EntryLeft'
    BY <1>1, <1>2, <1>3 DEF Entries, EntryLeft
  <1>8. QED
    BY <1>4, <1>5, <1>6, <1>7 DEF Entries

\* Every step of a connection that is kept keeps the entries as they should be.
LEMMA EntriesStep ==
  ASSUME TypeOK, DropsExcluded, CreationsExcluded, Fresh, Entries, CountExact,
         [Next]_vars, chan' # "dropped"
  PROVE  Entries'
  <1> USE DEF table, client, broker, Goto
  <1>0. /\ rm \in [Readers -> Readers] /\ None \notin Readers
        /\ topic \in [Readers -> Topics]
    BY NoneAssumption DEF TypeOK
  <1>1. ASSUME NEW r \in Readers, Lookup(r)
        PROVE  Entries'
    <2>1. /\ UNCHANGED <<master, topic>>
          /\ \A q \in Readers \ {r} : pc'[q] = pc[q] /\ rm'[q] = rm[q]
          /\ pc[r] = "unused" /\ pc'[r] \in {"declare", "add"}
          /\ pc'[r] = "declare" => master[topic[r]] = None
          /\ pc'[r] # "declare" => master[topic[r]] # None /\ rm'[r] = master[topic[r]]
      BY <1>1 DEF TypeOK, Lookup, Ringmaster
    <2>2. QED
      BY <2>1, EntriesSame
  <1>2. ASSUME NEW r \in Readers,
               \/ Declare(r) \/ Bind(r) \/ Consume(r) \/ RequestFails(r) \/ Abandon(r)
               \/ AddReader(r) \/ Attach(r) \/ RemoveSender(r)
        PROVE  Entries'
    <2>1. pc[r] = "add" => master[topic[r]] # None
      BY <1>0 DEF Entries, EntryOwned, Using
    <2>2. /\ UNCHANGED <<master, topic, rm>>
          /\ \A q \in Readers \ {r} : pc'[q] = pc[q]
          /\ \/ pc[r] \in Preparing /\ pc'[r] \in Preparing \cup {"failed", "abandoned"}
             \/ Using(r) /\ Using(r)'
      BY <1>2, <2>1 DEF TypeOK, Declare, Bind, Consume, RequestFails, Abandon, AddReader,
                        Attach, RemoveSender, Using, Preparing
    <2>3. QED
      BY <2>2, EntriesSame
  <1>3. ASSUME NEW r \in Readers, NEW c \in Readers, Clone(r, c)
        PROVE  Entries'
    <2>1. /\ UNCHANGED master
          /\ \A q \in Readers \ {c} : pc'[q] = pc[q] /\ topic'[q] = topic[q] /\ rm'[q] = rm[q]
          /\ pc[r] = "live" /\ pc[c] = "unused" /\ pc'[c] = "live"
          /\ topic'[c] = topic[r] /\ rm'[c] = rm[r]
      BY <1>3 DEF TypeOK, Clone
    <2>2. master[topic[r]] = rm[r] /\ rm[r] # None
      BY <1>0, <2>1 DEF Entries, EntryOwned, Using
    <2>3. QED
      BY <2>1, <2>2, EntriesSame
  <1>4. ASSUME NEW r \in Readers, DropShared(r)
        PROVE  Entries'
    <2>1. /\ UNCHANGED <<master, topic, rm>>
          /\ \A q \in Readers \ {r} : pc'[q] = pc[q]
          /\ pc[r] = "detached" /\ pc'[r] = "gone"
      BY <1>4 DEF TypeOK, DropShared
    <2>2. \E q \in Readers \ {r} : topic[q] = topic[r] /\ Using(q)
      BY <1>4 DEF DropShared, IsShared, Holding, On, Using
    <2>3. QED
      BY <2>1, <2>2, EntriesSame
  <1>5. ASSUME NEW r \in Readers, Cancel(r)
        PROVE  Entries'
    <2>1. /\ UNCHANGED <<master, topic, rm>>
          /\ \A q \in Readers \ {r} : pc'[q] = pc[q]
          /\ pc[r] = "cancel" /\ pc'[r] = "gone"
      BY <1>5 DEF TypeOK, Cancel
    <2>2. master[topic[r]] = None
      BY <2>1 DEF Entries, EntryLeft
    <2>3. QED
      BY <2>1, <2>2, EntriesSame
  <1>6. ASSUME NEW r \in Readers, Insert(r)
        PROVE  Entries'
    BY <1>6, EntriesInsert
  <1>7. ASSUME NEW r \in Readers, DelReader(r)
        PROVE  Entries'
    <2>1. CASE master[topic[r]] # None /\ count[topic[r]] = 1
      BY <1>7, <2>1, EntriesRemove
    <2>2. CASE master[topic[r]] = None \/ count[topic[r]] # 1
      <3>1. /\ UNCHANGED <<master, topic, rm>>
            /\ \A q \in Readers \ {r} : pc'[q] = pc[q]
            /\ pc[r] = "detached" /\ pc'[r] = "gone" /\ ~IsShared(r)
        BY <1>7, <2>2 DEF TypeOK, DelReader, IsLast
      <3>2. \/ master[topic[r]] = None
            \/ \E q \in Readers \ {r} : topic[q] = topic[r] /\ Using(q)
        BY <2>2, <3>1, OtherReaders DEF Using
      <3>3. QED
        BY <3>1, <3>2, EntriesSame
    <2>3. QED
      BY <2>1, <2>2
  <1>8. CASE ServerClosesChannel \/ ServerClosesConnection \/ Close \/ UNCHANGED vars
    <2>1. UNCHANGED <<master, pc, topic, rm>>
      BY <1>8 DEF ServerClosesChannel, ServerClosesConnection, Close, vars
    <2>2. QED
      BY <2>1 DEF Entries, EntryOwned, EntryUsed, EntryNew, EntryLeft, Using
  <1>9. QED
    BY <1>1, <1>2, <1>3, <1>4, <1>5, <1>6, <1>7, <1>8 DEF Next, ReaderStep

-----------------------------------------------------------------------------
(* Senders of live readers, and the count. *)

\* A live reader keeps its sender: nobody else's drop takes it.
LEMMA AttachedStep ==
  ASSUME TypeOK, MadeHere, Entries, CountExact, Attached, [Next]_vars, chan' # "dropped"
  PROVE  Attached'
  <1> USE DEF table, client, broker, Goto
  <1>0. /\ rm \in [Readers -> Readers]
        /\ senders \in [Readers -> SUBSET Readers]
    BY DEF TypeOK
  <1>1. ASSUME NEW r \in Readers,
               \/ Lookup(r) \/ Declare(r) \/ Bind(r) \/ Consume(r) \/ RequestFails(r) \/ Abandon(r)
               \/ Insert(r) \/ AddReader(r)
               \/ DropShared(r) \/ Cancel(r)
        PROVE  Attached'
    <2>1. /\ senders' = senders
          /\ pc'[r] # "live"
          /\ \A q \in Readers \ {r} : pc'[q] = pc[q] /\ rm'[q] = rm[q]
      BY <1>1 DEF TypeOK, Lookup, Declare, Bind, Consume, RequestFails, Abandon, Insert,
                  AddReader, DropShared, Cancel
    <2>2. QED
      BY <2>1 DEF Attached
  <1>2. ASSUME NEW r \in Readers, Attach(r)
        PROVE  Attached'
    <2>1. /\ rm' = rm
          /\ r \in senders'[rm[r]]
          /\ \A x \in Readers : senders[x] \subseteq senders'[x]
          /\ \A q \in Readers \ {r} : pc'[q] = pc[q]
      BY <1>2 DEF TypeOK, Attach
    <2>2. QED
      BY <1>0, <2>1 DEF Attached
  <1>3. ASSUME NEW r \in Readers, NEW c \in Readers, Clone(r, c)
        PROVE  Attached'
    <2>1. /\ rm'[c] = rm[r]
          /\ c \in senders'[rm[r]]
          /\ \A x \in Readers : senders[x] \subseteq senders'[x]
          /\ \A q \in Readers \ {c} : pc'[q] = pc[q] /\ rm'[q] = rm[q]
      BY <1>3 DEF TypeOK, Clone
    <2>2. QED
      BY <1>0, <2>1 DEF Attached
  <1>4. ASSUME NEW r \in Readers, RemoveSender(r)
        PROVE  Attached'
    <2>1. /\ rm' = rm
          /\ pc'[r] # "live"
          /\ \A x \in Readers : senders[x] \ {r} \subseteq senders'[x]
          /\ \A q \in Readers \ {r} : pc'[q] = pc[q]
      BY <1>4 DEF TypeOK, RemoveSender, SenderRemoved
    <2>2. QED
      BY <1>0, <2>1 DEF Attached
  <1>5. ASSUME NEW r \in Readers, DelReader(r)
        PROVE  Attached'
    <2>1. /\ rm' = rm
          /\ pc[r] = "detached" /\ pc'[r] # "live" /\ ~IsShared(r)
          /\ \A q \in Readers \ {r} : pc'[q] = pc[q]
      BY <1>5 DEF TypeOK, DelReader
    <2>2. CASE senders' = senders
      BY <2>1, <2>2 DEF Attached
    <2>3. CASE /\ master[topic[r]] # None /\ count[topic[r]] = 1
               /\ senders' = [senders EXCEPT ![master[topic[r]]] = {}]
      <3>1. topic[r] \in Topics /\ topic[master[topic[r]]] = topic[r]
        BY <2>3 DEF TypeOK, MadeHere, EntryMade
      <3>2. ASSUME NEW q \in Readers, pc'[q] = "live"
            PROVE  q # r /\ pc[q] = "live" /\ rm[q] # master[topic[r]]
        <4>1. q # r /\ pc[q] = "live"
          BY <2>1, <3>2
        <4>2. topic[q] # topic[r]
          BY <2>1, <2>3, <4>1, LastReader
        <4>3. master[topic[q]] = rm[q] /\ rm[q] # None
          BY <1>0, <4>1, NoneAssumption DEF Entries, EntryOwned, Using
        <4>4. topic[rm[q]] = topic[q]
          BY <4>3 DEF TypeOK, MadeHere, EntryMade
        <4>5. QED
          BY <3>1, <4>1, <4>2, <4>4
      <3>3. QED
        BY <1>0, <2>1, <2>3, <3>2 DEF Attached
    <2>4. QED
      BY <1>5, <2>2, <2>3 DEF DelReader, IsLast
  <1>6. CASE ServerClosesChannel \/ ServerClosesConnection \/ Close \/ UNCHANGED vars
    BY <1>6 DEF Attached, ServerClosesChannel, ServerClosesConnection, Close, vars
  <1>7. QED
    BY <1>1, <1>2, <1>3, <1>4, <1>5, <1>6 DEF Next, ReaderStep

\* Steps that change neither an entry nor the AsbReaderNets of its topic.
LEMMA CountSame ==
  ASSUME CountExact,
         \A t \in Topics : master'[t] # None =>
           master[t] # None /\ count'[t] = count[t] /\ Handles(t)' = Handles(t)
  PROVE  CountExact'
  BY DEF CountExact

\* The AsbReaderNet of a reader that is neither counted in nor dropped stays.
LEMMA HandlesSame ==
  ASSUME UNCHANGED <<topic, handle>>, NEW r \in Readers,
         \A q \in Readers \ {r} : pc'[q] = pc[q],
         pc'[r] \in {"attach", "live", "detached"} <=> pc[r] \in {"attach", "live", "detached"}
  PROVE  \A t \in Topics : Handles(t)' = Handles(t)
  <1>1. \A t \in Topics : Holding(t)' = Holding(t)
    BY DEF Holding, On
  <1>2. QED
    BY <1>1 DEF Handles

\* add_reader counts in an AsbReaderNet that the topic did not have.
LEMMA CountAdd ==
  ASSUME TypeOK, Fresh, CountExact, NEW r \in Readers, AddReader(r),
         master[topic[r]] # None
  PROVE  CountExact'
  <1> USE DEF table, client, broker, Goto
  <1>0. PICK t \in Topics : t = topic[r]
    BY DEF TypeOK
  <1>1. /\ UNCHANGED <<master, topic, handle>>
        /\ pc[r] = "add" /\ pc'[r] = "attach"
        /\ \A q \in Readers \ {r} : pc'[q] = pc[q]
        /\ count'[t] = (count[t] + 1) % CounterMod
        /\ \A u \in Topics \ {t} : count'[u] = count[u]
    BY <1>0 DEF TypeOK, AddReader
  <1>2. handle[r] = r /\ \A q \in Readers : handle[q] = r => q = r
    BY <1>0, <1>1 DEF Fresh
  <1>3. \A u \in Topics \ {t} : Holding(u)' = Holding(u)
    BY <1>0, <1>1 DEF Holding, On
  <1>4. Holding(t)' = Holding(t) \cup {r} /\ r \notin Holding(t)
    BY <1>0, <1>1 DEF Holding, On
  <1>5. r \notin Handles(t)
    BY <1>2, <1>4 DEF Handles, Holding, On
  <1>6. Handles(t)' = Handles(t) \cup {r}
    BY <1>0, <1>1, <1>2, <1>4 DEF Handles
  <1>7. \A u \in Topics \ {t} : Handles(u)' = Handles(u)
    BY <1>0, <1>1, <1>3 DEF Handles
  <1>8. count[t] = Cardinality(Handles(t))
    BY <1>0, <1>1 DEF CountExact
  <1>9. /\ IsFiniteSet(Handles(t))
        /\ Handles(t) \cup {r} \subseteq Readers
        /\ Cardinality(Handles(t)) \in Nat
    BY HandlesFinite
  <1>10. Cardinality(Handles(t) \cup {r}) = Cardinality(Handles(t)) + 1
    BY <1>5, <1>9, FS_AddElement
  <1>11. Cardinality(Handles(t) \cup {r}) <= Cardinality(Readers)
    BY <1>9, CounterAssumption, FS_Subset
  <1>12. Cardinality(Readers) \in Nat
    BY CounterAssumption, FS_CardinalityType
  <1>13. (count[t] + 1) % CounterMod = Cardinality(Handles(t) \cup {r})
    BY <1>8, <1>9, <1>10, <1>11, <1>12, CounterAssumption
  <1>14. count'[t] = Cardinality(Handles(t)')
    BY <1>1, <1>6, <1>13
  <1>15. \A u \in Topics \ {t} : master'[u] # None => count'[u] = Cardinality(Handles(u)')
    BY <1>1, <1>7 DEF CountExact
  <1>16. QED
    BY <1>14, <1>15 DEF CountExact

\* del_reader counts out an AsbReaderNet that no other reader has.
LEMMA CountDel ==
  ASSUME TypeOK, CountExact, NEW r \in Readers, DelReader(r)
  PROVE  CountExact'
  <1> USE DEF table, client, broker, Goto
  <1>0. PICK t \in Topics : t = topic[r]
    BY DEF TypeOK
  <1>1. /\ UNCHANGED <<topic, handle>>
        /\ pc[r] = "detached" /\ ~IsShared(r)
        /\ pc'[r] \in {"gone", "cancel"}
        /\ \A q \in Readers \ {r} : pc'[q] = pc[q]
        /\ \A u \in Topics \ {t} : master'[u] = master[u] /\ count'[u] = count[u]
    BY <1>0 DEF TypeOK, DelReader
  <1>2. \A u \in Topics \ {t} : Holding(u)' = Holding(u)
    BY <1>0, <1>1 DEF Holding, On
  <1>3. Holding(t)' = Holding(t) \ {r} /\ r \in Holding(t)
    BY <1>0, <1>1 DEF Holding, On
  <1>4. Handles(t)' = Handles(t) \ {handle[r]}
    BY <1>0, <1>1, <1>3 DEF Handles, IsShared
  <1>5. \A u \in Topics \ {t} : Handles(u)' = Handles(u)
    BY <1>0, <1>1, <1>2 DEF Handles
  <1>6. ASSUME master'[t] # None
        PROVE  count'[t] = Cardinality(Handles(t)')
    <2>1. /\ master[t] # None
          /\ count[t] # 1
          /\ count'[t] = (count[t] - 1) % CounterMod
      BY <1>0, <1>1, <1>6 DEF TypeOK, DelReader, IsLast
    <2>2. QED
      BY <1>0, <1>1, <1>4, <2>1, OtherReaders
  <1>7. QED
    BY <1>0, <1>1, <1>5, <1>6 DEF CountExact

\* Every step keeps the count of an entry equal to its AsbReaderNets.
LEMMA CountStep ==
  ASSUME TypeOK, Fresh, Entries, CountExact, [Next]_vars, chan' # "dropped"
  PROVE  CountExact'
  <1> USE DEF table, client, broker, Goto
  <1>1. ASSUME NEW r \in Readers,
               \/ Lookup(r) \/ Declare(r) \/ Bind(r) \/ Consume(r) \/ RequestFails(r) \/ Abandon(r)
               \/ Attach(r) \/ RemoveSender(r)
               \/ Cancel(r)
        PROVE  CountExact'
    <2>1. /\ UNCHANGED <<master, count, topic, handle>>
          /\ \A q \in Readers \ {r} : pc'[q] = pc[q]
          /\ pc'[r] \in {"attach", "live", "detached"} <=> pc[r] \in {"attach", "live", "detached"}
      BY <1>1 DEF TypeOK, Lookup, Declare, Bind, Consume, RequestFails, Abandon,
                  Attach, RemoveSender, Cancel
    <2>2. \A t \in Topics : Handles(t)' = Handles(t)
      BY <2>1, HandlesSame
    <2>3. QED
      BY <2>1, <2>2, CountSame
  <1>2. ASSUME NEW r \in Readers, Insert(r)
        PROVE  CountExact'
    <2>1. /\ UNCHANGED <<topic, handle>>
          /\ pc[r] = "insert" /\ pc'[r] = "add"
          /\ \A q \in Readers \ {r} : pc'[q] = pc[q]
          /\ count'[topic[r]] = 0
          /\ \A u \in Topics \ {topic[r]} : master'[u] = master[u] /\ count'[u] = count[u]
      BY <1>2 DEF TypeOK, Insert, Inserted
    <2>2. \A t \in Topics : Handles(t)' = Handles(t)
      BY <2>1, HandlesSame
    <2>3. master[topic[r]] = None
      BY <2>1 DEF Entries, EntryNew, Preparing
    <2>4. Holding(topic[r]) = {}
      BY <2>3, NoneAssumption DEF TypeOK, Holding, On, Entries, EntryOwned, Using
    <2>5. Handles(topic[r]) = {}
      BY <2>4 DEF Handles
    <2>6. Cardinality({}) = 0
      BY FS_EmptySet
    <2>7. QED
      BY <2>1, <2>2, <2>5, <2>6 DEF CountExact
  <1>3. ASSUME NEW r \in Readers, AddReader(r)
        PROVE  CountExact'
    <2>1. master[topic[r]] # None
      BY <1>3, NoneAssumption DEF TypeOK, AddReader, Entries, EntryOwned, Using
    <2>2. QED
      BY <1>3, <2>1, CountAdd
  <1>4. ASSUME NEW r \in Readers, NEW c \in Readers, Clone(r, c)
        PROVE  CountExact'
    <2>1. /\ UNCHANGED <<master, count>>
          /\ pc[r] = "live" /\ pc[c] = "unused" /\ pc'[c] = "live"
          /\ \A q \in Readers \ {c} :
               pc'[q] = pc[q] /\ topic'[q] = topic[q] /\ handle'[q] = handle[q]
          /\ topic'[c] = topic[r] /\ handle'[c] = handle[r]
      BY <1>4 DEF TypeOK, Clone
    <2>2. \A t \in Topics \ {topic[r]} : Holding(t)' = Holding(t)
      BY <2>1 DEF Holding, On
    <2>4. \A t \in Topics : c \notin Holding(t)
      BY <2>1 DEF Holding, On
    <2>5. \A t \in Topics : \A q \in Holding(t) : handle'[q] = handle[q]
      BY <2>1, <2>4 DEF Holding, On
    <2>6. \A t \in Topics : Handles(t)' = Handles(t)
      <3>1. \A t \in Topics \ {topic[r]} : Handles(t)' = Handles(t)
        BY <2>2, <2>5 DEF Handles
      <3>2. ASSUME NEW t \in Topics, t = topic[r]
            PROVE  Handles(t)' = Handles(t)
        <4>1. Holding(t)' = Holding(t) \cup {c} /\ r \in Holding(t)
          BY <2>1, <3>2 DEF Holding, On
        <4>2. QED
          BY <2>1, <2>5, <4>1 DEF Handles
      <3>3. QED
        BY <3>1, <3>2
    <2>7. QED
      BY <2>1, <2>6, CountSame
  <1>5. ASSUME NEW r \in Readers, DropShared(r)
        PROVE  CountExact'
    <2>1. /\ UNCHANGED <<master, count, topic, handle>>
          /\ pc[r] = "detached" /\ pc'[r] = "gone"
          /\ \A q \in Readers \ {r} : pc'[q] = pc[q]
      BY <1>5 DEF TypeOK, DropShared
    <2>2. \A t \in Topics \ {topic[r]} : Holding(t)' = Holding(t)
      BY <2>1 DEF Holding, On
    <2>4. PICK c \in Holding(topic[r]) \ {r} : handle[c] = handle[r]
      BY <1>5 DEF DropShared, IsShared
    <2>5. \A t \in Topics : Handles(t)' = Handles(t)
      <3>1. \A t \in Topics \ {topic[r]} : Handles(t)' = Handles(t)
        BY <2>1, <2>2 DEF Handles
      <3>2. ASSUME NEW t \in Topics, t = topic[r]
            PROVE  Handles(t)' = Handles(t)
        <4>1. Holding(t)' = Holding(t) \ {r}
          BY <2>1, <3>2 DEF Holding, On
        <4>2. QED
          BY <2>1, <2>4, <3>2, <4>1 DEF Handles
      <3>3. QED
        BY <3>1, <3>2
    <2>6. QED
      BY <2>1, <2>5, CountSame
  <1>6. ASSUME NEW r \in Readers, DelReader(r)
        PROVE  CountExact'
    BY <1>6, CountDel
  <1>7. CASE ServerClosesChannel \/ ServerClosesConnection \/ Close \/ UNCHANGED vars
    <2>1. UNCHANGED <<master, count, pc, topic, handle>>
      BY <1>7 DEF ServerClosesChannel, ServerClosesConnection, Close, vars
    <2>2. \A t \in Topics : Handles(t)' = Handles(t)
      BY <2>1 DEF Handles, Holding, On
    <2>3. QED
      BY <2>1, <2>2, CountSame
  <1>8. QED
    BY <1>1, <1>2, <1>3, <1>4, <1>5, <1>6, <1>7 DEF Next, ReaderStep

-----------------------------------------------------------------------------
(* The broker. *)

\* A consumer that gets the messages of its topic.
Consumes(r) == r \in consumers /\ (exchange => r \in bound)

\* An entry has a consumer, from before its insertion ...
ConsumerThere ==
  /\ \A t \in Topics : master[t] # None => Consumes(master[t])
  /\ \A r \in Readers : pc[r] = "insert" => Consumes(r)

\* ... until its last reader cancels it; others belong to abandoned creations.
ConsumersOwned ==
  \A c \in consumers :
    \/ pc[c] \in {"insert", "abandoned"}
    \/ \E t \in Topics : master[t] = c
    \/ \E r \in Readers : pc[r] = "cancel" /\ tag[r] = c

\* A queue is there for a consumer, or for a creation on the way to consume.
QueuesOwned ==
  \A q \in queues : \E r \in Readers :
    q = QueueOf(r) /\ (r \in consumers \/ pc[r] \in {"bind", "consume", "abandoned"})

BrokerOk == ConsumerThere /\ ConsumersOwned /\ QueuesOwned

BrokerInv == chan = "open" => BrokerOk

\* A channel that is not open has no consumers.
ConsumersNone == chan # "open" => consumers = {}

\* Steps that change neither the broker nor what its consumers are there for.
LEMMA BrokerSame ==
  ASSUME TypeOK, ConsumersOld, BrokerOk,
         UNCHANGED <<exchange, queues, bound, consumers, master, tag>>,
         NEW r \in Readers,
         \A q \in Readers \ {r} : pc'[q] = pc[q] /\ topic'[q] = topic[q],
         topic'[r] = topic[r] \/ pc[r] = "unused",
         pc[r] # "cancel", pc'[r] \notin {"bind", "consume", "insert", "cancel"},
         pc[r] \in {"bind", "consume", "insert", "abandoned"} => pc'[r] = "abandoned"
  PROVE  BrokerOk'
  <1>1. \A q \in Readers : q # r \/ pc[r] # "unused" => QueueOf(q)' = QueueOf(q)
    BY DEF QueueOf
  <1>2. ConsumerThere'
    BY DEF BrokerOk, ConsumerThere, Consumes
  <1>3. ConsumersOwned'
    BY DEF BrokerOk, ConsumersOwned, TypeOK
  <1>4. QueuesOwned'
    <2> SUFFICES ASSUME NEW q \in queues
                 PROVE  \E x \in Readers :
                           q = QueueOf(x)' /\ (x \in consumers \/ pc'[x] \in {"bind", "consume", "abandoned"})
      BY DEF QueuesOwned
    <2>1. PICK x \in Readers :
            q = QueueOf(x) /\ (x \in consumers \/ pc[x] \in {"bind", "consume", "abandoned"})
      BY DEF BrokerOk, QueuesOwned
    <2>2. pc[x] # "unused"
      BY <2>1 DEF ConsumersOld
    <2>3. QED
      BY <1>1, <2>1, <2>2
  <1>5. QED
    BY <1>2, <1>3, <1>4 DEF BrokerOk

\* Requests of a creation.
LEMMA BrokerRequests ==
  ASSUME TypeOK, BindDeclared, QueueReady, BrokerOk, chan = "open", chan' = "open",
         NEW r \in Readers, Declare(r) \/ Bind(r) \/ Consume(r)
  PROVE  BrokerOk'
  <1> USE DEF table, client, broker, Goto
  <1>1. /\ UNCHANGED <<exchange, master, topic, tag>>
        /\ \A q \in Readers \ {r} : pc'[q] = pc[q]
        /\ \A q \in Readers : QueueOf(q)' = QueueOf(q)
    BY DEF TypeOK, Declare, Bind, Consume, QueueOf
  <1>2. CASE Declare(r)
    <2>1. /\ UNCHANGED <<bound, consumers>> /\ queues' = queues \cup {QueueOf(r)}
          /\ pc[r] = "declare" /\ pc'[r] = IF exchange THEN "bind" ELSE "consume"
      BY <1>2 DEF TypeOK, Declare, Declared
    <2>2. ConsumerThere' /\ ConsumersOwned'
      BY <1>1, <2>1 DEF BrokerOk, ConsumerThere, ConsumersOwned, Consumes, TypeOK
    <2>3. QueuesOwned'
      BY <1>1, <2>1 DEF BrokerOk, QueuesOwned
    <2>4. QED
      BY <2>2, <2>3 DEF BrokerOk
  <1>3. CASE Bind(r)
    <2>1. /\ UNCHANGED <<queues, consumers>> /\ bound' = bound \cup {QueueOf(r)}
          /\ pc[r] = "bind" /\ pc'[r] = "consume"
      BY <1>3 DEF TypeOK, Bind, BoundToTopic
    <2>2. ConsumerThere' /\ ConsumersOwned'
      BY <1>1, <2>1 DEF BrokerOk, ConsumerThere, ConsumersOwned, Consumes, TypeOK
    <2>3. QueuesOwned'
      BY <1>1, <2>1 DEF BrokerOk, QueuesOwned
    <2>4. QED
      BY <2>2, <2>3 DEF BrokerOk
  <1>4. CASE Consume(r)
    <2>1. /\ UNCHANGED <<queues, bound>> /\ consumers' = consumers \cup {r}
          /\ pc[r] = "consume" /\ pc'[r] = "insert"
      BY <1>4 DEF TypeOK, Consume
    <2>2. exchange => r \in bound
      BY <2>1 DEF QueueReady
    <2>3. ConsumerThere' /\ ConsumersOwned'
      BY <1>1, <2>1, <2>2 DEF BrokerOk, ConsumerThere, ConsumersOwned, Consumes, TypeOK
    <2>4. QueuesOwned'
      BY <1>1, <2>1 DEF BrokerOk, QueuesOwned
    <2>5. QED
      BY <2>3, <2>4 DEF BrokerOk
  <1>5. QED
    BY <1>2, <1>3, <1>4

\* An entry is inserted: its consumer is there already.
LEMMA BrokerInsert ==
  ASSUME TypeOK, Entries, BrokerOk, NEW r \in Readers, Insert(r)
  PROVE  BrokerOk'
  <1> USE DEF table, client, broker, Goto
  <1>1. /\ UNCHANGED <<exchange, queues, bound, consumers, topic, tag>>
        /\ pc[r] = "insert" /\ pc'[r] = "add"
        /\ \A q \in Readers \ {r} : pc'[q] = pc[q]
        /\ topic[r] \in Topics /\ master'[topic[r]] = r
        /\ \A t \in Topics \ {topic[r]} : master'[t] = master[t]
        /\ \A q \in Readers : QueueOf(q)' = QueueOf(q)
    BY DEF TypeOK, Insert, Inserted, QueueOf
  <1>2. master[topic[r]] = None
    BY <1>1 DEF Entries, EntryNew, Preparing
  <1>3. QueuesOwned'
    BY <1>1 DEF BrokerOk, QueuesOwned
  <1>4. ConsumerThere'
    BY <1>1 DEF BrokerOk, ConsumerThere, Consumes
  <1>5. ConsumersOwned'
    <2> SUFFICES ASSUME NEW c \in consumers
                 PROVE  \/ pc'[c] \in {"insert", "abandoned"}
                        \/ \E t \in Topics : master'[t] = c
                        \/ \E q \in Readers : pc'[q] = "cancel" /\ tag[q] = c
      BY <1>1 DEF ConsumersOwned
    <2>1. c \in Readers /\ c # None
      BY NoneAssumption DEF TypeOK
    <2>2. CASE c = r
      BY <1>1, <2>2
    <2>3. CASE c # r /\ pc[c] \in {"insert", "abandoned"}
      BY <1>1, <2>1, <2>3
    <2>4. CASE \E t \in Topics : master[t] = c
      <3>1. PICK t \in Topics : master[t] = c
        BY <2>4
      <3>2. t # topic[r]
        BY <1>2, <2>1, <3>1
      <3>3. QED
        BY <1>1, <3>1, <3>2
    <2>5. CASE \E q \in Readers : pc[q] = "cancel" /\ tag[q] = c
      <3>1. PICK q \in Readers : pc[q] = "cancel" /\ tag[q] = c
        BY <2>5
      <3>2. q # r
        BY <1>1, <3>1
      <3>3. QED
        BY <1>1, <3>1, <3>2
    <2>6. QED
      BY <2>2, <2>3, <2>4, <2>5 DEF BrokerOk, ConsumersOwned
  <1>6. QED
    BY <1>3, <1>4, <1>5 DEF BrokerOk

\* An entry is removed: its last reader has the tag of its consumer.
LEMMA BrokerRemove ==
  ASSUME TypeOK, BrokerOk, NEW r \in Readers, DelReader(r)
  PROVE  BrokerOk'
  <1> USE DEF table, client, broker, Goto
  <1>1. /\ UNCHANGED <<exchange, queues, bound, consumers, topic>>
        /\ pc[r] = "detached" /\ pc'[r] \in {"gone", "cancel"}
        /\ \A q \in Readers \ {r} : pc'[q] = pc[q] /\ tag'[q] = tag[q]
        /\ topic[r] \in Topics
        /\ \A t \in Topics \ {topic[r]} : master'[t] = master[t]
        /\ \/ master'[topic[r]] = master[topic[r]]
           \/ /\ master'[topic[r]] = None
              /\ pc'[r] = "cancel" /\ tag'[r] = master[topic[r]]
        /\ \A q \in Readers : QueueOf(q)' = QueueOf(q)
    BY DEF TypeOK, DelReader, CancelledTag, QueueOf
  <1>2. QueuesOwned'
    BY <1>1 DEF BrokerOk, QueuesOwned
  <1>3. ConsumerThere'
    BY <1>1 DEF BrokerOk, ConsumerThere, Consumes
  <1>4. ConsumersOwned'
    BY <1>1 DEF BrokerOk, ConsumersOwned, TypeOK
  <1>5. QED
    BY <1>2, <1>3, <1>4 DEF BrokerOk

\* A consumer is cancelled: it was nobody else's, and nor was its queue.
LEMMA BrokerCancels ==
  ASSUME TypeOK, MadeHere, DropsExcluded, Entries, BrokerOk, chan = "open",
         NEW r \in Readers, Cancel(r)
  PROVE  BrokerOk'
  <1> USE DEF table, client, broker, Goto
  <1>1. /\ UNCHANGED <<exchange, topic, tag, master>>
        /\ pc[r] = "cancel" /\ pc'[r] = "gone"
        /\ \A q \in Readers \ {r} : pc'[q] = pc[q]
        /\ BrokerCancel(tag[r])
        /\ \A q \in Readers : QueueOf(q)' = QueueOf(q)
    BY DEF TypeOK, Cancel, QueueOf
  <1>2. PICK x \in Readers : x = tag[r]
    BY DEF TypeOK
  <1>3. /\ consumers' = consumers \ {x}
        /\ queues' \subseteq queues
        /\ \A c \in consumers \ {x} : QueueOf(c) \in bound => QueueOf(c) \in bound'
        /\ \A q \in queues' : x \in consumers /\ q = QueueOf(x) =>
                             \E c \in consumers \ {x} : q = QueueOf(c)
    BY <1>1, <1>2, CancelDeletes
  <1>4. topic[x] = topic[r] /\ Created(x) /\ master[topic[r]] = None
    BY <1>1, <1>2 DEF MadeHere, TagMade, Entries, EntryLeft
  <1>5. ConsumerThere'
    <2>1. ASSUME NEW c \in Readers, Consumes(c), c # x
          PROVE  Consumes(c)'
      BY <1>1, <1>3, <2>1 DEF Consumes, QueueOf
    <2>2. ASSUME NEW t \in Topics, master[t] # None
          PROVE  master[t] \in Readers /\ master[t] # x /\ Consumes(master[t])
      BY <1>4, <2>2 DEF BrokerOk, ConsumerThere, MadeHere, EntryMade, TypeOK
    <2>3. ASSUME NEW q \in Readers, pc'[q] = "insert"
          PROVE  q # x /\ Consumes(q)
      BY <1>1, <1>4, <2>3 DEF BrokerOk, ConsumerThere, Created
    <2>4. \A t \in Topics : master'[t] # None => Consumes(master[t])'
      BY <1>1, <2>1, <2>2
    <2>5. QED
      BY <1>1, <2>1, <2>3, <2>4 DEF ConsumerThere, Consumes
  <1>6. ConsumersOwned'
    BY <1>1, <1>2, <1>3 DEF BrokerOk, ConsumersOwned, TypeOK
  <1>7. QueuesOwned'
    <2> SUFFICES ASSUME NEW q \in queues'
                 PROVE  \E c \in Readers :
                           q = QueueOf(c) /\ (c \in consumers' \/ pc'[c] \in {"bind", "consume", "abandoned"})
      BY <1>1 DEF QueuesOwned
    <2>1. PICK c \in Readers :
            q = QueueOf(c) /\ (c \in consumers \/ pc[c] \in {"bind", "consume", "abandoned"})
      BY <1>3 DEF BrokerOk, QueuesOwned
    <2>2. CASE c = x /\ c \in consumers
      BY <1>3, <2>1, <2>2 DEF TypeOK
    <2>3. CASE c # x /\ c \in consumers
      BY <1>3, <2>1, <2>3
    <2>4. CASE c \notin consumers
      BY <1>1, <2>1, <2>4
    <2>5. QED
      BY <2>2, <2>3, <2>4
  <1>8. QED
    BY <1>5, <1>6, <1>7 DEF BrokerOk

\* A connection that has been dropped stays dropped.
LEMMA ConnectionStaysDropped == [Next]_vars /\ chan' # "dropped" => chan # "dropped"
  BY DEF Next, ReaderStep, Lookup, Declare, Bind, Consume, RequestFails, Abandon, Insert,
         AddReader, Attach, RemoveSender, DropShared, DelReader, Cancel, Clone,
         ServerClosesChannel, ServerClosesConnection, Close, vars

\* Every step on an open channel keeps the broker to what its clients need.
LEMMA BrokerStep ==
  ASSUME TypeInv, MadeHere, DropsExcluded, QueueReady, Entries, BrokerOk, [Next]_vars,
         chan = "open", chan' = "open"
  PROVE  BrokerOk'
  <1> USE DEF table, client, broker, Goto
  <1>0. TypeOK /\ ConsumersOld /\ BindDeclared
    BY DEF TypeInv
  <1>1. ASSUME NEW r \in Readers,
               \/ Lookup(r) \/ Abandon(r) \/ AddReader(r) \/ Attach(r)
               \/ RemoveSender(r) \/ DropShared(r)
        PROVE  BrokerOk'
    <2>1. /\ UNCHANGED <<exchange, queues, bound, consumers, master, tag, topic>>
          /\ \A q \in Readers \ {r} : pc'[q] = pc[q]
          /\ pc[r] # "cancel" /\ pc'[r] \notin {"bind", "consume", "insert", "cancel"}
          /\ pc[r] \in {"bind", "consume", "insert", "abandoned"} => pc'[r] = "abandoned"
      BY <1>0, <1>1 DEF TypeOK, Lookup, Abandon, AddReader, Attach, RemoveSender, DropShared
    <2>2. QED
      BY <1>0, <2>1, BrokerSame
  <1>2. ASSUME NEW r \in Readers, NEW c \in Readers, Clone(r, c)
        PROVE  BrokerOk'
    <2>1. /\ UNCHANGED <<exchange, queues, bound, consumers, master, tag>>
          /\ \A q \in Readers \ {c} : pc'[q] = pc[q] /\ topic'[q] = topic[q]
          /\ pc[c] = "unused" /\ pc'[c] = "live"
      BY <1>0, <1>2 DEF TypeOK, Clone
    <2>2. QED
      BY <1>0, <2>1, BrokerSame
  <1>3. ASSUME NEW r \in Readers, Declare(r) \/ Bind(r) \/ Consume(r)
        PROVE  BrokerOk'
    BY <1>0, <1>3, BrokerRequests
  <1>4. ASSUME NEW r \in Readers, Insert(r)
        PROVE  BrokerOk'
    BY <1>0, <1>4, BrokerInsert
  <1>5. ASSUME NEW r \in Readers, DelReader(r)
        PROVE  BrokerOk'
    BY <1>0, <1>5, BrokerRemove
  <1>6. ASSUME NEW r \in Readers, Cancel(r)
        PROVE  BrokerOk'
    BY <1>0, <1>6, BrokerCancels
  <1>7. CASE UNCHANGED vars
    <2>1. /\ UNCHANGED <<exchange, queues, bound, consumers, master, tag, pc, topic>>
          /\ \A q : QueueOf(q)' = QueueOf(q)
      BY <1>7 DEF vars, QueueOf
    <2>2. QED
      BY <2>1 DEF BrokerOk, ConsumerThere, ConsumersOwned, QueuesOwned, Consumes
  <1>8. CASE \E r \in Readers : RequestFails(r)
    BY <1>8 DEF RequestFails
  <1>9. CASE ServerClosesChannel \/ ServerClosesConnection \/ Close
    BY <1>9 DEF ServerClosesChannel, ServerClosesConnection, Close
  <1>10. QED
    BY <1>1, <1>2, <1>3, <1>4, <1>5, <1>6, <1>7, <1>8, <1>9 DEF Next, ReaderStep

\* Every step leaves a channel that is not open without consumers, however
\* creations and drops overlap.
LEMMA ConsumersNoneStep == ConsumersNone /\ [Next]_vars => ConsumersNone'
  <1> SUFFICES ASSUME ConsumersNone, [Next]_vars, chan' # "open"
               PROVE  consumers' = {}
    BY DEF ConsumersNone
  <1> USE DEF table, client, broker, Goto
  <1>1. CASE chan' = chan
    <2>1. consumers = {}
      BY <1>1 DEF ConsumersNone
    <2>2. consumers' = consumers
      BY <1>1, <2>1 DEF Next, ReaderStep, Lookup, Declare, Bind, Consume, RequestFails, Abandon,
                        Insert, AddReader, Attach, RemoveSender, DropShared, DelReader, Cancel,
                        Clone, ServerClosesChannel, ServerClosesConnection, Close, vars
    <2>3. QED
      BY <2>1, <2>2
  <1>2. CASE chan' # chan
    BY <1>2 DEF Next, ReaderStep, Lookup, Declare, Bind, Consume, RequestFails, Abandon,
                Insert, AddReader, Attach, RemoveSender, DropShared, DelReader, Cancel,
                Clone, ServerClosesChannel, ServerClosesConnection, Close, vars,
                ChannelGone, ConnectionGone
  <1>3. QED
    BY <1>1, <1>2

-----------------------------------------------------------------------------
(* What the invariant gives. *)

OwnInv == ConsumersNone /\ TableInv /\ BrokerInv

Inv == SharedInv /\ OwnInv

\* Initially nobody uses any topic.
LEMMA OwnInit == Init => OwnInv
  <1> SUFFICES ASSUME Init PROVE OwnInv
    OBVIOUS
  <1>1. CreationsExcluded /\ Fresh
    BY DEF Init, CreationsExcluded, Fresh, Preparing
  <1>2. Entries
    BY DEF Init, Entries, EntryOwned, EntryUsed, EntryNew, EntryLeft, Using, Preparing
  <1>3. Attached /\ CountExact
    BY DEF Init, Attached, CountExact
  <1>4. BrokerOk
    BY DEF Init, BrokerOk, ConsumerThere, ConsumersOwned, QueuesOwned
  <1>5. ConsumersNone
    BY DEF Init, ConsumersNone
  <1>6. QED
    BY <1>1, <1>2, <1>3, <1>4, <1>5 DEF OwnInv, TableInv, BrokerInv

\* Every step keeps the invariant.
LEMMA OwnStep ==
  ASSUME NoOverlap, SharedInv, OwnInv, [Next]_vars
  PROVE  OwnInv'
  <1>0. /\ TypeInv /\ TypeOK /\ MadeHere /\ DropsExcluded
        /\ ConsumersNone /\ TableInv /\ BrokerInv
    BY DEF SharedInv, TypeInv, OwnInv
  <1>1. ConsumersNone'
    BY <1>0, ConsumersNoneStep
  <1>2. CreationsExcluded' /\ Fresh'
    BY <1>0, CreationsExcludedStep, FreshStep DEF NoOverlap, TableInv
  <1>3. ASSUME chan' # "dropped"
        PROVE  Entries' /\ Attached' /\ CountExact'
    <2>1. chan # "dropped"
      BY <1>3, ConnectionStaysDropped
    <2>2. QED
      BY <1>0, <1>3, <2>1, EntriesStep, AttachedStep, CountStep DEF TableInv
  <1>4. ASSUME chan' = "open"
        PROVE  BrokerOk'
    <2>1. chan = "open" /\ QueueReady
      BY <1>4, ChannelStaysShut DEF SharedInv
    <2>2. QED
      BY <1>0, <1>4, <2>1, BrokerStep DEF TableInv, BrokerInv
  <1>5. QED
    BY <1>1, <1>2, <1>3, <1>4 DEF OwnInv, TableInv, BrokerInv

\* The invariant holds in every reachable state.
LEMMA InvHolds ==
  ASSUME NoOverlap
  PROVE  Spec => []Inv
  <1>1. SharedInv /\ OwnInv /\ [Next]_vars => OwnInv'
    BY OwnStep
  <1>2. Spec => []SharedInv
    BY SharedHolds DEF NoOverlap
  <1>3. QED
    BY <1>1, <1>2, OwnInit, PTL DEF Spec, Inv

\* The queues that get a copy of a message published on topic t.
CopyQueues(t) ==
  {QueueOf(c) : c \in {d \in consumers : topic[d] = t /\ (exchange => d \in bound)}}

\* They are finitely many; without an exchange, the one named after the topic.
LEMMA CopyQueuesFinite ==
  ASSUME TypeOK, NEW t \in Topics
  PROVE  /\ Copies(t) = Cardinality(CopyQueues(t))
         /\ IsFiniteSet(CopyQueues(t))
         /\ ~exchange => CopyQueues(t) \subseteq {t}
  <1>1. exchange => CopyQueues(t) \subseteq Readers
    BY DEF CopyQueues, QueueOf, TypeOK
  <1>2. ~exchange => CopyQueues(t) \subseteq {t}
    BY DEF CopyQueues, QueueOf
  <1>3. IsFiniteSet(CopyQueues(t))
    BY <1>1, <1>2, CounterAssumption, FS_Subset, FS_Singleton
  <1>4. QED
    BY <1>2, <1>3 DEF Copies, CopyQueues

\* On an open channel the readers that are served are those that live.
LiveAreServed == chan = "open" => \A r \in Readers : IsServed(r) <=> pc[r] = "live"

\* The invariant says that they are.
LEMMA LiveServed == Inv => LiveAreServed
  <1> SUFFICES ASSUME Inv, NEW r \in Readers, chan = "open", pc[r] = "live"
               PROVE  IsServed(r)
    BY DEF IsServed, LiveAreServed
  <1>1. /\ TypeOK /\ MadeHere /\ Entries /\ Attached /\ BrokerOk
        /\ rm[r] \in Readers /\ rm[r] # None
    BY NoneAssumption DEF Inv, SharedInv, OwnInv, TypeInv, TableInv, BrokerInv, TypeOK
  <1>2. PICK t \in Topics : t = topic[r]
    BY <1>1 DEF TypeOK
  <1>3. master[t] = rm[r]
    BY <1>1, <1>2 DEF Entries, EntryOwned, Using
  <1>4. Consumes(rm[r]) /\ topic[rm[r]] = t
    BY <1>1, <1>2, <1>3 DEF BrokerOk, ConsumerThere, MadeHere, EntryMade
  <1>5. QueueOf(rm[r]) \in CopyQueues(t)
    BY <1>4 DEF CopyQueues, Consumes
  <1>6. Copies(t) # 0
    BY <1>1, <1>5, CopyQueuesFinite, FS_EmptySet
  <1>7. r \in senders[rm[r]]
    BY <1>1 DEF Attached
  <1>8. QED
    BY <1>2, <1>3, <1>6, <1>7 DEF IsServed

\* CAL-005394, "resources are all initialized and ready when created": a reader
\* that has been created and not dropped has its entry, its sender, its
\* consumer and its (bound) queue as long as the channel is open, if the
\* creations and drops of others on its topic do not overlap a creation;
\* creations may be given up at any of their requests.
THEOREM ReadyWhenCreated ==
  ASSUME NoOverlap
  PROVE  Spec => []Ready
  <1>1. Inv => Ready
    BY LiveServed DEF LiveAreServed, Ready
  <1>2. QED
    BY <1>1, InvHolds, PTL

\* The consumers of a topic where no creation was abandoned are one at most:
\* that of a creation about to insert it, of the entry, or of the reader that
\* is about to cancel it.
LEMMA OneConsumer ==
  ASSUME Inv, chan = "open", NEW t \in Topics, On(t, {"abandoned"}) = {},
         NEW c \in consumers, NEW d \in consumers, topic[c] = t, topic[d] = t
  PROVE  c = d
  <1>1. /\ TypeOK /\ MadeHere /\ Entries /\ BrokerOk /\ DropsExcluded /\ CreationsExcluded
        /\ c \in Readers /\ d \in Readers /\ c # None /\ d # None
    BY NoneAssumption DEF Inv, SharedInv, OwnInv, TypeInv, TableInv, BrokerInv, TypeOK
  <1>2. \A x \in consumers : topic[x] = t =>
          \/ pc[x] = "insert"
          \/ master[t] = x
          \/ \E r \in Readers : pc[r] = "cancel" /\ tag[r] = x /\ topic[r] = t
    <2> SUFFICES ASSUME NEW x \in consumers, topic[x] = t
                 PROVE  \/ pc[x] = "insert"
                        \/ master[t] = x
                        \/ \E r \in Readers : pc[r] = "cancel" /\ tag[r] = x /\ topic[r] = t
      OBVIOUS
    <2>1. x \in Readers /\ x # None /\ pc[x] # "abandoned"
      BY <1>1, NoneAssumption DEF TypeOK, On
    <2>2. \A u \in Topics : master[u] = x => u = t
      BY <1>1, <2>1 DEF MadeHere, EntryMade
    <2>3. \A r \in Readers : pc[r] = "cancel" /\ tag[r] = x => topic[r] = t
      BY <1>1 DEF MadeHere, TagMade
    <2>4. QED
      BY <1>1, <2>1, <2>2, <2>3 DEF BrokerOk, ConsumersOwned
  <1>3. CASE pc[c] = "insert"
    <2>1. master[t] = None
      BY <1>1, <1>3 DEF Entries, EntryNew, Preparing
    <2>2. \A r \in Readers : topic[r] = t => pc[r] # "cancel"
      BY <1>1, <1>3 DEF DropsExcluded
    <2>3. pc[d] = "insert"
      BY <1>1, <1>2, <2>1, <2>2
    <2>4. QED
      BY <1>1, <1>3, <2>3 DEF CreationsExcluded
  <1>4. CASE pc[d] = "insert"
    <2>1. master[t] = None
      BY <1>1, <1>4 DEF Entries, EntryNew, Preparing
    <2>2. \A r \in Readers : topic[r] = t => pc[r] # "cancel"
      BY <1>1, <1>4 DEF DropsExcluded
    <2>3. pc[c] = "insert"
      BY <1>1, <1>2, <2>1, <2>2
    <2>4. QED
      BY <1>1, <1>4, <2>3 DEF CreationsExcluded
  <1>5. CASE pc[c] # "insert" /\ pc[d] # "insert"
    <2>1. \A r \in Readers : pc[r] = "cancel" /\ topic[r] = t =>
            /\ master[t] = None
            /\ \A q \in Readers : pc[q] = "cancel" /\ topic[q] = t => q = r
      BY <1>1 DEF Entries, EntryLeft
    <2>2. QED
      BY <1>1, <1>2, <1>5, <2>1
  <1>6. QED
    BY <1>3, <1>4, <1>5

\* A message is handed to the readers of its topic once, with or without an
\* exchange, unless a creation has been abandoned on that topic.
THEOREM MessagesOnce ==
  ASSUME NoOverlap
  PROVE  Spec => []NoDuplicates
  <1>1. Inv => NoDuplicates
    <2> SUFFICES ASSUME Inv, NEW t \in Topics, On(t, {"abandoned"}) = {}
                 PROVE  Copies(t) <= 1
      BY DEF NoDuplicates
    <2>1. /\ Copies(t) = Cardinality(CopyQueues(t))
          /\ IsFiniteSet(CopyQueues(t))
          /\ ~exchange => CopyQueues(t) \subseteq {t}
      BY CopyQueuesFinite DEF Inv, SharedInv, TypeInv
    <2>2. ASSUME NEW x \in CopyQueues(t), NEW y \in CopyQueues(t)
          PROVE  x = y
      <3>1. CASE ~exchange
        BY <2>1, <3>1
      <3>2. CASE exchange
        <4>1. /\ x \in consumers /\ topic[x] = t
              /\ y \in consumers /\ topic[y] = t
          BY <3>2 DEF CopyQueues, QueueOf
        <4>2. chan = "open"
          BY <4>1 DEF Inv, OwnInv, ConsumersNone
        <4>3. QED
          BY <4>1, <4>2, OneConsumer
      <3>3. QED
        BY <3>1, <3>2
    <2>3. CASE CopyQueues(t) = {}
      BY <2>1, <2>3, FS_EmptySet
    <2>4. CASE CopyQueues(t) # {}
      <3>1. PICK x : CopyQueues(t) = {x}
        BY <2>2, <2>4
      <3>2. Cardinality(CopyQueues(t)) = 1
        BY <3>1, FS_Singleton
      <3>3. QED
        BY <2>1, <3>2
    <2>5. QED
      BY <2>3, <2>4
  <1>2. QED
    BY <1>1, InvHolds, PTL

\* With its last reader a topic loses its entry, its consumer and its queue,
\* unless a creation has been abandoned there.
THEOREM NothingStays ==
  ASSUME NoOverlap
  PROVE  Spec => []NothingLeft
  <1>1. Inv => NothingLeft
    <2> SUFFICES ASSUME Inv, chan = "open", NEW t \in Topics,
                        On(t, Creating \cup {"live", "detached", "cancel", "abandoned"}) = {}
                 PROVE  /\ master[t] = None
                        /\ \A r \in Readers :
                             topic[r] = t => r \notin consumers /\ QueueOf(r) \notin queues
      BY DEF NothingLeft
    <2>1. TypeOK /\ MadeHere /\ Entries /\ BrokerOk
      BY DEF Inv, SharedInv, OwnInv, TypeInv, TableInv, BrokerInv
    <2>2. \A r \in Readers : topic[r] = t =>
            pc[r] \notin Creating \cup {"live", "detached", "cancel", "abandoned"}
      BY DEF On
    <2>3. master[t] = None
      BY <2>1, <2>2 DEF Entries, EntryUsed, Using
    <2>4. ASSUME NEW r \in Readers, topic[r] = t
          PROVE  r \notin consumers
      <3>1. r # None
        BY NoneAssumption
      <3>2. \A u \in Topics : master[u] # r
        BY <2>1, <2>3, <2>4, <3>1 DEF MadeHere, EntryMade
      <3>3. \A q \in Readers : pc[q] = "cancel" => tag[q] # r
        BY <2>1, <2>2, <2>4 DEF MadeHere, TagMade
      <3>4. QED
        BY <2>1, <2>2, <2>4, <3>2, <3>3 DEF BrokerOk, ConsumersOwned
    <2>5. ASSUME NEW r \in Readers, topic[r] = t, QueueOf(r) \in queues
          PROVE  FALSE
      <3>1. PICK x \in Readers :
              /\ QueueOf(r) = QueueOf(x)
              /\ x \in consumers \/ pc[x] \in {"bind", "consume", "abandoned"}
        BY <2>1, <2>5 DEF BrokerOk, QueuesOwned
      <3>2. topic[x] = t
        BY <2>5, <3>1 DEF QueueOf
      <3>3. QED
        BY <2>2, <2>4, <3>1, <3>2
    <2>6. QED
      BY <2>3, <2>4, <2>5
  <1>2. QED
    BY <1>1, InvHolds, PTL

\* Dropping the connection reaches every live reader: its ringmaster is the
\* one in the table.
THEOREM CloseReachesEveryone ==
  ASSUME NoOverlap
  PROVE  Spec => CloseReachesAll
  <1>1. Inv /\ [Next]_vars =>
          [Close => \A r \in Readers : pc[r] = "live" => r \notin senders'[rm[r]]]_vars
    <2> SUFFICES ASSUME Inv, Close, NEW r \in Readers, pc[r] = "live"
                 PROVE  r \notin senders'[rm[r]]
      OBVIOUS
    <2>1. TypeOK /\ Entries /\ ShutdownTable
      BY DEF Inv, SharedInv, OwnInv, TypeInv, TableInv, Close
    <2>2. topic[r] \in Topics /\ rm[r] \in Readers /\ master[topic[r]] = rm[r]
      BY <2>1 DEF TypeOK, Entries, EntryOwned, Using
    <2>3. QED
      BY <2>1, <2>2 DEF ShutdownTable
  <1>2. QED
    BY <1>1, InvHolds, PTL DEF Spec, CloseReachesAll

-----------------------------------------------------------------------------
(* The refinement of ReaderService. *)

Serving == {r \in Readers : chan = "open" /\ IsServed(r)}

\* A step of the readers is a step of the service, or none: Attach and Clone
\* join, RemoveSender leaves; whatever ends the channel stops the service.
LEMMA ServiceStep ==
  ASSUME TypeOK, LiveAreServed, LiveAreServed', [Next]_vars
  PROVE  [Service!Next]_Service!vars
  <1> USE DEF table, client, broker, Goto
  <1>1. /\ Serving = {r \in Readers : chan = "open" /\ pc[r] = "live"}
        /\ Serving' = {r \in Readers : chan' = "open" /\ pc'[r] = "live"}
    BY DEF LiveAreServed, Serving
  <1>2. CASE chan # "open"
    <2>1. chan' # "open"
      BY <1>2, ChannelStaysShut
    <2>2. Serving' = Serving
      BY <1>1, <1>2, <2>1
    <2>3. QED
      BY <1>2, <2>1, <2>2 DEF Serving, Service!vars
  <1>3. CASE chan = "open" /\ chan' # "open"
    <2>1. Serving' = {}
      BY <1>1, <1>3
    <2>2. Service!Stop
      BY <1>3, <2>1 DEF Serving, Service!Stop
    <2>3. QED
      BY <2>2 DEF Service!Next
  <1>4. CASE chan = "open" /\ chan' = "open"
    <2>1. /\ Serving = {r \in Readers : pc[r] = "live"}
          /\ Serving' = {r \in Readers : pc'[r] = "live"}
      BY <1>1, <1>4
    <2>2. ASSUME NEW r \in Readers, pc[r] # "live", pc'[r] = "live",
                 \A q \in Readers \ {r} : pc'[q] = pc[q]
          PROVE  [Service!Next]_Service!vars
      <3>1. r \notin Serving /\ Serving' = Serving \cup {r}
        BY <2>1, <2>2
      <3>2. {r} \in SUBSET Readers /\ Service!Join({r})
        BY <1>4, <3>1 DEF Serving, Service!Join
      <3>3. QED
        BY <3>2 DEF Service!Next
    <2>3. ASSUME NEW r \in Readers, RemoveSender(r)
          PROVE  [Service!Next]_Service!vars
      <3>1. /\ pc[r] = "live" /\ pc'[r] = "detached"
            /\ \A q \in Readers \ {r} : pc'[q] = pc[q]
        BY <2>3 DEF TypeOK, RemoveSender
      <3>2. r \in Serving /\ Serving' = Serving \ {r}
        BY <2>1, <3>1
      <3>3. Service!Leave(r)
        BY <1>4, <3>2 DEF Serving, Service!Leave
      <3>4. QED
        BY <3>3 DEF Service!Next
    <2>4. ASSUME \A q \in Readers : pc'[q] = "live" <=> pc[q] = "live"
          PROVE  [Service!Next]_Service!vars
      <3>1. Serving' = Serving
        BY <2>1, <2>4
      <3>2. QED
        BY <1>4, <3>1 DEF Serving, Service!vars
    <2>5. ASSUME NEW r \in Readers, Attach(r)
          PROVE  [Service!Next]_Service!vars
      BY <2>2, <2>5 DEF TypeOK, Attach
    <2>6. ASSUME NEW r \in Readers, NEW c \in Readers, Clone(r, c)
          PROVE  [Service!Next]_Service!vars
      BY <2>2, <2>6 DEF TypeOK, Clone
    <2>7. ASSUME NEW r \in Readers,
                 \/ Lookup(r) \/ Declare(r) \/ Bind(r) \/ Consume(r) \/ RequestFails(r)
                 \/ Abandon(r) \/ Insert(r) \/ AddReader(r)
                 \/ DropShared(r) \/ DelReader(r) \/ Cancel(r)
          PROVE  [Service!Next]_Service!vars
      <3>1. /\ pc[r] # "live" /\ pc'[r] # "live"
            /\ \A q \in Readers \ {r} : pc'[q] = pc[q]
        BY <2>7 DEF TypeOK, Lookup, Declare, Bind, Consume, RequestFails, Abandon, Insert,
                    AddReader, DropShared, DelReader, Cancel
      <3>2. QED
        BY <2>4, <3>1
    <2>8. CASE ServerClosesChannel \/ ServerClosesConnection \/ Close \/ UNCHANGED vars
      <3>1. UNCHANGED pc
        BY <2>8 DEF ServerClosesChannel, ServerClosesConnection, Close, vars
      <3>2. QED
        BY <2>4, <3>1
    <2>9. QED
      BY <2>3, <2>5, <2>6, <2>7, <2>8 DEF Next, ReaderStep
  <1>5. QED
    BY <1>2, <1>3, <1>4

\* The table, the ringmasters and the broker implement the service readers are
\* promised: served from creation or clone to their own drop, whatever others
\* do, and all of them stopped in one step.
THEOREM ServesReaders ==
  ASSUME NoOverlap
  PROVE  Spec => ImplementsService
  <1>1. Init => Service!Init
    <2>1. Init => chan = "open" /\ Serving = {}
      BY DEF Init, Serving, IsServed
    <2>2. QED
      BY <2>1 DEF Serving, Service!Init
  <1>2. Inv /\ LiveAreServed /\ LiveAreServed' /\ [Next]_vars
          => [Service!Next]_Service!vars
    BY ServiceStep DEF Inv, SharedInv, TypeInv
  <1>3. QED
    BY <1>1, <1>2, LiveServed, InvHolds, PTL
       DEF Spec, ImplementsService, Service!Spec

=============================================================================
