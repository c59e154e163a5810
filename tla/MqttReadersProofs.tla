-------------------------- MODULE MqttReadersProofs --------------------------
(***************************************************************************)
(* Proofs about MqttReaders, for any number of readers and topics.  Types  *)
(* and the absence of ghosts hold whatever overlaps on a topic; that the   *)
(* unwrap of a creation finds its entry while the network is up, when no   *)
(* drop may overlap a creation; all else when no other creation and no     *)
(* drop may.  The link may fail at any time in all of them.                *)
(***************************************************************************)
EXTENDS MqttReaders, FiniteSetTheorems, SequenceTheorems, TLAPS

USE DEF Creating

-----------------------------------------------------------------------------
(* Types. *)

\* The initial state has its types.
LEMMA TypeInit == Init => TypeOK
  <1> SUFFICES ASSUME Init PROVE TypeOK
    OBVIOUS
  <1>1. 0 \in 0..(CounterMod - 1)
    BY CounterAssumption, FS_CardinalityType
  <1>2. wire \in Seq({"sub", "unsub"} \X Topics)
    BY EmptySeq DEF Init
  <1>3. QED
    BY <1>1, <1>2 DEF Init, TypeOK

\* A count stays a u16 when it is incremented or decremented.
LEMMA CountWraps ==
  ASSUME NEW n \in 0..(CounterMod - 1)
  PROVE  /\ (n + 1) % CounterMod \in 0..(CounterMod - 1)
         /\ (n - 1) % CounterMod \in 0..(CounterMod - 1)
         /\ 0 \in 0..(CounterMod - 1)
  <1>1. CounterMod \in Nat /\ CounterMod > 0
    BY CounterAssumption, FS_CardinalityType
  <1>2. QED
    BY <1>1

\* A request keeps the wire a sequence of requests.
LEMMA RequestTypes ==
  ASSUME TypeOK, NEW op \in {"sub", "unsub"}, NEW t \in Topics, Request(op, t)
  PROVE  /\ wire' \in Seq({"sub", "unsub"} \X Topics)
         /\ broker' = broker
         /\ link' = link
  BY AppendProperties DEF Request, TypeOK

\* Emptying the table keeps the types.
LEMMA ShutdownTypes ==
  ASSUME TypeOK, ShutdownTable
  PROVE  /\ master' \in [Topics -> Readers \cup {None}]
         /\ count' \in [Topics -> 0..(CounterMod - 1)]
         /\ senders' \in [Readers -> SUBSET Readers]
  <1>1. 0 \in 0..(CounterMod - 1)
    BY CounterAssumption, FS_CardinalityType
  <1>2. QED
    BY <1>1 DEF ShutdownTable, TypeOK

\* Every step keeps the types.
LEMMA TypeStep == TypeOK /\ [Next]_vars => TypeOK'
  <1> SUFFICES ASSUME TypeOK, [Next]_vars PROVE TypeOK'
    OBVIOUS
  <1> USE DEF table, client, mqtt, Goto
  <1>1. ASSUME NEW r \in Readers, Lookup(r)
        PROVE  TypeOK'
    BY <1>1, NoneAssumption DEF TypeOK, Lookup, Ringmaster
  <1>2. ASSUME NEW r \in Readers, Subscribe(r)
        PROVE  TypeOK'
    <2>1. topic[r] \in Topics
      BY DEF TypeOK
    <2>2. /\ wire' \in Seq({"sub", "unsub"} \X Topics)
          /\ broker' = broker
          /\ link' = link
      BY <1>2, <2>1, RequestTypes DEF Subscribe
    <2>3. QED
      BY <1>2, <2>2 DEF TypeOK, Subscribe
  <1>3. ASSUME NEW r \in Readers, Insert(r)
        PROVE  TypeOK'
    <2>1. count' \in [Topics -> 0..(CounterMod - 1)]
      BY <1>3, CountWraps DEF TypeOK, Insert
    <2>2. QED
      BY <1>3, <2>1 DEF TypeOK, Insert, Inserted
  <1>4. ASSUME NEW r \in Readers, AddReader(r)
        PROVE  TypeOK'
    <2>1. /\ count \in [Topics -> 0..(CounterMod - 1)]
          /\ topic[r] \in Topics
      BY DEF TypeOK
    <2>2. (count[topic[r]] + 1) % CounterMod \in 0..(CounterMod - 1)
      BY <2>1, CountWraps
    <2>3. count' \in [Topics -> 0..(CounterMod - 1)]
      BY <1>4, <2>1, <2>2 DEF AddReader
    <2>4. QED
      BY <1>4, <2>3 DEF TypeOK, AddReader
  <1>5. ASSUME NEW r \in Readers, Attach(r) \/ RemoveSender(r) \/ DropShared(r)
        PROVE  TypeOK'
    <2>1. senders' \in [Readers -> SUBSET Readers]
      <3>1. \/ senders' = senders
            \/ senders' = [senders EXCEPT ![rm[r]] = @ \cup {r}]
            \/ senders' = [senders EXCEPT ![rm[r]] = @ \ {r}]
        BY <1>5 DEF Attach, RemoveSender, SenderRemoved, DropShared
      <3>2. senders \in [Readers -> SUBSET Readers]
        BY DEF TypeOK
      <3>3. QED
        BY <3>1, <3>2
    <2>2. pc' \in [Readers -> Creating \cup {"unused", "live", "detached", "gone",
                                           "unsubscribe", "panicked"}]
      BY <1>5 DEF TypeOK, Attach, RemoveSender, DropShared
    <2>3. UNCHANGED <<table, client, mqtt>>
      BY <1>5 DEF Attach, RemoveSender, DropShared
    <2>4. QED
      BY <2>1, <2>2, <2>3 DEF TypeOK
  <1>6. ASSUME NEW r \in Readers, NEW c \in Readers, Clone(r, c)
        PROVE  TypeOK'
    BY <1>6 DEF TypeOK, Clone
  <1>7. ASSUME NEW r \in Readers, DelReader(r)
        PROVE  TypeOK'
    <2>1. /\ count \in [Topics -> 0..(CounterMod - 1)]
          /\ topic[r] \in Topics
      BY DEF TypeOK
    <2>2. /\ (count[topic[r]] - 1) % CounterMod \in 0..(CounterMod - 1)
          /\ 0 \in 0..(CounterMod - 1)
      BY <2>1, CountWraps
    <2>3. count' \in [Topics -> 0..(CounterMod - 1)]
      BY <1>7, <2>1, <2>2 DEF DelReader
    <2>4. master' \in [Topics -> Readers \cup {None}]
      BY <1>7, <2>1 DEF TypeOK, DelReader
    <2>5. senders' \in [Readers -> SUBSET Readers]
      <3>1. \/ senders' = senders
            \/ senders' = [senders EXCEPT ![master[topic[r]]] = {}]
        BY <1>7 DEF DelReader
      <3>2. QED
        BY <3>1 DEF TypeOK
    <2>6. pc' \in [Readers -> Creating \cup {"unused", "live", "detached", "gone",
                                           "unsubscribe", "panicked"}]
      BY <1>7 DEF TypeOK, DelReader
    <2>7. UNCHANGED <<client, mqtt>>
      BY <1>7 DEF DelReader
    <2>8. QED
      BY <2>3, <2>4, <2>5, <2>6, <2>7 DEF TypeOK
  <1>8. ASSUME NEW r \in Readers, Unsubscribe(r)
        PROVE  TypeOK'
    <2>1. topic[r] \in Topics
      BY DEF TypeOK
    <2>2. /\ wire' \in Seq({"sub", "unsub"} \X Topics)
          /\ broker' = broker
          /\ link' = link
      BY <1>8, <2>1, RequestTypes DEF Unsubscribe
    <2>3. QED
      BY <1>8, <2>2 DEF TypeOK, Unsubscribe
  <1>9. CASE BrokerStep
    <2>1. /\ Head(wire) \in {"sub", "unsub"} \X Topics
          /\ Tail(wire) \in Seq({"sub", "unsub"} \X Topics)
      BY <1>9, HeadTailProperties DEF TypeOK, BrokerStep
    <2>2. QED
      BY <1>9, <2>1 DEF TypeOK, BrokerStep
  <1>10. CASE LinkError \/ Close
    <2>1. <<>> \in Seq({"sub", "unsub"} \X Topics)
      BY EmptySeq
    <2>2. QED
      BY <1>10, <2>1, ShutdownTypes DEF TypeOK, LinkError, Close
  <1>11. CASE ReportFailed \/ UNCHANGED vars
    BY <1>11 DEF TypeOK, ReportFailed, vars
  <1>12. QED
    BY <1>1, <1>2, <1>3, <1>4, <1>5, <1>6, <1>7, <1>8, <1>9, <1>10, <1>11
       DEF Next, ReaderStep

\* In every reachable state the variables have their types; the reader counts
\* stay within a u16, wrapped around if need be.
THEOREM TypeCorrect == Spec => []TypeOK
  BY TypeInit, TypeStep, PTL DEF Spec

-----------------------------------------------------------------------------
(* Senders. *)

\* A sender belongs to a live reader, and is with that reader's ringmaster.
SendersInv ==
  \A x \in Readers : \A r \in senders[x] : pc[r] = "live" /\ rm[r] = x

\* Steps that only take senders away and change no live reader.
LEMMA FewerSenders ==
  ASSUME TypeOK, SendersInv,
         \A x \in Readers : senders'[x] \subseteq senders[x],
         \A r \in Readers : pc[r] = "live" => pc'[r] = "live" /\ rm'[r] = rm[r]
  PROVE  SendersInv'
  BY DEF TypeOK, SendersInv

\* Every step keeps the invariant of the senders.
LEMMA SendersStep == TypeOK /\ SendersInv /\ [Next]_vars => SendersInv'
  <1> SUFFICES ASSUME TypeOK, SendersInv, [Next]_vars PROVE SendersInv'
    OBVIOUS
  <1> USE DEF table, client, mqtt, Goto
  <1>0. /\ rm \in [Readers -> Readers]
        /\ senders \in [Readers -> SUBSET Readers]
    BY DEF TypeOK
  <1>1. ASSUME NEW r \in Readers,
               \/ Lookup(r) \/ Subscribe(r) \/ Insert(r) \/ AddReader(r)
               \/ DropShared(r) \/ Unsubscribe(r)
        PROVE  SendersInv'
    <2>1. senders' = senders /\ pc[r] # "live"
      BY <1>1 DEF Lookup, Subscribe, Insert, AddReader, DropShared, Unsubscribe
    <2>2. \A q \in Readers \ {r} : pc'[q] = pc[q] /\ rm'[q] = rm[q]
      BY <1>1 DEF TypeOK, Lookup, Subscribe, Insert, AddReader, DropShared, Unsubscribe
    <2>3. QED
      BY <2>1, <2>2, FewerSenders
  <1>2. ASSUME NEW r \in Readers, Attach(r)
        PROVE  SendersInv'
    <2>1. rm' = rm /\ pc'[r] = "live" /\ \A q \in Readers \ {r} : pc'[q] = pc[q]
      BY <1>2 DEF TypeOK, Attach
    <2>2. \A x \in Readers : /\ x # rm[r] => senders'[x] = senders[x]
                             /\ x = rm[r] => senders'[x] = senders[x] \cup {r}
      BY <1>0, <1>2 DEF Attach
    <2>3. ASSUME NEW x \in Readers, NEW q \in senders'[x]
          PROVE  pc'[q] = "live" /\ rm'[q] = x
      <3>1. CASE q = r /\ x = rm[r]
        BY <2>1, <3>1
      <3>2. CASE q \in senders[x]
        <4>1. q \in Readers /\ pc[q] = "live" /\ rm[q] = x
          BY <1>0, <3>2 DEF SendersInv
        <4>2. QED
          BY <2>1, <4>1
      <3>3. QED
        BY <2>2, <2>3, <3>1, <3>2
    <2>4. QED
      BY <2>3 DEF SendersInv
  <1>3. ASSUME NEW r \in Readers, RemoveSender(r)
        PROVE  SendersInv'
    <2>1. rm' = rm /\ \A q \in Readers \ {r} : pc'[q] = pc[q]
      BY <1>3 DEF TypeOK, RemoveSender
    <2>2. \A x \in Readers : /\ x # rm[r] => senders'[x] = senders[x]
                             /\ x = rm[r] => senders'[x] = senders[x] \ {r}
      BY <1>0, <1>3 DEF RemoveSender, SenderRemoved
    <2>3. ASSUME NEW x \in Readers, NEW q \in senders'[x]
          PROVE  pc'[q] = "live" /\ rm'[q] = x
      <3>1. q \in senders[x]
        BY <2>2, <2>3
      <3>2. q \in Readers /\ pc[q] = "live" /\ rm[q] = x
        BY <1>0, <3>1 DEF SendersInv
      <3>3. q # r
        BY <2>2, <2>3, <3>2
      <3>4. QED
        BY <2>1, <3>2, <3>3
    <2>4. QED
      BY <2>3 DEF SendersInv
  <1>4. ASSUME NEW r \in Readers, NEW c \in Readers, Clone(r, c)
        PROVE  SendersInv'
    <2>1. /\ pc[c] # "live" /\ pc'[c] = "live" /\ rm'[c] = rm[r]
          /\ \A q \in Readers \ {c} : pc'[q] = pc[q] /\ rm'[q] = rm[q]
      BY <1>4 DEF TypeOK, Clone
    <2>2. \A x \in Readers : /\ x # rm[r] => senders'[x] = senders[x]
                             /\ x = rm[r] => senders'[x] = senders[x] \cup {c}
      BY <1>0, <1>4 DEF Clone
    <2>3. ASSUME NEW x \in Readers, NEW q \in senders'[x]
          PROVE  pc'[q] = "live" /\ rm'[q] = x
      <3>1. CASE q = c /\ x = rm[r]
        BY <2>1, <3>1
      <3>2. CASE q \in senders[x]
        <4>1. q \in Readers /\ pc[q] = "live" /\ rm[q] = x
          BY <1>0, <3>2 DEF SendersInv
        <4>2. QED
          BY <2>1, <4>1
      <3>3. QED
        BY <2>2, <2>3, <3>1, <3>2
    <2>4. QED
      BY <2>3 DEF SendersInv
  <1>5. ASSUME NEW r \in Readers, DelReader(r)
        PROVE  SendersInv'
    <2>1. /\ pc[r] # "live"
          /\ rm' = rm
          /\ \A q \in Readers \ {r} : pc'[q] = pc[q]
          /\ \A x \in Readers : senders'[x] \subseteq senders[x]
      BY <1>5 DEF TypeOK, DelReader
    <2>2. QED
      BY <2>1, FewerSenders
  <1>6. CASE LinkError \/ Close
    <2>1. /\ pc' = pc
          /\ rm' = rm
          /\ \A x \in Readers : senders'[x] \subseteq senders[x]
      BY <1>6 DEF LinkError, Close, ShutdownTable
    <2>2. QED
      BY <2>1, FewerSenders
  <1>7. CASE BrokerStep \/ ReportFailed \/ UNCHANGED vars
    BY <1>7 DEF SendersInv, BrokerStep, ReportFailed, vars
  <1>8. QED
    BY <1>1, <1>2, <1>3, <1>4, <1>5, <1>6, <1>7 DEF Next, ReaderStep

\* No ringmaster ever sends to a reader that is being or has been dropped:
\* however creations, clones, drops and failures of the link overlap.
THEOREM NoGhosts == Spec => []NoGhostSender
  <1>1. Init => SendersInv
    BY DEF Init, SendersInv
  <1>2. TypeOK /\ SendersInv => NoGhostSender
    BY DEF SendersInv, NoGhostSender
  <1>3. QED
    BY <1>1, <1>2, SendersStep, TypeCorrect, PTL DEF Spec

-----------------------------------------------------------------------------
(* The invariant of the table, when on one bus topic neither two creations  *)
(* overlap nor a creation and a drop.                                       *)

NoOverlap == "create" \notin MayOverlap /\ "drop" \notin MayOverlap

DropsExcluded ==
  \A r, q \in Readers :
    pc[r] \in Creating /\ pc[q] \in {"detached", "unsubscribe"} => topic[r] # topic[q]

CreationsExcluded ==
  \A r, q \in Readers :
    pc[r] \in Creating /\ pc[q] \in Creating /\ topic[r] = topic[q] => r = q

\* A reader that has not been counted has an AsbReaderNet of its own, and a
\* ringmaster that is not in the table yet is its creator's.
Fresh ==
  \A r \in Readers :
    /\ pc[r] \in {"unused", "subscribe", "insert", "add"} =>
         handle[r] = r /\ \A q \in Readers : handle[q] = r => q = r
    /\ pc[r] \in {"subscribe", "insert"} => rm[r] = r

\* A reader from its look-up of the entry, or its insertion, to its own drop.
Using(r) == pc[r] \in {"add", "attach", "live", "detached"}

\* The entry of a topic has the ringmaster of each reader that uses it, ...
EntryOwned == \A r \in Readers : Using(r) => master[topic[r]] = rm[r]

\* ... is there only as long as a reader uses it, ...
EntryUsed ==
  \A t \in Topics : master[t] # None => \E r \in Readers : topic[r] = t /\ Using(r)

\* ... not before its creator inserts it, ...
EntryNew ==
  \A r \in Readers : pc[r] \in {"subscribe", "insert"} => master[topic[r]] = None

\* ... not after its last reader removes it, ...
EntryLeft ==
  \A r \in Readers : pc[r] = "unsubscribe" =>
    /\ master[topic[r]] = None
    /\ \A q \in Readers : pc[q] = "unsubscribe" /\ topic[q] = topic[r] => q = r

\* ... and has a ringmaster made for this topic.
EntryMade ==
  \A t \in Topics : master[t] # None =>
    /\ topic[master[t]] = t
    /\ pc[master[t]] \notin {"unused", "subscribe", "insert"}

Entries == EntryOwned /\ EntryUsed /\ EntryNew /\ EntryLeft /\ EntryMade

Attached == \A r \in Readers : pc[r] = "live" => r \in senders[rm[r]]

Handles(t) == {handle[r] : r \in Holding(t)}

CountExact == \A t \in Topics : master[t] # None => count[t] = Cardinality(Handles(t))

\* The broker's subscription is there from before the insertion of the entry
\* to after its removal.
SubscribedExact ==
  \A t \in Topics :
    Subscribed(t) <=> \/ master[t] # None
                      \/ \E r \in Readers : topic[r] = t /\ pc[r] \in {"insert", "unsubscribe"}

TableInv ==
  /\ DropsExcluded
  /\ CreationsExcluded
  /\ Fresh
  /\ link = "up" => Entries /\ Attached /\ CountExact /\ SubscribedExact

\* Creations and drops keep out of each other's way.
LEMMA DropsExcludedStep ==
  ASSUME "drop" \notin MayOverlap, TypeOK, DropsExcluded, [Next]_vars
  PROVE  DropsExcluded'
  <1> USE DEF table, client, mqtt, Goto
  <1>1. ASSUME NEW r \in Readers, Lookup(r)
        PROVE  DropsExcluded'
    <2>1. /\ topic' = topic
          /\ pc'[r] \in Creating
          /\ \A q \in Readers \ {r} : pc'[q] = pc[q]
          /\ \A q \in Readers : pc[q] \in {"detached", "unsubscribe"} => topic[q] # topic[r]
      BY <1>1 DEF TypeOK, Lookup, On
    <2>2. QED
      BY <2>1 DEF DropsExcluded
  <1>2. ASSUME NEW r \in Readers,
               Subscribe(r) \/ Insert(r) \/ AddReader(r) \/ Attach(r)
        PROVE  DropsExcluded'
    <2>1. /\ topic' = topic
          /\ pc[r] \in Creating
          /\ pc'[r] \in Creating \cup {"live", "panicked"}
          /\ \A q \in Readers \ {r} : pc'[q] = pc[q]
      BY <1>2 DEF TypeOK, Subscribe, Insert, AddReader, Attach
    <2>2. QED
      BY <2>1 DEF DropsExcluded
  <1>3. ASSUME NEW r \in Readers, RemoveSender(r)
        PROVE  DropsExcluded'
    <2>1. /\ topic' = topic
          /\ pc'[r] = "detached"
          /\ \A q \in Readers \ {r} : pc'[q] = pc[q]
          /\ \A q \in Readers : pc[q] \in Creating => topic[q] # topic[r]
      BY <1>3 DEF TypeOK, RemoveSender, On
    <2>2. QED
      BY <2>1 DEF DropsExcluded
  <1>4. ASSUME NEW r \in Readers, DropShared(r) \/ DelReader(r) \/ Unsubscribe(r)
        PROVE  DropsExcluded'
    <2>1. /\ topic' = topic
          /\ pc[r] \in {"detached", "unsubscribe"}
          /\ pc'[r] \in {"unsubscribe", "gone"}
          /\ \A q \in Readers \ {r} : pc'[q] = pc[q]
      BY <1>4 DEF TypeOK, DropShared, DelReader, Unsubscribe
    <2>2. QED
      BY <2>1 DEF DropsExcluded
  <1>5. ASSUME NEW r \in Readers, NEW c \in Readers, Clone(r, c)
        PROVE  DropsExcluded'
    <2>1. /\ pc'[c] = "live"
          /\ \A q \in Readers \ {c} : pc'[q] = pc[q] /\ topic'[q] = topic[q]
      BY <1>5 DEF TypeOK, Clone
    <2>2. QED
      BY <2>1 DEF DropsExcluded
  <1>6. CASE BrokerStep \/ LinkError \/ ReportFailed \/ Close \/ UNCHANGED vars
    BY <1>6 DEF DropsExcluded, BrokerStep, LinkError, ReportFailed, Close, vars
  <1>7. QED
    BY <1>1, <1>2, <1>3, <1>4, <1>5, <1>6 DEF Next, ReaderStep

\* Creations on one topic take turns.
LEMMA CreationsExcludedStep ==
  ASSUME "create" \notin MayOverlap, TypeOK, CreationsExcluded, [Next]_vars
  PROVE  CreationsExcluded'
  <1> USE DEF table, client, mqtt, Goto
  <1>1. ASSUME NEW r \in Readers, Lookup(r)
        PROVE  CreationsExcluded'
    <2>1. /\ topic' = topic
          /\ \A q \in Readers \ {r} : pc'[q] = pc[q]
          /\ \A q \in Readers : pc[q] \in Creating => topic[q] # topic[r]
      BY <1>1 DEF TypeOK, Lookup, On
    <2>2. QED
      BY <2>1 DEF CreationsExcluded
  <1>2. ASSUME NEW r \in Readers,
               \/ Subscribe(r) \/ Insert(r) \/ AddReader(r) \/ Attach(r)
               \/ RemoveSender(r) \/ DropShared(r) \/ DelReader(r) \/ Unsubscribe(r)
        PROVE  CreationsExcluded'
    <2>1. /\ topic' = topic
          /\ pc'[r] \in Creating => pc[r] \in Creating
          /\ \A q \in Readers \ {r} : pc'[q] = pc[q]
      BY <1>2 DEF TypeOK, Subscribe, Insert, AddReader, Attach, RemoveSender,
                  DropShared, DelReader, Unsubscribe
    <2>2. QED
      BY <2>1 DEF CreationsExcluded
  <1>3. ASSUME NEW r \in Readers, NEW c \in Readers, Clone(r, c)
        PROVE  CreationsExcluded'
    <2>1. /\ pc'[c] = "live"
          /\ \A q \in Readers \ {c} : pc'[q] = pc[q] /\ topic'[q] = topic[q]
      BY <1>3 DEF TypeOK, Clone
    <2>2. QED
      BY <2>1 DEF CreationsExcluded
  <1>4. CASE BrokerStep \/ LinkError \/ ReportFailed \/ Close \/ UNCHANGED vars
    BY <1>4 DEF CreationsExcluded, BrokerStep, LinkError, ReportFailed, Close, vars
  <1>5. QED
    BY <1>1, <1>2, <1>3, <1>4 DEF Next, ReaderStep

\* What a creation has made stays its own until it is counted or inserted.
LEMMA FreshStep ==
  ASSUME TypeOK, Fresh, [Next]_vars
  PROVE  Fresh'
  <1> USE DEF table, client, mqtt, Goto
  <1>1. ASSUME NEW r \in Readers, Lookup(r)
        PROVE  Fresh'
    <2>1. /\ handle' = handle
          /\ pc[r] = "unused"
          /\ pc'[r] \in {"subscribe", "add"}
          /\ pc'[r] = "subscribe" => rm'[r] = r
          /\ \A q \in Readers \ {r} : pc'[q] = pc[q] /\ rm'[q] = rm[q]
      BY <1>1 DEF TypeOK, Lookup, Ringmaster
    <2>2. QED
      BY <2>1 DEF Fresh
  <1>2. ASSUME NEW r \in Readers,
               \/ Subscribe(r) \/ Insert(r) \/ AddReader(r) \/ Attach(r)
               \/ RemoveSender(r) \/ DropShared(r) \/ DelReader(r) \/ Unsubscribe(r)
        PROVE  Fresh'
    <2>1. /\ handle' = handle
          /\ rm' = rm
          /\ pc'[r] \in {"unused", "subscribe", "insert", "add"}
               => pc[r] \in {"subscribe", "insert"}
          /\ \A q \in Readers \ {r} : pc'[q] = pc[q]
      BY <1>2 DEF TypeOK, Subscribe, Insert, AddReader, Attach, RemoveSender,
                  DropShared, DelReader, Unsubscribe
    <2>2. QED
      BY <2>1 DEF Fresh
  <1>3. ASSUME NEW r \in Readers, NEW c \in Readers, Clone(r, c)
        PROVE  Fresh'
    <2>1. /\ pc[r] = "live"
          /\ pc'[c] = "live"
          /\ handle'[c] = handle[r]
          /\ \A q \in Readers \ {c} : pc'[q] = pc[q] /\ rm'[q] = rm[q] /\ handle'[q] = handle[q]
      BY <1>3 DEF TypeOK, Clone
    <2>2. QED
      BY <2>1 DEF Fresh
  <1>4. CASE BrokerStep \/ LinkError \/ ReportFailed \/ Close \/ UNCHANGED vars
    BY <1>4 DEF Fresh, BrokerStep, LinkError, ReportFailed, Close, vars
  <1>5. QED
    BY <1>1, <1>2, <1>3, <1>4 DEF Next, ReaderStep

-----------------------------------------------------------------------------
(* The unwrap of add_reader.                                                *)

\* A link that is up has been up before.
LEMMA LinkStaysDown == [Next]_vars /\ link' = "up" => link = "up"
  BY DEF Next, ReaderStep, Lookup, Subscribe, Insert, AddReader, Attach, RemoveSender,
         DropShared, DelReader, Unsubscribe, Clone, BrokerStep, LinkError, ReportFailed,
         Close, Request, vars, mqtt

\* A creation that is about to count its reader finds an entry.
EntryToAdd == \A r \in Readers : pc[r] = "add" => master[topic[r]] # None

\* No entry goes while a creation is on its way to it and the network is up.
LEMMA EntryToAddStep ==
  ASSUME "drop" \notin MayOverlap, link' = "up",
         TypeOK, DropsExcluded, EntryToAdd, [Next]_vars
  PROVE  EntryToAdd'
  <1> USE DEF table, client, mqtt, Goto
  <1>1. ASSUME NEW r \in Readers, Lookup(r)
        PROVE  EntryToAdd'
    <2>1. /\ UNCHANGED <<master, topic>>
          /\ pc'[r] = "add" => master[topic[r]] # None
          /\ \A q \in Readers \ {r} : pc'[q] = pc[q]
      BY <1>1 DEF TypeOK, Lookup
    <2>2. QED
      BY <2>1 DEF EntryToAdd
  <1>2. ASSUME NEW r \in Readers, Insert(r)
        PROVE  EntryToAdd'
    <2>1. /\ topic' = topic
          /\ \A t \in Topics : t # topic[r] => master'[t] = master[t]
          /\ master'[topic[r]] = r
          /\ \A q \in Readers \ {r} : pc'[q] = pc[q]
      BY <1>2 DEF TypeOK, Insert, Inserted
    <2>2. QED
      BY <2>1, NoneAssumption DEF EntryToAdd, TypeOK
  <1>3. ASSUME NEW r \in Readers,
               \/ Subscribe(r) \/ AddReader(r) \/ Attach(r)
               \/ RemoveSender(r) \/ DropShared(r) \/ Unsubscribe(r)
        PROVE  EntryToAdd'
    <2>1. /\ UNCHANGED <<master, topic>>
          /\ pc'[r] # "add"
          /\ \A q \in Readers \ {r} : pc'[q] = pc[q]
      BY <1>3 DEF TypeOK, Subscribe, AddReader, Attach, RemoveSender, DropShared, Unsubscribe
    <2>2. QED
      BY <2>1 DEF EntryToAdd
  <1>4. ASSUME NEW r \in Readers, NEW c \in Readers, Clone(r, c)
        PROVE  EntryToAdd'
    <2>1. /\ master' = master
          /\ pc'[c] = "live"
          /\ \A q \in Readers \ {c} : pc'[q] = pc[q] /\ topic'[q] = topic[q]
      BY <1>4 DEF TypeOK, Clone
    <2>2. QED
      BY <2>1 DEF EntryToAdd
  <1>5. ASSUME NEW r \in Readers, DelReader(r)
        PROVE  EntryToAdd'
    <2>1. /\ topic' = topic
          /\ pc[r] = "detached" /\ pc'[r] # "add"
          /\ \A q \in Readers \ {r} : pc'[q] = pc[q]
          /\ \A t \in Topics : t # topic[r] => master'[t] = master[t]
      BY <1>5 DEF TypeOK, DelReader
    <2>2. \A q \in Readers : pc[q] = "add" => topic[q] # topic[r]
      BY <2>1 DEF DropsExcluded
    <2>3. QED
      BY <2>1, <2>2 DEF EntryToAdd, TypeOK
  <1>6. CASE LinkError \/ Close
    BY <1>6 DEF LinkError, Close
  <1>7. CASE BrokerStep \/ ReportFailed \/ UNCHANGED vars
    BY <1>7 DEF EntryToAdd, BrokerStep, ReportFailed, vars
  <1>8. QED
    BY <1>1, <1>2, <1>3, <1>4, <1>5, <1>6, <1>7 DEF Next, ReaderStep

\* Then the creation does not panic.
LEMMA NoPanicStep ==
  ASSUME TypeOK, EntryToAdd, NoPanic, [Next]_vars
  PROVE  NoPanic'
  <1> USE DEF table, client, mqtt, Goto
  <1>1. ASSUME NEW r \in Readers, AddReader(r)
        PROVE  NoPanic'
    <2>1. pc'[r] = "attach" /\ \A q \in Readers \ {r} : pc'[q] = pc[q]
      BY <1>1 DEF TypeOK, AddReader, EntryToAdd
    <2>2. QED
      BY <2>1 DEF NoPanic
  <1>2. ASSUME NEW r \in Readers,
               \/ Lookup(r) \/ Subscribe(r) \/ Insert(r) \/ Attach(r)
               \/ RemoveSender(r) \/ DropShared(r) \/ DelReader(r) \/ Unsubscribe(r)
               \/ \E q \in Readers : Clone(q, r)
        PROVE  NoPanic'
    <2>1. pc'[r] # "panicked" /\ \A q \in Readers \ {r} : pc'[q] = pc[q]
      BY <1>2 DEF TypeOK, Lookup, Subscribe, Insert, Attach, RemoveSender,
                  DropShared, DelReader, Unsubscribe, Clone
    <2>2. QED
      BY <2>1 DEF NoPanic
  <1>3. CASE BrokerStep \/ LinkError \/ ReportFailed \/ Close \/ UNCHANGED vars
    BY <1>3 DEF NoPanic, BrokerStep, LinkError, ReportFailed, Close, vars
  <1>4. QED
    BY <1>1, <1>2, <1>3 DEF Next, ReaderStep

UnwrapInv == DropsExcluded /\ (link = "up" => EntryToAdd /\ NoPanic)

\* add_reader's unwrap finds the entry that its SAFETY comment speaks of as long
\* as the network is up, if no drop overlaps a creation on the topic; other
\* creations may, and only a network that has failed or been closed in between
\* makes it panic.
THEOREM UnwrapSafe ==
  ASSUME "drop" \notin MayOverlap
  PROVE  Spec => []NoPanicWhileUp
  <1>1. Init => UnwrapInv
    BY DEF Init, DropsExcluded, EntryToAdd, NoPanic, UnwrapInv
  <1>2. TypeOK /\ UnwrapInv /\ [Next]_vars => UnwrapInv'
    <2> SUFFICES ASSUME TypeOK, UnwrapInv, [Next]_vars PROVE UnwrapInv'
      OBVIOUS
    <2>1. DropsExcluded'
      BY DropsExcludedStep DEF UnwrapInv
    <2>2. ASSUME link' = "up"
          PROVE  EntryToAdd' /\ NoPanic'
      <3>1. EntryToAdd /\ NoPanic
        BY <2>2, LinkStaysDown DEF UnwrapInv
      <3>2. QED
        BY <2>2, <3>1, EntryToAddStep, NoPanicStep DEF UnwrapInv
    <2>3. QED
      BY <2>1, <2>2 DEF UnwrapInv
  <1>3. UnwrapInv => NoPanicWhileUp
    BY DEF UnwrapInv, NoPanicWhileUp
  <1>4. QED
    BY <1>1, <1>2, <1>3, TypeCorrect, PTL DEF Spec

-----------------------------------------------------------------------------
(* What the count of an entry says about those who hold it. *)

\* The AsbReaderNets of a topic are finitely many, fewer than a u16 counts to.
LEMMA HandlesFinite ==
  ASSUME TypeOK, NEW t \in Topics
  PROVE  /\ Handles(t) \subseteq Readers
         /\ IsFiniteSet(Handles(t))
         /\ Cardinality(Handles(t)) \in 0..(CounterMod - 1)
         /\ CounterMod \in Nat
  <1>1. Handles(t) \subseteq Readers
    BY DEF TypeOK, Handles, Holding, On
  <1>2. /\ IsFiniteSet(Handles(t))
        /\ Cardinality(Handles(t)) <= Cardinality(Readers)
    BY <1>1, CounterAssumption, FS_Subset
  <1>3. Cardinality(Handles(t)) \in Nat /\ Cardinality(Readers) \in Nat
    BY <1>2, CounterAssumption, FS_CardinalityType
  <1>4. QED
    BY <1>1, <1>2, <1>3, CounterAssumption

\* A last clone whose entry counts one AsbReaderNet is the last reader.
LEMMA LastReader ==
  ASSUME TypeOK, CountExact, NEW r \in Readers, pc[r] = "detached", ~IsShared(r),
         master[topic[r]] # None, count[topic[r]] = 1
  PROVE  \A q \in Readers :
           topic[q] = topic[r] /\ pc[q] \in {"attach", "live", "detached"} => q = r
  <1>1. topic[r] \in Topics
    BY DEF TypeOK
  <1>2. Cardinality(Handles(topic[r])) = 1
    BY <1>1 DEF CountExact
  <1>3. PICK x : Handles(topic[r]) = {x}
    BY <1>1, <1>2, HandlesFinite, FS_Singleton
  <1>4. \A q \in Holding(topic[r]) : handle[q] = x
    BY <1>3 DEF Handles
  <1>5. r \in Holding(topic[r])
    BY DEF Holding, On
  <1>6. \A q \in Holding(topic[r]) : q = r
    BY <1>4, <1>5 DEF IsShared
  <1>7. QED
    BY <1>6 DEF Holding, On

\* One whose entry counts another number leaves others behind, one fewer.
LEMMA OtherReaders ==
  ASSUME TypeOK, CountExact, NEW r \in Readers, pc[r] = "detached", ~IsShared(r),
         master[topic[r]] # None, count[topic[r]] # 1
  PROVE  /\ \E q \in Readers \ {r} :
              topic[q] = topic[r] /\ pc[q] \in {"attach", "live", "detached"}
         /\ (count[topic[r]] - 1) % CounterMod
              = Cardinality(Handles(topic[r]) \ {handle[r]})
  <1> DEFINE t == topic[r]
  <1>1. t \in Topics
    BY DEF TypeOK
  <1>2. count[t] = Cardinality(Handles(t))
    BY <1>1 DEF CountExact
  <1>3. r \in Holding(t) /\ handle[r] \in Handles(t)
    BY DEF Holding, On, Handles
  <1>4. /\ IsFiniteSet(Handles(t))
        /\ Cardinality(Handles(t)) \in 0..(CounterMod - 1)
        /\ CounterMod \in Nat
    BY <1>1, HandlesFinite
  <1> HIDE DEF t
  <1>5. Cardinality(Handles(t) \ {handle[r]}) = Cardinality(Handles(t)) - 1
    BY <1>3, <1>4, FS_RemoveElement
  <1>6. IsFiniteSet(Handles(t) \ {handle[r]})
    BY <1>4, FS_RemoveElement
  <1>7. Cardinality(Handles(t) \ {handle[r]}) \in Nat
    BY <1>6, FS_CardinalityType
  <1>8. (count[t] - 1) % CounterMod = Cardinality(Handles(t) \ {handle[r]})
    BY <1>2, <1>4, <1>5, <1>7
  <1>9. Handles(t) # {handle[r]}
    BY <1>2, FS_Singleton DEF t
  <1>10. PICK q \in Holding(t) : handle[q] # handle[r]
    BY <1>3, <1>9 DEF Handles
  <1>11. QED
    BY <1>8, <1>10 DEF t, Holding, On

-----------------------------------------------------------------------------
(* The entries. *)

\* Steps that change nothing the entries depend on.
LEMMA EntriesSame ==
  ASSUME TypeOK, Entries, master' = master, NEW r \in Readers,
         \A q \in Readers \ {r} : pc'[q] = pc[q] /\ topic'[q] = topic[q] /\ rm'[q] = rm[q],
         \/ /\ Using(r) /\ Using(r)'
            /\ topic'[r] = topic[r] /\ rm'[r] = rm[r]
         \/ /\ pc[r] = "subscribe" /\ pc'[r] = "insert"
            /\ topic'[r] = topic[r] /\ rm'[r] = rm[r]
         \/ /\ pc[r] = "unused" /\ pc'[r] \in {"subscribe", "add", "live"}
            /\ pc'[r] = "subscribe" => master[topic'[r]] = None
            /\ pc'[r] # "subscribe" => master[topic'[r]] # None /\ rm'[r] = master[topic'[r]]
         \/ pc[r] \in {"detached", "unsubscribe"} /\ pc'[r] = "gone"
            /\ topic'[r] = topic[r] /\ rm'[r] = rm[r]
            /\ \/ master[topic[r]] = None
               \/ \E q \in Readers \ {r} : topic[q] = topic[r] /\ Using(q)
  PROVE  Entries'
  <1>1. EntryOwned'
    BY DEF Entries, EntryOwned, Using
  <1>2. EntryUsed'
    BY DEF Entries, EntryUsed, Using
  <1>3. EntryNew'
    BY DEF Entries, EntryNew, Using
  <1>4. EntryLeft'
    BY DEF Entries, EntryLeft, Using
  <1>5. EntryMade'
    BY DEF Entries, EntryMade, Using, TypeOK
  <1>6. QED
    BY <1>1, <1>2, <1>3, <1>4, <1>5 DEF Entries

\* The insertion of an entry: nobody else is on the topic.
LEMMA EntriesInsert ==
  ASSUME TypeOK, DropsExcluded, CreationsExcluded, Fresh, Entries,
         NEW r \in Readers, Insert(r)
  PROVE  Entries'
  <1> USE DEF table, client, mqtt, Goto
  <1>1. /\ UNCHANGED <<topic, rm>>
        /\ pc[r] = "insert" /\ pc'[r] = "add"
        /\ \A q \in Readers \ {r} : pc'[q] = pc[q]
        /\ master'[topic[r]] = r
        /\ \A t \in Topics \ {topic[r]} : master'[t] = master[t]
    BY DEF TypeOK, Insert, Inserted
  <1>2. /\ topic \in [Readers -> Topics]
        /\ rm \in [Readers -> Readers]
        /\ rm[r] = r
        /\ master[topic[r]] = None
        /\ None \notin Readers
        /\ \A t \in Topics : master[t] # None => master[t] \in Readers
    BY <1>1, NoneAssumption DEF TypeOK, Fresh, Entries, EntryNew
  <1>3. \A q \in Readers \ {r} : topic[q] = topic[r] =>
          pc[q] \notin {"subscribe", "insert", "unsubscribe"} /\ ~Using(q)
    BY <1>1, <1>2 DEF DropsExcluded, CreationsExcluded, Entries, EntryOwned
  <1>4. EntryOwned'
    BY <1>1, <1>2, <1>3 DEF Entries, EntryOwned, Using
  <1>5. EntryUsed'
    BY <1>1, <1>2, <1>3 DEF Entries, EntryUsed, Using
  <1>6. EntryNew'
    BY <1>1, <1>2, <1>3 DEF Entries, EntryNew
  <1>7. EntryLeft'
    BY <1>1, <1>2, <1>3 DEF Entries, EntryLeft
  <1>8. EntryMade'
    BY <1>1, <1>2 DEF Entries, EntryMade
  <1>9. QED
    BY <1>4, <1>5, <1>6, <1>7, <1>8 DEF Entries

\* The removal of an entry: its last reader is alone on the topic.
LEMMA EntriesRemove ==
  ASSUME TypeOK, DropsExcluded, Entries, CountExact,
         NEW r \in Readers, DelReader(r), master[topic[r]] # None, count[topic[r]] = 1
  PROVE  Entries'
  <1> USE DEF table, client, mqtt, Goto
  <1>1. /\ UNCHANGED <<topic, rm>>
        /\ pc[r] = "detached" /\ pc'[r] = "unsubscribe" /\ ~IsShared(r)
        /\ \A q \in Readers \ {r} : pc'[q] = pc[q]
        /\ master'[topic[r]] = None
        /\ \A t \in Topics \ {topic[r]} : master'[t] = master[t]
    BY DEF TypeOK, DelReader, IsLast
  <1>2. /\ topic \in [Readers -> Topics]
        /\ rm \in [Readers -> Readers]
        /\ None \notin Readers
        /\ \A t \in Topics : master[t] # None => master[t] \in Readers
    BY NoneAssumption DEF TypeOK
  <1>3. \A q \in Readers \ {r} : topic[q] = topic[r] =>
          pc[q] \notin {"subscribe", "insert", "add", "attach", "live", "detached"}
    BY <1>1, LastReader DEF DropsExcluded
  <1>4. EntryOwned'
    BY <1>1, <1>2, <1>3 DEF Entries, EntryOwned, Using
  <1>5. EntryUsed'
    BY <1>1, <1>2, <1>3 DEF Entries, EntryUsed, Using
  <1>6. EntryNew'
    BY <1>1, <1>2, <1>3 DEF Entries, EntryNew
  <1>7. EntryLeft'
    BY <1>1, <1>2, <1>3 DEF Entries, EntryLeft
  <1>8. EntryMade'
    BY <1>1, <1>2 DEF Entries, EntryMade
  <1>9. QED
    BY <1>4, <1>5, <1>6, <1>7, <1>8 DEF Entries

\* Every step of a network that stays up keeps the entries as they should be.
LEMMA EntriesStep ==
  ASSUME TypeOK, DropsExcluded, CreationsExcluded, Fresh, Entries, CountExact,
         [Next]_vars, link' = "up"
  PROVE  Entries'
  <1> USE DEF table, client, mqtt, Goto
  <1>0. /\ rm \in [Readers -> Readers] /\ None \notin Readers
        /\ topic \in [Readers -> Topics]
    BY NoneAssumption DEF TypeOK
  <1>1. ASSUME NEW r \in Readers, Lookup(r)
        PROVE  Entries'
    <2>1. /\ UNCHANGED <<master, topic>>
          /\ \A q \in Readers \ {r} : pc'[q] = pc[q] /\ rm'[q] = rm[q]
          /\ pc[r] = "unused" /\ pc'[r] \in {"subscribe", "add"}
          /\ pc'[r] = "subscribe" => master[topic[r]] = None
          /\ pc'[r] # "subscribe" => master[topic[r]] # None /\ rm'[r] = master[topic[r]]
      BY <1>1 DEF TypeOK, Lookup, Ringmaster
    <2>2. QED
      BY <2>1, EntriesSame
  <1>2. ASSUME NEW r \in Readers,
               Subscribe(r) \/ AddReader(r) \/ Attach(r) \/ RemoveSender(r)
        PROVE  Entries'
    <2>1. pc[r] = "add" => master[topic[r]] # None
      BY <1>0 DEF Entries, EntryOwned, Using
    <2>2. /\ UNCHANGED <<master, topic, rm>>
          /\ \A q \in Readers \ {r} : pc'[q] = pc[q]
          /\ \/ pc[r] = "subscribe" /\ pc'[r] = "insert"
             \/ Using(r) /\ Using(r)'
      BY <1>2, <2>1 DEF TypeOK, Subscribe, AddReader, Attach, RemoveSender, Using
    <2>3. QED
      BY <2>2, EntriesSame
  <1>3. ASSUME NEW r \in Readers, NEW c \in Readers, Clone(r, c)
        PROVE  Entries'
    <2>1. /\ master' = master
          /\ \A q \in Readers \ {c} : pc'[q] = pc[q] /\ topic'[q] = topic[q] /\ rm'[q] = rm[q]
          /\ pc[r] = "live" /\ pc[c] = "unused" /\ pc'[c] = "live"
          /\ topic'[c] = topic[r] /\ rm'[c] = rm[r]
      BY <1>3 DEF TypeOK, Clone
    <2>2. master[topic[r]] = rm[r] /\ rm[r] # None
      BY <1>0, <2>1 DEF Entries, EntryOwned, Using
    <2>3. QED
      BY <2>1, <2>2, EntriesSame
  <1>4. ASSUME NEW r \in Readers, DropShared(r)
        PROVE  Entries'
    <2>1. /\ UNCHANGED <<master, topic, rm>>
          /\ \A q \in Readers \ {r} : pc'[q] = pc[q]
          /\ pc[r] = "detached" /\ pc'[r] = "gone"
      BY <1>4 DEF TypeOK, DropShared
    <2>2. \E q \in Readers \ {r} : topic[q] = topic[r] /\ Using(q)
      BY <1>4 DEF DropShared, IsShared, Holding, On, Using
    <2>3. QED
      BY <2>1, <2>2, EntriesSame
  <1>5. ASSUME NEW r \in Readers, Unsubscribe(r)
        PROVE  Entries'
    <2>1. /\ UNCHANGED <<master, topic, rm>>
          /\ \A q \in Readers \ {r} : pc'[q] = pc[q]
          /\ pc[r] = "unsubscribe" /\ pc'[r] = "gone"
      BY <1>5 DEF TypeOK, Unsubscribe
    <2>2. master[topic[r]] = None
      BY <2>1 DEF Entries, EntryLeft
    <2>3. QED
      BY <2>1, <2>2, EntriesSame
  <1>6. ASSUME NEW r \in Readers, Insert(r)
        PROVE  Entries'
    BY <1>6, EntriesInsert
  <1>7. ASSUME NEW r \in Readers, DelReader(r)
        PROVE  Entries'
    <2>1. CASE master[topic[r]] # None /\ count[topic[r]] = 1
      BY <1>7, <2>1, EntriesRemove
    <2>2. CASE master[topic[r]] = None \/ count[topic[r]] # 1
      <3>1. /\ UNCHANGED <<master, topic, rm>>
            /\ \A q \in Readers \ {r} : pc'[q] = pc[q]
            /\ pc[r] = "detached" /\ pc'[r] = "gone" /\ ~IsShared(r)
        BY <1>7, <2>2 DEF TypeOK, DelReader, IsLast
      <3>2. \/ master[topic[r]] = None
            \/ \E q \in Readers \ {r} : topic[q] = topic[r] /\ Using(q)
        BY <2>2, <3>1, OtherReaders DEF Using
      <3>3. QED
        BY <3>1, <3>2, EntriesSame
    <2>3. QED
      BY <2>1, <2>2
  <1>8. CASE BrokerStep \/ LinkError \/ ReportFailed \/ Close \/ UNCHANGED vars
    <2>1. UNCHANGED <<master, pc, topic, rm>>
      BY <1>8 DEF BrokerStep, LinkError, ReportFailed, Close, vars
    <2>2. QED
      BY <2>1 DEF Entries, EntryOwned, EntryUsed, EntryNew, EntryLeft, EntryMade, Using
  <1>9. QED
    BY <1>1, <1>2, <1>3, <1>4, <1>5, <1>6, <1>7, <1>8 DEF Next, ReaderStep

-----------------------------------------------------------------------------
(* Senders of live readers, and the count. *)

\* A live reader keeps its sender: nobody else's drop takes it.
LEMMA AttachedStep ==
  ASSUME TypeOK, Entries, CountExact, Attached, [Next]_vars, link' = "up"
  PROVE  Attached'
  <1> USE DEF table, client, mqtt, Goto
  <1>0. /\ rm \in [Readers -> Readers]
        /\ senders \in [Readers -> SUBSET Readers]
    BY DEF TypeOK
  <1>1. ASSUME NEW r \in Readers,
               \/ Lookup(r) \/ Subscribe(r) \/ Insert(r) \/ AddReader(r)
               \/ DropShared(r) \/ Unsubscribe(r)
        PROVE  Attached'
    <2>1. /\ senders' = senders
          /\ pc'[r] # "live"
          /\ \A q \in Readers \ {r} : pc'[q] = pc[q] /\ rm'[q] = rm[q]
      BY <1>1 DEF TypeOK, Lookup, Subscribe, Insert, AddReader, DropShared, Unsubscribe
    <2>2. QED
      BY <2>1 DEF Attached
  <1>2. ASSUME NEW r \in Readers, Attach(r)
        PROVE  Attached'
    <2>1. /\ rm' = rm
          /\ r \in senders'[rm[r]]
          /\ \A x \in Readers : senders[x] \subseteq senders'[x]
          /\ \A q \in Readers \ {r} : pc'[q] = pc[q]
      BY <1>2 DEF TypeOK, Attach
    <2>2. QED
      BY <1>0, <2>1 DEF Attached
  <1>3. ASSUME NEW r \in Readers, NEW c \in Readers, Clone(r, c)
        PROVE  Attached'
    <2>1. /\ rm'[c] = rm[r]
          /\ c \in senders'[rm[r]]
          /\ \A x \in Readers : senders[x] \subseteq senders'[x]
          /\ \A q \in Readers \ {c} : pc'[q] = pc[q] /\ rm'[q] = rm[q]
      BY <1>3 DEF TypeOK, Clone
    <2>2. QED
      BY <1>0, <2>1 DEF Attached
  <1>4. ASSUME NEW r \in Readers, RemoveSender(r)
        PROVE  Attached'
    <2>1. /\ rm' = rm
          /\ pc'[r] # "live"
          /\ \A x \in Readers : senders[x] \ {r} \subseteq senders'[x]
          /\ \A q \in Readers \ {r} : pc'[q] = pc[q]
      BY <1>4 DEF TypeOK, RemoveSender, SenderRemoved
    <2>2. QED
      BY <1>0, <2>1 DEF Attached
  <1>5. ASSUME NEW r \in Readers, DelReader(r)
        PROVE  Attached'
    <2>1. /\ rm' = rm
          /\ pc[r] = "detached" /\ pc'[r] # "live" /\ ~IsShared(r)
          /\ \A q \in Readers \ {r} : pc'[q] = pc[q]
      BY <1>5 DEF TypeOK, DelReader
    <2>2. CASE senders' = senders
      BY <2>1, <2>2 DEF Attached
    <2>3. CASE /\ master[topic[r]] # None /\ count[topic[r]] = 1
               /\ senders' = [senders EXCEPT ![master[topic[r]]] = {}]
      <3>1. topic[r] \in Topics /\ topic[master[topic[r]]] = topic[r]
        BY <2>3 DEF TypeOK, Entries, EntryMade
      <3>2. ASSUME NEW q \in Readers, pc'[q] = "live"
            PROVE  q # r /\ pc[q] = "live" /\ rm[q] # master[topic[r]]
        <4>1. q # r /\ pc[q] = "live"
          BY <2>1, <3>2
        <4>2. topic[q] # topic[r]
          BY <2>1, <2>3, <4>1, LastReader
        <4>3. master[topic[q]] = rm[q] /\ rm[q] # None
          BY <1>0, <4>1, NoneAssumption DEF Entries, EntryOwned, Using
        <4>4. topic[rm[q]] = topic[q]
          BY <4>3 DEF TypeOK, Entries, EntryMade
        <4>5. QED
          BY <3>1, <4>1, <4>2, <4>4
      <3>3. QED
        BY <1>0, <2>1, <2>3, <3>2 DEF Attached
    <2>4. QED
      BY <1>5, <2>2, <2>3 DEF DelReader, IsLast
  <1>6. CASE BrokerStep \/ LinkError \/ ReportFailed \/ Close \/ UNCHANGED vars
    BY <1>6 DEF Attached, BrokerStep, LinkError, ReportFailed, Close, vars
  <1>7. QED
    BY <1>1, <1>2, <1>3, <1>4, <1>5, <1>6 DEF Next, ReaderStep

\* Steps that change neither an entry nor the AsbReaderNets of its topic.
LEMMA CountSame ==
  ASSUME CountExact,
         \A t \in Topics : master'[t] # None =>
           master[t] # None /\ count'[t] = count[t] /\ Handles(t)' = Handles(t)
  PROVE  CountExact'
  BY DEF CountExact

\* The AsbReaderNet of a reader that is neither counted in nor dropped stays.
LEMMA HandlesSame ==
  ASSUME UNCHANGED <<topic, handle>>, NEW r \in Readers,
         \A q \in Readers \ {r} : pc'[q] = pc[q],
         pc'[r] \in {"attach", "live", "detached"} <=> pc[r] \in {"attach", "live", "detached"}
  PROVE  \A t \in Topics : Handles(t)' = Handles(t)
  <1>1. \A t \in Topics : Holding(t)' = Holding(t)
    BY DEF Holding, On
  <1>2. QED
    BY <1>1 DEF Handles

\* add_reader counts in an AsbReaderNet that the topic did not have.
LEMMA CountAdd ==
  ASSUME TypeOK, Fresh, CountExact, NEW r \in Readers, AddReader(r),
         master[topic[r]] # None
  PROVE  CountExact'
  <1> USE DEF table, client, mqtt, Goto
  <1>0. PICK t \in Topics : t = topic[r]
    BY DEF TypeOK
  <1>1. /\ UNCHANGED <<master, topic, handle>>
        /\ pc[r] = "add" /\ pc'[r] = "attach"
        /\ \A q \in Readers \ {r} : pc'[q] = pc[q]
        /\ count'[t] = (count[t] + 1) % CounterMod
        /\ \A u \in Topics \ {t} : count'[u] = count[u]
    BY <1>0 DEF TypeOK, AddReader
  <1>2. handle[r] = r /\ \A q \in Readers : handle[q] = r => q = r
    BY <1>0, <1>1 DEF Fresh
  <1>3. \A u \in Topics \ {t} : Holding(u)' = Holding(u)
    BY <1>0, <1>1 DEF Holding, On
  <1>4. Holding(t)' = Holding(t) \cup {r} /\ r \notin Holding(t)
    BY <1>0, <1>1 DEF Holding, On
  <1>5. r \notin Handles(t)
    BY <1>2, <1>4 DEF Handles, Holding, On
  <1>6. Handles(t)' = Handles(t) \cup {r}
    BY <1>0, <1>1, <1>2, <1>4 DEF Handles
  <1>7. \A u \in Topics \ {t} : Handles(u)' = Handles(u)
    BY <1>0, <1>1, <1>3 DEF Handles
  <1>8. count[t] = Cardinality(Handles(t))
    BY <1>0, <1>1 DEF CountExact
  <1>9. /\ IsFiniteSet(Handles(t))
        /\ Handles(t) \cup {r} \subseteq Readers
        /\ Cardinality(Handles(t)) \in Nat
    BY HandlesFinite
  <1>10. Cardinality(Handles(t) \cup {r}) = Cardinality(Handles(t)) + 1
    BY <1>5, <1>9, FS_AddElement
  <1>11. Cardinality(Handles(t) \cup {r}) <= Cardinality(Readers)
    BY <1>9, CounterAssumption, FS_Subset
  <1>12. Cardinality(Readers) \in Nat
    BY CounterAssumption, FS_CardinalityType
  <1>13. (count[t] + 1) % CounterMod = Cardinality(Handles(t) \cup {r})
    BY <1>8, <1>9, <1>10, <1>11, <1>12, CounterAssumption
  <1>14. count'[t] = Cardinality(Handles(t)')
    BY <1>1, <1>6, <1>13
  <1>15. \A u \in Topics \ {t} : master'[u] # None => count'[u] = Cardinality(Handles(u)')
    BY <1>1, <1>7 DEF CountExact
  <1>16. QED
    BY <1>14, <1>15 DEF CountExact

\* del_reader counts out an AsbReaderNet that no other reader has.
LEMMA CountDel ==
  ASSUME TypeOK, CountExact, NEW r \in Readers, DelReader(r)
  PROVE  CountExact'
  <1> USE DEF table, client, mqtt, Goto
  <1>0. PICK t \in Topics : t = topic[r]
    BY DEF TypeOK
  <1>1. /\ UNCHANGED <<topic, handle>>
        /\ pc[r] = "detached" /\ ~IsShared(r)
        /\ pc'[r] \in {"gone", "unsubscribe"}
        /\ \A q \in Readers \ {r} : pc'[q] = pc[q]
        /\ \A u \in Topics \ {t} : master'[u] = master[u] /\ count'[u] = count[u]
    BY <1>0 DEF TypeOK, DelReader
  <1>2. \A u \in Topics \ {t} : Holding(u)' = Holding(u)
    BY <1>0, <1>1 DEF Holding, On
  <1>3. Holding(t)' = Holding(t) \ {r} /\ r \in Holding(t)
    BY <1>0, <1>1 DEF Holding, On
  <1>4. Handles(t)' = Handles(t) \ {handle[r]}
    BY <1>0, <1>1, <1>3 DEF Handles, IsShared
  <1>5. \A u \in Topics \ {t} : Handles(u)' = Handles(u)
    BY <1>0, <1>1, <1>2 DEF Handles
  <1>6. ASSUME master'[t] # None
        PROVE  count'[t] = Cardinality(Handles(t)')
    <2>1. /\ master[t] # None
          /\ count[t] # 1
          /\ count'[t] = (count[t] - 1) % CounterMod
      BY <1>0, <1>1, <1>6 DEF TypeOK, DelReader, IsLast
    <2>2. QED
      BY <1>0, <1>1, <1>4, <2>1, OtherReaders
  <1>7. QED
    BY <1>0, <1>1, <1>5, <1>6 DEF CountExact

\* Every step keeps the count of an entry equal to its AsbReaderNets.
LEMMA CountStep ==
  ASSUME TypeOK, Fresh, Entries, CountExact, [Next]_vars, link' = "up"
  PROVE  CountExact'
  <1> USE DEF table, client, mqtt, Goto
  <1>1. ASSUME NEW r \in Readers,
               \/ Lookup(r) \/ Subscribe(r) \/ Attach(r) \/ RemoveSender(r)
               \/ Unsubscribe(r)
        PROVE  CountExact'
    <2>1. /\ UNCHANGED <<master, count, topic, handle>>
          /\ \A q \in Readers \ {r} : pc'[q] = pc[q]
          /\ pc'[r] \in {"attach", "live", "detached"} <=> pc[r] \in {"attach", "live", "detached"}
      BY <1>1 DEF TypeOK, Lookup, Subscribe, Attach, RemoveSender, Unsubscribe
    <2>2. \A t \in Topics : Handles(t)' = Handles(t)
      BY <2>1, HandlesSame
    <2>3. QED
      BY <2>1, <2>2, CountSame
  <1>2. ASSUME NEW r \in Readers, Insert(r)
        PROVE  CountExact'
    <2>1. /\ UNCHANGED <<topic, handle>>
          /\ pc[r] = "insert" /\ pc'[r] = "add"
          /\ \A q \in Readers \ {r} : pc'[q] = pc[q]
          /\ count'[topic[r]] = 0
          /\ \A u \in Topics \ {topic[r]} : master'[u] = master[u] /\ count'[u] = count[u]
      BY <1>2 DEF TypeOK, Insert, Inserted
    <2>2. \A t \in Topics : Handles(t)' = Handles(t)
      BY <2>1, HandlesSame
    <2>3. master[topic[r]] = None
      BY <2>1 DEF Entries, EntryNew
    <2>4. Holding(topic[r]) = {}
      BY <2>3, NoneAssumption DEF TypeOK, Holding, On, Entries, EntryOwned, Using
    <2>5. Handles(topic[r]) = {}
      BY <2>4 DEF Handles
    <2>6. Cardinality({}) = 0
      BY FS_EmptySet
    <2>7. QED
      BY <2>1, <2>2, <2>5, <2>6 DEF CountExact
  <1>3. ASSUME NEW r \in Readers, AddReader(r)
        PROVE  CountExact'
    <2>1. master[topic[r]] # None
      BY <1>3, NoneAssumption DEF TypeOK, AddReader, Entries, EntryOwned, Using
    <2>2. QED
      BY <1>3, <2>1, CountAdd
  <1>4. ASSUME NEW r \in Readers, NEW c \in Readers, Clone(r, c)
        PROVE  CountExact'
    <2>1. /\ UNCHANGED <<master, count>>
          /\ pc[r] = "live" /\ pc[c] = "unused" /\ pc'[c] = "live"
          /\ \A q \in Readers \ {c} :
               pc'[q] = pc[q] /\ topic'[q] = topic[q] /\ handle'[q] = handle[q]
          /\ topic'[c] = topic[r] /\ handle'[c] = handle[r]
      BY <1>4 DEF TypeOK, Clone
    <2>2. \A t \in Topics \ {topic[r]} : Holding(t)' = Holding(t)
      BY <2>1 DEF Holding, On
    <2>4. \A t \in Topics : c \notin Holding(t)
      BY <2>1 DEF Holding, On
    <2>5. \A t \in Topics : \A q \in Holding(t) : handle'[q] = handle[q]
      BY <2>1, <2>4 DEF Holding, On
    <2>6. \A t \in Topics : Handles(t)' = Handles(t)
      <3>1. \A t \in Topics \ {topic[r]} : Handles(t)' = Handles(t)
        BY <2>2, <2>5 DEF Handles
      <3>2. ASSUME NEW t \in Topics, t = topic[r]
            PROVE  Handles(t)' = Handles(t)
        <4>1. Holding(t)' = Holding(t) \cup {c} /\ r \in Holding(t)
          BY <2>1, <3>2 DEF Holding, On
        <4>2. QED
          BY <2>1, <2>5, <4>1 DEF Handles
      <3>3. QED
        BY <3>1, <3>2
    <2>7. QED
      BY <2>1, <2>6, CountSame
  <1>5. ASSUME NEW r \in Readers, DropShared(r)
        PROVE  CountExact'
    <2>1. /\ UNCHANGED <<master, count, topic, handle>>
          /\ pc[r] = "detached" /\ pc'[r] = "gone"
          /\ \A q \in Readers \ {r} : pc'[q] = pc[q]
      BY <1>5 DEF TypeOK, DropShared
    <2>2. \A t \in Topics \ {topic[r]} : Holding(t)' = Holding(t)
      BY <2>1 DEF Holding, On
    <2>4. PICK c \in Holding(topic[r]) \ {r} : handle[c] = handle[r]
      BY <1>5 DEF DropShared, IsShared
    <2>5. \A t \in Topics : Handles(t)' = Handles(t)
      <3>1. \A t \in Topics \ {topic[r]} : Handles(t)' = Handles(t)
        BY <2>1, <2>2 DEF Handles
      <3>2. ASSUME NEW t \in Topics, t = topic[r]
            PROVE  Handles(t)' = Handles(t)
        <4>1. Holding(t)' = Holding(t) \ {r}
          BY <2>1, <3>2 DEF Holding, On
        <4>2. QED
          BY <2>1, <2>4, <3>2, <4>1 DEF Handles
      <3>3. QED
        BY <3>1, <3>2
    <2>6. QED
      BY <2>1, <2>5, CountSame
  <1>6. ASSUME NEW r \in Readers, DelReader(r)
        PROVE  CountExact'
    BY <1>6, CountDel
  <1>7. CASE BrokerStep \/ LinkError \/ ReportFailed \/ Close \/ UNCHANGED vars
    <2>1. UNCHANGED <<master, count, pc, topic, handle>>
      BY <1>7 DEF BrokerStep, LinkError, ReportFailed, Close, vars
    <2>2. \A t \in Topics : Handles(t)' = Handles(t)
      BY <2>1 DEF Handles, Holding, On
    <2>3. QED
      BY <2>1, <2>2, CountSame
  <1>8. QED
    BY <1>1, <1>2, <1>3, <1>4, <1>5, <1>6, <1>7 DEF Next, ReaderStep

-----------------------------------------------------------------------------
(* Subscriptions. *)

\* A request decides about its own topic, and about no other.
LEMMA RequestDecides ==
  ASSUME TypeOK, link = "up",
         NEW op \in {"sub", "unsub"}, NEW t \in Topics, Request(op, t)
  PROVE  /\ Subscribed(t)' <=> op = "sub"
         /\ \A u \in Topics \ {t} : Subscribed(u)' <=> Subscribed(u)
  <1>1. /\ wire \in Seq({"sub", "unsub"} \X Topics)
        /\ wire' = Append(wire, <<op, t>>)
        /\ broker' = broker
    BY DEF TypeOK, Request
  <1>2. /\ Len(wire) \in Nat
        /\ DOMAIN wire = 1..Len(wire)
        /\ DOMAIN wire' = 1..(Len(wire) + 1)
        /\ \A i \in 1..Len(wire) : wire'[i] = wire[i]
        /\ wire'[Len(wire) + 1] = <<op, t>>
    BY <1>1
  <1>3. Subscribed(t)' <=> op = "sub"
    <2>1. \A i \in DOMAIN wire' :
            (\A j \in DOMAIN wire' : wire'[j][2] = t => j <= i) => i = Len(wire) + 1
      BY <1>2
    <2>2. \A j \in DOMAIN wire' : j <= Len(wire) + 1
      BY <1>2
    <2>3. <<op, t>> = <<"sub", t>> <=> op = "sub"
      OBVIOUS
    <2>4. QED
      BY <1>2, <2>1, <2>2, <2>3 DEF Subscribed
  <1>4. ASSUME NEW u \in Topics \ {t}
        PROVE  Subscribed(u)' <=> Subscribed(u)
    <2>1. wire'[Len(wire) + 1][2] # u
      BY <1>2
    <2>2. \A i \in DOMAIN wire' : wire'[i][2] = u => i \in DOMAIN wire
      BY <1>2, <2>1
    <2>3. \A i \in DOMAIN wire : i \in DOMAIN wire' /\ wire'[i] = wire[i]
      BY <1>2
    <2>4. <<"sub", u>>[2] = u
      OBVIOUS
    <2>5. QED
      BY <1>1, <2>2, <2>3, <2>4 DEF Subscribed
  <1>5. QED
    BY <1>3, <1>4

\* The broker catching up changes nothing in what it will have in the end.
LEMMA BrokerCatchesUp ==
  ASSUME TypeOK, BrokerStep
  PROVE  \A t \in Topics : Subscribed(t)' <=> Subscribed(t)
  <1>0. /\ wire \in Seq({"sub", "unsub"} \X Topics) /\ wire # <<>>
        /\ wire' = Tail(wire)
        /\ broker' = IF Head(wire)[1] = "sub" THEN broker \cup {Head(wire)[2]}
                                              ELSE broker \ {Head(wire)[2]}
    BY DEF TypeOK, BrokerStep
  <1>1. Head(wire) = wire[1]
    BY <1>0
  <1>2. broker' = IF wire[1][1] = "sub" THEN broker \cup {wire[1][2]} ELSE broker \ {wire[1][2]}
    BY <1>0, <1>1
  <1>3. /\ Len(wire) \in Nat \ {0}
        /\ DOMAIN wire = 1..Len(wire)
        /\ DOMAIN wire' = 1..(Len(wire) - 1)
        /\ \A i \in 1..(Len(wire) - 1) : wire'[i] = wire[i + 1]
    BY <1>0
  <1>4. wire[1] \in {"sub", "unsub"} \X Topics
    BY <1>0, <1>3
  <1>5. wire[1] = <<wire[1][1], wire[1][2]>>
    BY <1>4
  <1>6. ASSUME NEW t \in Topics
        PROVE  Subscribed(t)' <=> Subscribed(t)
    <2>1. CASE \A i \in DOMAIN wire' : wire'[i][2] # t
      <3>1. \A i \in DOMAIN wire : wire[i][2] = t => i = 1
        <4>1. \A i \in DOMAIN wire : i # 1 => i - 1 \in DOMAIN wire' /\ wire'[i - 1] = wire[i]
          BY <1>3
        <4>2. QED
          BY <2>1, <4>1
      <3>2. Subscribed(t)' <=> t \in broker'
        BY <2>1 DEF Subscribed
      <3>3. CASE wire[1][2] = t
        <4>1. Subscribed(t) <=> wire[1][1] = "sub"
          BY <1>3, <1>5, <3>1, <3>3 DEF Subscribed
        <4>2. QED
          BY <1>2, <3>2, <3>3, <4>1
      <3>4. CASE wire[1][2] # t
        <4>1. \A i \in DOMAIN wire : wire[i][2] # t
          BY <3>1, <3>4
        <4>2. Subscribed(t) <=> t \in broker
          BY <4>1 DEF Subscribed
        <4>3. QED
          BY <1>2, <3>2, <3>4, <4>2
      <3>5. QED
        BY <3>3, <3>4
    <2>2. CASE \E i \in DOMAIN wire' : wire'[i][2] = t
      <3>1. /\ \A i \in DOMAIN wire' : i + 1 \in DOMAIN wire /\ wire[i + 1] = wire'[i]
            /\ \A i \in DOMAIN wire : i # 1 => i - 1 \in DOMAIN wire' /\ wire'[i - 1] = wire[i]
            /\ DOMAIN wire \subseteq Nat /\ DOMAIN wire' \subseteq Nat /\ 1 \in DOMAIN wire
            /\ \A i \in DOMAIN wire' : i >= 1
        BY <1>3
      <3>2. ASSUME Subscribed(t)'
            PROVE  Subscribed(t)
        <4>1. PICK i \in DOMAIN wire' :
                /\ wire'[i] = <<"sub", t>>
                /\ \A j \in DOMAIN wire' : wire'[j][2] = t => j <= i
          BY <2>2, <3>2 DEF Subscribed
        <4>2. wire[i + 1] = <<"sub", t>> /\ i + 1 \in DOMAIN wire
          BY <3>1, <4>1
        <4>3. \A j \in DOMAIN wire : wire[j][2] = t => j <= i + 1
          BY <3>1, <4>1
        <4>4. QED
          BY <4>2, <4>3 DEF Subscribed
      <3>3. ASSUME Subscribed(t)
            PROVE  Subscribed(t)'
        <4>1. PICK k \in DOMAIN wire' : wire'[k][2] = t
          BY <2>2
        <4>2. PICK i \in DOMAIN wire :
                /\ wire[i] = <<"sub", t>>
                /\ \A j \in DOMAIN wire : wire[j][2] = t => j <= i
          BY <3>1, <3>3, <4>1 DEF Subscribed
        <4>3. i # 1
          BY <3>1, <4>1, <4>2
        <4>4. i - 1 \in DOMAIN wire' /\ wire'[i - 1] = <<"sub", t>>
          BY <3>1, <4>2, <4>3
        <4>5. \A j \in DOMAIN wire' : wire'[j][2] = t => j <= i - 1
          BY <3>1, <4>2
        <4>6. QED
          BY <4>4, <4>5 DEF Subscribed
      <3>4. QED
        BY <3>2, <3>3
    <2>3. QED
      BY <2>1, <2>2
  <1>7. QED
    BY <1>6

\* Subscriptions follow the entries: requested before the entry is inserted,
\* taken back after it has been removed, and by nobody who comes too late.
LEMMA SubscribedStep ==
  ASSUME TypeOK, DropsExcluded, Entries, SubscribedExact, [Next]_vars,
         link = "up", link' = "up"
  PROVE  SubscribedExact'
  <1> USE DEF table, client, mqtt, Goto
  <1>0. topic \in [Readers -> Topics] /\ None \notin Readers
    BY NoneAssumption DEF TypeOK
  <1>1. ASSUME UNCHANGED <<wire, broker>>
        PROVE  \A t \in Topics : Subscribed(t)' <=> Subscribed(t)
    BY <1>1 DEF Subscribed
  <1>2. ASSUME NEW r \in Readers,
               \/ Lookup(r) \/ AddReader(r) \/ Attach(r) \/ RemoveSender(r)
               \/ DropShared(r)
        PROVE  SubscribedExact'
    <2>1. /\ UNCHANGED <<master, wire, broker>>
          /\ pc[r] \notin {"insert", "unsubscribe"}
          /\ pc'[r] \notin {"insert", "unsubscribe"}
          /\ topic' = topic
          /\ \A q \in Readers \ {r} : pc'[q] = pc[q]
      BY <1>2 DEF TypeOK, Lookup, AddReader, Attach, RemoveSender, DropShared
    <2>2. QED
      BY <1>1, <2>1 DEF SubscribedExact
  <1>3. ASSUME NEW r \in Readers, Subscribe(r)
        PROVE  SubscribedExact'
    <2>1. /\ UNCHANGED <<master, topic>>
          /\ pc'[r] = "insert" /\ pc[r] = "subscribe"
          /\ \A q \in Readers \ {r} : pc'[q] = pc[q]
          /\ Request("sub", topic[r])
          /\ topic[r] \in Topics
      BY <1>3 DEF TypeOK, Subscribe
    <2>2. PICK t \in Topics : t = topic[r]
      BY <2>1
    <2>3. Subscribed(t)' /\ \A u \in Topics \ {t} : Subscribed(u)' <=> Subscribed(u)
      BY <2>1, <2>2, RequestDecides
    <2>4. QED
      BY <2>1, <2>2, <2>3 DEF SubscribedExact
  <1>4. ASSUME NEW r \in Readers, Insert(r)
        PROVE  SubscribedExact'
    <2>1. /\ UNCHANGED <<wire, broker, topic>>
          /\ pc[r] = "insert" /\ pc'[r] = "add"
          /\ \A q \in Readers \ {r} : pc'[q] = pc[q]
          /\ master'[topic[r]] = r
          /\ \A t \in Topics \ {topic[r]} : master'[t] = master[t]
      BY <1>4 DEF TypeOK, Insert, Inserted
    <2>2. QED
      BY <1>0, <1>1, <2>1 DEF SubscribedExact
  <1>5. ASSUME NEW r \in Readers, DelReader(r)
        PROVE  SubscribedExact'
    <2>1. /\ UNCHANGED <<wire, broker, topic>>
          /\ pc[r] = "detached"
          /\ \A q \in Readers \ {r} : pc'[q] = pc[q]
          /\ \A t \in Topics \ {topic[r]} : master'[t] = master[t]
          /\ \/ master'[topic[r]] = master[topic[r]] /\ pc'[r] = "gone"
             \/ master[topic[r]] # None /\ pc'[r] = "unsubscribe"
      BY <1>5 DEF TypeOK, DelReader
    <2>2. pc'[r] = "unsubscribe" => master'[topic[r]] = None
      BY <1>5, <2>1 DEF TypeOK, DelReader
    <2>3. QED
      BY <1>0, <1>1, <2>1, <2>2 DEF SubscribedExact
  <1>6. ASSUME NEW r \in Readers, Unsubscribe(r)
        PROVE  SubscribedExact'
    <2>1. /\ UNCHANGED <<master, topic>>
          /\ pc[r] = "unsubscribe" /\ pc'[r] = "gone"
          /\ \A q \in Readers \ {r} : pc'[q] = pc[q]
          /\ Request("unsub", topic[r])
          /\ topic[r] \in Topics
      BY <1>6 DEF TypeOK, Unsubscribe
    <2>2. PICK t \in Topics : t = topic[r]
      BY <2>1
    <2>3. ~Subscribed(t)' /\ \A u \in Topics \ {t} : Subscribed(u)' <=> Subscribed(u)
      BY <2>1, <2>2, RequestDecides
    <2>4. /\ master[t] = None
          /\ \A q \in Readers \ {r} : topic[q] = t => pc[q] \notin {"insert", "unsubscribe"}
      BY <2>1, <2>2 DEF Entries, EntryLeft, DropsExcluded
    <2>5. QED
      BY <2>1, <2>2, <2>3, <2>4 DEF SubscribedExact
  <1>7. CASE BrokerStep
    <2>1. UNCHANGED <<master, pc, topic>>
      BY <1>7 DEF BrokerStep
    <2>2. QED
      BY <1>7, <2>1, BrokerCatchesUp DEF SubscribedExact
  <1>8. CASE LinkError \/ ReportFailed \/ Close \/ UNCHANGED vars
    BY <1>1, <1>8 DEF SubscribedExact, LinkError, ReportFailed, Close, vars
  <1>9. ASSUME NEW r \in Readers, NEW c \in Readers, Clone(r, c)
        PROVE  SubscribedExact'
    <2>1. /\ UNCHANGED <<master, wire, broker>>
          /\ pc[c] = "unused" /\ pc'[c] = "live"
          /\ \A q \in Readers \ {c} : pc'[q] = pc[q] /\ topic'[q] = topic[q]
      BY <1>9 DEF TypeOK, Clone
    <2>2. QED
      BY <1>1, <2>1 DEF SubscribedExact
  <1>10. QED
    BY <1>2, <1>3, <1>4, <1>5, <1>6, <1>7, <1>8, <1>9 DEF Next, ReaderStep

-----------------------------------------------------------------------------
(* What the invariant gives. *)

\* Initially nobody uses any topic.
LEMMA TableInit == Init => TableInv
  <1> SUFFICES ASSUME Init PROVE TableInv
    OBVIOUS
  <1>1. DropsExcluded /\ CreationsExcluded /\ Fresh
    BY DEF Init, DropsExcluded, CreationsExcluded, Fresh
  <1>2. Entries
    BY DEF Init, Entries, EntryOwned, EntryUsed, EntryNew, EntryLeft, EntryMade, Using
  <1>3. Attached /\ CountExact
    BY DEF Init, Attached, CountExact
  <1>4. SubscribedExact
    <2>1. \A t \in Topics : ~Subscribed(t) /\ master[t] = None
      BY DEF Init, Subscribed
    <2>2. QED
      BY <2>1 DEF Init, SubscribedExact
  <1>5. QED
    BY <1>1, <1>2, <1>3, <1>4 DEF TableInv

\* Every step keeps the invariant of the table.
LEMMA TableStep ==
  ASSUME NoOverlap, TypeOK, TableInv, [Next]_vars
  PROVE  TableInv'
  <1>1. DropsExcluded' /\ CreationsExcluded' /\ Fresh'
    BY DropsExcludedStep, CreationsExcludedStep, FreshStep DEF NoOverlap, TableInv
  <1>2. ASSUME link' = "up"
        PROVE  Entries' /\ Attached' /\ CountExact' /\ SubscribedExact'
    <2>1. link = "up"
      BY <1>2, LinkStaysDown
    <2>2. QED
      BY <1>2, <2>1, EntriesStep, AttachedStep, CountStep, SubscribedStep DEF TableInv
  <1>3. QED
    BY <1>1, <1>2 DEF TableInv

\* The invariant of the table holds in every reachable state.
LEMMA TableHolds ==
  ASSUME NoOverlap
  PROVE  Spec => []TableInv
  <1>1. TypeOK /\ TableInv /\ [Next]_vars => TableInv'
    BY TableStep
  <1>2. QED
    BY <1>1, TableInit, TypeCorrect, PTL DEF Spec

\* The client has done its part for every reader that lives.
LEMMA LivePrepared == TypeOK /\ TableInv => Prepared
  <1> SUFFICES ASSUME TypeOK, TableInv, NEW r \in Readers, link = "up", pc[r] = "live"
               PROVE  IsConnected(r) /\ Subscribed(topic[r])
    BY DEF Prepared
  <1>1. /\ Entries /\ Attached /\ SubscribedExact
        /\ rm[r] # None /\ topic[r] \in Topics
    BY NoneAssumption DEF TableInv, TypeOK
  <1>2. master[topic[r]] = rm[r]
    BY <1>1 DEF Entries, EntryOwned, Using
  <1>3. Subscribed(topic[r])
    BY <1>1, <1>2 DEF SubscribedExact
  <1>4. r \in senders[rm[r]]
    BY <1>1 DEF Attached
  <1>5. QED
    BY <1>2, <1>3, <1>4 DEF IsConnected

\* A reader that has been created and not dropped has its entry and its sender,
\* and its topic is the broker's or will be by the requests on their way, as
\* long as the network is up, if the creations and drops of others on its topic
\* do not overlap a creation; the link may fail at any time.  When the broker
\* has the subscription is a matter of liveness (BrokerFollows).
THEOREM PreparedWhenCreated ==
  ASSUME NoOverlap
  PROVE  Spec => []Prepared
  BY LivePrepared, TableHolds, TypeCorrect, PTL

\* The u16 of an entry is the number of its AsbReaderNets: the increment never
\* wraps around and no drop is counted twice.
THEOREM CountsAreExact ==
  ASSUME NoOverlap
  PROVE  Spec => []CountMatches
  <1>1. TableInv => CountMatches
    BY DEF TableInv, CountExact, CountMatches, Handles
  <1>2. QED
    BY <1>1, TableHolds, PTL

\* With its last reader a topic loses its entry and its subscription.
THEOREM NothingStays ==
  ASSUME NoOverlap
  PROVE  Spec => []NothingLeft
  <1>1. TypeOK /\ TableInv => NothingLeft
    <2> SUFFICES ASSUME TableInv, link = "up", NEW t \in Topics,
                        On(t, Creating \cup {"live", "detached", "unsubscribe"}) = {}
                 PROVE  master[t] = None /\ ~Subscribed(t)
      BY DEF NothingLeft
    <2>1. \A r \in Readers : topic[r] = t =>
            pc[r] \notin {"insert", "add", "attach", "live", "detached", "unsubscribe"}
      BY DEF On
    <2>2. master[t] = None
      BY <2>1 DEF TableInv, Entries, EntryUsed, Using
    <2>3. QED
      BY <2>1, <2>2 DEF TableInv, SubscribedExact
  <1>2. QED
    BY <1>1, TableHolds, TypeCorrect, PTL

\* What the broker has subscribed whenever no request is on its way.
BrokerExact ==
  link = "up" /\ wire = <<>> =>
    \A t \in Topics :
      t \in broker <=> \/ master[t] # None
                      \/ \E r \in Readers : topic[r] = t /\ pc[r] \in {"insert", "unsubscribe"}

\* The safety part of BrokerFollows: a broker that has caught up has subscribed
\* the topics in the table, and those on the way in or out, and no others, in
\* whatever order creations and drops on different topics have sent requests.
THEOREM BrokerGetsThere ==
  ASSUME NoOverlap
  PROVE  Spec => []BrokerExact
  <1>1. TableInv => BrokerExact
    <2>1. ASSUME wire = <<>>, NEW t \in Topics
          PROVE  Subscribed(t) <=> t \in broker
      BY <2>1 DEF Subscribed
    <2>2. QED
      BY <2>1 DEF TableInv, SubscribedExact, BrokerExact
  <1>2. QED
    BY <1>1, TableHolds, PTL

\* MqttAsb::shutdown goes by the table and reaches every reader nevertheless,
\* since each live reader's ringmaster is the one in the table.
LEMMA StopReaches ==
  ASSUME TypeOK, TableInv, [Next]_vars, link = "up", link' # "up"
  PROVE  /\ LinkError \/ Close
         /\ \A r \in Readers : pc'[r] = "live" => r \notin senders'[rm[r]]
  <1>1. LinkError \/ Close
    BY DEF Next, ReaderStep, Lookup, Subscribe, Insert, AddReader, Attach, RemoveSender,
           DropShared, DelReader, Unsubscribe, Clone, BrokerStep, ReportFailed,
           Request, vars, mqtt
  <1>2. ASSUME NEW r \in Readers, pc'[r] = "live"
        PROVE  r \notin senders'[rm[r]]
    <2>1. pc[r] = "live" /\ ShutdownTable
      BY <1>1, <1>2 DEF LinkError, Close
    <2>2. topic[r] \in Topics /\ rm[r] \in Readers /\ master[topic[r]] = rm[r]
      BY <2>1 DEF TypeOK, TableInv, Entries, EntryOwned, Using
    <2>3. QED
      BY <2>1, <2>2 DEF ShutdownTable
  <1>3. QED
    BY <1>1, <1>2

\* The end of the network leaves no reader waiting.
THEOREM StopReachesEveryone ==
  ASSUME NoOverlap
  PROVE  Spec => StopReachesAll
  <1>1. TypeOK /\ TableInv /\ [Next]_vars =>
          [link = "up" /\ link' # "up"
             => \A r \in Readers : pc'[r] = "live" => r \notin senders'[rm[r]]]_vars
    BY StopReaches
  <1>2. QED
    BY <1>1, TableHolds, TypeCorrect, PTL DEF Spec, StopReachesAll

-----------------------------------------------------------------------------
(* The refinement of ReaderService. *)

Serving == {r \in Readers : IsServed(r)}

\* The readers that are served are the live ones whose topic has settled.
SettledAreServed ==
  Serving = {r \in Readers : link = "up" /\ pc[r] = "live" /\ IsSettled(topic[r])}

\* The invariant of the table says so.
LEMMA WhoIsServed == TypeOK /\ TableInv => SettledAreServed
  BY LivePrepared DEF Prepared, IsServed, IsConnected, Serving, SettledAreServed

\* What has settled stays so under every request but one to unsubscribe it.
LEMMA RequestSettles ==
  ASSUME TypeOK, NEW op \in {"sub", "unsub"}, NEW t \in Topics, Request(op, t),
         NEW u \in Topics, IsSettled(u), u # t \/ op = "sub"
  PROVE  IsSettled(u)'
  <1>1. CASE UNCHANGED wire
    BY <1>1 DEF IsSettled, Request
  <1>2. CASE wire' = Append(wire, <<op, t>>)
    <2>1. /\ wire \in Seq({"sub", "unsub"} \X Topics)
          /\ <<op, t>> \in {"sub", "unsub"} \X Topics
      BY DEF TypeOK
    <2>2. /\ Len(wire') = Len(wire) + 1
          /\ \A i \in 1..Len(wire) : wire'[i] = wire[i]
          /\ wire'[Len(wire) + 1] = <<op, t>>
          /\ DOMAIN wire = 1..Len(wire) /\ DOMAIN wire' = 1..Len(wire')
          /\ Len(wire) \in Nat
      BY <1>2, <2>1, AppendProperties, LenProperties
    <2>3. <<op, t>> # <<"unsub", u>>
      OBVIOUS
    <2>4. ASSUME NEW i \in DOMAIN wire'
          PROVE  wire'[i] # <<"unsub", u>>
      <3>1. CASE i \in 1..Len(wire)
        BY <2>2, <3>1 DEF IsSettled
      <3>2. CASE i = Len(wire) + 1
        BY <2>2, <2>3, <3>2
      <3>3. QED
        BY <2>2, <2>4, <3>1, <3>2
    <2>5. QED
      BY <2>4 DEF IsSettled, Request
  <1>3. QED
    BY <1>1, <1>2 DEF Request

\* The broker takes no settled subscription away.
LEMMA BrokerSettles ==
  ASSUME TypeOK, BrokerStep, NEW u \in Topics, IsSettled(u)
  PROVE  IsSettled(u)'
  <1>1. /\ wire \in Seq({"sub", "unsub"} \X Topics) /\ wire # <<>>
        /\ wire' = Tail(wire)
    BY DEF TypeOK, BrokerStep
  <1>2. /\ Head(wire) = wire[1] /\ 1 \in DOMAIN wire
        /\ wire[1] \in {"sub", "unsub"} \X Topics
        /\ DOMAIN wire' = 1..(Len(wire) - 1)
        /\ \A i \in 1..(Len(wire) - 1) : wire'[i] = wire[i + 1] /\ i + 1 \in DOMAIN wire
    BY <1>1, HeadTailProperties, LenProperties, EmptySeq
  <1>3. wire[1] # <<"unsub", u>>
    BY <1>2 DEF IsSettled
  <1>4. u \in broker'
    BY <1>2, <1>3 DEF IsSettled, BrokerStep
  <1>5. QED
    BY <1>2, <1>4 DEF IsSettled

\* A step of the table is a step of the service, or none: the broker's taking a
\* subscription joins all readers of the topic, Attach and Clone join one where
\* the topic has settled already, RemoveSender leaves, LinkError and Close stop
\* the service.
LEMMA ServiceStep ==
  ASSUME TypeOK, TableInv, SettledAreServed, SettledAreServed', [Next]_vars
  PROVE  [Service!Next]_Service!vars
  <1> USE DEF table, client, mqtt, Goto
  <1>1. /\ Serving = {r \in Readers : link = "up" /\ pc[r] = "live" /\ IsSettled(topic[r])}
        /\ Serving' = {r \in Readers : link' = "up" /\ pc'[r] = "live" /\ IsSettled(topic[r])'}
        /\ topic \in [Readers -> Topics]
    BY DEF SettledAreServed, TypeOK
  <1>2. ASSUME link' = link,
               link = "up" => \A q \in Readers :
                 pc[q] = "live" => /\ pc'[q] = "live" /\ topic'[q] = topic[q]
                                   /\ IsSettled(topic[q]) => IsSettled(topic[q])'
        PROVE  [Service!Next]_Service!vars
    <2>1. Serving \subseteq Serving' /\ (link # "up" => Serving' = Serving)
      BY <1>1, <1>2
    <2>2. CASE Serving' = Serving
      BY <1>2, <2>2 DEF Serving, Service!vars
    <2>3. CASE Serving' # Serving
      <3> DEFINE S == Serving' \ Serving
      <3>1. /\ S \in SUBSET Readers /\ S # {} /\ S \cap Serving = {}
            /\ Serving' = Serving \cup S /\ link = "up"
        BY <1>1, <2>1, <2>3
      <3>2. Service!Join(S)
        BY <1>2, <3>1 DEF Serving, Service!Join
      <3>3. QED
        BY <3>1, <3>2 DEF Service!Next
    <2>4. QED
      BY <2>2, <2>3
  <1>3. ASSUME NEW r \in Readers,
               \/ Lookup(r) \/ Insert(r) \/ AddReader(r) \/ Attach(r)
               \/ DropShared(r) \/ DelReader(r)
        PROVE  [Service!Next]_Service!vars
    <2>1. /\ UNCHANGED <<link, wire, broker, topic>>
          /\ pc[r] # "live"
          /\ \A q \in Readers \ {r} : pc'[q] = pc[q]
      BY <1>3 DEF TypeOK, Lookup, Insert, AddReader, Attach, DropShared, DelReader
    <2>2. QED
      BY <1>2, <2>1 DEF IsSettled
  <1>4. ASSUME NEW r \in Readers, NEW c \in Readers, Clone(r, c)
        PROVE  [Service!Next]_Service!vars
    <2>1. /\ UNCHANGED <<link, wire, broker>>
          /\ pc[c] # "live"
          /\ \A q \in Readers \ {c} : pc'[q] = pc[q] /\ topic'[q] = topic[q]
      BY <1>4 DEF TypeOK, Clone
    <2>2. QED
      BY <1>2, <2>1 DEF IsSettled
  <1>5. ASSUME NEW r \in Readers, Subscribe(r) \/ Unsubscribe(r)
        PROVE  [Service!Next]_Service!vars
    <2>1. /\ UNCHANGED <<link, topic>>
          /\ pc[r] # "live"
          /\ \A q \in Readers \ {r} : pc'[q] = pc[q]
          /\ topic[r] \in Topics
      BY <1>5 DEF TypeOK, Subscribe, Unsubscribe, Request
    <2>2. ASSUME link = "up", NEW q \in Readers, pc[q] = "live", IsSettled(topic[q])
          PROVE  IsSettled(topic[q])'
      <3>1. topic[q] \in Topics
        BY <1>1
      <3>2. PICK u \in Topics : u = topic[q]
        BY <3>1
      <3>3. CASE Subscribe(r)
        <4>1. Request("sub", topic[r])
          BY <3>3 DEF Subscribe
        <4>2. IsSettled(u)'
          BY <2>1, <2>2, <3>2, <4>1, RequestSettles
        <4>3. QED
          BY <2>1, <3>2, <4>2
      <3>4. CASE Unsubscribe(r)
        <4>1. Request("unsub", topic[r]) /\ pc[r] = "unsubscribe"
          BY <3>4 DEF Unsubscribe
        <4>2. master[topic[r]] = None
          BY <2>2, <4>1 DEF TableInv, Entries, EntryLeft
        <4>3. master[topic[q]] # None
          BY <2>2, LivePrepared, NoneAssumption DEF Prepared, IsConnected, TypeOK
        <4>4. IsSettled(u)'
          BY <2>1, <2>2, <3>2, <4>1, <4>2, <4>3, RequestSettles
        <4>5. QED
          BY <2>1, <3>2, <4>4
      <3>5. QED
        BY <1>5, <3>3, <3>4
    <2>3. QED
      BY <1>2, <2>1, <2>2
  <1>6. ASSUME NEW r \in Readers, RemoveSender(r)
        PROVE  [Service!Next]_Service!vars
    <2>1. /\ UNCHANGED <<link, wire, broker, topic>>
          /\ pc[r] = "live" /\ pc'[r] = "detached"
          /\ \A q \in Readers \ {r} : pc'[q] = pc[q]
      BY <1>6 DEF TypeOK, RemoveSender
    <2>2. Serving' = Serving \ {r}
      BY <1>1, <2>1 DEF IsSettled
    <2>3. CASE r \in Serving
      <3>1. Service!Leave(r)
        BY <2>1, <2>2, <2>3 DEF Serving, Service!Leave
      <3>2. QED
        BY <3>1 DEF Service!Next
    <2>4. CASE r \notin Serving
      <3>1. Serving' = Serving
        BY <2>2, <2>4
      <3>2. QED
        BY <2>1, <3>1 DEF Serving, Service!vars
    <2>5. QED
      BY <2>3, <2>4
  <1>7. CASE BrokerStep
    <2>1. UNCHANGED <<link, pc, topic>>
      BY <1>7 DEF BrokerStep
    <2>2. ASSUME NEW q \in Readers, IsSettled(topic[q])
          PROVE  IsSettled(topic[q])'
      <3>1. PICK u \in Topics : u = topic[q]
        BY <1>1
      <3>2. IsSettled(u)'
        BY <1>7, <2>2, <3>1, BrokerSettles
      <3>3. QED
        BY <2>1, <3>1, <3>2
    <2>3. QED
      BY <1>2, <2>1, <2>2
  <1>8. CASE link = "up" /\ (LinkError \/ Close)
    <2>1. link' # "up"
      BY <1>8 DEF LinkError, Close
    <2>2. Serving' = {}
      BY <1>1, <2>1
    <2>3. Service!Stop
      BY <1>8, <2>1, <2>2 DEF Serving, Service!Stop
    <2>4. QED
      BY <2>3 DEF Service!Next
  <1>9. CASE \/ link # "up" /\ (LinkError \/ Close)
             \/ ReportFailed
    <2>1. link # "up" /\ link' # "up"
      BY <1>9 DEF LinkError, Close, ReportFailed
    <2>2. Serving' = Serving
      BY <1>1, <2>1
    <2>3. QED
      BY <2>1, <2>2 DEF Serving, Service!vars
  <1>10. CASE UNCHANGED vars
    BY <1>2, <1>10 DEF vars, IsSettled
  <1>11. QED
    BY <1>3, <1>4, <1>5, <1>6, <1>7, <1>8, <1>9, <1>10 DEF Next, ReaderStep

\* The table, the ringmasters and the broker implement the service readers are
\* promised: from when the broker has the subscription to their own drop they
\* are served, whatever others do, and all of them are stopped in one step.
THEOREM ServesReaders ==
  ASSUME NoOverlap
  PROVE  Spec => ImplementsService
  <1>1. Init => Service!Init
    <2>1. Init => link = "up" /\ Serving = {}
      BY DEF Init, Serving, IsServed, IsConnected
    <2>2. QED
      BY <2>1 DEF Serving, Service!Init
  <1>2. TypeOK /\ TableInv /\ SettledAreServed /\ SettledAreServed' /\ [Next]_vars
          => [Service!Next]_Service!vars
    BY ServiceStep
  <1>3. QED
    BY <1>1, <1>2, WhoIsServed, TableHolds, TypeCorrect, PTL
       DEF Spec, ImplementsService, Service!Spec

=============================================================================
