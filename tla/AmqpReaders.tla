---------------------------- MODULE AmqpReaders ----------------------------
(***************************************************************************)
(* The readers of one AMQP network: the table AmqpAsb::readers, the        *)
(* creation, cloning and dropping of readers by concurrent clients, and    *)
(* the queues and consumers they request over the one channel they share.  *)
(*                                                                         *)
(* The ringmaster, the consumer (with its tag), the queue (when the broker *)
(* names it) and the AsbReaderNet made during the creation of a reader are *)
(* named by that reader.                                                   *)
(***************************************************************************)
EXTENDS Integers, FiniteSets

CONSTANTS Topics,      \* bus topics
          Readers,     \* readers, each created or cloned at most once
          None,        \* no ringmaster
          CounterMod,  \* the reader count is a u16: arithmetic modulo 2^16
          MayOverlap   \* what may overlap a creation on the same bus topic:
                       \* another "create", a "drop"

ASSUME NoneAssumption == None \notin Readers
ASSUME CounterAssumption ==
  /\ CounterMod \in Nat
  /\ IsFiniteSet(Readers)
  /\ Cardinality(Readers) < CounterMod
ASSUME OverlapAssumption == MayOverlap \subseteq {"create", "drop"}

VARIABLES exchange,   \* the configuration names an exchange
          master,     \* for each topic with an entry, its ringmaster; also
                      \* the tag of its consumer
          count,      \* for each topic with an entry, its reader count
          senders,    \* for each ringmaster, the readers it sends to
          pc,         \* for each reader, where it is in its life
          topic,      \* for each reader, its bus topic
          rm,         \* for each reader, its ringmaster
          handle,     \* for each reader, its AsbReaderNet
          tag,        \* for each last reader, the consumer it cancels
          queues,     \* the queues declared at the broker
          bound,      \* the queues bound to the exchange
          consumers,  \* the consumers at the broker
          chan        \* "open"; "notFound" when the broker has closed the
                      \* channel over a missing queue, "closed" when the
                      \* server has closed it; "failed" when the connection
                      \* is closed by the server, "dropped" by the client

table == <<master, count>>
client == <<topic, rm, handle, tag>>
broker == <<queues, bound, consumers>>
vars == <<exchange, table, senders, pc, client, broker, chan>>

Creating == {"declare", "bind", "consume", "insert", "add", "attach"}

\* The readers of topic t that are in one of the places.
On(t, places) == {r \in Readers : topic[r] = t /\ pc[r] \in places}

\* The readers whose AsbReaderNet has been counted in and not been dropped.
Holding(t) == On(t, {"attach", "live", "detached"})

-----------------------------------------------------------------------------
Init ==
  /\ exchange \in BOOLEAN
  /\ master = [t \in Topics |-> None]
  /\ count = [t \in Topics |-> 0]
  /\ senders = [r \in Readers |-> {}]
  /\ pc = [r \in Readers |-> "unused"]
  /\ topic \in [Readers -> Topics]
  /\ rm = [r \in Readers |-> r]
  /\ handle = [r \in Readers |-> r]
  /\ tag = [r \in Readers |-> r]
  /\ queues = {}
  /\ bound = {}
  /\ consumers = {}
  /\ chan = "open"

Goto(r, place) == pc' = [pc EXCEPT ![r] = place]

-----------------------------------------------------------------------------
(* The broker.  Without an exchange a queue has the name of its topic and  *)
(* the default exchange routes to it; otherwise the broker names it.       *)

QueueOf(r) == IF exchange THEN r ELSE topic[r]

NotAutoDeleted(left) == {}

\* Queues are auto-delete: one that has lost its last consumer goes.
AutoDeleted(left) ==
  {q \in queues : \E c \in consumers : q = QueueOf(c)}
    \ {QueueOf(c) : c \in left}

BrokerCancel(c) ==
  LET left == consumers \ {c}
  IN  /\ consumers' = left
      /\ queues' = queues \ AutoDeleted(left)
      /\ bound' = bound \ AutoDeleted(left)

\* A channel that is closed takes its consumers with it.
ChannelGone ==
  /\ consumers' = {}
  /\ queues' = queues \ AutoDeleted({})
  /\ bound' = bound \ AutoDeleted({})

\* Queues are exclusive: they go with the connection.
ConnectionGone == queues' = {} /\ bound' = {} /\ consumers' = {}

\* How many times the client is given a message published on topic t.
\* Consumers of one queue share its messages, queues get one copy each.
Copies(t) ==
  Cardinality({QueueOf(c) : c \in {d \in consumers :
                                     topic[d] = t /\ (exchange => d \in bound)}})

-----------------------------------------------------------------------------
(* create_amqp_reader_async. *)

NoNewRingmaster(t, r) == master[t]

\* get_clone_for finds a ringmaster, or r makes a new one.
Ringmaster(t, r) == IF master[t] = None THEN r ELSE master[t]

Lookup(r) ==
  /\ pc[r] = "unused"
  /\ chan # "dropped"
  /\ "create" \in MayOverlap \/ On(topic[r], Creating) = {}
  /\ "drop" \in MayOverlap \/ On(topic[r], {"detached", "cancel"}) = {}
  /\ Goto(r, IF master[topic[r]] = None THEN "declare" ELSE "add")
  /\ rm' = [rm EXCEPT ![r] = Ringmaster(topic[r], r)]
  /\ UNCHANGED <<exchange, table, senders, topic, handle, tag, broker, chan>>

\* A request on a channel that is no longer open: `?` returns the error.
RequestFails(r) ==
  /\ pc[r] \in {"declare", "bind", "consume"}
  /\ chan # "open"
  /\ Goto(r, "failed")
  /\ UNCHANGED <<exchange, table, senders, client, broker, chan>>

\* The future of create_reader_async is dropped while it awaits a request
\* or its answer; what the broker has done stays done.
Abandon(r) ==
  /\ pc[r] \in {"declare", "bind", "consume", "insert"}
  /\ Goto(r, "abandoned")
  /\ UNCHANGED <<exchange, table, senders, client, broker, chan>>

NotDeclared(r) == queues

\* Declaring a queue that exists changes nothing.
Declared(r) == queues \cup {QueueOf(r)}

Declare(r) ==
  /\ pc[r] = "declare"
  /\ chan = "open"
  /\ queues' = Declared(r)
  /\ Goto(r, IF exchange THEN "bind" ELSE "consume")
  /\ UNCHANGED <<exchange, table, senders, client, bound, consumers, chan>>

NotBound(r) == bound

BoundToTopic(r) == bound \cup {QueueOf(r)}

Bind(r) ==
  /\ pc[r] = "bind"
  /\ chan = "open"
  /\ bound' = BoundToTopic(r)
  /\ Goto(r, "consume")
  /\ UNCHANGED <<exchange, table, senders, client, queues, consumers, chan>>

\* If the queue has been deleted since it was declared, the broker closes the
\* channel, for everyone.
Consume(r) ==
  /\ pc[r] = "consume"
  /\ chan = "open"
  /\ IF QueueOf(r) \in queues
     THEN /\ consumers' = consumers \cup {r}
          /\ Goto(r, "insert")
          /\ UNCHANGED <<queues, bound, chan>>
     ELSE /\ ChannelGone
          /\ chan' = "notFound"
          /\ Goto(r, "failed")
  /\ UNCHANGED <<exchange, table, senders, client>>

\* An entry put there since the look-up is overwritten, its tag lost.
Inserted(r) == [master EXCEPT ![topic[r]] = r]

Insert(r) ==
  /\ pc[r] = "insert"
  /\ master' = Inserted(r)
  /\ count' = [count EXCEPT ![topic[r]] = 0]
  /\ Goto(r, "add")
  /\ UNCHANGED <<exchange, senders, client, broker, chan>>

\* add_reader(..).unwrap()
AddReader(r) ==
  /\ pc[r] = "add"
  /\ IF master[topic[r]] = None
     THEN Goto(r, "panicked") /\ UNCHANGED count
     ELSE /\ Goto(r, "attach")
          /\ count' = [count EXCEPT ![topic[r]] = (@ + 1) % CounterMod]
  /\ UNCHANGED <<exchange, master, senders, client, broker, chan>>

\* The ring is made, its sender goes to the ringmaster, the reader is returned.
Attach(r) ==
  /\ pc[r] = "attach"
  /\ senders' = [senders EXCEPT ![rm[r]] = @ \cup {r}]
  /\ Goto(r, "live")
  /\ UNCHANGED <<exchange, table, client, broker, chan>>

-----------------------------------------------------------------------------
(* Clone and Drop of AsbReader, Drop of AsbReaderNet. *)

Clone(r, c) ==
  /\ pc[r] = "live"
  /\ pc[c] = "unused"
  /\ Goto(c, "live")
  /\ topic' = [topic EXCEPT ![c] = topic[r]]
  /\ rm' = [rm EXCEPT ![c] = rm[r]]
  /\ handle' = [handle EXCEPT ![c] = handle[r]]
  /\ senders' = [senders EXCEPT ![rm[r]] = @ \cup {c}]
  /\ UNCHANGED <<exchange, table, tag, broker, chan>>

SenderRemoved(r) == [senders EXCEPT ![rm[r]] = @ \ {r}]

RemoveSender(r) ==
  /\ pc[r] = "live"
  /\ "drop" \in MayOverlap \/ On(topic[r], Creating) = {}
  /\ senders' = SenderRemoved(r)
  /\ Goto(r, "detached")
  /\ UNCHANGED <<exchange, table, client, broker, chan>>

\* Another clone keeps the AsbReaderNet alive.
IsShared(r) == \E c \in Holding(topic[r]) \ {r} : handle[c] = handle[r]

DropShared(r) ==
  /\ pc[r] = "detached"
  /\ IsShared(r)
  /\ Goto(r, "gone")
  /\ UNCHANGED <<exchange, table, senders, client, broker, chan>>

LastOrNextToLast(n) == n \in {1, 2}

IsLast(n) == n = 1

OwnTag(r) == r

\* The consumer of the entry, whoever created it.
CancelledTag(r) == master[topic[r]]

\* del_reader, for the last clone: the topic has no entry, or other readers,
\* or no other reader.
DelReader(r) ==
  /\ pc[r] = "detached"
  /\ ~IsShared(r)
  /\ LET t == topic[r]
     IN  \/ /\ master[t] = None
            /\ Goto(r, "gone")
            /\ UNCHANGED <<table, senders, tag>>
         \/ /\ master[t] # None
            /\ ~IsLast(count[t])
            /\ count' = [count EXCEPT ![t] = (@ - 1) % CounterMod]
            /\ Goto(r, "gone")
            /\ UNCHANGED <<master, senders, tag>>
         \/ /\ master[t] # None
            /\ IsLast(count[t])
            /\ count' = [count EXCEPT ![t] = 0]
            /\ senders' = [senders EXCEPT ![master[t]] = {}]
            /\ tag' = [tag EXCEPT ![r] = CancelledTag(r)]
            /\ master' = [master EXCEPT ![t] = None]
            /\ Goto(r, "cancel")
  /\ UNCHANGED <<exchange, topic, rm, handle, broker, chan>>

\* basic_cancel, after the table's lock has been released; an error is ignored.
Cancel(r) ==
  /\ pc[r] = "cancel"
  /\ IF chan = "open" THEN BrokerCancel(tag[r]) ELSE UNCHANGED broker
  /\ Goto(r, "gone")
  /\ UNCHANGED <<exchange, table, senders, client, chan>>

-----------------------------------------------------------------------------
(* The end of the channel, of the connection and of the network. *)

\* ChanCb::close and ConnCb::close only set the status.
ServerClosesChannel ==
  /\ chan = "open"
  /\ chan' = "closed"
  /\ ChannelGone
  /\ UNCHANGED <<exchange, table, senders, pc, client>>

ServerClosesConnection ==
  /\ chan \in {"open", "notFound", "closed"}
  /\ chan' = "failed"
  /\ ConnectionGone
  /\ UNCHANGED <<exchange, table, senders, pc, client>>

TableCleared ==
  /\ master' = [t \in Topics |-> None]
  /\ count' = [t \in Topics |-> 0]
  /\ UNCHANGED senders

\* AmqpAsb::shutdown: the ringmasters in the table lose their senders, and
\* the table is emptied.
ShutdownTable ==
  /\ senders' = [r \in Readers |-> IF \E t \in Topics : master[t] = r
                                   THEN {} ELSE senders[r]]
  /\ master' = [t \in Topics |-> None]
  /\ count' = [t \in Topics |-> 0]

\* Drop of AsbNetMode: creations borrow the connection, readers do not.
Close ==
  /\ chan # "dropped"
  /\ \A t \in Topics : On(t, Creating) = {}
  /\ ShutdownTable
  /\ ConnectionGone
  /\ chan' = "dropped"
  /\ UNCHANGED <<exchange, pc, client>>

-----------------------------------------------------------------------------
ReaderStep(r) ==
  \/ Lookup(r) \/ Declare(r) \/ Bind(r) \/ Consume(r)
  \/ RequestFails(r) \/ Abandon(r) \/ Insert(r) \/ AddReader(r) \/ Attach(r)
  \/ RemoveSender(r) \/ DropShared(r) \/ DelReader(r) \/ Cancel(r)

Next ==
  \/ \E r \in Readers : ReaderStep(r) \/ \E c \in Readers : Clone(r, c)
  \/ ServerClosesChannel \/ ServerClosesConnection \/ Close

Spec == Init /\ [][Next]_vars

-----------------------------------------------------------------------------
(* Safety. *)

\* Types.
TypeOK ==
  /\ exchange \in BOOLEAN
  /\ master \in [Topics -> Readers \cup {None}]
  /\ count \in [Topics -> 0..(CounterMod - 1)]
  /\ senders \in [Readers -> SUBSET Readers]
  /\ pc \in [Readers -> Creating \cup {"unused", "failed", "abandoned", "panicked",
                                       "live", "detached", "cancel", "gone"}]
  /\ topic \in [Readers -> Topics]
  /\ rm \in [Readers -> Readers]
  /\ handle \in [Readers -> Readers]
  /\ tag \in [Readers -> Readers]
  /\ queues \subseteq Topics \cup Readers
  /\ bound \subseteq queues
  /\ consumers \subseteq Readers
  /\ chan \in {"open", "notFound", "closed", "failed", "dropped"}

\* Messages published on the topic of r reach the ring of r.
IsServed(r) ==
  /\ pc[r] = "live"
  /\ master[topic[r]] = rm[r]
  /\ r \in senders[rm[r]]
  /\ Copies(topic[r]) # 0

\* A reader that has been created, and not dropped, is served as long as the
\* channel is open, whatever creations were given up on the way: README,
\* CAL-005394, "resources are all initialized and ready when created".
Ready ==
  chan = "open" => \A r \in Readers : pc[r] = "live" => IsServed(r)

\* A message is handed to the readers of its topic once, unless a creation
\* has been abandoned there, whose consumer nobody cancels.
NoDuplicates ==
  \A t \in Topics : On(t, {"abandoned"}) = {} => Copies(t) <= 1

\* The requests of the client never make the broker close the channel that
\* all its readers and writers share.
ChannelSurvives == chan # "notFound"

\* When the last reader of a topic has gone and no creation was abandoned
\* there, so have its entry, its queue and its consumer.
NothingLeft ==
  chan = "open" =>
    \A t \in Topics :
      On(t, Creating \cup {"live", "detached", "cancel", "abandoned"}) = {}
        => /\ master[t] = None
           /\ \A r \in Readers : topic[r] = t => r \notin consumers /\ QueueOf(r) \notin queues

\* Dropping the connection reaches every reader there is: none is left
\* waiting for a message.
CloseReachesAll ==
  [][Close => \A r \in Readers : pc[r] = "live" => r \notin senders'[rm[r]]]_vars

-----------------------------------------------------------------------------
(* The table, the ringmasters and the broker together implement the service *)
(* that readers are promised.                                               *)
Service == INSTANCE ReaderService
             WITH running <- (chan = "open"),
                  served <- {r \in Readers : chan = "open" /\ IsServed(r)}

\* A created or cloned reader is served (at once, by Ready) until its own drop
\* begins, whatever the others do, or until the channel ends for all.
ImplementsService == Service!Spec

=============================================================================
