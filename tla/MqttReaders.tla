---------------------------- MODULE MqttReaders ----------------------------
(***************************************************************************)
(* The readers of one MQTT network: the table MqttAsb::readers that maps a *)
(* bus topic to its ringmaster and reader count, the creation, cloning and *)
(* dropping of readers by concurrent client threads, the subscriptions the *)
(* client requests from the broker, and the end of the network.            *)
(*                                                                         *)
(* A reader is a member of Readers and is created at most once.  The       *)
(* ringmaster and the AsbReaderNet made during the creation of a reader    *)
(* are named by that reader; clones share them.                            *)
(***************************************************************************)
EXTENDS Integers, Sequences, FiniteSets, SequencesExt

CONSTANTS Topics,      \* bus topics
          Readers,     \* readers, each created or cloned at most once
          None,        \* no ringmaster
          CounterMod,  \* the reader count is a u16: arithmetic modulo 2^16
          MayOverlap   \* what else clients may do on a bus topic during a
                       \* creation there: another "create", a "drop"

ASSUME NoneAssumption == None \notin Readers
ASSUME CounterAssumption ==
  /\ CounterMod \in Nat
  /\ IsFiniteSet(Readers)
  /\ Cardinality(Readers) < CounterMod
ASSUME OverlapAssumption == MayOverlap \subseteq {"create", "drop"}

VARIABLES master,   \* for each topic with an entry, its ringmaster
          count,    \* for each topic with an entry, its reader count
          senders,  \* for each ringmaster, the readers it sends to
          pc,       \* for each reader, where it is in its life
          topic,    \* for each reader, its bus topic
          rm,       \* for each reader, its ringmaster
          handle,   \* for each reader, its AsbReaderNet
          wire,     \* requests on their way to the broker
          broker,   \* topics the broker has a subscription for
          link      \* "up"; "down", "failed" after an error; "closed"

table == <<master, count>>
client == <<topic, rm, handle>>
mqtt == <<wire, broker, link>>
vars == <<table, senders, pc, client, mqtt>>

Creating == {"subscribe", "insert", "add", "attach"}

\* The readers of topic t that are in one of the places.
On(t, places) == {r \in Readers : topic[r] = t /\ pc[r] \in places}

\* The readers whose AsbReaderNet has been counted in and not been dropped.
Holding(t) == On(t, {"attach", "live", "detached"})

-----------------------------------------------------------------------------
Init ==
  /\ master = [t \in Topics |-> None]
  /\ count = [t \in Topics |-> 0]
  /\ senders = [r \in Readers |-> {}]
  /\ pc = [r \in Readers |-> "unused"]
  /\ topic \in [Readers -> Topics]
  /\ rm = [r \in Readers |-> r]
  /\ handle = [r \in Readers |-> r]
  /\ wire = <<>>
  /\ broker = {}
  /\ link = "up"

Goto(r, place) == pc' = [pc EXCEPT ![r] = place]

\* Three ways to get requests wrong.
RequestSubOnly(op, t) ==
  /\ link # "down"
  /\ wire' = IF link = "up" /\ op = "sub" THEN Append(wire, <<op, t>>) ELSE wire
  /\ UNCHANGED <<broker, link>>

RequestWhenUp(op, t) ==
  /\ link = "up"
  /\ wire' = Append(wire, <<op, t>>)
  /\ UNCHANGED <<broker, link>>

RequestReordered(op, t) ==
  /\ link # "down"
  /\ wire' = IF link = "up" THEN <<<<op, t>>>> \o wire ELSE wire
  /\ UNCHANGED <<broker, link>>

\* The event loop takes a request only while the link is up; afterwards the
\* request fails, and the code ignores that.
Request(op, t) ==
  /\ link # "down"
  /\ wire' = IF link = "up" THEN Append(wire, <<op, t>>) ELSE wire
  /\ UNCHANGED <<broker, link>>

-----------------------------------------------------------------------------
(* create_mqtt_reader_async. *)

NoNewRingmaster(t, r) == master[t]

\* get_clone_for finds a ringmaster, or r makes a new one.
Ringmaster(t, r) == IF master[t] = None THEN r ELSE master[t]

Lookup(r) ==
  /\ pc[r] = "unused"
  /\ link # "closed"
  /\ "create" \in MayOverlap \/ On(topic[r], Creating) = {}
  /\ "drop" \in MayOverlap \/ On(topic[r], {"detached", "unsubscribe"}) = {}
  /\ Goto(r, IF master[topic[r]] = None THEN "subscribe" ELSE "add")
  /\ rm' = [rm EXCEPT ![r] = Ringmaster(topic[r], r)]
  /\ UNCHANGED <<table, senders, topic, handle, mqtt>>

Subscribe(r) ==
  /\ pc[r] = "subscribe"
  /\ Request("sub", topic[r])
  /\ Goto(r, "insert")
  /\ UNCHANGED <<table, senders, client>>

NotInserted(r) == master

\* An entry put there since the look-up is overwritten.
Inserted(r) == [master EXCEPT ![topic[r]] = r]

Insert(r) ==
  /\ pc[r] = "insert"
  /\ master' = Inserted(r)
  /\ count' = [count EXCEPT ![topic[r]] = 0]
  /\ Goto(r, "add")
  /\ UNCHANGED <<senders, client, mqtt>>

\* add_reader(..).unwrap()
AddReader(r) ==
  /\ pc[r] = "add"
  /\ IF master[topic[r]] = None
     THEN Goto(r, "panicked") /\ UNCHANGED count
     ELSE /\ Goto(r, "attach")
          /\ count' = [count EXCEPT ![topic[r]] = (@ + 1) % CounterMod]
  /\ UNCHANGED <<master, senders, client, mqtt>>

\* The ring is made, its sender goes to the ringmaster, the reader is returned.
Attach(r) ==
  /\ pc[r] = "attach"
  /\ senders' = [senders EXCEPT ![rm[r]] = @ \cup {r}]
  /\ Goto(r, "live")
  /\ UNCHANGED <<table, client, mqtt>>

-----------------------------------------------------------------------------
(* Clone and Drop of AsbReader, Drop of AsbReaderNet. *)

Clone(r, c) ==
  /\ pc[r] = "live"
  /\ pc[c] = "unused"
  /\ Goto(c, "live")
  /\ topic' = [topic EXCEPT ![c] = topic[r]]
  /\ rm' = [rm EXCEPT ![c] = rm[r]]
  /\ handle' = [handle EXCEPT ![c] = handle[r]]
  /\ senders' = [senders EXCEPT ![rm[r]] = @ \cup {c}]
  /\ UNCHANGED <<table, mqtt>>

SenderKept(r) == senders

AllSendersRemoved(r) == [senders EXCEPT ![rm[r]] = {}]

SenderRemoved(r) == [senders EXCEPT ![rm[r]] = @ \ {r}]

RemoveSender(r) ==
  /\ pc[r] = "live"
  /\ "drop" \in MayOverlap \/ On(topic[r], Creating) = {}
  /\ senders' = SenderRemoved(r)
  /\ Goto(r, "detached")
  /\ UNCHANGED <<table, client, mqtt>>

NeverShared(r) == FALSE

\* Another clone keeps the AsbReaderNet alive.
IsShared(r) == \E c \in Holding(topic[r]) \ {r} : handle[c] = handle[r]

DropShared(r) ==
  /\ pc[r] = "detached"
  /\ IsShared(r)
  /\ Goto(r, "gone")
  /\ UNCHANGED <<table, senders, client, mqtt>>

LastOrNextToLast(n) == n \in {1, 2}

IsLast(n) == n = 1

\* del_reader, for the last clone.  The count is decremented before it is
\* compared, and it is the count of whatever entry the topic has by now.
DelReader(r) ==
  /\ pc[r] = "detached"
  /\ ~IsShared(r)
  /\ LET t == topic[r]
     IN  \/ /\ master[t] = None
            /\ Goto(r, "gone")
            /\ UNCHANGED <<table, senders>>
         \/ /\ master[t] # None
            /\ ~IsLast(count[t])
            /\ count' = [count EXCEPT ![t] = (@ - 1) % CounterMod]
            /\ Goto(r, "gone")
            /\ UNCHANGED <<master, senders>>
         \/ /\ master[t] # None
            /\ IsLast(count[t])
            /\ count' = [count EXCEPT ![t] = 0]
            /\ senders' = [senders EXCEPT ![master[t]] = {}]
            /\ master' = [master EXCEPT ![t] = None]
            /\ Goto(r, "unsubscribe")
  /\ UNCHANGED <<client, mqtt>>

\* The table's lock has been released by now.
Unsubscribe(r) ==
  /\ pc[r] = "unsubscribe"
  /\ Request("unsub", topic[r])
  /\ Goto(r, "gone")
  /\ UNCHANGED <<table, senders, client>>

-----------------------------------------------------------------------------
(* The broker and the end of the network. *)

BrokerStep ==
  /\ wire # <<>>
  /\ broker' = IF Head(wire)[1] = "sub" THEN broker \cup {Head(wire)[2]}
                                        ELSE broker \ {Head(wire)[2]}
  /\ wire' = Tail(wire)
  /\ UNCHANGED <<table, senders, pc, client, link>>

TableCleared ==
  /\ master' = [t \in Topics |-> None]
  /\ count' = [t \in Topics |-> 0]
  /\ UNCHANGED senders

\* MqttAsb::shutdown: the ringmasters in the table lose their senders, and
\* the table is emptied.
ShutdownTable ==
  /\ senders' = [r \in Readers |-> IF \E t \in Topics : master[t] = r
                                   THEN {} ELSE senders[r]]
  /\ master' = [t \in Topics |-> None]
  /\ count' = [t \in Topics |-> 0]

\* poll returned an error, at whatever point creations and drops may be: the
\* event loop shuts the table down, ...
LinkError ==
  /\ link = "up"
  /\ ShutdownTable
  /\ link' = "down"
  /\ wire' = <<>>
  /\ broker' = {}
  /\ UNCHANGED <<pc, client>>

\* ... sets the status to Failed and ends.
ReportFailed ==
  /\ link = "down"
  /\ link' = "failed"
  /\ UNCHANGED <<table, senders, pc, client, wire, broker>>

\* Drop of AsbNetMode: creations borrow the connection, readers do not.
Close ==
  /\ link # "closed"
  /\ \A t \in Topics : On(t, Creating) = {}
  /\ ShutdownTable
  /\ link' = "closed"
  /\ wire' = <<>>
  /\ broker' = {}
  /\ UNCHANGED <<pc, client>>

-----------------------------------------------------------------------------
ReaderStep(r) ==
  \/ Lookup(r) \/ Subscribe(r) \/ Insert(r) \/ AddReader(r) \/ Attach(r)
  \/ RemoveSender(r) \/ DropShared(r) \/ DelReader(r) \/ Unsubscribe(r)

Next ==
  \/ \E r \in Readers : ReaderStep(r) \/ \E c \in Readers : Clone(r, c)
  \/ BrokerStep \/ LinkError \/ ReportFailed \/ Close

Spec == Init /\ [][Next]_vars

\* Calls that have begun run on, on a client thread or a task of the runtime;
\* the event loop gets to report an error; the broker takes what it is sent.
Finish(r) ==
  \/ Subscribe(r) \/ Insert(r) \/ AddReader(r) \/ Attach(r)
  \/ DropShared(r) \/ DelReader(r) \/ Unsubscribe(r)

Fairness ==
  /\ \A r \in Readers : WF_vars(Finish(r))
  /\ WF_vars(ReportFailed)
  /\ WF_vars(BrokerStep)

FairSpec == Spec /\ Fairness

-----------------------------------------------------------------------------
(* Safety. *)

\* Types.
TypeOK ==
  /\ master \in [Topics -> Readers \cup {None}]
  /\ count \in [Topics -> 0..(CounterMod - 1)]
  /\ senders \in [Readers -> SUBSET Readers]
  /\ pc \in [Readers -> Creating \cup {"unused", "live", "detached", "gone",
                                       "unsubscribe", "panicked"}]
  /\ topic \in [Readers -> Topics]
  /\ rm \in [Readers -> Readers]
  /\ handle \in [Readers -> Readers]
  /\ wire \in Seq({"sub", "unsub"} \X Topics)
  /\ broker \subseteq Topics
  /\ link \in {"up", "down", "failed", "closed"}

\* The subscription the broker has, or will have when it has caught up: the
\* last request on its way for the topic decides.
Subscribed(t) ==
  \/ \E i \in DOMAIN wire :
       /\ wire[i] = <<"sub", t>>
       /\ \A j \in DOMAIN wire : wire[j][2] = t => j <= i
  \/ t \in broker /\ \A i \in DOMAIN wire : wire[i][2] # t

\* The broker sends the messages of topic t, and no request on its way will
\* make it stop.
IsSettled(t) ==
  /\ t \in broker
  /\ \A i \in DOMAIN wire : wire[i] # <<"unsub", t>>

\* The client has done its part for r: whatever comes on its topic goes into
\* the ring of r.
IsConnected(r) ==
  /\ pc[r] = "live"
  /\ master[topic[r]] = rm[r]
  /\ r \in senders[rm[r]]

\* Messages published on the topic of r from now on reach the ring of r.
IsServed(r) == link = "up" /\ IsConnected(r) /\ IsSettled(topic[r])

\* When a creation or a clone returns, all that the client has to do has been
\* done, and stays done until the drop: entry, ringmaster and sender belong
\* together, and the last request on its way for the topic subscribes it.
\* This is not yet to be served: nobody waits for the SubAck ("TODO: Figure out
\* how to wait till SubAck is received"); that comes later, see BrokerFollows.
Prepared ==
  link = "up" =>
    \A r \in Readers : pc[r] = "live" => IsConnected(r) /\ Subscribed(topic[r])

\* README, CAL-005394: "`AsbReader` resources are all initialized and ready when
\* created".  The code does not keep this if ready means served: until the
\* broker has the subscription, messages of the topic are missed.
Ready == link = "up" => \A r \in Readers : pc[r] = "live" => IsServed(r)

\* The u16 of an entry counts the AsbReaderNets not yet dropped, so that
\* neither a clone nor a drop can make it run ahead or behind.
CountMatches ==
  link = "up" =>
    \A t \in Topics : master[t] # None =>
      count[t] = Cardinality({handle[r] : r \in Holding(t)})

\* When the last reader of a topic has gone, so have its entry and, at the
\* broker, its subscription.
NothingLeft ==
  link = "up" =>
    \A t \in Topics :
      On(t, Creating \cup {"live", "detached", "unsubscribe"}) = {}
        => master[t] = None /\ ~Subscribed(t)

\* A ringmaster never sends to a reader that is being or has been dropped,
\* however creations, drops and failures overlap.
NoGhostSender == \A x \in Readers : \A r \in senders[x] : pc[r] = "live"

\* The end of the network reaches every reader there is, whichever
\* ringmaster it has: none is left waiting for a message.
StopReachesAll ==
  [][link = "up" /\ link' # "up"
       => \A r \in Readers : pc'[r] = "live" => r \notin senders'[rm[r]]]_vars

\* "SAFETY: Above match statement ensures there is an entry for `bus_topic`."
\* The code does not keep this: if the link fails after the look-up or the
\* insertion, a lone creation finds the table empty and panics.
NoPanic == \A r \in Readers : pc[r] # "panicked"

\* Nothing else makes a creation panic: who has found or inserted an entry
\* finds it when it adds itself, as long as the network is up.  (A link that is
\* not up never comes up again, so the state tells when the panic was.)
NoPanicWhileUp == link = "up" => NoPanic

\* Failed: "Read and write methods will return [CalError]": no reader of a
\* failed network has a sender that would let it wait.  The code does not
\* keep this: a reader that is made or cloned after the failure has one.
FailedReadsError ==
  link = "failed" =>
    \A r \in Readers : pc[r] = "live" => r \notin senders[rm[r]]

-----------------------------------------------------------------------------
(* Liveness. *)

\* Every creation and drop comes to an end, although both wait for the event
\* loop to take a request and the event loop may have ended: a drop returns, and
\* so does a creation, unless the network has failed or been closed under it and
\* the unwrap of add_reader panics.
CallsReturn ==
  \A r \in Readers :
    /\ pc[r] \in Creating
         ~> (pc[r] = "live" \/ (pc[r] = "panicked" /\ link # "up"))
    /\ pc[r] \in {"detached", "unsubscribe"} ~> pc[r] = "gone"

\* A reader that stays on a network that stays up is served in the end, and for
\* good: its subscription gets to the broker and is not lost there, whatever
\* was requested before.
BrokerFollows ==
  \A r \in Readers : <>[](pc[r] = "live" /\ link = "up") => <>[]IsServed(r)

-----------------------------------------------------------------------------
(* The table, the ringmasters and the broker together implement the service *)
(* that readers are promised.                                               *)
Service == INSTANCE ReaderService
             WITH running <- (link = "up"),
                  served <- {r \in Readers : IsServed(r)}

\* Once the broker has the subscription of a reader, the reader is served until
\* its own drop begins, whatever the others do, and the end of the network ends
\* all service in one step.
ImplementsService == Service!Spec

=============================================================================
