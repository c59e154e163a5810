# TLA+ models and proofs for rounac

rounac is a Critical Abstraction Layer (CAL): a Rust library through which a
service publishes and subscribes to typed topics over AMQP, MQTT, a loopback
or a null network. This directory holds TLA+ models of its concurrent core, of its
configuration and of the service among its examples, TLC configurations that check them on small instances, and TLAPS proofs of
theorems about them for every instance. Paths below are those of the
repository (`src/networks.rs`, ...); `PROJECT.json` gives for each definition
the lines it models.

To check: `tlc -config X.cfg MCM` for a run, `tlapm MProofs.tla` for proofs.

## 1. Inventory

| Component (source) | State it keeps | Operations | Modelled in |
|---|---|---|---|
| `AsbReader` (`networks.rs` 777-1082) | ring receiver, `callbacks_active`, listeners vector under a mutex, background thread | `read`, `read_timeout`, `try_read`, `add_listener`, `remove_listener`, `Clone`, `Drop` | `AsbReader` (clone and creation: `MqttReaders`, `AmqpReaders`) |
| MQTT network (`networks/mqtt.rs`, `networks.rs` 139-221, 555-624) | table topic -> (ringmaster, u16 count, MQTT topic), shutdown fuse, event-loop task | create reader, `add_reader`, `del_reader`, `handle_msg`, `shutdown` | `MqttReaders` |
| AMQP network (`networks/amqp.rs`, `networks.rs` 54-136, 449-553) | table topic -> (ringmaster, u16 count, consumer tag), one channel for everything | the same, with declare, bind, consume, cancel at the broker; consumer task; close callbacks | `AmqpReaders`, `StatusManager` |
| `ReaderRingMaster` (`networks/utils.rs` 167-263) | vector of senders, `last_received` | `add_sender`, `remove_sender`, `distribute_msg`, `shutdown` | `RingMaster` |
| Topic types: `get_topic_ctr`, `PossessCtr` (`networks.rs` 317-342, `utils.rs` 139-165) | topic -> (counter, `TypeId`) | admit, clone, drop; downcast of a ringmaster | `TopicTypes` |
| `StatusCallbackManager` (`utils.rs` 71-137) | status, listeners | `set_status`, `add_listener`, `remove_listener`, spawned calls | `StatusManager` |
| Loopback and null networks (`networks/loopback.rs`, `networks.rs` 626-670) | table of ringmasters that nothing fills | create, write, drop | `AsbLifecycle` |
| Start and end of networks (`networks.rs` 54-313) | own runtime and the thread that runs it, notifier, event-loop task, shutdown fuse | `connect`, `new_amqp`, `new_mqtt`, event loop, `Drop` | `AsbLifecycle` (for readers also `Close`, `LinkError` in `MqttReaders`, `AmqpReaders`) |
| `AsbWriter`, encoding (`networks.rs` 672-733, 1084-1132, `msg_serde.rs`) | settings of its topic, topic counter | `create_writer`, `write`, `write_async` | `AsbLifecycle`; the counter in `TopicTypes` |
| Configuration (`config.rs`, `config/params.rs`, `get_bus_config`, options of MQTT and AMQP) | none | loading, durations, parameters, precedence of settings | `Config` (operators), used by `AsbLifecycle` |
| Facade (`lib.rs`) | the loaded configuration, the name of the service | `Asb::new`, delegation | `New` in `AsbLifecycle` |
| Basic OMS service (`examples/basic_oms_service.rs`) | run time, reader with a listener | `Service::new`, `run_for`, `on_msg` | `OmsService` |
| Errors (`error.rs`); other examples | none | conversions; publishing in a loop | no: nothing that goes wrong across steps |

How they interact. `create_reader` admits the type (`get_topic_ctr`), resolves
the configuration, looks the bus topic up in the network's table, makes and
inserts a ringmaster when there is none, counts itself in, and gives the
ringmaster the sender of a new ring. The network's task hands each message to
the ringmaster of its topic under the table's read lock; the ringmaster
filters, decodes and pushes it into every ring. The reader's client polls the
ring, or registers listeners, for which a background thread polls it. Dropping
a reader takes the sender out of the ringmaster, then (after the last clone)
counts the reader out of the table, which for the last reader removes the
entry and unsubscribes, and last gives up the counter of its type. Callbacks of
the network set the status; each listener is told in a thread of its own.
`Asb::new` loads nothing itself: it looks up the service and its network in the
loaded configuration and starts the network, which for AMQP, and for MQTT
outside a runtime, brings a runtime and a background thread that runs it until
it is notified by the drop. For MQTT an event-loop task connects and tells
`new_mqtt` over a channel without capacity; later it takes the requests of
writers and readers, until an error or a disconnect ends it.

What is hard. Every operation above is several critical sections of different
locks with windows in between: look-up / insert / count / attach in a creation;
removal / unsubscribe in a drop; check / set / spawn in `add_listener`;
compare / store / notify in `set_status`; stamp / filter / send in a
distribution. Clones share state that must be released once. The network can
fail or be dropped in the middle of any of these, and asynchronous creations
can be abandoned at each await. Every blocking call is `Handle::block_on`, which
panics in a task, also in a drop. The threads that start and end a network meet
in two rendezvous, one of which (`notify_waiters`) leaves nothing behind for
who comes late. `PROJECT.json` lists every such hazard with its
line and the properties that cover it.

What makes each component correct, in a sentence. *Reader*: slow readers lose
the oldest messages only; reads are refused exactly while listeners exist, and
then a thread serves these; removed listeners are silent; threads stop. *AMQP*:
from the end of its creation to the beginning of its drop a reader is served,
once, whatever others do; nothing is left behind afterwards; the end of the
network releases every reader. *MQTT*: the same, except that a creation does not
wait for the broker: at its end all that the client has to do has been done, and
the reader is served from when the broker has its subscription. *Ringmaster*:
messages are spaced by the filter, ordered, and reach every reader there is.
*Types*: the possession counters are exact, and while the network is up no
reader is fed by a ringmaster of another type. *Status*: no listener misses the status that
stays. *Start and end*: what is called returns, and what was started for an
`Asb` is gone after it. *Writers*: the most specific settings, and no write on a
network that has failed. *OMS service*: reports keep their pace, requests that
concern it are answered.

## 2. Modules

| Module | Role |
|---|---|
| `AsbReader`, `MCAsbReader`, `AsbReaderProofs` | one reader, its client threads, listeners and background threads |
| `ReaderService` | abstract specification: readers join the service, each at most once, alone or together, and are served until their own drop or until the network stops |
| `MqttReaders`, `MCMqttReaders`, `MqttReadersProofs` | readers of an MQTT network; implements `ReaderService` |
| `AmqpReaders`, `MCAmqpReaders`, `AmqpReadersProofs` | readers of an AMQP network with queues and consumers; implements `ReaderService` |
| `RingMaster`, `MCRingMaster`, `RingMasterProofs` | distribution of the messages of one topic |
| `TopicTypes`, `MCTopicTypes`, `TopicTypesProofs` | admission by type, counters, downcasts |
| `StatusManager`, `MCStatusManager`, `StatusManagerProofs` | status and status listeners |
| `Config` | operators: loading, durations, parameters, settings |
| `AsbLifecycle`, `MCAsbLifecycle`, `AsbLifecycleProofs` | an `Asb` from its configuration to its drop, its writers, all four kinds of network; extends `Config` |
| `OmsService`, `MCOmsService`, `OmsServiceProofs` | the service of the examples |

An action is one critical section, or one request to the broker with its
answer; everything between two of them is local and commutes. `pc` (in
`AsbReader`: `reg`, `reads`, `thr`) says where a call is.

**AsbReader.** `buffer` is the ring (`Push` the overwriting send), `cbActive`
is `callbacks_active`, `reg[l]` the progress of the `add_listener` that made
listener `l`, `thr` and `todo` the background threads; a thread in `calling`
holds the listeners' mutex, which is what `LockFree` asks. `add_listener` is
`AddPush` (under the mutex), `AddCheck`, `AddSpawn` (outside it). A thread goes
`check` - `recv` - `got` - `calling`. Messages are numbers; time is the number
of messages that are older than the expiration.

**MqttReaders.** `master` and `count` are the table, `senders[x]` the senders
of the ringmaster that reader `x` created, `rm` and `handle` the ringmaster and
the `AsbReaderNet` of a reader (shared by clones). Creation is `Lookup`,
`Subscribe`, `Insert`, `AddReader`, `Attach`; a drop is `RemoveSender`, then
`DropShared` or `DelReader` and `Unsubscribe`. `wire` holds requests the broker
has not yet processed: `Subscribe` puts one there and goes on, as the code does
not wait for the SubAck (TODO at `networks.rs:586`), and `BrokerStep` processes
it. So there are two notions: a reader is *prepared* (`Prepared`) when entry,
ringmaster and sender belong together and the last request on its way
subscribes its topic; it is *served* (`IsServed`) when moreover the broker has
the subscription and no request on its way takes it back. `LinkError` and
`ReportFailed` are the event-loop task after an error of `poll`, possible at
every point of a creation or drop, `Close` the drop of the connection.

**AmqpReaders.** The same table; the broker has `queues`, `bound` and
`consumers`, changed by `Declare`, `Bind`, `Consume`, `Cancel`. Requests over
one channel are processed in order, so each is one step. A queue is exclusive
and auto-delete, as declared: it goes with its last consumer or with the
connection. Consuming a queue that does not exist closes the channel, which is
what AMQP 0-9-1 prescribes. `Abandon` is an asynchronous creation whose future
is dropped at an await. Whether an exchange is configured is chosen initially.

**RingMaster.** Each worker is a thread or task in `handle_msg`: it stamps the
message (`HandleMsg`), passes the filter's mutex (`Filter`), decodes, and sends
to one sender after the other while holding the read lock. `taken` and
`filtered` are history; `got[r]` is what has been pushed into the ring of `r`.
Ids of senders are distinct (they are random 32-bit numbers).

**TopicTypes.** `stored` and `counter` are the entries of
`AsbConnection::topics`; `master` and `readers` abstract the table of an MQTT
network to the type of the ringmaster and the u16 count of readers, `handle` is
the `AsbReaderNet` that clones share. `Admit` is `get_topic_ctr`; the creation of
a reader goes on with `Lookup` (or `CastPanics`), `Insert` after the await of
`subscribe`, and `AddReader` (or `AddPanics`); `CreateFails` is an error or a
future dropped at that await. A drop is `DropShared` or `LeaveTable`, which
counts out of whatever entry the topic has by then, and `DropCounter`.
`Shutdown` is `MqttAsb::shutdown` (`link` goes "down"), which empties the table
under live readers and creations in progress, once and at any time. A reader
or writer is created at most once.

**StatusManager.** A call of `set_status` is `LoadStatus`, `StoreStatus`,
`CallListeners`; `spawned` counts the threads about to call a listener, `told`
the statuses it has heard since they were last set.

**Config.** A file is a record like `AsbConfig`, its maps are functions from
names; a duration in it is a number with a unit, a parameter of a network a
value with its TOML type. `DurationOf` is `duration_value_suffix` with its
constructors, which overflow; `Loaded` what `from_str` may return; `OpenArgs`,
`MqttOpts`, `ExchangeOf`, `DurableOf` read parameters; `NetworkOf` is the
network of a service and `BusConfig` is `get_bus_config`. What parses TOML is
external.

**AsbLifecycle.** `pc` is the client: `Load`, `New`, then for AMQP `AmqpPrepare`,
one `AmqpRequest` for each of the four requests that are awaited (or
`AmqpRefused`) and `AmqpSpawn`; for MQTT `MqttPrepare`, which
spawns the event loop and perhaps the background thread, and the wait in
`recv`. `task` is the event loop: `TaskConnects` and `Announce` for a ConnAck,
`TaskFails`, `TaskRefuses`, `TaskShutdown`, `TaskReports` for an error,
`TaskTakesDisconnect` and `TaskLeaves` for the end. `bg` is the thread of the
runtime, from `spawned` (it does not yet wait for the notifier) on; `Driven`
says whether anything runs the tasks of the network. `caller` is where
`Asb::new` is called: a thread, a task of a runtime of several threads, or of
one. Each writer is created once and writes once: `NewWriter`, `Serialize`,
`CheckFuse` and what its kind of network does. `DropBegins` ... `DropNotifies`
is the drop of `AsbNetMode`, which may itself happen in a task. `NewReader` is
the creation of readers of loopback and null networks.

**OmsService.** Time is counted from the start of `run_for`. `SendStatus`,
`Sleep`, `Wake`, `Finish` are its loop, `due` the end of the write or of the
sleep in progress; `Tick` lets time pass. A write takes 0..`MaxSend`, a thread
that sleeps wakes up to `MaxLate` late. `OnMsg` and `Reply` are the listener of
the requests, which the background thread of its reader calls one by one.

## 3. Runs

Passing runs:

| Run | Instance | What it shows |
|---|---|---|
| `reader` | 1 client, 2 listeners, 2 threads, ring of 2, 3 messages, expiration | `RingKeepsNewest`, `ModeTracksListeners`, `NoDeafReader`, `RemovedIsSilent`; threads stop when the mode is left and when the reader is dropped (`ThreadsStop`); in callback mode the ring is emptied (`CallbackDrains`) |
| `mqtt` | 2 topics, 3 readers, no overlap, the link fails at any point | `Prepared`, `CountMatches`, `NothingLeft`, `NoGhostSender`, `NoPanicWhileUp`; the end of the network reaches all (`StopReachesAll`), calls return although they wait for an event loop that may have ended, or panic where the network has ended under them (`CallsReturn`), the broker catches up and readers are served (`BrokerFollows`); `ImplementsService` |
| `amqp` | 2 topics, 3 readers, no overlap, with and without an exchange, abandoned creations | `Ready`, `NoDuplicates`, `NothingLeft`, `ChannelSurvives`, `CloseReachesAll`, `ImplementsService` |
| `distribute` | 1 or 2 workers, 3 readers, 3 messages, times 0..3, filter none or 2 | `Spaced` for any number of workers; with one worker `FilterExact` and `InOrder`; `EveryReader` while the vector changes |
| `types` | 3 readers, 1 writer, 3 topics of which 2 share a bus topic, 3 types, one creation at a time on a bus topic, drops and the end of the network at any point | `CounterExact`, also while creations fail, panic or are given up; `ReadersMatchRingmaster` while the network is up |
| `status` | 2 callbacks, 2 listeners | `NeverMissed`, `EventuallyTold` |
| `asb` | 2 writers, 2 topics, some 140 configurations, 3 callers | `EventLoopNeverPanics`: no ConnAck is reported to a `new_mqtt` that has returned; `FailedRefusesWrites`; `MostSpecificWins`: writers have the settings that the documentation of the configuration promises; `CallsReturn`: creation, drop and writes; `NothingRuns`: no thread, task or connection is left |
| `oms` | interval 2, run time 5, writes of 0..2, wake-ups late by 0..1, 2 requests of 10 kinds | `ReportsPaced`, `EndsInTime`, `AnswersMatchContract` for requests that give both lists or none |

Runs that find the code in disagreement with its documentation:

| Run | Violated | How |
|---|---|---|
| `mqtt_panic` | `NoPanicWhileUp` | the last reader of the topic goes between a creation's look-up and its `add_reader(..).unwrap()` |
| `amqp_channel` | `ChannelSurvives` | without an exchange: create declares the queue, the drop of the last reader cancels its consumer and so deletes the queue, create consumes it: the broker closes the channel of every reader and writer |
| `types_cast` | `CastSafe` | two client topics of different types are mapped to one bus topic; the downcast panics |
| `oms_request` | `AnswersMatchContract` | `does_status_request_apply` asks twice whether the list of systems is empty: a request that omits only the services is ignored |

**Bounds.** Three readers are one to serve, one that creates and one that
drops or is cloned; the hazards in the table all need two, and the third keeps
the topic or the other topic in use. Two listeners and two background threads
are enough for any pair of racing calls (a third thread would need a third
racing call; `AddSpawn` waits for a free one). A ring of two with three messages overwrites, and
leaves more than one message for order to matter. Three messages over times
0..3 with a filter of 2 give one message dropped, two taken, and a worker that
is late by the filter. The counters are u16 arithmetic (`CounterMod` = 65536),
whose wrap-around at zero is part of the model and whose wrap-around at 65536
would need as many readers.

The configurations of `asb` are one for each way a network starts, one for each
parameter that is refused or misread, and all combinations of the settings of
service and topic (present, absent, unknown) over a null network. A `MaxU64` of
30000 stands for 2^64 - 1, so that nine hours overflow while all other values
stay far below. Two writers are one before and one after whatever happens to
the network. In `oms` a write may take as long as the interval, and a run time
that is no multiple of the interval makes the last sleep shorter than it.

**The assumption `MayOverlap`.** In `MqttReaders` and `AmqpReaders` the
operations of different readers interleave freely except that, unless
`MayOverlap` says so, on one bus topic a creation does not overlap another
creation ("create") or a drop ("drop"). The passing runs take
`MayOverlap = {}`: what a client that serialises these calls on each topic can
rely on. The violation runs, and any of the following with the configuration
changed by hand, show why it is needed: `{"create"}` violates `Prepared` for MQTT
(the second ringmaster overwrites the first, whose reader is deaf) and
`NoDuplicates` for AMQP (two queues bound); `{"drop"}` violates `NoPanicWhileUp`
for MQTT and `NoPanic` for AMQP, and for MQTT `Prepared` (the unsubscription of
the old reader follows the subscription of the new one). In `TopicTypes`, where
drops overlap with everything, `MayOverlap` is only about creations on one bus
topic: with `TRUE`, `ReadersMatchRingmaster` is violated (two creations of
different types both find no ringmaster). The code has no lock that would exclude
these overlaps. What a client cannot serialise is never excluded: failures of
the link, closes by the broker, abandoned creations.

**Fairness.** Only what the code's scheduling gives: operating-system threads
that are runnable run (background threads, calls that have begun, spawned
threads of status listeners), the event loop gets to the statement after
`shutdown`, and the broker processes what it has been sent. In `AsbLifecycle`
the threads that have been spawned run, the calls of the client go on once
begun, and an event loop that somebody drives gets an answer of the broker, an
error or a time-out while it waits for one (rumqttc has time-outs of its own);
it may poll for ever once it is connected. All of it is weak
fairness of steps that stay enabled until taken. Clients need not call anything;
messages need not
arrive; the link need not fail. `AmqpReaders`, `RingMaster`, `TopicTypes` and
`OmsService` state no liveness and no fairness.

**Deadlock** checking is off in all configurations: each of these systems may
stop, when all readers have come and gone and the network has ended, or when
the `Asb` or the service is gone.

**Symmetry** is used for interchangeable model values in runs without liveness
properties only.

## 4. Proofs

All theorems hold for every value of the constants that satisfies the named
assumptions of the module (a ring of at least one slot, finitely many readers
and fewer than 2^16, finite sets of workers, ...). TLC evaluates these
assumptions on every run.

| Theorem | Statement | Argument |
|---|---|---|
| `AsbReaderProofs!RingCorrect` | `Spec => [](TypeOK /\ RingKeepsNewest)` | the conjunction is inductive; lemmas on `Append` and `Tail` show that pushes, overwrites and receives keep a gap-free run that ends with the newest message |
| `AsbReaderProofs!TypeCorrect` | `Spec => []TypeOK` | part of `RingCorrect` |
| `AsbReaderProofs!ModeCorrect` | `Spec => []ModeTracksListeners` | strengthened to `ModeInv`: the mode implies a listener, and a listener whose `add_listener` has returned, or will not spawn, implies the mode |
| `AsbReaderProofs!NeverDeaf` | `Spec => []NoDeafReader` | inductive with the types: a thread stops only after it has seen the mode cleared or the sender gone |
| `AsbReaderProofs!RemovalSilences` | `Spec => []RemovedIsSilent` | strengthened by `CallsUnderMutex`: listeners are left to call only while the mutex is held |
| `MqttReadersProofs!TypeCorrect` | `Spec => []TypeOK` | case by action; u16 arithmetic stays in range |
| `MqttReadersProofs!NoGhosts` | `Spec => []NoGhostSender` | strengthened to `SendersInv`: a ringmaster only sends to live readers whose ringmaster it is; holds whatever `MayOverlap` is |
| `MqttReadersProofs!UnwrapSafe` | `Spec => []NoPanicWhileUp`, if `MayOverlap` does not have "drop" | strengthened by `DropsExcluded` (what the guards of the two calls keep) and, while the link is up, `EntryToAdd`: there is an entry for who is about to add itself to it |
| `MqttReadersProofs!PreparedWhenCreated`, `CountsAreExact`, `NothingStays` | `Spec => []Prepared`, `[]CountMatches`, `[]NothingLeft`, if `NoOverlap` | `TableInv`, see below |
| `MqttReadersProofs!BrokerGetsThere` | `Spec => []BrokerExact`, if `NoOverlap` | the safety part of `BrokerFollows`: a broker that has caught up has subscribed what `SubscribedExact` says |
| `MqttReadersProofs!StopReachesEveryone` | `Spec => StopReachesAll`, if `NoOverlap` | `TableInv`: the sender of a live reader is in the ringmaster of its topic's entry, and each entry is shut down |
| `MqttReadersProofs!ServesReaders` | `Spec => ImplementsService`, if `NoOverlap` | refinement, see below |
| `AmqpReadersProofs!TypeCorrect` | `Spec => []TypeOK` | with: a consumer has a queue that has been made, and who binds has declared |
| `AmqpReadersProofs!UnwrapSafe`, `SharedChannelSurvives` | `Spec => []NoPanic` (the `unwrap` of `add_reader`), `Spec => []ChannelSurvives`, if `MayOverlap` does not have "drop" | `SharedInv`: who is about to add itself has an entry, who is about to consume has a queue that nobody else deletes. Creations may overlap and be abandoned |
| `AmqpReadersProofs!ReadyWhenCreated`, `NothingStays` | `Spec => []Ready`, `[]NothingLeft`, if `NoOverlap` | `Inv`, see below |
| `AmqpReadersProofs!MessagesOnce` | `Spec => []NoDuplicates`, if `NoOverlap` | `Inv` makes the consumers of a topic without abandoned creations those of one ringmaster, which has one: lemma `OneConsumer`, then a count of copies with and without an exchange |
| `AmqpReadersProofs!CloseReachesEveryone` | `Spec => CloseReachesAll`, if `NoOverlap` | as for MQTT |
| `AmqpReadersProofs!ServesReaders` | `Spec => ImplementsService`, if `NoOverlap` | refinement, see below |
| `RingMasterProofs!FilterSpacesMessages` | `Spec => []Spaced` | strengthened by: what has been taken is no later than `last_received`, and what is sent has been taken. The first needs the saturation of `duration_since`; without it (mutant `IsFilteredBothWays`) a worker late at the mutex turns `last_received` back |
| `RingMasterProofs!FilterDropsNoMore` | `Spec => []FilterExact` | strengthened to `OrderInv`: `last_received` is the time of a message that was taken, and with one worker the message at the filter is newer and no earlier than all that were |
| `RingMasterProofs!OneWorkerKeepsOrder` | `Spec => []InOrder` | same invariant: with one worker the message being sent is newer than what is in every ring whose sender is still to come; needs that senders are distinct, also after `swap_remove`, and that they do not change while the read lock is held |
| `RingMasterProofs!EveryReaderOnce` | `Spec => EveryReader` | `SentInv`: the messages that workers send are distinct, and one has reached exactly the senders before its place in the vector, each once. The vector stands still while a worker is at it; a distribution that begins finds its message in no ring. Holds for any number of workers |
| `TopicTypesProofs!TypeCorrect`, `CountersExact` | `Spec => []TypeOK`, `[]CounterExact` | one inductive invariant, `Inv`: the two and `UseInv`, that a user has a topic and a type while it exists. Lemmas count the holders when one comes or goes. Holds whatever overlaps |
| `TopicTypesProofs!NobodyMiscast` | `Spec => []ReadersMatchRingmaster`, if `MayOverlap` is `FALSE` | strengthened to `TableInv`: `Fresh` (who has not been counted has an `AsbReaderNet` of its own), `OneCreation`, and while the network is up `Pending` (a creation that found no entry still finds none; one that found an entry, or made one, finds none or one of its type) and `Matches` for each bus topic. The count is below 2^16, so that it does not wrap; an entry goes when it says 1, which is when no registered reader is left |
| `StatusManagerProofs!TypeCorrect`, `NobodyMisses` | `Spec => []TypeOK`, `[]NeverMissed` | `NeverMissed` is inductive with the types: a listener that registers is told what is stored, and one that is registered when a status is stored is told by the call that stored it |
| `AsbLifecycleProofs!TypeCorrect` | `Spec => []TypeOK` | case by action |
| `AsbLifecycleProofs!ConnAckIsAwaited` | `Spec => []EventLoopNeverPanics` | strengthened to `Awaited`: while the task may get a ConnAck, or announces one, `new_mqtt` is in `recv`; after an error the loop breaks, so there is no second ConnAck |
| `AsbLifecycleProofs!WritesRefused` | `Spec => FailedRefusesWrites` | strengthened to `FailedInv`: the status is Failed on MQTT only after the fuse is set, which writes check and nothing resets, and on AMQP only when the connection is lost, over which nothing is published |
| `AsbLifecycleProofs!NotifyHeard` | `Spec => []NotifyIsHeard` | `notify_waiters` never comes before the thread it is meant for waits. An event loop has connected or failed, and an AMQP connection is closed, only if somebody runs them, which with a runtime of its own is the thread that is to be notified (`StartInv`, `ThreadInv`) |
| `AsbLifecycleProofs!CallsServed` | `Spec => []NobodyWaitsInVain` | the safety part of `CallsReturn`, from the same invariants: who waits for the event loop, or for AMQP to close, does so while that is run, is about to be, or has ended. The exception is `Stuck`, as in `CallsReturn` |
| `AsbLifecycleProofs!NothingOutlives` | `Spec => []ThreadLeaves` | the safety part of `NothingRuns`: after the drop or a failed creation the thread has been woken, and where it has returned no task and no connection is left |
| `AsbLifecycleProofs!DurationRoundTrip` | `DurationOf(TextOf(d))` is `d` cut to whole milliseconds | arithmetic, for every duration whose milliseconds are a u64 |
| `AsbLifecycleProofs!Precedence` | `Spec => []MostSpecificWins` | `get_bus_config` is compared with the list of settings in order of precedence, one lemma per setting; strengthened by: the configuration is a loaded file that has the service |
| `OmsServiceProofs!TypeCorrect` | `Spec => []TypeOK` | case by action |
| `OmsServiceProofs!AnswersRight` | `Spec => []AnswersMatchContract` | under the hypothesis that each request gives both lists or none, which `oms_request` shows to be needed |
| `OmsServiceProofs!Ends`, `Paced` | `Spec => []EndsInTime`, `Spec => ReportsPaced` | strengthened to `PaceInv`: the time of the last report bounds the local `run_time`, and the sleep is the lesser of the interval and what is left |

**The tables of readers.** `NoOverlap` says that `MayOverlap` has neither
"create" nor "drop"; failures of the link may come at any point. It is the
hypothesis under which the passing runs check the same properties, and each part of
it is needed (section 3). None of `Prepared`, `Ready`, `CountMatches`,
`NothingLeft` is inductive: a reader that is halfway through its creation or drop has done half
of what they speak of. The invariant therefore says for each place of a reader
what has been done by then. `TableInv` of MQTT has

- `DropsExcluded`, `CreationsExcluded`: what the guards that `MayOverlap`
  controls keep up;
- `Fresh`: what has not been created has no part in anything;
- while the link is up `EntryOwned`: whoever uses a topic, from its look-up or
  insertion to its drop, finds its own ringmaster in the entry; `EntryUsed`: an
  entry has a user; `EntryNew`: a creation that found no entry still finds none
  when it inserts its own; `EntryLeft`: nor is there one again before its last
  reader has unsubscribed; `EntryMade`: its ringmaster was made for this topic;
- `Attached`: who sends to whom; `CountExact`: the u16 counts the
  `AsbReaderNet`s, which excludes that it wraps around;
- `SubscribedExact`: a topic is, or will be, subscribed exactly while it has an
  entry or someone is about to insert one or has just removed it. What decides
  is the last request on its way to the broker; lemmas on `Subscribed` say
  what a request and its processing do to that.

AMQP splits it. `SharedInv` does without the exclusion of other creations:
types, `DropsExcluded`, `EntryMade` and `EntryToAdd`, and `QueueReady`, that who
is about to bind or consume has its queue. `OwnInv` adds `ConsumersNone`, the
entries as above, and while the channel is open `ConsumerThere`,
`ConsumersOwned`, `QueuesOwned`: a consumer and a queue belong to the
ringmaster in the entry, to a creation or drop in progress, or to one that has
been abandoned.

**Refinement.** `running` is the link (the channel) and `served` the readers
that ringmaster, table and broker serve. For AMQP, which awaits the answer of
the broker, `LiveServed` says that the readers in use are served and none that
has begun its drop is, and the last step of a creation and a clone map to
`Join` of one reader. For MQTT `SettledAreServed` says so of the topics that are
settled at the broker only. Two kinds of steps map to `Join`: the `BrokerStep`
that processes the last request for a topic, a subscription, joins all the
readers in use there; the end of a creation and a clone join their reader where
the topic is settled already, and are stutters elsewhere. In both the removal of
a sender maps to `Leave` (or a stutter of a reader not yet served), whatever ends
the network to `Stop`, with all readers at once, and every other step to a
stutter: also those of others on the same topic, which is where the invariant is
needed.

**Only model-checked** are the liveness properties `ThreadsStop`, `CallbackDrains`,
`CallsReturn`, `BrokerFollows`, `EventuallyTold` and `NothingRuns`: liveness
under fairness is out of the prover's reach. The safety they rest on is proved
where it can be said as an invariant: `NeverDeaf` for `CallbackDrains`,
`NobodyMisses` for `EventuallyTold`, `CallsServed` and `NothingOutlives` for
`CallsReturn` and `NothingRuns` of `AsbLifecycle`, `BrokerGetsThere` for
`BrokerFollows`. All other properties of
the passing runs are theorems.

## 5. Limits

### Claims that the code does not keep

Four of them are runs (section 3). The following are definitions of the modules
that the run with the name added as INVARIANT violates:

| Definition | Claimed | Why it fails |
|---|---|---|
| `ListenersShareThread` (`AsbReader`, run `reader`) | `networks.rs:922`: listeners share one thread | two calls of `add_listener` both see the flag cleared, or a listener comes back before the old thread has noticed that it should stop |
| `FailedReadsError` (`MqttReaders`, run `mqtt`) | `networks/utils.rs:54`: reads return an error once the status is Failed | a clone made after the failure has a sender again (the ringmaster's shutdown fuse is never read), so its reads wait |
| `NoPanic` (`MqttReaders`, run `mqtt`) | `networks.rs:605`: the entry that `add_reader` unwraps is there | besides the drop of run `mqtt_panic`: the link fails after the look-up or the insertion of a creation, `shutdown` empties the table and the creation panics, even when it is the only call |
| `Ready` (`MqttReaders`, run `mqtt`) | `README.md`, CAL-005394: readers are ready when created | the creation returns before the broker has the subscription, which `networks.rs:586` leaves to do; what is published before is missed |
| `FailedIsFinal` (`StatusManager`, run `status`) | `networks/utils.rs:52`: Failed is final | the channel's callback stores `Inoperable` over the connection's `Failed` |

One more is in `AsbLifecycle` without a definition of its own. The comment at
`networks.rs:287` says of `connect` that it "will return an error if it would be
in any other state upon completion" than Normal. But `connect` may return `Ok` for
an MQTT network whose status is already Failed: from `Announce`, which hands
the ConnAck to `new_mqtt`, the steps `TaskFails`, `TaskRefuses`, `TaskShutdown`
and `TaskReports` need no step of the client, which has only to return. (The
model has the client at `up` from `Announce` on; the return is no step.)

Met while modelling, and part of the models without a property, since nothing
is documented to the contrary:

- A port is cast from `i64` to `u16` (`networks/mqtt.rs:42`,
  `networks/amqp.rs:42`): `AsU16`.
- A duration of too many hours or minutes panics instead of failing to parse
  (`config.rs:226`): `Panic` in `DurationOfUnit`, `pc` becomes `overflowed`.
- A duration is written in whole milliseconds, so that microseconds do not
  survive a round trip: `TextOf`.
- The creation of a loopback reader always panics (`networks.rs:634`): nothing
  inserts the entry it adds itself to.
- In a task, `Asb::new` of AMQP panics, and so do `write` and drops of AMQP and
  MQTT networks and their last readers; what the drop had to do is then not
  done (`pc = "panicked"`).
- In a task of a current-thread runtime `Asb::new` of MQTT waits for ever for an
  event loop that nobody runs (`Stuck`, which `CallsReturn` names as its only
  exception).

### What the models leave out

- A creation of an MQTT reader that is abandoned at its `subscribe` leaves no
  trace in the table and is in `TopicTypes` (`CreateFails`) only; a subscription
  that it may have requested stays at the broker until the topic's next drop.
- A listener's `on_msg` is assumed to return and not to call its own reader
  (it runs with the mutex held and would deadlock).
- Wording, encoding and the options of client libraries are left out; a message
  is a number, decoding and encoding succeed or fail. Identifiers (UUIDs) and
  errors are left out: a call fails or it does not.
- Client libraries, brokers, the parser of TOML and the ring channel are
  modelled from their use here and marked external in the map.
- Atomics are sequentially consistent in the models; the code's orderings are
  acquire/release on single flags and counters that are otherwise protected
  by locks, except `PossessCtr`, whose clone is relaxed.
- AMQP acknowledgements, and the delivery between broker and table.
- A connection that an AMQP broker closes after the last answer of the set-up
  is seen by the tasks of the runtime, which run from the background thread on.
- The runtime of a client whose task calls `Asb::new` outlives the connection.
- In `OmsService` the ranges of intervals in the contract are not checked, as the
  code does not; the service and its listener hold each other (a cycle of
  `Arc`), so that the service is never dropped before the process ends.
- The other examples and benchmarks publish in a loop and print times.

## 6. Plan

1. *AMQP delivery*: acknowledgement before distribution, the consumer task
   between the broker and the table, its order when a topic's consumer changes.
2. *Composition* of one reader's ring with the table, so that the closing of a
   ring is the removal of its sender; of the drop of an `Asb` in `AsbLifecycle`
   with the readers it shuts down.
3. *Proofs*: the safety that the liveness of `MqttReaders` rests on (who waits
   for an event loop that has failed), and that a stopping
   thread of `AsbReader` has nothing left to wait for; that the settings of
   writers load as their file gives them.
