---------------------------- MODULE AsbLifecycle ----------------------------
(***************************************************************************)
(* An Asb from the loading of its configuration to its drop: the choice of *)
(* the network, the start of the network with its runtime, its background  *)
(* thread and, for MQTT, its event-loop task; the writers that publish on  *)
(* it, before, during and after the drop; and the end of all that runs.    *)
(***************************************************************************)
EXTENDS Config, Sequences

CONSTANTS Files,    \* the configuration files that there may be
          Service,  \* the name the client gives to Asb::new
          Topics,   \* the topics of its writers
          Writers

ASSUME NoneAssumption == None \notin {"Normal", "Failed", DefaultQos}

\* The maps of a file hold settings, not options of settings.
ASSUME FilesAssumption ==
  \A f \in Files :
    /\ f = [services |-> f.services, networks |-> f.networks, qos |-> f.qos]
    /\ \A name \in DOMAIN f.qos : QosOf(f.qos[name]) # None
    /\ \A svc \in DOMAIN f.services.service :
         \A t \in DOMAIN f.services.service[svc].topics :
           f.services.service[svc].topics[t] # None

\* Where the client calls Asb::new: a plain thread, or a task of a tokio
\* runtime of several threads or of one.
Callers == {"thread", "multi", "current"}

VARIABLES file,     \* the configuration file
          caller,   \* where Asb::new is called
          config,   \* the loaded configuration
          net,      \* its network: the NetworkConfig
          pc,       \* the client that creates and drops the Asb
          status,   \* the status of the connection
          task,     \* MQTT: the event-loop task
          bg,       \* the thread that runs the network's own runtime
          link,     \* the connection to the broker
          fuse,     \* shutdown_fuse
          w,        \* for each writer, where it is in its only write
          topic,    \* the topic of each writer
          bus,      \* the BusConfig of each writer
          reader    \* the attempt to create a reader

conf == <<file, caller, config, net>>
run == <<status, task, bg, link, fuse>>
wrt == <<w, topic, bus>>
vars == <<conf, pc, run, wrt, reader>>

-----------------------------------------------------------------------------
Init ==
  /\ file \in Files
  /\ caller \in Callers
  /\ config = None /\ net = None
  /\ pc = "load"
  /\ status = None
  /\ task = "none" /\ bg = "none" /\ link = "none"
  /\ fuse = FALSE
  /\ w = [x \in Writers |-> "none"]
  /\ topic = [x \in Writers |-> None]
  /\ bus = [x \in Writers |-> None]
  /\ reader = "none"

Goto(l) == pc' = l

\* AsbConfig::from_str.
Load ==
  /\ pc = "load"
  /\ \E r \in Loaded(file) :
       \/ r = Panic /\ Goto("overflowed") /\ config' = None
       \/ r = Err /\ Goto("error") /\ config' = None
       \/ r \notin {Panic, Err} /\ Goto("new") /\ config' = r
  /\ UNCHANGED <<file, caller, net, run, wrt, reader>>

\* Asb::new and connect, as far as the kind of network.
New ==
  /\ pc = "new"
  /\ LET n == NetworkOf(config, Service)
     IN  \/ /\ n = Err
            /\ Goto("error")
            /\ UNCHANGED <<net, status>>
         \/ /\ n # Err
            /\ net' = n
            /\ status' = "Normal"
            /\ Goto(IF n.kind \in {"amqp", "mqtt"} THEN n.kind ELSE "up")
  /\ UNCHANGED <<file, caller, config, task, bg, link, fuse, wrt, reader>>

\* Only tasks call from within a runtime.
InTask == caller # "thread"

\* An MQTT network that is created in a task runs on the runtime of the task.
Own == net.kind = "amqp" \/ ~InTask

-----------------------------------------------------------------------------
(* AMQP: all requests are made before the background thread is spawned.     *)

AmqpConfigOK == Err \notin {ExchangeOf(net), DurableOf(net)} /\ OpenArgs(net) # Err

\* block_on panics in a task, before anything is looked at.
AmqpPrepare ==
  /\ pc = "amqp"
  /\ Goto(IF InTask THEN "panicked" ELSE IF AmqpConfigOK THEN "open" ELSE "error")
  /\ UNCHANGED <<conf, run, wrt, reader>>

AmqpOpening == {"open", "channel", "flow", "declare"}

AfterRequest ==
  CASE pc = "open" -> "channel"
    [] pc = "channel" -> "flow"
    [] pc = "flow" -> IF ExchangeOf(net) = None THEN "spawn" ELSE "declare"
    [] pc = "declare" -> "spawn"

AmqpRequest ==
  /\ pc \in AmqpOpening
  /\ link # "lost"
  /\ link' = "up"
  /\ Goto(AfterRequest)
  /\ UNCHANGED <<conf, status, task, bg, fuse, wrt, reader>>

\* One of the requests fails: the runtime, and the connection, are dropped.
AmqpRefused ==
  /\ pc \in AmqpOpening
  /\ link' = "closed"
  /\ Goto("error")
  /\ UNCHANGED <<conf, status, task, bg, fuse, wrt, reader>>

AmqpSpawn ==
  /\ pc = "spawn"
  /\ bg' = "spawned"
  /\ Goto("up")
  /\ UNCHANGED <<conf, status, task, link, fuse, wrt, reader>>

\* The server closes the connection, which is noticed by whoever runs the
\* runtime: ConnCb::close.
AmqpLost ==
  /\ net # None /\ net.kind = "amqp"
  /\ link = "up"
  /\ bg = "waiting" \/ pc \in AmqpOpening
  /\ link' = "lost"
  /\ status' = "Failed"
  /\ UNCHANGED <<conf, pc, task, bg, fuse, wrt, reader>>

-----------------------------------------------------------------------------
(* MQTT: the event loop is spawned first, then waited for.                  *)

NotSpawned == "none"

\* A runtime of its own gets a thread that runs it.
BgAtStart == IF Own THEN "spawned" ELSE "none"

MqttPrepare ==
  /\ pc = "mqtt"
  /\ \/ /\ MqttOpts(net) = Err
        /\ Goto("error")
        /\ UNCHANGED <<task, bg>>
     \/ /\ MqttOpts(net) # Err
        /\ task' = "connecting"
        /\ bg' = BgAtStart
        /\ Goto("recv")
  /\ UNCHANGED <<conf, status, link, fuse, wrt, reader>>

\* The background thread gets to call notified() and runs the runtime.
BgWait ==
  /\ bg = "spawned"
  /\ bg' = "waiting"
  /\ UNCHANGED <<conf, pc, status, task, link, fuse, wrt, reader>>

\* Somebody runs the tasks and the input and output of the network's runtime.
\* The only thread of a current-thread runtime is the one in recv().
Driven == IF Own THEN bg \in {"waiting", "notified"} ELSE caller = "multi"

\* poll returned ConnAck, ...
TaskConnects ==
  /\ task = "connecting"
  /\ Driven
  /\ link' = "up"
  /\ task' = "announcing"
  /\ UNCHANGED <<conf, pc, status, bg, fuse, wrt, reader>>

AfterAnnounce == IF pc = "recv" THEN "polling" ELSE "panicked"

\* ... which is handed to new_mqtt: send(None).unwrap() waits for it, and
\* panics when new_mqtt has returned.
Announce ==
  /\ task = "announcing"
  /\ task' = AfterAnnounce
  /\ pc' = IF pc = "recv" THEN "up" ELSE pc
  /\ UNCHANGED <<conf, status, bg, link, fuse, wrt, reader>>

\* poll returned an error: the broker refuses, does not answer in time, or
\* the connection is lost.
TaskFails ==
  /\ task \in {"connecting", "polling", "leaving"}
  /\ Driven
  /\ link' = IF link = "up" THEN "lost" ELSE link
  /\ task' = "refusing"
  /\ UNCHANGED <<conf, pc, status, bg, fuse, wrt, reader>>

\* The error goes to new_mqtt if that still waits.
TaskRefuses ==
  /\ task = "refusing"
  /\ task' = "failing"
  /\ pc' = IF pc = "recv" THEN "refused" ELSE pc
  /\ UNCHANGED <<conf, status, bg, link, fuse, wrt, reader>>

TaskShutdown ==
  /\ task = "failing"
  /\ fuse' = TRUE
  /\ task' = "reporting"
  /\ UNCHANGED <<conf, pc, status, bg, link, wrt, reader>>

KeepsPolling == "connecting"

\* The loop breaks: there is no reconnection.
AfterFailure == "ended"

TaskReports ==
  /\ task = "reporting"
  /\ status' = "Failed"
  /\ task' = AfterFailure
  /\ UNCHANGED <<conf, pc, bg, link, fuse, wrt, reader>>

\* notify_waiters leaves nothing behind for those who do not wait yet.
Notified == IF bg = "waiting" THEN "notified" ELSE bg

MqttRefused ==
  /\ pc = "refused"
  /\ bg' = Notified
  /\ Goto("error")
  /\ UNCHANGED <<conf, status, task, link, fuse, wrt, reader>>

\* poll returned the disconnect that was requested: the loop ends.
TaskLeaves ==
  /\ task = "leaving"
  /\ Driven
  /\ task' = "ended"
  /\ link' = "closed"
  /\ UNCHANGED <<conf, pc, status, bg, fuse, wrt, reader>>

\* The background thread returns between two steps of the task and drops the
\* runtime, the task with it.
BgEnds ==
  /\ bg = "notified"
  /\ task \notin {"announcing", "refusing", "failing", "reporting"}
  /\ bg' = "ended"
  /\ task' = IF task = "none" THEN "none" ELSE "ended"
  /\ link' = IF link = "up" THEN "closed" ELSE link
  /\ UNCHANGED <<conf, pc, status, fuse, wrt, reader>>

-----------------------------------------------------------------------------
(* Writers, and the attempt to create a reader.                             *)

\* get_topic_ctr admits the writers here: their topics have one type.
NewWriter(x, t) ==
  /\ pc = "up"
  /\ w[x] = "none"
  /\ topic' = [topic EXCEPT ![x] = t]
  /\ bus' = [bus EXCEPT ![x] = BusConfig(config, Service, t)]
  /\ w' = [w EXCEPT ![x] = IF bus'[x] = Err THEN "uncreated" ELSE "created"]
  /\ UNCHANGED <<conf, pc, run, reader>>

\* Topics with an entry in the table of a loopback network: it starts empty,
\* and nothing in the source inserts into it.
LoopbackReaders == {}

\* A loopback reader needs an entry to add itself to; a null reader is
\* created without a sender.  Those of AMQP and MQTT have their own modules.
NewReader(t) ==
  /\ pc = "up"
  /\ net.kind \in {"loopback", "null"}
  /\ reader = "none"
  /\ LET b == BusConfig(config, Service, t)
     IN  reader' = IF b = Err THEN "uncreated"
                   ELSE IF net.kind = "null" THEN "disconnected"
                   ELSE IF b.bus_topic \in LoopbackReaders THEN "open"
                   ELSE "panicked"
  /\ UNCHANGED <<conf, pc, run, wrt>>

WriterGoto(x, l) ==
  /\ w' = [w EXCEPT ![x] = l]
  /\ UNCHANGED <<topic, bus>>

\* write and write_async serialize first, which may fail.
Serialize(x) ==
  /\ w[x] = "created"
  /\ \E l \in {"serialized", "error"} : WriterGoto(x, l)
  /\ UNCHANGED <<conf, pc, run, reader>>

NotChecked == "checked"

CheckedFuse == IF fuse THEN "error" ELSE "checked"

\* publish and publish_async of MQTT, publish of loopback.
CheckFuse(x) ==
  /\ w[x] = "serialized"
  /\ net.kind \in {"mqtt", "loopback"}
  /\ WriterGoto(x, CheckedFuse)
  /\ UNCHANGED <<conf, pc, run, reader>>

\* Only write blocks, and blocking panics in a task; write_async does not.
BlockOn(x, l) == \E inTask, async \in BOOLEAN :
  WriterGoto(x, IF inTask /\ ~async THEN "panicked" ELSE l)

\* The request waits for the event loop, whose queue has no capacity.
MqttSend(x) ==
  /\ w[x] = "checked"
  /\ net.kind = "mqtt"
  /\ BlockOn(x, "waiting")
  /\ UNCHANGED <<conf, pc, run, reader>>

TaskTakes(x) ==
  /\ w[x] = "waiting"
  /\ task = "polling"
  /\ Driven
  /\ WriterGoto(x, "ok")
  /\ UNCHANGED <<conf, pc, run, reader>>

\* The event loop is gone and with it the receiver of requests.
SendFails(x) ==
  /\ w[x] = "waiting"
  /\ task \in {"ended", "panicked"}
  /\ WriterGoto(x, "error")
  /\ UNCHANGED <<conf, pc, run, reader>>

AmqpPublish(x) ==
  /\ w[x] = "serialized"
  /\ net.kind = "amqp"
  /\ BlockOn(x, IF link = "up" THEN "ok" ELSE "error")
  /\ UNCHANGED <<conf, pc, run, reader>>

\* handle_msg: there is no reader to distribute to.
LoopbackHandleMsg(x) ==
  /\ w[x] = "checked"
  /\ net.kind = "loopback"
  /\ WriterGoto(x, "ok")
  /\ UNCHANGED <<conf, pc, run, reader>>

NullWrite(x) ==
  /\ w[x] = "serialized"
  /\ net.kind = "null"
  /\ WriterGoto(x, "ok")
  /\ UNCHANGED <<conf, pc, run, reader>>

-----------------------------------------------------------------------------
(* Drop of AsbNetMode. *)

\* shutdown, which null does not have.
DropBegins ==
  /\ pc = "up"
  /\ fuse' = (fuse \/ net.kind # "null")
  /\ Goto(IF net.kind \in {"amqp", "mqtt"} THEN "shut" ELSE "dropped")
  /\ UNCHANGED <<conf, status, task, bg, link, wrt, reader>>

\* block_on, which panics where the drop happens in a task.
DropBlocks ==
  /\ pc = "shut"
  /\ \E inTask \in BOOLEAN :
       Goto(IF inTask THEN "panicked"
            ELSE IF net.kind = "amqp" THEN "closing" ELSE "disconnecting")
  /\ UNCHANGED <<conf, run, wrt, reader>>

NotAwaited == TRUE

CanClose == link # "up" \/ Driven

\* Channel and connection are closed by the runtime's tasks, which the
\* caller does not run; what is lost already fails at once.
AmqpCloses ==
  /\ pc = "closing"
  /\ CanClose
  /\ link' = IF link = "up" THEN "closed" ELSE link
  /\ Goto("notify")
  /\ UNCHANGED <<conf, status, task, bg, fuse, wrt, reader>>

\* The event loop takes the request to disconnect, ...
TaskTakesDisconnect ==
  /\ pc = "disconnecting"
  /\ task = "polling"
  /\ Driven
  /\ task' = "leaving"
  /\ Goto("notify")
  /\ UNCHANGED <<conf, status, bg, link, fuse, wrt, reader>>

\* ... or has ended.
DisconnectFails ==
  /\ pc = "disconnecting"
  /\ task \in {"ended", "panicked"}
  /\ Goto("notify")
  /\ UNCHANGED <<conf, run, wrt, reader>>

DropNotifies ==
  /\ pc = "notify"
  /\ bg' = Notified
  /\ Goto("dropped")
  /\ UNCHANGED <<conf, status, task, link, fuse, wrt, reader>>

-----------------------------------------------------------------------------
Starting ==
  \/ Load \/ New \/ AmqpPrepare \/ AmqpRequest \/ AmqpRefused \/ AmqpSpawn
  \/ MqttPrepare \/ MqttRefused

Dropping ==
  \/ DropBlocks \/ AmqpCloses \/ TaskTakesDisconnect \/ DisconnectFails
  \/ DropNotifies

\* What the event loop owes, and what the broker or its absence makes of it.
TaskRuns == TaskConnects \/ Announce \/ TaskRefuses \/ TaskShutdown
            \/ TaskReports \/ TaskLeaves

Writes(x) ==
  \/ CheckFuse(x) \/ MqttSend(x) \/ TaskTakes(x) \/ SendFails(x)
  \/ AmqpPublish(x) \/ LoopbackHandleMsg(x) \/ NullWrite(x)

Next ==
  \/ Starting \/ DropBegins \/ Dropping
  \/ AmqpLost \/ BgWait \/ BgEnds \/ TaskRuns \/ TaskFails
  \/ \E x \in Writers : Serialize(x) \/ Writes(x) \/ \E t \in Topics : NewWriter(x, t)
  \/ \E t \in Topics : NewReader(t)

Spec == Init /\ [][Next]_vars

\* Threads that have been spawned run, calls that have begun go on, and an
\* event loop that somebody runs gets an answer, an error or a time-out.
Fairness ==
  /\ WF_vars(Starting) /\ WF_vars(Dropping)
  /\ WF_vars(BgWait) /\ WF_vars(BgEnds)
  /\ WF_vars(TaskRuns \/ (task # "polling" /\ TaskFails))
  /\ \A x \in Writers : WF_vars(Writes(x))

FairSpec == Spec /\ Fairness

-----------------------------------------------------------------------------
(* Safety. *)

\* Types.
TypeOK ==
  /\ caller \in Callers
  /\ pc \in {"load", "new", "amqp", "spawn", "mqtt", "recv", "refused", "up", "shut",
             "closing", "disconnecting", "notify", "dropped", "error", "overflowed",
             "panicked"} \cup AmqpOpening
  /\ status \in {None, "Normal", "Failed"}
  /\ task \in {"none", "connecting", "announcing", "polling", "refusing", "failing",
               "reporting", "leaving", "ended", "panicked"}
  /\ bg \in {"none", "spawned", "waiting", "notified", "ended"}
  /\ link \in {"none", "up", "lost", "closed"}
  /\ fuse \in BOOLEAN
  /\ w \in [Writers -> {"none", "uncreated", "created", "serialized", "checked",
                        "waiting", "ok", "error", "panicked"}]
  /\ reader \in {"none", "uncreated", "disconnected", "open", "panicked"}

\* The event loop reports the ConnAck of a connection with unwrap: it must
\* never report one when new_mqtt has returned and dropped the receiver.
EventLoopNeverPanics == task # "panicked"

\* "Failed: ... Read and write methods will return [CalError]": once the
\* status is Failed no write gets past its check, or is sent.
FailedRefusesWrites ==
  [][status = "Failed" =>
       \A x \in Writers : w'[x] # w[x] =>
         ~(w[x] = "serialized" /\ w'[x] \in {"checked", "ok"})]_vars

\* The first setting that there is, or None.
FirstOf(options) ==
  LET there == {i \in DOMAIN options : options[i] # None}
  IN  IF there = {} THEN None
      ELSE options[CHOOSE i \in there : \A j \in there : i <= j]

\* The settings b are the most specific that c has for topic t, or an error
\* if one of these is missing.
AreMostSpecific(b, c, t) ==
  LET mine   == c.services.service[Service]
      own(f) == IF t \in DOMAIN mine.topics THEN mine.topics[t][f] ELSE None
      format == FirstOf(<<mine.wire_format, c.services.default_wire_format>>)
      name   == FirstOf(<<own("qos"), mine.qos, c.services.default_qos>>)
  IN  IF format = None \/ (name # None /\ name \notin DOMAIN c.qos)
      THEN b = Err
      ELSE /\ b.wire_format = format
           /\ b.bus_topic = FirstOf(<<own("bus_topic"), t>>)
           /\ b.qos = IF name = None THEN DefaultQos ELSE c.qos[name]

\* "Optional QoS, overrides services.*.qos and services.default_qos", and the
\* like for wire format and bus topic: a writer has the most specific of
\* the settings there are, and is not created if that one is missing.
MostSpecificWins ==
  \A x \in Writers : bus[x] # None => AreMostSpecific(bus[x], config, topic[x])

-----------------------------------------------------------------------------
(* Liveness. *)

Before == AmqpOpening \cup {"load", "new", "amqp", "spawn", "mqtt", "recv", "refused"}

\* A task of a current-thread runtime that creates an MQTT network waits for
\* an event loop that nobody runs.
Stuck == net # None /\ net.kind = "mqtt" /\ caller = "current"

\* Whatever the broker does and wherever the event loop ends, Asb::new
\* returns (unless it is stuck so), the drop of the Asb does, and every write.
CallsReturn ==
  /\ pc \in Before ~> pc \notin Before \/ Stuck
  /\ pc \in {"shut", "closing", "disconnecting", "notify"} ~> pc \in {"dropped", "panicked"}
  /\ \A x \in Writers :
       w[x] \in {"serialized", "checked", "waiting"} ~> w[x] \in {"ok", "error", "panicked"}

Quiet == bg \in {"none", "ended"} /\ task \in {"none", "ended"} /\ link # "up"

\* A failed Asb::new and a drop that returns leave no background thread, no
\* runtime of their own, no event loop and no connection behind.
NothingRuns == [](pc \in {"dropped", "error"} => <>[]Quiet)

=============================================================================
