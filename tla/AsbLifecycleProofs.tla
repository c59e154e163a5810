------------------------- MODULE AsbLifecycleProofs -------------------------
(***************************************************************************)
(* Proofs about AsbLifecycle, for all configurations, topics and writers.  *)
(***************************************************************************)
EXTENDS AsbLifecycle, TLAPS

USE DEF conf, run, wrt, Goto, WriterGoto

-----------------------------------------------------------------------------
(* Writers only change themselves. *)

\* A step of a write changes the place of the writer and nothing else.
LEMMA WriteStep ==
  ASSUME NEW x \in Writers, Serialize(x) \/ Writes(x)
  PROVE  /\ UNCHANGED <<conf, pc, run, topic, bus, reader>>
         /\ \E l \in {"serialized", "checked", "waiting", "ok", "error", "panicked"} :
              w' = [w EXCEPT ![x] = l]
  BY DEF Serialize, Writes, CheckFuse, CheckedFuse, MqttSend, TaskTakes, SendFails,
         AmqpPublish, LoopbackHandleMsg, NullWrite, BlockOn

-----------------------------------------------------------------------------
(* Types. *)

\* Every step keeps the types.
LEMMA TypeStep == TypeOK /\ [Next]_vars => TypeOK'
  <1> SUFFICES ASSUME TypeOK, [Next]_vars PROVE TypeOK'
    OBVIOUS
  <1>1. CASE Load \/ New
    BY <1>1 DEF TypeOK, Load, New
  <1>2. CASE AmqpPrepare \/ AmqpRequest \/ AmqpRefused \/ AmqpSpawn \/ AmqpLost
    BY <1>2 DEF TypeOK, AmqpPrepare, AmqpRequest, AmqpRefused, AmqpSpawn, AmqpLost,
                AmqpOpening, AfterRequest
  <1>3. CASE MqttPrepare \/ MqttRefused \/ BgWait \/ BgEnds
    BY <1>3 DEF TypeOK, MqttPrepare, BgAtStart, MqttRefused, BgWait, BgEnds, Notified
  <1>4. CASE TaskRuns \/ TaskFails
    BY <1>4 DEF TypeOK, TaskRuns, TaskFails, TaskConnects, Announce, AfterAnnounce,
                TaskRefuses, TaskShutdown, TaskReports, AfterFailure, TaskLeaves
  <1>5. CASE DropBegins
    <2>1. fuse' \in BOOLEAN
      BY <1>5 DEF DropBegins
    <2>2. QED
      BY <1>5, <2>1 DEF TypeOK, DropBegins
  <1>6. CASE Dropping
    BY <1>6 DEF TypeOK, Dropping, DropBlocks, AmqpCloses, TaskTakesDisconnect,
                DisconnectFails, DropNotifies, Notified
  <1>7. ASSUME NEW x \in Writers, Serialize(x) \/ Writes(x)
        PROVE  TypeOK'
    BY <1>7, WriteStep DEF TypeOK
  <1>8. ASSUME NEW x \in Writers, NEW t \in Topics, NewWriter(x, t)
        PROVE  TypeOK'
    BY <1>8 DEF TypeOK, NewWriter
  <1>9. ASSUME NEW t \in Topics, NewReader(t)
        PROVE  TypeOK'
    BY <1>9 DEF TypeOK, NewReader, LoopbackReaders
  <1>10. CASE UNCHANGED vars
    BY <1>10 DEF TypeOK, vars
  <1>11. QED
    BY <1>1, <1>2, <1>3, <1>4, <1>5, <1>6, <1>7, <1>8, <1>9, <1>10
       DEF Next, Starting

\* Type correctness, for every configuration and number of writers.
THEOREM TypeCorrect == Spec => []TypeOK
  <1>1. Init => TypeOK
    BY DEF Init, TypeOK
  <1>2. QED
    BY <1>1, TypeStep, PTL DEF Spec

-----------------------------------------------------------------------------
(* The event loop. *)

\* As long as the event loop may get a ConnAck, new_mqtt waits for it.
Awaited ==
  /\ EventLoopNeverPanics
  /\ task \in {"connecting", "announcing"} => pc = "recv"

\* Every step keeps it so.
LEMMA AwaitedStep == Awaited /\ [Next]_vars => Awaited'
  <1> SUFFICES ASSUME Awaited, [Next]_vars PROVE Awaited'
    OBVIOUS
  <1> USE DEF Awaited, EventLoopNeverPanics
  <1>1. CASE Load \/ New \/ DropBegins
    BY <1>1 DEF Load, New, DropBegins
  <1>2. CASE AmqpPrepare \/ AmqpRequest \/ AmqpRefused \/ AmqpSpawn \/ AmqpLost
    BY <1>2 DEF AmqpPrepare, AmqpRequest, AmqpRefused, AmqpSpawn, AmqpLost, AmqpOpening
  <1>3. CASE MqttPrepare \/ MqttRefused \/ BgWait \/ BgEnds
    BY <1>3 DEF MqttPrepare, MqttRefused, BgWait, BgEnds
  <1>4. CASE TaskRuns \/ TaskFails
    BY <1>4 DEF TaskRuns, TaskFails, TaskConnects, Announce, AfterAnnounce,
                TaskRefuses, TaskShutdown, TaskReports, AfterFailure, TaskLeaves
  <1>5. CASE Dropping
    BY <1>5 DEF Dropping, DropBlocks, AmqpCloses, TaskTakesDisconnect,
                DisconnectFails, DropNotifies
  <1>6. ASSUME NEW x \in Writers, Serialize(x) \/ Writes(x)
        PROVE  Awaited'
    BY <1>6, WriteStep
  <1>7. ASSUME NEW t \in Topics, NewReader(t) \/ \E x \in Writers : NewWriter(x, t)
        PROVE  Awaited'
    BY <1>7 DEF NewReader, NewWriter
  <1>8. CASE UNCHANGED vars
    BY <1>8 DEF vars
  <1>9. QED
    BY <1>1, <1>2, <1>3, <1>4, <1>5, <1>6, <1>7, <1>8 DEF Next, Starting

\* The unwrap of init_send.send(None) never panics, whatever the broker does.
THEOREM ConnAckIsAwaited == Spec => []EventLoopNeverPanics
  <1>1. Init => Awaited
    BY DEF Init, Awaited, EventLoopNeverPanics
  <1>2. Awaited => EventLoopNeverPanics
    BY DEF Awaited
  <1>3. QED
    BY <1>1, <1>2, AwaitedStep, PTL DEF Spec

-----------------------------------------------------------------------------
(* A failed connection. *)

Early == AmqpOpening \cup {"load", "new", "amqp", "spawn", "mqtt"}

\* What holds before anything runs, who runs an event loop, and what has been
\* done by the time the status is Failed.
FailedInv ==
  /\ fuse \in BOOLEAN
  /\ pc \in Early => task = "none" /\ bg = "none" /\ link # "closed"
  /\ pc = "mqtt" => net.kind = "mqtt"
  /\ task # "none" => net.kind = "mqtt"
  /\ task = "reporting" => fuse
  /\ status = "Failed" => \/ net.kind = "mqtt" /\ fuse
                          \/ net.kind = "amqp" /\ link \in {"lost", "closed"}

\* Every step keeps FailedInv.
LEMMA FailedInvStep == FailedInv /\ [Next]_vars => FailedInv'
  <1> SUFFICES ASSUME FailedInv, [Next]_vars PROVE FailedInv'
    OBVIOUS
  <1> USE DEF FailedInv, Early, AmqpOpening
  <1>1. CASE Load \/ New
    BY <1>1 DEF Load, New
  <1>2. CASE AmqpPrepare \/ AmqpRefused \/ AmqpSpawn \/ AmqpLost
    BY <1>2 DEF AmqpPrepare, AmqpRefused, AmqpSpawn, AmqpLost
  <1>3. CASE AmqpRequest
    <2>1. AfterRequest \in {"channel", "flow", "declare", "spawn"}
      BY <1>3 DEF AmqpRequest, AfterRequest
    <2>2. QED
      BY <1>3, <2>1 DEF AmqpRequest
  <1>4. CASE MqttPrepare \/ MqttRefused \/ BgWait \/ BgEnds
    BY <1>4 DEF MqttPrepare, MqttRefused, BgWait, BgEnds
  <1>5. CASE TaskRuns \/ TaskFails
    BY <1>5 DEF TaskRuns, TaskFails, TaskConnects, Announce, AfterAnnounce,
                TaskRefuses, TaskShutdown, TaskReports, AfterFailure, TaskLeaves
  <1>6. CASE DropBegins
    <2>1. fuse' \in BOOLEAN /\ (fuse => fuse')
      BY <1>6 DEF DropBegins
    <2>2. /\ UNCHANGED <<net, status, task, bg, link>>
          /\ pc' \notin Early
      BY <1>6 DEF DropBegins
    <2>3. QED
      BY <2>1, <2>2
  <1>7. CASE Dropping
    BY <1>7 DEF Dropping, DropBlocks, AmqpCloses, TaskTakesDisconnect,
                DisconnectFails, DropNotifies
  <1>8. ASSUME NEW x \in Writers, Serialize(x) \/ Writes(x)
        PROVE  FailedInv'
    BY <1>8, WriteStep
  <1>9. ASSUME NEW t \in Topics, NewReader(t) \/ \E x \in Writers : NewWriter(x, t)
        PROVE  FailedInv'
    BY <1>9 DEF NewReader, NewWriter
  <1>10. CASE UNCHANGED vars
    BY <1>10 DEF vars
  <1>11. QED
    BY <1>1, <1>2, <1>3, <1>4, <1>5, <1>6, <1>7, <1>8, <1>9, <1>10 DEF Next, Starting

\* A step that lets a write pass finds the fuse whole or the connection up.
LEMMA WritePasses ==
  ASSUME TypeOK, [Next]_vars, NEW x \in Writers,
         w[x] = "serialized", w'[x] \in {"checked", "ok"}
  PROVE  \/ net.kind \in {"mqtt", "loopback"} /\ ~fuse
         \/ net.kind = "amqp" /\ link = "up"
         \/ net.kind = "null"
  <1> USE DEF TypeOK
  <1>1. ASSUME NEW y \in Writers, Serialize(y) \/ Writes(y)
        PROVE  y = x
    BY <1>1, WriteStep
  <1>2. CASE Writes(x)
    BY <1>2 DEF Writes, CheckFuse, CheckedFuse, MqttSend, TaskTakes, SendFails,
                AmqpPublish, LoopbackHandleMsg, NullWrite, BlockOn
  <1>3. CASE Serialize(x)
    BY <1>3 DEF Serialize
  <1>4. ASSUME NEW y \in Writers, NEW t \in Topics, NewWriter(y, t)
        PROVE  FALSE
    BY <1>4 DEF NewWriter
  <1>5. ASSUME UNCHANGED w
        PROVE  FALSE
    BY <1>5
  <1>6. Load \/ New \/ AmqpPrepare \/ AmqpRequest \/ AmqpRefused \/ AmqpSpawn
          \/ MqttPrepare \/ MqttRefused \/ AmqpLost => UNCHANGED w
    BY DEF Load, New, AmqpPrepare, AmqpRequest, AmqpRefused, AmqpSpawn, MqttPrepare,
           MqttRefused, AmqpLost
  <1>7. BgWait \/ BgEnds \/ TaskRuns \/ TaskFails => UNCHANGED w
    BY DEF BgWait, BgEnds, TaskRuns, TaskFails, TaskConnects, Announce, TaskRefuses,
           TaskShutdown, TaskReports, TaskLeaves
  <1>8. DropBegins \/ Dropping => UNCHANGED w
    BY DEF DropBegins, Dropping, DropBlocks, AmqpCloses, TaskTakesDisconnect,
           DisconnectFails, DropNotifies
  <1>9. (\E t \in Topics : NewReader(t)) \/ UNCHANGED vars => UNCHANGED w
    BY DEF NewReader, vars
  <1>10. QED
    BY <1>1, <1>2, <1>3, <1>4, <1>5, <1>6, <1>7, <1>8, <1>9 DEF Next, Starting

\* Once the status is Failed no write passes its check or is sent.
THEOREM WritesRefused == Spec => FailedRefusesWrites
  <1>1. Init => FailedInv
    BY NoneAssumption DEF Init, FailedInv, Early, AmqpOpening
  <1>2. Init => TypeOK
    BY DEF Init, TypeOK
  <1>3. FailedInv /\ TypeOK /\ [Next]_vars
          => [status = "Failed" =>
                \A x \in Writers : w'[x] # w[x] =>
                  ~(w[x] = "serialized" /\ w'[x] \in {"checked", "ok"})]_vars
    BY WritePasses DEF FailedInv
  <1>4. QED
    BY <1>1, <1>2, <1>3, FailedInvStep, TypeStep, PTL DEF Spec, FailedRefusesWrites

-----------------------------------------------------------------------------
(* Waiting: the thread that runs the network's own runtime, the event loop  *)
(* and whoever waits for either.                                            *)

\* The notifier wakes who waits for it and leaves nothing behind for who comes
\* later: whenever a drop or a failed new_mqtt is about to notify, the
\* background thread waits already.
NotifyIsHeard == pc \in {"refused", "notify"} /\ Own => bg = "waiting"

\* The event loop has a step to take that waits for nobody, or is gone so that
\* requests fail at once; or somebody runs it, or is about to.
LoopServes ==
  \/ task \in {"announcing", "refusing", "failing", "reporting", "ended"}
  \/ task # "none" /\ (Driven \/ bg = "spawned")

\* Who waits for the event loop does so while it serves, except where a task
\* of a current-thread runtime waits for what only it could run; and a drop
\* that closes an AMQP connection waits while somebody runs the connection.
NobodyWaitsInVain ==
  /\ pc = "recv" => task \in {"connecting", "announcing", "refusing"}
  /\ pc \in {"recv", "disconnecting"} \/ (\E x \in Writers : w[x] = "waiting")
       => LoopServes \/ Stuck
  /\ pc = "closing" => CanClose \/ bg = "spawned"

\* After a drop, and after a failed Asb::new, the background thread has been
\* woken, if there ever was one; once it has returned neither a task nor a
\* connection of its runtime is left.
ThreadLeaves ==
  /\ pc \in {"dropped", "error"} => bg \in {"none", "notified", "ended"}
  /\ bg = "ended" => task \in {"none", "ended"} /\ link # "up"

Unstarted == {"load", "new", "amqp", "spawn", "mqtt"} \cup AmqpOpening

\* What runs for each place of the client and each kind of network.
StartInv ==
  /\ pc \in {"amqp", "spawn", "closing"} \cup AmqpOpening => net.kind = "amqp"
  /\ pc \in {"mqtt", "recv", "refused", "disconnecting"} => net.kind = "mqtt"
  /\ pc \in {"shut", "notify"} => net.kind \in {"amqp", "mqtt"}
  /\ task # "none" \/ pc = "mqtt" => net # None /\ net.kind = "mqtt"
  /\ \A x \in Writers : w[x] = "waiting" => net.kind = "mqtt"
  /\ pc \in Unstarted => task = "none" /\ bg = "none"
  /\ pc \in {"load", "new"} => \A x \in Writers : w[x] = "none"
  /\ pc \in {"load", "new", "amqp", "mqtt"} => link = "none"
  /\ pc = "spawn" => link = "up"

\* How far the background thread and the event loop are.
ThreadInv ==
  /\ pc \in {"recv", "up", "shut", "closing", "disconnecting"}
       /\ net.kind \in {"amqp", "mqtt"} /\ Own => bg \in {"spawned", "waiting"}
  /\ task \notin {"none", "connecting"} /\ Own => bg \notin {"none", "spawned"}
  /\ task # "none" /\ Own => bg # "none"
  /\ bg = "spawned" /\ net.kind = "amqp" => link = "up"
  /\ pc \in {"recv", "up", "shut", "refused", "disconnecting"} /\ net.kind = "mqtt"
       => task # "none"
  /\ pc = "recv" => task \in {"connecting", "announcing", "refusing"}
  /\ bg # "none" => net.kind \in {"amqp", "mqtt"} /\ Own
  /\ \A x \in Writers :
       w[x] \in {"created", "serialized", "checked", "waiting"} /\ net.kind = "mqtt"
         => task # "none"

\* Every step keeps the start in order.
LEMMA StartStep == StartInv /\ TypeOK /\ Awaited /\ [Next]_vars => StartInv'
  <1> SUFFICES ASSUME StartInv, TypeOK, Awaited, [Next]_vars PROVE StartInv'
    OBVIOUS
  <1> USE DEF StartInv, Unstarted, AmqpOpening
  <1>1. CASE Load \/ New
    <2>1. NetworkOf(config, Service) # None
      BY ConfigAssumption DEF NetworkOf, OrElse
    <2>2. QED
      BY <1>1, <2>1 DEF Load, New
  <1>2. CASE AmqpPrepare \/ AmqpRefused \/ AmqpSpawn \/ AmqpLost
    BY <1>2 DEF AmqpPrepare, AmqpRefused, AmqpSpawn, AmqpLost
  <1>3. CASE AmqpRequest
    <2>1. AfterRequest \in {"channel", "flow", "declare", "spawn"}
      BY <1>3 DEF AmqpRequest, AfterRequest
    <2>2. QED
      BY <1>3, <2>1 DEF AmqpRequest
  <1>4. CASE MqttPrepare \/ MqttRefused \/ BgWait \/ BgEnds
    BY <1>4 DEF MqttPrepare, MqttRefused, BgWait, BgEnds
  <1>5. CASE TaskRuns \/ TaskFails
    BY <1>5 DEF TaskRuns, TaskFails, TaskConnects, Announce, AfterAnnounce, Awaited,
                TaskRefuses, TaskShutdown, TaskReports, AfterFailure, TaskLeaves
  <1>6. CASE DropBegins \/ Dropping
    BY <1>6 DEF DropBegins, Dropping, DropBlocks, AmqpCloses, TaskTakesDisconnect,
                DisconnectFails, DropNotifies
  <1>7. ASSUME NEW x \in Writers, Serialize(x) \/ Writes(x)
        PROVE  StartInv'
    <2>1. \A y \in Writers : w[y] = "none" => w'[y] = "none" \/ y = x
      BY <1>7, WriteStep DEF TypeOK
    <2>2. w[x] # "none"
      BY <1>7 DEF Serialize, Writes, CheckFuse, MqttSend, TaskTakes, SendFails,
                  AmqpPublish, LoopbackHandleMsg, NullWrite
    <2>3. \A y \in Writers : w'[y] = "waiting" => w[y] = "waiting" \/ net.kind = "mqtt"
      BY <1>7 DEF TypeOK, Serialize, Writes, CheckFuse, CheckedFuse, MqttSend, TaskTakes,
                  SendFails, AmqpPublish, LoopbackHandleMsg, NullWrite, BlockOn
    <2>4. QED
      BY <1>7, <2>1, <2>2, <2>3, WriteStep
  <1>8. ASSUME NEW t \in Topics, NEW x \in Writers, NewWriter(x, t)
        PROVE  StartInv'
    <2>1. pc = "up" /\ w'[x] # "waiting" /\ \A y \in Writers \ {x} : w'[y] = w[y]
      BY <1>8 DEF TypeOK, NewWriter
    <2>2. QED
      BY <1>8, <2>1 DEF NewWriter
  <1>9. ASSUME NEW t \in Topics, NewReader(t)
        PROVE  StartInv'
    BY <1>9 DEF NewReader
  <1>10. CASE UNCHANGED vars
    BY <1>10 DEF vars
  <1>11. QED
    BY <1>1, <1>2, <1>3, <1>4, <1>5, <1>6, <1>7, <1>8, <1>9, <1>10 DEF Next, Starting

\* What ThreadInv, NotifyIsHeard and ThreadLeaves say together.
ServeInv == ThreadInv /\ NotifyIsHeard /\ ThreadLeaves

\* Every step keeps it: the thread gets to wait before anything is done for it.
LEMMA ServeStep == ServeInv /\ StartInv /\ TypeOK /\ Awaited /\ [Next]_vars => ServeInv'
  <1> SUFFICES ASSUME ServeInv, StartInv, TypeOK, Awaited, [Next]_vars PROVE ServeInv'
    OBVIOUS
  <1> USE DEF ServeInv, ThreadInv, NotifyIsHeard, ThreadLeaves, Own, InTask
  <1> USE DEF StartInv, Unstarted, AmqpOpening, Awaited, EventLoopNeverPanics
  <1>1. CASE Load \/ New
    BY <1>1 DEF Load, New
  <1>2. CASE AmqpPrepare \/ AmqpRefused \/ AmqpSpawn \/ AmqpLost
    BY <1>2 DEF AmqpPrepare, AmqpRefused, AmqpSpawn, AmqpLost
  <1>3. CASE AmqpRequest
    <2>1. AfterRequest \in {"channel", "flow", "declare", "spawn"}
      BY <1>3 DEF AmqpRequest, AfterRequest
    <2>2. QED
      BY <1>3, <2>1 DEF AmqpRequest
  <1>4. CASE MqttPrepare
    BY <1>4 DEF MqttPrepare, BgAtStart
  <1>5. CASE MqttRefused
    BY <1>5 DEF MqttRefused, Notified
  <1>6. CASE BgWait
    BY <1>6 DEF BgWait
  <1>7. CASE BgEnds
    BY <1>7 DEF BgEnds, TypeOK
  <1>8. CASE TaskRuns \/ TaskFails
    BY <1>8 DEF TaskRuns, TaskFails, TaskConnects, Announce, AfterAnnounce, Driven,
                TaskRefuses, TaskShutdown, TaskReports, AfterFailure, TaskLeaves
  <1>9. CASE DropBegins
    BY <1>9 DEF DropBegins
  <1>10. CASE Dropping
    BY <1>10 DEF Dropping, DropBlocks, AmqpCloses, CanClose, TaskTakesDisconnect, Driven,
                 DisconnectFails, DropNotifies, Notified
  <1>11. ASSUME NEW x \in Writers, Serialize(x) \/ Writes(x)
         PROVE  ServeInv'
    <2>1. \A y \in Writers \ {x} : w'[y] = w[y]
      BY <1>11, WriteStep DEF TypeOK
    <2>2. w[x] \in {"created", "serialized", "checked", "waiting"}
      BY <1>11 DEF Serialize, Writes, CheckFuse, MqttSend, TaskTakes, SendFails,
                   AmqpPublish, LoopbackHandleMsg, NullWrite
    <2>3. QED
      BY <1>11, <2>1, <2>2, WriteStep
  <1>12. ASSUME NEW x \in Writers, NEW t \in Topics, NewWriter(x, t)
         PROVE  ServeInv'
    <2>1. \A y \in Writers \ {x} : w'[y] = w[y]
      BY <1>12 DEF TypeOK, NewWriter
    <2>2. QED
      BY <1>12, <2>1 DEF NewWriter
  <1>13. ASSUME NEW t \in Topics, NewReader(t)
         PROVE  ServeInv'
    BY <1>13 DEF NewReader
  <1>14. CASE UNCHANGED vars
    BY <1>14 DEF vars
  <1>15. QED
    BY <1>1, <1>2, <1>3, <1>4, <1>5, <1>6, <1>7, <1>8, <1>9, <1>10, <1>11, <1>12,
       <1>13, <1>14 DEF Next, Starting

\* All of it holds in every state.
LEMMA WaitingInOrder == Spec => [](ServeInv /\ StartInv /\ TypeOK /\ Awaited)
  <1>1. Init => ServeInv /\ StartInv
    BY DEF Init, ServeInv, ThreadInv, NotifyIsHeard, ThreadLeaves, StartInv, Unstarted,
           AmqpOpening
  <1>2. Init => TypeOK /\ Awaited
    BY DEF Init, TypeOK, Awaited, EventLoopNeverPanics
  <1>3. QED
    BY <1>1, <1>2, ServeStep, StartStep, TypeStep, AwaitedStep, PTL DEF Spec

\* notify_waiters, which is forgotten if nobody waits, never comes before the
\* background thread of a network that has one.
THEOREM NotifyHeard == Spec => []NotifyIsHeard
  <1>1. ServeInv => NotifyIsHeard
    BY DEF ServeInv
  <1>2. QED
    BY <1>1, WaitingInOrder, PTL

\* Whatever the event loop is waited for by new_mqtt, by a drop or by writes
\* that are still under way after the drop, it has ended or somebody runs it,
\* and the same for the closing of an AMQP connection: the safety part of
\* CallsReturn, with the same exception.
THEOREM CallsServed == Spec => []NobodyWaitsInVain
  <1>1. ASSUME ServeInv, StartInv, TypeOK
        PROVE  NobodyWaitsInVain
    <2> USE <1>1 DEF ServeInv, StartInv
    <2>1. task # "none" => LoopServes \/ Stuck
      <3> SUFFICES ASSUME task # "none" PROVE LoopServes \/ Stuck
        OBVIOUS
      <3>1. CASE Own
        BY <3>1 DEF LoopServes, Driven, ThreadInv, ThreadLeaves, TypeOK
      <3>2. CASE ~Own
        BY <3>2 DEF LoopServes, Stuck, Driven, Own, InTask, TypeOK, Callers
      <3>3. QED
        BY <3>1, <3>2
    <2>2. pc \in {"recv", "disconnecting"} \/ (\E x \in Writers : w[x] = "waiting")
            => task # "none"
      BY DEF ThreadInv
    <2>3. pc = "closing" => CanClose \/ bg = "spawned"
      BY DEF ThreadInv, CanClose, Driven, Own
    <2>4. QED
      BY <2>1, <2>2, <2>3 DEF NobodyWaitsInVain, ThreadInv
  <1>2. QED
    BY <1>1, WaitingInOrder, PTL

\* The safety part of NothingRuns: what the drop or the failed creation leaves
\* of the background thread is on its way out, and takes the rest along.
THEOREM NothingOutlives == Spec => []ThreadLeaves
  <1>1. ServeInv => ThreadLeaves
    BY DEF ServeInv
  <1>2. QED
    BY <1>1, WaitingInOrder, PTL

-----------------------------------------------------------------------------
(* The settings of writers. *)

\* The first of two or of three options is that of a chain of OrElse.
LEMMA FirstOfTwo ==
  ASSUME NEW a, NEW b
  PROVE  FirstOf(<<a, b>>) = OrElse(a, b)
  <1> DEFINE there == {i \in DOMAIN <<a, b>> : <<a, b>>[i] # None}
             first == CHOOSE i \in there : \A j \in there : i <= j
  <1>1. there \subseteq {1, 2} /\ (1 \in there <=> a # None) /\ (2 \in there <=> b # None)
    OBVIOUS
  <1>2. CASE a # None
    <2>1. first = 1
      BY <1>1, <1>2
    <2>2. QED
      BY <1>1, <1>2, <2>1 DEF FirstOf, OrElse
  <1>3. CASE a = None /\ b # None
    <2>1. there = {2}
      BY <1>1, <1>3
    <2>2. first = 2
      BY <2>1
    <2>3. QED
      BY <1>3, <2>1, <2>2 DEF FirstOf, OrElse
  <1>4. CASE a = None /\ b = None
    BY <1>1, <1>4 DEF FirstOf, OrElse
  <1>5. QED
    BY <1>2, <1>3, <1>4

LEMMA FirstOfThree ==
  ASSUME NEW a, NEW b, NEW c
  PROVE  FirstOf(<<a, b, c>>) = OrElse(a, OrElse(b, c))
  <1> DEFINE there == {i \in DOMAIN <<a, b, c>> : <<a, b, c>>[i] # None}
             first == CHOOSE i \in there : \A j \in there : i <= j
  <1>1. /\ there \subseteq {1, 2, 3}
        /\ 1 \in there <=> a # None
        /\ 2 \in there <=> b # None
        /\ 3 \in there <=> c # None
    OBVIOUS
  <1>2. CASE a # None
    <2>1. first = 1
      BY <1>1, <1>2
    <2>2. QED
      BY <1>1, <1>2, <2>1 DEF FirstOf, OrElse
  <1>3. CASE a = None /\ b # None
    <2>1. first = 2
      BY <1>1, <1>3
    <2>2. QED
      BY <1>1, <1>3, <2>1 DEF FirstOf, OrElse
  <1>4. CASE a = None /\ b = None /\ c # None
    <2>1. there = {3}
      BY <1>1, <1>4
    <2>2. first = 3
      BY <2>1
    <2>3. QED
      BY <1>4, <2>1, <2>2 DEF FirstOf, OrElse
  <1>5. CASE a = None /\ b = None /\ c = None
    BY <1>1, <1>5 DEF FirstOf, OrElse
  <1>6. QED
    BY <1>2, <1>3, <1>4, <1>5

\* get_bus_config finds the most specific settings.
LEMMA BusConfigMostSpecific ==
  ASSUME NEW c, NEW t,
         \A s \in DOMAIN c.services.service[Service].topics :
           c.services.service[Service].topics[s] # None,
         \A name \in DOMAIN c.qos : c.qos[name] # None
  PROVE  AreMostSpecific(BusConfig(c, Service, t), c, t)
  <1> DEFINE mine == c.services.service[Service]
             own(f) == IF t \in DOMAIN mine.topics THEN mine.topics[t][f] ELSE None
             format == FirstOf(<<mine.wire_format, c.services.default_wire_format>>)
             name == FirstOf(<<own("qos"), mine.qos, c.services.default_qos>>)
             topicName == FirstOf(<<own("bus_topic"), t>>)
  <1>1. format = OrElse(mine.wire_format, c.services.default_wire_format)
    BY FirstOfTwo
  <1>2. topicName = BusTopicOf(mine, t)
    BY FirstOfTwo DEF BusTopicOf, Entry
  <1>3. name = QosNameOf(c, mine, t)
    BY FirstOfThree DEF QosNameOf, Entry
  <1> DEFINE qos == IF name = None THEN DefaultQos ELSE Entry(c.qos, name)
  <1>4. BusConfig(c, Service, t) =
          IF format = None \/ qos = None THEN Err
          ELSE [wire_format |-> format, qos |-> qos, bus_topic |-> topicName]
    BY <1>1, <1>2, <1>3 DEF BusConfig
  <1>5. AreMostSpecific(BusConfig(c, Service, t), c, t) <=>
          IF format = None \/ (name # None /\ name \notin DOMAIN c.qos)
          THEN BusConfig(c, Service, t) = Err
          ELSE /\ BusConfig(c, Service, t).wire_format = format
               /\ BusConfig(c, Service, t).bus_topic = topicName
               /\ BusConfig(c, Service, t).qos =
                    IF name = None THEN DefaultQos ELSE c.qos[name]
    BY DEF AreMostSpecific
  <1>6. DefaultQos # None
    BY NoneAssumption
  <1> HIDE DEF format, name, topicName
  <1>7. qos = None <=> (name # None /\ name \notin DOMAIN c.qos)
    BY <1>6 DEF Entry
  <1>8. name \in DOMAIN c.qos /\ name # None => qos = c.qos[name]
    BY DEF Entry
  <1> HIDE DEF qos
  <1>9. QED
    BY <1>4, <1>5, <1>7, <1>8 DEF qos

\* What has been loaded, and when; what a writer needs of it.
SettingsInv ==
  /\ file \in Files
  /\ topic = [x \in Writers |-> topic[x]] /\ bus = [x \in Writers |-> bus[x]]
  /\ pc \in {"load", "new"} => \A x \in Writers : bus[x] = None
  /\ pc \notin {"load", "error", "overflowed"} =>
       /\ config.services = file.services
       /\ config.qos = [name \in DOMAIN file.qos |-> QosOf(file.qos[name])]
  /\ pc \notin {"load", "new", "error", "overflowed"} =>
       Service \in DOMAIN config.services.service

\* AsbConfig::from_str keeps the services and reads the QoS settings.
LEMMA LoadedSettings ==
  ASSUME file \in Files, NEW r \in Loaded(file), r \notin {Err, Panic}
  PROVE  /\ r.services = file.services
         /\ r.qos = [name \in DOMAIN file.qos |-> QosOf(file.qos[name])]
  <1>1. file = [services |-> file.services, networks |-> file.networks, qos |-> file.qos]
    BY FilesAssumption
  <1>2. r = [file EXCEPT !.qos = [name \in DOMAIN file.qos |-> QosOf(file.qos[name])]]
    BY DEF Loaded
  <1>3. QED
    BY <1>1, <1>2

\* Every step keeps SettingsInv.
LEMMA SettingsStep == SettingsInv /\ [Next]_vars => SettingsInv'
  <1> SUFFICES ASSUME SettingsInv, [Next]_vars PROVE SettingsInv'
    OBVIOUS
  <1> USE DEF SettingsInv
  <1>1. CASE Load
    BY <1>1, LoadedSettings DEF Load
  <1>2. CASE New
    <2>1. CASE NetworkOf(config, Service) = Err
      BY <1>2, <2>1 DEF New
    <2>2. CASE NetworkOf(config, Service) # Err
      <3>1. Service \in DOMAIN config.services.service
        BY <2>2 DEF NetworkOf, Entry
      <3>2. QED
        BY <1>2, <2>2, <3>1 DEF New
    <2>3. QED
      BY <2>1, <2>2
  <1>3. CASE AmqpPrepare \/ AmqpRefused \/ AmqpSpawn \/ AmqpLost
    BY <1>3 DEF AmqpPrepare, AmqpRefused, AmqpSpawn, AmqpLost, AmqpOpening
  <1>4. CASE AmqpRequest
    <2>1. AfterRequest \in {"channel", "flow", "declare", "spawn"}
      BY <1>4 DEF AmqpRequest, AfterRequest, AmqpOpening
    <2>2. QED
      BY <1>4, <2>1 DEF AmqpRequest, AmqpOpening
  <1>5. CASE MqttPrepare \/ MqttRefused \/ BgWait \/ BgEnds
    BY <1>5 DEF MqttPrepare, MqttRefused, BgWait, BgEnds
  <1>6. CASE TaskRuns \/ TaskFails
    BY <1>6 DEF TaskRuns, TaskFails, TaskConnects, Announce, TaskRefuses, TaskShutdown,
                TaskReports, TaskLeaves
  <1>7. CASE DropBegins \/ Dropping
    BY <1>7 DEF DropBegins, Dropping, DropBlocks, AmqpCloses, TaskTakesDisconnect,
                DisconnectFails, DropNotifies
  <1>8. ASSUME NEW x \in Writers, Serialize(x) \/ Writes(x)
        PROVE  SettingsInv'
    BY <1>8, WriteStep
  <1>9. ASSUME NEW x \in Writers, NEW t \in Topics, NewWriter(x, t)
        PROVE  SettingsInv'
    BY <1>9 DEF NewWriter
  <1>10. ASSUME NEW t \in Topics, NewReader(t)
         PROVE  SettingsInv'
    BY <1>10 DEF NewReader
  <1>11. CASE UNCHANGED vars
    BY <1>11 DEF vars
  <1>12. QED
    BY <1>1, <1>2, <1>3, <1>4, <1>5, <1>6, <1>7, <1>8, <1>9, <1>10, <1>11
       DEF Next, Starting

\* Only the loading changes the configuration, only creations what writers have.
LEMMA SettingsStay ==
  ASSUME [Next]_vars, ~Load, ~(\E x \in Writers, t \in Topics : NewWriter(x, t))
  PROVE  UNCHANGED <<config, topic, bus>>
  <1>1. New \/ AmqpPrepare \/ AmqpRequest \/ AmqpRefused \/ AmqpSpawn \/ MqttPrepare
          \/ MqttRefused \/ AmqpLost => UNCHANGED <<config, topic, bus>>
    BY DEF New, AmqpPrepare, AmqpRequest, AmqpRefused, AmqpSpawn, MqttPrepare,
           MqttRefused, AmqpLost
  <1>2. BgWait \/ BgEnds \/ TaskRuns \/ TaskFails => UNCHANGED <<config, topic, bus>>
    BY DEF BgWait, BgEnds, TaskRuns, TaskFails, TaskConnects, Announce, TaskRefuses,
           TaskShutdown, TaskReports, TaskLeaves
  <1>3. DropBegins \/ Dropping => UNCHANGED <<config, topic, bus>>
    BY DEF DropBegins, Dropping, DropBlocks, AmqpCloses, TaskTakesDisconnect,
           DisconnectFails, DropNotifies
  <1>4. (\E x \in Writers : Serialize(x) \/ Writes(x)) => UNCHANGED <<config, topic, bus>>
    BY WriteStep
  <1>5. (\E t \in Topics : NewReader(t)) \/ UNCHANGED vars => UNCHANGED <<config, topic, bus>>
    BY DEF NewReader, vars
  <1>6. QED
    BY <1>1, <1>2, <1>3, <1>4, <1>5 DEF Next, Starting

\* Every step keeps the settings of writers right.
LEMMA MostSpecificStep ==
  SettingsInv /\ MostSpecificWins /\ [Next]_vars => MostSpecificWins'
  <1> SUFFICES ASSUME SettingsInv, MostSpecificWins, [Next]_vars
               PROVE  MostSpecificWins'
    OBVIOUS
  <1>1. CASE Load
    BY <1>1 DEF Load, SettingsInv, MostSpecificWins
  <1>2. ASSUME NEW x \in Writers, NEW t \in Topics, NewWriter(x, t)
        PROVE  MostSpecificWins'
    <2>1. /\ topic' = [topic EXCEPT ![x] = t]
          /\ bus' = [bus EXCEPT ![x] = BusConfig(config, Service, t)]
          /\ config' = config
      BY <1>2 DEF NewWriter
    <2>2. /\ \A s \in DOMAIN config.services.service[Service].topics :
               config.services.service[Service].topics[s] # None
          /\ \A name \in DOMAIN config.qos : config.qos[name] # None
      <3>1. pc = "up"
        BY <1>2 DEF NewWriter
      <3>2. QED
        BY <3>1, FilesAssumption DEF SettingsInv
    <2>3. AreMostSpecific(BusConfig(config, Service, t), config, t)
      BY <2>2, BusConfigMostSpecific
    <2>4. ASSUME NEW y \in Writers, bus'[y] # None
          PROVE  AreMostSpecific(bus'[y], config', topic'[y])
      <3>1. CASE y = x
        <4>1. bus'[y] = BusConfig(config, Service, t) /\ topic'[y] = t
          BY <2>1, <3>1 DEF SettingsInv
        <4>2. QED
          BY <2>1, <2>3, <4>1
      <3>2. CASE y # x
        <4>1. bus'[y] = bus[y] /\ topic'[y] = topic[y]
          BY <2>1, <3>2 DEF SettingsInv
        <4>2. QED
          BY <2>1, <2>4, <4>1 DEF MostSpecificWins
      <3>3. QED
        BY <3>1, <3>2
    <2>5. QED
      BY <2>4 DEF MostSpecificWins
  <1>3. CASE ~Load /\ ~(\E x \in Writers, t \in Topics : NewWriter(x, t))
    <2>1. UNCHANGED <<config, topic, bus>>
      BY <1>3, SettingsStay
    <2>2. QED
      BY <2>1 DEF MostSpecificWins
  <1>4. QED
    BY <1>1, <1>2, <1>3

\* Every writer has the most specific settings of any configuration.
THEOREM Precedence == Spec => []MostSpecificWins
  <1>1. Init => SettingsInv /\ MostSpecificWins
    BY DEF Init, SettingsInv, MostSpecificWins
  <1>2. QED
    BY <1>1, SettingsStep, MostSpecificStep, PTL DEF Spec

-----------------------------------------------------------------------------
(* Durations. *)

\* Whole milliseconds, as a number of seconds and a rest, divide into them.
LEMMA Milliseconds ==
  ASSUME NEW secs \in Nat, NEW rest \in Nat, rest < 1000
  PROVE  /\ (secs * 1000 + rest) \div 1000 = secs
         /\ (secs * 1000 + rest) % 1000 = rest
         /\ secs * 1000 + rest \in Nat
  BY SMT

\* The whole milliseconds of less than a second are less than a thousand.
LEMMA RestOfSecond ==
  ASSUME NEW nanos \in Nat, nanos < Giga
  PROVE  nanos \div 1000000 \in Nat /\ nanos \div 1000000 < 1000
  BY SMT DEF Giga

\* A duration that is written to a configuration and read from it again has
\* lost what it has beyond whole milliseconds, and nothing else: it is read
\* at all if its milliseconds are a u64.
THEOREM DurationRoundTrip ==
  ASSUME NEW secs \in Nat, NEW nanos \in Nat, nanos < Giga,
         secs * 1000 + nanos \div 1000000 <= MaxU64
  PROVE  DurationOf(TextOf([secs |-> secs, nanos |-> nanos]))
           = [secs |-> secs, nanos |-> (nanos \div 1000000) * 1000000]
  <1>1. PICK rest \in Nat : rest = nanos \div 1000000 /\ rest < 1000
    BY SMT, RestOfSecond
  <1>2. PICK v \in Nat : v = secs * 1000 + rest
    BY SMT, <1>1, Milliseconds
  <1>3. v \in 0..MaxU64
    BY SMT, <1>1, <1>2, ConfigAssumption
  <1>4. TextOf([secs |-> secs, nanos |-> nanos]) = [value |-> v, unit |-> "ms"]
    BY SMT, <1>1, <1>2 DEF TextOf
  <1>5. DurationOf([value |-> v, unit |-> "ms"]) = DurationOfUnit(v, "ms")
    <2>1. OrElse("ms", "s") = "ms"
      BY SMT, UnitsAssumption DEF OrElse, PerSecond
    <2>2. QED
      BY SMT, <1>3, <2>1 DEF DurationOf
  <1>6. DurationOfUnit(v, "ms") = [secs |-> v \div 1000, nanos |-> (v % 1000) * 1000000]
    <2>1. "ms" \notin DOMAIN SecondsPer /\ "ms" \in DOMAIN PerSecond /\ PerSecond["ms"] = 1000
      BY SMT DEF SecondsPer, PerSecond
    <2>2. Giga \div 1000 = 1000000
      BY SMT DEF Giga
    <2>3. QED
      BY SMT, <2>1, <2>2 DEF DurationOfUnit
  <1>7. v \div 1000 = secs /\ v % 1000 = rest
    BY SMT, <1>1, <1>2, Milliseconds
  <1>8. QED
    BY SMT, <1>1, <1>4, <1>5, <1>6, <1>7

=============================================================================
