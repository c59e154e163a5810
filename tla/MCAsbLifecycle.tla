--------------------------- MODULE MCAsbLifecycle ---------------------------
(* Configurations for TLC: one for each way a network starts, one for each  *)
(* parameter that is refused or misread, and all combinations of the        *)
(* settings of a service and a topic over a null network.                   *)
EXTENDS AsbLifecycle, TLC

NoParams == [p \in {} |-> None]

Net(kind, params) == [kind |-> kind, params |-> params]

Qos(expiration) ==
  [time_based_filter |-> None, reliability |-> "best_effort",
   expiration |-> expiration, buffer |-> 1]

Text(value, unit) == [value |-> value, unit |-> unit]

MCQos == [q1 |-> Qos(Text(1500, "ms")), q2 |-> Qos(Text(2, "min")), q3 |-> Qos(None)]

Mine(network, format, qos, topics) ==
  [network |-> network, wire_format |-> format, qos |-> qos, topics |-> topics]

File(default, mine, networks, qos) ==
  [services |-> [default_network |-> default[1], default_wire_format |-> default[2],
                 default_qos |-> default[3], service |-> [me |-> mine]],
   networks |-> networks, qos |-> qos]

NoTopics == [t \in {} |-> None]

\* A service with one network and nothing else of note.
OnNetwork(n) == File(<<"net", "xml", None>>, Mine(None, None, None, NoTopics),
                     [net |-> n], MCQos)

WithQos(q) == [OnNetwork(Net("null", NoParams)) EXCEPT !.qos = [q1 |-> q]]

MCStarts ==
  {OnNetwork(Net("mqtt", NoParams)), OnNetwork(Net("amqp", NoParams)),
   OnNetwork(Net("amqp", [exchange |-> [type |-> "string", value |-> "ex"]])),
   OnNetwork(Net("loopback", NoParams))}

MCRefused ==
  {OnNetwork(Net("amqp", "exchange" :> [type |-> "string", value |-> ""])),
   OnNetwork(Net("amqp", "durable_exchange" :> [type |-> "integer", value |-> 1])),
   OnNetwork(Net("amqp", "port" :> [type |-> "string", value |-> "5672"])),
   OnNetwork(Net("mqtt", "port" :> [type |-> "string", value |-> "1883"])),
   OnNetwork(Net("mqtt", "username" :> [type |-> "string", value |-> "guest"])),
   WithQos(Qos(Text(Err, "s"))), WithQos(Qos(Text(1, "d"))), WithQos(Qos(Text(9, "h")))}

\* Which network, if any.
MCNetworks ==
  {File(<<d, "xml", None>>, Mine(n, None, None, NoTopics),
        [net |-> Net("null", NoParams)], MCQos) :
     d \in {None, "net"}, n \in {None, "net", "unknown"}}

\* Which settings.
MCSettings ==
  {File(<<"net", d[1], d[2]>>, Mine(None, s[1], s[2], topics),
        [net |-> Net("null", NoParams)], MCQos) :
     d \in {None, "xml"} \X {None, "q3", "unknown"},
     s \in {None, "xml"} \X {None, "q2"},
     topics \in {NoTopics} \cup {"t1" :> [bus_topic |-> b, qos |-> q] :
                                   b \in {None, "bus"}, q \in {None, "q1"}}}

MCFiles == MCStarts \cup MCRefused \cup MCNetworks \cup MCSettings

=============================================================================
