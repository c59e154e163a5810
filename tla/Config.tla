------------------------------- MODULE Config -------------------------------
(***************************************************************************)
(* The configuration of an ASB and what is read out of it: loading (with   *)
(* the durations of QoS settings), the parameters of networks, the network *)
(* of a service, and the settings of a topic.  Operators only.             *)
(*                                                                         *)
(* A file is a record like AsbConfig; its maps are functions from names.   *)
(* Durations in a file are texts [value, unit]; a parameter of a network   *)
(* is a TOML value [type, value].                                          *)
(***************************************************************************)
EXTENDS Integers

CONSTANTS None,     \* an Option without a value
          Err,      \* the result of what returns an error
          Panic,    \* the result of what panics
          MaxU64    \* the largest value of the integers that are u64

ASSUME ConfigAssumption ==
  /\ MaxU64 \in Nat
  /\ None # Err /\ None # Panic /\ Err # Panic

OrElse(option, other) == IF option # None THEN option ELSE other

Entry(map, name) == IF name \in DOMAIN map THEN map[name] ELSE None

-----------------------------------------------------------------------------
(* Durations: whole seconds and nanoseconds, as in std::time::Duration.     *)

SecondsPer == [s |-> 1, min |-> 60, h |-> 3600]

PerSecond == [ms |-> 1000, us |-> 1000000, ns |-> 1000000000]

Giga == 1000000000

\* No unit is written as no unit.
ASSUME UnitsAssumption == None \notin DOMAIN SecondsPer \cup DOMAIN PerSecond

\* duration_value_suffix: from_mins and from_hours panic on overflow.
DurationOfUnit(v, unit) ==
  IF unit \in DOMAIN SecondsPer
  THEN IF v * SecondsPer[unit] <= MaxU64
       THEN [secs |-> v * SecondsPer[unit], nanos |-> 0]
       ELSE Panic
  ELSE IF unit \in DOMAIN PerSecond
  THEN LET n == PerSecond[unit]
       IN  [secs |-> v \div n, nanos |-> (v % n) * (Giga \div n)]
  ELSE Err

\* A text without a unit counts seconds; one whose value is no u64 is refused.
DurationOf(text) ==
  IF text.value \in 0..MaxU64 THEN DurationOfUnit(text.value, OrElse(text.unit, "s"))
                              ELSE Err

\* What serialization writes of a duration: its whole milliseconds.
TextOf(d) == [value |-> d.secs * 1000 + d.nanos \div 1000000, unit |-> "ms"]

DurationOption(text) == IF text = None THEN None ELSE DurationOf(text)

-----------------------------------------------------------------------------
(* Loading. *)

DefaultQos ==
  [time_based_filter |-> None, reliability |-> "reliable",
   expiration |-> None, buffer |-> 100]

QosOf(text) ==
  [text EXCEPT !.time_based_filter = DurationOption(@),
               !.expiration = DurationOption(@)]

\* Some duration of the file is read as v.
SomeDurationIs(file, v) ==
  \E name \in DOMAIN file.qos :
    LET qos == QosOf(file.qos[name])
    IN  qos.time_based_filter = v \/ qos.expiration = v

\* What from_str may return: with two bad durations, that of the first.
Loaded(file) ==
  {r \in {Err, Panic} : SomeDurationIs(file, r)}
    \cup IF SomeDurationIs(file, Err) \/ SomeDurationIs(file, Panic)
         THEN {}
         ELSE {[file EXCEPT !.qos = [name \in DOMAIN file.qos |-> QosOf(file.qos[name])]]}

-----------------------------------------------------------------------------
(* Parameters of networks. *)

\* ParamTool: get_str, get_int, get_float, get_bool, one for each type.
Param(params, name, type) ==
  IF Entry(params, name) = None THEN None
  ELSE IF params[name].type = type THEN params[name].value
  ELSE Err

\* "as u16".
AsU16(port) == port % 65536

\* open_args_for_net.
OpenArgs(network) ==
  LET host == Param(network.params, "host", "string")
      port == Param(network.params, "port", "integer")
      user == Param(network.params, "username", "string")
      pass == Param(network.params, "password", "string")
  IN  IF network.kind # "amqp" \/ host = Err \/ port = Err \/ user = Err \/ pass = Err
      THEN Err
      ELSE [host |-> OrElse(host, "localhost"), port |-> AsU16(OrElse(port, 5672)),
            user |-> OrElse(user, "guest"), pass |-> OrElse(pass, "guest")]

\* get_mqtt_opts: credentials are complete or absent.
MqttOpts(network) ==
  LET host == Param(network.params, "host", "string")
      port == Param(network.params, "port", "integer")
      id   == Param(network.params, "client_id", "string")
      user == Param(network.params, "username", "string")
      pass == Param(network.params, "password", "string")
  IN  IF \/ network.kind # "mqtt"
         \/ host = Err \/ port = Err \/ id = Err \/ user = Err \/ pass = Err
         \/ (user = None) # (pass = None)
      THEN Err
      ELSE [host |-> OrElse(host, "localhost"), port |-> AsU16(OrElse(port, 1883)),
            client_id |-> OrElse(id, ""), user |-> user, pass |-> pass]

\* The exchange of an AMQP network; a name must not be empty.
ExchangeOf(network) ==
  LET name == Param(network.params, "exchange", "string")
  IN  IF name = "" THEN Err ELSE name

DurableOf(network) ==
  OrElse(Param(network.params, "durable_exchange", "boolean"), TRUE)

-----------------------------------------------------------------------------
(* Services and topics. *)

\* Asb::new and connect: the network of a service, or an error.
NetworkOf(config, svc) ==
  LET service == Entry(config.services.service, svc)
  IN  IF service = None THEN Err
      ELSE LET name == OrElse(service.network, config.services.default_network)
           IN  IF name = None THEN Err ELSE OrElse(Entry(config.networks, name), Err)

NoServiceQos(config, service, topic) ==
  LET own == Entry(service.topics, topic)
  IN  OrElse(IF own = None THEN None ELSE own.qos, config.services.default_qos)

\* The name of the QoS settings of a topic, None if nothing names any.
QosNameOf(config, service, topic) ==
  LET own == Entry(service.topics, topic)
  IN  OrElse(IF own = None THEN None ELSE own.qos,
             OrElse(service.qos, config.services.default_qos))

BusTopicOf(service, topic) ==
  LET own == Entry(service.topics, topic)
  IN  OrElse(IF own = None THEN None ELSE own.bus_topic, topic)

\* get_bus_config, for a service that the configuration has: Asb::new checks.
BusConfig(config, svc, topic) ==
  LET service == config.services.service[svc]
      format  == OrElse(service.wire_format, config.services.default_wire_format)
      name    == QosNameOf(config, service, topic)
      qos     == IF name = None THEN DefaultQos ELSE Entry(config.qos, name)
  IN  IF format = None \/ qos = None
      THEN Err
      ELSE [wire_format |-> format, qos |-> qos, bus_topic |-> BusTopicOf(service, topic)]

=============================================================================
