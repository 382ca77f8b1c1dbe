--------------------------- MODULE TopologyConfig ---------------------------
(***************************************************************************)
(* What a topology file declares, and which declarations a run accepts.    *)
(*                                                                         *)
(* A topology is a record of                                               *)
(*   operators   a sequence of operator declarations                       *)
(*   window, checkpoint, replay, source, sink, metrics                     *)
(*               a section each: the set of its one declaration, or {}     *)
(*                                                                         *)
(* A declaration keeps the fields that the code tests or that later steps  *)
(* depend on.  An optional field is, like a section, a set of at most one  *)
(* value.  A declaration that serde does not read is no topology at all:   *)
(* load_topology fails and the process ends before any of this.            *)
(***************************************************************************)
EXTENDS Condition, Sequences, FiniteSets

CONSTANT Features   \* the connectors compiled in

ASSUME FeaturesAssumption == Features \subseteq {"kafka", "mqtt", "tls"}

(***************************************************************************)
(* What serde reads                                                        *)
(***************************************************************************)

\* The fields each kind of operator has besides its name, as far as they matter here.
OperatorFields ==
  [filter |-> {"condition"}, rate_limit |-> {"rate"}, map_match |-> {"roads"},
   geofence |-> {}, proximity |-> {}, trajectory |-> {}, spatial_agg |-> {"function"},
   cep |-> {"steps"}]

\* Those of a source or a sink.  The consumer group and the client id have defaults.
ConnectorFields ==
  [file |-> {}, stdout |-> {}, websocket |-> {"url"}, kafka |-> {"brokers", "topic"},
   mqtt |-> {"url", "topic", "qos", "username", "password_env"}]

Tagged(declaration, fields) ==
  /\ declaration.type \in DOMAIN fields
  /\ fields[declaration.type] \subseteq DOMAIN declaration

\* load_topology succeeds.
Readable(topology) ==
  /\ \A k \in DOMAIN topology.operators :
       Tagged(topology.operators[k], OperatorFields) /\ "name" \in DOMAIN topology.operators[k]
  /\ \A s \in topology.source : Tagged(s, ConnectorFields) /\ s.type # "stdout"
  /\ \A s \in topology.sink : Tagged(s, ConnectorFields)
  /\ \A w \in topology.window : {"kind", "keys"} \subseteq DOMAIN w
  /\ \A r \in topology.replay : {"inf", "speed"} \subseteq DOMAIN r
  /\ \A section \in {"window", "checkpoint", "replay", "source", "sink", "metrics"} :
       Cardinality(topology[section]) <= 1

(***************************************************************************)
(* Windows                                                                 *)
(***************************************************************************)

\* The keys each window type needs; one that is not here is unknown.
NeededKeys ==
  [tumbling |-> {"duration_secs"},
   sliding  |-> {"duration_secs", "slide_secs"},
   session  |-> {"gap_secs"},
   count    |-> {"count"}]

WindowAccepted(w) == w.kind \in DOMAIN NeededKeys /\ NeededKeys[w.kind] \subseteq w.keys

(***************************************************************************)
(* Operators                                                               *)
(***************************************************************************)

Stateful == {"geofence", "proximity", "trajectory", "spatial_agg", "cep"}
Aggregates == {"count", "sum", "mean", "max", "min"}

\* build_stage, by what it refuses.
StageAccepted(op) ==
  CASE op.type = "filter"      -> Compiles(op.condition)
    [] op.type = "cep"         -> \A k \in DOMAIN op.steps : Compiles(op.steps[k])
    [] op.type = "spatial_agg" -> op.function \in Aggregates
    [] op.type = "rate_limit"  -> op.rate > 0
    [] op.type = "map_match"   -> \A k \in DOMAIN op.roads : op.roads[k] >= 2
    [] OTHER -> TRUE

\* Mutant: the key is the type of the operator.
KeyByType(op) == op.type

\* The key of a stage in a checkpoint.  The engine of cep has one name for all.
KeyOf(op) == IF op.type = "cep" THEN "cep" ELSE op.name

(***************************************************************************)
(* Sources and sinks                                                       *)
(***************************************************************************)

KafkaAccepted(c) == c.brokers # {} /\ "" \notin c.brokers /\ c.topic # ""

\* A broker url has a scheme or none, a host, and a port if what follows the colon
\* is a number.
HostPortAccepted(url) == url.host # "" /\ url.port # {}

MqttAccepted(c) == HostPortAccepted(c.url) /\ c.topic # ""

\* The level that is asked for, 1 if none is.
QosOf(c) == IF c.qos = {} THEN 1 ELSE CHOOSE level \in c.qos : TRUE

\* A user and a password come together, and the password is in the environment.
CredentialsAccepted(c, environment) ==
  /\ c.username = {} <=> c.password_env = {}
  /\ c.password_env \subseteq environment

MqttConfigAccepted(c, environment) == QosOf(c) \in 0 .. 2 /\ CredentialsAccepted(c, environment)

\* A source url with a scheme is a feed to connect to, one without is bound.
RemoteFeedAccepted(url) == url.scheme = "wss" => "tls" \in Features

\* The address without scheme and path.
WsBind(url) == [scheme |-> "", host |-> url.host, path |-> ""]

\* resolve_source, by what it refuses: not the connector's own validation, which a
\* spawned task runs into later.
SourceAccepted(s, environment) ==
  CASE s.type = "file"      -> TRUE
    [] s.type = "websocket" -> RemoteFeedAccepted(s.url)
    [] s.type = "kafka"     -> "kafka" \in Features
    [] s.type = "mqtt"      -> "mqtt" \in Features /\ MqttConfigAccepted(s, environment)

\* spawn_sink, by what it refuses: here the connector is made before the task.
SinkAccepted(s, environment) ==
  CASE s.type \in {"file", "stdout", "websocket"} -> TRUE
    [] s.type = "kafka" -> "kafka" \in Features /\ KafkaAccepted(s)
    [] s.type = "mqtt"  -> /\ "mqtt" \in Features
                           /\ MqttConfigAccepted(s, environment)
                           /\ MqttAccepted(s)

\* A source the task gives up at once, whatever is at the other end.
SourceUnusable(s) ==
  CASE s.type = "kafka" -> ~KafkaAccepted(s)
    [] s.type = "mqtt"  -> ~MqttAccepted(s)
    [] OTHER -> FALSE

\* A speed is a multiplier, or "inf".
ReplayAccepted(replay) == replay.inf \/ replay.speed > 0

\* The endpoint is served unless the section turns it off.
EndpointWanted(topology) == \E m \in topology.metrics : m.enabled

\* serve puts its own two addresses in the place of source and sink.
Served(topology, sourceBind, sinkBind) ==
  [topology EXCEPT !.source = {[type |-> "websocket", url |-> WsBind(sourceBind)]},
                   !.sink   = {[type |-> "websocket", url |-> WsBind(sinkBind)]}]

=============================================================================
