---------------------------- MODULE MCTopologyRun ----------------------------
(***************************************************************************)
(* Topologies for TLC.  Each differs from the first in what one run does   *)
(* differently, or in one thing a start refuses.                           *)
(***************************************************************************)
EXTENDS TopologyRun

FenceA  == [type |-> "geofence", name |-> "a"]
FenceB  == [type |-> "geofence", name |-> "b"]
PairsA  == [type |-> "proximity", name |-> "a"]
Dotted  == [type |-> "geofence", name |-> WINDOW_STATE_KEY]
CepP    == [type |-> "cep", name |-> "p", steps |-> <<[tokens |-> 3, field |-> "speed", op |-> ">",
                                                      numeric |-> TRUE, value |-> 5]>>]
CepQ    == [CepP EXCEPT !.name = "q"]
BadCep  == [CepP EXCEPT !.steps = <<[CepP.steps[1] EXCEPT !.tokens = 2]>>]
Limit   == [type |-> "rate_limit", name |-> "l", rate |-> 1]
NoLimit == [Limit EXCEPT !.rate = 0]

File   == [type |-> "file"]
Bare   == [scheme |-> "", host |-> "h", path |-> ""]
Feed   == [type |-> "websocket", url |-> [Bare EXCEPT !.scheme = "ws", !.path = "/events"]]
Secure == [type |-> "websocket", url |-> [Feed.url EXCEPT !.scheme = "wss"]]
Kafka  == [type |-> "kafka", brokers |-> {"k"}, topic |-> "t"]
Mqtt   == [type |-> "mqtt", url |-> [host |-> "m", port |-> {1883}], topic |-> "t", qos |-> {},
           username |-> {"u"}, password_env |-> {"PASSWORD"}]

\* Two operators, a checkpoint, a file at each end.
Base == [operators |-> <<FenceA, Limit, CepP>>, window |-> {}, checkpoint |-> {"dir"},
         replay |-> {}, source |-> {File}, sink |-> {File}, metrics |-> {}]
With(operators) == [Base EXCEPT !.operators = operators]

Runnable ==
  {Base, With(<<PairsA, CepQ>>), With(<<FenceB, PairsA>>), With(<<CepQ>>),
   [With(<<Dotted, FenceA>>) EXCEPT !.window = {[kind |-> "tumbling", keys |-> {"duration_secs"}]}],
   [With(<<FenceA, FenceA>>) EXCEPT !.checkpoint = {}]}

\* Refused, each at another step: duplicates, stages, window, sections, source, sink.
Refused ==
  {With(<<FenceA, FenceA>>), With(<<CepP, CepQ>>), With(<<NoLimit>>), With(<<BadCep>>),
   [Base EXCEPT !.window = {[kind |-> "sliding", keys |-> {"duration_secs"}]}],
   [Base EXCEPT !.sink = {}], [Base EXCEPT !.source = {}],
   [Base EXCEPT !.source = {Secure}], [Base EXCEPT !.source = {Kafka}],
   [Base EXCEPT !.replay = {[inf |-> FALSE, speed |-> 0]}],
   [Base EXCEPT !.sink = {[Mqtt EXCEPT !.password_env = {}]}], [Base EXCEPT !.sink = {Kafka}],
   [Base EXCEPT !.sink = {[Mqtt EXCEPT !.qos = {3}]}]}

\* With an endpoint, and with a source that is given up at once.
Served1 == [operators |-> <<>>, window |-> {}, checkpoint |-> {"dir"}, replay |-> {},
            source |-> {Feed}, sink |-> {Feed}, metrics |-> {[enabled |-> TRUE]}]
NoTopic == [Base EXCEPT !.source = {[Mqtt EXCEPT !.topic = ""]},
                        !.metrics = {[enabled |-> FALSE]}]

MCCommands ==
  {[serve |-> FALSE, topology |-> t] : t \in Runnable \cup Refused \cup {NoTopic}}
    \cup {[serve |-> TRUE, topology |-> Served1]}

MCBind == [Bare EXCEPT !.scheme = "ws"]

MCCounters == {"received"}

=============================================================================
