---------------------------- MODULE TopologyRun ----------------------------
(***************************************************************************)
(* The life of a process that runs a topology, over several starts with    *)
(* topologies that need not be the same: run_topology step by step, with   *)
(* every place where it refuses to start, the checkpoint that passes the   *)
(* operators' state from one start to the next, and the metrics endpoint   *)
(* that is served meanwhile.                                               *)
(*                                                                         *)
(* pc is the next thing run_topology does: "build" the stages, open the    *)
(* "checkpoints", start the "source", the "sink" and the "endpoint", then  *)
(* "run" the pipeline and "drain" the sink.  No process is "down".         *)
(*                                                                         *)
(* The loop of the pipeline is module Pipeline; here one step takes one    *)
(* event.  The state of an operator is the number of events it has seen,   *)
(* over all starts, and the declaration it was first built from.           *)
(***************************************************************************)
EXTENDS TopologyConfig, MetricsEndpoint

CONSTANTS
  Commands,       \* [serve, topology]: what the process may be started with
  Environment,    \* the environment variables that are set
  SourceBind,     \* --source-bind and --sink-bind of serve
  SinkBind,
  Capacity,       \* CHANNEL_CAPACITY
  MaxStarts,      \* bound: starts of the process
  ScrapedStarts,  \* bound: the starts in which the metrics are scraped
  MaxEvents       \* bound: events of one start

ASSUME RunBoundsAssumption ==
  Capacity \in Nat \ {0} /\ MaxStarts \in Nat /\ MaxEvents \in Nat
\* load_topology has read it, or the process has ended by itself.
ASSUME LoadedAssumption == \A command \in Commands : Readable(command.topology)
ASSUME CountersAssumption == "received" \in Counters

VARIABLES
  pc,
  topology,   \* the topology in effect
  ops,        \* by place in the chain, the states of the stateful stages
  source,     \* the source task: "none", "up" or "ended"
  inbox,      \* how many events the input channel holds
  sent,       \* how many events the source has sent in this start
  sink,       \* the sink task: "none", "up" or "ended"
  disk,       \* the latest checkpoint: states by key, << >> if there is none
  starts

process == <<pc, topology, ops, source, inbox, sent, sink>>
runVars == <<process, disk, starts>>
vars == <<runVars, counters, endpointVars>>

(***************************************************************************)
(* The state of the operators                                              *)
(***************************************************************************)

\* The key of the open windows in a checkpoint.
WINDOW_STATE_KEY == "pipeline.windows"

StatefulAt == {k \in DOMAIN topology.operators : topology.operators[k].type \in Stateful}
Stage(k) == topology.operators[k]

Identity(op) == [type |-> op.type, name |-> op.name]
Fresh(op) == [of |-> Identity(op), seen |-> 0]

\* Mutant: a checkpoint of other operators than these is left aside.
RestoredIfAllThere(op, saved) ==
  LET key == KeyOf(op)
  IN  IF /\ DOMAIN saved \subseteq {KeyOf(Stage(k)) : k \in StatefulAt}
         /\ key \in DOMAIN saved /\ saved[key].of.type = op.type
      THEN saved[key]
      ELSE Fresh(op)

\* A state is looked up by key, and one of another type does not fit.
Restored(op, saved) ==
  LET key == KeyOf(op)
  IN  IF key \in DOMAIN saved /\ saved[key].of.type = op.type THEN saved[key] ELSE Fresh(op)

\* The entry of a stage by its key, which no other stage has if there are checkpoints.
\* The windows come last.
Snapshot ==
  LET stage(key) == CHOOSE k \in StatefulAt : KeyOf(Stage(k)) = key
      held == {KeyOf(Stage(k)) : k \in StatefulAt}
      windowed == IF topology.window = {} THEN {} ELSE {WINDOW_STATE_KEY}
  IN  [key \in held \cup windowed |->
         IF key \in windowed THEN [of |-> [type |-> "windows", name |-> key], seen |-> 0]
                             ELSE ops[stage(key)]]

\* A write that fails is printed and the run goes on.
WriteCheckpoint ==
  IF topology.checkpoint = {} THEN UNCHANGED disk ELSE disk' \in {disk, Snapshot}

\* Two stateful stages with one key.
Duplicates == \E i, j \in StatefulAt : i # j /\ KeyOf(Stage(i)) = KeyOf(Stage(j))

(***************************************************************************)
(* Starting                                                                *)
(***************************************************************************)

Nothing == [operators |-> << >>, window |-> {}, checkpoint |-> {}, replay |-> {},
            source |-> {}, sink |-> {}, metrics |-> {}]

Init ==
  /\ pc = "down" /\ topology = Nothing /\ ops = << >>
  /\ source = "none" /\ inbox = 0 /\ sent = 0 /\ sink = "none"
  /\ disk = << >> /\ starts = 0
  /\ counters = Zero
  /\ EndpointInit

\* The process ends: nothing of it is left but what is on disk.
Down ==
  /\ pc' = "down" /\ topology' = Nothing /\ ops' = << >>
  /\ source' = "none" /\ inbox' = 0 /\ sent' = 0 /\ sink' = "none"
  /\ counters' = Zero
  /\ listener' = "none" /\ scrapes' = [c \in Scrapers |-> Unconnected] /\ published' = Zero
  /\ UNCHANGED <<disk, starts>>

\* run_topology or serve is called with a topology that was loaded.
Start(command) ==
  /\ pc = "down" /\ starts < MaxStarts
  /\ starts' = starts + 1
  /\ topology' = IF command.serve THEN Served(command.topology, SourceBind, SinkBind)
                                  ELSE command.topology
  /\ pc' = "build"
  /\ UNCHANGED <<ops, source, inbox, sent, sink, disk, counters, endpointVars>>

Buildable ==
  /\ topology.sink # {}
  /\ \A k \in DOMAIN topology.operators : StageAccepted(topology.operators[k])
  /\ \A w \in topology.window : WindowAccepted(w)

Build ==
  /\ pc = "build"
  /\ \/ ~Buildable /\ Down
     \/ /\ Buildable
        /\ ops' = [k \in StatefulAt |-> Fresh(Stage(k))]
        /\ pc' = "checkpoints"
        /\ UNCHANGED <<topology, source, inbox, sent, sink, disk, starts, counters, endpointVars>>

\* The latest checkpoint goes into the stages before two stages of one key are refused.
OpenCheckpoints ==
  /\ pc = "checkpoints"
  /\ \/ topology.checkpoint = {} /\ UNCHANGED ops /\ pc' = "source"
     \/ /\ topology.checkpoint # {} /\ ~Duplicates
        /\ ops' = [k \in StatefulAt |-> Restored(Stage(k), disk)]
        /\ pc' = "source"
  /\ UNCHANGED <<topology, source, inbox, sent, sink, disk, starts, counters, endpointVars>>

\* The directory cannot be made, or two stages share a key.
CheckpointsRefused ==
  /\ pc = "checkpoints" /\ topology.checkpoint # {}
  /\ Down

\* A recording takes the place of the source, whatever that is.
SourceStarts ==
  IF topology.replay # {}
  THEN \A r \in topology.replay : ReplayAccepted(r)
  ELSE topology.source # {} /\ \A s \in topology.source : SourceAccepted(s, Environment)

StartSource ==
  /\ pc = "source"
  /\ \/ ~SourceStarts /\ Down
     \/ /\ SourceStarts
        /\ source' = "up"
        /\ pc' = "sink"
        /\ UNCHANGED <<topology, ops, inbox, sent, sink, disk, starts, counters, endpointVars>>

SinkStarts == \A s \in topology.sink : SinkAccepted(s, Environment)

\* The source is running by now, and what it took is lost if the sink is refused.
StartSink ==
  /\ pc = "sink"
  /\ \/ ~SinkStarts /\ Down
     \/ /\ SinkStarts
        /\ sink' = "up"
        /\ pc' = "endpoint"
        /\ UNCHANGED <<topology, ops, source, inbox, sent, disk, starts, counters, endpointVars>>

\* The address is bound before the pipeline runs, or the start is refused.
StartEndpoint ==
  /\ pc = "endpoint"
  /\ \/ EndpointWanted(topology) /\ Down
     \/ /\ IF EndpointWanted(topology) THEN Bind ELSE UNCHANGED endpointVars
        /\ pc' = "run"
        /\ UNCHANGED <<topology, ops, source, inbox, sent, sink, disk, starts, counters>>

(***************************************************************************)
(* Running                                                                 *)
(***************************************************************************)

Unusable == topology.replay = {} /\ \E s \in topology.source : SourceUnusable(s)

SourceSends ==
  /\ source = "up" /\ ~Unusable
  /\ sent < MaxEvents /\ inbox < Capacity
  /\ inbox' = inbox + 1 /\ sent' = sent + 1
  /\ UNCHANGED <<pc, topology, ops, source, sink, disk, starts, counters, endpointVars>>

SourceEnds ==
  /\ source = "up"
  /\ source' = "ended"
  /\ UNCHANGED <<pc, topology, ops, inbox, sent, sink, disk, starts, counters, endpointVars>>

\* A filter or a rate limit may keep an event from the stages after it.  With the sink
\* gone, the first output there is ends the run wherever in the chain it is made.
Process ==
  /\ pc = "run" /\ inbox > 0
  /\ inbox' = inbox - 1
  /\ counters' = [counters EXCEPT !["received"] = @ + 1]
  /\ \E reach \in 0 .. Len(topology.operators) :
       /\ \/ reach = Len(topology.operators) /\ pc' = "run"
          \/ reach > 0 /\ Stage(reach).type \in {"filter", "rate_limit"} /\ pc' = "run"
          \/ sink = "ended" /\ topology.operators # << >> /\ pc' = "drain"
       /\ ops' = [k \in DOMAIN ops |-> IF k <= reach THEN [ops[k] EXCEPT !.seen = @ + 1]
                                                     ELSE ops[k]]
  /\ UNCHANGED <<topology, source, sent, sink, disk, starts, endpointVars>>

\* Mutant: the counters are reset with each checkpoint.
TickResets ==
  /\ pc = "run" /\ topology.checkpoint # {}
  /\ WriteCheckpoint
  /\ counters' = Zero
  /\ UNCHANGED <<process, starts, endpointVars>>

Tick ==
  /\ pc = "run" /\ topology.checkpoint # {}
  /\ WriteCheckpoint
  /\ UNCHANGED <<process, starts, counters, endpointVars>>

InputEnds ==
  /\ pc = "run" /\ source = "ended" /\ inbox = 0
  /\ WriteCheckpoint
  /\ pc' = "drain"
  /\ UNCHANGED <<topology, ops, source, inbox, sent, sink, starts, counters, endpointVars>>

\* A write or a bind fails, or everything is written.  A listening sink has no end.
SinkEnds ==
  /\ sink = "up"
  /\ sink' = "ended"
  /\ UNCHANGED <<pc, topology, ops, source, inbox, sent, disk, starts, counters, endpointVars>>

\* run_topology aborts the endpoint and returns, and with it the process.
Return == pc = "drain" /\ sink = "ended" /\ Down

\* The process is killed.
Crash == pc # "down" /\ Down

ServeMetrics == starts \in ScrapedStarts /\ Endpoint /\ UNCHANGED <<runVars, counters>>

Stopped == pc = "down" /\ starts = MaxStarts /\ UNCHANGED vars

Startup == Build \/ OpenCheckpoints \/ CheckpointsRefused \/ StartSource \/ StartSink
             \/ StartEndpoint

Next ==
  \/ \E command \in Commands : Start(command)
  \/ Startup
  \/ SourceSends \/ SourceEnds
  \/ Process \/ Tick \/ InputEnds
  \/ SinkEnds
  \/ Return \/ Crash
  \/ ServeMetrics
  \/ Stopped

\* The runtime polls the listener and the task of a connection that can go on.
Fairness ==
  \A c \in Scrapers :
    /\ WF_vars(Accept(c) /\ UNCHANGED <<runVars, counters>>)
    /\ WF_vars(Render(c) /\ UNCHANGED <<runVars, counters>>)

Spec == Init /\ [][Next]_vars /\ Fairness

(***************************************************************************)
(* Properties                                                              *)
(***************************************************************************)

\* A stage that was restored goes on from a state of its own type and name, whatever
\* topologies ran in between.  The engine of cep has one key for all names, so that a
\* pattern may go on from the matches of another ("loaded into every stateful operator
\* by name", README.md:164).
ResumesItsOwnState ==
  \A k \in DOMAIN ops :
    /\ ops[k].of.type = Stage(k).type
    /\ Stage(k).type # "cep" => ops[k].of = Identity(Stage(k))

\* Every checkpoint goes on from the one before: a state of the same operator in both
\* has seen no less, although the topology changed, starts were refused and the process
\* was killed in between.
HistoryGoesOn ==
  [][\A key \in DOMAIN disk \cap DOMAIN disk' :
       disk'[key].of = disk[key].of => disk'[key].seen >= disk[key].seen]_vars

\* A client that connects is taken up, and one that sent its head is answered, however
\* slowly the others send theirs, as long as the listener lives.
RequestsAnswered ==
  \A c \in Scrapers :
    At(c) \in {"queued", "rendering"} ~>
      At(c) \notin {"queued", "rendering"} \/ listener # "up"

=============================================================================
