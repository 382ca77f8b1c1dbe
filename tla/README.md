# Fluvius in TLA+

A verification of Fluvius, a streaming engine for geospatial events: the
watermark and the windows, the loop that takes events through a chain of
operators, the operators, the checkpoints a run leaves for the next one, the
configuration a run accepts or refuses, its sources and sinks, and the endpoint
its metrics are read from. The modules are checked with TLC on small instances;
the theorems in the `_proofs` modules are checked with TLAPS for every value of
the constants.

Paths below are relative to the repository; `core`, `geo`, `connectors` and
`cli` stand for `src/crates/fluvius-core/src` and its siblings.

## 1. The system

A topology (TOML) describes a source, a chain of operators, a window and a
sink. `fluvius run` builds them, connects source, pipeline and sink as tokio
tasks over bounded channels of 10 000 places, and waits for the pipeline and then
for the sink.

| component | state it keeps | operations | interacts with |
|---|---|---|---|
| watermark, `core/watermark.rs` | `current`, `late_count` | `advance`, `is_late` | the loop asks it for each event |
| windows, `core/window.rs` | the open windows, in order of opening | `assign`, `expire`, `snapshot`, `restore` | the loop; the checkpoint |
| loop, `core/pipeline.rs` | its place in the loop, the stages, windows, watermark | `run`, `flush_stateful`, `write_checkpoint`, `restore_from` | input and output channel, ticker, metrics, checkpoint manager |
| operators, `core/operator.rs`, `core/cep.rs`, `geo/*.rs` | per entity or per cell maps | `process`, `on_window_close`, `snapshot`, `restore` | called by the loop, one call at a time |
| checkpoint files, `core/checkpoint.rs` | the directory, `next_id`, `max_retained` | `new`, `checkpoint`, `gc`, `restore_latest` | the loop, and the run before and after it |
| metrics, `core/metrics.rs` | five atomic counters | `inc_*`, an HTTP endpoint | written by the loop, read by the endpoint at any time |
| state store, `core/state.rs` | states by key | `set`, `get`, a snapshot of all | filled from the stages for a checkpoint, and from it for the stages |
| sources, `connectors/*.rs`, `core/replay.rs` | connections, a place in a file, an offset, a delay | read, skip, send, reconnect | the input channel; a file, a feed, a broker |
| sinks, `connectors/*.rs` | an open file, a broadcast buffer, a client's queue | take, write, publish, broadcast | the output channel; a file, clients, a broker |
| configuration, `core/topology.rs`, `cli/topology_run.rs` | none | read a topology, build stages, refuse | the runner |
| runner, `cli/topology_run.rs`, `cli/main.rs` | the tasks | `run_topology`, `serve`, `cmd_run_file`, `enable_checkpoints`, `spawn_sink`, `resolve_source` | all of them |

What is hard about it:

* *Order in time.* Events come out of order, by event time, and every decision
  (late or not, which window, when a window closes) is taken against a watermark
  that each event can move. One watermark serves every entity.
* *Interleaving.* Source, pipeline and sink run concurrently over bounded
  channels; the ticker of the checkpoints competes with the input in a `select!`;
  the pipeline can be stopped at each send, in the middle of an event.
* *Partial failure.* The sink can go away while an event is half processed; a
  checkpoint write can fail or be torn; a removal can fail.
* *Crash and restart.* A new process starts from the latest checkpoint, which
  holds the operators and the windows and not the watermark, possibly with another
  topology than the one that wrote it. Its source may read everything again, go on
  from an offset that was committed too early, or go on from now.

What makes each component correct:

* watermark: never moves back, trails the newest kept event by the lateness, and
  no event older than that is kept;
* windows: each kept event is in exactly the windows around it; no window is left
  open behind the watermark or opened again after it closed; count windows close
  full; sessions are split by a gap and by nothing else;
* loop: outputs in the order of their causes, one flush per closed window, each
  stage sees what the stages before it let through, counters that add up,
  checkpoints of one moment between two events, an end to every run;
* checkpoint files: what a start restores is the last checkpoint completed,
  whatever happened since; no more files than the limit;
* operators: reports exactly when their condition holds over the stream of events,
  with what a window close resets reset, and a restart from a checkpoint that
  changes nothing;
* connectors: no client or endpoint that fails or lags takes the others with it, no
  stream with a hole, and everything stops when its peer has;
* runner: a stage goes on from its own state and no other, nothing that was taken
  is lost unless something failed, what reached a destination has no hole;
* metrics: a client that is slow keeps nobody waiting, and no counter goes back.

## 2. Modules

| module | models | composed of |
|---|---|---|
| `Windowing` | `Watermark::advance`, `WindowManager::assign` and `expire`, as pure operators | |
| `EventTime` | the event-time half of `Pipeline::run` with checkpoints and restarts | extends `Windowing` |
| `Pipeline` | `Pipeline::run` as a task between a source and a sink task | extends `Windowing`, implements `EventTime` |
| `SnapshotRegister` | abstract: a durable register of the latest snapshot | |
| `CheckpointStore` | `CheckpointManager` and its directory, file by file | implements `SnapshotRegister` |
| `Picking` | what `filter` and `partition` leave of a `Vec` | |
| `Condition` | `compile_condition`: which conditions compile, and when they hold | |
| `Cep`, `Trajectory`, `Geofence`, `SpatialAgg`, `Proximity`, `TokenBucket`, `EntityLimit`, `MapMatch` | one operator each, as pure operators `Initial`, `Process`, `Close`, `Snapshot`, `Restore` | `Cep` extends `Condition` |
| `Operators` | an operator under the calls of the pipeline and restarts | instances of the eight |
| `FeedClient` | `ws_remote_source` and `forward_events` | |
| `WsSink` | `WsSink::start`, its broadcaster and the tasks of its clients | |
| `WsTopology` | `run_topology` with a WebSocket at both ends | instances of `FeedClient` and `WsSink` |
| `TopologyConfig` | what serde reads of a topology, and what the runner accepts of it | extends `Condition` |
| `MetricsEndpoint` | `serve_metrics` and its connections | |
| `TopologyRun` | `run_topology` and `serve` over several starts of a process | extends `TopologyConfig` and `MetricsEndpoint` |
| `Delivery` | every source and sink around the pipeline, over several starts | |
| `SequenceLemmas` | facts about sequences, for the proofs | |
| `EventTime_proofs`, `CheckpointStore_proofs`, `Pipeline_proofs`, `Operators_proofs`, `WsTopology_proofs`, `TopologyRun_proofs`, `Delivery_proofs` | theorems | extend the modules they are about |
| `MCEventTime`, `MCPipeline`, `MCOperators`, `MCTopologyRun`, `MCDelivery` | values of the constants for TLC | extend the modules they instantiate |

Definitions named in a comment `Mutant: ...` are faulty versions of the
definition that follows them. No specification uses them; each is there to show
that a property fails when the code has that fault.

### Windowing

Timestamps are milliseconds. An event is `[id, entity, ts]`, its id being its
place in the order of arrival. `WindowManager` keeps a `Vec<Window>`; here it is
a set, and the field `opener`, the id of the event the window was pushed for,
gives the order of the `Vec` back where the code looks for the first
(`position`) or the last window (`FirstOf`, `LastOf`). `TruncDiv` is the
division of `i64`, which rounds towards zero. `Assign` has one definition per
strategy. The events of a window are one sequence in order of arrival; the
code's map from entity to events is its split by entity, of which `Continues` asks for the last.

### EventTime

One event is taken up in two steps, as the loop body does it: `Observe` is its
top (lateness, watermark, expiry), `Settle` its bottom (assignment). Between the
two the operators run, and the event is in `hand`. `Checkpoint` is possible only
between events, because `write_checkpoint` is called in the `select!` and after
the loop. `Resume` is a stop at any step followed by `restore_from` in a new
process: the windows come back and the watermark starts at the epoch.
`accepted`, `closed` and `horizon` are histories that only properties read.

### Pipeline

The variable `topology` is the one that is run: its stages, its window, and the
bounds of its stream. It never changes. `pc` is where the pipeline waits or works;
an action is what happens between two awaits, or a call of one operator.
`Receive` is `recv` up to the first stage or flush; `MapStage` and
`StatefulStage` one round of the loop over the stages; `FlushStage` one round of
`flush_stateful`; `Send`, `IncEmitted` and `SendFails` the send of one output,
the counter after it, and the early return when the sink is gone; `ChainDone` the
bottom of the body; `Tick` the checkpoint branch of the `select!`; `InputClosed`
and `RunReturns` the closing sequence. The counter is a step of its own because
the sink, and a reader of the metrics, can run between the send and it.

An operator is abstracted to the calls it receives. `opLog[s]` is the sequence
of event ids stage `s` processed with a mark for every `on_window_close`; its
state is a function of that sequence, so the sequence is also what its snapshot
carries. A call may return any number of outputs up to `maxOutputs`, an output
being known by the call it came from. Map stages keep or filter an event at will,
which covers filter, transform and rate limit.

The source sends events with any entity and timestamp and may end at any time.
The sink takes outputs, may fail at any time (`break` at the first write error)
and ends when the pipeline has dropped its sender. A write of a checkpoint may
always fail; the code prints the error and goes on.

### CheckpointStore

`files` maps the ids of the files in the directory to contents. A write is two
steps, since `fs::write` truncates before it fills: a file between the two, or
left by a failed write or a stop, is `Torn` and does not parse. `gc` is one step
per removed file, each of which may fail. `Stop` can happen at any step. The
content of a checkpoint is its number, which is all the properties need.

### Operators

The operators of a chain share no state, so a chain is a set of operators each with
a stream of calls of its own, and `Operators` is one of them: `kind` chooses which, `Process`,
`WindowClose` and `Restart` are the calls. The order of the calls among the
stages is what `Pipeline` is about; that `Pipeline` may abstract an operator to
its log of calls rests on each operator here being a function of its calls (the
order of a hash map, and the clock of the token bucket, apart).

`Restart` is a checkpoint, a stop and a restore of a new operator. What was
processed after the checkpoint is undone by it, so a behaviour with such a stretch
has the same continuation as one without, and `Restart` leaves `lineage`, the
calls the present state descends from, as it is. The properties compare the
reports with `lineage` alone, so they say that a restart changes nothing; the
token bucket is not in a checkpoint, and its property ends at a restart.

The data are small: a position is a number, a zone or the range of a step a set
of positions, a condition a set of speeds, an event without a speed has the speed
-1. `Trajectory` compares speeds by cross-multiplication on a line. Outputs keep the
fields that a property reads.

`Proximity` is on a sphere. A position is a latitude and a longitude in whole degrees,
distances are compared by their haversines, which a table gives, and cosines come from
the same table, so that the box is as wide as `longitude_range` makes it: the half
width over the cosine of the latitude, or the whole globe where the box would reach a
pole or the antimeridian; its height is the half width as it is. The code divides by
the cosine, the model multiplies the other side by it. The tree and the map of
positions are two variables of its state, as in `SpatialIndex`.

`MapMatch` projects in degrees and compares distances on the ground, as its code does.
A degree of latitude is `Stretch` times as long as one of longitude, which is 1 over
the cosine of the latitude the roads lie near. Roads run in any direction: a foot is a
fraction of its segment and the square of a distance a fraction, and both are exact.

### FeedClient, WsSink, WsTopology

The feed client is a loop: `LoopTop` tests the channel, `ConnectOk` and
`ConnectFails` end an attempt, `ReadEvent`, `ReadOther`, `Sent` and `SendFails`
are `forward_events`, `Wake` ends the sleep and doubles the delay. The feed
publishes events and other frames, closes, or is cut off with frames unread.

In the sink, `Broadcast` moves an output from the pipeline's channel to the
broadcast channel, whoever listens. A client has a place in it (`next`) from the
moment its connection is accepted. The channel keeps the last `Ring` outputs; a
receiver further behind gets an error, and the loop of its task ends
(`LagEnds`). Clients come, read and fail at will.

`WsTopology` puts the pipeline between the two as a relay that takes an event,
sends an output, and ends with its input or with a failed send, dropping the
receiver of the feed (`gone`).

### TopologyConfig, MetricsEndpoint, TopologyRun

A topology is a record of declarations, each with the fields that the code tests
or that later steps depend on; a section that may be missing is a set of at most
one. `Readable` is what serde needs of a declaration, `StageAccepted`,
`WindowAccepted`, `SourceAccepted`, `SinkAccepted` and `ReplayAccepted` are the
refusals of `build_stage`, `resolve_source`, `spawn_sink` and `replay_source`.
`Features` and `Environment` are the connectors compiled in and the variables
set, on which some refusals depend.

`TopologyRun` takes one start after another through `run_topology` (`pc`), each
with a command chosen anew, and ends it in any of the refusals, a kill, or the
return. What passes from one start to the next is `disk`, the latest checkpoint,
a map from keys to states. The state of an operator is the number of events it
has seen over all starts, and the declaration it was built from, so that a state
that went to the wrong operator shows. The loop is one step per event here, and
which stages an event reaches is left open where a filter or a rate limit is in
the chain.

The endpoint has a task per connection. A connection is queued, accepted, read in
chunks up to `HeadLimit`, and answered by loading the counters one by one, in any
order, while the pipeline counts (`Relaxed`). `published` is the history of what
answers have said.

### Delivery

An event is the reader that took it and its number there. The readers of a
listening source are its connections; every other source has one. `position` is
how far a reader has read, `offset` what a consumer group has committed, which
`Commit` sets to the position at any time. `lineage` is the sequence of events
that the operators' state comes from: a start takes it from the checkpoint, and
`Tick` and `InputEnds` save it. `ResumedAt` is where each source begins again.
The sinks differ in when an output is where it belongs: at once (`Write`), when the
MQTT driver has taken it out of the client's queue (`Enqueue`, `Poll`), or when
`cmd_run_file` writes what it collected (`Collect`, `WriteCollected`). `excused`
collects the events that the code itself gives up: those not in the checkpoint
when the process was killed or refused, when its sink or its last write failed, or
when it keeps none.

## 3. Runs

Every run finishes within two minutes with two workers.

| run | instance | what it shows |
|---|---|---|
| `EventTime` | tumbling 3, sliding 4/2, session 3 and count 2; two entities, lateness 2, five timestamps, four events, one restart at any step | `WatermarkTrails`, `NoStragglerAccepted`: what is late. `OpenWindowsLive`, `NoReopen`: windows against the watermark. `EventsConserved`: every kept event is in exactly its windows. `CountWindowsFill`, `SessionsSplitOnlyByGap`: the two strategies without a grid. |
| `CheckpointStore` | limits 1 and 3, chosen anew at each start, six checkpoints | `LatestSurvives`, `TornIsNext`, `RetainsNewest`, `NeverOverwritten`, and `ImplementsRegister`: with all its files, failures and stops, the directory is one durable register |
| `Pipeline` | two topologies: stateful, map, stateful with tumbling 2 and one output per call; map, stateful with sliding 2/1, so that one event closes two windows, and two outputs per call; channels of one place, two events | `OutputsInOrder`, `StagesSeeKeptEvents`, `CheckpointIsACut`, `ClosingCheckpointIsCurrent`, `OneWindowBetweenFlushes`, `MetricsAddUp`, `FlushedOncePerWindow`, `ImplementsEventTime`; `RunEnds`, `SentIsReceived` under fairness |
| `Operators` | each operator with two entities (the trajectory, the token bucket and the map matcher with one), one to six calls, a restart between any two | `CepMatchesExact`: a match is reported if and only if the pattern occurred. `StopsExact`, `FencesReportCrossings`, `AggregatesMatchEvents`, `LimitsKept`: the same of the others. `ProximityAlertsExact`, `SnapsToNearest`: the same, up to what the geometry of the code overlooks (section 5) |
| `WsTopology` | three frames, three connections, one client, channels and ring of one place, delays 1, 2, 3 | `ClientsSeeNoGap`, `OneConnectionAfterGone`; `OutputsReachBroadcast`, `FeedStopsOrWaits` under fairness |
| `TopologyRun` | three starts with any of twenty-one commands, six of them topologies that differ in names, kinds and order of their operators, thirteen refused at one step each, one with a source that is given up at once, one served with an endpoint; two events a start, two clients of the endpoint, one counter | `ResumesItsOwnState`, `HistoryGoesOn`: states across starts. `ScrapesGoForward`, and `RequestsAnswered` under fairness: the endpoint |
| `Delivery` | every source with every sink, two connections, three events a reader of which the second does not decode, channels of one place, three starts | `TakenIsKept`: nothing taken is lost unless something failed. `LandsInOrder`: each start's outputs arrive in order and without a hole |
| `EventTimeSessionLate` | session 3, lateness 4, one entity | violated, see section 5 |
| `EventTimeResume` | tumbling 3, one restart | violated, see section 5 |
| `OperatorsStop` | the trajectory operator of `Operators` | violated, see section 5 |
| `OperatorsAggregate` | the aggregator of `Operators` | violated, see section 5 |
| `WsTopologyReturns` | as `WsTopology` | violated, see section 5 |

Bounds, and why they are enough to be interesting:

* *Four events, five timestamps.* Three events out of order are what it takes to
  move a faulty watermark back and reopen a window; the fourth closes it again.
  The timestamps lie on, between and beyond the bounds of the windows, with
  distances below, at and above the lateness and the gap. They start past the
  widest window, as real timestamps do: the negative starts of windows around the
  epoch are left out.
* *Two entities* are enough for one to move the watermark past the session of the
  other. They are interchangeable, so the run uses symmetry.
* *Channels of one place* block at every send; nothing in the loop depends on the
  capacity except blocking.
* *Two events* in `Pipeline`: the loop carries nothing from one event to the next
  but watermark, windows, counters and operator state. With a sliding window the
  first event opens two windows and the second closes both, or comes too late. What
  may be lost at two events is lost between the loop and its peers, whose every
  interleaving with both channels full, one of them, or none is in the run.
* *Six checkpoints, limits 1 and 3*: a start with the smaller limit finds more
  files than it keeps and has to remove several, with a stop between them.
* *Calls in `Operators`*: a pattern of three steps and a timeout need four events;
  a move, a stop, a window close and another stop need five calls; a cell with
  threshold 3 fills and starts again in four; the token bucket empties and refills
  in six. Times lie below, at and above `within` and the stop duration, speeds on
  both sides of the limits. Two zones overlap.
* *Twelve places, a radius of 5 degrees*: at the distance of the radius along the
  equator; at latitude 60, where a degree of longitude is half as long, 9 degrees
  apart, which a box without the cosine misses; on both sides of the antimeridian; at
  latitude 86, where a pole is in the box; and at latitude 84, just outside of that.
* *Four roads at latitude 60* (`Stretch` 2): they have a corner, a segment without
  length, a crossing and a segment at an angle, and one is a single point. The one call
  of the map matcher takes every whole point around them, and each snap is compared
  with six points of every segment (`Parts` 5).
* *Three frames, a ring of one*: one output can be read, the next two overrun the
  client. Three connections let the client of the feed read one after its receiver
  is gone, and a faulty one another.
* *Three starts* (`MaxStarts`): the state of an operator can skip a start in which
  it is not declared and come back in the third. `ScrapedStarts` has the first only,
  since the endpoint keeps nothing between starts. The one counter is that of events
  received: that an answer never goes behind an earlier one is checked and proved for
  each counter by itself. An answer that mixes moments of several counters, which the
  code's separate loads allow, is a step of `MetricsEndpoint`, but this run has no
  second counter to see one. `HeadLimit` 1: a head that ends in
  its first chunk, and one that is cut off. Two clients are enough for one to hold
  the other up.
* *Two connections, three events each*: one connection can close with an event in
  the channel while the other is in the middle of a send. The malformed event lies
  between two good ones.

Deadlock is checked in every run but those of `WsTopology`, where the process may
end: the tasks are done, and nobody connects any more. `Pipeline` ends in
`Terminated`, where all three tasks have ended; the bound on the events never stops
it, since the source may end. `TopologyRun` and `Delivery` end in `Stopped`, after
the last start that is allowed. `EventTime` and `CheckpointStore` can always take a
checkpoint, or stop and start, and `Operators` can always restart.

Fairness is stated in `Pipeline`, `WsTopology` and `TopologyRun`. In `Pipeline`: weak
fairness of the pipeline's own steps (`Run`) and of the sink's receive and end. Both
are tasks of a multi-threaded runtime that polls a woken task again. `Run` leaves out
the ticker, which has no part in progress, and includes `Receive`, since the
`select!` picks at random among the ready branches: with events waiting, the ticker
cannot win for ever, and `Receive` stays enabled until it happens. The source owes
nothing: `RunEnds` starts from its end. The sink is not obliged to fail. A call of an
operator returns; the operators have no loops that wait. In `WsTopology`: weak
fairness of the feed client, the pipeline, the binding of the listener and the
broadcaster, each a task of the process. The remote feed and the clients of the sink
owe nothing, not even to read; that is what `OutputsReachBroadcast` is about. The
choice between a connection and a failed one is the network's. In `TopologyRun`: weak
fairness of the endpoint's accept and of the answer of each connection, a task of its
own; no client is obliged to send its head.

## 4. Theorems

`EventTime_proofs`, for every set of strategies, lateness, set of timestamps in
`Nat`, number of events and of restarts:

* `TypeCorrect`, `OpenWindowsStayLive`, `ClosedWindowsStayClosed`,
  `CountWindowsCloseFull` follow from one inductive invariant, `IInv`
  (`EventTimeInvariant`). None of the properties is inductive by itself. That no
  window is left open behind the watermark needs `HandLive`, as an event is
  assigned one step after it moved the watermark, and `SavedLive`, as a restart
  brings the windows of a checkpoint back. That no window reopens needs
  `ClosedBehind` and `GridIntervals`: a closed window ends at or before the
  watermark, an open one after it, and the two would have the same end. Size 0
  needs `NoEmptyGrid`. Count windows need `CountInv`: the last window has room
  while an event is in hand, since `expire` has just run. One lemma per action
  shows that it keeps `IInv`; the lemmas before them say what `assign` does to a
  set of windows, by strategy.
* `WatermarkTrailsNewest` and `StragglersAreDropped`: the two properties together
  are inductive over the type invariant.
* `EventsAreConserved`, from `ConservedInv`: the accepted events are numbered as they
  came (`LogInv`), windows hold only such of them as are through the body (`HeldInv`),
  on a grid the windows around an event are those of its intervals and distinct
  windows have distinct starts (`GridInv`), and otherwise exactly one window holds it
  (`RestInv`). It assumes `PastTheEpoch`: no timestamp is smaller than a sliding window is
  wide. Nearer to the epoch the division of `i64` rounds the first start up instead of
  down, past intervals that contain the event, and the property does not hold.
* `SessionsSplitByGap`, from `SessionInv`: a session holds one entity's events, in
  the order they came, and two of an entity closer than the gap share one that ends no
  earlier than a gap after the later, as long as the entity's events come in order.

`CheckpointStore_proofs`, for every set of limits without 0 (`Retaining`) and any
number of checkpoints: `LatestCheckpointSurvives`, `TornFileIsReused`,
`CompletedNeverOverwritten` and `StoreImplementsRegister`. The inductive
invariant says where the latest completed file is, that every other completed
file has a lower id and an older content, that only the file at `nextId` can be
torn, and that what `gc` has still to remove is below the latest. The refinement
maps each step of the manager to a step of the register or to a stutter:
finishing a write is the save, and removing a file leaves the latest alone.
`NewestAreRetained` is for the same limits: the files whose removal did not fail are
always an interval of ids up to the newest, since `gc` removes the lowest first and a
stop leaves what it had not reached (`RetainInv`).

`Pipeline_proofs`, for every set of topologies, any lateness, capacity and number
of events:

* `CountersAddUp`: `MetricsAddUp` with the types it needs, that an event is in hand
  from `Receive` to `ChainDone` (`HandFollowsPc`), and that an event is filtered
  once at most (`NotFilteredYet`) is inductive.
* `ClosingCheckpointHoldsAll`: from the closing write on the checkpoint is of the
  end of the stream, and only a sink that failed lets `run` return from elsewhere
  (`ClosingInv`).
* `LoopImplementsEventTime`: if every topology has a window (`AllWindowed`), the loop
  implements `EventTime`. `Receive` is `Observe`, `ChainDone` is `Settle`, a write
  that succeeds is `Checkpoint`, and everything else is a stutter. It needs that the
  channel numbers the events as they were sent (`ChannelInv`) and that nothing is in
  hand at the top of the loop (`BodyInv`). So the theorems about `EventTime`, whose
  variables are the loop's, hold of the loop with its operators and channels.
* `OutputsFollowTheCalls`: outputs are in the order of the calls they came from.
  `OutputsInv` says that what was delivered, what is in the channel and what is
  pending are sorted together, and made by calls that are `Past`: none is after the
  call the loop is at. A step of the loop only adds to `Past`, a call appends outputs
  of the place the loop is at, and a send moves one from a sequence to the next.
  Within a flush the rounds count down, which needs that the windows that are open
  are finitely many (`RoundsInv`, from `AssignFinite`).
* `StagesSeeWhatWasKept` is inductive with `StagesInv`: the accepted events are
  numbered upwards, the one in hand is the last and not yet filtered while there are
  stages to come (`EventsInv`), and a history holds accepted events only (`LogsInv`).
  The events a stage should have seen are then a sequence to which an action appends
  one event at most (`KeptIds`).
* `FlushedForEachWindow`: the flushes of a stateful stage are as many as the windows
  that closed, less what the rounds of flushing have still to do and more what the
  flush at the end adds (`Ahead`, `FlushInv`).
* `CheckpointsAreCuts`: what a checkpoint covers is through the loop body, so that no
  stage filters it later (`CutInv`), and windows hold only such events (`WindowsInv`).
* `StagesSeeOneWindow`, of tumbling windows of a size above 0 and no lateness (the
  antecedent of the property; a window of size 0 never closes): the watermark is the
  timestamp last accepted and its window is open between events (`ClockInv`); so an
  event of another window closes it, and until the flush reaches a stage
  the stage's calls are of the former window (`TrailingInv`, `BlocksInv`).

`Operators_proofs`, for every set of operators, any stream and any number of calls
and restarts. Each theorem is an invariant that says what the state of an operator is,
as a function of the history of its calls, and that what was reported so far was right;
the second part needs that a growing history does not change what was due before.

* `LimitsAreKept`, for any rate and limit. `LimiterInv`: the count of an entity is the
  number of its events in the window that is open, until it reaches the limit
  (`CountsInv`). `BucketInv`: what passed since any event that passed, together with
  the tokens left, is paid by the burst and by the rate over the time in between. The
  tokens left are what makes it inductive: a refill is paid by the time it is for, and
  an event by a token.
* `AggregatesAreOfTheirEvents`, for every `emit_threshold` but 0 (which reports each
  event of a cell alone, as 1 does). `AggregateInv`: the accumulator of a cell counts
  the events of the cell since it was last emitted or the window closed, fewer than the
  threshold, with their entities and, if the first has a speed, their highest and
  lowest speed (`CellFits`). The pairs of a snapshot are restored as the map they were
  written from (`RestoredCells`).
* `FencesAreCrossed`, for any zones (`FencesInv`): the flag of an entity and a zone is
  whether its last event was inside, and the window closes do not change it.
* `NeighboursAreAlerted`, for any threshold and any positions on the globe, whose box
  may be too narrow (section 5). `IndexInv`: the tree is that of the positions, and
  these are the last of each entity in the window. `BoxHoldsNear`: who is near is in
  the box, if the box is the whole globe or the two are within 13 degrees of longitude
  of each other; who is near is within the latitudes of the box in any case
  (`NearInLatitude`). It assumes `OnTheGlobe`, since a longitude beyond 180 degrees lies
  outside the box that stands for the whole globe, and `SphereAssumption` about the
  table of haversines: it increases, and places near each other and no more than 13
  degrees of longitude apart are within the half width over the cosine, padded by one
  percent. That is a fact of spherical trigonometry, not of the code; TLC evaluates it
  for the table of the runs, over all pairs of latitudes and all differences of
  longitude.
* `StopsAreOfStillStretches`, for any stop duration and any `MaxBuffer` but 0 (a
  buffer of no points never measures a leg). `TrajectoryInv`: the buffer ends with the
  last event of the window (`BufferEnds`); the time an entity last moved is that of its
  last fast leg (`LastMoves`); and
  it is stopped exactly if it was reported after its last fast leg. That a stop is long
  enough (`SlowBefore`) and found (`StillFound`) is over the events that come in order.
* `MatchesAreExact`, for any patterns. `PartialInv`: the partial match of an entity and
  a pattern is of the events since the last match, timeout or window close, in order
  and in time (`Matching`), and took the first event that goes on with it each time
  (`Greedy`). If the events hold an occurrence, its events come no earlier than the
  greedy ones, step by step, so a match that is not complete leaves none
  (`GreedyMissesNone`): what the code's one partial match per pattern rests on.
* `EventsSnapToNearest`, for any roads in any direction with whole coordinates
  (`OnThePlane`), any distance, any `Stretch`, and the points of each segment in any
  number of `Parts`. Seen from the clamped foot, a point is at a right angle to the
  segment or past its end (`FootSeen`), which is so in degrees. `TwoMetrics` carries it
  over to the ground, an inequality of Kantorovich in two dimensions: with k the square
  of `Stretch`, no point of the segment is nearer than the foot by more than the factor
  (k + 1) / (2 `Stretch`), and by none if the segment is along a parallel or a meridian
  (`FootAllowed`). For `Stretch` 2 the road of section 5 attains it.
  The two loops find the first of the nearest feet (`FirstLeastIs`), for which the
  comparison of fractions has to be a linear order (`FractionOrder`).

`WsTopology_proofs`, for channels and a ring of any capacity, any number of clients,
and a feed that publishes and drops connections as it likes:

* `FeedConnectsOnceMore`: once the receiver is gone the client can be connecting, but
  does not come from the head of its loop again (`LateInv`).
* `ClientsMissNothingBetween`, from two invariants. `FlowInv`: what came through the
  pipeline, then its two channels, is what the feed client forwarded, as long as the
  run has not returned and the listener did not fail; and the beginning of it always.
  `SeenInv`: what a client has seen ends at its place in the broadcast (`EndsBefore`).

`TopologyRun_proofs`, for any commands, number of starts, refusals and kills:

* `StagesResumeTheirOwn` and `CheckpointsGoOn`, from `RunInv`: what is on disk is
  under the key of the operator it is of (`DiskInv`), a stage has a state of its own
  operator from the build on (`StagesInv`), and from the restore on none has seen less
  than what is on disk for it (`AheadOfDisk`). The last needs that no two stages of a
  topology with checkpoints share a key, which `enable_checkpoints` refuses.
* `ScrapesNeverGoBack`: what a connection has loaded lies between what had been
  published when it was accepted and the counters (`EndpointInv`).

`Delivery_proofs`, for any sources, sinks, connections, malformed events, capacity
and number of starts:

* `TakenEventsAreKept`. The inductive invariant `KeptInv` says where an event is that
  is not excused: in the operators' state, the channel or a hand while the process
  runs; in the checkpoint when there is none; and in both once the pipeline drains
  with its sink in order. The last follows from `HandOfReader`: the channel is closed
  only when no reader is up, and only a reader that is up has an event in hand.
* `OutputsLandInOrder`, from three invariants. `EventsInOrder`: what was produced is
  sorted by the numbers of each reader, the channel too and behind it, and a hand has
  the last event its reader read. `LandInv`: where each kind of sink may hold an
  output, and that what landed, what is queued and what is in the output channel are
  in this order what was produced, as long as the sink and its client are up. And
  `KeptInv`, for which a sink task there is at which point of the process.

The assumptions are those of the modules on their constants, which TLC evaluates on
every run, and those named above: `AllWindowed`, `Retaining`, `PastTheEpoch`,
`OnTheGlobe`, `OnThePlane`, and the limits without 0. The instances of the passing runs
satisfy all of them.

Every safety property of a passing run is a theorem. Model-checked only are the
liveness properties: `RunEnds`, `SentIsReceived`, `OutputsReachBroadcast`,
`FeedStopsOrWaits` and `RequestsAnswered`. Liveness under fairness and `ENABLED` are
out of the prover's reach, and so are the library's theorems for induction, which take
an operator as a parameter. Where a proof is by induction on the length of a sequence
(what `Picked` leaves of one, `FirstLeast`), it shows that a
set of numbers holds 0 and the successor of each of its members, and is all of `Nat`
(`Inductive`, in `SequenceLemmas`, from the least element of its complement).

## 5. Where the code and its documents differ

* `EventTimeSessionLate`: "Extend the window end" (`core/window.rs:158`) moves the
  end back for an event that is out of order but not late, so the session can
  close less than a gap after an event it holds.
* `EventTimeResume`: the watermark is in no checkpoint and starts again at the
  epoch, so a resumed pipeline keeps events that the run before it would have
  dropped as late, although "the state a resume sees is the live state a crash
  would have left" (`core/pipeline.rs:218-219`).
* `OperatorsStop`: "a stop alert after 30 s at or below 1 m/s" (`README.md:18`);
  for an entity that has never moved the time is measured from its previous point
  (`geo/trajectory.rs:158`), so one that reports more often than every 30 s is
  never reported.
* `OperatorsAggregate`: "sum, mean, max and min aggregate the event `speed`"
  (`README.md:19`); when the first event of a cell has no speed, max and min start
  from 0 (`geo/spatial_agg.rs:125`), and a minimum of 0 is reported that no event
  had.
* `WsTopologyReturns`: dropping the sender "closes the sink channel and lets the
  sink task finish" (`cli/topology_run.rs:109-110`); the task of a WebSocket sink
  is its accept loop, which does not end, so the process stays after its source
  has ended.

The properties that hold say "until a restart", "events in order", "moved and then
still" or "if the first event has a speed" where these would break them.

Four more have no run of their own. The properties leave room for exactly these, and
the first two are worked out in `MCOperators`, as assumptions that TLC evaluates with
the run `Operators`:

* the box of a proximity search is a "longitude span covering" the threshold "at
  `latitude`" (`geo/proximity.rs:36-37`), the half width over the cosine of the
  latitude. On a sphere the circle is wider than that, and close to a pole, but not so
  close that the search takes in the whole globe, by more than the padding of one
  percent: with a threshold of 5 degrees two entities at latitude 84 and 49 degrees of
  longitude apart are within it, and neither raises an alert (`NeighbourBeyondTheBox`).
  `ProximityAlertsExact` asks for no alert from a box that is not the whole globe about
  an entity more than 13 degrees of longitude away;
* "find the nearest point on a linestring" (`geo/map_match.rs:101`): the foot is that
  in degrees (`:129-142`) and its distance that on the ground (`:144`). Where a degree
  of longitude is shorter than one of latitude, the foot on a slanted segment is not
  the nearest point: at latitude 60, on a road that climbs a degree for each degree,
  the point chosen can be 25 percent farther than the nearest (`FootIsNotNearest`).
  With it a nearer road can be passed over, or one within the maximum. `SnapsToNearest`
  allows that factor, for slanted segments only;

* a checkpoint is written "at `interval` and once more when the run ends"
  (`core/pipeline.rs:57-58`); a run that ends because an output could not be sent
  returns from inside the loop and writes none (`ClosingCheckpointIsCurrent` says
  "unless the sink failed");
* state is "loaded into every stateful operator by name" (`README.md:164`); the
  engine of patterns has one key, whatever its name, so a renamed pattern goes on
  from the partial matches of another (`ResumesItsOwnState` leaves `cep` out).

## 6. Not modelled

* Zeros that nothing refuses: a checkpoint interval of 0 (tokio panics), and
  `max_retained = 0`, with which every checkpoint is deleted as it is written.
  `Retaining` excludes the last from what `CheckpointStore` promises. A window whose
  duration or slide is 0 holds no event and never closes, as in `Windowing`.
* A power failure (nothing is synced), and two processes on one directory. A
  checkpoint directory that cannot be read counts as empty in the code, and so does
  one that holds only torn files; the model has the second.
* Floating-point numbers and their rounding: `Proximity` has whole degrees and a table
  of haversines, `MapMatch` exact fractions, and the threshold of `Proximity` is a whole
  number of degrees. The search of the R-tree is a set of the entries in a box. In
  `MapMatch` the roads lie near one latitude, where a degree of longitude has one
  length and the ground is flat; a road that spans many latitudes, or the antimeridian,
  is left out, and so are positions outside the plane's whole coordinates.
* Sums, averages and smoothed positions in the reports of `Trajectory`, the average
  time in the metrics, and `SpatialIndex::remove` and the versions of the state store,
  which nothing in the repository outside tests uses.
* Texts: JSON, the format of the metrics, the parsing of TOML and of the command line,
  what is printed. A condition on a speed with an operator nobody knows compiles to one
  that never holds, and that is modelled.
* The delays of a replay: the stream is the recording's, and nothing waits for the
  clock.
* The commands `geofence`, `proximity` and `trajectory`, each a loop over a file with
  one operator and no state kept.
* What the code gives up and the properties allow for: a file is read from its
  beginning after a resume, so its events count again; the queue of an MQTT client is
  lost when the process returns; a WebSocket sink that cannot bind does not fail the
  run.
* Timestamps before the epoch, and overflow of `i64` milliseconds: 292 million
  years.

## 7. Plan

The order so far was: event time, the loop, the checkpoint files, the operators,
the WebSocket ends, the configuration and the life of a process, delivery from end
to end. What is left, in this order:

1. The commands that run one operator over a file, as topologies of one stage.
2. An abstract specification of an operator, a function from its calls to its reports,
   that each module of an operator implements, in place of the argument by which
   `Pipeline` abstracts an operator to its calls.
3. That `TopologyRun`'s states across starts are those of `Pipeline`'s checkpoints.
