------------------------------ MODULE Pipeline ------------------------------
(***************************************************************************)
(* Pipeline::run between its source and its sink: two bounded channels, a  *)
(* loop that takes one event at a time through the window flush and the    *)
(* chain of operators, a ticker that writes checkpoints between events,    *)
(* and the closing sequence.                                               *)
(*                                                                         *)
(* The source, the pipeline and the sink are tasks.  The pipeline gives up *)
(* control where the code awaits: at recv (or the select! with the ticker) *)
(* and at each send to the output channel.  pc is where it is:             *)
(*                                                                         *)
(*   "recv"     at the top of the loop                                     *)
(*   "flush"    in flush_stateful, for a window that expired               *)
(*   "chain"    in the loop over the stages                                *)
(*   "closing"  in the flush after the input channel closed                *)
(*   "done"     run has returned                                           *)
(*                                                                         *)
(* An operator is known by the calls made on it.  opLog[s] is the history  *)
(* of stage s: the ids of the events it processed, and Close where         *)
(* on_window_close was called.  Its state is a function of that history,   *)
(* so the history is also what its snapshot carries.  What a call returns  *)
(* is left open: any number of outputs up to MaxOutputs.                   *)
(***************************************************************************)
EXTENDS Windowing, Picking, FiniteSets

CONSTANTS
  Topologies,      \* the topologies that may be run
  Entities,        \* the entities of the stream
  MaxLateness,     \* max_lateness of the watermark
  Checkpointing,   \* the topology has a checkpoint section
  Capacity,        \* the capacity of both channels
  MaxEvents        \* bound: events the source sends

\* A topology: its operator chain, a sequence of "map" and "stateful", and its
\* window strategy, or Unwindowed; with the bounds under which it is run: the
\* times of the stream and the outputs of one call to an operator.
ASSUME TopologiesAssumption == \A t \in Topologies :
  /\ t.stages \in Seq({"map", "stateful"})
  /\ t.strategy.kind \in {"none", "tumbling", "sliding", "session", "count"}
  /\ t.strategy.size \in Nat
  /\ t.strategy.slide \in Nat
  /\ t.times \subseteq Nat
  /\ t.maxOutputs \in Nat
ASSUME LatenessAssumption == MaxLateness \in Nat
ASSUME ModeAssumption == Checkpointing \in BOOLEAN
ASSUME CapacityAssumption == Capacity \in Nat \ {0}
ASSUME BoundsAssumption == MaxEvents \in Nat

\* The mark of an on_window_close in an operator's history.
Close == 0

VARIABLES
  topology,   \* the topology that is run
  srcOpen,    \* the source holds its end of the input channel
  sent,       \* how many events the source has sent
  inbox,      \* the input channel
  pc,         \* where the pipeline is
  hand,       \* the event in the loop body: << >> or <<e>>
  stage,      \* the next stage to call, in "flush", "chain" and "closing"
  flushes,    \* expired windows for which the stages are still to be flushed
  pending,    \* outputs of the last call that are still to be sent
  uncounted,  \* an output was sent and inc_emitted has not run yet
  opLog,      \* the history of calls of each stage
  watermark,  \* Watermark::current
  windows,    \* WindowManager::windows
  outbox,     \* the output channel
  sink,       \* the sink task: "up", "failed" or "finished"
  disk,       \* the latest checkpoint written, << >> before the first
  unsaved,    \* history: the last write of a checkpoint failed
  received, late, filtered, emitted, processed,  \* the metrics
  delivered,  \* history: the outputs the sink took, in order
  accepted,   \* history: the events that were not late, in order
  droppedBy,  \* history: the stage that filtered accepted[i], 0 if none has
  closed      \* history: the windows that expired

Stages   == topology.stages
Strategy == topology.strategy
N == Len(Stages)
Stateful == {s \in 1 .. N : Stages[s] = "stateful"}
Windowed == Strategy.kind # "none"

source   == <<topology, srcOpen, sent>>
metrics  == <<received, late, filtered, emitted, processed>>
loop     == <<hand, stage, flushes>>
store    == <<disk, unsaved>>
history  == <<accepted, droppedBy, closed>>
vars == <<source, inbox, pc, loop, pending, uncounted, opLog, watermark, windows,
          outbox, sink, store, metrics, delivered, history>>

Init ==
  /\ topology \in Topologies
  /\ srcOpen = TRUE
  /\ sent = 0
  /\ inbox = << >>
  /\ pc = "recv"
  /\ hand = << >>
  /\ stage = 1
  /\ flushes = 0
  /\ pending = << >>
  /\ uncounted = FALSE
  /\ opLog = [s \in 1 .. N |-> << >>]
  /\ watermark = Epoch
  /\ windows = {}
  /\ outbox = << >>
  /\ sink = "up"
  /\ disk = << >>
  /\ unsaved = FALSE
  /\ received = 0 /\ late = 0 /\ filtered = 0 /\ emitted = 0 /\ processed = 0
  /\ delivered = << >>
  /\ accepted = << >>
  /\ droppedBy = << >>
  /\ closed = {}

(***************************************************************************)
(* The source task                                                         *)
(***************************************************************************)

\* send waits for room, and fails once run has dropped the receiver.
SourceSend(entity, ts) ==
  /\ srcOpen
  /\ sent < MaxEvents
  /\ pc # "done"
  /\ Len(inbox) < Capacity
  /\ sent' = sent + 1
  /\ inbox' = Append(inbox, [id |-> sent + 1, entity |-> entity, ts |-> ts])
  /\ UNCHANGED <<topology, srcOpen, pc, loop, pending, uncounted, opLog, watermark, windows,
                 outbox, sink, store, metrics, delivered, history>>

\* The stream ends, by itself or because the receiver is gone.
SourceClose ==
  /\ srcOpen
  /\ srcOpen' = FALSE
  /\ UNCHANGED <<topology, sent, inbox, pc, loop, pending, uncounted, opLog, watermark, windows,
                 outbox, sink, store, metrics, delivered, history>>

(***************************************************************************)
(* Checkpoints                                                             *)
(***************************************************************************)

\* What a checkpoint holds.  upTo, closes and watermark are not written to disk:
\* they record the moment of the snapshot.
Snapshot ==
  [log |-> [s \in Stateful |-> opLog[s]], windows |-> windows,
   upTo |-> Len(accepted), closes |-> Cardinality(closed), watermark |-> watermark]

\* write_checkpoint: an error is printed and the run goes on.
WriteCheckpoint ==
  IF Checkpointing
  THEN \/ disk' = <<Snapshot>> /\ unsaved' = FALSE
       \/ UNCHANGED disk /\ unsaved' = TRUE
  ELSE UNCHANGED store

\* Mutant: checkpoints are written at every await, not only between events.
TickMidEvent ==
  /\ pc \in {"recv", "flush", "chain"}
  /\ Checkpointing
  /\ WriteCheckpoint
  /\ UNCHANGED <<source, inbox, pc, loop, pending, uncounted, opLog, watermark, windows,
                 outbox, sink, metrics, delivered, history>>

\* The ticker wins the select!.
Tick ==
  /\ pc = "recv"
  /\ Checkpointing
  /\ WriteCheckpoint
  /\ UNCHANGED <<source, inbox, pc, loop, pending, uncounted, opLog, watermark, windows,
                 outbox, sink, metrics, delivered, history>>

(***************************************************************************)
(* The loop                                                                *)
(***************************************************************************)

\* Mutant: a late event is dropped without being counted.
DropLateUncounted(e) ==
  /\ Windowed /\ IsLate(e.ts, watermark)
  /\ UNCHANGED <<pc, loop, watermark, windows, history, late>>

DropLate(e) ==
  /\ Windowed /\ IsLate(e.ts, watermark)
  /\ late' = late + 1
  /\ UNCHANGED <<pc, loop, watermark, windows, history>>

MovedTo(e) == IF Windowed THEN Advanced(e.ts, watermark, MaxLateness) ELSE watermark

\* Mutant: windows are expired before the watermark advances.
ExpiredBefore(e) == IF Windowed THEN Expired(Strategy, windows, watermark) ELSE {}

ExpiredBy(e) == IF Windowed THEN Expired(Strategy, windows, MovedTo(e)) ELSE {}

\* Mutant: windows that expire together are flushed once.
FlushesOnce(expired) == IF expired = {} THEN 0 ELSE 1

\* The loop flushes once for each expired window.
FlushesFor(expired) == Cardinality(expired)

Accept(e) ==
  /\ ~(Windowed /\ IsLate(e.ts, watermark))
  /\ watermark' = MovedTo(e)
  /\ windows' = windows \ ExpiredBy(e)
  /\ closed' = closed \cup ExpiredBy(e)
  /\ flushes' = FlushesFor(ExpiredBy(e))
  /\ pc' = IF flushes' = 0 THEN "chain" ELSE "flush"
  /\ hand' = <<e>>
  /\ stage' = 1
  /\ accepted' = Append(accepted, e)
  /\ droppedBy' = Append(droppedBy, 0)
  /\ UNCHANGED late

\* recv returns an event: up to the first stage or the flush of a closed window.
Receive ==
  /\ pc = "recv"
  /\ inbox # << >>
  /\ inbox' = Tail(inbox)
  /\ received' = received + 1
  /\ DropLate(Head(inbox)) \/ Accept(Head(inbox))
  /\ UNCHANGED <<source, pending, uncounted, opLog, outbox, sink, store,
                 filtered, emitted, processed, delivered>>

\* The pipeline is between sends, so the next stage can be called.
Calling == pending = << >> /\ ~uncounted

\* An output is known by the call that returned it: the event that was last
\* received, the window flush it is part of if any, and the stage.
Output(s) == [from |-> received, phase |-> pc, round |-> flushes, stage |-> s]

\* A call on a stateful stage returns some outputs.
Returns(s) ==
  \E n \in 0 .. topology.maxOutputs : pending' = [k \in 1 .. n |-> Output(s)]

Keep ==
  /\ pending' = <<Output(stage)>>
  /\ stage' = stage + 1
  /\ UNCHANGED <<filtered, droppedBy>>

\* Mutant: a filtered event goes on to the next stage.
FilterGoesOn ==
  /\ filtered' = filtered + 1
  /\ droppedBy' = [droppedBy EXCEPT ![Len(droppedBy)] = stage]
  /\ stage' = stage + 1
  /\ UNCHANGED pending

Filter ==
  /\ filtered' = filtered + 1
  /\ droppedBy' = [droppedBy EXCEPT ![Len(droppedBy)] = stage]
  /\ stage' = N + 1
  /\ UNCHANGED pending

\* A map stage keeps the event and emits it, or filters it and ends the chain.
MapStage ==
  /\ pc = "chain" /\ Calling
  /\ stage <= N /\ Stages[stage] = "map"
  /\ Keep \/ Filter
  /\ UNCHANGED <<source, inbox, pc, hand, flushes, uncounted, opLog, watermark, windows, outbox,
                 sink, store, received, late, emitted, processed, delivered, accepted, closed>>

StatefulStage ==
  /\ pc = "chain" /\ Calling
  /\ stage <= N /\ Stages[stage] = "stateful"
  /\ opLog' = [opLog EXCEPT ![stage] = Append(@, Head(hand).id)]
  /\ Returns(stage)
  /\ stage' = stage + 1
  /\ UNCHANGED <<source, inbox, pc, hand, flushes, uncounted, watermark, windows, outbox,
                 sink, store, metrics, delivered, history>>

\* Mutant: a filtered event is not assigned to its windows.
WindowsWithKept(e) ==
  IF Windowed /\ droppedBy[Len(droppedBy)] = 0 THEN Assign(Strategy, windows, e) ELSE windows

\* The bottom of the loop: the event, filtered or not, is assigned to its windows.
WindowsWith(e) == IF Windowed THEN Assign(Strategy, windows, e) ELSE windows

ChainDone ==
  /\ pc = "chain" /\ Calling
  /\ stage > N
  /\ processed' = processed + 1
  /\ windows' = WindowsWith(Head(hand))
  /\ hand' = << >>
  /\ pc' = "recv"
  /\ UNCHANGED <<source, inbox, stage, flushes, pending, uncounted, opLog, watermark, outbox,
                 sink, store, received, late, filtered, emitted, delivered, history>>

(***************************************************************************)
(* flush_stateful                                                          *)
(***************************************************************************)

\* Mutant: the stages are flushed from the last to the first.
CloseWindowBackwards(s) ==
  LET back == N + 1 - s
  IN  IF Stages[back] = "stateful"
      THEN opLog' = [opLog EXCEPT ![back] = Append(@, Close)] /\ Returns(back)
      ELSE UNCHANGED <<opLog, pending>>

\* on_window_close, for the stages that have it.
CloseWindow(s) ==
  IF Stages[s] = "stateful"
  THEN opLog' = [opLog EXCEPT ![s] = Append(@, Close)] /\ Returns(s)
  ELSE UNCHANGED <<opLog, pending>>

FlushStage ==
  /\ pc \in {"flush", "closing"} /\ Calling
  /\ stage <= N
  /\ CloseWindow(stage)
  /\ stage' = stage + 1
  /\ UNCHANGED <<source, inbox, pc, hand, flushes, uncounted, watermark, windows, outbox,
                 sink, store, metrics, delivered, history>>

\* After each expired window the stages are flushed once more, then the chain runs.
WindowFlushed ==
  /\ pc = "flush" /\ Calling
  /\ stage > N
  /\ stage' = 1
  /\ flushes' = flushes - 1
  /\ pc' = IF flushes' = 0 THEN "chain" ELSE "flush"
  /\ UNCHANGED <<source, inbox, hand, pending, uncounted, opLog, watermark, windows, outbox,
                 sink, store, metrics, delivered, history>>

\* Mutant: no checkpoint is written when the input ends.
InputClosedUnsaved ==
  /\ pc = "recv"
  /\ inbox = << >> /\ ~srcOpen
  /\ pc' = "closing"
  /\ stage' = 1
  /\ UNCHANGED <<source, inbox, hand, flushes, pending, uncounted, opLog, watermark, windows,
                 outbox, sink, store, metrics, delivered, history>>

\* The input channel is closed and drained: the last checkpoint, then the last flush.
InputClosed ==
  /\ pc = "recv"
  /\ inbox = << >> /\ ~srcOpen
  /\ WriteCheckpoint
  /\ pc' = "closing"
  /\ stage' = 1
  /\ UNCHANGED <<source, inbox, hand, flushes, pending, uncounted, opLog, watermark, windows,
                 outbox, sink, metrics, delivered, history>>

RunReturns ==
  /\ pc = "closing" /\ Calling
  /\ stage > N
  /\ pc' = "done"
  /\ UNCHANGED <<source, inbox, loop, pending, uncounted, opLog, watermark, windows,
                 outbox, sink, store, metrics, delivered, history>>

(***************************************************************************)
(* Sending                                                                 *)
(***************************************************************************)

\* Mutant: one place of the channel is never used.
SendShort ==
  /\ pending # << >> /\ ~uncounted
  /\ sink = "up"
  /\ Len(outbox) + 1 < Capacity
  /\ outbox' = Append(outbox, Head(pending))
  /\ pending' = Tail(pending)
  /\ uncounted' = TRUE
  /\ UNCHANGED <<source, inbox, pc, loop, opLog, watermark, windows, sink, store,
                 metrics, delivered, history>>

\* send waits for room; the sink may take the output before it is counted.
Send ==
  /\ pending # << >> /\ ~uncounted
  /\ sink = "up"
  /\ Len(outbox) < Capacity
  /\ outbox' = Append(outbox, Head(pending))
  /\ pending' = Tail(pending)
  /\ uncounted' = TRUE
  /\ UNCHANGED <<source, inbox, pc, loop, opLog, watermark, windows, sink, store,
                 metrics, delivered, history>>

IncEmitted ==
  /\ uncounted
  /\ uncounted' = FALSE
  /\ emitted' = emitted + 1
  /\ UNCHANGED <<source, inbox, pc, loop, pending, opLog, watermark, windows, outbox, sink,
                 store, received, late, filtered, processed, delivered, history>>

\* Mutant: an output that could not be sent is tried again.
SendRetries ==
  /\ pending # << >> /\ ~uncounted
  /\ sink # "up"
  /\ UNCHANGED vars

\* The sink is gone: run returns from where it is, or gives up the last flush.
SendFails ==
  /\ pending # << >> /\ ~uncounted
  /\ sink # "up"
  /\ pc' = "done"
  /\ pending' = << >>
  /\ UNCHANGED <<source, inbox, loop, uncounted, opLog, watermark, windows, outbox, sink,
                 store, metrics, delivered, history>>

(***************************************************************************)
(* The sink task                                                           *)
(***************************************************************************)

SinkReceive ==
  /\ sink = "up"
  /\ outbox # << >>
  /\ delivered' = Append(delivered, Head(outbox))
  /\ outbox' = Tail(outbox)
  /\ UNCHANGED <<source, inbox, pc, loop, pending, uncounted, opLog, watermark, windows, sink,
                 store, metrics, history>>

\* A write or a bind fails and the task ends, dropping what the channel holds.
SinkFails ==
  /\ sink = "up"
  /\ sink' = "failed"
  /\ outbox' = << >>
  /\ UNCHANGED <<source, inbox, pc, loop, pending, uncounted, opLog, watermark, windows, store,
                 metrics, delivered, history>>

\* run has returned and dropped its sender, and the channel is drained.
SinkFinishes ==
  /\ sink = "up"
  /\ outbox = << >> /\ pc = "done"
  /\ sink' = "finished"
  /\ UNCHANGED <<source, inbox, pc, loop, pending, uncounted, opLog, watermark, windows, outbox,
                 store, metrics, delivered, history>>

\* Nothing is left to do: run_topology prints its totals and returns.
Terminated ==
  /\ pc = "done" /\ sink # "up" /\ ~srcOpen
  /\ UNCHANGED vars

Run ==
  \/ Receive \/ MapStage \/ StatefulStage \/ ChainDone
  \/ FlushStage \/ WindowFlushed \/ InputClosed \/ RunReturns
  \/ Send \/ IncEmitted \/ SendFails

Next ==
  \/ \E entity \in Entities, ts \in topology.times : SourceSend(entity, ts)
  \/ SourceClose
  \/ Tick
  \/ Run
  \/ SinkReceive \/ SinkFails \/ SinkFinishes
  \/ Terminated

\* The runtime goes on polling a task that can make progress.  Nothing obliges the
\* source to send or to end, the ticker to fire or the sink to fail.
Fairness ==
  /\ WF_vars(Run)
  /\ WF_vars(SinkReceive)
  /\ WF_vars(SinkFinishes)

Spec == Init /\ [][Next]_vars /\ Fairness

(***************************************************************************)
(* Properties                                                              *)
(***************************************************************************)

\* The counters at each await of the pipeline: every event received is late, through
\* the chain or in it, only events taken up are filtered, and every output the sink
\* can see is counted exactly once, before the next is sent (Metrics, as run uses it).
MetricsAddUp ==
  /\ received = late + processed + Len(hand)
  /\ Len(accepted) = processed + Len(hand)
  /\ filtered <= processed + Len(hand)
  /\ sink # "failed" =>
       emitted + (IF uncounted THEN 1 ELSE 0) = Len(delivered) + Len(outbox)

Phase(p) == CASE p = "flush" -> 1 [] p = "chain" -> 2 [] p = "closing" -> 3

\* The order of the calls the loop makes.
NotAfter(a, b) ==
  \/ a.from < b.from
  \/ /\ a.from = b.from
     /\ \/ Phase(a.phase) < Phase(b.phase)
        \/ a.phase = b.phase /\ a.round > b.round
        \/ a.phase = b.phase /\ a.round = b.round /\ a.stage <= b.stage

\* The sink sees outputs in the order of the events, the flush an event causes
\* before what the event itself produces, and each stage after the one before it.
OutputsInOrder ==
  LET all == delivered \o outbox \o pending
  IN  \A i, j \in DOMAIN all : i < j => NotAfter(all[i], all[j])

IsEvent(entry) == entry # Close
Processed(log) == Picked(log, {i \in DOMAIN log : IsEvent(log[i])})
Closings(log) == Cardinality({i \in DOMAIN log : log[i] = Close})

\* The ids of the first n accepted events that no stage before s filtered, in order.
KeptIds(s, n) ==
  Picked([i \in 1 .. n |-> accepted[i].id],
         {i \in 1 .. n : droppedBy[i] = 0 \/ droppedBy[i] > s})

\* How many accepted events have been offered to stage s.
Offered(s) == IF hand = << >> \/ (pc = "chain" /\ stage > s)
              THEN Len(accepted)
              ELSE Len(accepted) - 1

\* A stateful stage has processed exactly the events that were not late and that
\* no earlier stage filtered, each once and in order of arrival ("nothing
\* downstream sees a dropped event", README.md:132).
StagesSeeKeptEvents ==
  pc # "done" \/ hand = << >> =>
    \A s \in Stateful : Processed(opLog[s]) = KeptIds(s, Offered(s))

\* Between events, each stateful stage has been flushed once for each window that
\* closed, and once more when the run ends with the sink still there.
FlushedOncePerWindow ==
  \A s \in Stateful :
    /\ pc \in {"recv", "chain"} => Closings(opLog[s]) = Cardinality(closed)
    /\ pc = "done" /\ sink # "failed" => Closings(opLog[s]) = Cardinality(closed) + 1

\* A checkpoint is one moment between two events: every stage in it has processed
\* the events accepted until then and been flushed for the windows closed until
\* then, its windows hold no later event, and none is taken after the closing
\* flush ("the same state the periodic writes capture", pipeline.rs:218-219).
CheckpointIsACut ==
  \A k \in DOMAIN disk :
    LET cp == disk[k]
    IN  /\ \A s \in Stateful :
             /\ Processed(cp.log[s]) = KeptIds(s, cp.upTo)
             /\ Closings(cp.log[s]) = cp.closes
        /\ \A w \in cp.windows : \A i \in DOMAIN w.events :
             \E n \in 1 .. cp.upTo : accepted[n] = w.events[i]

\* Unless the sink or the last write failed, the last checkpoint of a run holds all
\* it accepted.
ClosingCheckpointIsCurrent ==
  Checkpointing /\ ~unsaved /\ pc = "done" /\ sink # "failed" =>
    disk # << >> /\ disk[1].upTo = Len(accepted)

\* With no lateness allowed, a tumbling window closes before any stage sees an
\* event of the next one: between two flushes a stage sees one window's events.
OneWindowBetweenFlushes ==
  Strategy.kind = "tumbling" /\ Strategy.size > 0 /\ MaxLateness = 0 =>
    \A s \in Stateful : \A i, j \in DOMAIN opLog[s] :
      LET log == opLog[s]
          Start(id) == LET n == CHOOSE n \in DOMAIN accepted : accepted[n].id = id
                       IN  TumblingStart(accepted[n].ts, Strategy.size)
      IN  i < j /\ (\A k \in i .. j : IsEvent(log[k])) => Start(log[i]) = Start(log[j])

\* When the source ends, run returns and the sink task comes to its end, however
\* small the channels: no task waits for ever on another.
RunEnds == ~srcOpen ~> (pc = "done" /\ sink # "up")

\* An event that was sent is taken up although the source stays open and the ticker
\* keeps firing.
SentIsReceived ==
  \A n \in 1 .. MaxEvents : sent >= n ~> (received >= n \/ pc = "done")

\* The loop implements the event-time specification: operators, channels and a
\* failing sink do not change which events are late or which windows close.
EventTimeView == INSTANCE EventTime
  WITH strategy   <- Strategy,
       Strategies <- {t.strategy : t \in Topologies},
       Times      <- UNION {t.times : t \in Topologies},
       saved      <- IF disk = << >> THEN {} ELSE disk[1].windows,
       horizon    <- IF disk = << >> THEN Epoch ELSE disk[1].watermark,
       resumes    <- 0,
       MaxResumes <- 0

ImplementsEventTime == EventTimeView!Spec

=============================================================================
