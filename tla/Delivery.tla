------------------------------ MODULE Delivery ------------------------------
(***************************************************************************)
(* From the outside to the outside: what each connector takes from its     *)
(* source, what of it is in the operators' state and its checkpoints, and  *)
(* what each sink has put where it belongs, over several starts of the     *)
(* process, some of them killed or refused.                                *)
(*                                                                         *)
(* An event is <<reader, n>>, the n-th one of its reader.  A file, a       *)
(* recording and a topic have one reader, the source task; a listening     *)
(* source has one for each connection.  An operator chain is one that      *)
(* answers each event with one output, and an output is the event it is    *)
(* about.  The loop itself is module Pipeline.                             *)
(*                                                                         *)
(* The sink "batch" is the command that runs a pipeline from one file into *)
(* another: it collects the outputs, writes them when the run has ended,   *)
(* and keeps no checkpoint.                                                *)
(***************************************************************************)
EXTENDS Integers, Sequences, FiniteSets, SequencesExt

CONSTANTS
  Sources,    \* of "file", "replay", "kafka", "mqtt" and "listen"
  Sinks,      \* of "file", "stdout", "kafka", "mqtt" and "batch"
  Readers,    \* the connections of a listening source
  Malformed,  \* the numbers of the events that do not decode
  Capacity,   \* CHANNEL_CAPACITY, and the places of the MQTT client's queue
  MaxEvents,  \* bound: events of a reader
  MaxStarts   \* bound: starts of the process

ASSUME KindsAssumption ==
  /\ Sources \subseteq {"file", "replay", "kafka", "mqtt", "listen"}
  /\ Sinks \subseteq {"file", "stdout", "kafka", "mqtt", "batch"}
  /\ Readers # {}
ASSUME DeliveryBoundsAssumption ==
  Capacity \in Nat \ {0} /\ MaxEvents \in Nat /\ MaxStarts \in Nat

VARIABLES
  from, to,   \* the kinds of the source and the sink
  published,  \* how many events there are to read
  offset,     \* the offset committed for the consumer group
  pc,         \* "down", "starting", "run" or "drain"
  listener,   \* what holds the channel open: the source task or the accept loop
  reader,     \* by reader: "none", "up" or "ended"
  position,   \* by reader: how many events it has read
  hand,       \* by reader: the event it is sending, << >> or <<e>>
  inbox,      \* the input channel
  lineage,    \* the events the operators' state comes from
  outbox,     \* the output channel
  sink,       \* the sink task: "none", "up", "failed" or "finished"
  driver,     \* the task that drives the MQTT client: "up" or "dead"
  queue,      \* what the client has queued, or the command collected
  saved,      \* the lineage of the latest checkpoint
  produced,   \* history: the outputs of this start
  landed,     \* history: those that reached their destination
  taken,      \* history: every event a reader decoded
  excused,    \* history: those a process had not saved when it was killed or refused,
              \* or when its sink or its last write failed, or it kept no checkpoint
  starts

outside == <<from, to, published>>
tasks == <<listener, reader, position, hand>>
sinkVars == <<sink, driver, queue, landed>>
vars == <<outside, offset, pc, tasks, inbox, lineage, outbox, sinkVars, saved, produced,
          taken, excused, starts>>

Topic == from \in {"kafka", "mqtt"}
Checkpointing == to # "batch"

\* The readers there are: the source task is one of them.
Active == IF from = "listen" THEN Readers ELSE {CHOOSE r \in Readers : TRUE}

InboxOpen == listener = "up" \/ \E r \in Readers : reader[r] = "up"

Hands == UNION {ToSet(hand[r]) : r \in Readers}

Init ==
  /\ from \in Sources /\ to \in Sinks
  /\ to = "batch" => from = "file"
  /\ published = IF Topic THEN 0 ELSE MaxEvents
  /\ offset = 0
  /\ pc = "down"
  /\ listener = "none"
  /\ reader = [r \in Readers |-> "none"]
  /\ position = [r \in Readers |-> 0]
  /\ hand = [r \in Readers |-> << >>]
  /\ inbox = << >> /\ lineage = << >> /\ outbox = << >>
  /\ sink = "none" /\ driver = "up" /\ queue = << >>
  /\ saved = << >>
  /\ produced = << >> /\ landed = << >>
  /\ taken = {} /\ excused = {}
  /\ starts = 0

\* Somebody publishes to the topic.
Publish ==
  /\ Topic /\ published < MaxEvents
  /\ published' = published + 1
  /\ UNCHANGED <<from, to, offset, pc, tasks, inbox, lineage, outbox, sinkVars, saved,
                 produced, taken, excused, starts>>

(***************************************************************************)
(* Starts and ends                                                         *)
(***************************************************************************)

\* A file is read again from its beginning, a consumer group goes on from its offset,
\* and a clean MQTT session from what is published next.
ResumedAt(r) ==
  CASE from \in {"file", "replay"} -> 0
    [] from = "kafka"  -> offset
    [] from = "mqtt"   -> published
    [] from = "listen" -> position[r]

\* The operators come back from the checkpoint, and the source task runs at once.
Start ==
  /\ pc = "down" /\ starts < MaxStarts
  /\ starts' = starts + 1
  /\ pc' = "starting"
  /\ lineage' = saved
  /\ listener' = IF from = "listen" THEN "up" ELSE "none"
  /\ reader' = [r \in Readers |-> IF from # "listen" /\ r \in Active THEN "up" ELSE "none"]
  /\ position' = [r \in Readers |-> ResumedAt(r)]
  /\ UNCHANGED <<outside, offset, hand, inbox, outbox, sinkVars, saved, produced, taken, excused>>

\* The sink and the endpoint are up, and the pipeline runs.
RunStarts ==
  /\ pc = "starting"
  /\ pc' = "run"
  /\ sink' = "up"
  /\ UNCHANGED <<outside, offset, tasks, inbox, lineage, outbox, driver, queue, landed, saved,
                 produced, taken, excused, starts>>

\* Nothing of the process is left.
Down ==
  /\ pc' = "down"
  /\ listener' = "none"
  /\ reader' = [r \in Readers |-> "none"]
  /\ hand' = [r \in Readers |-> << >>]
  /\ inbox' = << >> /\ lineage' = << >> /\ outbox' = << >>
  /\ sink' = "none" /\ driver' = "up" /\ queue' = << >>
  /\ produced' = << >> /\ landed' = << >>
  /\ UNCHANGED <<outside, offset, position, saved, taken, starts>>

\* The process is killed, or the start refused after the source task began.
Crash ==
  /\ pc # "down"
  /\ excused' = excused \cup (taken \ ToSet(saved))
  /\ Down

\* run_topology returns.
Return ==
  /\ pc = "drain" /\ sink \in {"failed", "finished"}
  /\ excused' = IF sink = "failed" \/ ~Checkpointing
                THEN excused \cup (taken \ ToSet(saved)) ELSE excused
  /\ Down

(***************************************************************************)
(* Sources                                                                 *)
(***************************************************************************)

\* A client connects to the listening source, any number of them at a time.
Connect(r) ==
  /\ from = "listen" /\ listener = "up" /\ reader[r] # "up"
  /\ reader' = [reader EXCEPT ![r] = "up"]
  /\ UNCHANGED <<outside, offset, pc, listener, position, hand, inbox, lineage, outbox, sinkVars,
                 saved, produced, taken, excused, starts>>

\* The accept loop ends at its first error, or the address cannot be bound.
ListenerDies ==
  /\ listener = "up"
  /\ listener' = "dead"
  /\ UNCHANGED <<outside, offset, pc, reader, position, hand, inbox, lineage, outbox, sinkVars,
                 saved, produced, taken, excused, starts>>

\* One event is read, and skipped if it does not decode.
Read(r) ==
  /\ reader[r] = "up" /\ hand[r] = << >>
  /\ position[r] < published
  /\ LET n == position[r] + 1
     IN  /\ position' = [position EXCEPT ![r] = n]
         /\ IF n \in Malformed
            THEN UNCHANGED <<hand, taken>>
            ELSE /\ hand' = [hand EXCEPT ![r] = << <<r, n>> >>]
                 /\ taken' = taken \cup {<<r, n>>}
  /\ UNCHANGED <<outside, offset, pc, listener, reader, inbox, lineage, outbox, sinkVars, saved,
                 produced, excused, starts>>

\* enable.auto.commit: what the consumer returned counts as read, whatever became of it.
Commit ==
  /\ from = "kafka" /\ \E r \in Active : reader[r] = "up" /\ offset' = position[r]
  /\ UNCHANGED <<outside, pc, tasks, inbox, lineage, outbox, sinkVars, saved, produced, taken,
                 excused, starts>>

\* send waits for room.
Send(r) ==
  /\ hand[r] # << >> /\ pc \in {"starting", "run"}
  /\ Len(inbox) < Capacity
  /\ inbox' = Append(inbox, hand[r][1])
  /\ hand' = [hand EXCEPT ![r] = << >>]
  /\ UNCHANGED <<outside, offset, pc, listener, reader, position, lineage, outbox, sinkVars, saved,
                 produced, taken, excused, starts>>

\* The receiver is gone.
SendFails(r) ==
  /\ hand[r] # << >> /\ pc = "drain"
  /\ hand' = [hand EXCEPT ![r] = << >>]
  /\ reader' = [reader EXCEPT ![r] = "ended"]
  /\ UNCHANGED <<outside, offset, pc, listener, position, inbox, lineage, outbox, sinkVars, saved,
                 produced, taken, excused, starts>>

\* The end of a file; an error of a consumer or of the MQTT connection, neither of
\* which is tried again; a connection that closes.
ReaderEnds(r) ==
  /\ reader[r] = "up" /\ hand[r] = << >>
  /\ from \in {"file", "replay"} => position[r] = published
  /\ reader' = [reader EXCEPT ![r] = "ended"]
  /\ UNCHANGED <<outside, offset, pc, listener, position, hand, inbox, lineage, outbox, sinkVars,
                 saved, produced, taken, excused, starts>>

\* The file cannot be read, the configuration is refused or the broker does not answer.
\* The command that runs a file reads it first, and ends.
SourceFails ==
  /\ from # "listen" /\ to # "batch"
  /\ \E r \in Active :
       /\ reader[r] = "up" /\ hand[r] = << >> /\ position[r] = ResumedAt(r)
       /\ reader' = [reader EXCEPT ![r] = "ended"]
  /\ UNCHANGED <<outside, offset, pc, listener, position, hand, inbox, lineage, outbox, sinkVars,
                 saved, produced, taken, excused, starts>>

(***************************************************************************)
(* The pipeline                                                            *)
(***************************************************************************)

Process ==
  /\ pc = "run" /\ inbox # << >>
  /\ inbox' = Tail(inbox)
  /\ lineage' = Append(lineage, Head(inbox))
  /\ \/ /\ sink = "up" /\ Len(outbox) < Capacity
        /\ outbox' = Append(outbox, Head(inbox))
        /\ produced' = Append(produced, Head(inbox))
        /\ UNCHANGED pc
     \/ /\ sink = "failed" /\ pc' = "drain"
        /\ UNCHANGED <<outbox, produced>>
  /\ UNCHANGED <<outside, offset, tasks, sinkVars, saved, taken, excused, starts>>

Tick ==
  /\ pc = "run" /\ Checkpointing
  /\ saved' = lineage
  /\ UNCHANGED <<outside, offset, pc, tasks, inbox, lineage, outbox, sinkVars, produced, taken,
                 excused, starts>>

\* Mutant: the run ends when the source does, not when the channel is drained.
InputEndsAtOnce ==
  /\ pc = "run" /\ ~InboxOpen
  /\ pc' = "drain"
  /\ saved' = lineage
  /\ UNCHANGED <<outside, offset, tasks, inbox, lineage, outbox, sinkVars, produced, taken,
                 excused, starts>>

\* The channel is closed and empty: the closing checkpoint, which may fail.
InputEnds ==
  /\ pc = "run" /\ ~InboxOpen /\ inbox = << >>
  /\ pc' = "drain"
  /\ \/ saved' = (IF Checkpointing THEN lineage ELSE saved) /\ UNCHANGED excused
     \/ UNCHANGED saved /\ excused' = excused \cup (taken \ ToSet(saved))
  /\ UNCHANGED <<outside, offset, tasks, inbox, lineage, outbox, sinkVars, produced, taken, starts>>

(***************************************************************************)
(* Sinks                                                                   *)
(***************************************************************************)

\* An output is written, or acknowledged by the broker, before the next is taken.  A
\* write to standard output has no error branch: println! panics if it cannot be
\* written, which ends the task as an error ends the others, and is left out.
Write ==
  /\ to \in {"file", "stdout", "kafka"} /\ sink = "up" /\ outbox # << >>
  /\ outbox' = Tail(outbox)
  /\ landed' = Append(landed, Head(outbox))
  /\ UNCHANGED <<outside, offset, pc, tasks, inbox, lineage, sink, driver, queue, saved, produced,
                 taken, excused, starts>>

\* Mutant: a write that fails is printed and the next output is taken.
WriteFailsOn ==
  /\ to \in {"file", "kafka"} /\ sink = "up" /\ outbox # << >>
  /\ outbox' = Tail(outbox)
  /\ UNCHANGED <<outside, offset, pc, tasks, inbox, lineage, sinkVars, saved, produced, taken,
                 excused, starts>>

\* The task of a file or a Kafka sink ends at the first error, and drops the channel.
\* The output it was about may have landed all the same.
WriteFails ==
  /\ to \in {"file", "kafka"} /\ sink = "up" /\ outbox # << >>
  /\ sink' = "failed"
  /\ outbox' = << >>
  /\ landed' \in {landed, Append(landed, Head(outbox))}
  /\ UNCHANGED <<outside, offset, pc, tasks, inbox, lineage, driver, queue, saved, produced,
                 taken, excused, starts>>

\* publish only puts an output into the queue of the client.
Enqueue ==
  /\ to = "mqtt" /\ sink = "up" /\ outbox # << >>
  /\ driver = "up" /\ Len(queue) < Capacity
  /\ outbox' = Tail(outbox)
  /\ queue' = Append(queue, Head(outbox))
  /\ UNCHANGED <<outside, offset, pc, tasks, inbox, lineage, sink, driver, landed, saved, produced,
                 taken, excused, starts>>

\* The queue has no reader any more.
EnqueueFails ==
  /\ to = "mqtt" /\ sink = "up" /\ outbox # << >> /\ driver = "dead"
  /\ sink' = "failed"
  /\ outbox' = << >>
  /\ UNCHANGED <<outside, offset, pc, tasks, inbox, lineage, driver, queue, landed, saved, produced,
                 taken, excused, starts>>

\* poll takes a request to the broker, and the first error ends the loop around it.
Poll ==
  /\ to = "mqtt" /\ driver = "up"
  /\ \/ /\ queue # << >>
        /\ landed' = Append(landed, Head(queue)) /\ queue' = Tail(queue)
        /\ UNCHANGED driver
     \/ /\ sink # "none"
        /\ driver' = "dead" /\ queue' = << >>
        /\ UNCHANGED landed
  /\ UNCHANGED <<outside, offset, pc, tasks, inbox, lineage, outbox, sink, saved, produced, taken,
                 excused, starts>>

\* cmd_run_file only collects the outputs.
Collect ==
  /\ to = "batch" /\ sink = "up" /\ outbox # << >>
  /\ outbox' = Tail(outbox)
  /\ queue' = Append(queue, Head(outbox))
  /\ UNCHANGED <<outside, offset, pc, tasks, inbox, lineage, sink, driver, landed, saved, produced,
                 taken, excused, starts>>

\* When the channel is closed and empty it writes them all, or the ones before an error.
WriteCollected ==
  /\ to = "batch" /\ pc = "drain" /\ sink = "up" /\ outbox = << >>
  /\ \E n \in 0 .. Len(queue) :
       /\ landed' = SubSeq(queue, 1, n)
       /\ queue' = SubSeq(queue, n + 1, Len(queue))
       /\ sink' \in IF n = Len(queue) THEN {"finished", "failed"} ELSE {"failed"}
  /\ UNCHANGED <<outside, offset, pc, tasks, inbox, lineage, outbox, driver, saved, produced,
                 taken, excused, starts>>

\* run has dropped its sender and the channel is empty.  The client is not flushed.
SinkFinishes ==
  /\ to # "batch" /\ pc = "drain" /\ sink = "up" /\ outbox = << >>
  /\ sink' = "finished"
  /\ UNCHANGED <<outside, offset, pc, tasks, inbox, lineage, outbox, driver, queue, landed, saved,
                 produced, taken, excused, starts>>

Stopped == pc = "down" /\ starts = MaxStarts /\ UNCHANGED vars

Reading == \E r \in Readers : Connect(r) \/ Read(r) \/ Send(r) \/ SendFails(r) \/ ReaderEnds(r)

Next ==
  \/ Publish
  \/ Start \/ RunStarts \/ Crash \/ Return
  \/ Reading \/ ListenerDies \/ SourceFails \/ Commit
  \/ Process \/ Tick \/ InputEnds
  \/ Write \/ WriteFails \/ Enqueue \/ EnqueueFails \/ Poll \/ Collect
  \/ WriteCollected \/ SinkFinishes
  \/ Stopped

Spec == Init /\ [][Next]_vars

(***************************************************************************)
(* Properties                                                              *)
(***************************************************************************)

\* An event that was taken from the outside is in the operators' state or on its way
\* there, and once the process has ended in its latest checkpoint: only a process that
\* was killed or refused, or whose sink or last write failed, loses events.  For a
\* consumer group those are gone for good, as their offsets may be committed.
TakenIsKept ==
  sink # "failed" => taken \ excused \subseteq
    IF pc = "down" THEN ToSet(saved) ELSE ToSet(lineage) \cup ToSet(inbox) \cup Hands

\* In one start the events of each reader are answered in its order and none twice,
\* and what reached the destination is the outputs from the first one on, without a
\* gap.  When run_topology returns with its sink in order they are all there, but for
\* those an MQTT client still has in its queue; a command that writes them at the end
\* has none left.
LandsInOrder ==
  /\ \A i, j \in DOMAIN produced :
       i < j /\ produced[i][1] = produced[j][1] => produced[i][2] < produced[j][2]
  /\ IsPrefix(landed, produced)
  /\ sink = "up" /\ driver = "up" => landed \o queue \o outbox = produced
  /\ sink = "finished" /\ driver = "up" => landed \o queue = produced
  /\ sink = "finished" /\ to # "mqtt" => queue = << >>

=============================================================================
