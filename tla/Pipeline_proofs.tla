-------------------------- MODULE Pipeline_proofs ---------------------------
(***************************************************************************)
(* Theorems about Pipeline, for every set of topologies, any lateness and  *)
(* channels of any capacity.                                               *)
(***************************************************************************)
EXTENDS Pipeline, SequenceLemmas, FiniteSetTheorems, TLAPS

(***************************************************************************)
(* The counters                                                            *)
(***************************************************************************)

\* The types the counters depend on.
CountersType ==
  /\ topology \in Topologies
  /\ stage \in Nat
  /\ uncounted \in BOOLEAN
  /\ received \in Nat /\ late \in Nat /\ filtered \in Nat
  /\ emitted \in Nat /\ processed \in Nat
  /\ IsSeq(delivered) /\ IsSeq(outbox) /\ IsSeq(accepted)

\* The event in the loop body is there from its receipt to the bottom of the loop.
HandFollowsPc ==
  /\ Len(hand) \in {0, 1}
  /\ pc \in {"recv", "closing"} => Len(hand) = 0
  /\ pc \in {"flush", "chain"} => Len(hand) = 1

\* An event that may still be filtered has not been.
NotFilteredYet == pc = "flush" \/ (pc = "chain" /\ stage <= N) => filtered <= processed

IInv == CountersType /\ HandFollowsPc /\ NotFilteredYet /\ MetricsAddUp

LEMMA InitIInv == Init => IInv
<1> SUFFICES ASSUME Init PROVE IInv
  OBVIOUS
<1>1. CountersType
  BY EmptyIsSeq DEF Init, CountersType
<1>2. HandFollowsPc /\ NotFilteredYet
  BY EmptyIsSeq DEF Init, HandFollowsPc, NotFilteredYet
<1>3. MetricsAddUp
  BY EmptyIsSeq DEF Init, MetricsAddUp
<1>4. QED
  BY <1>1, <1>2, <1>3 DEF IInv

LEMMA ReceiveIInv == ASSUME IInv, Receive PROVE IInv'
<1> USE DEF IInv, CountersType, HandFollowsPc, NotFilteredYet, MetricsAddUp
<1>1. CASE DropLate(Head(inbox))
  BY <1>1 DEF Receive, DropLate, loop, history, source, N, Stages
<1>2. CASE Accept(Head(inbox))
  <2>1. /\ IsSeq(accepted') /\ Len(accepted') = Len(accepted) + 1
    BY <1>2, AppendSeq DEF Accept
  <2>2. Len(hand) = 0 /\ Len(hand') = 1 /\ stage' = 1 /\ pc' \in {"flush", "chain"}
    BY <1>2 DEF Receive, Accept
  <2>3. QED
    BY <1>2, <2>1, <2>2 DEF Receive, Accept, source
<1>3. QED
  BY <1>1, <1>2 DEF Receive

LEMMA MapStageIInv == ASSUME IInv, MapStage PROVE IInv'
<1>1. N \in Nat
  BY TopologiesAssumption DEF IInv, CountersType, N, Stages
<1>2. N' = N
  BY DEF MapStage, source, N, Stages
<1>3. CASE Keep
  BY <1>1, <1>2, <1>3 DEF MapStage, Keep, IInv, CountersType, HandFollowsPc, NotFilteredYet,
       MetricsAddUp, source
<1>4. CASE Filter
  BY <1>1, <1>2, <1>4 DEF MapStage, Filter, IInv, CountersType, HandFollowsPc, NotFilteredYet, MetricsAddUp, source
<1>5. QED
  BY <1>3, <1>4 DEF MapStage

LEMMA ChainDoneIInv == ASSUME IInv, ChainDone PROVE IInv'
<1> USE DEF IInv, CountersType, HandFollowsPc, NotFilteredYet, MetricsAddUp
<1>1. /\ processed' = processed + 1 /\ hand' = << >> /\ pc' = "recv" /\ pc = "chain"
      /\ topology' = topology /\ stage' = stage /\ uncounted' = uncounted /\ received' = received
      /\ late' = late /\ filtered' = filtered /\ emitted' = emitted /\ delivered' = delivered
      /\ outbox' = outbox /\ accepted' = accepted /\ sink' = sink
  BY DEF ChainDone, source, history
<1>2. Len(hand) = 1 /\ Len(hand') = 0
  BY <1>1, EmptyIsSeq
<1>3. CountersType' /\ HandFollowsPc' /\ NotFilteredYet'
  BY <1>1, <1>2
<1>4. MetricsAddUp'
  BY <1>1, <1>2
<1>5. QED
  BY <1>3, <1>4

\* The calls of stateful stages, and the end of the loop.
LEMMA CallsIInv ==
  ASSUME IInv, StatefulStage \/ FlushStage \/ WindowFlushed \/ InputClosed \/ RunReturns
  PROVE  IInv'
<1> USE DEF IInv, CountersType, HandFollowsPc, NotFilteredYet, MetricsAddUp, source, metrics,
            history, loop, N, Stages
<1>1. CASE StatefulStage
  BY <1>1 DEF StatefulStage
<1>2. CASE FlushStage
  BY <1>2 DEF FlushStage
<1>3. CASE WindowFlushed
  BY <1>3 DEF WindowFlushed
<1>4. CASE InputClosed
  BY <1>4 DEF InputClosed
<1>5. CASE RunReturns
  BY <1>5 DEF RunReturns
<1>6. QED
  BY <1>1, <1>2, <1>3, <1>4, <1>5

\* An output goes into the channel, is counted and is taken out.
LEMMA OutputsIInv ==
  ASSUME IInv, Send \/ IncEmitted \/ SendFails \/ SinkReceive \/ SinkFails \/ SinkFinishes
  PROVE  IInv'
<1> USE DEF IInv, CountersType, HandFollowsPc, NotFilteredYet, MetricsAddUp, source, metrics,
            history, loop, N, Stages
<1>1. CASE Send
  <2>1. /\ IsSeq(outbox') /\ Len(outbox') = Len(outbox) + 1 /\ Len(outbox) \in Nat
        /\ Len(delivered) \in Nat
    BY <1>1, AppendSeq DEF Send
  <2>2. /\ processed' = processed /\ hand' = hand /\ pc' = pc
        /\ topology' = topology /\ stage' = stage /\ uncounted' = TRUE /\ received' = received
        /\ late' = late /\ filtered' = filtered /\ emitted' = emitted /\ delivered' = delivered
        /\ accepted' = accepted /\ sink' = sink /\ uncounted = FALSE
    BY <1>1 DEF Send
  <2>3. QED
    BY <2>1, <2>2
<1>2. CASE IncEmitted
  <2>1. /\ processed' = processed /\ hand' = hand /\ pc' = pc
        /\ topology' = topology /\ stage' = stage /\ received' = received
        /\ late' = late /\ filtered' = filtered /\ emitted' = emitted + 1 /\ delivered' = delivered
        /\ outbox' = outbox /\ accepted' = accepted /\ sink' = sink
    BY <1>2 DEF IncEmitted
  <2>2. uncounted = TRUE /\ uncounted' = FALSE /\ uncounted' \in BOOLEAN
    BY <1>2, Zenon DEF IncEmitted
  <2>3. QED
    BY <2>1, <2>2
<1>3. CASE SendFails
  BY <1>3 DEF SendFails
<1>4. CASE SinkReceive
  <2>1. /\ IsSeq(outbox') /\ Len(outbox') + 1 = Len(outbox) /\ Len(outbox') \in Nat
    BY <1>4, TailSeq DEF SinkReceive
  <2>2. /\ IsSeq(delivered') /\ Len(delivered') = Len(delivered) + 1 /\ Len(delivered) \in Nat
    BY <1>4, AppendSeq DEF SinkReceive
  <2>3. QED
    BY <1>4, <2>1, <2>2 DEF SinkReceive
<1>5. CASE SinkFails
  BY <1>5, EmptyIsSeq DEF SinkFails
<1>6. CASE SinkFinishes
  BY <1>6 DEF SinkFinishes
<1>7. QED
  BY <1>1, <1>2, <1>3, <1>4, <1>5, <1>6

\* The steps that none of this depends on.
LEMMA OthersIInv ==
  ASSUME IInv,
         \/ \E entity \in Entities, ts \in topology.times : SourceSend(entity, ts)
         \/ SourceClose \/ Tick \/ Terminated \/ UNCHANGED vars
  PROVE  IInv'
<1> USE DEF IInv, CountersType, HandFollowsPc, NotFilteredYet, MetricsAddUp, source, metrics,
            history, loop, N, Stages
<1>1. CASE \E entity \in Entities, ts \in topology.times : SourceSend(entity, ts)
  BY <1>1 DEF SourceSend
<1>2. CASE SourceClose
  BY <1>2 DEF SourceClose
<1>3. CASE Tick
  BY <1>3 DEF Tick
<1>4. CASE Terminated \/ UNCHANGED vars
  <2>1. /\ processed' = processed /\ hand' = hand /\ pc' = pc
        /\ topology' = topology /\ stage' = stage /\ uncounted' = uncounted /\ received' = received
        /\ late' = late /\ filtered' = filtered /\ emitted' = emitted /\ delivered' = delivered
        /\ outbox' = outbox /\ accepted' = accepted /\ sink' = sink
    BY <1>4 DEF Terminated, vars
  <2>2. QED
    BY <2>1
<1>5. QED
  BY <1>1, <1>2, <1>3, <1>4

\* The inductive invariant of the counters.
THEOREM CountersInvariant == Spec => []IInv
<1>1. IInv /\ [Next]_vars => IInv'
  BY ReceiveIInv, MapStageIInv, ChainDoneIInv, CallsIInv, OutputsIInv, OthersIInv DEF Next, Run
<1>2. QED
  BY InitIInv, <1>1, PTL DEF Spec

\* The counters add up at every await, whatever the topology, the capacity of the
\* channels and the moment the sink fails: no event is counted twice or not at all.
THEOREM CountersAddUp == Spec => []MetricsAddUp
BY CountersInvariant, PTL DEF IInv

(***************************************************************************)
(* The closing checkpoint                                                  *)
(***************************************************************************)

\* From the closing write on, the latest checkpoint is of the end of the stream.  The
\* sink task does not finish before run has returned, so run can only return early
\* from a sink that failed.
ClosingInv ==
  /\ pc \in {"recv", "flush", "chain", "closing", "done"}
  /\ sink \in {"up", "failed", "finished"}
  /\ sink = "finished" => pc = "done"
  /\ pc = "closing" \/ (pc = "done" /\ sink # "failed") =>
       (Checkpointing /\ ~unsaved => disk # << >> /\ disk[1].upTo = Len(accepted))

LEMMA ClosingStep == ASSUME ClosingInv, [Next]_vars PROVE ClosingInv'
<1> USE DEF ClosingInv
<1>1. CASE \/ \E entity \in Entities, ts \in topology.times : SourceSend(entity, ts)
           \/ SourceClose \/ SinkReceive \/ SinkFinishes \/ Terminated \/ UNCHANGED vars
  BY <1>1 DEF SourceSend, SourceClose, SinkReceive, SinkFinishes, Terminated, store, history, vars
<1>2. CASE SinkFails
  BY <1>2 DEF SinkFails, store, history
<1>3. CASE Tick
  BY <1>3 DEF Tick
<1>4. CASE Receive
  BY <1>4 DEF Receive, DropLate, Accept
<1>5. CASE MapStage \/ StatefulStage \/ ChainDone
  BY <1>5 DEF MapStage, StatefulStage, ChainDone
<1>6. CASE FlushStage \/ WindowFlushed
  BY <1>6 DEF FlushStage, WindowFlushed, store, history
<1>7. CASE InputClosed
  <2>1. /\ accepted' = accepted /\ sink' = sink /\ pc = "recv" /\ pc' = "closing"
        /\ WriteCheckpoint
    BY <1>7 DEF InputClosed, history
  <2>2. Checkpointing /\ ~unsaved' => disk' = <<Snapshot>>
    BY <2>1 DEF WriteCheckpoint
  <2>3. Snapshot.upTo = Len(accepted)
    BY DEF Snapshot
  <2>4. QED
    BY <2>1, <2>2, <2>3
<1>8. CASE RunReturns \/ SendFails
  BY <1>8 DEF RunReturns, SendFails, store, history
<1>9. CASE Send \/ IncEmitted
  BY <1>9 DEF Send, IncEmitted, store, history
<1>10. QED
  BY <1>1, <1>2, <1>3, <1>4, <1>5, <1>6, <1>7, <1>8, <1>9 DEF Next, Run

\* A run whose sink and last write did not fail leaves a checkpoint of everything it
\* accepted, whatever ticks came before.
THEOREM ClosingCheckpointHoldsAll == Spec => []ClosingCheckpointIsCurrent
<1>1. Init => ClosingInv
  BY DEF Init, ClosingInv
<1>2. ClosingInv => ClosingCheckpointIsCurrent
  BY DEF ClosingInv, ClosingCheckpointIsCurrent
<1>3. QED
  BY <1>1, <1>2, ClosingStep, PTL DEF Spec

(***************************************************************************)
(* The loop implements the event-time specification                        *)
(***************************************************************************)

\* Without windows there is no watermark either, and nothing to implement.
AllWindowed == \A t \in Topologies : t.strategy.kind # "none"

\* An event as the source may send it.
Sendable == [id : Nat, entity : Entities, ts : topology.times]

\* The channel holds the events after those received, numbered as they were sent.
ChannelInv ==
  /\ topology \in Topologies
  /\ received \in Nat /\ sent \in Nat
  /\ inbox \in Seq(Sendable)
  /\ sent = received + Len(inbox) /\ sent <= MaxEvents
  /\ \A i \in 1 .. Len(inbox) : inbox[i].id = received + i

\* The loop body has an event from its receipt to its bottom.
BodyInv ==
  /\ pc \in {"recv", "closing"} => hand = << >>
  /\ pc \in {"flush", "chain"} => hand # << >>

LEMMA ChannelStep == ASSUME ChannelInv, [Next]_vars PROVE ChannelInv'
<1> USE DEF ChannelInv, Sendable
<1>1. CASE \E entity \in Entities, ts \in topology.times : SourceSend(entity, ts)
  <2>1. PICK entity \in Entities, ts \in topology.times : SourceSend(entity, ts)
    BY <1>1
  <2> DEFINE e == [id |-> sent + 1, entity |-> entity, ts |-> ts]
  <2>2. /\ topology' = topology /\ received' = received /\ sent' = sent + 1 /\ sent < MaxEvents
        /\ inbox' = Append(inbox, e)
    BY <2>1 DEF SourceSend, metrics
  <2>3. e \in Sendable /\ e.id = sent + 1
    OBVIOUS
  <2> HIDE DEF e, Sendable
  <2>4. /\ inbox' \in Seq(Sendable) /\ Len(inbox') = Len(inbox) + 1
        /\ inbox'[Len(inbox) + 1] = e
        /\ \A i \in 1 .. Len(inbox) : inbox'[i] = inbox[i]
    BY <2>2, <2>3
  <2>5. \A i \in 1 .. Len(inbox') : inbox'[i].id = received + i
    BY <2>2, <2>3, <2>4
  <2>6. Sendable' = Sendable
    BY <2>2 DEF Sendable
  <2>7. QED
    BY <2>2, <2>4, <2>5, <2>6, BoundsAssumption
<1>2. CASE Receive
  <2>1. /\ topology' = topology /\ received' = received + 1 /\ sent' = sent
        /\ inbox # << >> /\ inbox' = Tail(inbox)
    BY <1>2 DEF Receive, source
  <2> HIDE DEF Sendable
  <2>2. /\ inbox' \in Seq(Sendable) /\ Len(inbox') = Len(inbox) - 1
        /\ \A i \in 1 .. Len(inbox') : inbox'[i] = inbox[i + 1] /\ i + 1 \in 1 .. Len(inbox)
    BY <2>1
  <2>3. \A i \in 1 .. Len(inbox') : inbox'[i].id = received' + i
    BY <2>1, <2>2
  <2>4. Sendable' = Sendable
    BY <2>1 DEF Sendable
  <2>5. QED
    BY <2>1, <2>2, <2>3, <2>4
<1>3. CASE /\ [Next]_vars
           /\ ~ Receive
           /\ ~ \E entity \in Entities, ts \in topology.times : SourceSend(entity, ts)
  <2>1. topology' = topology /\ received' = received /\ sent' = sent /\ inbox' = inbox
    BY <1>3 DEF Next, Run, SourceClose, Tick, MapStage, StatefulStage, ChainDone, FlushStage,
                WindowFlushed, InputClosed, RunReturns, Send, IncEmitted, SendFails, SinkReceive,
                SinkFails, SinkFinishes, Terminated, source, metrics, vars
  <2>2. QED
    BY <2>1
<1>4. QED
  BY <1>1, <1>2, <1>3

LEMMA BodyStep == ASSUME BodyInv, [Next]_vars PROVE BodyInv'
<1> USE DEF BodyInv
<1>1. CASE Receive
  <2>1. CASE DropLate(Head(inbox))
    <3>1. pc' = pc /\ hand' = hand
      BY <2>1 DEF DropLate, loop
    <3>2. QED
      BY <3>1
  <2>2. CASE Accept(Head(inbox))
    <3>1. pc' \in {"chain", "flush"} /\ hand' = <<Head(inbox)>>
      BY <2>2 DEF Accept
    <3>2. hand' # << >>
      BY <3>1
    <3>3. QED
      BY <3>1, <3>2
  <2>3. QED
    BY <1>1, <2>1, <2>2 DEF Receive
<1>2. CASE ChainDone \/ InputClosed \/ WindowFlushed
  BY <1>2 DEF ChainDone, InputClosed, WindowFlushed
<1>3. CASE RunReturns \/ SendFails
  BY <1>3 DEF RunReturns, SendFails
<1>4. CASE /\ [Next]_vars
           /\ ~ (Receive \/ ChainDone \/ InputClosed \/ WindowFlushed \/ RunReturns \/ SendFails)
  <2>1. pc' = pc /\ hand' = hand
    BY <1>4 DEF Next, Run, SourceSend, SourceClose, Tick, MapStage, StatefulStage, FlushStage,
                Send, IncEmitted, SinkReceive, SinkFails, SinkFinishes, Terminated, loop, vars
  <2>2. QED
    BY <2>1
<1>5. QED
  BY <1>1, <1>2, <1>3, <1>4

\* The operators of the two modules are the same ones.
LEMMA SameLate == \A ts, current : EventTimeView!IsLate(ts, current) = IsLate(ts, current)
BY DEF EventTimeView!IsLate, IsLate

LEMMA SameAdvanced ==
  \A ts, current : EventTimeView!Advanced(ts, current, MaxLateness)
                     = Advanced(ts, current, MaxLateness)
BY DEF EventTimeView!Advanced, Advanced, EventTimeView!Later, Later

LEMMA SameExpired ==
  \A ws, w : EventTimeView!Expired(Strategy, ws, w) = Expired(Strategy, ws, w)
BY DEF EventTimeView!Expired, Expired, EventTimeView!HasExpired, HasExpired,
       EventTimeView!EventCount, EventCount

LEMMA SameAssign ==
  \A ws, e : EventTimeView!Assign(Strategy, ws, e) = Assign(Strategy, ws, e)
<1>1. \A e, a, b : EventTimeView!OpenedBy(e, a, b) = OpenedBy(e, a, b)
  BY DEF EventTimeView!OpenedBy, OpenedBy
<1>2. \A w, e : EventTimeView!WithEvent(w, e) = WithEvent(w, e)
  BY DEF EventTimeView!WithEvent, WithEvent
<1>3. \A ws : EventTimeView!FirstOf(ws) = FirstOf(ws) /\ EventTimeView!LastOf(ws) = LastOf(ws)
  BY Zenon DEF EventTimeView!FirstOf, FirstOf, EventTimeView!LastOf, LastOf
<1>4. \A a, b : EventTimeView!TruncDiv(a, b) = TruncDiv(a, b)
  BY DEF EventTimeView!TruncDiv, TruncDiv
<1>5. \A ws, start, size, e :
        EventTimeView!AddAtStart(ws, start, size, e) = AddAtStart(ws, start, size, e)
  BY <1>1, <1>2, <1>3, Zenon DEF EventTimeView!AddAtStart, AddAtStart
<1>6. \A ws, e, size : EventTimeView!AssignTumbling(ws, e, size) = AssignTumbling(ws, e, size)
  BY <1>4, <1>5, Zenon DEF EventTimeView!AssignTumbling, AssignTumbling,
                           EventTimeView!TumblingStart, TumblingStart
<1>7. \A ts, size, slide :
        EventTimeView!SlidingStarts(ts, size, slide) = SlidingStarts(ts, size, slide)
  BY <1>4 DEF EventTimeView!SlidingStarts, SlidingStarts
<1>8. \A ws, e, size, slide :
        EventTimeView!AssignSliding(ws, e, size, slide) = AssignSliding(ws, e, size, slide)
  <2> SUFFICES ASSUME NEW ws, NEW e, NEW size, NEW slide
               PROVE  EventTimeView!AssignSliding(ws, e, size, slide)
                        = AssignSliding(ws, e, size, slide)
    OBVIOUS
  <2> DEFINE starts == SlidingStarts(e.ts, size, slide)
             more   == starts \ {w.start : w \in ws}
             added  == {IF w.start \in starts THEN WithEvent(w, e) ELSE w : w \in ws}
             opened == {OpenedBy(e, s, s + size) : s \in more}
  <2>1. {IF w.start \in starts THEN EventTimeView!WithEvent(w, e) ELSE w : w \in ws} = added
    BY <1>2
  <2>2. {EventTimeView!OpenedBy(e, s, s + size) : s \in more} = opened
    BY <1>1
  <2>3. EventTimeView!AssignSliding(ws, e, size, slide) =
          IF size <= 0 \/ slide <= 0 THEN ws ELSE added \cup opened
    BY <1>7, <2>1, <2>2, Zenon DEF EventTimeView!AssignSliding
  <2>4. QED
    BY <2>3, Zenon DEF AssignSliding
<1>9. \A w, e, gap : EventTimeView!Continues(w, e, gap) = Continues(w, e, gap)
  BY Zenon DEF EventTimeView!Continues, Continues
<1>10. \A ws, e, gap : EventTimeView!AssignSession(ws, e, gap) = AssignSession(ws, e, gap)
  BY <1>1, <1>2, <1>3, <1>9 DEF EventTimeView!AssignSession, AssignSession
<1>11. \A ws, e, size : EventTimeView!AssignCount(ws, e, size) = AssignCount(ws, e, size)
  BY <1>1, <1>2, <1>3, Zenon DEF EventTimeView!AssignCount, AssignCount,
                                 EventTimeView!EventCount, EventCount
<1>12. QED
  BY <1>6, <1>8, <1>10, <1>11, Zenon DEF EventTimeView!Assign, Assign

\* The first states are first states there.
LEMMA ViewInit == ASSUME AllWindowed, Init PROVE EventTimeView!Init
BY DEF Init, EventTimeView!Init, EventTimeView!Epoch, Epoch, Strategy

\* Taking an event off the channel is observing it.
LEMMA ReceiveObserves ==
  ASSUME AllWindowed, ChannelInv, BodyInv, Receive
  PROVE  EventTimeView!Next
<1> DEFINE e == Head(inbox)
<1>1. /\ topology \in Topologies /\ topology.times \subseteq UNION {t.times : t \in Topologies}
      /\ Windowed
  BY DEF ChannelInv, AllWindowed, Windowed, Strategy
<1>2. inbox # << >> /\ inbox \in Seq(Sendable) /\ e = inbox[1] /\ 1 \in 1 .. Len(inbox)
  <2> HIDE DEF Sendable
  <2>1. QED
    BY DEF ChannelInv, Receive
<1>3. /\ e \in Sendable /\ e.id = received + 1
      /\ received < MaxEvents
  <2> HIDE DEF Sendable
  <2>1. QED
    BY <1>2, BoundsAssumption DEF ChannelInv
<1>4. /\ e = [id |-> received + 1, entity |-> e.entity, ts |-> e.ts]
      /\ e.entity \in Entities /\ e.ts \in topology.times
  BY <1>3 DEF Sendable
<1> HIDE DEF e
<1>5. /\ hand = << >> /\ received' = received + 1 /\ topology' = topology /\ disk' = disk
      /\ DropLate(e) \/ Accept(e)
  BY DEF e, Receive, BodyInv, source, store
<1>6. ASSUME DropLate(e) PROVE EventTimeView!DropLate(e)
  BY <1>6, SameLate DEF DropLate, EventTimeView!DropLate, loop, history
<1>7. ASSUME Accept(e) PROVE EventTimeView!Accept(e)
  <2>1. /\ ~ EventTimeView!IsLate(e.ts, watermark)
        /\ watermark' = EventTimeView!Advanced(e.ts, watermark, MaxLateness)
        /\ ExpiredBy(e) = EventTimeView!Expired(Strategy, windows, watermark')
    BY <1>1, <1>7, SameLate, SameAdvanced, SameExpired DEF Accept, MovedTo, ExpiredBy
  <2>2. /\ windows' = windows \ ExpiredBy(e) /\ closed' = closed \cup ExpiredBy(e)
        /\ hand' = <<e>> /\ accepted' = Append(accepted, e) /\ late' = late
    BY <1>7 DEF Accept
  <2>3. QED
    BY <2>1, <2>2, Zenon DEF EventTimeView!Accept
<1>8. EventTimeView!Observe(e.entity, e.ts)
  BY <1>3, <1>4, <1>5, <1>6, <1>7, Zenon DEF EventTimeView!Observe, Strategy
<1>9. QED
  BY <1>1, <1>4, <1>8, Zenon DEF EventTimeView!Next

\* The bottom of the loop settles the event.
LEMMA ChainDoneSettles ==
  ASSUME AllWindowed, ChannelInv, BodyInv, ChainDone
  PROVE  EventTimeView!Next
<1>1. Windowed
  BY DEF ChannelInv, AllWindowed, Windowed, Strategy
<1>2. /\ hand # << >> /\ hand' = << >> /\ windows' = Assign(Strategy, windows, Head(hand))
  BY <1>1 DEF ChainDone, BodyInv, WindowsWith
<1>3. /\ topology' = topology /\ disk' = disk /\ received' = received /\ watermark' = watermark
      /\ late' = late /\ accepted' = accepted /\ closed' = closed
  BY DEF ChainDone, source, store, history
<1>4. EventTimeView!Settle
  BY <1>2, <1>3, SameAssign, Zenon DEF EventTimeView!Settle, Strategy
<1>5. QED
  BY <1>4 DEF EventTimeView!Next

\* A write of a checkpoint takes the snapshot, or fails and changes nothing there.
LEMMA WriteCheckpoints ==
  ASSUME BodyInv, Tick \/ InputClosed
  PROVE  EventTimeView!Next \/ UNCHANGED EventTimeView!vars
<1>1. /\ topology' = topology /\ received' = received /\ watermark' = watermark /\ late' = late
      /\ windows' = windows /\ hand' = hand /\ accepted' = accepted /\ closed' = closed
      /\ hand = << >> /\ WriteCheckpoint
  BY DEF Tick, InputClosed, BodyInv, source, metrics, history, loop
<1>2. CASE disk' = disk
  BY <1>1, <1>2 DEF EventTimeView!vars, Strategy
<1>3. CASE disk' = <<Snapshot>>
  <2>1. disk' # << >> /\ disk'[1].windows = windows /\ disk'[1].watermark = watermark
    BY <1>3 DEF Snapshot
  <2>2. EventTimeView!Checkpoint
    BY <1>1, <2>1, Zenon DEF EventTimeView!Checkpoint, Strategy
  <2>3. QED
    BY <2>2 DEF EventTimeView!Next
<1>4. QED
  BY <1>1, <1>2, <1>3 DEF WriteCheckpoint, store

\* Whatever else happens is nothing to the event-time specification.
LEMMA OthersStutter ==
  ASSUME [Next]_vars, ~ Receive, ~ ChainDone, ~ Tick, ~ InputClosed
  PROVE  UNCHANGED EventTimeView!vars
<1>1. /\ topology' = topology /\ received' = received /\ watermark' = watermark /\ late' = late
      /\ windows' = windows /\ hand' = hand /\ disk' = disk /\ accepted' = accepted
      /\ closed' = closed
  BY DEF Next, Run, SourceSend, SourceClose, MapStage, StatefulStage, FlushStage, WindowFlushed,
         RunReturns, Send, IncEmitted, SendFails, SinkReceive, SinkFails, SinkFinishes,
         Terminated, source, metrics, loop, store, history, vars
<1>2. QED
  BY <1>1 DEF EventTimeView!vars, Strategy

\* The loop of any windowed topology, with its operators, its channels and a sink that
\* may fail, implements the event-time specification: only the arrivals decide which
\* events are late and which windows close.
THEOREM LoopImplementsEventTime == ASSUME AllWindowed PROVE Spec => ImplementsEventTime
<1> DEFINE LoopInv == ChannelInv /\ BodyInv
<1>1. Init => LoopInv
  BY BoundsAssumption DEF Init, ChannelInv, BodyInv, Sendable
<1>2. LoopInv /\ [Next]_vars => LoopInv'
  BY ChannelStep, BodyStep
<1>3. Init => EventTimeView!Init
  BY AllWindowed, ViewInit
<1>4. LoopInv /\ [Next]_vars => [EventTimeView!Next]_(EventTimeView!vars)
  BY AllWindowed, ReceiveObserves, ChainDoneSettles, WriteCheckpoints, OthersStutter
<1> HIDE DEF LoopInv
<1>5. QED
  BY <1>1, <1>2, <1>3, <1>4, PTL DEF Spec, ImplementsEventTime, EventTimeView!Spec

(***************************************************************************)
(* The windows that are open are finitely many                             *)
(***************************************************************************)

\* The image of a finite set.
LEMMA FiniteImage ==
  ASSUME NEW S, IsFiniteSet(S), NEW f, DOMAIN f = S
  PROVE  IsFiniteSet({f[x] : x \in S})
<1> DEFINE T == {f[x] : x \in S}
<1> DEFINE g == [x \in S |-> f[x]]
<1>1. g \in [S -> T] /\ \A t \in T : \E x \in S : g[x] = t
  OBVIOUS
<1>2. g \in Surjection(S, T)
  BY <1>1 DEF Surjection
<1>3. QED
  BY <1>2, FS_Surjection

\* One window more, or another in the place of one.
LEMMA FiniteAdd ==
  ASSUME NEW S, IsFiniteSet(S), NEW x, NEW y
  PROVE  IsFiniteSet(S \cup {x}) /\ IsFiniteSet((S \ {y}) \cup {x})
<1>1. IsFiniteSet(S \ {y})
  BY FS_RemoveElement
<1>2. QED
  BY <1>1, FS_AddElement

LEMMA StartsFinite ==
  ASSUME NEW ts \in Int, NEW size \in Nat, NEW slide \in Nat \ {0}
  PROVE  IsFiniteSet(SlidingStarts(ts, size, slide))
<1> DEFINE earliest == TruncDiv(ts - size + slide, slide) * slide
<1> DEFINE last == TruncDiv(ts - earliest, slide)
<1> DEFINE f == [k \in 0 .. last |-> earliest + k * slide]
<1>1. \A n \in Int : TruncDiv(n, slide) \in Int
  BY DEF TruncDiv
<1>2. earliest \in Int /\ last \in Int
  <2>1. TruncDiv(ts - size + slide, slide) \in Int
    BY <1>1
  <2>2. earliest \in Int
    BY <2>1
  <2> HIDE DEF earliest
  <2>3. ts - earliest \in Int
    BY <2>2
  <2>4. QED
    BY <1>1, <2>2, <2>3
<1> HIDE DEF earliest, last
<1>3. IsFiniteSet({f[k] : k \in 0 .. last})
  <2>1. IsFiniteSet(0 .. last)
    BY <1>2, FS_Interval
  <2>2. QED
    BY <2>1, FiniteImage
<1>4. SlidingStarts(ts, size, slide) \subseteq {f[k] : k \in 0 .. last}
  BY DEF SlidingStarts, earliest, last
<1>5. QED
  BY <1>3, <1>4, FS_Subset

LEMMA AssignFinite ==
  ASSUME NEW strategy, strategy.kind \in {"tumbling", "sliding", "session", "count"},
         strategy.size \in Nat, strategy.slide \in Nat,
         NEW ws, IsFiniteSet(ws), NEW e, e.ts \in Int
  PROVE  IsFiniteSet(Assign(strategy, ws, e))
<1>1. CASE strategy.kind = "tumbling"
  BY <1>1, FiniteAdd DEF Assign, AssignTumbling, AddAtStart
<1>2. CASE strategy.kind = "sliding"
  <2>1. Assign(strategy, ws, e) = AssignSliding(ws, e, strategy.size, strategy.slide)
    BY <1>2 DEF Assign
  <2>2. CASE strategy.size <= 0 \/ strategy.slide <= 0
    BY <2>1, <2>2 DEF AssignSliding
  <2>3. CASE ~(strategy.size <= 0 \/ strategy.slide <= 0)
    <3> DEFINE starts == SlidingStarts(e.ts, strategy.size, strategy.slide)
    <3> DEFINE open == {w.start : w \in ws}
    <3> DEFINE kept == [w \in ws |-> IF w.start \in starts THEN WithEvent(w, e) ELSE w]
    <3> DEFINE pushed == [s \in starts \ open |-> OpenedBy(e, s, s + strategy.size)]
    <3>1. IsFiniteSet(starts)
      BY <2>3, StartsFinite
    <3> HIDE DEF starts
    <3>2. IsFiniteSet(starts \ open)
      <4>1. starts \ open \in SUBSET starts
        OBVIOUS
      <4>2. QED
        BY <3>1, <4>1, FS_Subset
    <3>3. IsFiniteSet({kept[w] : w \in ws})
      <4>1. DOMAIN kept = ws
        OBVIOUS
      <4> HIDE DEF kept
      <4>2. QED
        BY <4>1, FiniteImage
    <3>4. IsFiniteSet({pushed[s] : s \in starts \ open})
      <4>1. DOMAIN pushed = starts \ open
        OBVIOUS
      <4> HIDE DEF pushed
      <4>2. QED
        BY <3>2, <4>1, FiniteImage
    <3>5. AssignSliding(ws, e, strategy.size, strategy.slide)
            = {kept[w] : w \in ws} \cup {pushed[s] : s \in starts \ open}
      BY <2>3 DEF AssignSliding, starts
    <3>6. IsFiniteSet({kept[w] : w \in ws} \cup {pushed[s] : s \in starts \ open})
      <4> HIDE DEF kept, pushed, open
      <4>1. QED
        BY <3>3, <3>4, FS_Union
    <3>7. QED
      BY <2>1, <3>5, <3>6, Zenon
  <2>4. QED
    BY <2>2, <2>3
<1>3. CASE strategy.kind = "session"
  BY <1>3, FiniteAdd DEF Assign, AssignSession
<1>4. CASE strategy.kind = "count"
  BY <1>4, FiniteAdd DEF Assign, AssignCount
<1>5. QED
  BY <1>1, <1>2, <1>3, <1>4

(***************************************************************************)
(* The order of the outputs                                                *)
(***************************************************************************)

\* What the order of the calls depends on: there are finitely many windows, so the rounds of
\* flushing count down to the chain.
RoundsInv ==
  /\ IsFiniteSet(windows)
  /\ stage \in Nat \ {0} /\ flushes \in Nat
  /\ pc \in {"recv", "flush", "chain", "closing", "done"}
  /\ pc = "flush" => flushes > 0
  /\ hand = << >> \/ \E e \in Sendable : hand = <<e>>

LEMMA RoundsStep ==
  ASSUME RoundsInv, ChannelInv, BodyInv, [Next]_vars
  PROVE  RoundsInv'
<1>1. topology' = topology /\ Sendable' = Sendable
  <2>1. topology' = topology
    BY DEF Next, Run, SourceSend, SourceClose, Tick, Receive, MapStage, StatefulStage, ChainDone,
           FlushStage, WindowFlushed, InputClosed, RunReturns, Send, IncEmitted, SendFails,
           SinkReceive, SinkFails, SinkFinishes, Terminated, source, vars
  <2>2. QED
    BY <2>1 DEF Sendable
<1>2. N \in Nat
  BY TopologiesAssumption DEF ChannelInv, N, Stages
<1>3. CASE Receive
  <2>1. CASE DropLate(Head(inbox))
    <3>1. windows' = windows /\ stage' = stage /\ flushes' = flushes /\ pc' = pc /\ hand' = hand
      BY <2>1 DEF DropLate, loop
    <3>2. QED
      BY <1>1, <3>1, Zenon DEF RoundsInv
  <2>2. CASE Accept(Head(inbox))
    <3> DEFINE e == Head(inbox)
    <3>1. e \in Sendable
      BY <1>3, HeadTailProperties DEF Receive, ChannelInv
    <3>2. ExpiredBy(e) \in SUBSET windows
      BY DEF ExpiredBy, Expired
    <3>3. IsFiniteSet(windows \ ExpiredBy(e)) /\ Cardinality(ExpiredBy(e)) \in Nat
      <4>1. windows \ ExpiredBy(e) \in SUBSET windows
        OBVIOUS
      <4>2. QED
        BY <3>2, <4>1, FS_Subset, FS_CardinalityType DEF RoundsInv
    <3>4. /\ windows' = windows \ ExpiredBy(e) /\ stage' = 1 /\ hand' = <<e>>
          /\ flushes' = Cardinality(ExpiredBy(e))
          /\ pc' = IF flushes' = 0 THEN "chain" ELSE "flush"
      BY <2>2, Zenon DEF Accept, FlushesFor
    <3> HIDE DEF e
    <3>5. QED
      BY <1>1, <3>1, <3>3, <3>4 DEF RoundsInv
  <2>3. QED
    BY <1>3, <2>1, <2>2 DEF Receive
<1>4. CASE ChainDone
  <2>1. /\ windows' = WindowsWith(Head(hand)) /\ stage' = stage /\ flushes' = flushes
        /\ pc' = "recv" /\ hand' = << >> /\ pc = "chain"
    BY <1>4 DEF ChainDone
  <2>2. IsFiniteSet(windows')
    <3>1. PICK e \in Sendable : hand = <<e>>
      BY <2>1 DEF RoundsInv, BodyInv
    <3>2. Head(hand) = e
      BY <3>1
    <3>3. e.ts \in Int
      BY TopologiesAssumption DEF ChannelInv, Sendable
    <3>4. /\ Strategy.kind \in {"none", "tumbling", "sliding", "session", "count"}
          /\ Strategy.size \in Nat /\ Strategy.slide \in Nat
      BY TopologiesAssumption DEF ChannelInv, Strategy
    <3>5. CASE Windowed
      <4>1. Strategy.kind \in {"tumbling", "sliding", "session", "count"}
        BY <3>4, <3>5 DEF Windowed
      <4>2. IsFiniteSet(Assign(Strategy, windows, e))
        BY <3>3, <3>4, <4>1, AssignFinite DEF RoundsInv
      <4>3. QED
        BY <2>1, <3>2, <3>5, <4>2, Zenon DEF WindowsWith
    <3>6. CASE ~Windowed
      BY <2>1, <3>6, Zenon DEF WindowsWith, RoundsInv
    <3>7. QED
      BY <3>5, <3>6
  <2>3. QED
    BY <2>1, <2>2 DEF RoundsInv
<1>5. CASE MapStage \/ StatefulStage \/ FlushStage
  <2>1. /\ windows' = windows /\ flushes' = flushes /\ pc' = pc /\ hand' = hand
        /\ stage' = stage + 1 \/ stage' = N + 1
    BY <1>5 DEF MapStage, Keep, Filter, StatefulStage, FlushStage
  <2>2. QED
    BY <1>1, <1>2, <2>1 DEF RoundsInv
<1>6. CASE WindowFlushed
  <2>1. /\ windows' = windows /\ flushes' = flushes - 1 /\ hand' = hand /\ stage' = 1
        /\ pc' = (IF flushes' = 0 THEN "chain" ELSE "flush") /\ pc = "flush"
    BY <1>6 DEF WindowFlushed
  <2>2. QED
    BY <1>1, <2>1 DEF RoundsInv
<1>7. CASE InputClosed \/ RunReturns \/ SendFails
  <2>1. /\ windows' = windows /\ flushes' = flushes /\ hand' = hand
        /\ stage' = stage \/ stage' = 1
        /\ pc' \in {"closing", "done"}
    BY <1>7 DEF InputClosed, RunReturns, SendFails, loop
  <2>2. QED
    BY <1>1, <2>1 DEF RoundsInv
<1>8. CASE /\ [Next]_vars
           /\ ~ (Receive \/ ChainDone \/ MapStage \/ StatefulStage \/ FlushStage \/ WindowFlushed
                 \/ InputClosed \/ RunReturns \/ SendFails)
  <2>1. windows' = windows /\ UNCHANGED <<stage, flushes, pc, hand>>
    BY <1>8 DEF Next, Run, SourceSend, SourceClose, Tick, Send, IncEmitted, SinkReceive, SinkFails,
                SinkFinishes, Terminated, loop, vars
  <2>2. QED
    BY <1>1, <2>1, Zenon DEF RoundsInv
<1>9. QED
  BY <1>3, <1>4, <1>5, <1>6, <1>7, <1>8

Outcome == [from : Nat, phase : {"flush", "chain", "closing"}, round : Nat, stage : Nat]

\* The outputs that may be there when the loop is where it is.
Past ==
  {a \in Outcome :
     /\ pc \in {"recv", "flush", "chain"} => a.phase # "closing"
     /\ pc = "recv" => a.from <= received
     /\ pc \in {"flush", "chain", "closing"} => NotAfter(a, Output(stage))}

Sorted(s) == \A i, j \in DOMAIN s : i < j => NotAfter(s[i], s[j])

OutputsInv ==
  /\ delivered \in Seq(Past) /\ outbox \in Seq(Past) /\ pending \in Seq(Past)
  /\ Sorted(delivered \o outbox \o pending)

\* In a row, two sequences are sorted if each is and the second follows the first.
LEMMA SortedConcat ==
  ASSUME NEW S, NEW s \in Seq(S), NEW t \in Seq(S)
  PROVE  Sorted(s \o t) <=>
           /\ Sorted(s) /\ Sorted(t)
           /\ \A i \in 1 .. Len(s), j \in 1 .. Len(t) : NotAfter(s[i], t[j])
<1> DEFINE u == s \o t
<1>1. /\ Len(u) = Len(s) + Len(t) /\ Len(s) \in Nat /\ Len(t) \in Nat
      /\ DOMAIN u = 1 .. Len(u) /\ DOMAIN s = 1 .. Len(s) /\ DOMAIN t = 1 .. Len(t)
      /\ \A i \in 1 .. Len(s) : u[i] = s[i]
      /\ \A j \in 1 .. Len(t) : u[Len(s) + j] = t[j]
  BY ConcatProperties
<1> HIDE DEF u
<1>2. ASSUME Sorted(u)
      PROVE  /\ Sorted(s) /\ Sorted(t)
             /\ \A i \in 1 .. Len(s), j \in 1 .. Len(t) : NotAfter(s[i], t[j])
  <2>1. Sorted(s)
    BY <1>1, <1>2 DEF Sorted
  <2>2. ASSUME NEW i \in 1 .. Len(t), NEW j \in 1 .. Len(t), i < j PROVE NotAfter(t[i], t[j])
    <3>1. Len(s) + i \in DOMAIN u /\ Len(s) + j \in DOMAIN u /\ Len(s) + i < Len(s) + j
      BY <1>1, <2>2
    <3>2. NotAfter(u[Len(s) + i], u[Len(s) + j])
      BY <1>2, <3>1 DEF Sorted
    <3>3. QED
      BY <1>1, <3>2
  <2>3. ASSUME NEW i \in 1 .. Len(s), NEW j \in 1 .. Len(t) PROVE NotAfter(s[i], t[j])
    <3>1. i \in DOMAIN u /\ Len(s) + j \in DOMAIN u /\ i < Len(s) + j
      BY <1>1
    <3>2. NotAfter(u[i], u[Len(s) + j])
      BY <1>2, <3>1 DEF Sorted
    <3>3. QED
      BY <1>1, <3>2
  <2>4. QED
    BY <1>1, <2>1, <2>2, <2>3 DEF Sorted
<1>3. ASSUME Sorted(s), Sorted(t),
             \A i \in 1 .. Len(s), j \in 1 .. Len(t) : NotAfter(s[i], t[j]),
             NEW i \in DOMAIN u, NEW j \in DOMAIN u, i < j
      PROVE  NotAfter(u[i], u[j])
  <2>1. CASE j <= Len(s)
    BY <1>1, <1>3, <2>1 DEF Sorted
  <2>2. CASE i <= Len(s) /\ j > Len(s)
    <3>1. j - Len(s) \in 1 .. Len(t) /\ Len(s) + (j - Len(s)) = j /\ i \in 1 .. Len(s)
      BY <1>1, <2>2
    <3>2. u[i] = s[i] /\ u[j] = t[j - Len(s)]
      BY <1>1, <3>1
    <3>3. QED
      BY <1>3, <3>1, <3>2
  <2>3. CASE i > Len(s)
    <3>1. /\ i - Len(s) \in 1 .. Len(t) /\ Len(s) + (i - Len(s)) = i
          /\ j - Len(s) \in 1 .. Len(t) /\ Len(s) + (j - Len(s)) = j
          /\ i - Len(s) < j - Len(s)
      <4>1. /\ i \in Nat /\ j \in Nat /\ Len(s) \in Nat /\ Len(t) \in Nat
            /\ j <= Len(s) + Len(t) /\ i < j
        BY <1>1, <1>3
      <4>2. QED
        BY <2>3, <4>1
    <3>2. u[i] = t[i - Len(s)] /\ u[j] = t[j - Len(s)]
      BY <1>1, <3>1
    <3>3. QED
      BY <1>1, <1>3, <3>1, <3>2 DEF Sorted
  <2>4. QED
    BY <1>1, <2>1, <2>2, <2>3
<1>4. QED
  BY <1>2, <1>3 DEF Sorted, u

\* The loop moves on, and what is past stays past.
LEMMA PastStays ==
  ASSUME RoundsInv, RoundsInv', ChannelInv, [Next]_vars
  PROVE  Past \subseteq Past'
<1>1. received \in Nat /\ stage \in Nat /\ flushes \in Nat
  BY DEF ChannelInv, RoundsInv
<1>2. N \in Nat
  BY TopologiesAssumption DEF ChannelInv, N, Stages
<1> USE DEF Past, Outcome, NotAfter, Phase, Output
<1>3. CASE Receive
  <2>1. CASE DropLate(Head(inbox))
    <3>1. stage' = stage /\ flushes' = flushes /\ pc' = pc /\ pc = "recv" /\ received' = received + 1
      BY <1>3, <2>1 DEF Receive, DropLate, loop
    <3>2. QED
      BY <1>1, <3>1
  <2>2. CASE Accept(Head(inbox))
    <3>1. pc' \in {"flush", "chain"} /\ pc = "recv" /\ received' = received + 1
      BY <1>3, <2>2 DEF Receive, Accept
    <3>2. QED
      BY <1>1, <3>1
  <2>3. QED
    BY <1>3, <2>1, <2>2 DEF Receive
<1>4. CASE ChainDone
  <2>1. pc = "chain" /\ pc' = "recv" /\ received' = received
    BY <1>4 DEF ChainDone
  <2>2. QED
    BY <1>1, <2>1
<1>5. CASE MapStage \/ StatefulStage \/ FlushStage
  <2>1. /\ flushes' = flushes /\ pc' = pc /\ received' = received /\ stage <= N
        /\ stage' = stage + 1 \/ stage' = N + 1
    BY <1>5 DEF MapStage, Keep, Filter, StatefulStage, FlushStage, metrics
  <2>2. QED
    BY <1>1, <1>2, <2>1
<1>6. CASE WindowFlushed
  <2>1. /\ flushes' = flushes - 1 /\ received' = received
        /\ pc = "flush" /\ pc' \in {"flush", "chain"}
    BY <1>6 DEF WindowFlushed, metrics
  <2>2. QED
    BY <1>1, <2>1
<1>7. CASE InputClosed
  <2>1. flushes' = flushes /\ received' = received /\ pc = "recv" /\ pc' = "closing"
    BY <1>7 DEF InputClosed, metrics
  <2>2. QED
    BY <1>1, <2>1
<1>8. CASE RunReturns \/ SendFails
  <2>1. pc' = "done"
    BY <1>8 DEF RunReturns, SendFails
  <2>2. QED
    BY <2>1
<1>9. CASE /\ [Next]_vars
           /\ ~ (Receive \/ ChainDone \/ MapStage \/ StatefulStage \/ FlushStage \/ WindowFlushed
                 \/ InputClosed \/ RunReturns \/ SendFails)
  <2>1. received' = received /\ stage' = stage /\ flushes' = flushes /\ pc' = pc
    BY <1>9 DEF Next, Run, SourceSend, SourceClose, Tick, Send, IncEmitted, SinkReceive, SinkFails,
                SinkFinishes, Terminated, loop, metrics, vars
  <2>2. QED
    BY <2>1
<1>10. QED
  BY <1>3, <1>4, <1>5, <1>6, <1>7, <1>8, <1>9

LEMMA OutputsInit == Init => OutputsInv
<1> SUFFICES ASSUME Init PROVE OutputsInv
  OBVIOUS
<1>1. delivered = << >> /\ outbox = << >> /\ pending = << >>
  BY DEF Init
<1>2. << >> \o << >> \o << >> = << >>
  BY ConcatEmptySeq
<1>3. Sorted(<< >>) /\ << >> \in Seq(Past)
  BY DEF Sorted
<1>4. QED
  BY <1>1, <1>2, <1>3, Zenon DEF OutputsInv

\* A step after which the same outputs follow each other.
LEMMA SameOutputs ==
  ASSUME OutputsInv, delivered' \in Seq(Past'), outbox' \in Seq(Past'), pending' \in Seq(Past'),
         delivered' \o outbox' \o pending' = delivered \o outbox \o pending
  PROVE  OutputsInv'
<1>1. Sorted(delivered' \o outbox' \o pending')
  BY Zenon DEF OutputsInv
<1>2. QED
  BY <1>1, Zenon DEF OutputsInv, Sorted

\* The outputs of a call follow those that were there.
LEMMA CallOutputs ==
  ASSUME OutputsInv, ChannelInv, RoundsInv, Past \subseteq Past',
         pc \in {"flush", "chain", "closing"}, pc' = pc, received' = received,
         flushes' = flushes, stage' > stage, stage' \in Nat, pending = << >>,
         delivered' = delivered, outbox' = outbox,
         NEW n \in Nat, pending' = [k \in 1 .. n |-> Output(stage)]
  PROVE  OutputsInv'
<1> DEFINE o == Output(stage)
<1>1. o \in Past' /\ NotAfter(o, o) /\ \A a \in Past : NotAfter(a, o)
  <2>1. received \in Nat /\ stage \in Nat /\ flushes \in Nat
    BY DEF ChannelInv, RoundsInv
  <2>2. o \in Past' /\ NotAfter(o, o)
    BY <2>1 DEF Past, Outcome, Output, NotAfter, Phase
  <2>3. \A a \in Past : NotAfter(a, o)
    BY DEF Past
  <2>4. QED
    BY <2>2, <2>3
<1> HIDE DEF o
<1> DEFINE PastThen == Past'
<1> HIDE DEF PastThen
<1>2. pending' = [k \in 1 .. n |-> o]
  BY DEF o
<1>3. /\ pending' \in Seq(PastThen) /\ Len(pending') = n /\ DOMAIN pending' = 1 .. n
      /\ \A k \in 1 .. n : pending'[k] = o
  BY <1>1, <1>2 DEF PastThen
<1>4. delivered \in Seq(PastThen) /\ outbox \in Seq(PastThen)
  BY SeqMonotonic DEF OutputsInv, PastThen
<1> DEFINE s == delivered \o outbox
<1>5. s \in Seq(Past) /\ s \in Seq(PastThen)
  BY <1>4, ConcatProperties DEF OutputsInv
<1>6. Sorted(s)
  <2>1. Sorted(s \o << >>) /\ s \o << >> = s
    BY <1>5, ConcatEmptySeq DEF OutputsInv
  <2>2. QED
    BY <2>1
<1> HIDE DEF s
<1>7. Sorted(pending')
  BY <1>1, <1>3 DEF Sorted
<1>8. \A i \in 1 .. Len(s), j \in 1 .. Len(pending') : NotAfter(s[i], pending'[j])
  BY <1>1, <1>3, <1>5, ElementOfSeq
<1>9. Sorted(s \o pending')
  BY <1>3, <1>5, <1>6, <1>7, <1>8, SortedConcat
<1>10. Sorted(delivered' \o outbox' \o pending')
  BY <1>9, Zenon DEF s
<1>11. QED
  BY <1>3, <1>4, <1>10, Zenon DEF OutputsInv, PastThen, Sorted

\* An output goes into the channel.
LEMMA SendOutputs == ASSUME OutputsInv, Past \subseteq Past', Send PROVE OutputsInv'
<1>1. /\ pending # << >> /\ outbox' = Append(outbox, Head(pending)) /\ pending' = Tail(pending)
      /\ delivered' = delivered
  BY DEF Send
<1>2. delivered \in Seq(Past) /\ outbox \in Seq(Past) /\ pending \in Seq(Past)
  BY DEF OutputsInv
<1>3. /\ Head(pending) \in Past /\ outbox' \in Seq(Past) /\ pending' \in Seq(Past)
      /\ delivered' \in Seq(Past)
  BY <1>1, <1>2, HeadTailProperties
<1>4. outbox \o pending = outbox' \o pending'
  BY <1>1, <1>2, MoveAcross
<1>5. /\ (delivered \o outbox) \o pending = delivered \o (outbox \o pending)
      /\ (delivered' \o outbox') \o pending' = delivered' \o (outbox' \o pending')
  <2>1. \A s, t, u \in Seq(Past) : (s \o t) \o u = s \o (t \o u)
    <3> DEFINE S == Past
    <3> HIDE DEF S
    <3>1. \A s, t, u \in Seq(S) : (s \o t) \o u = s \o (t \o u)
      BY ConcatAssociative, SMTT(30)
    <3>2. QED
      BY <3>1, Zenon DEF S
  <2>2. (delivered \o outbox) \o pending = delivered \o (outbox \o pending)
    BY <1>2, <2>1, Zenon
  <2>3. (delivered' \o outbox') \o pending' = delivered' \o (outbox' \o pending')
    BY <1>3, <2>1, Zenon
  <2>4. QED
    BY <2>2, <2>3, Zenon
<1>6. delivered' \o outbox' \o pending' = delivered \o outbox \o pending
  BY <1>1, <1>4, <1>5, Zenon
<1> DEFINE PastThen == Past'
<1>7. delivered' \in Seq(PastThen) /\ outbox' \in Seq(PastThen) /\ pending' \in Seq(PastThen)
  <2> HIDE DEF PastThen
  <2>1. Past \subseteq PastThen
    BY DEF PastThen
  <2>2. QED
    BY <1>3, <2>1, SeqMonotonic
<1>8. QED
  BY <1>6, <1>7, SameOutputs, Zenon

\* The sink takes an output.
LEMMA ReceiveOutputs == ASSUME OutputsInv, Past \subseteq Past', SinkReceive PROVE OutputsInv'
<1>1. /\ outbox # << >> /\ delivered' = Append(delivered, Head(outbox)) /\ outbox' = Tail(outbox)
      /\ pending' = pending
  BY DEF SinkReceive
<1>2. delivered \in Seq(Past) /\ outbox \in Seq(Past) /\ pending \in Seq(Past)
  BY DEF OutputsInv
<1>3. /\ Head(outbox) \in Past /\ delivered' \in Seq(Past) /\ outbox' \in Seq(Past)
      /\ pending' \in Seq(Past)
  BY <1>1, <1>2, HeadTailProperties
<1>4. delivered \o outbox = delivered' \o outbox'
  BY <1>1, <1>2, MoveAcross
<1>5. delivered' \o outbox' \o pending' = delivered \o outbox \o pending
  BY <1>1, <1>4, Zenon
<1> DEFINE PastThen == Past'
<1>6. delivered' \in Seq(PastThen) /\ outbox' \in Seq(PastThen) /\ pending' \in Seq(PastThen)
  <2> HIDE DEF PastThen
  <2>1. Past \subseteq PastThen
    BY DEF PastThen
  <2>2. QED
    BY <1>3, <2>1, SeqMonotonic
<1>7. QED
  BY <1>5, <1>6, SameOutputs, Zenon

\* The sink fails with what its channel holds, or the pipeline gives up what it was sending.
LEMMA LostOutputs ==
  ASSUME OutputsInv, Past \subseteq Past', delivered' = delivered,
         \/ outbox' = << >> /\ pending' = pending
         \/ outbox' = outbox /\ pending' = << >>
  PROVE  OutputsInv'
<1>1. delivered \in Seq(Past) /\ outbox \in Seq(Past) /\ pending \in Seq(Past)
  BY DEF OutputsInv
<1>2. << >> \in Seq(Past) /\ delivered \o outbox \in Seq(Past)
  BY <1>1, ConcatProperties
<1> DEFINE PastThen == Past'
<1>3. delivered' \in Seq(PastThen) /\ outbox' \in Seq(PastThen) /\ pending' \in Seq(PastThen)
  <2> HIDE DEF PastThen
  <2>1. Past \subseteq PastThen
    BY DEF PastThen
  <2>2. delivered \in Seq(PastThen) /\ outbox \in Seq(PastThen) /\ pending \in Seq(PastThen)
        /\ << >> \in Seq(PastThen)
    BY <1>1, <2>1, SeqMonotonic
  <2>3. QED
    BY <2>2
<1> DEFINE s == delivered \o outbox
<1>4. s \o << >> = s /\ delivered \o << >> = delivered
  BY <1>1, <1>2, ConcatEmptySeq
<1>5. /\ Sorted(s) /\ Sorted(pending)
      /\ \A i \in 1 .. Len(s), j \in 1 .. Len(pending) : NotAfter(s[i], pending[j])
  <2>1. s \in Seq(Past) /\ Sorted(s \o pending)
    BY <1>2 DEF OutputsInv
  <2> HIDE DEF s
  <2>2. QED
    BY <1>1, <2>1, SortedConcat
<1>6. Sorted(delivered) /\ Sorted(delivered \o pending)
  <2>1. /\ Sorted(delivered) /\ Len(s) = Len(delivered) + Len(outbox)
        /\ Len(delivered) \in Nat /\ Len(outbox) \in Nat
        /\ \A i \in 1 .. Len(delivered) : s[i] = delivered[i]
    BY <1>1, <1>5, ConcatProperties, SortedConcat
  <2> HIDE DEF s
  <2>2. \A i \in 1 .. Len(delivered), j \in 1 .. Len(pending) : NotAfter(delivered[i], pending[j])
    BY <1>5, <2>1
  <2>3. QED
    BY <1>1, <1>5, <2>1, <2>2, SortedConcat
<1>7. Sorted(delivered' \o outbox' \o pending')
  <2>1. CASE outbox' = << >> /\ pending' = pending
    BY <1>4, <1>6, <2>1, Zenon
  <2>2. CASE outbox' = outbox /\ pending' = << >>
    BY <1>4, <1>5, <2>2, Zenon
  <2>3. QED
    BY <2>1, <2>2
<1>8. QED
  BY <1>3, <1>7, Zenon DEF OutputsInv, Sorted

LEMMA OutputsStep ==
  ASSUME OutputsInv, ChannelInv, RoundsInv, RoundsInv', [Next]_vars
  PROVE  OutputsInv'
<1>1. Past \subseteq Past'
  BY PastStays
<1>2. N \in Nat /\ topology.maxOutputs \in Nat
  BY TopologiesAssumption DEF ChannelInv, N, Stages
<1>3. ASSUME delivered' = delivered, outbox' = outbox, pending' = pending
      PROVE  OutputsInv'
  <2> DEFINE PastThen == Past'
  <2>1. delivered' \in Seq(PastThen) /\ outbox' \in Seq(PastThen) /\ pending' \in Seq(PastThen)
    <3> HIDE DEF PastThen
    <3>1. Past \subseteq PastThen
      BY <1>1 DEF PastThen
    <3>2. QED
      BY <1>3, <3>1, SeqMonotonic DEF OutputsInv
  <2>2. delivered' \o outbox' \o pending' = delivered \o outbox \o pending
    BY <1>3, Zenon
  <2>3. QED
    BY <2>1, <2>2, SameOutputs, Zenon
<1>4. ASSUME NEW n \in Nat, pending' = [k \in 1 .. n |-> Output(stage)],
             MapStage \/ StatefulStage \/ FlushStage
      PROVE  OutputsInv'
  <2>1. /\ pc' = pc /\ pc \in {"flush", "chain", "closing"} /\ received' = received
        /\ flushes' = flushes /\ pending = << >> /\ delivered' = delivered /\ outbox' = outbox
        /\ stage <= N
        /\ stage' = stage + 1 \/ stage' = N + 1
    BY <1>4 DEF MapStage, Keep, Filter, StatefulStage, FlushStage, Calling, metrics
  <2>2. stage \in Nat /\ stage' \in Nat
    BY DEF RoundsInv
  <2>3. stage' > stage
    BY <1>2, <2>1, <2>2
  <2>4. QED
    BY <1>1, <1>4, <2>1, <2>2, <2>3, CallOutputs
<1>5. CASE MapStage
  <2>1. delivered' = delivered /\ outbox' = outbox
    BY <1>5 DEF MapStage
  <2>2. CASE Keep
    <3>1. pending' = <<Output(stage)>>
      BY <2>2 DEF Keep
    <3>2. \A o : <<o>> = [k \in 1 .. 1 |-> o]
      OBVIOUS
    <3>3. pending' = [k \in 1 .. 1 |-> Output(stage)]
      BY <3>1, <3>2, Zenon
    <3>4. QED
      BY <1>4, <1>5, <3>3
  <2>3. CASE Filter
    BY <1>3, <2>1, <2>3 DEF Filter
  <2>4. QED
    BY <1>5, <2>2, <2>3 DEF MapStage
<1>6. CASE StatefulStage \/ FlushStage
  <2>1. delivered' = delivered /\ outbox' = outbox /\ (pending' = pending \/ Returns(stage))
    BY <1>6 DEF StatefulStage, FlushStage, CloseWindow
  <2>2. CASE pending' = pending
    BY <1>3, <2>1, <2>2
  <2>3. CASE Returns(stage)
    <3>1. PICK n \in 0 .. topology.maxOutputs : pending' = [k \in 1 .. n |-> Output(stage)]
      BY <2>3 DEF Returns
    <3>2. n \in Nat
      BY <1>2
    <3>3. QED
      BY <1>4, <1>6, <3>1, <3>2
  <2>4. QED
    BY <2>1, <2>2, <2>3
<1>7. CASE Send
  BY <1>1, <1>7, SendOutputs
<1>8. CASE SinkReceive
  BY <1>1, <1>8, ReceiveOutputs
<1>9. CASE SinkFails \/ SendFails
  <2>1. /\ delivered' = delivered
        /\ \/ outbox' = << >> /\ pending' = pending
           \/ outbox' = outbox /\ pending' = << >>
    BY <1>9 DEF SinkFails, SendFails
  <2>2. QED
    BY <1>1, <2>1, LostOutputs
<1>10. CASE /\ [Next]_vars
            /\ ~ (MapStage \/ StatefulStage \/ FlushStage \/ Send \/ SinkReceive \/ SinkFails
                  \/ SendFails)
  <2>1. delivered' = delivered /\ outbox' = outbox /\ pending' = pending
    BY <1>10 DEF Next, Run, SourceSend, SourceClose, Tick, Receive, ChainDone, WindowFlushed,
                 InputClosed, RunReturns, IncEmitted, SinkFinishes, Terminated, vars
  <2>2. QED
    BY <1>3, <2>1
<1>11. QED
  BY <1>5, <1>6, <1>7, <1>8, <1>9, <1>10

\* The sink sees the outputs in the order of the calls they come from, in every topology,
\* whatever the capacity of the channels and wherever the run is given up.
THEOREM OutputsFollowTheCalls == Spec => []OutputsInOrder
<1> DEFINE Inv == ChannelInv /\ BodyInv /\ RoundsInv /\ OutputsInv
<1>1. Init => Inv
  <2>1. Init => ChannelInv /\ BodyInv
    BY BoundsAssumption DEF Init, ChannelInv, BodyInv, Sendable
  <2>2. Init => RoundsInv
    BY FS_EmptySet DEF Init, RoundsInv
  <2>3. QED
    BY <2>1, <2>2, OutputsInit
<1>2. Inv /\ [Next]_vars => Inv'
  BY ChannelStep, BodyStep, RoundsStep, OutputsStep
<1>3. Inv => OutputsInOrder
  BY DEF OutputsInv, OutputsInOrder, Sorted
<1> HIDE DEF Inv
<1>4. QED
  BY <1>1, <1>2, <1>3, PTL DEF Spec

(***************************************************************************)
(* What the stages see                                                     *)
(***************************************************************************)

LEMMA TopologyKept ==
  ASSUME [Next]_vars
  PROVE  /\ topology' = topology /\ Sendable' = Sendable /\ Stages' = Stages /\ N' = N
         /\ Stateful' = Stateful /\ Strategy' = Strategy /\ Windowed' = Windowed
<1>1. topology' = topology
  BY DEF Next, Run, SourceSend, SourceClose, Tick, Receive, MapStage, StatefulStage, ChainDone,
         FlushStage, WindowFlushed, InputClosed, RunReturns, Send, IncEmitted, SendFails,
         SinkReceive, SinkFails, SinkFinishes, Terminated, source, vars
<1>2. QED
  BY <1>1 DEF Sendable, Stages, N, Stateful, Strategy, Windowed

LEMMA TopologyType ==
  ASSUME ChannelInv
  PROVE  /\ N \in Nat /\ Stateful \subseteq 1 .. N /\ \A s \in Stateful : Stages[s] = "stateful"
         /\ Strategy.kind \in {"none", "tumbling", "sliding", "session", "count"}
         /\ Strategy.size \in Nat /\ Strategy.slide \in Nat
         /\ \A e \in Sendable : e.id \in Nat /\ e.ts \in Nat
<1>1. topology \in Topologies
  BY DEF ChannelInv
<1>2. N \in Nat
  BY <1>1, TopologiesAssumption DEF N, Stages
<1>3. \A e \in Sendable : e.id \in Nat /\ e.ts \in Nat
  BY <1>1, TopologiesAssumption DEF Sendable
<1>4. QED
  BY <1>1, <1>2, <1>3, TopologiesAssumption DEF Stateful, Strategy

\* The events that are through the loop body.
Settled == IF hand = << >> THEN Len(accepted) ELSE Len(accepted) - 1

\* The accepted events are numbered upwards, the one in hand is the last of them, and it
\* has not been filtered while there are stages to come.
EventsInv ==
  /\ accepted \in Seq(Sendable)
  /\ \A i \in 1 .. Len(accepted) : accepted[i].id \in 1 .. received
  /\ \A i, j \in 1 .. Len(accepted) : i < j => accepted[i].id < accepted[j].id
  /\ hand # << >> => Len(accepted) > 0 /\ hand = <<accepted[Len(accepted)]>>
  /\ droppedBy \in Seq(Nat) /\ Len(droppedBy) = Len(accepted)
  /\ pc = "flush" \/ (pc = "chain" /\ stage <= N) => droppedBy[Len(droppedBy)] = 0

\* The event that is taken off the channel is newer than all that were.
LEMMA TakenEvent ==
  ASSUME ChannelInv, Receive
  PROVE  Head(inbox) \in Sendable /\ Head(inbox).id = received + 1 /\ received' = received + 1
<1>1. inbox # << >> /\ received' = received + 1
  BY DEF Receive
<1>2. /\ inbox \in Seq(Sendable) /\ received \in Nat
      /\ \A i \in 1 .. Len(inbox) : inbox[i].id = received + i
  BY DEF ChannelInv
<1> DEFINE S == Sendable
<1> HIDE DEF S
<1>3. Head(inbox) = inbox[1] /\ inbox[1] \in S /\ 1 \in 1 .. Len(inbox)
  BY <1>1, <1>2 DEF S
<1>4. QED
  BY <1>1, <1>2, <1>3 DEF S

\* What accepting an event does to the histories.
LEMMA AcceptHistory ==
  ASSUME ChannelInv, BodyInv, EventsInv, Receive, Accept(Head(inbox))
  PROVE  /\ Len(accepted') = Len(accepted) + 1 /\ Len(droppedBy') = Len(accepted')
         /\ accepted' \in Seq(Sendable) /\ droppedBy' \in Seq(Nat)
         /\ \A i \in 1 .. Len(accepted) : accepted'[i] = accepted[i] /\ droppedBy'[i] = droppedBy[i]
         /\ accepted'[Len(accepted')] = Head(inbox) /\ droppedBy'[Len(accepted')] = 0
         /\ hand = << >> /\ hand' = <<Head(inbox)>> /\ hand' # << >>
         /\ Settled = Len(accepted) /\ Settled' = Len(accepted)
<1> DEFINE e == Head(inbox)
           S == Sendable
<1>1. e \in S /\ pc = "recv"
  BY TakenEvent DEF Receive
<1>2. /\ accepted' = Append(accepted, e) /\ droppedBy' = Append(droppedBy, 0) /\ hand' = <<e>>
      /\ hand = << >>
  BY <1>1 DEF Accept, BodyInv
<1>3. accepted \in Seq(S) /\ droppedBy \in Seq(Nat) /\ Len(droppedBy) = Len(accepted)
  BY DEF EventsInv
<1> HIDE DEF e, S
<1>4. /\ accepted' \in Seq(S) /\ Len(accepted') = Len(accepted) + 1
      /\ \A i \in 1 .. Len(accepted) : accepted'[i] = accepted[i]
      /\ accepted'[Len(accepted) + 1] = e /\ Len(accepted) \in Nat
  BY <1>1, <1>2, <1>3
<1>5. /\ droppedBy' \in Seq(Nat) /\ Len(droppedBy') = Len(accepted) + 1
      /\ \A i \in 1 .. Len(accepted) : droppedBy'[i] = droppedBy[i]
      /\ droppedBy'[Len(accepted) + 1] = 0
  BY <1>2, <1>3
<1>6. hand' # << >>
  BY <1>2
<1>7. Settled = Len(accepted) /\ Settled' = Len(accepted') - 1
  BY <1>2, <1>6 DEF Settled
<1>8. QED
  BY <1>2, <1>4, <1>5, <1>6, <1>7 DEF e, S

LEMMA EventsStep ==
  ASSUME ChannelInv, BodyInv, RoundsInv, EventsInv, [Next]_vars
  PROVE  EventsInv'
<1>1. Sendable' = Sendable /\ N' = N /\ N \in Nat
  BY TopologyKept, TopologyType
<1>2. CASE Receive
  <2>1. CASE DropLate(Head(inbox))
    <3>1. /\ accepted' = accepted /\ droppedBy' = droppedBy /\ hand' = hand /\ pc' = pc
          /\ stage' = stage
      BY <2>1 DEF DropLate, loop, history
    <3>2. received' = received + 1 /\ received \in Nat
      BY <1>2, TakenEvent DEF ChannelInv
    <3>3. \A i \in 1 .. Len(accepted) : accepted[i].id \in 1 .. received'
      BY <3>2 DEF EventsInv
    <3>4. QED
      BY <1>1, <3>1, <3>3, Zenon DEF EventsInv
  <2>2. CASE Accept(Head(inbox))
    <3> DEFINE n == Len(accepted)
    <3>1. /\ Len(accepted') = n + 1 /\ Len(droppedBy') = n + 1 /\ n \in Nat
          /\ accepted' \in Seq(Sendable) /\ droppedBy' \in Seq(Nat)
          /\ \A i \in 1 .. n : accepted'[i] = accepted[i]
          /\ accepted'[n + 1] = Head(inbox) /\ droppedBy'[n + 1] = 0
          /\ hand' = <<accepted'[n + 1]>>
      BY <1>2, <2>2, AcceptHistory, LenProperties DEF EventsInv
    <3>2. Head(inbox).id = received + 1 /\ received' = received + 1 /\ received \in Nat
      BY <1>2, TakenEvent DEF ChannelInv
    <3>3. /\ \A i \in 1 .. n : accepted[i].id \in 1 .. received
          /\ \A i, j \in 1 .. n : i < j => accepted[i].id < accepted[j].id
      BY DEF EventsInv
    <3> HIDE DEF n
    <3>4. \A i \in 1 .. n + 1 : accepted'[i].id \in 1 .. received'
      BY <3>1, <3>2, <3>3
    <3>5. ASSUME NEW i \in 1 .. n + 1, NEW j \in 1 .. n + 1, i < j
          PROVE  accepted'[i].id < accepted'[j].id
      <4>1. i \in 1 .. n /\ accepted'[i] = accepted[i]
        BY <3>1, <3>5
      <4>2. CASE j \in 1 .. n
        <5>1. accepted'[j] = accepted[j]
          BY <3>1, <4>2
        <5>2. QED
          BY <3>3, <3>5, <4>1, <4>2, <5>1
      <4>3. CASE j = n + 1
        <5>1. accepted'[j].id = received + 1 /\ accepted[i].id \in 1 .. received
          BY <3>1, <3>2, <3>3, <4>1, <4>3
        <5>2. QED
          BY <3>2, <4>1, <5>1
      <4>4. QED
        BY <3>1, <4>2, <4>3
    <3>6. Len(accepted') > 0 /\ hand' = <<accepted'[Len(accepted')]>>
      BY <3>1
    <3>7. droppedBy'[Len(droppedBy')] = 0
      BY <3>1
    <3>8. /\ \A i \in 1 .. Len(accepted') : accepted'[i].id \in 1 .. received'
          /\ \A i, j \in 1 .. Len(accepted') : i < j => accepted'[i].id < accepted'[j].id
      BY <3>1, <3>4, <3>5, Zenon
    <3>9. Len(droppedBy') = Len(accepted')
      BY <3>1
    <3>10. QED
      BY <1>1, <3>1, <3>6, <3>7, <3>8, <3>9, Zenon DEF EventsInv
  <2>3. QED
    BY <1>2, <2>1, <2>2 DEF Receive
<1>3. CASE MapStage /\ Filter
  <2>1. /\ accepted' = accepted /\ received' = received /\ hand' = hand /\ pc' = pc
        /\ pc = "chain" /\ stage \in Nat
        /\ droppedBy' = [droppedBy EXCEPT ![Len(droppedBy)] = stage] /\ stage' = N + 1
    BY <1>3 DEF MapStage, Filter, RoundsInv
  <2>2. droppedBy' \in Seq(Nat) /\ Len(droppedBy') = Len(droppedBy)
    <3>1. stage \in Nat /\ droppedBy \in Seq(Nat)
      BY <2>1 DEF EventsInv
    <3>2. droppedBy' \in [DOMAIN droppedBy -> Nat]
      BY <2>1, <3>1, ElementOfSeq, LenProperties
    <3>3. QED
      BY <3>1, <3>2, SamePlacesSeq
  <2>3. QED
    BY <1>1, <2>1, <2>2 DEF EventsInv
<1>4. CASE ChainDone \/ WindowFlushed \/ SendFails \/ RunReturns \/ InputClosed
  <2>1. accepted' = accepted /\ received' = received /\ droppedBy' = droppedBy
    BY <1>4 DEF ChainDone, WindowFlushed, SendFails, RunReturns, InputClosed, metrics, history
  <2>2. hand' = hand \/ hand' = << >>
    BY <1>4 DEF ChainDone, WindowFlushed, SendFails, RunReturns, InputClosed, loop
  <2>3. pc' \in {"recv", "done", "closing"} \/ pc = "flush"
    BY <1>4 DEF ChainDone, WindowFlushed, SendFails, RunReturns, InputClosed
  <2>4. QED
    BY <1>1, <2>1, <2>2, <2>3 DEF EventsInv
<1>5. CASE /\ [Next]_vars
           /\ ~ (Receive \/ (MapStage /\ Filter) \/ ChainDone \/ WindowFlushed \/ SendFails
                 \/ RunReturns \/ InputClosed)
  <2>1. /\ accepted' = accepted /\ received' = received /\ droppedBy' = droppedBy
        /\ hand' = hand /\ pc' = pc
    BY <1>5 DEF Next, Run, SourceSend, SourceClose, Tick, MapStage, Keep, StatefulStage,
                FlushStage, Send, IncEmitted, SinkReceive, SinkFails, SinkFinishes, Terminated,
                loop, metrics, history, vars
  <2>2. stage' = stage \/ stage' = stage + 1
    BY <1>5 DEF Next, Run, SourceSend, SourceClose, Tick, MapStage, Keep, StatefulStage,
                FlushStage, Send, IncEmitted, SinkReceive, SinkFails, SinkFinishes, Terminated,
                loop, vars
  <2>3. pc' = "chain" /\ stage' <= N => stage <= N
    BY <1>1, <2>2 DEF RoundsInv
  <2>4. QED
    BY <1>1, <2>1, <2>3, Zenon DEF EventsInv
<1>6. QED
  BY <1>2, <1>3, <1>4, <1>5

\* A call is one entry more in the history of its stage.
LEMMA ProcessedAppend ==
  ASSUME NEW log \in Seq(Nat), NEW x \in Nat
  PROVE  Processed(Append(log, x))
           = IF IsEvent(x) THEN Append(Processed(log), x) ELSE Processed(log)
<1> DEFINE t == Append(log, x)
           P == {i \in DOMAIN log : IsEvent(log[i])}
           Q == {i \in DOMAIN t : IsEvent(t[i])}
<1>1. /\ Len(log) \in Nat /\ Len(t) = Len(log) + 1 /\ DOMAIN log = 1 .. Len(log)
      /\ DOMAIN t = 1 .. Len(log) + 1 /\ t[Len(log) + 1] = x
      /\ \A n \in 1 .. Len(log) : t[n] = log[n]
  OBVIOUS
<1> HIDE DEF t
<1>2. \A n \in 1 .. Len(log) : (n \in P <=> n \in Q) /\ log[n] = t[n]
  BY <1>1
<1>3. Len(t) \in Q <=> IsEvent(x)
  BY <1>1
<1> HIDE DEF P, Q
<1>4. Picked(t, Q) = IF Len(t) \in Q THEN Append(Picked(log, P), t[Len(t)]) ELSE Picked(log, P)
  BY <1>1, <1>2, PickedLast
<1>5. Processed(t) = Picked(t, Q) /\ Processed(log) = Picked(log, P)
  BY DEF Processed, P, Q
<1>6. QED
  BY <1>1, <1>3, <1>4, <1>5, Zenon DEF t

LEMMA ClosingsAppend ==
  ASSUME NEW log \in Seq(Nat), NEW x \in Nat
  PROVE  /\ Closings(log) \in Nat
         /\ Closings(Append(log, x)) = IF IsEvent(x) THEN Closings(log) ELSE Closings(log) + 1
<1> DEFINE t == Append(log, x)
           P == {i \in DOMAIN log : log[i] = Close}
           Q == {i \in DOMAIN t : t[i] = Close}
<1>1. /\ Len(log) \in Nat /\ DOMAIN log = 1 .. Len(log)
      /\ DOMAIN t = 1 .. Len(log) + 1 /\ t[Len(log) + 1] = x
      /\ \A n \in 1 .. Len(log) : t[n] = log[n]
  OBVIOUS
<1> HIDE DEF t
<1>2. IsFiniteSet(P) /\ Cardinality(P) \in Nat
  <2>1. IsFiniteSet(1 .. Len(log)) /\ P \in SUBSET (1 .. Len(log))
    BY <1>1, FS_Interval
  <2>2. QED
    BY <2>1, FS_Subset, FS_CardinalityType
<1>3. Q = (IF IsEvent(x) THEN P ELSE P \cup {Len(log) + 1}) /\ Len(log) + 1 \notin P
  BY <1>1 DEF IsEvent
<1>4. Closings(log) = Cardinality(P) /\ Closings(t) = Cardinality(Q)
  BY DEF Closings
<1> HIDE DEF P, Q
<1>5. Cardinality(P \cup {Len(log) + 1}) = Cardinality(P) + 1
  BY <1>2, <1>3, FS_AddElement
<1>6. QED
  BY <1>2, <1>3, <1>4, <1>5 DEF t

\* One event more is offered: it is kept unless it was filtered on the way.
LEMMA KeptIdsNext ==
  ASSUME NEW s, NEW n \in Nat
  PROVE  KeptIds(s, n + 1)
           = IF droppedBy[n + 1] = 0 \/ droppedBy[n + 1] > s
             THEN Append(KeptIds(s, n), accepted[n + 1].id) ELSE KeptIds(s, n)
<1> DEFINE ids == [i \in 1 .. n |-> accepted[i].id]
           more == [i \in 1 .. n + 1 |-> accepted[i].id]
           P == {i \in 1 .. n : droppedBy[i] = 0 \/ droppedBy[i] > s}
           Q == {i \in 1 .. n + 1 : droppedBy[i] = 0 \/ droppedBy[i] > s}
<1>1. /\ Len(ids) = n /\ Len(more) = n + 1 /\ more[n + 1] = accepted[n + 1].id
      /\ \A i \in 1 .. n : ids[i] = more[i]
  OBVIOUS
<1>2. \A i \in 1 .. n : i \in P <=> i \in Q
  OBVIOUS
<1>3. n + 1 \in Q <=> (droppedBy[n + 1] = 0 \/ droppedBy[n + 1] > s)
  OBVIOUS
<1>4. KeptIds(s, n) = Picked(ids, P) /\ KeptIds(s, n + 1) = Picked(more, Q)
  BY Zenon DEF KeptIds
<1> HIDE DEF ids, more, P, Q
<1>5. Picked(more, Q)
        = IF Len(more) \in Q THEN Append(Picked(ids, P), more[Len(more)]) ELSE Picked(ids, P)
  BY <1>1, <1>2, PickedLast
<1>6. QED
  BY <1>1, <1>3, <1>4, <1>5, Zenon

\* What is kept of the first n events stays so while none of them is filtered.
LEMMA KeptIdsSame ==
  ASSUME NEW s, NEW n \in Nat,
         \A i \in 1 .. n : accepted'[i] = accepted[i],
         \A i \in 1 .. n : (droppedBy[i] = 0 \/ droppedBy[i] > s)
                             <=> (droppedBy'[i] = 0 \/ droppedBy'[i] > s)
  PROVE  KeptIds(s, n)' = KeptIds(s, n)
<1> DEFINE ids == [i \in 1 .. n |-> accepted[i].id]
           P == {i \in 1 .. n : droppedBy[i] = 0 \/ droppedBy[i] > s}
<1>1. ids' = ids
  BY Zenon
<1>2. P' = P
  BY Zenon
<1>3. QED
  BY <1>1, <1>2, Zenon DEF KeptIds

\* The histories of the stages.
LogsInv ==
  /\ opLog \in [1 .. N -> Seq(Nat)]
  /\ \A s \in 1 .. N : \A i \in 1 .. Len(opLog[s]) : IsEvent(opLog[s][i]) =>
       \E n \in 1 .. Len(accepted) : accepted[n].id = opLog[s][i]

LEMMA CallLogged ==
  ASSUME ChannelInv, LogsInv, NEW k \in 1 .. N, NEW x \in Nat,
         opLog' = [opLog EXCEPT ![k] = Append(@, x)]
  PROVE  /\ opLog' \in [1 .. N -> Seq(Nat)]
         /\ \A s \in 1 .. N : opLog'[s] = IF s = k THEN Append(opLog[s], x) ELSE opLog[s]
<1>1. Append(opLog[k], x) \in Seq(Nat)
  BY DEF LogsInv
<1>2. QED
  BY <1>1 DEF LogsInv

\* A call on a stateful stage is added to its history.
Called(x) ==
  /\ stage \in 1 .. N /\ stage' = stage + 1 /\ Stages[stage] = "stateful"
  /\ opLog' \in [1 .. N -> Seq(Nat)]
  /\ \A s \in 1 .. N : opLog'[s] = IF s = stage THEN Append(opLog[s], x) ELSE opLog[s]
  /\ UNCHANGED <<accepted, droppedBy, hand, pc, flushes, closed, windows, disk, sink>>
  /\ \/ pc = "chain" /\ IsEvent(x) /\ x = accepted[Len(accepted)].id
     \/ pc \in {"flush", "closing"} /\ ~ IsEvent(x)

\* A step is a call that the history records, or leaves the histories alone.
LEMMA HistoryStep ==
  ASSUME ChannelInv, BodyInv, RoundsInv, EventsInv, LogsInv, [Next]_vars
  PROVE  \/ \E x \in Nat : Called(x)
         \/ /\ opLog' = opLog /\ ~ StatefulStage
            /\ FlushStage => Stages[stage] # "stateful" /\ UNCHANGED <<opLog, pending>>
<1>1. N \in Nat /\ stage \in Nat \ {0}
  BY TopologyType DEF RoundsInv
<1>2. CASE StatefulStage
  <2>1. /\ pc = "chain" /\ stage <= N /\ Stages[stage] = "stateful" /\ stage' = stage + 1
        /\ opLog' = [opLog EXCEPT ![stage] = Append(@, Head(hand).id)]
        /\ UNCHANGED <<accepted, droppedBy, hand, pc, flushes, closed, windows, disk, sink>>
    BY <1>2 DEF StatefulStage, history, store
  <2>2. /\ Len(accepted) \in Nat \ {0} /\ hand = <<accepted[Len(accepted)]>>
        /\ \A i \in 1 .. Len(accepted) : accepted[i].id \in 1 .. received
    BY <2>1 DEF EventsInv, BodyInv
  <2>3. PICK x : x = accepted[Len(accepted)].id
    OBVIOUS
  <2>4. Head(hand).id = x /\ x \in Nat \ {0}
    BY <2>2, <2>3 DEF ChannelInv
  <2>5. stage \in 1 .. N
    BY <1>1, <2>1
  <2>6. opLog' = [opLog EXCEPT ![stage] = Append(@, x)]
    BY <2>1, <2>4
  <2>7. /\ opLog' \in [1 .. N -> Seq(Nat)]
        /\ \A s \in 1 .. N : opLog'[s] = IF s = stage THEN Append(opLog[s], x) ELSE opLog[s]
    BY <2>4, <2>5, <2>6, CallLogged
  <2>8. IsEvent(x)
    BY <2>4 DEF IsEvent, Close
  <2>9. Called(x)
    BY <2>1, <2>3, <2>5, <2>7, <2>8 DEF Called
  <2>10. QED
    BY <2>4, <2>9
<1>3. CASE FlushStage /\ Stages[stage] = "stateful"
  <2>1. /\ pc \in {"flush", "closing"} /\ stage <= N /\ stage' = stage + 1
        /\ opLog' = [opLog EXCEPT ![stage] = Append(@, Close)]
        /\ UNCHANGED <<accepted, droppedBy, hand, pc, flushes, closed, windows, disk, sink>>
    BY <1>3 DEF FlushStage, CloseWindow, history, store
  <2>2. stage \in 1 .. N /\ Close \in Nat /\ ~ IsEvent(Close)
    BY <1>1, <2>1 DEF IsEvent, Close
  <2>3. /\ opLog' \in [1 .. N -> Seq(Nat)]
        /\ \A s \in 1 .. N : opLog'[s] = IF s = stage THEN Append(opLog[s], Close) ELSE opLog[s]
    BY <2>1, <2>2, CallLogged
  <2>4. Called(Close)
    BY <1>3, <2>1, <2>2, <2>3 DEF Called
  <2>5. QED
    BY <2>2, <2>4
<1>4. CASE [Next]_vars /\ ~ StatefulStage /\ ~ (FlushStage /\ Stages[stage] = "stateful")
  <2>1. FlushStage => UNCHANGED <<opLog, pending>>
    BY <1>4 DEF FlushStage, CloseWindow
  <2>2. opLog' = opLog
    BY <1>4, <2>1 DEF Next, Run, SourceSend, SourceClose, Tick, Receive, MapStage, ChainDone,
           WindowFlushed, InputClosed, RunReturns, Send, IncEmitted, SendFails,
           SinkReceive, SinkFails, SinkFinishes, Terminated, vars
  <2>3. QED
    BY <1>4, <2>1, <2>2
<1>5. QED
  BY <1>2, <1>3, <1>4

\* Accepted events stay, in their places.
LEMMA AcceptedGrows ==
  ASSUME ChannelInv, BodyInv, EventsInv, [Next]_vars
  PROVE  /\ Len(accepted) \in Nat /\ Len(accepted') \in Nat /\ Len(accepted) <= Len(accepted')
         /\ \A i \in 1 .. Len(accepted) : accepted'[i] = accepted[i]
<1>1. Len(accepted) \in Nat
  BY DEF EventsInv
<1>2. CASE Receive /\ Accept(Head(inbox))
  BY <1>1, <1>2, AcceptHistory
<1>3. CASE accepted' = accepted
  BY <1>1, <1>3
<1>4. ASSUME ~ (Receive /\ Accept(Head(inbox))) PROVE accepted' = accepted
  <2>1. Receive => DropLate(Head(inbox))
    BY <1>4 DEF Receive
  <2>2. QED
    BY <2>1 DEF Next, Run, SourceSend, SourceClose, Tick, DropLate, MapStage, StatefulStage, ChainDone,
         FlushStage, WindowFlushed, InputClosed, RunReturns, Send, IncEmitted, SendFails,
         SinkReceive, SinkFails, SinkFinishes, Terminated, history, vars
<1>5. QED
  BY <1>2, <1>3, <1>4

LEMMA LogsStep ==
  ASSUME ChannelInv, BodyInv, RoundsInv, EventsInv, LogsInv, [Next]_vars
  PROVE  LogsInv'
<1>1. N' = N
  BY TopologyKept
<1>2. ASSUME NEW v, \E n \in 1 .. Len(accepted) : accepted[n].id = v
      PROVE  \E n \in 1 .. Len(accepted') : accepted'[n].id = v
  BY <1>2, AcceptedGrows
<1>3. CASE opLog' = opLog
  BY <1>1, <1>2, <1>3 DEF LogsInv
<1>4. ASSUME NEW x \in Nat, Called(x) PROVE LogsInv'
  <2>1. \A s \in 1 .. N : opLog'[s] = IF s = stage THEN Append(opLog[s], x) ELSE opLog[s]
    BY <1>4 DEF Called
  <2>2. opLog' \in [1 .. N -> Seq(Nat)]
    BY <1>4 DEF Called
  <2>3. IsEvent(x) => \E n \in 1 .. Len(accepted') : accepted'[n].id = x
    <3>1. ASSUME IsEvent(x) PROVE pc = "chain" /\ x = accepted[Len(accepted)].id
      BY <1>4, <3>1 DEF Called
    <3>2. pc = "chain" => Len(accepted) \in 1 .. Len(accepted)
      BY DEF EventsInv, BodyInv
    <3>3. QED
      BY <1>2, <3>1, <3>2
  <2>4. ASSUME NEW s \in 1 .. N, NEW i \in 1 .. Len(opLog'[s]), IsEvent(opLog'[s][i])
        PROVE  \E n \in 1 .. Len(accepted') : accepted'[n].id = opLog'[s][i]
    <3>1. opLog[s] \in Seq(Nat)
      BY DEF LogsInv
    <3>2. CASE opLog'[s] = opLog[s]
      <4>1. i \in 1 .. Len(opLog[s]) /\ IsEvent(opLog[s][i])
        BY <2>4, <3>2, Zenon
      <4>2. \E n \in 1 .. Len(accepted) : accepted[n].id = opLog[s][i]
        BY <4>1 DEF LogsInv
      <4>3. QED
        BY <1>2, <3>2, <4>2
    <3>3. CASE opLog'[s] = Append(opLog[s], x)
      <4>1. opLog'[s][i] = x \/ (i \in 1 .. Len(opLog[s]) /\ opLog'[s][i] = opLog[s][i])
        BY <2>4, <3>1, <3>3
      <4>2. QED
        BY <1>2, <2>3, <2>4, <4>1 DEF LogsInv
    <3>4. QED
      BY <2>1, <3>2, <3>3
  <2>5. QED
    BY <1>1, <2>2, <2>4 DEF LogsInv
<1>5. QED
  BY <1>3, <1>4, HistoryStep

\* Nothing that a stage is compared with changes.
LEMMA SeenUnchanged ==
  ASSUME StagesSeeKeptEvents, ChannelInv, EventsInv, Stateful' = Stateful,
         opLog' = opLog, accepted' = accepted, droppedBy' = droppedBy,
         pc' # "done" \/ hand' = << >> => pc # "done" \/ hand = << >>,
         \A s \in Stateful : Offered(s)' = Offered(s)
  PROVE  StagesSeeKeptEvents'
<1> SUFFICES ASSUME pc' # "done" \/ hand' = << >>, NEW s \in Stateful
             PROVE  Processed(opLog'[s]) = KeptIds(s, Offered(s))'
  BY DEF StagesSeeKeptEvents
<1>1. Processed(opLog[s]) = KeptIds(s, Offered(s))
  BY DEF StagesSeeKeptEvents
<1>2. KeptIds(s, Offered(s))' = KeptIds(s, Offered(s))
  BY Zenon DEF KeptIds
<1>3. QED
  BY <1>1, <1>2

LEMMA AcceptSeen ==
  ASSUME StagesSeeKeptEvents, ChannelInv, BodyInv, EventsInv, Stateful' = Stateful,
         Receive, Accept(Head(inbox))
  PROVE  StagesSeeKeptEvents'
<1> SUFFICES ASSUME NEW s \in Stateful
             PROVE  Processed(opLog'[s]) = KeptIds(s, Offered(s))'
  BY DEF StagesSeeKeptEvents
<1>1. opLog' = opLog /\ pc = "recv" /\ stage' = 1 /\ hand = << >> /\ hand' # << >>
  BY AcceptHistory DEF Receive, Accept
<1>2. Len(accepted) \in Nat /\ s \in 1 .. N /\ N \in Nat
  BY TopologyType DEF EventsInv
<1>3. Offered(s) = Len(accepted) /\ Offered(s)' = Len(accepted)
  <2>1. Len(accepted') = Len(accepted) + 1
    BY AcceptHistory
  <2>2. QED
    BY <1>1, <1>2, <2>1 DEF Offered
<1>4. Processed(opLog[s]) = KeptIds(s, Len(accepted))
  BY <1>1, <1>3 DEF StagesSeeKeptEvents
<1>5. PICK n \in Nat : n = Len(accepted)
  BY <1>2
<1>6. KeptIds(s, n)' = KeptIds(s, n)
  BY <1>5, AcceptHistory, KeptIdsSame
<1>7. KeptIds(s, Offered(s))' = KeptIds(s, n)'
  BY <1>3, <1>5, Zenon DEF KeptIds
<1>8. QED
  BY <1>1, <1>4, <1>5, <1>6, <1>7

LEMMA FilterSeen ==
  ASSUME StagesSeeKeptEvents, ChannelInv, BodyInv, RoundsInv, EventsInv, Stateful' = Stateful,
         MapStage, Filter
  PROVE  StagesSeeKeptEvents'
<1> SUFFICES ASSUME NEW s \in Stateful
             PROVE  Processed(opLog'[s]) = KeptIds(s, Offered(s))'
  BY DEF StagesSeeKeptEvents
<1>1. /\ opLog' = opLog /\ pc = "chain" /\ pc' = "chain" /\ hand' = hand /\ hand # << >>
      /\ accepted' = accepted /\ stage <= N /\ stage' = N + 1 /\ Stages[stage] = "map"
      /\ droppedBy' = [droppedBy EXCEPT ![Len(droppedBy)] = stage]
  BY DEF MapStage, Filter, BodyInv
<1>2. /\ N \in Nat /\ s \in 1 .. N /\ Stages[s] = "stateful" /\ stage \in Nat \ {0}
  BY TopologyType DEF RoundsInv
<1>3. PICK n \in Nat : n + 1 = Len(accepted)
  <2>1. Len(accepted) \in Nat /\ Len(accepted) > 0
    BY <1>1 DEF EventsInv
  <2>2. Len(accepted) - 1 \in Nat /\ (Len(accepted) - 1) + 1 = Len(accepted)
    BY <2>1
  <2>3. QED
    BY <2>2
<1>4. /\ \A i \in 1 .. n : droppedBy'[i] = droppedBy[i]
      /\ droppedBy'[n + 1] = stage /\ droppedBy[n + 1] = 0
  <2>1. droppedBy \in Seq(Nat) /\ Len(droppedBy) = n + 1 /\ droppedBy[n + 1] = 0
    BY <1>1, <1>3 DEF EventsInv
  <2>2. DOMAIN droppedBy = 1 .. n + 1
    BY <2>1
  <2>3. QED
    BY <1>1, <2>1, <2>2
<1>5. s # stage
  BY <1>1, <1>2
<1>6. Offered(s)' = n + 1
  BY <1>1, <1>2, <1>3 DEF Offered
<1>7. Processed(opLog[s]) = KeptIds(s, IF stage > s THEN n + 1 ELSE n)
  <2>1. Offered(s) = IF stage > s THEN n + 1 ELSE n
    BY <1>1, <1>2, <1>3 DEF Offered
  <2>2. QED
    BY <1>1, <2>1 DEF StagesSeeKeptEvents
<1>8. KeptIds(s, n)' = KeptIds(s, n)
  BY <1>1, <1>4, KeptIdsSame
<1>9. KeptIds(s, n + 1)' = KeptIds(s, IF stage > s THEN n + 1 ELSE n)
  <2>1. KeptIds(s, n + 1) = Append(KeptIds(s, n), accepted[n + 1].id)
    BY <1>4, KeptIdsNext
  <2>2. KeptIds(s, n + 1)'
          = IF droppedBy'[n + 1] = 0 \/ droppedBy'[n + 1] > s
            THEN Append(KeptIds(s, n)', accepted'[n + 1].id) ELSE KeptIds(s, n)'
    <3>1. (KeptIds(s, n + 1)
            = IF droppedBy[n + 1] = 0 \/ droppedBy[n + 1] > s
              THEN Append(KeptIds(s, n), accepted[n + 1].id) ELSE KeptIds(s, n))'
      BY KeptIdsNext, PTL
    <3>2. QED
      BY <3>1
  <2>3. QED
    BY <1>1, <1>2, <1>4, <1>5, <1>8, <2>1, <2>2
<1>10. KeptIds(s, Offered(s))' = KeptIds(s, n + 1)'
  BY <1>6, Zenon DEF KeptIds
<1>11. QED
  BY <1>1, <1>7, <1>9, <1>10

LEMMA CallSeen ==
  ASSUME StagesSeeKeptEvents, ChannelInv, BodyInv, RoundsInv, EventsInv, LogsInv,
         Stateful' = Stateful, NEW x \in Nat, Called(x)
  PROVE  StagesSeeKeptEvents'
<1> SUFFICES ASSUME NEW s \in Stateful
             PROVE  Processed(opLog'[s]) = KeptIds(s, Offered(s))'
  BY DEF StagesSeeKeptEvents
<1>1. /\ stage \in 1 .. N /\ stage' = stage + 1 /\ s \in 1 .. N /\ N \in Nat
      /\ accepted' = accepted /\ droppedBy' = droppedBy /\ hand' = hand /\ pc' = pc
      /\ opLog'[s] = IF s = stage THEN Append(opLog[s], x) ELSE opLog[s]
      /\ opLog[s] \in Seq(Nat)
  BY TopologyType DEF Called, LogsInv
<1>2. /\ Len(accepted) \in Nat /\ hand # << >> => Len(accepted) > 0
      /\ pc = "chain" => hand # << >> /\ droppedBy[Len(accepted)] = 0
  BY <1>1 DEF EventsInv, BodyInv
<1>3. pc \in {"chain", "flush", "closing"}
  BY DEF Called
<1>4. Processed(opLog[s]) = KeptIds(s, Offered(s))
  BY <1>3 DEF StagesSeeKeptEvents
<1>5. \A n : KeptIds(s, n)' = KeptIds(s, n)
  BY <1>1, Zenon DEF KeptIds
<1>6. CASE pc = "chain" /\ s = stage
  <2>1. PICK n \in Nat : n + 1 = Len(accepted)
    <3>1. Len(accepted) - 1 \in Nat /\ (Len(accepted) - 1) + 1 = Len(accepted)
      BY <1>2, <1>6
    <3>2. QED
      BY <3>1
  <2>2. Offered(s) = n /\ Offered(s)' = n + 1
    BY <1>1, <1>2, <1>6, <2>1 DEF Offered
  <2>3. IsEvent(x) /\ x = accepted[n + 1].id
    BY <1>6, <2>1 DEF Called
  <2>4. Processed(opLog'[s]) = Append(Processed(opLog[s]), x)
    BY <1>1, <1>6, <2>3, ProcessedAppend
  <2>5. KeptIds(s, n + 1) = Append(KeptIds(s, n), x)
    BY <1>2, <1>6, <2>1, <2>3, KeptIdsNext
  <2>6. KeptIds(s, Offered(s))' = KeptIds(s, n + 1)'
    BY <2>2, Zenon DEF KeptIds
  <2>7. QED
    BY <1>4, <1>5, <2>2, <2>4, <2>5, <2>6, Zenon
<1>7. CASE pc # "chain" \/ s # stage
  <2>1. Offered(s)' = Offered(s)
    BY <1>1, <1>7 DEF Offered
  <2>2. Processed(opLog'[s]) = Processed(opLog[s])
    <3>1. CASE s = stage
      <4>1. ~ IsEvent(x)
        BY <1>7, <3>1 DEF Called
      <4>2. QED
        BY <1>1, <3>1, <4>1, ProcessedAppend
    <3>2. CASE s # stage
      BY <1>1, <3>2
    <3>3. QED
      BY <3>1, <3>2
  <2>3. KeptIds(s, Offered(s))' = KeptIds(s, Offered(s))
    BY <1>1, <2>1, Zenon DEF KeptIds
  <2>4. QED
    BY <1>4, <2>2, <2>3
<1>8. QED
  BY <1>6, <1>7

LEMMA StagesSeeStep ==
  ASSUME StagesSeeKeptEvents, ChannelInv, BodyInv, RoundsInv, EventsInv, LogsInv, [Next]_vars
  PROVE  StagesSeeKeptEvents'
<1>1. /\ Stateful' = Stateful /\ N \in Nat /\ stage \in Nat
      /\ \A s \in Stateful : s \in 1 .. N /\ Stages[s] = "stateful"
  BY TopologyKept, TopologyType DEF RoundsInv
<1>2. CASE Receive
  <2>1. CASE DropLate(Head(inbox))
    <3>1. UNCHANGED <<opLog, accepted, droppedBy, pc, hand, stage>>
      BY <1>2, <2>1 DEF Receive, DropLate, loop, history
    <3>2. QED
      BY <1>1, <3>1, SeenUnchanged DEF Offered
  <2>2. QED
    BY <1>1, <1>2, <2>1, AcceptSeen DEF Receive
<1>3. CASE MapStage
  <2>1. CASE Keep
    <3>1. /\ UNCHANGED <<opLog, accepted, droppedBy, pc, hand>> /\ stage' = stage + 1
          /\ Stages[stage] = "map"
      BY <1>3, <2>1 DEF MapStage, Keep
    <3>2. \A s \in Stateful : stage > s <=> stage' > s
      <4>1. \A s \in Stateful : s # stage
        BY <1>1, <3>1
      <4>2. QED
        BY <1>1, <3>1, <4>1
    <3>3. \A s \in Stateful : Offered(s)' = Offered(s)
      BY <3>1, <3>2 DEF Offered
    <3>4. QED
      BY <1>1, <3>1, <3>3, SeenUnchanged
  <2>2. QED
    BY <1>1, <1>3, <2>1, FilterSeen DEF MapStage
<1>4. ASSUME NEW x \in Nat, Called(x) PROVE StagesSeeKeptEvents'
  BY <1>1, <1>4, CallSeen
<1>5. CASE ChainDone
  <2>1. /\ UNCHANGED <<opLog, accepted, droppedBy, stage>> /\ hand' = << >> /\ pc = "chain"
        /\ pc' = "recv" /\ stage > N
    BY <1>5 DEF ChainDone, history
  <2>2. \A s \in Stateful : Offered(s)' = Offered(s)
    BY <1>1, <2>1 DEF Offered
  <2>3. QED
    BY <1>1, <2>1, <2>2, SeenUnchanged
<1>6. CASE WindowFlushed
  <2>1. /\ UNCHANGED <<opLog, accepted, droppedBy, hand>> /\ stage' = 1 /\ pc = "flush"
        /\ pc' \in {"flush", "chain"}
    BY <1>6 DEF WindowFlushed, history
  <2>2. \A s \in Stateful : Offered(s)' = Offered(s)
    BY <1>1, <2>1 DEF Offered, BodyInv
  <2>3. QED
    BY <1>1, <2>1, <2>2, SeenUnchanged
<1>7. CASE InputClosed \/ RunReturns
  <2>1. /\ UNCHANGED <<opLog, accepted, droppedBy, hand>> /\ hand = << >>
        /\ pc \in {"recv", "closing"}
    BY <1>7 DEF InputClosed, RunReturns, history, loop, BodyInv
  <2>2. \A s \in Stateful : Offered(s)' = Offered(s)
    BY <2>1 DEF Offered
  <2>3. QED
    BY <1>1, <2>1, <2>2, SeenUnchanged
<1>8. CASE SendFails
  <2>1. UNCHANGED <<opLog, accepted, droppedBy, hand>> /\ pc' = "done"
    BY <1>8 DEF SendFails, history, loop
  <2>2. CASE hand = << >>
    <3>1. \A s \in Stateful : Offered(s)' = Offered(s)
      BY <2>1, <2>2 DEF Offered
    <3>2. QED
      BY <1>1, <2>1, <2>2, <3>1, SeenUnchanged
  <2>3. CASE hand # << >>
    BY <2>1, <2>3 DEF StagesSeeKeptEvents
  <2>4. QED
    BY <2>2, <2>3
<1>9. CASE /\ [Next]_vars /\ opLog' = opLog /\ ~ StatefulStage
           /\ ~ (Receive \/ MapStage \/ ChainDone \/ WindowFlushed \/ InputClosed \/ RunReturns
                 \/ SendFails)
  <2>1. UNCHANGED <<accepted, droppedBy, hand, pc>>
    BY <1>9 DEF Next, Run, SourceSend, SourceClose, Tick, FlushStage, Send, IncEmitted, SinkReceive,
                SinkFails, SinkFinishes, Terminated, loop, history, vars
  <2>2. stage' = stage \/ pc # "chain"
    BY <1>9 DEF Next, Run, SourceSend, SourceClose, Tick, FlushStage, Send, IncEmitted, SinkReceive,
                SinkFails, SinkFinishes, Terminated, loop, vars
  <2>3. \A s \in Stateful : Offered(s)' = Offered(s)
    BY <2>1, <2>2 DEF Offered
  <2>4. QED
    BY <1>1, <1>9, <2>1, <2>3, SeenUnchanged
<1>10. QED
  BY <1>2, <1>3, <1>4, <1>5, <1>6, <1>7, <1>8, <1>9, HistoryStep

\* What the loop's own theorems need of where it is.
StagesInv == ChannelInv /\ BodyInv /\ RoundsInv /\ EventsInv /\ LogsInv /\ StagesSeeKeptEvents

LEMMA StagesInit == Init => StagesInv
<1> SUFFICES ASSUME Init PROVE StagesInv
  OBVIOUS
<1>1. ChannelInv /\ BodyInv
  BY BoundsAssumption DEF Init, ChannelInv, BodyInv, Sendable
<1>2. RoundsInv
  BY FS_EmptySet DEF Init, RoundsInv
<1>3. EventsInv
  <2>1. accepted = << >> /\ droppedBy = << >> /\ hand = << >> /\ pc = "recv"
    BY DEF Init
  <2> DEFINE S == Sendable
  <2> HIDE DEF S
  <2>2. accepted \in Seq(S) /\ droppedBy \in Seq(Nat) /\ Len(accepted) = 0 /\ Len(droppedBy) = 0
    BY <2>1
  <2>3. QED
    BY <2>1, <2>2 DEF EventsInv, S
<1>4. opLog = [s \in 1 .. N |-> << >>] /\ N \in Nat
  BY <1>1, TopologyType DEF Init
<1>5. LogsInv
  BY <1>4 DEF LogsInv
<1>6. StagesSeeKeptEvents
  <2>1. accepted = << >> /\ hand = << >>
    BY DEF Init
  <2> SUFFICES ASSUME NEW s \in Stateful PROVE Processed(opLog[s]) = KeptIds(s, Offered(s))
    BY DEF StagesSeeKeptEvents
  <2>2. opLog[s] = << >> /\ Offered(s) = 0
    BY <1>1, <1>4, <2>1, TopologyType DEF Offered
  <2>3. [i \in 1 .. 0 |-> accepted[i].id] = << >>
    OBVIOUS
  <2>4. Processed(<< >>) = << >> /\ KeptIds(s, 0) = << >>
    BY <2>3, PickedEmpty, Zenon DEF Processed, KeptIds
  <2>5. QED
    BY <2>2, <2>4
<1>7. QED
  BY <1>1, <1>2, <1>3, <1>5, <1>6 DEF StagesInv

LEMMA StagesStep == StagesInv /\ [Next]_vars => StagesInv'
BY ChannelStep, BodyStep, RoundsStep, EventsStep, LogsStep, StagesSeeStep DEF StagesInv

\* Every stateful stage processes the events that were not late and that no stage before
\* it filtered, each once and in the order of their arrival, in every topology.
THEOREM StagesSeeWhatWasKept == Spec => []StagesSeeKeptEvents
<1>1. StagesInv => StagesSeeKeptEvents
  BY DEF StagesInv
<1>2. QED
  BY <1>1, StagesInit, StagesStep, PTL DEF Spec

(***************************************************************************)
(* What the windows hold                                                   *)
(***************************************************************************)

WindowOf(E) == [opener : Nat, start : Int, end : Int, events : Seq(E)]

\* A window that e was added to: the rest of its events were in a window before.
Grown(v, ws, e, E) ==
  /\ v \in WindowOf(E)
  /\ v.opener = e.id \/ \E w \in ws : v.opener = w.opener
  /\ \E i \in 1 .. Len(v.events) : v.events[i] = e
  /\ \A i \in 1 .. Len(v.events) :
       v.events[i] = e \/ \E w \in ws : \E j \in 1 .. Len(w.events) : v.events[i] = w.events[j]

LEMMA OpenedGrown ==
  ASSUME NEW E, NEW e \in E, e.id \in Nat, NEW start \in Int, NEW end \in Int, NEW ws
  PROVE  Grown(OpenedBy(e, start, end), ws, e, E)
<1> DEFINE v == OpenedBy(e, start, end)
<1>1. v.opener = e.id /\ v.events = <<e>> /\ v \in WindowOf(E)
  BY DEF OpenedBy, WindowOf
<1>2. Len(v.events) = 1 /\ v.events[1] = e
  BY <1>1
<1> HIDE DEF v
<1>3. QED
  BY <1>1, <1>2 DEF Grown, v

\* The window may have had another end before.
LEMMA AddedGrown ==
  ASSUME NEW E, NEW e \in E, NEW ws \in SUBSET WindowOf(E), NEW w \in ws, NEW x \in WindowOf(E),
         x.opener = w.opener, x.events = w.events
  PROVE  Grown(WithEvent(x, e), ws, e, E)
<1> DEFINE v == WithEvent(x, e)
<1>1. x.events \in Seq(E) /\ DOMAIN x = {"opener", "start", "end", "events"}
  BY DEF WindowOf
<1>2. v.events = Append(x.events, e) /\ v.opener = x.opener
  BY <1>1 DEF WithEvent
<1>3. v \in WindowOf(E)
  <2> PICK es \in Seq(E) : es = Append(x.events, e)
    BY <1>1, AppendProperties
  <2>2. v = [x EXCEPT !.events = es]
    BY DEF WithEvent
  <2>3. QED
    BY <2>2 DEF WindowOf
<1>4. /\ Len(v.events) = Len(x.events) + 1 /\ Len(x.events) \in Nat
      /\ v.events[Len(x.events) + 1] = e
      /\ \A i \in 1 .. Len(x.events) : v.events[i] = x.events[i]
  BY <1>1, <1>2
<1> HIDE DEF v
<1>5. \E i \in 1 .. Len(v.events) : v.events[i] = e
  BY <1>4
<1>6. ASSUME NEW i \in 1 .. Len(v.events), v.events[i] # e
      PROVE  \E j \in 1 .. Len(w.events) : v.events[i] = w.events[j]
  BY <1>4, <1>6
<1>7. QED
  BY <1>2, <1>3, <1>5, <1>6 DEF Grown, v

\* position and last find a window of the Vec.
LEMMA FoundIn ==
  ASSUME NEW E, NEW ws \in SUBSET WindowOf(E), ws # {}
  PROVE  /\ FirstOf(ws) \in ws
         /\ \A n \in Nat : (\A w \in ws : w.opener <= n) => LastOf(ws) \in ws
<1>1. \A w \in ws : w.opener \in Nat
  BY DEF WindowOf
<1>2. FirstOf(ws) \in ws
  <2> DEFINE T == {w.opener : w \in ws}
  <2>1. T \in SUBSET Nat /\ T # {}
    BY <1>1
  <2> HIDE DEF T
  <2>2. PICK m \in T : \A k \in T : m <= k
    BY <2>1, Least
  <2>3. PICK w \in ws : w.opener = m
    BY <2>2 DEF T
  <2>4. \A v \in ws : w.opener <= v.opener
    BY <2>2, <2>3 DEF T
  <2>5. QED
    BY <2>4 DEF FirstOf
<1>3. ASSUME NEW n \in Nat, \A w \in ws : w.opener <= n PROVE LastOf(ws) \in ws
  <2> DEFINE T == {n - w.opener : w \in ws}
  <2>1. T \in SUBSET Nat /\ T # {}
    BY <1>1, <1>3
  <2> HIDE DEF T
  <2>2. PICK m \in T : \A k \in T : m <= k
    BY <2>1, Least
  <2>3. PICK w \in ws : n - w.opener = m
    BY <2>2 DEF T
  <2>4. \A v \in ws : n - w.opener <= n - v.opener
    BY <2>2, <2>3 DEF T
  <2>5. \A v \in ws : w.opener >= v.opener
    BY <1>1, <2>4
  <2>6. QED
    BY <2>5 DEF LastOf
<1>4. QED
  BY <1>2, <1>3

\* Whatever the strategy, assigning an event leaves each window as it is or adds the event
\* to it, or opens one for the event alone.
LEMMA AssignGrows ==
  ASSUME NEW st, st.kind \in {"tumbling", "sliding", "session", "count"},
         st.size \in Nat, st.slide \in Nat,
         NEW E, NEW ws \in SUBSET WindowOf(E), NEW e \in E, e.id \in Nat, e.ts \in Nat,
         NEW n \in Nat, \A w \in ws : w.opener <= n
  PROVE  \A v \in Assign(st, ws, e) : v \in ws \/ Grown(v, ws, e, E)
<1>1. \A a \in Int, b \in Nat \ {0} : TruncDiv(a, b) \in Int
  BY DEF TruncDiv
<1>2. \A t \in Int, w \in ws : Grown(WithEvent([w EXCEPT !.end = t], e), ws, e, E)
  <2> SUFFICES ASSUME NEW t \in Int, NEW w \in ws
               PROVE  Grown(WithEvent([w EXCEPT !.end = t], e), ws, e, E)
    OBVIOUS
  <2>1. PICK x : x = [w EXCEPT !.end = t]
    OBVIOUS
  <2>2. w \in WindowOf(E)
    OBVIOUS
  <2>3. x \in WindowOf(E) /\ x.opener = w.opener /\ x.events = w.events
    BY <2>1, <2>2 DEF WindowOf
  <2>4. Grown(WithEvent(x, e), ws, e, E)
    BY <2>3, AddedGrown
  <2>5. QED
    BY <2>1, <2>4
<1>3. \A w \in ws : Grown(WithEvent(w, e), ws, e, E)
  BY AddedGrown
<1>4. CASE st.kind = "tumbling"
  <2> DEFINE start == TumblingStart(e.ts, st.size)
             found == {w \in ws : w.start = start}
  <2>1. CASE st.size = 0
    BY <1>4, <2>1 DEF Assign, AssignTumbling
  <2>2. CASE st.size > 0
    <3>1. start \in Int
      BY <1>1, <2>2 DEF TumblingStart
    <3> HIDE DEF start
    <3>2. Assign(st, ws, e) = IF found = {} THEN ws \cup {OpenedBy(e, start, start + st.size)}
                              ELSE (ws \ {FirstOf(found)}) \cup {WithEvent(FirstOf(found), e)}
      BY <1>4, <2>2 DEF Assign, AssignTumbling, AddAtStart, start
    <3>3. CASE found = {}
      BY <3>1, <3>2, <3>3, OpenedGrown
    <3>4. CASE found # {}
      <4>1. FirstOf(found) \in ws
        BY <3>4, FoundIn
      <4> HIDE DEF found
      <4>2. QED
        BY <1>3, <3>2, <3>4, <4>1
    <3>5. QED
      BY <3>3, <3>4
  <2>3. QED
    BY <2>1, <2>2
<1>5. CASE st.kind = "sliding"
  <2> DEFINE starts == SlidingStarts(e.ts, st.size, st.slide)
             open == {w.start : w \in ws}
  <2>1. CASE st.size = 0 \/ st.slide = 0
    BY <1>5, <2>1 DEF Assign, AssignSliding
  <2>2. CASE st.size > 0 /\ st.slide > 0
    <3>1. starts \subseteq Int
      <4>1. TruncDiv(e.ts - st.size + st.slide, st.slide) * st.slide \in Int
        BY <1>1, <2>2
      <4>2. QED
        BY <4>1 DEF SlidingStarts
    <3>2. Assign(st, ws, e) =
            {IF w.start \in starts THEN WithEvent(w, e) ELSE w : w \in ws}
            \cup {OpenedBy(e, s, s + st.size) : s \in starts \ open}
      BY <1>5, <2>2 DEF Assign, AssignSliding
    <3> HIDE DEF starts, open
    <3>3. ASSUME NEW s \in starts \ open PROVE Grown(OpenedBy(e, s, s + st.size), ws, e, E)
      BY <3>1, OpenedGrown
    <3>4. QED
      BY <1>3, <3>2, <3>3
  <2>3. QED
    BY <2>1, <2>2
<1>6. CASE st.kind = "session"
  <2> DEFINE hits == {w \in ws : Continues(w, e, st.size)}
             t == e.ts + st.size
  <2>1. t \in Int
    OBVIOUS
  <2>2. Assign(st, ws, e) = IF hits = {} THEN ws \cup {OpenedBy(e, e.ts, t)}
          ELSE (ws \ {FirstOf(hits)}) \cup {WithEvent([FirstOf(hits) EXCEPT !.end = t], e)}
    BY <1>6 DEF Assign, AssignSession
  <2> HIDE DEF t
  <2>3. CASE hits = {}
    BY <2>1, <2>2, <2>3, OpenedGrown
  <2>4. CASE hits # {}
    <3> HIDE DEF hits
    <3>1. FirstOf(hits) \in ws
      BY <2>4, FoundIn DEF hits
    <3>2. Grown(WithEvent([FirstOf(hits) EXCEPT !.end = t], e), ws, e, E)
      BY <1>2, <2>1, <3>1
    <3>3. QED
      BY <2>2, <2>4, <3>1, <3>2
  <2>5. QED
    BY <2>3, <2>4
<1>7. CASE st.kind = "count"
  <2> DEFINE last == LastOf(ws)
  <2>1. Assign(st, ws, e) = IF ws # {} /\ EventCount(last) < st.size
          THEN (ws \ {last}) \cup {WithEvent([last EXCEPT !.end = e.ts], e)}
          ELSE ws \cup {OpenedBy(e, e.ts, e.ts)}
    BY <1>7 DEF Assign, AssignCount
  <2>2. Grown(OpenedBy(e, e.ts, e.ts), ws, e, E)
    BY OpenedGrown
  <2>3. ASSUME ws # {} PROVE Grown(WithEvent([last EXCEPT !.end = e.ts], e), ws, e, E)
    <3>1. last \in ws
      BY <2>3, FoundIn
    <3> HIDE DEF last
    <3>2. QED
      BY <1>2, <3>1
  <2> HIDE DEF last
  <2>4. QED
    BY <2>1, <2>2, <2>3
<1>8. QED
  BY <1>4, <1>5, <1>6, <1>7
\* The windows, open or closed, hold events that are through the loop body, and were
\* opened by events that were received.
WindowsInv ==
  /\ windows \subseteq WindowOf(Sendable) /\ closed \subseteq WindowOf(Sendable)
  /\ IsFiniteSet(closed) /\ windows \cap closed = {}
  /\ \A w \in windows \cup closed : w.opener \in 1 .. received
  /\ \A w \in windows \cup closed : \A i \in 1 .. Len(w.events) :
       \E n \in 1 .. Settled : accepted[n] = w.events[i]

\* Nothing moves between the windows and what they are compared with.
LEMMA WindowsKept ==
  ASSUME WindowsInv, Sendable' = Sendable, Settled' = Settled, received' >= received,
         received \in Nat, received' \in Nat,
         windows' \subseteq windows, closed' \subseteq closed \cup windows,
         windows' \cap closed' = {}, IsFiniteSet(closed'),
         \A n \in 1 .. Settled : accepted'[n] = accepted[n]
  PROVE  WindowsInv'
<1> DEFINE S == Sendable
<1>1. windows' \subseteq WindowOf(S) /\ closed' \subseteq WindowOf(S) /\ S' = S
  BY DEF WindowsInv
<1> HIDE DEF S
<1>2. \A w \in windows' \cup closed' : w.opener \in 1 .. received'
  BY DEF WindowsInv
<1>3. ASSUME NEW w \in windows' \cup closed', NEW i \in 1 .. Len(w.events)
      PROVE  \E n \in 1 .. Settled' : accepted'[n] = w.events[i]
  <2>1. PICK n \in 1 .. Settled : accepted[n] = w.events[i]
    BY DEF WindowsInv
  <2>2. QED
    BY <2>1
<1>4. QED
  BY <1>1, <1>2, <1>3, Zenon DEF WindowsInv, S

LEMMA WindowsStep ==
  ASSUME ChannelInv, BodyInv, RoundsInv, EventsInv, WindowsInv, [Next]_vars
  PROVE  WindowsInv'
<1>1. /\ Sendable' = Sendable /\ Len(accepted) \in Nat /\ received \in Nat /\ received' \in Nat
      /\ Strategy.kind \in {"none", "tumbling", "sliding", "session", "count"}
      /\ Strategy.size \in Nat /\ Strategy.slide \in Nat
      /\ \A e \in Sendable : e.id \in Nat /\ e.ts \in Nat
  BY TopologyKept, TopologyType, ChannelStep DEF EventsInv, ChannelInv
<1>2. CASE Receive
  <2>1. received' >= received
    BY <1>1, <1>2, TakenEvent
  <2>2. CASE DropLate(Head(inbox))
    <3>1. UNCHANGED <<windows, closed, accepted, hand>>
      BY <2>2 DEF DropLate, loop, history
    <3>2. QED
      BY <1>1, <2>1, <3>1, WindowsKept DEF WindowsInv, Settled
  <2>3. CASE Accept(Head(inbox))
    <3> DEFINE X == ExpiredBy(Head(inbox))
    <3>1. windows' = windows \ X /\ closed' = closed \cup X /\ X \in SUBSET windows
      BY <2>3 DEF Accept, ExpiredBy, Expired
    <3>2. Settled' = Settled /\ Settled = Len(accepted)
          /\ \A n \in 1 .. Settled : accepted'[n] = accepted[n]
      BY <1>2, <2>3, AcceptHistory
    <3> HIDE DEF X
    <3>3. IsFiniteSet(closed')
      <4>1. IsFiniteSet(X) /\ IsFiniteSet(closed)
        BY <3>1, FS_Subset DEF RoundsInv, WindowsInv
      <4>2. QED
        BY <3>1, <4>1, FS_Union
    <3>4. windows' \cap closed' = {} /\ windows' \subseteq windows
          /\ closed' \subseteq closed \cup windows
      BY <3>1 DEF WindowsInv
    <3>5. QED
      BY <1>1, <2>1, <3>2, <3>3, <3>4, WindowsKept
  <2>4. QED
    BY <1>2, <2>2, <2>3 DEF Receive
<1>3. CASE ChainDone
  <2> DEFINE S == Sendable
  <2>1. /\ pc = "chain" /\ windows' = WindowsWith(Head(hand)) /\ hand' = << >>
        /\ accepted' = accepted /\ closed' = closed /\ received' = received
    BY <1>3 DEF ChainDone, history
  <2>2. PICK e : e = accepted[Len(accepted)]
    OBVIOUS
  <2>3. /\ hand # << >> /\ Len(accepted) > 0 /\ Head(hand) = e
        /\ Settled = Len(accepted) - 1 /\ Settled' = Len(accepted)
        /\ e \in S /\ e.id \in 1 .. received /\ e.id \in Nat /\ e.ts \in Nat
    <3>1. /\ hand # << >> /\ Len(accepted) > 0 /\ hand = <<e>> /\ accepted \in Seq(S)
          /\ \A i \in 1 .. Len(accepted) : accepted[i].id \in 1 .. received
      BY <2>1, <2>2 DEF BodyInv, EventsInv
    <3>2. Len(accepted) \in 1 .. Len(accepted)
      BY <1>1, <3>1
    <3> HIDE DEF S
    <3>3. e \in S
      BY <2>2, <3>1, <3>2
    <3>4. QED
      BY <1>1, <2>1, <2>2, <3>1, <3>2, <3>3 DEF Settled, S
  <2>4. ASSUME NEW w \in windows \cup closed, NEW i \in 1 .. Len(w.events)
        PROVE  w.events[i] # e /\ \E n \in 1 .. Settled' : accepted'[n] = w.events[i]
    <3>1. PICK n \in 1 .. Settled : accepted[n] = w.events[i]
      BY DEF WindowsInv
    <3>2. n \in 1 .. Len(accepted) /\ n < Len(accepted) /\ Len(accepted) \in 1 .. Len(accepted)
      BY <1>1, <2>3
    <3>3. accepted[n].id < e.id
      BY <2>2, <3>2 DEF EventsInv
    <3>4. QED
      BY <2>1, <2>3, <3>1, <3>2, <3>3
  <2>5. \A w \in windows \cup closed : w.opener \in 1 .. received
    BY DEF WindowsInv
  <2>6. \A v \in windows' : v \in windows \/ Grown(v, windows, e, S)
    <3>1. CASE Windowed
      <4>1. windows' = Assign(Strategy, windows, e)
        BY <2>1, <2>3, <3>1 DEF WindowsWith
      <4>2. Strategy.kind \in {"tumbling", "sliding", "session", "count"}
        BY <1>1, <3>1 DEF Windowed
      <4>3. windows \in SUBSET WindowOf(S)
        BY DEF WindowsInv
      <4>4. e \in S /\ e.id \in Nat /\ e.ts \in Nat /\ \A w \in windows : w.opener <= received
        BY <1>1, <2>3, <2>5
      <4>5. QED
        BY <1>1, <4>1, <4>2, <4>3, <4>4, AssignGrows
    <3>2. CASE ~Windowed
      BY <2>1, <3>2, Zenon DEF WindowsWith
    <3>3. QED
      BY <3>1, <3>2
  <2>7. windows' \subseteq WindowOf(S) /\ closed' \subseteq WindowOf(S)
    BY <2>1, <2>6 DEF Grown, WindowsInv
  <2>8. windows' \cap closed' = {}
    BY <2>1, <2>4, <2>6 DEF Grown, WindowsInv
  <2>9. \A w \in windows' \cup closed' : w.opener \in 1 .. received'
    BY <2>1, <2>3, <2>5, <2>6 DEF Grown
  <2>10. ASSUME NEW v \in windows' \cup closed', NEW i \in 1 .. Len(v.events)
         PROVE  \E n \in 1 .. Settled' : accepted'[n] = v.events[i]
    <3>1. accepted'[Settled'] = e /\ Settled' \in 1 .. Settled'
      BY <1>1, <2>1, <2>2, <2>3
    <3>2. v \in windows \cup closed \/ Grown(v, windows, e, S)
      BY <2>1, <2>6
    <3>3. CASE v.events[i] = e
      BY <3>1, <3>3
    <3>4. CASE \E w \in windows \cup closed : \E j \in 1 .. Len(w.events) : v.events[i] = w.events[j]
      BY <2>4, <3>4
    <3>5. QED
      BY <3>2, <3>3, <3>4 DEF Grown
  <2>11. S' = S /\ IsFiniteSet(closed')
    BY <1>1, <2>1 DEF WindowsInv
  <2> HIDE DEF S
  <2>12. QED
    BY <2>7, <2>8, <2>9, <2>10, <2>11, Zenon DEF WindowsInv, S
<1>4. CASE [Next]_vars /\ ~ Receive /\ ~ ChainDone
  <2>1. UNCHANGED <<windows, closed, accepted, hand, received>>
    BY <1>4 DEF Next, Run, SourceSend, SourceClose, Tick, MapStage, StatefulStage, FlushStage,
           WindowFlushed, InputClosed, RunReturns, Send, IncEmitted, SendFails, SinkReceive,
           SinkFails, SinkFinishes, Terminated, loop, metrics, history, vars
  <2>2. QED
    BY <1>1, <2>1, WindowsKept DEF WindowsInv, Settled
<1>5. QED
  BY <1>2, <1>3, <1>4

(***************************************************************************)
(* The flushes                                                             *)
(***************************************************************************)

\* The flushes a stage has had beyond the windows that closed: before the stage is flushed
\* for a window that closed it is short of one, after the closing flush it is one ahead.
Ahead(s) ==
  CASE pc = "flush"   -> (IF stage > s THEN 1 ELSE 0) - flushes
    [] pc = "closing" -> IF stage > s THEN 1 ELSE 0
    [] pc = "done"    -> 1
    [] OTHER          -> 0

FlushInv ==
  pc # "done" \/ sink # "failed" =>
    \A s \in Stateful : Closings(opLog[s]) = Cardinality(closed) + Ahead(s)

LEMMA AheadType ==
  RoundsInv => \A s :
    /\ Ahead(s) \in Int
    /\ pc = "flush" => Ahead(s) = (IF stage > s THEN 1 ELSE 0) - flushes
    /\ pc = "closing" => Ahead(s) = IF stage > s THEN 1 ELSE 0
    /\ pc = "done" => Ahead(s) = 1
    /\ pc \in {"recv", "chain"} => Ahead(s) = 0
BY DEF RoundsInv, Ahead

\* Neither the flushes of a stage nor the windows that closed change.
LEMMA FlushKept ==
  ASSUME FlushInv, Stateful' = Stateful, opLog' = opLog, closed' = closed,
         pc' # "done" \/ sink' # "failed" => pc # "done" \/ sink # "failed",
         \A s \in Stateful : Ahead(s)' = Ahead(s)
  PROVE  FlushInv'
<1> SUFFICES ASSUME pc' # "done" \/ sink' # "failed", NEW s \in Stateful
             PROVE  Closings(opLog[s])' = Cardinality(closed)' + Ahead(s)'
  BY DEF FlushInv
<1>1. Closings(opLog[s]) = Cardinality(closed) + Ahead(s)
  BY DEF FlushInv
<1>2. Closings(opLog[s])' = Closings(opLog[s])
  BY Zenon DEF Closings
<1>3. QED
  BY <1>1, <1>2

LEMMA FlushStep ==
  ASSUME ChannelInv, BodyInv, RoundsInv, EventsInv, LogsInv, ClosingInv, WindowsInv, FlushInv,
         [Next]_vars
  PROVE  FlushInv'
<1>1. /\ Stateful' = Stateful /\ N \in Nat /\ stage \in Nat \ {0} /\ flushes \in Nat
      /\ \A s \in Stateful : s \in 1 .. N /\ Stages[s] = "stateful" /\ opLog[s] \in Seq(Nat)
      /\ Cardinality(closed) \in Nat
  BY TopologyKept, TopologyType, FS_CardinalityType DEF RoundsInv, LogsInv, WindowsInv
<1>2. RoundsInv'
  BY RoundsStep
<1>3. \A s : /\ Ahead(s)' \in Int
             /\ pc' = "flush" => Ahead(s)' = (IF stage' > s THEN 1 ELSE 0) - flushes'
             /\ pc' = "closing" => Ahead(s)' = IF stage' > s THEN 1 ELSE 0
             /\ pc' = "done" => Ahead(s)' = 1
             /\ pc' \in {"recv", "chain"} => Ahead(s)' = 0
  <2>1. (RoundsInv => \A s :
           /\ Ahead(s) \in Int
           /\ pc = "flush" => Ahead(s) = (IF stage > s THEN 1 ELSE 0) - flushes
           /\ pc = "closing" => Ahead(s) = IF stage > s THEN 1 ELSE 0
           /\ pc = "done" => Ahead(s) = 1
           /\ pc \in {"recv", "chain"} => Ahead(s) = 0)'
    BY AheadType, PTL
  <2>2. QED
    BY <1>2, <2>1
<1>4. CASE Receive /\ Accept(Head(inbox))
  <2> DEFINE X == ExpiredBy(Head(inbox))
  <2>1. /\ closed' = closed \cup X /\ flushes' = Cardinality(X) /\ stage' = 1 /\ opLog' = opLog
        /\ pc = "recv" /\ pc' = (IF flushes' = 0 THEN "chain" ELSE "flush")
    BY <1>4 DEF Receive, Accept, FlushesFor
  <2>2. IsFiniteSet(X) /\ closed \cap X = {} /\ IsFiniteSet(closed)
    <3>1. X \in SUBSET windows
      BY DEF ExpiredBy, Expired
    <3> HIDE DEF X
    <3>2. QED
      BY <3>1, FS_Subset DEF RoundsInv, WindowsInv
  <2> HIDE DEF X
  <2>3. Cardinality(closed \cup X) = Cardinality(closed) + Cardinality(X) /\ Cardinality(X) \in Nat
    <3>1. Cardinality(closed \cap X) = 0
      BY <2>2, FS_EmptySet
    <3>2. QED
      BY <2>2, <3>1, FS_Union, FS_CardinalityType
  <2>4. \A s \in Stateful : Ahead(s)' = -Cardinality(X) /\ Ahead(s) = 0
    <3>1. \A s \in Stateful : ~(stage' > s)
      BY <1>1, <2>1
    <3>2. QED
      BY <1>3, <2>1, <2>3, <3>1, AheadType
  <2>5. ASSUME NEW s \in Stateful
        PROVE  Closings(opLog[s])' = Cardinality(closed') + Ahead(s)'
    <3>1. Closings(opLog[s]) = Cardinality(closed) + Ahead(s)
      BY <2>1 DEF FlushInv
    <3>2. Closings(opLog[s])' = Closings(opLog[s])
      BY <2>1, Zenon DEF Closings
    <3>3. QED
      BY <1>1, <2>1, <2>3, <2>4, <3>1, <3>2
  <2>6. QED
    BY <1>1, <2>5 DEF FlushInv
<1>5. ASSUME NEW x \in Nat, Called(x) PROVE FlushInv'
  <2>1. /\ UNCHANGED <<pc, sink, closed, flushes>> /\ stage' = stage + 1 /\ stage \in 1 .. N
        /\ \A s \in 1 .. N : opLog'[s] = IF s = stage THEN Append(opLog[s], x) ELSE opLog[s]
        /\ \/ pc = "chain" /\ IsEvent(x)
           \/ pc \in {"flush", "closing"} /\ ~ IsEvent(x)
    BY <1>5 DEF Called
  <2>2. ASSUME NEW s \in Stateful
        PROVE  Closings(opLog[s])' = Cardinality(closed') + Ahead(s)'
    <3>1. Closings(opLog[s]) = Cardinality(closed) + Ahead(s)
      BY <2>1 DEF FlushInv
    <3>2. Closings(opLog[s])' = Closings(opLog'[s])
      BY Zenon DEF Closings
    <3>3. CASE s = stage
      <4>1. Closings(opLog'[s]) = IF IsEvent(x) THEN Closings(opLog[s]) ELSE Closings(opLog[s]) + 1
        BY <1>1, <2>1, <3>3, ClosingsAppend
      <4>2. Ahead(s)' = IF pc = "chain" THEN Ahead(s) ELSE Ahead(s) + 1
        <5>1. ~(stage > s) /\ stage' > s
          BY <2>1, <3>3
        <5>2. QED
          BY <1>1, <1>3, <2>1, <5>1, AheadType
      <4>3. Ahead(s) \in Int
        BY AheadType
      <4>4. CASE pc = "chain"
        BY <2>1, <3>1, <3>2, <4>1, <4>2, <4>4
      <4>5. CASE pc # "chain"
        BY <1>1, <2>1, <3>1, <3>2, <4>1, <4>2, <4>3, <4>5
      <4>6. QED
        BY <4>4, <4>5
    <3>4. CASE s # stage
      <4>1. opLog'[s] = opLog[s]
        BY <1>1, <2>1, <3>4
      <4>2. stage > s <=> stage' > s
        BY <1>1, <2>1, <3>4
      <4>3. Ahead(s)' = Ahead(s)
        BY <1>3, <2>1, <4>2, AheadType
      <4>4. QED
        BY <2>1, <3>1, <3>2, <4>1, <4>3
    <3>5. QED
      BY <3>3, <3>4
  <2>3. QED
    BY <1>1, <2>2 DEF FlushInv
<1>6. CASE opLog' = opLog /\ [Next]_vars /\ ~ (Receive /\ Accept(Head(inbox)))
           /\ (FlushStage => Stages[stage] # "stateful") /\ ~ StatefulStage
  <2>1. closed' = closed
    <3>1. Receive => DropLate(Head(inbox))
      BY <1>6 DEF Receive
    <3>2. QED
      BY <1>6, <3>1 DEF Next, Run, SourceSend, SourceClose, Tick, Receive, DropLate, MapStage,
           ChainDone, FlushStage, WindowFlushed, InputClosed, RunReturns, Send, IncEmitted,
           SendFails, SinkReceive, SinkFails, SinkFinishes, Terminated, history, vars
  <2>2. ASSUME pc' = pc, UNCHANGED <<stage, flushes>> PROVE \A s \in Stateful : Ahead(s)' = Ahead(s)
    BY <2>2 DEF Ahead
  <2>3. CASE Receive \/ MapStage \/ ChainDone
    <3>1. pc \in {"recv", "chain"} /\ pc' \in {"recv", "chain"}
      <4>1. Receive => pc' = pc
        BY <1>6 DEF Receive, DropLate
      <4>2. QED
        BY <2>3, <4>1 DEF Receive, MapStage, ChainDone
    <3>2. \A s \in Stateful : Ahead(s)' = Ahead(s)
      BY <1>3, <3>1, AheadType
    <3>3. QED
      BY <1>1, <1>6, <2>1, <3>1, <3>2, FlushKept
  <2>4. CASE FlushStage
    <3>1. /\ UNCHANGED <<pc, flushes, sink>> /\ stage' = stage + 1 /\ Stages[stage] # "stateful"
          /\ pc \in {"flush", "closing"}
      BY <1>6, <2>4 DEF FlushStage
    <3>2. \A s \in Stateful : stage' > s <=> stage > s
      BY <1>1, <3>1
    <3>3. \A s \in Stateful : Ahead(s)' = Ahead(s)
      BY <1>3, <3>1, <3>2, AheadType
    <3>4. QED
      BY <1>1, <1>6, <2>1, <3>1, <3>3, FlushKept
  <2>5. CASE WindowFlushed
    <3>1. /\ pc = "flush" /\ stage > N /\ stage' = 1 /\ flushes' = flushes - 1
          /\ pc' = (IF flushes' = 0 THEN "chain" ELSE "flush")
      BY <2>5 DEF WindowFlushed
    <3>2. \A s \in Stateful : stage > s /\ ~(stage' > s)
      BY <1>1, <3>1
    <3>3. \A s \in Stateful : Ahead(s)' = Ahead(s)
      BY <1>1, <1>3, <3>1, <3>2, AheadType
    <3>4. QED
      BY <1>1, <1>6, <2>1, <3>1, <3>3, FlushKept
  <2>6. CASE InputClosed
    <3>1. pc = "recv" /\ pc' = "closing" /\ stage' = 1
      BY <2>6 DEF InputClosed
    <3>2. \A s \in Stateful : ~(stage' > s)
      BY <1>1, <3>1
    <3>3. \A s \in Stateful : Ahead(s)' = Ahead(s)
      BY <1>3, <3>1, <3>2, AheadType
    <3>4. QED
      BY <1>1, <1>6, <2>1, <3>1, <3>3, FlushKept
  <2>7. CASE RunReturns
    <3>1. pc = "closing" /\ pc' = "done" /\ stage > N
      BY <2>7 DEF RunReturns
    <3>2. \A s \in Stateful : stage > s
      BY <1>1, <3>1
    <3>3. \A s \in Stateful : Ahead(s)' = Ahead(s)
      BY <1>3, <3>1, <3>2, AheadType
    <3>4. QED
      BY <1>1, <1>6, <2>1, <3>1, <3>3, FlushKept
  <2>8. CASE SendFails
    <3>1. sink # "up" /\ sink' = sink /\ pc' = "done"
      BY <2>8 DEF SendFails
    <3>2. CASE sink = "failed"
      BY <3>1, <3>2 DEF FlushInv
    <3>3. CASE sink = "finished"
      <4>1. pc = "done"
        BY <3>3 DEF ClosingInv
      <4>2. \A s \in Stateful : Ahead(s)' = Ahead(s)
        BY <1>3, <3>1, <4>1, AheadType
      <4>3. QED
        BY <1>1, <1>6, <2>1, <3>1, <3>3, <4>2, FlushKept
    <3>4. QED
      BY <3>1, <3>2, <3>3 DEF ClosingInv
  <2>9. CASE SinkFails \/ SinkFinishes
    <3>1. UNCHANGED <<pc, stage, flushes>> /\ sink = "up"
      BY <2>9 DEF SinkFails, SinkFinishes, loop
    <3>2. QED
      BY <1>1, <1>6, <2>1, <2>2, <3>1, FlushKept
  <2>10. CASE ~ (Receive \/ MapStage \/ ChainDone \/ FlushStage \/ WindowFlushed \/ InputClosed
                \/ RunReturns \/ SendFails \/ SinkFails \/ SinkFinishes)
    <3>1. UNCHANGED <<pc, stage, flushes, sink>>
      BY <1>6, <2>10 DEF Next, Run, SourceSend, SourceClose, Tick, Send, IncEmitted, SinkReceive,
                         Terminated, loop, vars
    <3>2. QED
      BY <1>1, <1>6, <2>1, <2>2, <3>1, FlushKept
  <2>11. QED
    BY <2>3, <2>4, <2>5, <2>6, <2>7, <2>8, <2>9, <2>10
<1>7. QED
  BY <1>4, <1>5, <1>6, HistoryStep

(***************************************************************************)
(* Checkpoints                                                             *)
(***************************************************************************)

\* The events a checkpoint covers are through the loop body, so that no stage filters
\* one of them later.
CutInv == CheckpointIsACut /\ \A k \in DOMAIN disk : disk[k].upTo \in 0 .. Settled

\* What the stages filtered of the events that are through the loop body stays.
LEMMA SettledGrows ==
  ASSUME ChannelInv, BodyInv, RoundsInv, EventsInv, [Next]_vars
  PROVE  /\ Settled \in Nat /\ Settled' \in Nat /\ Settled <= Settled'
         /\ \A n \in 1 .. Settled : accepted'[n] = accepted[n] /\ droppedBy'[n] = droppedBy[n]
<1>1. /\ Len(accepted) \in Nat /\ hand # << >> => Len(accepted) > 0
  BY DEF EventsInv
<1>2. Settled \in Nat /\ Settled <= Len(accepted)
  BY <1>1 DEF Settled
<1>3. CASE Receive /\ Accept(Head(inbox))
  <2>1. /\ Settled = Len(accepted) /\ Settled' = Len(accepted)
        /\ \A i \in 1 .. Len(accepted) : accepted'[i] = accepted[i] /\ droppedBy'[i] = droppedBy[i]
    BY <1>3, AcceptHistory
  <2>2. QED
    BY <1>2, <2>1
<1>4. CASE MapStage /\ Filter
  <2>1. /\ pc = "chain" /\ UNCHANGED <<accepted, hand>>
        /\ droppedBy' = [droppedBy EXCEPT ![Len(droppedBy)] = stage]
    BY <1>4 DEF MapStage, Filter
  <2>2. hand # << >> /\ droppedBy \in Seq(Nat) /\ Len(droppedBy) = Len(accepted)
    BY <2>1 DEF BodyInv, EventsInv
  <2>3. Settled = Len(accepted) - 1 /\ Settled' = Settled
    BY <2>1, <2>2 DEF Settled
  <2>4. \A n \in 1 .. Settled : n \in DOMAIN droppedBy /\ n # Len(droppedBy)
    BY <1>1, <2>2, <2>3
  <2>5. QED
    BY <1>2, <2>1, <2>3, <2>4
<1>5. CASE [Next]_vars /\ ~ (Receive /\ Accept(Head(inbox))) /\ ~ (MapStage /\ Filter)
  <2>1. MapStage => Keep
    BY <1>5 DEF MapStage
  <2>2. Receive => DropLate(Head(inbox))
    BY <1>5 DEF Receive
  <2>3. UNCHANGED <<accepted, droppedBy>> /\ (hand' = hand \/ hand' = << >>)
    BY <1>5, <2>1, <2>2 DEF Next, Run, SourceSend, SourceClose, Tick, DropLate, MapStage, Keep,
           StatefulStage, ChainDone, FlushStage, WindowFlushed, InputClosed, RunReturns, Send,
           IncEmitted, SendFails, SinkReceive, SinkFails, SinkFinishes, Terminated, loop, history,
           vars
  <2>4. QED
    BY <1>1, <1>2, <2>3 DEF Settled
<1>6. QED
  BY <1>3, <1>4, <1>5

\* A checkpoint stays a cut of the events it covers.
LEMMA CutKept ==
  ASSUME ChannelInv, BodyInv, RoundsInv, EventsInv, CutInv, [Next]_vars, disk' = disk
  PROVE  CutInv'
<1>1. Stateful' = Stateful
  BY TopologyKept
<1>2. /\ Settled \in Nat /\ Settled' \in Nat /\ Settled <= Settled'
      /\ \A n \in 1 .. Settled : accepted'[n] = accepted[n] /\ droppedBy'[n] = droppedBy[n]
  BY SettledGrows
<1>3. \A k \in DOMAIN disk : disk[k].upTo \in 0 .. Settled'
  BY <1>2 DEF CutInv
<1>4. ASSUME NEW k \in DOMAIN disk
      PROVE  /\ \A s \in Stateful : Processed(disk[k].log[s]) = KeptIds(s, disk[k].upTo)'
             /\ \A w \in disk[k].windows : \A i \in DOMAIN w.events :
                  \E n \in 1 .. disk[k].upTo : accepted'[n] = w.events[i]
  <2>1. PICK m \in Nat : m = disk[k].upTo /\ m <= Settled
    BY <1>2 DEF CutInv
  <2>2. \A n \in 1 .. m : accepted'[n] = accepted[n] /\ droppedBy'[n] = droppedBy[n]
    BY <1>2, <2>1
  <2>3. ASSUME NEW s \in Stateful PROVE Processed(disk[k].log[s]) = KeptIds(s, disk[k].upTo)'
    <3>1. KeptIds(s, m)' = KeptIds(s, m)
      BY <2>2, KeptIdsSame
    <3>2. Processed(disk[k].log[s]) = KeptIds(s, m)
      BY <2>1 DEF CutInv, CheckpointIsACut
    <3>3. KeptIds(s, disk[k].upTo)' = KeptIds(s, m)'
      BY <2>1, Zenon DEF KeptIds
    <3>4. QED
      BY <3>1, <3>2, <3>3
  <2>4. \A w \in disk[k].windows : \A i \in DOMAIN w.events :
          \E n \in 1 .. m : accepted'[n] = w.events[i]
    BY <2>1, <2>2 DEF CutInv, CheckpointIsACut
  <2>5. QED
    BY <2>1, <2>3, <2>4
<1>5. CheckpointIsACut'
  <2>1. \A k \in DOMAIN disk : \A s \in Stateful : Closings(disk[k].log[s]) = disk[k].closes
    BY DEF CutInv, CheckpointIsACut
  <2>2. \A k : disk'[k] = disk[k]
    BY Zenon
  <2>3. QED
    BY <1>1, <1>4, <2>1, <2>2, Zenon DEF CheckpointIsACut
<1>6. QED
  BY <1>3, <1>5 DEF CutInv

LEMMA CutStep ==
  ASSUME StagesInv, ClosingInv, WindowsInv, FlushInv, CutInv, [Next]_vars
  PROVE  CutInv'
<1> USE DEF StagesInv
<1>1. CASE disk' = disk
  BY <1>1, CutKept
<1>2. CASE (Tick \/ InputClosed) /\ disk' = <<Snapshot>>
  <2> DEFINE cp == Snapshot
  <2>1. /\ pc = "recv" /\ hand = << >> /\ UNCHANGED <<accepted, droppedBy, hand, topology>>
    BY <1>2 DEF Tick, InputClosed, history, loop, source, BodyInv
  <2>2. /\ Len(accepted) \in Nat /\ Settled = Len(accepted) /\ Settled' = Len(accepted)
        /\ Stateful' = Stateful /\ N \in Nat
    BY <2>1, TopologyKept, TopologyType DEF EventsInv, Settled
  <2>3. /\ cp.log = [s \in Stateful |-> opLog[s]] /\ cp.windows = windows
        /\ cp.upTo = Len(accepted) /\ cp.closes = Cardinality(closed)
    BY DEF Snapshot
  <2> HIDE DEF cp
  <2>4. disk' = <<cp>> /\ DOMAIN disk' = {1} /\ disk'[1] = cp
    BY <1>2 DEF cp
  <2>5. ASSUME NEW s \in Stateful
        PROVE  /\ Processed(disk'[1].log[s]) = KeptIds(s, disk[1].upTo)'
               /\ Closings(disk'[1].log[s]) = disk'[1].closes
    <3>1. cp.log[s] = opLog[s]
      BY <2>3
    <3>2. Offered(s) = Len(accepted)
      BY <2>1 DEF Offered
    <3>3. Processed(opLog[s]) = KeptIds(s, Len(accepted))
      BY <2>1, <3>2 DEF StagesSeeKeptEvents
    <3>4. KeptIds(s, disk[1].upTo)' = KeptIds(s, Len(accepted))
      BY <2>1, <2>3, <2>4, Zenon DEF KeptIds
    <3>5. Closings(opLog[s]) = Cardinality(closed)
      <4>1. Ahead(s) = 0 /\ Cardinality(closed) \in Nat
        BY <2>1, AheadType, FS_CardinalityType DEF WindowsInv
      <4>2. QED
        BY <2>1, <4>1 DEF FlushInv
    <3>6. QED
      BY <2>3, <2>4, <3>1, <3>3, <3>4, <3>5
  <2>6. ASSUME NEW w \in cp.windows, NEW i \in DOMAIN w.events
        PROVE  \E n \in 1 .. cp.upTo : accepted'[n] = w.events[i]
    <3>1. w \in WindowOf(Sendable)
      BY <2>3 DEF WindowsInv
    <3>2. i \in 1 .. Len(w.events)
      BY <3>1 DEF WindowOf
    <3>3. QED
      BY <2>1, <2>2, <2>3, <3>2 DEF WindowsInv
  <2>7. CheckpointIsACut'
    <3>1. \A k \in DOMAIN disk' : k = 1
      BY <2>4
    <3>2. \A w \in disk'[1].windows : \A i \in DOMAIN w.events :
            \E n \in 1 .. disk'[1].upTo : accepted'[n] = w.events[i]
      BY <2>4, <2>6
    <3>3. QED
      BY <2>2, <2>5, <3>1, <3>2, Zenon DEF CheckpointIsACut
  <2>8. \A k \in DOMAIN disk' : disk'[k].upTo \in 0 .. Settled'
    BY <2>2, <2>3, <2>4
  <2>9. QED
    BY <2>7, <2>8 DEF CutInv
<1>3. disk' = disk \/ ((Tick \/ InputClosed) /\ disk' = <<Snapshot>>)
  BY DEF Next, Run, SourceSend, SourceClose, Tick, InputClosed, WriteCheckpoint, Receive, MapStage,
         StatefulStage, ChainDone, FlushStage, WindowFlushed, RunReturns, Send, IncEmitted,
         SendFails, SinkReceive, SinkFails, SinkFinishes, Terminated, store, vars
<1>4. QED
  BY <1>1, <1>2, <1>3

\* What the theorems on flushes and checkpoints need.
MomentsInv == StagesInv /\ ClosingInv /\ WindowsInv /\ FlushInv /\ CutInv

LEMMA MomentsInit == Init => MomentsInv
<1> SUFFICES ASSUME Init PROVE MomentsInv
  OBVIOUS
<1>1. StagesInv /\ ClosingInv
  BY StagesInit DEF Init, ClosingInv
<1>2. WindowsInv
  BY FS_EmptySet DEF Init, WindowsInv
<1>3. FlushInv
  <2>1. Stateful \subseteq 1 .. N
    BY <1>1, TopologyType DEF StagesInv
  <2>2. ASSUME NEW s \in Stateful PROVE Closings(opLog[s]) = 0
    <3>1. opLog[s] = << >>
      BY <2>1 DEF Init
    <3>2. {i \in DOMAIN << >> : << >>[i] = Close} = {}
      OBVIOUS
    <3>3. QED
      BY <3>1, <3>2, FS_EmptySet DEF Closings
  <2>3. Cardinality(closed) = 0 /\ \A s \in Stateful : Ahead(s) = 0
    BY FS_EmptySet DEF Init, Ahead
  <2>4. QED
    BY <2>2, <2>3 DEF FlushInv
<1>4. CutInv
  BY DEF Init, CutInv, CheckpointIsACut
<1>5. QED
  BY <1>1, <1>2, <1>3, <1>4 DEF MomentsInv

LEMMA MomentsStep == MomentsInv /\ [Next]_vars => MomentsInv'
<1> SUFFICES ASSUME MomentsInv, [Next]_vars PROVE MomentsInv'
  OBVIOUS
<1> USE DEF MomentsInv
<1>1. StagesInv' /\ ClosingInv'
  BY StagesStep, ClosingStep
<1>2. WindowsInv' /\ FlushInv'
  BY WindowsStep, FlushStep DEF StagesInv
<1>3. CutInv'
  BY CutStep
<1>4. QED
  BY <1>1, <1>2, <1>3

\* Each stateful stage is flushed once for every window that closes, no more and no less,
\* and once more at the end, in every topology and for every stream.
THEOREM FlushedForEachWindow == Spec => []FlushedOncePerWindow
<1>1. MomentsInv => FlushedOncePerWindow
  <2> SUFFICES ASSUME MomentsInv, NEW s \in Stateful
               PROVE  /\ pc \in {"recv", "chain"} => Closings(opLog[s]) = Cardinality(closed)
                      /\ pc = "done" /\ sink # "failed" =>
                           Closings(opLog[s]) = Cardinality(closed) + 1
    BY DEF FlushedOncePerWindow
  <2>1. Cardinality(closed) \in Nat
    BY FS_CardinalityType DEF MomentsInv, WindowsInv
  <2>2. QED
    BY <2>1, AheadType DEF MomentsInv, StagesInv, FlushInv
<1>2. QED
  BY <1>1, MomentsInit, MomentsStep, PTL DEF Spec

\* Every checkpoint the run writes is of one moment between two events, and stays a cut
\* of the stream however the run goes on.
THEOREM CheckpointsAreCuts == Spec => []CheckpointIsACut
<1>1. MomentsInv => CheckpointIsACut
  BY DEF MomentsInv, CutInv
<1>2. QED
  BY <1>1, MomentsInit, MomentsStep, PTL DEF Spec

(***************************************************************************)
(* One window between two flushes                                          *)
(***************************************************************************)

\* The timestamps of a tumbling window are those with its start.
LEMMA SameStart ==
  ASSUME NEW a \in Nat, NEW b \in Nat, NEW size \in Nat \ {0}
  PROVE  /\ TumblingStart(a, size) \in Int
         /\ TumblingStart(a, size) <= a /\ a < TumblingStart(a, size) + size
         /\ TumblingStart(a, size) <= b /\ b < TumblingStart(a, size) + size =>
              TumblingStart(b, size) = TumblingStart(a, size)
<1> DEFINE q == a \div size
           r == b \div size
<1>1. TumblingStart(a, size) = q * size /\ TumblingStart(b, size) = r * size
  BY DEF TumblingStart, TruncDiv
<1>2. /\ q \in Int /\ r \in Int /\ q * size <= a /\ a < q * size + size
      /\ r * size <= b /\ b < r * size + size
  BY DivBounds
<1> HIDE DEF q, r
<1>3. q * size <= b /\ b < q * size + size => q = r
  BY <1>2, OneInterval
<1>4. q * size \in Int
  BY <1>2
<1>5. QED
  BY <1>1, <1>2, <1>3, <1>4

Tight == Strategy.kind = "tumbling" /\ Strategy.size > 0 /\ MaxLateness = 0

\* The start of the window that a timestamp falls into.
Home(ts) == TumblingStart(ts, Strategy.size)

\* Without lateness the watermark is the last accepted timestamp, and between events its
\* window is open.
ClockInv ==
  /\ watermark \in Nat
  /\ Len(accepted) > 0 => watermark = accepted[Len(accepted)].ts
  /\ \A w \in windows : w.end = w.start + Strategy.size
  /\ pc = "recv" /\ Len(accepted) > 0 => \E w \in windows : w.start = Home(watermark)

\* The stage has not yet been flushed for the last of the windows that closed.
Due(s) == pc = "flush" /\ (flushes > 1 \/ stage <= s)

\* What is accepted under an id falls into the window of a moment.
AtHome(es, size, now, id) ==
  \A n \in 1 .. Len(es) : es[n].id = id =>
    TumblingStart(es[n].ts, size) = TumblingStart(now, size)

\* The calls since the last flush in a history are on such events.
Trails(log, es, size, now) ==
  \A i \in 1 .. Len(log) :
    (\A k \in i .. Len(log) : IsEvent(log[k])) => AtHome(es, size, now, log[i])

\* Since its last flush a stage has seen events of the window of the watermark only.
TrailingInv ==
  pc # "done" =>
    \A s \in Stateful : Due(s) \/ Trails(opLog[s], accepted, Strategy.size, watermark)

\* What is accepted under two ids falls into one window.
SameHome(es, size, id1, id2) ==
  \A m, n \in 1 .. Len(es) : es[m].id = id1 /\ es[n].id = id2 =>
    TumblingStart(es[m].ts, size) = TumblingStart(es[n].ts, size)

\* The calls of a history between two flushes are on events of one window.
Blocks(log, es, size) ==
  \A i, j \in 1 .. Len(log) :
    i < j /\ (\A k \in i .. j : IsEvent(log[k])) => SameHome(es, size, log[i], log[j])

BlocksInv == \A s \in Stateful : Blocks(opLog[s], accepted, Strategy.size)

TightInv == Tight => ClockInv /\ TrailingInv /\ BlocksInv

\* An event assigned to tumbling windows is in the one of its start.
LEMMA TumblingHome ==
  ASSUME NEW E, NEW ws \in SUBSET WindowOf(E), NEW e \in E, e.ts \in Nat, e.id \in Nat,
         NEW size \in Nat \ {0}, \A w \in ws : w.end = w.start + size
  PROVE  /\ \A v \in AssignTumbling(ws, e, size) : v.end = v.start + size
         /\ \E v \in AssignTumbling(ws, e, size) : v.start = TumblingStart(e.ts, size)
<1> DEFINE start == TumblingStart(e.ts, size)
           found == {w \in ws : w.start = start}
           host  == FirstOf(found)
<1>1. AssignTumbling(ws, e, size) =
        IF found = {} THEN ws \cup {OpenedBy(e, start, start + size)}
                      ELSE (ws \ {host}) \cup {WithEvent(host, e)}
  BY DEF AssignTumbling, AddAtStart
<1> HIDE DEF start
<1>2. CASE found = {}
  <2>1. OpenedBy(e, start, start + size).start = start
        /\ OpenedBy(e, start, start + size).end = start + size
    BY DEF OpenedBy
  <2>2. QED
    BY <1>1, <1>2, <2>1 DEF start
<1>3. CASE found # {}
  <2>1. host \in ws /\ host.start = start
    BY <1>3, FoundIn
  <2>2. WithEvent(host, e).start = start /\ WithEvent(host, e).end = host.end
    BY <2>1 DEF WithEvent, WindowOf
  <2> HIDE DEF found, host
  <2>3. QED
    BY <1>1, <1>3, <2>1, <2>2 DEF start
<1>4. QED
  BY <1>2, <1>3

LEMMA ClockStep ==
  ASSUME ChannelInv, BodyInv, RoundsInv, EventsInv, WindowsInv, Tight, ClockInv, [Next]_vars
  PROVE  ClockInv'
<1>1. /\ Strategy' = Strategy /\ Windowed /\ Strategy.size \in Nat \ {0}
      /\ Len(accepted) \in Nat /\ Strategy.kind = "tumbling" /\ MaxLateness = 0
      /\ \A e \in Sendable : e.id \in Nat /\ e.ts \in Nat
  BY TopologyKept, TopologyType DEF EventsInv, Tight, Windowed
<1>2. CASE Receive /\ Accept(Head(inbox))
  <2> DEFINE e == Head(inbox)
  <2>1. /\ watermark' = MovedTo(e) /\ ~ IsLate(e.ts, watermark) /\ windows' \subseteq windows
        /\ pc' # "recv"
    BY <1>1, <1>2 DEF Accept
  <2>2. e.ts \in Nat /\ accepted'[Len(accepted')] = e /\ watermark \in Nat
    BY <1>1, <1>2, TakenEvent, AcceptHistory DEF ClockInv
  <2> HIDE DEF e
  <2>3. watermark' = e.ts
    BY <1>1, <2>1, <2>2 DEF MovedTo, Advanced, Later, IsLate
  <2>4. QED
    BY <1>1, <2>1, <2>2, <2>3 DEF ClockInv
<1>3. CASE ChainDone
  <2>1. /\ pc = "chain" /\ windows' = WindowsWith(Head(hand)) /\ UNCHANGED <<accepted, watermark>>
    BY <1>3 DEF ChainDone, history
  <2>2. PICK e : e = accepted[Len(accepted)]
    OBVIOUS
  <2>3. Head(hand) = e /\ e \in Sendable /\ e.ts \in Nat /\ e.id \in Nat /\ watermark = e.ts
    <3> DEFINE S == Sendable
    <3>1. Len(accepted) > 0 /\ hand = <<e>> /\ accepted \in Seq(S)
      BY <2>1, <2>2 DEF BodyInv, EventsInv
    <3> HIDE DEF S
    <3>2. e \in S
      BY <1>1, <2>2, <3>1
    <3>3. QED
      BY <1>1, <2>2, <3>1, <3>2 DEF S, ClockInv
  <2>4. windows' = AssignTumbling(windows, e, Strategy.size)
    BY <1>1, <2>1, <2>3 DEF WindowsWith, Assign
  <2>5. /\ \A w \in windows : w.end = w.start + Strategy.size
        /\ windows \in SUBSET WindowOf(Sendable)
    BY DEF ClockInv, WindowsInv
  <2>6. /\ \A v \in windows' : v.end = v.start + Strategy.size
        /\ \E v \in windows' : v.start = TumblingStart(e.ts, Strategy.size)
    <3> HIDE DEF Sendable
    <3>1. QED
      BY <1>1, <2>3, <2>4, <2>5, TumblingHome
  <2>7. QED
    BY <1>1, <2>1, <2>3, <2>6 DEF ClockInv, Home
<1>4. CASE [Next]_vars /\ ~ (Receive /\ Accept(Head(inbox))) /\ ~ ChainDone
  <2>1. Receive => DropLate(Head(inbox))
    BY <1>4 DEF Receive
  <2>2. UNCHANGED <<watermark, windows, accepted>> /\ (pc' = "recv" => pc = "recv")
    BY <1>4, <2>1 DEF Next, Run, SourceSend, SourceClose, Tick, Receive, DropLate, MapStage,
           StatefulStage, FlushStage, WindowFlushed, InputClosed, RunReturns, Send, IncEmitted,
           SendFails, SinkReceive, SinkFails, SinkFinishes, Terminated, loop, history, vars
  <2>3. QED
    BY <1>1, <2>2 DEF ClockInv, Home
<1>5. QED
  BY <1>2, <1>3, <1>4

\* A call on an event of the window of the moment, or the mark of a flush, is added.
LEMMA BlocksAppend ==
  ASSUME NEW es, NEW size, NEW now,
         NEW log \in Seq(Nat), NEW x \in Nat, Blocks(log, es, size),
         IsEvent(x) => Trails(log, es, size, now) /\ AtHome(es, size, now, x)
  PROVE  Blocks(Append(log, x), es, size) /\ Trails(Append(log, x), es, size, now)
<1> DEFINE t == Append(log, x)
           n == Len(log)
<1>1. /\ n \in Nat /\ Len(t) = n + 1 /\ t[n + 1] = x /\ \A i \in 1 .. n : t[i] = log[i]
  OBVIOUS
<1> HIDE DEF t, n
<1>2. ASSUME NEW i \in 1 .. n + 1, \A k \in i .. n + 1 : IsEvent(t[k])
      PROVE  AtHome(es, size, now, t[i])
  <2>1. IsEvent(x)
    <3>1. n + 1 \in i .. n + 1
      BY <1>1
    <3>2. QED
      BY <1>1, <1>2, <3>1
  <2>2. CASE i = n + 1
    BY <1>1, <2>1, <2>2
  <2>3. CASE i \in 1 .. n
    <3>1. \A k \in i .. n : IsEvent(log[k])
      <4>1. \A k \in i .. n : k \in i .. n + 1 /\ k \in 1 .. n
        BY <1>1, <2>3
      <4>2. QED
        BY <1>1, <1>2, <4>1
    <3>2. QED
      BY <1>1, <2>1, <2>3, <3>1 DEF Trails, n
  <2>4. QED
    BY <1>1, <2>2, <2>3
<1>3. Trails(t, es, size, now)
  BY <1>1, <1>2 DEF Trails
<1>4. ASSUME NEW i \in 1 .. n + 1, NEW j \in 1 .. n + 1, i < j,
             \A k \in i .. j : IsEvent(t[k])
      PROVE  SameHome(es, size, t[i], t[j])
  <2>1. CASE j = n + 1
    <3>1. AtHome(es, size, now, t[i])
      BY <1>2, <1>4, <2>1
    <3>2. AtHome(es, size, now, t[j])
      <4>1. j \in i .. j /\ \A k \in j .. n + 1 : k = j
        BY <1>1, <1>4, <2>1
      <4>2. QED
        BY <1>2, <1>4, <4>1
    <3>3. QED
      BY <3>1, <3>2 DEF AtHome, SameHome
  <2>2. CASE j \in 1 .. n
    <3>1. i \in 1 .. n /\ \A k \in i .. j : k \in 1 .. n
      BY <1>1, <1>4, <2>2
    <3>2. (\A k \in i .. j : IsEvent(log[k])) /\ t[i] = log[i] /\ t[j] = log[j]
      BY <1>1, <1>4, <2>2, <3>1
    <3>3. QED
      BY <1>4, <2>2, <3>1, <3>2 DEF Blocks, n
  <2>3. QED
    BY <1>1, <2>1, <2>2
<1>5. Blocks(t, es, size)
  BY <1>1, <1>4 DEF Blocks
<1>6. QED
  BY <1>3, <1>5 DEF t

\* An event with an id that is not in the history changes nothing for it.
LEMMA BlocksKept ==
  ASSUME NEW S, NEW es \in Seq(S), NEW e \in S, NEW size, NEW now, NEW later, NEW log,
         \A i \in 1 .. Len(log) : IsEvent(log[i]) => e.id # log[i]
  PROVE  /\ Blocks(log, es, size) => Blocks(log, Append(es, e), size)
         /\ /\ Trails(log, es, size, now)
            /\ Len(es) > 0 => TumblingStart(now, size) = TumblingStart(later, size)
            => Trails(log, Append(es, e), size, later)
<1> DEFINE t == Append(es, e)
           n == Len(es)
<1>1. /\ n \in Nat /\ Len(t) = n + 1 /\ t[n + 1] = e /\ \A i \in 1 .. n : t[i] = es[i]
  OBVIOUS
<1> HIDE DEF t, n
<1>2. \A i \in 1 .. Len(log), m \in 1 .. n + 1 : IsEvent(log[i]) /\ t[m].id = log[i] =>
        m \in 1 .. n /\ t[m] = es[m]
  BY <1>1
<1>3. ASSUME Blocks(log, es, size) PROVE Blocks(log, t, size)
  <2> SUFFICES ASSUME NEW i \in 1 .. Len(log), NEW j \in 1 .. Len(log), i < j,
                      \A k \in i .. j : IsEvent(log[k])
               PROVE  SameHome(t, size, log[i], log[j])
    BY DEF Blocks
  <2>1. SameHome(es, size, log[i], log[j])
    BY <1>3 DEF Blocks
  <2>2. IsEvent(log[i]) /\ IsEvent(log[j])
    <3>1. i \in i .. j /\ j \in i .. j
      OBVIOUS
    <3>2. QED
      BY <3>1
  <2>3. \A m \in 1 .. n + 1 : /\ t[m].id = log[i] => m \in 1 .. n /\ t[m] = es[m]
                              /\ t[m].id = log[j] => m \in 1 .. n /\ t[m] = es[m]
    BY <1>2, <2>2
  <2>4. \A a, b \in 1 .. n : es[a].id = log[i] /\ es[b].id = log[j] =>
          TumblingStart(es[a].ts, size) = TumblingStart(es[b].ts, size)
    BY <2>1 DEF SameHome, n
  <2>5. \A a, b \in 1 .. n + 1 : t[a].id = log[i] /\ t[b].id = log[j] =>
          TumblingStart(t[a].ts, size) = TumblingStart(t[b].ts, size)
    BY <2>3, <2>4
  <2>6. QED
    BY <1>1, <2>5 DEF SameHome
<1>4. ASSUME Trails(log, es, size, now),
             n > 0 => TumblingStart(now, size) = TumblingStart(later, size)
      PROVE  Trails(log, t, size, later)
  <2> SUFFICES ASSUME NEW i \in 1 .. Len(log), \A k \in i .. Len(log) : IsEvent(log[k])
               PROVE  AtHome(t, size, later, log[i])
    BY DEF Trails
  <2>1. AtHome(es, size, now, log[i])
    BY <1>4 DEF Trails
  <2>2. IsEvent(log[i])
    <3>1. i \in i .. Len(log)
      OBVIOUS
    <3>2. QED
      BY <3>1
  <2>3. \A a \in 1 .. n : es[a].id = log[i] => TumblingStart(es[a].ts, size) = TumblingStart(now, size)
    BY <2>1 DEF AtHome, n
  <2>4. \A a \in 1 .. n + 1 : t[a].id = log[i] =>
          TumblingStart(t[a].ts, size) = TumblingStart(later, size)
    <3>1. \A a \in 1 .. n : n > 0
      BY <1>1
    <3>2. QED
      BY <1>2, <1>4, <2>2, <2>3, <3>1
  <2>5. QED
    BY <1>1, <2>4 DEF AtHome
<1>5. QED
  BY <1>3, <1>4 DEF t, n

\* The event that is accepted without a flush falls into the window of the last one.
LEMMA SameWindow ==
  ASSUME ChannelInv, BodyInv, RoundsInv, EventsInv, WindowsInv, Tight, ClockInv,
         Receive, Accept(Head(inbox)), flushes' = 0, Len(accepted) > 0
  PROVE  Home(watermark') = Home(watermark)
<1> DEFINE e == Head(inbox)
<1>1. /\ Windowed /\ Strategy.size \in Nat \ {0} /\ Strategy.kind = "tumbling" /\ MaxLateness = 0
      /\ \A x \in Sendable : x.ts \in Nat
  BY TopologyType DEF Tight, Windowed
<1>2. /\ watermark' = MovedTo(e) /\ ~ IsLate(e.ts, watermark)
      /\ Cardinality(ExpiredBy(e)) = 0 /\ pc = "recv"
  BY <1>1 DEF Accept, FlushesFor, Receive
<1>3. e.ts \in Nat /\ watermark \in Nat
  BY <1>1, TakenEvent DEF ClockInv
<1>4. ExpiredBy(e) = {}
  <2>1. ExpiredBy(e) \in SUBSET windows
    BY DEF ExpiredBy, Expired
  <2>2. IsFiniteSet(ExpiredBy(e))
    BY <2>1, FS_Subset DEF RoundsInv
  <2>3. QED
    BY <1>2, <2>2, FS_EmptySet
<1> HIDE DEF e
<1>5. watermark' = e.ts /\ watermark <= e.ts /\ MovedTo(e) = e.ts
  BY <1>1, <1>2, <1>3 DEF MovedTo, Advanced, Later, IsLate
<1>6. PICK w \in windows : w.start = Home(watermark) /\ w.end = w.start + Strategy.size
  BY <1>2 DEF ClockInv
<1>7. ~(w.end <= e.ts)
  <2>1. w \notin Expired(Strategy, windows, e.ts)
    BY <1>1, <1>4, <1>5 DEF ExpiredBy
  <2>2. QED
    BY <1>1, <1>6, <2>1 DEF Expired, HasExpired
<1>8. /\ Home(watermark) \in Int /\ Home(watermark) <= watermark
      /\ Home(watermark) <= e.ts /\ e.ts < Home(watermark) + Strategy.size =>
           Home(e.ts) = Home(watermark)
  BY <1>1, <1>3, SameStart DEF Home
<1>9. Home(watermark) <= e.ts /\ e.ts < Home(watermark) + Strategy.size
  BY <1>1, <1>3, <1>5, <1>6, <1>7, <1>8
<1>10. QED
  BY <1>5, <1>8, <1>9

LEMMA TightStep ==
  ASSUME ChannelInv, BodyInv, RoundsInv, EventsInv, LogsInv, WindowsInv, TightInv, [Next]_vars
  PROVE  TightInv'
<1> SUFFICES ASSUME Tight PROVE ClockInv' /\ TrailingInv' /\ BlocksInv'
  BY TopologyKept DEF TightInv, Tight
<1>1. /\ Stateful' = Stateful /\ Strategy' = Strategy /\ N \in Nat
      /\ stage \in Nat \ {0} /\ flushes \in Nat /\ flushes' \in Nat /\ Len(accepted) \in Nat
      /\ \A s \in Stateful : s \in 1 .. N /\ Stages[s] = "stateful" /\ opLog[s] \in Seq(Nat)
      /\ pc = "flush" => flushes > 0
  BY TopologyKept, TopologyType, RoundsStep DEF RoundsInv, LogsInv, EventsInv
<1>2. ClockInv' /\ ClockInv
  BY ClockStep DEF TightInv
<1>3. /\ \A s \in Stateful : Blocks(opLog[s], accepted, Strategy.size)
      /\ pc # "done" => \A s \in Stateful :
           Due(s) \/ Trails(opLog[s], accepted, Strategy.size, watermark)
  BY DEF TightInv, TrailingInv, BlocksInv
<1>4. ASSUME \A s \in Stateful :
               /\ Blocks(opLog'[s], accepted', Strategy.size)
               /\ pc' # "done" =>
                    Due(s)' \/ Trails(opLog'[s], accepted', Strategy.size, watermark')
      PROVE  TrailingInv' /\ BlocksInv'
  BY <1>1, <1>4, Zenon DEF TrailingInv, BlocksInv
<1>5. CASE Receive /\ Accept(Head(inbox))
  <2> DEFINE e == Head(inbox)
             S == Sendable
  <2>1. /\ opLog' = opLog /\ stage' = 1 /\ pc = "recv" /\ accepted' = Append(accepted, e)
        /\ pc' = (IF flushes' = 0 THEN "chain" ELSE "flush")
    BY <1>5 DEF Receive, Accept
  <2>2. e \in S /\ accepted \in Seq(S) /\ e.id = received + 1
    BY <1>5, TakenEvent DEF EventsInv
  <2>3. ASSUME NEW s \in Stateful, NEW i \in 1 .. Len(opLog[s]), IsEvent(opLog[s][i])
        PROVE  e.id # opLog[s][i]
    <3>1. PICK m \in 1 .. Len(accepted) : accepted[m].id = opLog[s][i]
      BY <1>1, <2>3 DEF LogsInv
    <3>2. accepted[m].id \in 1 .. received /\ received \in Nat
      BY DEF EventsInv, ChannelInv
    <3>3. QED
      BY <2>2, <3>1, <3>2
  <2> HIDE DEF e, S
  <2>4. ASSUME NEW s \in Stateful
        PROVE  /\ Blocks(opLog'[s], accepted', Strategy.size)
               /\ Due(s)' \/ Trails(opLog'[s], accepted', Strategy.size, watermark')
    <3>1. \A i \in 1 .. Len(opLog[s]) : IsEvent(opLog[s][i]) => e.id # opLog[s][i]
      BY <2>3
    <3>2. Blocks(opLog[s], Append(accepted, e), Strategy.size)
      BY <1>3, <2>2, <3>1, BlocksKept
    <3>3. CASE flushes' = 0
      <4>1. Trails(opLog[s], accepted, Strategy.size, watermark)
        BY <1>3, <2>1 DEF Due
      <4>2. Len(accepted) > 0 =>
              TumblingStart(watermark, Strategy.size) = TumblingStart(watermark', Strategy.size)
        BY <1>2, <1>5, <3>3, SameWindow DEF Home
      <4>3. Trails(opLog[s], Append(accepted, e), Strategy.size, watermark')
        BY <2>2, <3>1, <4>1, <4>2, BlocksKept
      <4>4. QED
        BY <2>1, <3>2, <4>3
    <3>4. CASE flushes' # 0
      <4>1. Due(s)'
        BY <1>1, <2>1, <3>4 DEF Due
      <4>2. QED
        BY <2>1, <3>2, <4>1
    <3>5. QED
      BY <3>3, <3>4
  <2>5. QED
    BY <1>2, <1>4, <2>4
<1>6. ASSUME NEW x \in Nat, Called(x) PROVE TrailingInv' /\ BlocksInv'
  <2>1. /\ UNCHANGED <<pc, accepted, flushes>> /\ stage' = stage + 1 /\ stage \in 1 .. N
        /\ \A s \in 1 .. N : opLog'[s] = IF s = stage THEN Append(opLog[s], x) ELSE opLog[s]
        /\ \/ pc = "chain" /\ IsEvent(x) /\ x = accepted[Len(accepted)].id
           \/ pc \in {"flush", "closing"} /\ ~ IsEvent(x)
    BY <1>6 DEF Called
  <2>2. watermark' = watermark
    BY <1>6, <2>1 DEF Called, Next, Run, SourceSend, SourceClose, Tick, Receive, MapStage,
           StatefulStage, ChainDone, FlushStage, WindowFlushed, InputClosed, RunReturns, Send,
           IncEmitted, SendFails, SinkReceive, SinkFails, SinkFinishes, Terminated, vars
  <2>3. ASSUME NEW s \in Stateful
        PROVE  /\ Blocks(opLog'[s], accepted, Strategy.size)
               /\ Due(s)' \/ Trails(opLog'[s], accepted, Strategy.size, watermark)
    <3>1. CASE s = stage
      <4>1. IsEvent(x) => /\ Trails(opLog[s], accepted, Strategy.size, watermark)
                          /\ AtHome(accepted, Strategy.size, watermark, x)
        <5> SUFFICES ASSUME IsEvent(x)
                     PROVE  /\ Trails(opLog[s], accepted, Strategy.size, watermark)
                            /\ AtHome(accepted, Strategy.size, watermark, x)
          OBVIOUS
        <5>1. pc = "chain" /\ x = accepted[Len(accepted)].id
          BY <2>1
        <5>2. Trails(opLog[s], accepted, Strategy.size, watermark)
          BY <1>3, <5>1 DEF Due
        <5>3. Len(accepted) > 0
          BY <5>1 DEF BodyInv, EventsInv
        <5>4. ASSUME NEW n \in 1 .. Len(accepted), accepted[n].id = x PROVE n = Len(accepted)
          <6>1. Len(accepted) \in 1 .. Len(accepted) /\ (n = Len(accepted) \/ n < Len(accepted))
            BY <1>1, <5>3
          <6>2. accepted[n].id \in Nat /\ \A k \in 1 .. Len(accepted) :
                  n < k => accepted[n].id < accepted[k].id
            BY DEF EventsInv
          <6>3. QED
            BY <5>1, <5>4, <6>1, <6>2
        <5>5. watermark = accepted[Len(accepted)].ts
          BY <1>2, <5>3 DEF ClockInv
        <5>6. QED
          BY <5>2, <5>4, <5>5 DEF AtHome
      <4>2. opLog[s] \in Seq(Nat) /\ Blocks(opLog[s], accepted, Strategy.size)
        BY <1>1, <1>3, <3>1
      <4>3. opLog'[s] = Append(opLog[s], x)
        BY <2>1, <3>1
      <4>4. /\ Blocks(Append(opLog[s], x), accepted, Strategy.size)
            /\ Trails(Append(opLog[s], x), accepted, Strategy.size, watermark)
        BY <4>1, <4>2, BlocksAppend
      <4>5. QED
        BY <4>3, <4>4, Zenon
    <3>2. CASE s # stage
      <4>1. opLog'[s] = opLog[s]
        BY <1>1, <2>1, <3>2
      <4>2. Due(s)' <=> Due(s)
        BY <1>1, <2>1, <3>2 DEF Due
      <4>3. QED
        BY <1>3, <2>1, <4>1, <4>2
    <3>3. QED
      BY <3>1, <3>2
  <2>4. QED
    BY <1>4, <2>1, <2>2, <2>3
<1>7. CASE opLog' = opLog /\ [Next]_vars /\ ~ (Receive /\ Accept(Head(inbox)))
           /\ (FlushStage => Stages[stage] # "stateful")
  <2>1. Receive => DropLate(Head(inbox))
    BY <1>7 DEF Receive
  <2>2. accepted' = accepted /\ watermark' = watermark
    BY <1>7, <2>1 DEF Next, Run, SourceSend, SourceClose, Tick, Receive, DropLate, MapStage,
           Keep, Filter, StatefulStage, ChainDone, FlushStage, WindowFlushed, InputClosed,
           RunReturns, Send, IncEmitted, SendFails, SinkReceive, SinkFails, SinkFinishes,
           Terminated, history, vars
  <2>3. ASSUME NEW s \in Stateful, pc' # "done", Due(s) PROVE Due(s)'
    <3>1. CASE FlushStage
      BY <1>1, <1>7, <2>3, <3>1 DEF FlushStage, Due
    <3>2. CASE WindowFlushed
      BY <1>1, <2>3, <3>2 DEF WindowFlushed, Due
    <3>3. CASE ~ FlushStage /\ ~ WindowFlushed
      <4>1. UNCHANGED <<pc, stage, flushes>>
        <5>1. pc = "flush"
          BY <2>3 DEF Due
        <5>2. QED
          BY <1>7, <2>1, <2>3, <3>3, <5>1 DEF Next, Run, SourceSend, SourceClose, Tick, Receive,
             DropLate, MapStage, StatefulStage, ChainDone, InputClosed, RunReturns, Send,
             IncEmitted, SendFails, SinkReceive, SinkFails, SinkFinishes, Terminated, loop, vars
      <4>2. QED
        BY <2>3, <4>1 DEF Due
    <3>4. QED
      BY <3>1, <3>2, <3>3
  <2>4. pc' # "done" => pc # "done"
    BY <1>7, <2>1 DEF Next, Run, SourceSend, SourceClose, Tick, Receive, DropLate, MapStage,
           StatefulStage, ChainDone, FlushStage, WindowFlushed, InputClosed, RunReturns, Send,
           IncEmitted, SendFails, SinkReceive, SinkFails, SinkFinishes, Terminated, loop, vars
  <2>5. ASSUME NEW s \in Stateful
        PROVE  /\ Blocks(opLog'[s], accepted', Strategy.size)
               /\ pc' # "done" =>
                    Due(s)' \/ Trails(opLog'[s], accepted', Strategy.size, watermark')
    BY <1>3, <1>7, <2>2, <2>3, <2>4, Zenon
  <2>6. QED
    BY <1>2, <1>4, <2>5
<1>8. QED
  BY <1>2, <1>5, <1>6, <1>7, HistoryStep

\* A tumbling window closes before any stage sees an event of the next one, whatever the
\* operators, the channels and the checkpoints.
THEOREM StagesSeeOneWindow == Spec => []OneWindowBetweenFlushes
<1> DEFINE Whole == MomentsInv /\ TightInv
<1>1. Init => Whole
  <2> SUFFICES ASSUME Init PROVE Whole
    OBVIOUS
  <2>1. MomentsInv
    BY MomentsInit
  <2>2. /\ watermark = 0 /\ accepted = << >> /\ Len(accepted) = 0 /\ windows = {}
    BY DEF Init, Epoch
  <2>3. ClockInv
    BY <2>2 DEF ClockInv
  <2>4. TrailingInv /\ BlocksInv
    BY <2>2 DEF TrailingInv, BlocksInv, Trails, AtHome, Blocks, SameHome
  <2>5. QED
    BY <2>1, <2>3, <2>4 DEF TightInv
<1>2. Whole /\ [Next]_vars => Whole'
  BY MomentsStep, TightStep DEF MomentsInv, StagesInv
<1>3. Whole => OneWindowBetweenFlushes
  <2> DEFINE Start(id) == LET n == CHOOSE n \in DOMAIN accepted : accepted[n].id = id
                          IN  TumblingStart(accepted[n].ts, Strategy.size)
  <2> SUFFICES ASSUME Whole, Tight, NEW s \in Stateful, NEW i \in DOMAIN opLog[s],
                      NEW j \in DOMAIN opLog[s], i < j, \A k \in i .. j : IsEvent(opLog[s][k])
               PROVE  Start(opLog[s][i]) = Start(opLog[s][j])
    BY Zenon DEF OneWindowBetweenFlushes, Tight
  <2>1. /\ opLog[s] \in Seq(Nat) /\ s \in 1 .. N
        /\ DOMAIN accepted = 1 .. Len(accepted) /\ Blocks(opLog[s], accepted, Strategy.size)
    <3>1. s \in 1 .. N /\ accepted \in Seq(Sendable)
      BY TopologyType DEF MomentsInv, StagesInv, EventsInv
    <3> HIDE DEF Sendable
    <3>2. QED
      BY <3>1 DEF MomentsInv, StagesInv, LogsInv, TightInv, BlocksInv
  <2>2. i \in 1 .. Len(opLog[s]) /\ j \in 1 .. Len(opLog[s]) /\ i \in i .. j /\ j \in i .. j
    BY <2>1
  <2>3. /\ \E n \in 1 .. Len(accepted) : accepted[n].id = opLog[s][i]
        /\ \E n \in 1 .. Len(accepted) : accepted[n].id = opLog[s][j]
    BY <2>1, <2>2 DEF MomentsInv, StagesInv, LogsInv
  <2> DEFINE At(id) == CHOOSE n \in DOMAIN accepted : accepted[n].id = id
  <2>4. /\ At(opLog[s][i]) \in 1 .. Len(accepted)
        /\ accepted[At(opLog[s][i])].id = opLog[s][i]
        /\ At(opLog[s][j]) \in 1 .. Len(accepted)
        /\ accepted[At(opLog[s][j])].id = opLog[s][j]
    BY <2>1, <2>3, Zenon
  <2>5. \A id : Start(id) = Home(accepted[At(id)].ts)
    BY Zenon DEF Home
  <2> HIDE DEF At, Start
  <2>6. Home(accepted[At(opLog[s][i])].ts) = Home(accepted[At(opLog[s][j])].ts)
    <3>1. SameHome(accepted, Strategy.size, opLog[s][i], opLog[s][j])
      BY <2>1, <2>2 DEF Blocks
    <3>2. QED
      BY <2>4, <3>1, Zenon DEF SameHome, Home
  <2>7. QED
    BY <2>5, <2>6
<1> HIDE DEF Whole
<1>4. QED
  BY <1>1, <1>2, <1>3, PTL DEF Spec


=============================================================================
