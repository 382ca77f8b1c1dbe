-------------------------- MODULE Delivery_proofs ---------------------------
(***************************************************************************)
(* Theorems about Delivery, for every source and sink, any number of       *)
(* connections, channels of any capacity, any malformed events and any     *)
(* number of starts.                                                       *)
(***************************************************************************)
EXTENDS Delivery, SequenceLemmas, TLAPS

(***************************************************************************)
(* What was taken is kept                                                  *)
(***************************************************************************)

\* The types this depends on.
KeptType ==
  /\ IsSeq(inbox) /\ IsSeq(lineage) /\ IsSeq(saved)
  /\ DOMAIN hand = Readers /\ DOMAIN reader = Readers
  /\ pc \in {"down", "starting", "run", "drain"}
  /\ sink \in {"none", "up", "failed", "finished"}

\* A sink task is there from RunStarts on, and does not finish before the pipeline.
SinkFollowsPc ==
  /\ pc \in {"down", "starting"} => sink = "none"
  /\ sink = "finished" => pc = "drain"

\* Only a reader that is up has an event in hand, and one at most.
HandOfReader ==
  \A r \in Readers : hand[r] # << >> => hand[r] = <<hand[r][1]>> /\ reader[r] = "up"

\* Without a process there is no source task either.
NoneWhenDown == pc = "down" => ~InboxOpen

InProcess == ToSet(lineage) \cup ToSet(inbox) \cup Hands

\* What is not excused is in the process, once it has drained in the checkpoint, too.
NothingMissing ==
  /\ pc = "down" => taken \ excused \subseteq ToSet(saved)
  /\ pc # "down" /\ sink # "failed" => taken \ excused \subseteq InProcess
  /\ pc = "drain" /\ sink # "failed" =>
       /\ ~InboxOpen
       /\ Checkpointing => taken \ excused \subseteq ToSet(saved)

KeptInv == KeptType /\ SinkFollowsPc /\ HandOfReader /\ NoneWhenDown /\ NothingMissing

LEMMA KeptInit == Init => KeptInv
<1> SUFFICES ASSUME Init PROVE KeptInv
  OBVIOUS
<1>1. KeptType
  BY EmptyIsSeq DEF Init, KeptType
<1>2. SinkFollowsPc /\ HandOfReader /\ NoneWhenDown
  BY DEF Init, SinkFollowsPc, HandOfReader, NoneWhenDown, InboxOpen
<1>3. NothingMissing
  BY DEF Init, NothingMissing
<1>4. QED
  BY <1>1, <1>2, <1>3 DEF KeptInv

\* All that the invariant is about.
keptVars == <<pc, to, listener, reader, hand, inbox, lineage, saved, taken, excused>>

\* Steps of the sinks and of the outside world, that change at most how the sink is.
LEMMA KeptUnderSinks ==
  ASSUME KeptInv, UNCHANGED keptVars,
         \/ sink' = sink
         \/ sink = "up" /\ sink' = "failed"
         \/ sink = "up" /\ sink' = "finished" /\ pc = "drain"
  PROVE  KeptInv'
<1>1. InboxOpen' = InboxOpen /\ InProcess' = InProcess /\ Checkpointing' = Checkpointing
  BY DEF keptVars, InboxOpen, InProcess, Hands, Checkpointing
<1>2. KeptType' /\ SinkFollowsPc' /\ HandOfReader' /\ NoneWhenDown'
  BY <1>1 DEF KeptInv, KeptType, SinkFollowsPc, HandOfReader, NoneWhenDown, keptVars
<1>3. NothingMissing'
  BY <1>1 DEF KeptInv, KeptType, SinkFollowsPc, NothingMissing, keptVars
<1>4. QED
  BY <1>2, <1>3 DEF KeptInv

LEMMA SinkSteps ==
  ASSUME \/ Publish \/ Commit \/ Write \/ WriteFails \/ Enqueue \/ EnqueueFails \/ Poll
         \/ Collect \/ WriteCollected \/ SinkFinishes \/ Stopped \/ UNCHANGED vars
  PROVE  /\ UNCHANGED keptVars
         /\ \/ sink' = sink
            \/ sink = "up" /\ sink' = "failed"
            \/ sink = "up" /\ sink' = "finished" /\ pc = "drain"
<1>1. CASE Publish \/ Commit \/ Stopped \/ UNCHANGED vars
  BY <1>1 DEF Publish, Commit, Stopped, vars, outside, tasks, sinkVars, keptVars
<1>2. CASE Write \/ WriteFails \/ Enqueue \/ EnqueueFails \/ Poll \/ Collect \/ SinkFinishes
  BY <1>2 DEF Write, WriteFails, Enqueue, EnqueueFails, Poll, Collect, SinkFinishes,
              outside, tasks, sinkVars, keptVars
<1>3. CASE WriteCollected
  BY <1>3 DEF WriteCollected, outside, tasks, keptVars
<1>4. QED
  BY <1>1, <1>2, <1>3

\* An event that comes into a hand that was empty.
LEMMA HandFilled ==
  ASSUME KeptInv, NEW r \in Readers, hand[r] = << >>, NEW e,
         hand' = [hand EXCEPT ![r] = <<e>>]
  PROVE  Hands' = Hands \cup {e}
<1>1. \A q \in Readers : hand'[q] = IF q = r THEN <<e>> ELSE hand[q]
  BY DEF KeptInv, KeptType
<1>2. ToSet(<<e>>) = {e} /\ ToSet(hand[r]) = {}
  BY ToSetEmpty DEF ToSet
<1>3. \A q \in Readers : ToSet(hand'[q]) = IF q = r THEN {e} ELSE ToSet(hand[q])
  BY <1>1, <1>2
<1>4. QED
  BY <1>2, <1>3 DEF Hands

\* An event that leaves a hand.
LEMMA HandEmptied ==
  ASSUME KeptInv, NEW r \in Readers, hand[r] # << >>,
         hand' = [hand EXCEPT ![r] = << >>]
  PROVE  Hands \subseteq Hands' \cup {hand[r][1]}
<1>1. \A q \in Readers : hand'[q] = IF q = r THEN << >> ELSE hand[q]
  BY DEF KeptInv, KeptType
<1>2. ToSet(hand[r]) = {hand[r][1]}
  <2>1. hand[r] = <<hand[r][1]>>
    BY DEF KeptInv, HandOfReader
  <2>2. \A x : ToSet(<<x>>) = {x}
    BY DEF ToSet
  <2>3. QED
    BY <2>1, <2>2
<1>3. \A q \in Readers : q # r => ToSet(hand'[q]) = ToSet(hand[q])
  BY <1>1
<1>4. QED
  BY <1>2, <1>3 DEF Hands

\* While no reader is up, nothing is in hand.
LEMMA NoHands == ASSUME KeptInv, \A r \in Readers : reader[r] # "up" PROVE Hands = {}
<1>1. \A r \in Readers : ToSet(hand[r]) = {}
  BY ToSetEmpty DEF KeptInv, HandOfReader
<1>2. QED
  BY <1>1 DEF Hands

LEMMA ReadKeeps == ASSUME KeptInv, NEW r \in Readers, Read(r) PROVE KeptInv'
<1>1. /\ reader[r] = "up" /\ hand[r] = << >> /\ sink' = sink /\ pc' = pc
      /\ to' = to /\ listener' = listener /\ reader' = reader
      /\ inbox' = inbox /\ lineage' = lineage /\ saved' = saved /\ excused' = excused
  BY DEF Read, outside, sinkVars
<1>2. InboxOpen /\ InboxOpen'
  BY <1>1 DEF InboxOpen
<1>3. CASE hand' = hand /\ taken' = taken
  BY <1>1, <1>3, KeptUnderSinks DEF keptVars
<1>4. CASE \E e : hand' = [hand EXCEPT ![r] = <<e>>] /\ taken' = taken \cup {e}
  <2>1. PICK e : hand' = [hand EXCEPT ![r] = <<e>>] /\ taken' = taken \cup {e}
    BY <1>4
  <2>2. \A q \in Readers : hand'[q] = IF q = r THEN <<e>> ELSE hand[q]
    BY <2>1 DEF KeptInv, KeptType
  <2>3. Hands' = Hands \cup {e}
    BY <1>1, <2>1, HandFilled
  <2>4. KeptType' /\ SinkFollowsPc'
    BY <1>1, <2>1 DEF KeptInv, KeptType, SinkFollowsPc
  <2>5. HandOfReader'
    BY <1>1, <2>2 DEF KeptInv, HandOfReader
  <2>6. NoneWhenDown'
    BY <1>1, <1>2 DEF KeptInv, NoneWhenDown
  <2>7. NothingMissing'
    BY <1>1, <1>2, <2>1, <2>3 DEF KeptInv, NoneWhenDown, NothingMissing, InProcess
  <2>8. QED
    BY <2>4, <2>5, <2>6, <2>7 DEF KeptInv
<1>5. QED
  <2>1. \/ hand' = hand /\ taken' = taken
        \/ \E e : hand' = [hand EXCEPT ![r] = <<e>>] /\ taken' = taken \cup {e}
    BY Zenon DEF Read
  <2>2. QED
    BY <1>3, <1>4, <2>1

\* Connections, their ends, and the ends of the source task and of the accept loop.
LEMMA ReadersKeep ==
  ASSUME KeptInv,
         \/ ListenerDies \/ SourceFails
         \/ \E r \in Readers : Connect(r) \/ ReaderEnds(r)
  PROVE  KeptInv'
<1>1. /\ sink' = sink /\ pc' = pc /\ to' = to /\ hand' = hand /\ taken' = taken
      /\ inbox' = inbox /\ lineage' = lineage /\ saved' = saved /\ excused' = excused
  BY DEF ListenerDies, SourceFails, Connect, ReaderEnds, outside, sinkVars
<1>2. DOMAIN reader' = Readers
  BY DEF KeptInv, KeptType, ListenerDies, SourceFails, Connect, ReaderEnds
<1>3. \A r \in Readers : hand[r] # << >> => reader'[r] = reader[r]
  <2>1. CASE ListenerDies
    BY <2>1 DEF ListenerDies
  <2>2. CASE SourceFails
    <3>1. PICK q \in Active : hand[q] = << >> /\ reader' = [reader EXCEPT ![q] = "ended"]
      BY <2>2 DEF SourceFails
    <3>2. QED
      BY <3>1 DEF KeptInv, KeptType
  <2>3. CASE \E r \in Readers : Connect(r)
    <3>1. PICK q \in Readers : reader[q] # "up" /\ reader' = [reader EXCEPT ![q] = "up"]
      BY <2>3 DEF Connect
    <3>2. QED
      BY <3>1 DEF KeptInv, KeptType, HandOfReader
  <2>4. CASE \E r \in Readers : ReaderEnds(r)
    <3>1. PICK q \in Readers : hand[q] = << >> /\ reader' = [reader EXCEPT ![q] = "ended"]
      BY <2>4 DEF ReaderEnds
    <3>2. QED
      BY <3>1 DEF KeptInv, KeptType
  <2>5. QED
    BY <2>1, <2>2, <2>3, <2>4
<1>4. InboxOpen' => InboxOpen
  <2>1. CASE \E r \in Readers : Connect(r)
    BY <2>1 DEF Connect, InboxOpen
  <2>2. CASE ListenerDies \/ SourceFails \/ \E r \in Readers : ReaderEnds(r)
    <3>1. \A r \in Readers : reader'[r] = "up" => reader[r] = "up"
      BY <2>2 DEF ListenerDies, SourceFails, ReaderEnds, KeptInv, KeptType
    <3>2. listener' = "up" => listener = "up"
      BY <2>2 DEF ListenerDies, SourceFails, ReaderEnds
    <3>3. QED
      BY <3>1, <3>2 DEF InboxOpen
  <2>3. QED
    BY <2>1, <2>2
<1>5. KeptType' /\ SinkFollowsPc' /\ HandOfReader' /\ NoneWhenDown'
  BY <1>1, <1>2, <1>3, <1>4 DEF KeptInv, KeptType, SinkFollowsPc, HandOfReader, NoneWhenDown
<1>6. NothingMissing'
  <2>1. InProcess' = InProcess /\ Checkpointing' = Checkpointing
    BY <1>1 DEF InProcess, Hands, Checkpointing
  <2>2. QED
    BY <1>1, <1>4, <2>1 DEF KeptInv, NothingMissing
<1>7. QED
  BY <1>5, <1>6 DEF KeptInv

\* An event goes from the reader into the channel, or the reader ends for want of one.
LEMMA SendKeeps == ASSUME KeptInv, NEW r \in Readers, Send(r) PROVE KeptInv'
<1> DEFINE e == hand[r][1]
<1>1. /\ sink' = sink /\ pc' = pc /\ to' = to /\ listener' = listener /\ reader' = reader
      /\ taken' = taken /\ lineage' = lineage /\ saved' = saved /\ excused' = excused
      /\ hand[r] # << >> /\ pc \in {"starting", "run"}
      /\ inbox' = Append(inbox, e) /\ hand' = [hand EXCEPT ![r] = << >>]
  BY DEF Send, outside, sinkVars
<1>2. IsSeq(inbox') /\ ToSet(inbox') = ToSet(inbox) \cup {e}
  BY <1>1, AppendSeq, ToSetAppend DEF KeptInv, KeptType
<1>3. Hands \subseteq Hands' \cup {e}
  BY <1>1, HandEmptied
<1>4. KeptType' /\ SinkFollowsPc' /\ HandOfReader' /\ NoneWhenDown'
  BY <1>1, <1>2 DEF KeptInv, KeptType, SinkFollowsPc, HandOfReader, NoneWhenDown
<1>5. NothingMissing'
  BY <1>1, <1>2, <1>3 DEF KeptInv, NothingMissing, InProcess
<1>6. QED
  BY <1>4, <1>5 DEF KeptInv

LEMMA SendFailsKeeps == ASSUME KeptInv, NEW r \in Readers, SendFails(r) PROVE KeptInv'
<1>1. /\ sink' = sink /\ pc' = pc /\ to' = to /\ listener' = listener /\ inbox' = inbox
      /\ taken' = taken /\ lineage' = lineage /\ saved' = saved /\ excused' = excused
      /\ hand[r] # << >> /\ pc = "drain"
      /\ hand' = [hand EXCEPT ![r] = << >>] /\ reader' = [reader EXCEPT ![r] = "ended"]
  BY DEF SendFails, outside, sinkVars
<1>2. sink = "failed"
  BY <1>1 DEF KeptInv, HandOfReader, NothingMissing, InboxOpen
<1>3. QED
  BY <1>1, <1>2 DEF KeptInv, KeptType, SinkFollowsPc, HandOfReader, NoneWhenDown, NothingMissing

\* A start goes on from the checkpoint.
LEMMA StartKeeps == ASSUME KeptInv, Start PROVE KeptInv'
<1>1. /\ pc = "down" /\ pc' = "starting" /\ sink' = sink /\ hand' = hand /\ inbox' = inbox
      /\ lineage' = saved /\ saved' = saved /\ taken' = taken /\ excused' = excused
      /\ DOMAIN reader' = Readers
  BY DEF Start, sinkVars
<1>2. \A r \in Readers : hand[r] = << >>
  BY <1>1 DEF KeptInv, NoneWhenDown, HandOfReader, InboxOpen
<1>3. KeptType' /\ SinkFollowsPc' /\ HandOfReader' /\ NoneWhenDown'
  BY <1>1, <1>2 DEF KeptInv, KeptType, SinkFollowsPc, HandOfReader, NoneWhenDown
<1>4. NothingMissing'
  BY <1>1 DEF KeptInv, NothingMissing, InProcess
<1>5. QED
  BY <1>3, <1>4 DEF KeptInv

LEMMA RunStartsKeeps == ASSUME KeptInv, RunStarts PROVE KeptInv'
<1>1. /\ pc = "starting" /\ pc' = "run" /\ sink' = "up" /\ to' = to
      /\ listener' = listener /\ reader' = reader /\ hand' = hand /\ inbox' = inbox
      /\ lineage' = lineage /\ saved' = saved /\ taken' = taken /\ excused' = excused
  BY DEF RunStarts, outside, tasks
<1>2. KeptType' /\ SinkFollowsPc' /\ HandOfReader' /\ NoneWhenDown'
  BY <1>1 DEF KeptInv, KeptType, SinkFollowsPc, HandOfReader, NoneWhenDown
<1>3. NothingMissing'
  BY <1>1 DEF KeptInv, SinkFollowsPc, NothingMissing, InProcess, Hands
<1>4. QED
  BY <1>2, <1>3 DEF KeptInv

\* The process ends: what is not in the checkpoint by then is excused.
LEMMA EndKeeps ==
  ASSUME KeptInv, Down, taken \ excused' \subseteq ToSet(saved)
  PROVE  KeptInv'
<1>1. /\ pc' = "down" /\ listener' = "none" /\ inbox' = << >> /\ lineage' = << >>
      /\ sink' = "none" /\ saved' = saved /\ taken' = taken
      /\ reader' = [r \in Readers |-> "none"] /\ hand' = [r \in Readers |-> << >>]
  BY DEF Down
<1>2. KeptType'
  BY <1>1, EmptyIsSeq DEF KeptInv, KeptType
<1>3. SinkFollowsPc' /\ HandOfReader' /\ NoneWhenDown' /\ NothingMissing'
  BY <1>1 DEF SinkFollowsPc, HandOfReader, NoneWhenDown, NothingMissing, InboxOpen
<1>4. QED
  BY <1>2, <1>3 DEF KeptInv

LEMMA CrashKeeps == ASSUME KeptInv, Crash PROVE KeptInv'
BY EndKeeps DEF Crash

LEMMA ReturnKeeps == ASSUME KeptInv, Return PROVE KeptInv'
<1>1. CASE sink = "failed" \/ ~Checkpointing
  BY <1>1, EndKeeps DEF Return
<1>2. CASE sink # "failed" /\ Checkpointing
  <2>1. excused' = excused /\ pc = "drain" /\ Down
    BY <1>2 DEF Return
  <2>2. taken \ excused' \subseteq ToSet(saved)
    BY <1>2, <2>1 DEF KeptInv, NothingMissing
  <2>3. QED
    BY <2>1, <2>2, EndKeeps
<1>3. QED
  BY <1>1, <1>2

\* The pipeline moves an event from the channel into the state of the operators.
LEMMA ProcessKeeps == ASSUME KeptInv, Process PROVE KeptInv'
<1>1. /\ sink' = sink /\ to' = to /\ listener' = listener /\ reader' = reader /\ hand' = hand
      /\ taken' = taken /\ saved' = saved /\ excused' = excused
      /\ pc = "run" /\ inbox # << >> /\ inbox' = Tail(inbox)
      /\ lineage' = Append(lineage, Head(inbox))
      /\ (sink = "up" /\ pc' = pc) \/ (sink = "failed" /\ pc' = "drain")
  BY DEF Process, outside, tasks, sinkVars
<1>2. /\ IsSeq(inbox') /\ ToSet(inbox) = {Head(inbox)} \cup ToSet(inbox')
      /\ IsSeq(lineage') /\ ToSet(lineage') = ToSet(lineage) \cup {Head(inbox)}
  BY <1>1, TailSeq, ToSetTail, AppendSeq, ToSetAppend DEF KeptInv, KeptType
<1>3. InProcess' = InProcess
  BY <1>1, <1>2 DEF InProcess, Hands
<1>4. KeptType' /\ SinkFollowsPc' /\ HandOfReader' /\ NoneWhenDown'
  BY <1>1, <1>2 DEF KeptInv, KeptType, SinkFollowsPc, HandOfReader, NoneWhenDown
<1>5. NothingMissing'
  BY <1>1, <1>3 DEF KeptInv, NothingMissing
<1>6. QED
  BY <1>4, <1>5 DEF KeptInv

LEMMA TickKeeps == ASSUME KeptInv, Tick PROVE KeptInv'
<1>1. /\ sink' = sink /\ to' = to /\ listener' = listener /\ reader' = reader /\ hand' = hand
      /\ inbox' = inbox /\ lineage' = lineage /\ taken' = taken /\ excused' = excused
      /\ pc = "run" /\ pc' = "run" /\ saved' = lineage
  BY DEF Tick, outside, tasks, sinkVars
<1>2. KeptType' /\ SinkFollowsPc' /\ HandOfReader' /\ NoneWhenDown'
  BY <1>1 DEF KeptInv, KeptType, SinkFollowsPc, HandOfReader, NoneWhenDown
<1>3. NothingMissing'
  BY <1>1 DEF KeptInv, NothingMissing, InProcess, Hands
<1>4. QED
  BY <1>2, <1>3 DEF KeptInv

\* When the channel is closed and empty no event is on its way any more, so that all is in
\* the closing checkpoint.
LEMMA InputEndsKeeps == ASSUME KeptInv, InputEnds PROVE KeptInv'
<1>1. /\ sink' = sink /\ to' = to /\ listener' = listener /\ reader' = reader /\ hand' = hand
      /\ inbox' = inbox /\ lineage' = lineage /\ taken' = taken
      /\ pc = "run" /\ pc' = "drain" /\ ~InboxOpen /\ inbox = << >>
      /\ \/ saved' = (IF Checkpointing THEN lineage ELSE saved) /\ excused' = excused
         \/ saved' = saved /\ excused' = excused \cup (taken \ ToSet(saved))
  BY DEF InputEnds, outside, tasks, sinkVars
<1>2. KeptType' /\ SinkFollowsPc' /\ HandOfReader' /\ NoneWhenDown'
  BY <1>1 DEF KeptInv, KeptType, SinkFollowsPc, HandOfReader, NoneWhenDown
<1>3. InProcess' = InProcess /\ InboxOpen' = InboxOpen /\ Checkpointing' = Checkpointing
  BY <1>1 DEF InProcess, Hands, InboxOpen, Checkpointing
<1>4. InProcess = ToSet(lineage)
  BY <1>1, NoHands, ToSetEmpty DEF InProcess, InboxOpen
<1>5. NothingMissing'
  BY <1>1, <1>3, <1>4 DEF KeptInv, NothingMissing
<1>6. QED
  BY <1>2, <1>5 DEF KeptInv

\* No step loses an event that is not excused.
LEMMA KeptNext == ASSUME KeptInv, [Next]_vars PROVE KeptInv'
BY KeptUnderSinks, SinkSteps, ReadKeeps, ReadersKeep, SendKeeps, SendFailsKeeps, StartKeeps,
   RunStartsKeeps, CrashKeeps, ReturnKeeps, ProcessKeeps, TickKeeps, InputEndsKeeps
   DEF Next, Reading

\* Only a process that was killed or refused, or whose sink or last write failed, or that
\* keeps no checkpoint, loses an event it took from the outside: whatever the source, the
\* sink, the number of connections and their order, and however often it starts.
THEOREM TakenEventsAreKept == Spec => []TakenIsKept
<1>1. KeptInv /\ [Next]_vars => KeptInv'
  BY KeptNext
<1>2. KeptInv => TakenIsKept
  BY DEF KeptInv, SinkFollowsPc, NothingMissing, InProcess, TakenIsKept
<1>3. QED
  BY KeptInit, <1>1, <1>2, PTL DEF Spec

(***************************************************************************)
(* The order of the events                                                 *)
(***************************************************************************)

Number == Readers \X Nat

\* Of two events of one reader, the first was read before.
Before(a, b) == a[1] = b[1] => a[2] < b[2]

Sorted(s) == \A i, j \in DOMAIN s : i < j => Before(s[i], s[j])

LEMMA SortedAppend ==
  ASSUME NEW s, IsSeq(s), Sorted(s), NEW e, \A x \in ToSet(s) : Before(x, e)
  PROVE  Sorted(Append(s, e))
<1> DEFINE S == {s[i] : i \in DOMAIN s} \cup {e}
           t == Append(s, e)
<1>1. s \in Seq(S) /\ e \in S
  BY DEF IsSeq
<1> HIDE DEF S
<1>2. /\ DOMAIN s = 1 .. Len(s) /\ DOMAIN t = 1 .. Len(s) + 1 /\ Len(s) \in Nat
      /\ \A i \in 1 .. Len(s) : t[i] = s[i]
      /\ t[Len(s) + 1] = e
  BY <1>1
<1> HIDE DEF t
<1>3. \A i \in DOMAIN s : Before(s[i], e)
  BY DEF ToSet
<1>4. ASSUME NEW i \in DOMAIN t, NEW j \in DOMAIN t, i < j
      PROVE  Before(t[i], t[j])
  <2>1. i \in DOMAIN s /\ t[i] = s[i]
    BY <1>2, <1>4
  <2>2. CASE j = Len(s) + 1
    BY <1>2, <1>3, <2>1, <2>2
  <2>3. CASE j \in DOMAIN s
    BY <1>2, <1>4, <2>1, <2>3 DEF Sorted
  <2>4. QED
    BY <1>2, <2>2, <2>3
<1>5. QED
  BY <1>4 DEF Sorted, t

LEMMA SortedTail ==
  ASSUME NEW s, IsSeq(s), Sorted(s), s # << >>
  PROVE  Sorted(Tail(s)) /\ \A x \in ToSet(Tail(s)) : Before(Head(s), x)
<1> DEFINE S == {s[i] : i \in DOMAIN s}
           t == Tail(s)
<1>1. s \in Seq(S)
  BY DEF IsSeq
<1> HIDE DEF S
<1>2. /\ DOMAIN s = 1 .. Len(s) /\ DOMAIN t = 1 .. Len(s) - 1 /\ Len(s) \in Nat \ {0}
      /\ \A i \in 1 .. Len(s) - 1 : t[i] = s[i + 1]
      /\ Head(s) = s[1]
  BY <1>1
<1> HIDE DEF t
<1>3. \A i \in DOMAIN t : i + 1 \in DOMAIN s /\ i + 1 > 1 /\ 1 \in DOMAIN s /\ t[i] = s[i + 1]
  BY <1>2
<1>4. Sorted(t)
  BY <1>2, <1>3 DEF Sorted
<1>5. \A x \in ToSet(t) : Before(Head(s), x)
  BY <1>2, <1>3 DEF Sorted, ToSet
<1>6. QED
  BY <1>4, <1>5 DEF t

\* The hand of a reader holds the last event it read.
HandIsLast == \A r \in Readers : hand[r] # << >> => hand[r] = << <<r, position[r]>> >>

\* No event is later than what its reader has read, or has in hand.
Past(x) ==
  /\ x[2] <= position[x[1]]
  /\ hand[x[1]] # << >> => x[2] < position[x[1]]

OrderType ==
  /\ position \in [Readers -> Nat] /\ offset \in Nat /\ published \in Nat
  /\ DOMAIN hand = Readers
  /\ inbox \in Seq(Number) /\ produced \in Seq(Number)

OrderInv ==
  /\ OrderType
  /\ HandIsLast
  /\ Sorted(produced) /\ Sorted(inbox)
  /\ \A x \in ToSet(produced), y \in ToSet(inbox) : Before(x, y)
  /\ \A x \in ToSet(produced) \cup ToSet(inbox) : Past(x)

\* Without a process there is no event.
EmptyWhenDown ==
  pc = "down" => inbox = << >> /\ produced = << >> /\ \A r \in Readers : hand[r] = << >>

orderVars == <<position, hand, inbox, produced>>

LEMMA ActiveReaders == Active \subseteq Readers
BY KindsAssumption DEF Active

LEMMA OrderInit == Init => OrderInv
<1> SUFFICES ASSUME Init PROVE OrderInv
  OBVIOUS
<1>1. OrderType
  BY DeliveryBoundsAssumption DEF Init, OrderType
<1>2. HandIsLast /\ Sorted(produced) /\ Sorted(inbox)
  BY DEF Init, HandIsLast, Sorted
<1>3. QED
  BY <1>1, <1>2, ToSetEmpty DEF Init, OrderInv

\* What is in a channel is an event of a reader.
LEMMA Numbered ==
  ASSUME OrderType
  PROVE  \A x \in ToSet(produced) \cup ToSet(inbox) : x \in Number /\ x[1] \in Readers /\ x[2] \in Nat
<1>1. \A x \in ToSet(produced) \cup ToSet(inbox) : x \in Number
  BY DEF OrderType, ToSet
<1>2. QED
  BY <1>1 DEF Number

LEMMA ReadInOrder == ASSUME OrderInv, NEW r \in Readers, Read(r) PROVE OrderInv'
<1>1. /\ hand[r] = << >> /\ position' = [position EXCEPT ![r] = position[r] + 1]
      /\ \/ hand' = hand
         \/ hand' = [hand EXCEPT ![r] = << <<r, position[r] + 1>> >>]
      /\ inbox' = inbox /\ produced' = produced /\ offset' = offset /\ published' = published
  BY DEF Read, outside
<1>2. position[r] \in Nat
  BY DEF OrderInv, OrderType
<1>3. \A q \in Readers : /\ position'[q] = IF q = r THEN position[q] + 1 ELSE position[q]
                         /\ q # r => hand'[q] = hand[q]
                         /\ hand'[r] = << >> \/ hand'[r] = << <<r, position'[r]>> >>
  BY <1>1 DEF OrderInv, OrderType
<1>4. OrderType'
  BY <1>1, <1>2 DEF OrderInv, OrderType
<1>5. HandIsLast'
  BY <1>3 DEF OrderInv, HandIsLast
<1>6. \A x \in ToSet(produced) \cup ToSet(inbox) : Past(x)'
  BY <1>1, <1>2, <1>3, Numbered DEF OrderInv, OrderType, Past
<1>7. QED
  BY <1>1, <1>4, <1>5, <1>6 DEF OrderInv

LEMMA SendInOrder == ASSUME OrderInv, KeptInv, NEW r \in Readers, Send(r) PROVE OrderInv'
<1>0. PICK e : e = <<r, position[r]>>
  OBVIOUS
<1>1. /\ hand[r] # << >> /\ hand[r][1] = e
      /\ inbox' = Append(inbox, e) /\ hand' = [hand EXCEPT ![r] = << >>]
      /\ position' = position /\ produced' = produced /\ offset' = offset /\ published' = published
  BY <1>0 DEF Send, OrderInv, HandIsLast, outside
<1>2. e \in Number /\ position[r] \in Nat /\ e[1] = r /\ e[2] = position[r]
  BY <1>0 DEF OrderInv, OrderType, Number
<1>3. \A x \in ToSet(produced) \cup ToSet(inbox) : Before(x, e)
  BY <1>1, <1>2, Numbered DEF OrderInv, Past, Before
<1>4. ToSet(inbox') = ToSet(inbox) \cup {e} /\ Sorted(inbox')
  BY <1>1, <1>3, SortedAppend, ToSetAppend DEF OrderInv, KeptInv, KeptType
<1>5. OrderType'
  BY <1>1, <1>2 DEF OrderInv, OrderType
<1>6. HandIsLast'
  BY <1>1 DEF OrderInv, OrderType, HandIsLast
<1>7. \A q \in Readers : hand'[q] # << >> => hand[q] # << >>
  BY <1>1 DEF OrderInv, OrderType
<1>8. \A x \in ToSet(produced) \cup ToSet(inbox) : Past(x)'
  BY <1>1, <1>7, Numbered DEF OrderInv, OrderType, Past
<1>9. Past(e)'
  BY <1>1, <1>2 DEF OrderInv, OrderType, Past
<1>10. QED
  BY <1>1, <1>3, <1>4, <1>5, <1>6, <1>8, <1>9 DEF OrderInv

LEMMA SendFailsInOrder == ASSUME OrderInv, NEW r \in Readers, SendFails(r) PROVE OrderInv'
<1>1. /\ hand' = [hand EXCEPT ![r] = << >>] /\ inbox' = inbox
      /\ position' = position /\ produced' = produced /\ offset' = offset /\ published' = published
  BY DEF SendFails, outside
<1>2. OrderType' /\ HandIsLast' /\ \A q \in Readers : hand'[q] # << >> => hand[q] # << >>
  BY <1>1 DEF OrderInv, OrderType, HandIsLast
<1>3. \A x \in ToSet(produced) \cup ToSet(inbox) : Past(x)'
  BY <1>1, <1>2, Numbered DEF OrderInv, OrderType, Past
<1>4. QED
  BY <1>1, <1>2, <1>3 DEF OrderInv

LEMMA ProcessInOrder == ASSUME OrderInv, KeptInv, Process PROVE OrderInv'
<1>1. /\ inbox # << >> /\ inbox' = Tail(inbox) /\ hand' = hand /\ position' = position
      /\ offset' = offset /\ published' = published
      /\ produced' = produced \/ (sink = "up" /\ produced' = Append(produced, Head(inbox)))
  BY DEF Process, outside, tasks
<1>2. /\ ToSet(inbox) = {Head(inbox)} \cup ToSet(inbox') /\ Sorted(inbox')
      /\ \A x \in ToSet(inbox') : Before(Head(inbox), x)
  BY <1>1, ToSetTail, SortedTail DEF OrderInv, KeptInv, KeptType
<1>3. inbox' \in Seq(Number) /\ Head(inbox) \in Number
  BY <1>1 DEF OrderInv, OrderType
<1>4. /\ produced' \in Seq(Number) /\ Sorted(produced')
      /\ ToSet(produced') \subseteq ToSet(produced) \cup {Head(inbox)}
  <2>1. CASE produced' = produced
    BY <2>1 DEF OrderInv, OrderType
  <2>2. CASE produced' = Append(produced, Head(inbox))
    <3>1. IsSeq(produced)
      <4>1. produced \in Seq(Number)
        BY DEF OrderInv, OrderType
      <4>2. QED
        BY <4>1 DEF IsSeq
    <3>2. ToSet(produced') = ToSet(produced) \cup {Head(inbox)} /\ Sorted(produced')
      BY <1>2, <2>2, <3>1, ToSetAppend, SortedAppend DEF OrderInv
    <3>3. QED
      BY <1>3, <2>2, <3>2 DEF OrderInv, OrderType
  <2>3. QED
    BY <1>1, <2>1, <2>2
<1>5. OrderType' /\ HandIsLast'
  BY <1>1, <1>3, <1>4 DEF OrderInv, OrderType, HandIsLast
<1>6. \A x \in ToSet(produced') \cup ToSet(inbox') : Past(x)'
  BY <1>1, <1>2, <1>4 DEF OrderInv, Past
<1>7. \A x \in ToSet(produced'), y \in ToSet(inbox') : Before(x, y)
  BY <1>2, <1>4 DEF OrderInv
<1>8. QED
  BY <1>2, <1>4, <1>5, <1>6, <1>7 DEF OrderInv

\* A start has nothing in its channels, and reads on from anywhere.
LEMMA StartInOrder ==
  ASSUME OrderInv, EmptyWhenDown, from \in Sources, Start
  PROVE  OrderInv' /\ EmptyWhenDown'
<1>1. /\ inbox' = << >> /\ produced' = << >> /\ hand' = hand /\ pc' = "starting"
      /\ \A r \in Readers : hand[r] = << >>
      /\ offset' = offset /\ published' = published
      /\ position' = [r \in Readers |-> ResumedAt(r)]
  BY DEF Start, EmptyWhenDown, outside
<1>2. \A r \in Readers : ResumedAt(r) \in Nat
  BY KindsAssumption DEF ResumedAt, OrderInv, OrderType
<1>3. OrderType'
  BY <1>1, <1>2 DEF OrderInv, OrderType
<1>4. \A r \in Readers : hand'[r] = << >>
  BY <1>1
<1>5. HandIsLast' /\ Sorted(produced') /\ Sorted(inbox')
  BY <1>1, <1>4 DEF HandIsLast, Sorted
<1>6. ToSet(produced') = {} /\ ToSet(inbox') = {}
  BY <1>1, ToSetEmpty
<1>7. QED
  BY <1>1, <1>3, <1>5, <1>6 DEF OrderInv, EmptyWhenDown

\* Nor has a process that ended.
LEMMA EndInOrder == ASSUME OrderInv, Down PROVE OrderInv' /\ EmptyWhenDown'
<1>1. /\ inbox' = << >> /\ produced' = << >> /\ hand' = [r \in Readers |-> << >>]
      /\ offset' = offset /\ position' = position /\ published' = published
  BY DEF Down, outside
<1>2. OrderType'
  BY <1>1 DEF OrderInv, OrderType
<1>3. HandIsLast' /\ Sorted(produced') /\ Sorted(inbox')
  BY <1>1 DEF HandIsLast, Sorted
<1>4. ToSet(produced') = {} /\ ToSet(inbox') = {}
  BY <1>1, ToSetEmpty
<1>5. QED
  BY <1>1, <1>2, <1>3, <1>4 DEF OrderInv, EmptyWhenDown

\* The steps that the order of the events does not depend on.
LEMMA OthersInOrder ==
  ASSUME OrderInv,
         \/ Publish \/ Commit \/ RunStarts \/ ListenerDies \/ SourceFails
         \/ \E r \in Readers : Connect(r) \/ ReaderEnds(r)
         \/ Tick \/ InputEnds \/ Write \/ WriteFails \/ Enqueue \/ EnqueueFails \/ Poll
         \/ Collect \/ WriteCollected \/ SinkFinishes \/ Stopped \/ UNCHANGED vars
  PROVE  OrderInv'
<1>1. UNCHANGED orderVars
  BY DEF Publish, Commit, RunStarts, ListenerDies, SourceFails, Connect, ReaderEnds, Tick,
         InputEnds, Write, WriteFails, Enqueue, EnqueueFails, Poll, Collect, WriteCollected,
         SinkFinishes, Stopped, vars, tasks, orderVars
<1>2. offset' \in Nat /\ published' \in Nat
  <2>1. CASE Publish
    BY <2>1 DEF Publish, OrderInv, OrderType
  <2>2. CASE Commit
    <3>1. PICK r \in Active : offset' = position[r]
      BY <2>2 DEF Commit
    <3>2. QED
      BY <2>2, <3>1, ActiveReaders DEF Commit, outside, OrderInv, OrderType
  <2>3. CASE ~Publish /\ ~Commit
    <3>1. offset' = offset /\ published' = published
      BY <2>3 DEF RunStarts, ListenerDies, SourceFails, Connect, ReaderEnds, Tick,
           InputEnds, Write, WriteFails, Enqueue, EnqueueFails, Poll, Collect, WriteCollected,
           SinkFinishes, Stopped, vars, outside
    <3>2. QED
      BY <3>1 DEF OrderInv, OrderType
  <2>4. QED
    BY <2>1, <2>2, <2>3
<1>3. OrderType' /\ HandIsLast' /\ \A x : Past(x)' = Past(x)
  BY <1>1, <1>2 DEF OrderInv, OrderType, HandIsLast, Past, orderVars
<1>4. QED
  BY <1>1, <1>3 DEF OrderInv, orderVars

\* A reader that reads or sends, and a pipeline that runs, belong to a process.
LEMMA OthersStayEmpty ==
  ASSUME EmptyWhenDown, KeptInv, [Next]_vars, ~Start, ~Crash, ~Return
  PROVE  EmptyWhenDown'
<1>1. CASE \E r \in Readers : Read(r)
  BY <1>1 DEF Read, KeptInv, NoneWhenDown, InboxOpen, EmptyWhenDown
<1>2. CASE \E r \in Readers : Send(r) \/ SendFails(r)
  BY <1>2 DEF Send, SendFails, EmptyWhenDown
<1>3. CASE RunStarts \/ Process \/ Tick \/ InputEnds
  BY <1>3, Zenon DEF RunStarts, Process, Tick, InputEnds, EmptyWhenDown
<1>4. CASE \/ Publish \/ Commit \/ ListenerDies \/ SourceFails
           \/ \E r \in Readers : Connect(r) \/ ReaderEnds(r)
           \/ Write \/ WriteFails \/ Enqueue \/ EnqueueFails \/ Poll
           \/ Collect \/ WriteCollected \/ SinkFinishes \/ Stopped \/ UNCHANGED vars
  <2>1. pc' = pc /\ inbox' = inbox /\ produced' = produced /\ hand' = hand
    BY <1>4 DEF Publish, Commit, ListenerDies, SourceFails, Connect, ReaderEnds,
         Write, WriteFails, Enqueue, EnqueueFails, Poll, Collect, WriteCollected,
         SinkFinishes, Stopped, vars, tasks
  <2>2. QED
    BY <2>1 DEF EmptyWhenDown
<1>5. QED
  BY <1>1, <1>2, <1>3, <1>4 DEF Next, Reading

\* The kinds of the source and the sink are those of the start.
LEMMA SourceStays == ASSUME [Next]_vars PROVE from' = from
<1>1. CASE Next
  BY <1>1 DEF Next, Reading, Publish, Start, RunStarts, Crash, Return, Down, Connect, Read, Send,
     SendFails, ReaderEnds, ListenerDies, SourceFails, Commit, Process, Tick, InputEnds, Write,
     WriteFails, Enqueue, EnqueueFails, Poll, Collect, WriteCollected, SinkFinishes, Stopped,
     vars, outside
<1>2. CASE UNCHANGED vars
  BY <1>2 DEF vars, outside
<1>3. QED
  BY <1>1, <1>2

\* The inductive invariant about the order of the events.
EventsInOrder == OrderInv /\ EmptyWhenDown /\ from \in Sources

LEMMA OrderNext == ASSUME EventsInOrder, KeptInv, [Next]_vars PROVE EventsInOrder'
<1>1. OrderInv /\ EmptyWhenDown /\ from \in Sources /\ from' \in Sources
  BY SourceStays DEF EventsInOrder
<1>2. CASE Start
  BY <1>1, <1>2, StartInOrder DEF EventsInOrder
<1>3. CASE Crash \/ Return
  BY <1>1, <1>3, EndInOrder DEF Crash, Return, EventsInOrder
<1>4. CASE ~Start /\ ~Crash /\ ~Return
  <2>1. EmptyWhenDown'
    BY <1>1, <1>4, OthersStayEmpty
  <2>2. CASE Process \/ \E r \in Readers : Read(r) \/ Send(r) \/ SendFails(r)
    BY <1>1, <2>1, <2>2, ReadInOrder, SendInOrder, SendFailsInOrder, ProcessInOrder
       DEF EventsInOrder
  <2>3. CASE ~Process /\ \A r \in Readers : ~Read(r) /\ ~Send(r) /\ ~SendFails(r)
    <3>1. OrderInv'
      BY <1>1, <1>4, <2>3, OthersInOrder DEF Next, Reading
    <3>2. QED
      BY <1>1, <2>1, <3>1 DEF EventsInOrder
  <2>4. QED
    BY <2>2, <2>3
<1>5. QED
  BY <1>2, <1>3, <1>4

(***************************************************************************)
(* What lands                                                              *)
(***************************************************************************)

Outputs == Seq(Number)

LandType ==
  /\ landed \in Outputs /\ queue \in Outputs /\ outbox \in Outputs /\ produced \in Outputs
  /\ driver \in {"up", "dead"}

\* Where each kind of sink may have an output.
KindOfSink ==
  /\ sink = "none" => /\ landed = << >> /\ queue = << >>
                      /\ outbox = << >> /\ produced = << >>
  /\ driver = "dead" => to = "mqtt" /\ queue = << >>
  /\ to \notin {"mqtt", "batch"} => queue = << >>
  /\ to = "batch" /\ sink = "up" => landed = << >>
  /\ to = "mqtt" /\ sink = "failed" => driver = "dead"

\* No output of a sink in order is missing between the pipeline and the destination.
NoGap ==
  /\ IsPrefix(landed, produced)
  /\ sink = "up" /\ driver = "up" => landed \o queue \o outbox = produced
  /\ sink = "finished" /\ driver = "up" => landed \o queue = produced
  /\ sink = "finished" /\ to # "mqtt" => queue = << >>

LandInv == LandType /\ KindOfSink /\ NoGap

landVars == <<to, sink, driver, landed, queue, outbox, produced>>

\* Facts about empty sequences of outputs.
LEMMA NoOutputs ==
  /\ << >> \in Outputs
  /\ \A s \in Outputs : s \o << >> = s /\ << >> \o s = s
  /\ \A s \in Outputs : IsPrefix(<< >>, s) /\ IsPrefix(s, s)
<1>1. << >> \in Outputs
  BY DEF Outputs
<1>2. \A s \in Outputs : s \o << >> = s /\ << >> \o s = s
  BY ConcatEmptySeq DEF Outputs
<1>3. \A s \in Outputs : IsPrefix(<< >>, s) /\ IsPrefix(s, s)
  <2>1. ASSUME NEW s \in Outputs PROVE IsPrefix(<< >>, << >> \o s) /\ IsPrefix(s, s \o << >>)
    BY <1>1, PrefixOfConcat DEF Outputs
  <2>2. QED
    BY <1>2, <2>1
<1>4. QED
  BY <1>1, <1>2, <1>3

\* Appending to the end of two sequences in a row.
LEMMA OutputsAppend ==
  \A s, t \in Outputs, e \in Number : Append(s \o t, e) = s \o Append(t, e)
<1> SUFFICES ASSUME NEW s \in Seq(Number), NEW t \in Seq(Number), NEW e \in Number
             PROVE  Append(s \o t, e) = s \o Append(t, e)
  BY DEF Outputs
<1>1. s \o t \in Seq(Number) /\ <<e>> \in Seq(Number)
  OBVIOUS
<1>2. Append(s \o t, e) = (s \o t) \o <<e>> /\ Append(t, e) = t \o <<e>>
  BY <1>1, AppendIsConcat
<1>3. (s \o t) \o <<e>> = s \o (t \o <<e>>)
  BY <1>1, ConcatAssociative
<1>4. QED
  BY <1>2, <1>3, Zenon

LEMMA LandInit == Init => LandInv
<1> SUFFICES ASSUME Init PROVE LandInv
  OBVIOUS
<1>1. /\ landed = << >> /\ queue = << >> /\ outbox = << >> /\ produced = << >>
      /\ sink = "none" /\ driver = "up"
  BY DEF Init
<1>2. QED
  BY <1>1, NoOutputs DEF LandInv, LandType, KindOfSink, NoGap

\* The end of a process, and its next start, have no output.
LEMMA DownLands == ASSUME Down PROVE LandInv'
<1>1. /\ landed' = << >> /\ queue' = << >> /\ outbox' = << >> /\ produced' = << >>
      /\ sink' = "none" /\ driver' = "up"
  BY DEF Down
<1>2. QED
  BY <1>1, NoOutputs DEF LandInv, LandType, KindOfSink, NoGap

LEMMA RunStartsLands == ASSUME LandInv, KeptInv, RunStarts PROVE LandInv'
<1>1. /\ sink = "none" /\ sink' = "up" /\ to' = to /\ driver' = driver
      /\ landed' = landed /\ queue' = queue /\ outbox' = outbox /\ produced' = produced
  BY DEF RunStarts, outside, KeptInv, SinkFollowsPc
<1>2. landed = << >> /\ queue = << >> /\ outbox = << >> /\ produced = << >>
  BY <1>1 DEF LandInv, KindOfSink
<1>3. QED
  BY <1>1, <1>2, NoOutputs DEF LandInv, LandType, KindOfSink, NoGap

\* The pipeline puts an output behind those that are on their way.
LEMMA ProcessLands == ASSUME LandInv, OrderInv, Process PROVE LandInv'
<1>1. /\ sink' = sink /\ to' = to /\ driver' = driver /\ landed' = landed /\ queue' = queue
      /\ \/ outbox' = outbox /\ produced' = produced /\ sink = "failed"
         \/ /\ outbox' = Append(outbox, Head(inbox)) /\ produced' = Append(produced, Head(inbox))
            /\ sink = "up"
  BY DEF Process, outside, sinkVars
<1>2. CASE sink = "failed" /\ outbox' = outbox /\ produced' = produced
  BY <1>1, <1>2 DEF LandInv, LandType, KindOfSink, NoGap
<1>3. CASE sink = "up" /\ outbox' = Append(outbox, Head(inbox))
                       /\ produced' = Append(produced, Head(inbox))
  <2>1. PICK e : e = Head(inbox)
    OBVIOUS
  <2>2. e \in Number
    BY <2>1 DEF Process, OrderInv, OrderType
  <2>3. outbox' \in Outputs /\ produced' \in Outputs
    BY <1>3, <2>1, <2>2 DEF LandInv, LandType, Outputs
  <2>4. IsPrefix(landed', produced')
    BY <1>1, <1>3, <2>1, <2>2, PrefixOfAppend DEF LandInv, LandType, NoGap, Outputs
  <2>5. driver = "up" => landed' \o queue' \o outbox' = produced'
    <3>1. landed \o queue \in Outputs
      BY DEF LandInv, LandType, Outputs
    <3>2. Append((landed \o queue) \o outbox, e) = (landed \o queue) \o Append(outbox, e)
      <4>1. outbox \in Outputs
        BY DEF LandInv, LandType
      <4>2. QED
        BY <2>2, <3>1, <4>1, OutputsAppend, Zenon
    <3>3. driver = "up" => (landed \o queue) \o outbox = produced
      BY <1>3, Zenon DEF LandInv, NoGap
    <3>4. QED
      BY <1>1, <1>3, <2>1, <3>2, <3>3, Zenon
  <2>6. QED
    BY <1>1, <1>3, <2>3, <2>4, <2>5 DEF LandInv, LandType, KindOfSink, NoGap
<1>4. QED
  BY <1>1, <1>2, <1>3

\* An output is written.
LEMMA WriteLands == ASSUME LandInv, Write PROVE LandInv'
<1>1. /\ sink = "up" /\ sink' = sink /\ to' = to /\ driver' = driver /\ queue' = queue
      /\ to \notin {"mqtt", "batch"} /\ outbox # << >> /\ produced' = produced
      /\ outbox' = Tail(outbox) /\ landed' = Append(landed, Head(outbox))
  BY DEF Write, outside
<1>2. queue = << >> /\ driver = "up"
  BY <1>1 DEF LandInv, LandType, KindOfSink
<1>3. outbox' \in Outputs /\ landed' \in Outputs
  BY <1>1, HeadTailProperties DEF LandInv, LandType, Outputs
<1>4. landed' \o outbox' = produced'
  <2>1. landed \o outbox = produced
    BY <1>1, <1>2, NoOutputs DEF LandInv, LandType, NoGap
  <2>2. QED
    BY <1>1, <2>1, MoveAcross DEF LandInv, LandType, Outputs
<1>5. landed' \o queue' \o outbox' = produced'
  BY <1>1, <1>2, <1>3, <1>4, NoOutputs
<1>6. IsPrefix(landed', produced')
  <2>1. IsPrefix(landed', landed' \o outbox')
    BY <1>3, PrefixOfConcat DEF Outputs
  <2>2. QED
    BY <1>4, <2>1
<1>7. QED
  BY <1>1, <1>2, <1>3, <1>5, <1>6 DEF LandInv, LandType, KindOfSink, NoGap

\* The output a failing write was about may be there or not.
LEMMA WriteFailsLands == ASSUME LandInv, WriteFails PROVE LandInv'
<1>1. /\ sink = "up" /\ sink' = "failed" /\ to' = to /\ driver' = driver /\ queue' = queue
      /\ to \notin {"mqtt", "batch"} /\ outbox # << >> /\ produced' = produced
      /\ outbox' = << >> /\ landed' \in {landed, Append(landed, Head(outbox))}
  BY DEF WriteFails, outside
<1>2. queue = << >> /\ driver = "up"
  BY <1>1 DEF LandInv, LandType, KindOfSink
<1>3. PICK l, o : l = Append(landed, Head(outbox)) /\ o = Tail(outbox)
  OBVIOUS
<1>4. l \in Outputs /\ o \in Outputs
  BY <1>1, <1>3, HeadTailProperties DEF LandInv, LandType, Outputs
<1>5. l \o o = produced
  <2>1. landed \o outbox = produced
    BY <1>1, <1>2, NoOutputs DEF LandInv, LandType, NoGap
  <2>2. QED
    BY <1>1, <1>3, <2>1, MoveAcross DEF LandInv, LandType, Outputs
<1>6. IsPrefix(l, produced)
  <2>1. IsPrefix(l, l \o o)
    BY <1>4, PrefixOfConcat DEF Outputs
  <2>2. QED
    BY <1>5, <2>1
<1>7. landed' \in Outputs /\ IsPrefix(landed', produced')
  BY <1>1, <1>3, <1>4, <1>6 DEF LandInv, LandType, NoGap
<1>8. QED
  BY <1>1, <1>2, <1>7, NoOutputs DEF LandInv, LandType, KindOfSink, NoGap

\* The client of a broker, and the command, put the outputs into a queue first.
LEMMA QueuedLands ==
  ASSUME LandInv, sink = "up", driver = "up", outbox # << >>,
         outbox' = Tail(outbox), queue' = Append(queue, Head(outbox)), to \in {"mqtt", "batch"},
         UNCHANGED <<to, sink, driver, landed, produced>>
  PROVE  LandInv'
<1>1. PICK q, o : q = Append(queue, Head(outbox)) /\ o = Tail(outbox)
  OBVIOUS
<1>2. q \in Outputs /\ o \in Outputs
  BY <1>1, HeadTailProperties DEF LandInv, LandType, Outputs
<1>3. (landed \o q) \o o = produced
  <2>1. landed \in Outputs /\ queue \in Outputs /\ outbox \in Outputs /\ Head(outbox) \in Number
    BY HeadTailProperties DEF LandInv, LandType, Outputs
  <2>2. landed \o queue \in Outputs
    BY <2>1 DEF Outputs
  <2>3. (landed \o queue) \o outbox = Append(landed \o queue, Head(outbox)) \o Tail(outbox)
    BY <2>1, <2>2, MoveAcross DEF Outputs
  <2>4. Append(landed \o queue, Head(outbox)) = landed \o Append(queue, Head(outbox))
    BY <2>1, <2>2, OutputsAppend, Zenon
  <2>5. (landed \o queue) \o outbox = produced
    BY Zenon DEF LandInv, NoGap
  <2>6. QED
    BY <1>1, <2>3, <2>4, <2>5, Zenon
<1>4. landed' \o queue' \o outbox' = produced'
  BY <1>1, <1>3, Zenon
<1>5. queue' \in Outputs /\ outbox' \in Outputs
  BY <1>1, <1>2, Zenon
<1>6. LandType'
  BY <1>5 DEF LandInv, LandType
<1>7. KindOfSink'
  BY DEF LandInv, KindOfSink
<1>8. NoGap'
  BY <1>4, Zenon DEF LandInv, NoGap
<1>9. QED
  BY <1>6, <1>7, <1>8 DEF LandInv

LEMMA EnqueueLands == ASSUME LandInv, Enqueue \/ Collect PROVE LandInv'
<1>1. CASE Enqueue
  BY <1>1, QueuedLands DEF Enqueue, outside
<1>2. CASE Collect
  <2>1. driver = "up"
    BY <1>2 DEF Collect, LandInv, LandType, KindOfSink
  <2>2. QED
    BY <1>2, <2>1, QueuedLands DEF Collect, outside
<1>3. QED
  BY <1>1, <1>2

LEMMA EnqueueFailsLands == ASSUME LandInv, EnqueueFails PROVE LandInv'
BY NoOutputs DEF EnqueueFails, outside, LandInv, LandType, KindOfSink, NoGap

\* The client sends what it has queued, or dies with it.
LEMMA PollLands == ASSUME LandInv, KeptInv, Poll PROVE LandInv'
<1>1. /\ to = "mqtt" /\ driver = "up" /\ to' = to /\ sink' = sink /\ outbox' = outbox
      /\ produced' = produced
  BY DEF Poll, outside
<1>2. CASE driver' = "dead" /\ queue' = << >> /\ landed' = landed /\ sink # "none"
  BY <1>1, <1>2, NoOutputs DEF LandInv, LandType, KindOfSink, NoGap
<1>3. CASE /\ queue # << >> /\ driver' = driver
           /\ landed' = Append(landed, Head(queue)) /\ queue' = Tail(queue)
  <2>1. PICK l, q : l = Append(landed, Head(queue)) /\ q = Tail(queue)
    OBVIOUS
  <2>2. l \in Outputs /\ q \in Outputs /\ outbox \in Outputs
    BY <1>3, <2>1, HeadTailProperties DEF LandInv, LandType, Outputs
  <2>3. l \o q = landed \o queue
    BY <1>3, <2>1, MoveAcross DEF LandInv, LandType, Outputs
  <2>4. sink = "up" => (l \o q) \o outbox = produced
    BY <1>1, <2>3, Zenon DEF LandInv, NoGap
  <2>5. sink = "finished" => l \o q = produced
    BY <1>1, <2>3, Zenon DEF LandInv, NoGap
  <2>6. sink \in {"up", "finished"}
    BY <1>1, <1>3 DEF LandInv, KindOfSink, KeptInv, KeptType
  <2>7. IsPrefix(l, produced)
    <3>1. IsPrefix(l, l \o q)
      BY <2>2, PrefixOfConcat DEF Outputs
    <3>2. q \o outbox \in Outputs
      BY <2>2 DEF Outputs
    <3>3. IsPrefix(l, l \o (q \o outbox))
      BY <2>2, <3>2, PrefixOfConcat DEF Outputs
    <3>4. l \o (q \o outbox) = (l \o q) \o outbox
      BY <2>2, ConcatAssociative DEF Outputs
    <3>5. QED
      BY <2>4, <2>5, <2>6, <3>1, <3>3, <3>4, Zenon
  <2>8. landed' = l /\ queue' = q
    BY <1>3, <2>1, Zenon
  <2>9. QED
    BY <1>1, <1>3, <2>2, <2>4, <2>5, <2>6, <2>7, <2>8 DEF LandInv, LandType, KindOfSink, NoGap
<1>4. QED
  BY <1>1, <1>2, <1>3 DEF Poll

\* The command writes what it collected, or the first part of it.
LEMMA WriteCollectedLands == ASSUME LandInv, WriteCollected PROVE LandInv'
<1>1. /\ to = "batch" /\ to' = to /\ sink = "up" /\ outbox = << >> /\ outbox' = outbox
      /\ driver' = driver /\ produced' = produced
  BY DEF WriteCollected, outside
<1>2. PICK n \in 0 .. Len(queue) :
        /\ landed' = SubSeq(queue, 1, n)
        /\ queue' = SubSeq(queue, n + 1, Len(queue))
        /\ sink' \in IF n = Len(queue) THEN {"finished", "failed"} ELSE {"failed"}
  BY DEF WriteCollected
<1>3. queue \in Outputs /\ driver = "up" /\ landed = << >>
  BY <1>1 DEF LandInv, LandType, KindOfSink
<1>4. queue = produced
  <2>1. (landed \o queue) \o outbox = produced
    BY <1>1, <1>3, Zenon DEF LandInv, NoGap
  <2>2. QED
    BY <1>1, <1>3, <2>1, NoOutputs, Zenon
<1>5. PICK l, q : l = SubSeq(queue, 1, n) /\ q = SubSeq(queue, n + 1, Len(queue))
  OBVIOUS
<1>6. l \in Outputs /\ q \in Outputs
  BY <1>2, <1>3, <1>5 DEF Outputs
<1>7. l \o q = produced
  <2>1. SubSeq(queue, 1, Len(queue)) = queue
    BY <1>3, SubSeqFull DEF Outputs
  <2>2. 1 \in 1 .. Len(queue) + 1 /\ n \in 1 - 1 .. Len(queue) /\ Len(queue) \in 1 - 1 .. Len(queue)
        /\ Len(queue) \in n .. Len(queue)
    BY <1>3, LenProperties DEF Outputs
  <2>3. SubSeq(queue, 1, n) \o SubSeq(queue, n + 1, Len(queue)) = SubSeq(queue, 1, Len(queue))
    BY <1>3, <2>2, ConcatAdjacentSubSeq DEF Outputs
  <2>4. QED
    BY <1>4, <1>5, <2>1, <2>3, Zenon
<1>8. n = Len(queue) => q = << >>
  BY <1>3, <1>5 DEF Outputs
<1>9. IsPrefix(l, produced)
  <2>1. IsPrefix(l, l \o q)
    BY <1>6, PrefixOfConcat DEF Outputs
  <2>2. QED
    BY <1>7, <2>1, Zenon
<1>10. landed' = l /\ queue' = q
  BY <1>2, <1>5, Zenon
<1>11. sink' = "failed" \/ (sink' = "finished" /\ q = << >>)
  BY <1>2, <1>8
<1>12. LandType' /\ KindOfSink'
  BY <1>1, <1>3, <1>6, <1>10, <1>11 DEF LandInv, LandType, KindOfSink
<1>13. NoGap'
  BY <1>1, <1>3, <1>7, <1>9, <1>10, <1>11 DEF NoGap
<1>14. QED
  BY <1>12, <1>13 DEF LandInv

LEMMA SinkFinishesLands == ASSUME LandInv, SinkFinishes PROVE LandInv'
<1>1. /\ to # "batch" /\ to' = to /\ sink = "up" /\ sink' = "finished" /\ outbox = << >>
      /\ driver' = driver /\ produced' = produced /\ landed' = landed /\ queue' = queue
      /\ outbox' = outbox
  BY DEF SinkFinishes, outside
<1>2. driver = "up" => landed \o queue = produced
  <2>1. driver = "up" => (landed \o queue) \o outbox = produced
    BY <1>1, Zenon DEF LandInv, NoGap
  <2>2. landed \o queue \in Outputs
    BY DEF LandInv, LandType, Outputs
  <2>3. QED
    BY <1>1, <2>1, <2>2, NoOutputs, Zenon
<1>3. LandType' /\ KindOfSink'
  BY <1>1 DEF LandInv, LandType, KindOfSink
<1>4. NoGap'
  BY <1>1, <1>2 DEF LandInv, KindOfSink, NoGap
<1>5. QED
  BY <1>3, <1>4 DEF LandInv

\* The steps of the sources and of the checkpoints have no output.
LEMMA OthersLand ==
  ASSUME LandInv,
         \/ Publish \/ Commit \/ Start \/ ListenerDies \/ SourceFails
         \/ Reading \/ Tick \/ InputEnds \/ Stopped \/ UNCHANGED vars
  PROVE  LandInv'
<1>1. UNCHANGED landVars
  BY DEF Publish, Commit, Start, ListenerDies, SourceFails, Reading, Connect, Read, Send,
     SendFails, ReaderEnds, Tick, InputEnds, Stopped, vars, outside, sinkVars, landVars
<1>2. QED
  BY <1>1 DEF landVars, LandInv, LandType, KindOfSink, NoGap

\* For any source, any sink that writes, publishes or collects, any capacity and any
\* connections: in one start the events of each reader are answered in its order, none of
\* them twice, what has landed are the outputs from the first on without a gap, and a
\* sink in order that has finished leaves nothing but what an MQTT client has queued.
THEOREM OutputsLandInOrder == Spec => []LandsInOrder
<1> DEFINE Inv == KeptInv /\ EventsInOrder /\ LandInv
<1>1. Init => Inv
  <2>1. Init => EmptyWhenDown /\ from \in Sources
    BY DEF Init, EmptyWhenDown
  <2>2. QED
    BY <2>1, KeptInit, OrderInit, LandInit DEF EventsInOrder
<1>2. Inv /\ [Next]_vars => Inv'
  <2> SUFFICES ASSUME Inv, [Next]_vars PROVE Inv'
    OBVIOUS
  <2>1. KeptInv' /\ EventsInOrder'
    BY KeptNext, OrderNext
  <2>2. LandInv'
    BY DownLands, RunStartsLands, ProcessLands, WriteLands, WriteFailsLands, EnqueueLands,
       EnqueueFailsLands, PollLands, WriteCollectedLands, SinkFinishesLands, OthersLand
       DEF Next, Crash, Return, EventsInOrder
  <2>3. QED
    BY <2>1, <2>2
<1>3. Inv => LandsInOrder
  <2> SUFFICES ASSUME Inv PROVE LandsInOrder
    OBVIOUS
  <2>1. \A i, j \in DOMAIN produced :
          i < j /\ produced[i][1] = produced[j][1] => produced[i][2] < produced[j][2]
    BY DEF EventsInOrder, OrderInv, Sorted, Before
  <2>2. QED
    BY <2>1, Zenon DEF LandInv, NoGap, LandsInOrder
<1>4. QED
  BY <1>1, <1>2, <1>3, PTL DEF Spec

=============================================================================
