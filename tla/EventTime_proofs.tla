-------------------------- MODULE EventTime_proofs --------------------------
(***************************************************************************)
(* Theorems about EventTime, for every strategy, lateness and set of       *)
(* timestamps.                                                             *)
(***************************************************************************)
EXTENDS EventTime, SequenceLemmas, FiniteSetTheorems

(***************************************************************************)
(* Lemmas on the window operators                                          *)
(***************************************************************************)

\* Windows are ordered by a natural number, so `position` finds one of them.
LEMMA FirstOfIn ==
  ASSUME NEW ws \in SUBSET Window, ws # {}
  PROVE  FirstOf(ws) \in ws
<1> DEFINE openers == {w.opener : w \in ws}
<1>1. openers \in SUBSET Nat /\ openers # {}
  BY DEF Window
<1>2. PICK m \in openers : \A n \in openers : m <= n
  <2> HIDE DEF openers
  <2>1. QED
    BY <1>1, Least
<1>3. PICK w \in ws : w.opener = m
  OBVIOUS
<1>4. \A v \in ws : w.opener <= v.opener
  BY <1>2, <1>3
<1>5. QED
  BY <1>4 DEF FirstOf

\* The interval of a tumbling window contains the timestamp it is computed from.
LEMMA TumblingStartContains ==
  ASSUME NEW ts \in Nat, NEW size \in Nat, size > 0
  PROVE  /\ TumblingStart(ts, size) \in Int
         /\ TumblingStart(ts, size) + size > ts
<1>1. ts \div size \in Nat /\ ts % size \in 0 .. size - 1
  OBVIOUS
<1>2. ts = size * (ts \div size) + (ts % size)
  OBVIOUS
<1>3. (ts \div size) * size = size * (ts \div size)
  BY <1>1
<1>4. TumblingStart(ts, size) = (ts \div size) * size
  BY DEF TumblingStart, TruncDiv
<1>5. QED
  BY <1>1, <1>2, <1>3, <1>4

\* Adding an event to a window keeps its interval.
LEMMA WithEventType ==
  ASSUME NEW w \in Window, NEW e \in Event
  PROVE  /\ WithEvent(w, e) \in Window
         /\ WithEvent(w, e).start = w.start
         /\ WithEvent(w, e).end = w.end
         /\ WithEvent(w, e).opener = w.opener
         /\ EventCount(WithEvent(w, e)) = EventCount(w) + 1
<1>1. Append(w.events, e) \in Seq(Event) /\ Len(Append(w.events, e)) = Len(w.events) + 1
  BY DEF Window
<1>2. QED
  BY <1>1 DEF Window, WithEvent, EventCount

LEMMA OpenedByType ==
  ASSUME NEW e \in Event, NEW start \in Int, NEW end \in Int
  PROVE  /\ OpenedBy(e, start, end) \in Window
         /\ OpenedBy(e, start, end).start = start
         /\ OpenedBy(e, start, end).end = end
         /\ EventCount(OpenedBy(e, start, end)) = 1
BY DEF OpenedBy, Window, Event, EventCount

(***************************************************************************)
(* What assign does to the windows, for each strategy                      *)
(***************************************************************************)

\* Every window of ws2 has the interval of one of ws1, or lies around ts on a
\* grid of intervals of the given size.
GridStep(ws1, ws2, ts, size) ==
  \A w \in ws2 : \/ \E v \in ws1 : w.start = v.start /\ w.end = v.end
                 \/ w.end = w.start + size /\ w.end > ts

LEMMA AssignTumblingGrid ==
  ASSUME NEW ws \in SUBSET Window, NEW e \in Event, NEW size \in Nat
  PROVE  /\ AssignTumbling(ws, e, size) \subseteq Window
         /\ GridStep(ws, AssignTumbling(ws, e, size), e.ts, size)
<1> DEFINE start == TumblingStart(e.ts, size)
           found == {w \in ws : w.start = start}
           host  == FirstOf(found)
<1>1. CASE size = 0
  BY <1>1 DEF AssignTumbling, GridStep
<1>2. CASE size > 0
  <2>1. start \in Int /\ start + size > e.ts /\ e.ts \in Nat
    BY <1>2, TumblingStartContains DEF Event
  <2>2. AssignTumbling(ws, e, size) =
          IF found = {} THEN ws \cup {OpenedBy(e, start, start + size)}
                        ELSE (ws \ {host}) \cup {WithEvent(host, e)}
    BY <1>2 DEF AssignTumbling, AddAtStart
  <2> HIDE DEF start
  <2>3. CASE found = {}
    <3>1. /\ OpenedBy(e, start, start + size) \in Window
          /\ OpenedBy(e, start, start + size).start = start
          /\ OpenedBy(e, start, start + size).end = start + size
      BY <2>1, OpenedByType
    <3>2. QED
      BY <2>1, <2>2, <2>3, <3>1 DEF GridStep
  <2>4. CASE found # {}
    <3>1. host \in ws /\ host \in Window
      BY <2>4, FirstOfIn
    <3>2. /\ WithEvent(host, e) \in Window
          /\ WithEvent(host, e).start = host.start
          /\ WithEvent(host, e).end = host.end
      BY <3>1, WithEventType
    <3>3. QED
      BY <2>2, <2>4, <3>1, <3>2 DEF GridStep
  <2>5. QED
    BY <2>3, <2>4
<1>3. QED
  BY <1>1, <1>2

LEMMA AssignSlidingGrid ==
  ASSUME NEW ws \in SUBSET Window, NEW e \in Event, NEW size \in Nat, NEW slide \in Nat
  PROVE  /\ AssignSliding(ws, e, size, slide) \subseteq Window
         /\ GridStep(ws, AssignSliding(ws, e, size, slide), e.ts, size)
<1> DEFINE starts == SlidingStarts(e.ts, size, slide)
           open   == {w.start : w \in ws}
<1>1. CASE size = 0 \/ slide = 0
  BY <1>1 DEF AssignSliding, GridStep
<1>2. CASE size > 0 /\ slide > 0
  <2>1. \A s \in starts : s \in Int /\ e.ts < s + size
    <3>1. e.ts - size + slide \in Int
      BY DEF Event
    <3>2. TruncDiv(e.ts - size + slide, slide) \in Int
      BY <1>2, <3>1 DEF TruncDiv
    <3>3. TruncDiv(e.ts - size + slide, slide) * slide \in Int
      BY <3>2
    <3>4. QED
      BY <3>3 DEF SlidingStarts
  <2>2. AssignSliding(ws, e, size, slide) =
          {IF w.start \in starts THEN WithEvent(w, e) ELSE w : w \in ws}
          \cup {OpenedBy(e, s, s + size) : s \in starts \ open}
    BY <1>2 DEF AssignSliding
  <2> HIDE DEF starts, open
  <2>3. ASSUME NEW x \in AssignSliding(ws, e, size, slide)
        PROVE  /\ x \in Window
               /\ \/ \E v \in ws : x.start = v.start /\ x.end = v.end
                  \/ x.end = x.start + size /\ x.end > e.ts
    <3>1. CASE \E w \in ws : x = (IF w.start \in starts THEN WithEvent(w, e) ELSE w)
      <4>1. PICK w \in ws : x = (IF w.start \in starts THEN WithEvent(w, e) ELSE w)
        BY <3>1
      <4>2. w \in Window /\ (x = w \/ x = WithEvent(w, e))
        BY <4>1
      <4>3. QED
        BY <4>1, <4>2, WithEventType
    <3>2. CASE \E s \in starts \ open : x = OpenedBy(e, s, s + size)
      <4>1. PICK s \in starts \ open : x = OpenedBy(e, s, s + size)
        BY <3>2
      <4>2. s \in Int /\ s + size \in Int /\ e.ts < s + size /\ e.ts \in Nat
        BY <2>1, <4>1 DEF Event
      <4>3. x \in Window /\ x.start = s /\ x.end = s + size
        BY <4>1, <4>2, OpenedByType
      <4>4. QED
        BY <4>2, <4>3
    <3>3. QED
      BY <2>2, <3>1, <3>2
  <2>4. QED
    BY <2>3 DEF GridStep
<1>3. QED
  BY <1>1, <1>2

\* A session either is one of ws, or now ends a gap after the event.
LEMMA AssignSessionEnds ==
  ASSUME NEW ws \in SUBSET Window, NEW e \in Event, NEW gap \in Nat
  PROVE  /\ AssignSession(ws, e, gap) \subseteq Window
         /\ \A w \in AssignSession(ws, e, gap) : w \in ws \/ w.end = e.ts + gap
<1> DEFINE hits == {w \in ws : Continues(w, e, gap)}
           host == FirstOf(hits)
           longer == [host EXCEPT !.end = e.ts + gap]
<1>1. e.ts \in Int /\ e.ts + gap \in Int
  BY DEF Event
<1>2. CASE hits = {}
  <2>1. /\ OpenedBy(e, e.ts, e.ts + gap) \in Window
        /\ OpenedBy(e, e.ts, e.ts + gap).end = e.ts + gap
    BY <1>1, OpenedByType
  <2>2. AssignSession(ws, e, gap) = ws \cup {OpenedBy(e, e.ts, e.ts + gap)}
    BY <1>2 DEF AssignSession
  <2>3. QED
    BY <2>1, <2>2
<1>3. CASE hits # {}
  <2>1. host \in ws /\ host \in Window
    <3> HIDE DEF hits
    <3>1. hits \subseteq ws
      BY DEF hits
    <3>2. QED
      BY <1>3, <3>1, FirstOfIn
  <2>2. longer \in Window /\ longer.end = e.ts + gap
    <3> HIDE DEF host
    <3>1. QED
      BY <1>1, <2>1 DEF Window
  <2>3. WithEvent(longer, e) \in Window /\ WithEvent(longer, e).end = e.ts + gap
    <3> HIDE DEF longer
    <3>1. QED
      BY <2>2, WithEventType
  <2>4. AssignSession(ws, e, gap) = (ws \ {host}) \cup {WithEvent(longer, e)}
    BY <1>3 DEF AssignSession
  <2> HIDE DEF host, longer
  <2>5. QED
    BY <2>3, <2>4
<1>4. QED
  BY <1>2, <1>3

\* With at most one window, and that one not full, a count window is filled or
\* opened and remains the only one.
Alone(ws) == \A v, w \in ws : v = w

LEMMA AssignCountFills ==
  ASSUME NEW ws \in SUBSET Window, NEW e \in Event, NEW size \in Nat,
         Alone(ws), \A w \in ws : EventCount(w) < size
  PROVE  /\ AssignCount(ws, e, size) \subseteq Window
         /\ Alone(AssignCount(ws, e, size))
         /\ size > 0 => \A w \in AssignCount(ws, e, size) : EventCount(w) <= size
<1> DEFINE last == LastOf(ws)
           moved == [last EXCEPT !.end = e.ts]
<1>1. e.ts \in Int
  BY DEF Event
<1>2. CASE ws = {}
  <2>1. /\ OpenedBy(e, e.ts, e.ts) \in Window
        /\ EventCount(OpenedBy(e, e.ts, e.ts)) = 1
    BY <1>1, OpenedByType
  <2>2. AssignCount(ws, e, size) = {OpenedBy(e, e.ts, e.ts)}
    BY <1>2 DEF AssignCount
  <2>3. QED
    BY <2>1, <2>2 DEF Alone
<1>3. CASE ws # {}
  <2>1. PICK w \in ws : ws = {w}
    BY <1>3 DEF Alone
  <2>2. last = w /\ w \in Window
    <3>1. w.opener >= w.opener
      BY <2>1 DEF Window
    <3>2. QED
      BY <2>1, <3>1 DEF LastOf
  <2> HIDE DEF last
  <2>3. moved \in Window /\ EventCount(moved) = EventCount(w)
    BY <1>1, <2>2 DEF Window, EventCount
  <2>4. WithEvent(moved, e) \in Window /\ EventCount(WithEvent(moved, e)) = EventCount(w) + 1
    <3> HIDE DEF moved
    <3>1. QED
      BY <2>3, WithEventType
  <2>5. EventCount(last) < size
    BY <2>1, <2>2
  <2>6. AssignCount(ws, e, size) = (ws \ {last}) \cup {WithEvent(moved, e)}
    BY <1>3, <2>5 DEF AssignCount, last
  <2>7. AssignCount(ws, e, size) = {WithEvent(moved, e)}
    BY <2>1, <2>2, <2>6
  <2>8. EventCount(w) \in Nat
    BY <2>2 DEF EventCount, Window
  <2>9. EventCount(w) < size
    BY <2>1
  <2> HIDE DEF moved
  <2>10. Alone({WithEvent(moved, e)})
    BY DEF Alone
  <2>11. EventCount(WithEvent(moved, e)) <= size
    BY <2>4, <2>8, <2>9
  <2>12. QED
    BY <2>4, <2>7, <2>10, <2>11
<1>4. QED
  BY <1>2, <1>3

\* A grid strategy of size 0 assigns to no window.
LEMMA AssignNothing ==
  ASSUME NEW s, NEW ws, NEW e, OnGrid(s), s.size = 0
  PROVE  Assign(s, ws, e) = ws
BY DEF OnGrid, Assign, AssignTumbling, AssignSliding

\* Assign for any strategy but a count.
LEMMA AssignTime ==
  ASSUME NEW s \in Strategies, NEW ws \in SUBSET Window, NEW e \in Event, s.kind # "count"
  PROVE  /\ Assign(s, ws, e) \subseteq Window
         /\ OnGrid(s) => GridStep(ws, Assign(s, ws, e), e.ts, s.size)
         /\ s.kind = "session" =>
              \A w \in Assign(s, ws, e) : w \in ws \/ w.end = e.ts + s.size
<1>1. CASE s.kind = "tumbling"
  <2>1. Assign(s, ws, e) = AssignTumbling(ws, e, s.size)
    BY <1>1 DEF Assign
  <2>2. QED
    BY <1>1, <2>1, StrategiesAssumption, AssignTumblingGrid
<1>2. CASE s.kind = "sliding"
  <2>1. Assign(s, ws, e) = AssignSliding(ws, e, s.size, s.slide)
    BY <1>2 DEF Assign
  <2>2. /\ AssignSliding(ws, e, s.size, s.slide) \subseteq Window
        /\ GridStep(ws, AssignSliding(ws, e, s.size, s.slide), e.ts, s.size)
    BY StrategiesAssumption, AssignSlidingGrid
  <2>3. QED
    BY <1>2, <2>1, <2>2
<1>3. CASE s.kind = "session"
  <2>1. Assign(s, ws, e) = AssignSession(ws, e, s.size)
    BY <1>3 DEF Assign
  <2>2. /\ AssignSession(ws, e, s.size) \subseteq Window
        /\ \A w \in AssignSession(ws, e, s.size) : w \in ws \/ w.end = e.ts + s.size
    BY StrategiesAssumption, AssignSessionEnds
  <2>3. ~OnGrid(s)
    BY <1>3 DEF OnGrid
  <2>4. QED
    BY <2>1, <2>2, <2>3
<1>4. QED
  BY <1>1, <1>2, <1>3, StrategiesAssumption

\* The fields of the strategy at hand.
LEMMA StrategyType ==
  ASSUME strategy \in Strategies
  PROVE  /\ strategy.kind \in {"tumbling", "sliding", "session", "count"}
         /\ strategy.size \in Nat
         /\ strategy.slide \in Nat
BY StrategiesAssumption

(***************************************************************************)
(* The inductive invariant                                                 *)
(***************************************************************************)

\* The event in hand is not before the watermark it moved.
HandLive == hand # << >> => Head(hand).ts >= watermark

\* Grid windows all have the size of the strategy.
GridIntervals ==
  OnGrid(strategy) =>
    \A w \in windows \cup saved \cup closed : w.end = w.start + strategy.size

\* A strategy of size 0 opens no grid window.
NoEmptyGrid == OnGrid(strategy) /\ strategy.size = 0 => windows = {} /\ saved = {}

\* The windows of a checkpoint end after the epoch a resumed watermark starts at.
SavedLive ==
  strategy.kind # "count" /\ strategy.size > 0 => \A w \in saved : w.end > Epoch

\* Until a restart, a closed window lies behind the watermark.
ClosedBehind ==
  resumes = 0 /\ strategy.kind # "count" => \A c \in closed : c.end <= watermark

\* There is one count window at most, and while an event is in hand it has room.
CountInv ==
  strategy.kind = "count" =>
    /\ Alone(windows)
    /\ Alone(saved)
    /\ hand # << >> => \A w \in windows : EventCount(w) < strategy.size
    /\ strategy.size > 0 =>
         /\ \A w \in windows \cup saved : EventCount(w) <= strategy.size
         /\ \A c \in closed : EventCount(c) = strategy.size

IInv ==
  /\ TypeOK
  /\ HandLive
  /\ GridIntervals
  /\ NoEmptyGrid
  /\ OpenWindowsLive
  /\ SavedLive
  /\ ClosedBehind
  /\ CountInv

\* One lemma per action, for the inductive invariant.
LEMMA InitIInv == Init => IInv
<1> SUFFICES ASSUME Init PROVE IInv
  OBVIOUS
<1>1. TypeOK
  BY DEF Init, TypeOK, Epoch
<1>2. QED
  BY <1>1 DEF Init, IInv, HandLive, GridIntervals, NoEmptyGrid, OpenWindowsLive, SavedLive,
              ClosedBehind, CountInv, Alone

LEMMA ObserveIInv ==
  ASSUME IInv, NEW entity \in Entities, NEW ts \in Times, Observe(entity, ts)
  PROVE  IInv'
<1> DEFINE e == [id |-> received + 1, entity |-> entity, ts |-> ts]
<1>1. TypeOK /\ received + 1 \in Nat /\ ts \in Nat /\ e \in Event /\ e.ts = ts
  BY TimesAssumption DEF IInv, TypeOK, Event
<1>t. /\ strategy.kind \in {"tumbling", "sliding", "session", "count"} /\ strategy.size \in Nat
      /\ strategy' = strategy
  BY StrategyType DEF IInv, TypeOK, Observe
<1>2. CASE DropLate(e)
  <2>1. /\ received' = received + 1 /\ late' = late + 1
        /\ UNCHANGED <<strategy, watermark, windows, hand, saved, horizon, resumes, accepted, closed>>
    BY <1>2 DEF Observe, DropLate
  <2>2. TypeOK'
    BY <1>1, <2>1 DEF TypeOK
  <2>3. QED
    BY <2>1, <2>2 DEF IInv, HandLive, GridIntervals, NoEmptyGrid, OpenWindowsLive, SavedLive,
                      ClosedBehind, CountInv
<1>3. CASE Accept(e)
  <2> DEFINE expired == Expired(strategy, windows, watermark')
  <2>1. /\ received' = received + 1
        /\ UNCHANGED <<strategy, late, saved, horizon, resumes>>
        /\ ts >= watermark
        /\ watermark' = Advanced(ts, watermark, MaxLateness)
        /\ windows' = windows \ expired
        /\ closed' = closed \cup expired
        /\ hand' = <<e>>
        /\ accepted' = Append(accepted, e)
    BY <1>1, <1>3 DEF Observe, Accept, IsLate, TypeOK
  <2>2. watermark' \in Nat /\ watermark' >= watermark /\ ts >= watermark'
    BY <1>1, <2>1, LatenessAssumption DEF Advanced, Later, TypeOK
  <2>3. expired \subseteq windows
    BY DEF Expired
  <2>4. TypeOK'
    <3>1. accepted' \in Seq(Event) /\ accepted' # << >> /\ accepted'[Len(accepted')] = e
      BY <1>1, <2>1 DEF TypeOK
    <3> HIDE DEF e, expired
    <3>2. QED
      BY <1>1, <2>1, <2>2, <2>3, <3>1 DEF TypeOK
  <2>5. HandLive'
    BY <1>1, <2>1, <2>2 DEF HandLive
  <2>6. GridIntervals'
    BY <2>1, <2>3 DEF IInv, GridIntervals
  <2>7. OpenWindowsLive'
    <3> SUFFICES ASSUME strategy.kind # "count", NEW w \in windows'
                 PROVE  w.end > watermark'
      BY <2>1 DEF OpenWindowsLive
    <3>1. w \in Window /\ ~(w.end <= watermark')
      BY <1>1, <2>1 DEF TypeOK, Expired, HasExpired
    <3>2. QED
      BY <2>2, <3>1 DEF Window
  <2>8. SavedLive'
    BY <2>1 DEF IInv, SavedLive
  <2>9. ClosedBehind'
    <3> SUFFICES ASSUME resumes = 0, strategy.kind # "count", NEW c \in closed'
                 PROVE  c.end <= watermark'
      BY <2>1 DEF ClosedBehind
    <3>1. CASE c \in closed
      <4>1. c.end <= watermark /\ c.end \in Int
        BY <1>1, <3>1 DEF IInv, ClosedBehind, TypeOK, Window
      <4>2. QED
        BY <1>1, <2>2, <4>1 DEF TypeOK
    <3>2. CASE c \in expired
      BY <3>2 DEF Expired, HasExpired
    <3>3. QED
      BY <2>1, <3>1, <3>2
  <2>10. CountInv'
    <3> SUFFICES ASSUME strategy.kind = "count"
                 PROVE  CountInv'
      BY <2>1 DEF CountInv
    <3>1. \A w \in windows : EventCount(w) \in Nat
      BY <1>1 DEF TypeOK, Window, EventCount
    <3>2. /\ \A w \in windows' : w \in windows /\ EventCount(w) < strategy.size
          /\ \A c \in closed' : c \in closed \/ (c \in windows /\ EventCount(c) >= strategy.size)
      BY <2>1, <3>1, <1>t DEF Expired, HasExpired
    <3>3. QED
      BY <2>1, <3>1, <3>2, <1>t DEF IInv, CountInv, Alone
  <2>11. NoEmptyGrid'
    BY <2>1 DEF IInv, NoEmptyGrid
  <2>12. QED
    BY <2>11, <2>4, <2>5, <2>6, <2>7, <2>8, <2>9, <2>10 DEF IInv
<1>4. QED
  BY <1>2, <1>3 DEF Observe

LEMMA SettleIInv ==
  ASSUME IInv, Settle
  PROVE  IInv'
<1> DEFINE e == Head(hand)
<1>1. /\ TypeOK
      /\ hand # << >> /\ hand' = << >>
      /\ windows' = Assign(strategy, windows, e)
      /\ UNCHANGED <<strategy, received, watermark, late, saved, horizon, resumes, accepted, closed>>
  BY DEF IInv, Settle
<1>t. strategy \in Strategies /\ strategy.kind \in {"tumbling", "sliding", "session", "count"}
      /\ strategy.size \in Nat /\ strategy.slide \in Nat
  BY <1>1, StrategyType DEF TypeOK
<1>2. e \in Event /\ e.ts \in Nat /\ e.ts >= watermark
  <2>1. accepted # << >> /\ e = accepted[Len(accepted)] /\ accepted \in Seq(Event)
    BY <1>1 DEF TypeOK
  <2>2. e \in Event
    BY <2>1
  <2>3. QED
    BY <1>1, <2>2 DEF IInv, HandLive, Event
<1> HIDE DEF e
<1>3. CASE strategy.kind # "count"
  <2>1. /\ windows' \subseteq Window
        /\ OnGrid(strategy) => GridStep(windows, windows', e.ts, strategy.size)
        /\ strategy.kind = "session" =>
             \A w \in windows' : w \in windows \/ w.end = e.ts + strategy.size
    BY <1>1, <1>2, <1>3, <1>t, AssignTime DEF TypeOK
  <2>2. TypeOK'
    BY <1>1, <2>1 DEF TypeOK
  <2>3. GridIntervals'
    BY <1>1, <2>1 DEF IInv, GridIntervals, GridStep
  <2>4. OpenWindowsLive'
    <3> SUFFICES ASSUME strategy.size > 0, NEW w \in windows'
                 PROVE  w.end > watermark
      BY <1>1 DEF OpenWindowsLive
    <3>1. \A v \in windows : v.end > watermark
      BY <1>3 DEF IInv, OpenWindowsLive
    <3>2. w.end \in Int /\ watermark \in Nat
      BY <1>1, <2>1 DEF TypeOK, Window
    <3>3. CASE OnGrid(strategy)
      <4>1. (\E v \in windows : w.end = v.end) \/ w.end > e.ts
        BY <2>1, <3>3 DEF GridStep
      <4>2. QED
        BY <1>2, <3>1, <3>2, <4>1
    <3>4. CASE strategy.kind = "session"
      BY <1>2, <2>1, <3>1, <3>2, <3>4, <1>t
    <3>5. QED
      BY <1>3, <3>3, <3>4, <1>t DEF OnGrid
  <2>5. NoEmptyGrid'
    BY <1>1, AssignNothing DEF IInv, NoEmptyGrid
  <2>6. QED
    BY <1>1, <1>3, <2>2, <2>3, <2>4, <2>5
       DEF IInv, HandLive, NoEmptyGrid, SavedLive, ClosedBehind, CountInv
<1>4. CASE strategy.kind = "count"
  <2>1. /\ windows' \subseteq Window
        /\ Alone(windows')
        /\ strategy.size > 0 => \A w \in windows' : EventCount(w) <= strategy.size
    <3>1. Alone(windows) /\ \A w \in windows : EventCount(w) < strategy.size
      BY <1>1, <1>4 DEF IInv, CountInv
    <3>2. windows \in SUBSET Window /\ windows' = AssignCount(windows, e, strategy.size)
      BY <1>1, <1>4 DEF TypeOK, Assign
    <3>3. QED
      BY <1>2, <3>1, <3>2, <1>t, AssignCountFills
  <2>2. TypeOK'
    BY <1>1, <2>1 DEF TypeOK
  <2>3. CountInv'
    BY <1>1, <1>4, <2>1 DEF IInv, CountInv, Alone
  <2>4. QED
    BY <1>1, <1>4, <2>2, <2>3
       DEF IInv, HandLive, GridIntervals, NoEmptyGrid, OpenWindowsLive, SavedLive, ClosedBehind, OnGrid
<1>5. QED
  BY <1>3, <1>4

LEMMA CheckpointIInv ==
  ASSUME IInv, Checkpoint
  PROVE  IInv'
<1>1. TypeOK' /\ HandLive' /\ OpenWindowsLive' /\ ClosedBehind'
  BY DEF IInv, Checkpoint, TypeOK, HandLive, OpenWindowsLive, ClosedBehind
<1>2. GridIntervals' /\ NoEmptyGrid' /\ CountInv'
  BY DEF IInv, Checkpoint, GridIntervals, NoEmptyGrid, CountInv
<1>3. SavedLive'
  <2> SUFFICES ASSUME strategy.kind # "count", strategy.size > 0, NEW w \in windows
               PROVE  w.end > Epoch
    BY DEF SavedLive, Checkpoint
  <2>1. w.end > watermark /\ w.end \in Int /\ watermark \in Nat
    BY DEF IInv, OpenWindowsLive, TypeOK, Window
  <2>2. QED
    BY <2>1 DEF Epoch
<1>4. QED
  BY <1>1, <1>2, <1>3 DEF IInv

LEMMA ResumeIInv ==
  ASSUME IInv, Resume
  PROVE  IInv'
<1>1. TypeOK'
  BY DEF IInv, Resume, TypeOK, Epoch
<1>2. HandLive' /\ GridIntervals' /\ NoEmptyGrid' /\ SavedLive' /\ CountInv'
  BY DEF IInv, Resume, HandLive, GridIntervals, NoEmptyGrid, SavedLive, CountInv
<1>3. OpenWindowsLive'
  BY DEF IInv, Resume, OpenWindowsLive, SavedLive
<1>4. ClosedBehind'
  BY DEF IInv, Resume, ClosedBehind, TypeOK
<1>5. QED
  BY <1>1, <1>2, <1>3, <1>4 DEF IInv

\* Every step keeps it.
LEMMA NextIInv == IInv /\ [Next]_vars => IInv'
<1> SUFFICES ASSUME IInv, [Next]_vars PROVE IInv'
  OBVIOUS
<1>1. CASE \E entity \in Entities, ts \in Times : Observe(entity, ts)
  BY <1>1, ObserveIInv
<1>2. CASE Settle
  BY <1>2, SettleIInv
<1>3. CASE Checkpoint
  BY <1>3, CheckpointIInv
<1>4. CASE Resume
  BY <1>4, ResumeIInv
<1>5. CASE UNCHANGED vars
  BY <1>5 DEF vars, IInv, TypeOK, HandLive, GridIntervals, NoEmptyGrid, OpenWindowsLive, SavedLive,
              ClosedBehind, CountInv
<1>6. QED
  BY <1>1, <1>2, <1>3, <1>4, <1>5 DEF Next

\* The window and watermark invariants hold in every reachable state.
THEOREM EventTimeInvariant == Spec => []IInv
BY InitIInv, NextIInv, PTL DEF Spec

\* Type correctness of the windows, the watermark and the checkpoint.
THEOREM TypeCorrect == Spec => []TypeOK
<1>1. IInv => TypeOK
  BY DEF IInv
<1>2. QED
  BY <1>1, EventTimeInvariant, PTL

\* No open time window is left behind the watermark, whatever the strategy's size,
\* the lateness and the order of the timestamps.
THEOREM OpenWindowsStayLive == Spec => []OpenWindowsLive
<1>1. IInv => OpenWindowsLive
  BY DEF IInv
<1>2. QED
  BY <1>1, EventTimeInvariant, PTL

\* The start of a closed window lies too far behind the watermark to open again.
LEMMA ReopensNot == IInv => NoReopen
<1> SUFFICES ASSUME IInv, OnGrid(strategy), resumes = 0,
                    NEW w \in windows, NEW c \in closed, w.start = c.start
             PROVE  FALSE
  BY DEF NoReopen
<1>1. strategy.kind # "count" /\ strategy.size \in Nat
  BY StrategyType DEF OnGrid, IInv, TypeOK
<1>2. w \in Window /\ c \in Window /\ watermark \in Nat
  BY DEF IInv, TypeOK
<1>3. w.end = c.end
  BY DEF IInv, GridIntervals
<1>4. c.end <= watermark
  BY <1>1 DEF IInv, ClosedBehind
<1>5. CASE strategy.size > 0
  <2>1. w.end > watermark
    BY <1>1, <1>5 DEF IInv, OpenWindowsLive
  <2>2. QED
    BY <1>2, <1>3, <1>4, <2>1 DEF Window
<1>6. CASE strategy.size = 0
  BY <1>6 DEF IInv, NoEmptyGrid
<1>7. QED
  BY <1>1, <1>5, <1>6

\* A grid window flushes the operators once in a run, for any stream.
THEOREM ClosedWindowsStayClosed == Spec => []NoReopen
BY ReopensNot, EventTimeInvariant, PTL

\* Count windows close full, one at a time, for every size and after any restart.
THEOREM CountWindowsCloseFull == Spec => []CountWindowsFill
<1>1. IInv => CountWindowsFill
  <2> SUFFICES ASSUME IInv, strategy.kind = "count", strategy.size > 0
               PROVE  Cardinality(windows) <= 1 /\ \A c \in closed : EventCount(c) = strategy.size
    BY DEF CountWindowsFill
  <2>1. Alone(windows)
    BY DEF IInv, CountInv
  <2>2. \A c \in closed : EventCount(c) = strategy.size
    BY DEF IInv, CountInv
  <2>3. CASE windows = {}
    <3>1. Cardinality(windows) = 0
      BY <2>3, FS_EmptySet
    <3>2. QED
      BY <2>2, <3>1
  <2>4. CASE windows # {}
    <3>1. PICK w \in windows : windows = {w}
      BY <2>1, <2>4 DEF Alone
    <3>2. Cardinality({w}) = 1
      BY FS_Singleton
    <3>3. QED
      BY <2>2, <3>1, <3>2
  <2>5. QED
    BY <2>3, <2>4
<1>2. QED
  BY <1>1, EventTimeInvariant, PTL

(***************************************************************************)
(* The watermark against the history of the run                            *)
(***************************************************************************)

\* For every lateness and any order of timestamps, the watermark is the newest
\* kept event less the lateness, and nothing older than that is kept.
THEOREM WatermarkCorrect == Spec => [](WatermarkTrails /\ NoStragglerAccepted)
<1>1. Init => WatermarkTrails /\ NoStragglerAccepted
  BY DEF Init, WatermarkTrails, NoStragglerAccepted
<1>2. /\ WatermarkTrails /\ NoStragglerAccepted /\ TypeOK /\ TypeOK' /\ [Next]_vars
      => (WatermarkTrails /\ NoStragglerAccepted)'
  <2> SUFFICES ASSUME WatermarkTrails, NoStragglerAccepted, TypeOK, TypeOK', [Next]_vars
               PROVE  (WatermarkTrails /\ NoStragglerAccepted)'
    OBVIOUS
  <2>1. ASSUME NEW entity \in Entities, NEW ts \in Times, Observe(entity, ts)
        PROVE  (WatermarkTrails /\ NoStragglerAccepted)'
    <3> DEFINE e == [id |-> received + 1, entity |-> entity, ts |-> ts]
               n == Len(accepted)
    <3>1. CASE DropLate(e)
      BY <2>1, <3>1 DEF Observe, DropLate, WatermarkTrails, NoStragglerAccepted
    <3>2. CASE Accept(e)
      <4>1. /\ ts \in Nat /\ ts >= watermark /\ watermark \in Nat /\ MaxLateness \in Nat
            /\ watermark' = Advanced(ts, watermark, MaxLateness)
            /\ accepted' = Append(accepted, e)
            /\ resumes' = resumes
        BY <2>1, <3>2, TimesAssumption, LatenessAssumption DEF Observe, Accept, IsLate, TypeOK
      <4>2. /\ n \in Nat /\ DOMAIN accepted = 1 .. n
            /\ DOMAIN accepted' = 1 .. n + 1
            /\ \A i \in 1 .. n : accepted'[i] = accepted[i] /\ accepted[i].ts \in Nat
            /\ accepted'[n + 1].ts = ts
        <5>1. accepted \in Seq(Event) /\ e \in Event
          BY <4>1 DEF TypeOK, Event
        <5>2. /\ n \in Nat /\ DOMAIN accepted = 1 .. n
              /\ DOMAIN accepted' = 1 .. n + 1
              /\ \A i \in 1 .. n : accepted'[i] = accepted[i] /\ accepted[i] \in Event
              /\ accepted'[n + 1] = e
          <6> HIDE DEF e
          <6>1. QED
            BY <4>1, <5>1
        <5>3. QED
          BY <5>2 DEF Event
      <4> HIDE DEF n
      <4>3. WatermarkTrails'
        <5> SUFFICES ASSUME resumes = 0
                     PROVE  /\ \A i \in DOMAIN accepted' : watermark' >= accepted'[i].ts - MaxLateness
                            /\ \/ watermark' = Epoch
                               \/ \E i \in DOMAIN accepted' : watermark' = accepted'[i].ts - MaxLateness
          BY <4>1 DEF WatermarkTrails
        <5>1. /\ watermark' >= watermark /\ watermark' >= ts - MaxLateness
              /\ watermark' = watermark \/ watermark' = ts - MaxLateness
              /\ watermark' \in Int
          BY <4>1 DEF Advanced, Later
        <5>2. /\ \A i \in 1 .. n : watermark >= accepted[i].ts - MaxLateness
              /\ \/ watermark = Epoch
                 \/ \E i \in 1 .. n : watermark = accepted[i].ts - MaxLateness
          BY <4>2 DEF WatermarkTrails
        <5>3. ASSUME NEW i \in 1 .. n + 1
              PROVE  watermark' >= accepted'[i].ts - MaxLateness
          <6>1. CASE i \in 1 .. n
            BY <4>1, <4>2, <5>1, <5>2, <6>1
          <6>2. CASE i = n + 1
            BY <4>2, <5>1, <6>2
          <6>3. QED
            BY <4>2, <6>1, <6>2
        <5>4. CASE watermark' = ts - MaxLateness
          BY <4>2, <5>3, <5>4
        <5>5. CASE watermark' = watermark
          <6>1. \/ watermark' = Epoch
                \/ \E i \in 1 .. n + 1 : watermark' = accepted'[i].ts - MaxLateness
            BY <4>2, <5>2, <5>5
          <6>2. QED
            BY <4>2, <5>3, <6>1
        <5>6. QED
          BY <5>1, <5>4, <5>5
      <4>4. NoStragglerAccepted'
        <5> SUFFICES ASSUME resumes = 0, NEW i \in 1 .. n + 1, NEW j \in 1 .. n + 1, i < j
                     PROVE  accepted'[j].ts >= accepted'[i].ts - MaxLateness
          BY <4>1, <4>2 DEF NoStragglerAccepted
        <5>1. i \in 1 .. n
          BY <4>2
        <5>2. CASE j \in 1 .. n
          BY <4>2, <5>1, <5>2 DEF NoStragglerAccepted
        <5>3. CASE j = n + 1
          <6>1. watermark >= accepted[i].ts - MaxLateness
            BY <4>2, <5>1 DEF WatermarkTrails
          <6>2. QED
            BY <4>1, <4>2, <5>1, <5>3, <6>1
        <5>4. QED
          BY <4>2, <5>2, <5>3
      <4>5. QED
        BY <4>3, <4>4
    <3>3. QED
      BY <2>1, <3>1, <3>2 DEF Observe
  <2>2. CASE Settle \/ Checkpoint
    BY <2>2 DEF Settle, Checkpoint, WatermarkTrails, NoStragglerAccepted
  <2>3. CASE Resume
    BY <2>3 DEF Resume, TypeOK, WatermarkTrails, NoStragglerAccepted
  <2>4. CASE UNCHANGED vars
    BY <2>4 DEF vars, WatermarkTrails, NoStragglerAccepted
  <2>5. QED
    BY <2>1, <2>2, <2>3, <2>4 DEF Next
<1>3. QED
  BY <1>1, <1>2, TypeCorrect, PTL DEF Spec

\* Each half of it by itself, as Watermark::advance promises it.
THEOREM WatermarkTrailsNewest == Spec => []WatermarkTrails
BY WatermarkCorrect, PTL

\* No event further behind an earlier one than the lateness is ever kept.
THEOREM StragglersAreDropped == Spec => []NoStragglerAccepted
BY WatermarkCorrect, PTL

(***************************************************************************)
(* The grid intervals around a timestamp                                   *)
(***************************************************************************)

\* No timestamp is nearer to the epoch than a sliding window is wide: there the
\* division of the code rounds the first start up, past intervals that hold it.
PastTheEpoch ==
  \A st \in Strategies, t \in Times : st.kind = "sliding" => t >= st.size

\* The multiples of step whose interval of the given size contains ts.
Around(ts, step, size) == {s \in {k * step : k \in 0 .. ts} : s <= ts /\ ts < s + size}

\* The interval a tumbling window is opened for is the only one around ts.
LEMMA TumblingAround ==
  ASSUME NEW ts \in Nat, NEW size \in Nat
  PROVE  Around(ts, size, size) = IF size = 0 THEN {} ELSE {TumblingStart(ts, size)}
<1>1. CASE size = 0
  <2>1. \A k \in 0 .. ts : k * size = 0
    BY <1>1
  <2>2. QED
    BY <1>1, <2>1 DEF Around
<1>2. CASE size # 0
  <2>1. PICK q \in Nat : q = ts \div size
    BY <1>2, DivBounds
  <2>2. q * size \in Nat /\ q * size <= ts /\ ts < q * size + size
    BY <1>2, <2>1, DivBounds
  <2>3. TumblingStart(ts, size) = q * size
    BY <2>1 DEF TumblingStart, TruncDiv
  <2>4. q <= ts
    <3>1. q <= q * size
      BY <1>2
    <3>2. QED
      BY <2>2, <3>1
  <2>5. ASSUME NEW k \in 0 .. ts, k * size <= ts, ts < k * size + size
        PROVE  k = q
    <3>1. q \in Int /\ k \in Int /\ size \in Nat /\ ts \in Int
      OBVIOUS
    <3>2. QED
      BY <2>2, <2>5, <3>1, OneInterval
  <2>6. q \in 0 .. ts
    BY <2>4
  <2>7. Around(ts, size, size) = {q * size}
    BY <2>2, <2>5, <2>6 DEF Around
  <2>8. QED
    BY <1>2, <2>3, <2>7
<1>3. QED
  BY <1>1, <1>2

\* The starts the sliding loop visits are all of them, past the epoch.
LEMMA SlidingAround ==
  ASSUME NEW ts \in Nat, NEW size \in Nat \ {0}, NEW slide \in Nat \ {0}, ts >= size
  PROVE  SlidingStarts(ts, size, slide) = Around(ts, slide, size)
<1> DEFINE top == ts - size + slide
<1>1. PICK q \in Nat : q = top \div slide
  BY DivBounds
<1>2. q * slide \in Nat /\ q * slide <= top /\ top < q * slide + slide
  BY <1>1, DivBounds
<1>3. TruncDiv(ts - size + slide, slide) = q
  BY <1>1 DEF TruncDiv
<1> DEFINE first == q * slide
           count == TruncDiv(ts - first, slide)
<1>4. SlidingStarts(ts, size, slide) =
        {s \in {first + k * slide : k \in 0 .. count} : s <= ts /\ ts < s + size}
  BY <1>3 DEF SlidingStarts
<1>5. ASSUME NEW k \in 0 .. count, first + k * slide <= ts
      PROVE  q + k \in 0 .. ts /\ (q + k) * slide = first + k * slide
  <2>1. k \in Nat
    OBVIOUS
  <2>2. (q + k) * slide = first + k * slide /\ q + k <= (q + k) * slide
    BY <2>1
  <2>3. q + k \in Nat /\ first + k * slide \in Int
    BY <2>1
  <2>4. q + k <= ts
    BY <1>5, <2>2, <2>3
  <2>5. QED
    BY <2>2, <2>3, <2>4
<1>6. ASSUME NEW j \in 0 .. ts, j * slide <= ts, ts < j * slide + size
      PROVE  j - q \in 0 .. count /\ first + (j - q) * slide = j * slide
  <2>1. \A x, y \in Int : x < y => x * slide + slide <= y * slide
    OBVIOUS
  <2>2. j * slide \in Nat /\ j \in Nat
    OBVIOUS
  <2>3. ~(j < q)
    BY <1>2, <1>6, <2>1, <2>2
  <2>4. first + (j - q) * slide = j * slide
    OBVIOUS
  <2>5. PICK k \in Nat : k = j - q
    BY <2>2, <2>3
  <2>6. k * slide <= ts - first /\ ts - first \in Nat
    <3>1. k * slide \in Nat /\ first + k * slide = j * slide
      BY <2>4, <2>5
    <3>2. QED
      BY <1>2, <1>6, <2>2, <3>1
  <2>7. count = (ts - first) \div slide
    BY <2>6 DEF TruncDiv
  <2>8. k <= count
    BY <2>6, <2>7, DivFits
  <2>9. count \in Int
    BY <2>6, <2>7, DivBounds
  <2>10. QED
    BY <2>4, <2>5, <2>8, <2>9
<1>7. ASSUME NEW s
      PROVE  s \in SlidingStarts(ts, size, slide) <=> s \in Around(ts, slide, size)
  <2>1. ASSUME s \in SlidingStarts(ts, size, slide)
        PROVE  s \in Around(ts, slide, size)
    <3>1. PICK k \in 0 .. count : s = first + k * slide /\ s <= ts /\ ts < s + size
      BY <1>4, <2>1
    <3>2. q + k \in 0 .. ts /\ (q + k) * slide = s
      BY <1>5, <3>1
    <3>3. QED
      BY <3>1, <3>2 DEF Around
  <2>2. ASSUME s \in Around(ts, slide, size)
        PROVE  s \in SlidingStarts(ts, size, slide)
    <3>1. PICK j \in 0 .. ts : s = j * slide /\ s <= ts /\ ts < s + size
      BY <2>2 DEF Around
    <3>2. j - q \in 0 .. count /\ first + (j - q) * slide = s
      BY <1>6, <3>1
    <3> HIDE DEF first, count
    <3>3. QED
      BY <1>4, <3>1, <3>2
  <2>3. QED
    BY <2>1, <2>2
<1>8. QED
  BY <1>7

\* A slide of 0 has no interval around a timestamp past the epoch.
LEMMA NoSlideAround ==
  ASSUME NEW ts \in Nat, NEW size \in Nat, ts >= size
  PROVE  Around(ts, 0, size) = {}
<1>1. \A k \in 0 .. ts : k * 0 = 0
  OBVIOUS
<1>2. QED
  BY <1>1 DEF Around

\* They are naturals up to ts, so there are finitely many.
LEMMA AroundFinite ==
  ASSUME NEW ts \in Nat, NEW step \in Nat, NEW size \in Nat
  PROVE  IsFiniteSet(Around(ts, step, size)) /\ Around(ts, step, size) \subseteq Nat
<1>1. \A k \in 0 .. ts : k * step \in Nat
  OBVIOUS
<1>2. Around(ts, step, size) \subseteq 0 .. ts
  BY <1>1 DEF Around
<1>3. IsFiniteSet(0 .. ts)
  BY FS_Interval
<1>4. IsFiniteSet(Around(ts, step, size))
  BY <1>2, <1>3, FS_Subset
<1>5. QED
  BY <1>2, <1>4

(***************************************************************************)
(* Which windows hold an event                                             *)
(***************************************************************************)

Homes(ws, e) == {w \in ws : Holds(w, e)}

StartsOf(ws) == {w.start : w \in ws}

\* No two windows start together.
Distinct(ws) == \A v, w \in ws : v.start = w.start => v = w

\* One window, and no other, holds the event.
OneHome(ws, e) == \E w \in ws : Homes(ws, e) = {w}

\* No window holds the event.
NotHeld(ws, e) == \A w \in ws : ~Holds(w, e)

\* From ws to ws2 windows came to hold e and no other event.
OnlyNew(ws, ws2, e) ==
  \A v \in ws2 : \A x : Holds(v, x) => x = e \/ \E w \in ws : Holds(w, x)

\* From ws to ws2 the other events keep their windows: their starts, or their one home.
KeepsStarts(ws, ws2, e) ==
  \A x : x # e => StartsOf(Homes(ws2, x)) = StartsOf(Homes(ws, x))

KeepsHomes(ws, ws2, e) == \A x : x # e /\ OneHome(ws, x) => OneHome(ws2, x)

\* A window that an event was added to holds that one too.
LEMMA HoldsGrown ==
  ASSUME NEW w \in Window, NEW e \in Event, NEW v, v.events = Append(w.events, e)
  PROVE  /\ Holds(v, e)
         /\ \A x : Holds(w, x) => Holds(v, x)
         /\ \A x : Holds(v, x) => Holds(w, x) \/ x = e
<1>1. PICK es \in Seq(Event) : es = w.events
  BY DEF Window
<1>2. PICK gs \in Seq(Event) : gs = Append(es, e)
  BY <1>1, AppendProperties
<1>3. /\ Len(es) \in Nat /\ DOMAIN es = 1 .. Len(es) /\ DOMAIN gs = 1 .. Len(es) + 1
      /\ \A k \in 1 .. Len(es) : gs[k] = es[k]
      /\ gs[Len(es) + 1] = e
  <2>1. /\ Len(gs) = Len(es) + 1 /\ \A k \in 1 .. Len(es) : gs[k] = es[k]
        /\ gs[Len(es) + 1] = e
    BY <1>2, AppendProperties
  <2>2. QED
    BY <2>1
<1>4. v.events = gs
  BY <1>1, <1>2
<1>5. \A k \in DOMAIN es : k \in DOMAIN gs /\ gs[k] = es[k]
  BY <1>3
<1>6. Len(es) + 1 \in DOMAIN gs
  BY <1>3
<1>7. \A k \in DOMAIN gs : (k \in DOMAIN es /\ gs[k] = es[k]) \/ gs[k] = e
  BY <1>3
<1>8. QED
  BY <1>1, <1>3, <1>4, <1>5, <1>6, <1>7, Zenon DEF Holds

LEMMA HoldsFirst ==
  ASSUME NEW e, NEW v, v.events = <<e>>
  PROVE  \A x : Holds(v, x) <=> x = e
<1>1. DOMAIN <<e>> = {1} /\ <<e>>[1] = e
  OBVIOUS
<1>2. QED
  BY <1>1 DEF Holds

\* Put e in the windows of ws with the given starts, opening those that are missing.
GridPut(ws, e, starts, size) ==
  {IF w.start \in starts THEN WithEvent(w, e) ELSE w : w \in ws}
  \cup {OpenedBy(e, s, s + size) : s \in starts \ StartsOf(ws)}

\* Which is what tumbling and sliding windows do.
LEMMA TumblingPut ==
  ASSUME NEW ws \in SUBSET Window, NEW e \in Event, NEW size \in Nat, Distinct(ws)
  PROVE  AssignTumbling(ws, e, size) = GridPut(ws, e, Around(e.ts, size, size), size)
<1> DEFINE start == TumblingStart(e.ts, size)
           found == {w \in ws : w.start = start}
           host  == FirstOf(found)
<1>0. e.ts \in Nat
  BY DEF Event
<1>1. CASE size = 0
  <2>1. Around(e.ts, size, size) = {}
    BY <1>0, <1>1, TumblingAround
  <2>2. AssignTumbling(ws, e, size) = ws
    BY <1>1 DEF AssignTumbling
  <2>3. QED
    BY <2>1, <2>2 DEF GridPut
<1>2. CASE size > 0
  <2>1. Around(e.ts, size, size) = {start}
    BY <1>0, <1>2, TumblingAround
  <2>2. AssignTumbling(ws, e, size) =
          IF found = {} THEN ws \cup {OpenedBy(e, start, start + size)}
                        ELSE (ws \ {host}) \cup {WithEvent(host, e)}
    BY <1>2 DEF AssignTumbling, AddAtStart
  <2> HIDE DEF start
  <2>3. CASE found = {}
    <3>1. {start} \ StartsOf(ws) = {start} /\ \A w \in ws : w.start \notin {start}
      BY <2>3 DEF StartsOf
    <3>2. QED
      BY <2>1, <2>2, <2>3, <3>1 DEF GridPut
  <2>4. CASE found # {}
    <3>1. host \in ws /\ host.start = start
      <4>1. found \in SUBSET Window
        OBVIOUS
      <4> HIDE DEF found
      <4>2. host \in found
        BY <2>4, <4>1, FirstOfIn
      <4>3. QED
        BY <4>2 DEF found
    <3>2. {start} \ StartsOf(ws) = {}
      BY <3>1 DEF StartsOf
    <3>3. \A w \in ws : w.start \in {start} <=> w = host
      BY <3>1 DEF Distinct
    <3> HIDE DEF host, found
    <3>4. GridPut(ws, e, {start}, size) = {IF w = host THEN WithEvent(w, e) ELSE w : w \in ws}
      BY <3>2, <3>3 DEF GridPut
    <3>5. QED
      BY <2>1, <2>2, <2>4, <3>1, <3>4
  <2>5. QED
    BY <2>3, <2>4
<1>3. QED
  BY <1>1, <1>2

LEMMA SlidingPut ==
  ASSUME NEW ws \in SUBSET Window, NEW e \in Event, NEW size \in Nat, NEW slide \in Nat,
         e.ts >= size
  PROVE  AssignSliding(ws, e, size, slide) = GridPut(ws, e, Around(e.ts, slide, size), size)
<1>0. e.ts \in Nat
  BY DEF Event
<1>1. CASE size = 0 \/ slide = 0
  <2>1. Around(e.ts, slide, size) = {}
    <3>1. CASE slide = 0
      BY <1>0, <3>1, NoSlideAround
    <3>2. CASE size = 0
      <4>1. \A k \in 0 .. e.ts : k * slide \in Int
        OBVIOUS
      <4>2. QED
        BY <1>0, <3>2, <4>1 DEF Around
    <3>3. QED
      BY <1>1, <3>1, <3>2
  <2>2. AssignSliding(ws, e, size, slide) = ws
    BY <1>1 DEF AssignSliding
  <2>3. QED
    BY <2>1, <2>2 DEF GridPut
<1>2. CASE size > 0 /\ slide > 0
  <2>1. SlidingStarts(e.ts, size, slide) = Around(e.ts, slide, size)
    BY <1>0, <1>2, SlidingAround
  <2>2. QED
    BY <1>2, <2>1 DEF AssignSliding, GridPut, StartsOf
<1>3. QED
  BY <1>1, <1>2

\* A strategy on a grid puts the event in the intervals around it.
LEMMA GridAssigns ==
  ASSUME NEW st \in Strategies, OnGrid(st), NEW ws \in SUBSET Window, Distinct(ws),
         NEW e \in Event, st.kind = "sliding" => e.ts >= st.size
  PROVE  Assign(st, ws, e) =
           GridPut(ws, e,
                   Around(e.ts, IF st.kind = "tumbling" THEN st.size ELSE st.slide, st.size),
                   st.size)
<1>1. st.size \in Nat /\ st.slide \in Nat
  BY StrategiesAssumption
<1>2. CASE st.kind = "tumbling"
  BY <1>1, <1>2, TumblingPut DEF Assign
<1>3. CASE st.kind = "sliding"
  <2>1. Assign(st, ws, e) = AssignSliding(ws, e, st.size, st.slide)
    BY <1>3 DEF Assign
  <2>2. QED
    BY <1>1, <1>3, <2>1, SlidingPut
<1>4. QED
  BY <1>2, <1>3 DEF OnGrid

\* A window once e was put in the grid is an old one, an old one e was added to, or new.
Stays(v, ws, starts) == v \in ws /\ v.start \notin starts
Grows(v, w, e) == v.start = w.start /\ v.events = Append(w.events, e) /\ v = WithEvent(w, e)
Opens(v, e, size) == v.events = <<e>> /\ v = OpenedBy(e, v.start, v.start + size)

GridCases(v, ws, e, starts, size) ==
  \/ Stays(v, ws, starts)
  \/ \E w \in ws : w.start \in starts /\ Grows(v, w, e)
  \/ v.start \in starts \ StartsOf(ws) /\ Opens(v, e, size)

\* Each window after it is of one of these kinds.
LEMMA GridPutCases ==
  ASSUME NEW ws \in SUBSET Window, NEW e \in Event, NEW starts \in SUBSET Nat, NEW size \in Nat,
         NEW v \in GridPut(ws, e, starts, size)
  PROVE  GridCases(v, ws, e, starts, size)
<1>1. CASE v \in {IF w.start \in starts THEN WithEvent(w, e) ELSE w : w \in ws}
  <2>1. PICK w \in ws : v = IF w.start \in starts THEN WithEvent(w, e) ELSE w
    BY <1>1
  <2>2. CASE w.start \in starts
    <3>1. v = WithEvent(w, e) /\ w \in Window
      BY <2>1, <2>2
    <3>2. v.start = w.start /\ v.events = Append(w.events, e)
      BY <3>1 DEF WithEvent, Window
    <3>3. QED
      BY <2>2, <3>1, <3>2 DEF GridCases, Grows
  <2>3. CASE w.start \notin starts
    BY <2>1, <2>3 DEF GridCases, Stays
  <2>4. QED
    BY <2>2, <2>3 DEF GridCases, Stays
<1>2. CASE v \in {OpenedBy(e, s, s + size) : s \in starts \ StartsOf(ws)}
  <2>1. PICK s \in starts \ StartsOf(ws) : v = OpenedBy(e, s, s + size)
    BY <1>2
  <2>2. v.start = s /\ v.events = <<e>>
    BY <2>1 DEF OpenedBy
  <2>3. QED
    BY <2>1, <2>2 DEF GridCases, Opens
<1>3. QED
  BY <1>1, <1>2 DEF GridPut

\* Nothing shares a start after it, nothing older is lost, and e is where it ought to be.
LEMMA GridPutHomes ==
  ASSUME NEW ws \in SUBSET Window, NEW e \in Event, NEW starts \in SUBSET Nat, NEW size \in Nat,
         Distinct(ws), NotHeld(ws, e)
  PROVE  /\ Distinct(GridPut(ws, e, starts, size))
         /\ StartsOf(Homes(GridPut(ws, e, starts, size), e)) = starts
         /\ KeepsStarts(ws, GridPut(ws, e, starts, size), e)
         /\ OnlyNew(ws, GridPut(ws, e, starts, size), e)
<1> DEFINE put == GridPut(ws, e, starts, size)
<1>1. ASSUME NEW v \in put
      PROVE  GridCases(v, ws, e, starts, size)
  BY GridPutCases
<1>2. ASSUME NEW w \in ws, w.start \in starts
      PROVE  \E v \in put : v.start = w.start /\ v.events = Append(w.events, e)
  <2>1. WithEvent(w, e) \in put
    BY <1>2 DEF GridPut
  <2>2. WithEvent(w, e).start = w.start /\ WithEvent(w, e).events = Append(w.events, e)
    BY DEF WithEvent, Window
  <2>3. QED
    BY <2>1, <2>2
<1>3. ASSUME NEW w \in ws, w.start \notin starts
      PROVE  w \in put
  BY <1>3 DEF GridPut
<1>4. ASSUME NEW s \in starts, s \notin StartsOf(ws)
      PROVE  \E v \in put : v.start = s /\ v.events = <<e>>
  <2>1. OpenedBy(e, s, s + size) \in put
    BY <1>4 DEF GridPut
  <2>2. OpenedBy(e, s, s + size).start = s /\ OpenedBy(e, s, s + size).events = <<e>>
    BY DEF OpenedBy
  <2>3. QED
    BY <2>1, <2>2
<1> HIDE DEF put
<1>5. ASSUME NEW u \in put, NEW v \in put, u.start = v.start
      PROVE  u = v
  <2>1. \A w \in ws : w.start \in StartsOf(ws)
    BY DEF StartsOf
  <2>2. CASE u.start \notin starts
    BY <1>1, <1>5, <2>2 DEF Distinct, GridCases, Stays, Grows
  <2>3. CASE u.start \in starts /\ u.start \in StartsOf(ws)
    <3>1. PICK w \in ws : w.start = u.start /\ u = WithEvent(w, e)
      BY <1>1, <2>3 DEF GridCases, Stays, Grows
    <3>2. PICK x \in ws : x.start = v.start /\ v = WithEvent(x, e)
      BY <1>1, <1>5, <2>3 DEF GridCases, Stays, Grows
    <3>3. QED
      BY <1>5, <3>1, <3>2 DEF Distinct
  <2>4. CASE u.start \in starts /\ u.start \notin StartsOf(ws)
    BY <1>1, <1>5, <2>1, <2>4 DEF GridCases, Stays, Grows, Opens
  <2>5. QED
    BY <2>2, <2>3, <2>4
<1>6. ASSUME NEW v \in put, NEW x, Holds(v, x)
      PROVE  \/ x = e /\ v.start \in starts
             \/ \E w \in ws : w.start = v.start /\ Holds(w, x)
  <2>1. CASE v \in ws
    BY <1>6, <2>1
  <2>2. CASE v \notin ws
    <3>1. CASE \E w \in ws : w.start \in starts /\ v.start = w.start
                             /\ v.events = Append(w.events, e)
      <4>1. PICK w \in ws : w.start \in starts /\ v.start = w.start
                            /\ v.events = Append(w.events, e)
        BY <3>1
      <4>2. Holds(w, x) \/ x = e
        BY <1>6, <4>1, HoldsGrown
      <4>3. QED
        BY <4>1, <4>2
    <3>2. CASE v.start \in starts /\ v.events = <<e>>
      BY <1>6, <3>2, HoldsFirst
    <3>3. QED
      BY <1>1, <2>2, <3>1, <3>2 DEF GridCases, Stays, Grows, Opens
  <2>3. QED
    BY <2>1, <2>2
<1>7. ASSUME NEW w \in ws, NEW x, Holds(w, x)
      PROVE  \E v \in put : v.start = w.start /\ Holds(v, x)
  <2>1. CASE w.start \in starts
    <3>1. PICK v \in put : v.start = w.start /\ v.events = Append(w.events, e)
      BY <1>2, <2>1
    <3>2. Holds(v, x)
      BY <1>7, <3>1, HoldsGrown
    <3>3. QED
      BY <3>1, <3>2
  <2>2. CASE w.start \notin starts
    BY <1>3, <1>7, <2>2
  <2>3. QED
    BY <2>1, <2>2
<1>8. ASSUME NEW s \in starts
      PROVE  \E v \in put : v.start = s /\ Holds(v, e)
  <2>1. CASE s \in StartsOf(ws)
    <3>1. PICK w \in ws : w.start = s
      BY <2>1 DEF StartsOf
    <3>2. PICK v \in put : v.start = w.start /\ v.events = Append(w.events, e)
      BY <1>2, <3>1
    <3>3. Holds(v, e)
      BY <3>2, HoldsGrown
    <3>4. QED
      BY <3>1, <3>2, <3>3
  <2>2. CASE s \notin StartsOf(ws)
    <3>1. PICK v \in put : v.start = s /\ v.events = <<e>>
      BY <1>4, <2>2
    <3>2. QED
      BY <3>1, HoldsFirst
  <2>3. QED
    BY <2>1, <2>2
<1>9. StartsOf(Homes(put, e)) = starts
  <2>1. \A v \in Homes(put, e) : v.start \in starts
    <3>1. \A w \in ws : ~Holds(w, e)
      BY DEF NotHeld
    <3>2. QED
      BY <1>6, <3>1 DEF Homes
  <2>2. \A s \in starts : \E v \in Homes(put, e) : v.start = s
    BY <1>8 DEF Homes
  <2>3. QED
    BY <2>1, <2>2 DEF StartsOf
<1>10. ASSUME NEW x, x # e
       PROVE  StartsOf(Homes(put, x)) = StartsOf(Homes(ws, x))
  <2>1. ASSUME NEW v \in Homes(put, x) PROVE v.start \in StartsOf(Homes(ws, x))
    <3>1. PICK w \in ws : w.start = v.start /\ Holds(w, x)
      BY <1>6, <1>10 DEF Homes
    <3>2. QED
      BY <3>1 DEF Homes, StartsOf
  <2>2. ASSUME NEW w \in Homes(ws, x) PROVE w.start \in StartsOf(Homes(put, x))
    <3>1. PICK v \in put : v.start = w.start /\ Holds(v, x)
      BY <1>7 DEF Homes
    <3>2. QED
      BY <3>1 DEF Homes, StartsOf
  <2>3. QED
    BY <2>1, <2>2 DEF StartsOf
<1>11. Distinct(put)
  BY <1>5 DEF Distinct
<1>12. \A v \in put : \A x : Holds(v, x) => x = e \/ \E w \in ws : Holds(w, x)
  BY <1>6
<1>13. QED
  BY <1>9, <1>10, <1>11, <1>12 DEF put, KeepsStarts, OnlyNew

\* One window per start: they are counted by their starts.
LEMMA CountByStart ==
  ASSUME NEW ws, Distinct(ws), IsFiniteSet(StartsOf(ws))
  PROVE  Cardinality(ws) = Cardinality(StartsOf(ws))
<1> DEFINE at == [s \in StartsOf(ws) |-> CHOOSE w \in ws : w.start = s]
<1>1. \A s \in StartsOf(ws) : at[s] \in ws /\ at[s].start = s
  BY DEF StartsOf
<1>2. at \in [StartsOf(ws) -> ws]
  BY <1>1
<1> HIDE DEF at
<1>3. at \in Injection(StartsOf(ws), ws)
  BY <1>1, <1>2 DEF Injection, IsInjective
<1>4. \A w \in ws : w.start \in StartsOf(ws) /\ at[w.start] = w
  BY <1>1 DEF StartsOf, Distinct
<1>5. at \in Surjection(StartsOf(ws), ws)
  BY <1>2, <1>4 DEF Surjection
<1>6. ExistsBijection(StartsOf(ws), ws)
  BY <1>3, <1>5 DEF Bijection, ExistsBijection
<1>7. QED
  BY <1>6, FS_Bijection

\* Put e in one window of ws, or in a new one.
OnePut(ws, ws2, e) ==
  \/ \E v \in Window : v.events = <<e>> /\ ws2 = ws \cup {v}
  \/ \E h \in ws, v \in Window :
       v.events = Append(h.events, e) /\ ws2 = (ws \ {h}) \cup {v}

\* A session goes on with the event, or none does and one is opened for it.
SessionPut(ws, ws2, e, gap) ==
  \/ /\ \A w \in ws : ~Continues(w, e, gap)
     /\ \E v \in Window : v.events = <<e>> /\ v.end = e.ts + gap /\ ws2 = ws \cup {v}
  \/ \E h \in ws, v \in Window :
       /\ Continues(h, e, gap)
       /\ v.events = Append(h.events, e) /\ v.end = e.ts + gap
       /\ ws2 = (ws \ {h}) \cup {v}

LEMMA SessionPuts ==
  ASSUME NEW ws \in SUBSET Window, NEW e \in Event, NEW gap \in Nat
  PROVE  SessionPut(ws, AssignSession(ws, e, gap), e, gap)
<1> DEFINE hits == {w \in ws : Continues(w, e, gap)}
           host == FirstOf(hits)
           longer == [host EXCEPT !.end = e.ts + gap]
<1>1. e.ts \in Int /\ e.ts + gap \in Int
  BY DEF Event
<1>2. CASE hits = {}
  <2>1. /\ OpenedBy(e, e.ts, e.ts + gap) \in Window
        /\ OpenedBy(e, e.ts, e.ts + gap).end = e.ts + gap
        /\ OpenedBy(e, e.ts, e.ts + gap).events = <<e>>
    BY <1>1, OpenedByType DEF OpenedBy
  <2>2. AssignSession(ws, e, gap) = ws \cup {OpenedBy(e, e.ts, e.ts + gap)}
    BY <1>2 DEF AssignSession
  <2>3. QED
    BY <1>2, <2>1, <2>2, Zenon DEF SessionPut
<1>3. CASE hits # {}
  <2>1. host \in ws /\ host \in Window /\ Continues(host, e, gap)
    <3>1. hits \in SUBSET Window
      OBVIOUS
    <3> HIDE DEF hits
    <3>2. host \in hits
      BY <1>3, <3>1, FirstOfIn
    <3>3. QED
      BY <3>2 DEF hits
  <2>2. longer \in Window /\ longer.end = e.ts + gap /\ longer.events = host.events
    <3> HIDE DEF host
    <3>1. QED
      BY <1>1, <2>1 DEF Window
  <2>3. /\ WithEvent(longer, e) \in Window
        /\ WithEvent(longer, e).end = e.ts + gap
        /\ WithEvent(longer, e).events = Append(host.events, e)
    <3>1. WithEvent(longer, e).events = Append(longer.events, e)
      <4> HIDE DEF longer
      <4>1. QED
        BY <2>2 DEF WithEvent, Window
    <3> HIDE DEF longer
    <3>2. QED
      BY <2>2, <3>1, WithEventType
  <2>4. AssignSession(ws, e, gap) = (ws \ {host}) \cup {WithEvent(longer, e)}
    BY <1>3 DEF AssignSession
  <2> HIDE DEF host, longer
  <2>5. QED
    BY <2>1, <2>3, <2>4, Zenon DEF SessionPut
<1>4. QED
  BY <1>2, <1>3

LEMMA CountPuts ==
  ASSUME NEW ws \in SUBSET Window, NEW e \in Event, NEW size \in Nat, Alone(ws)
  PROVE  OnePut(ws, AssignCount(ws, e, size), e)
<1> DEFINE last == LastOf(ws)
           moved == [last EXCEPT !.end = e.ts]
<1>1. e.ts \in Int
  BY DEF Event
<1>2. CASE ws # {} /\ EventCount(last) < size
  <2>1. PICK w \in ws : ws = {w}
    BY <1>2 DEF Alone
  <2>2. last = w /\ w \in Window
    <3>1. w.opener >= w.opener
      BY <2>1 DEF Window
    <3>2. QED
      BY <2>1, <3>1 DEF LastOf
  <2>3. AssignCount(ws, e, size) = (ws \ {last}) \cup {WithEvent(moved, e)}
    BY <1>2 DEF AssignCount
  <2> HIDE DEF last
  <2>4. moved \in Window /\ moved.events = last.events
    BY <1>1, <2>2 DEF Window
  <2>5. WithEvent(moved, e).events = Append(last.events, e)
    <3> HIDE DEF moved
    <3>1. QED
      BY <2>4 DEF WithEvent, Window
  <2>6. WithEvent(moved, e) \in Window
    <3> HIDE DEF moved
    <3>1. QED
      BY <2>4, WithEventType
  <2> HIDE DEF moved
  <2>7. QED
    BY <2>1, <2>2, <2>3, <2>5, <2>6, Zenon DEF OnePut
<1>3. CASE ~(ws # {} /\ EventCount(last) < size)
  <2>1. AssignCount(ws, e, size) = ws \cup {OpenedBy(e, e.ts, e.ts)}
    BY <1>3 DEF AssignCount
  <2>2. OpenedBy(e, e.ts, e.ts) \in Window /\ OpenedBy(e, e.ts, e.ts).events = <<e>>
    BY <1>1, OpenedByType DEF OpenedBy
  <2>3. QED
    BY <2>1, <2>2, Zenon DEF OnePut
<1>4. QED
  BY <1>2, <1>3

\* Sessions and count windows put an event in one window.
LEMMA OneAssigned ==
  ASSUME NEW st \in Strategies, ~OnGrid(st), NEW ws \in SUBSET Window, NEW e \in Event,
         st.kind = "count" => Alone(ws)
  PROVE  OnePut(ws, Assign(st, ws, e), e)
<1>1. st.size \in Nat /\ st.kind \in {"tumbling", "sliding", "session", "count"}
  BY StrategiesAssumption
<1>2. CASE st.kind = "count"
  <2>1. Assign(st, ws, e) = AssignCount(ws, e, st.size)
    BY <1>2 DEF Assign
  <2>2. QED
    BY <1>1, <1>2, <2>1, CountPuts
<1>3. CASE st.kind = "session"
  <2>1. Assign(st, ws, e) = AssignSession(ws, e, st.size)
    BY <1>3 DEF Assign
  <2>2. SessionPut(ws, Assign(st, ws, e), e, st.size)
    BY <1>1, <2>1, SessionPuts
  <2>3. QED
    BY <2>2, Zenon DEF SessionPut, OnePut
<1>4. QED
  BY <1>1, <1>2, <1>3 DEF OnGrid

\* It is the only home of that event, and the others keep theirs.
LEMMA OnePutHomes ==
  ASSUME NEW ws \in SUBSET Window, NEW ws2, NEW cl, NEW e \in Event, OnePut(ws, ws2, e),
         ws \cap cl = {}, NotHeld(ws \cup cl, e)
  PROVE  /\ ws2 \cap cl = {}
         /\ OneHome(ws2 \cup cl, e)
         /\ KeepsHomes(ws \cup cl, ws2 \cup cl, e)
         /\ OnlyNew(ws, ws2, e)
<1>0. \A w \in ws \cup cl : ~Holds(w, e)
  BY DEF NotHeld
<1>1. CASE \E v \in Window : v.events = <<e>> /\ ws2 = ws \cup {v}
  <2>1. PICK v \in Window : v.events = <<e>> /\ ws2 = ws \cup {v}
    BY <1>1
  <2>2. \A x : Holds(v, x) <=> x = e
    BY <2>1, HoldsFirst
  <2>3. Homes(ws2 \cup cl, e) = {v}
    BY <1>0, <2>1, <2>2 DEF Homes
  <2>4. \A x : x # e => Homes(ws2 \cup cl, x) = Homes(ws \cup cl, x)
    BY <2>1, <2>2 DEF Homes
  <2>5. QED
    BY <1>0, <2>1, <2>2, <2>3, <2>4 DEF OneHome, OnlyNew, KeepsHomes
<1>2. CASE \E h \in ws, v \in Window :
             v.events = Append(h.events, e) /\ ws2 = (ws \ {h}) \cup {v}
  <2>1. PICK h \in ws, v \in Window :
               v.events = Append(h.events, e) /\ ws2 = (ws \ {h}) \cup {v}
    BY <1>2
  <2>2. /\ Holds(v, e)
        /\ \A x : Holds(h, x) => Holds(v, x)
        /\ \A x : Holds(v, x) => Holds(h, x) \/ x = e
    BY <2>1, HoldsGrown
  <2>3. v \notin ws \cup cl
    BY <1>0, <2>2
  <2>4. Homes(ws2 \cup cl, e) = {v}
    BY <1>0, <2>1, <2>2 DEF Homes
  <2>5. ASSUME NEW x, x # e, OneHome(ws \cup cl, x)
        PROVE  OneHome(ws2 \cup cl, x)
    <3>1. PICK w \in ws \cup cl : Homes(ws \cup cl, x) = {w}
      BY <2>5 DEF OneHome
    <3>2. CASE w = h
      <4>1. Homes(ws2 \cup cl, x) = {v}
        BY <2>1, <2>2, <2>5, <3>1, <3>2 DEF Homes
      <4>2. QED
        BY <2>1, <4>1 DEF OneHome
    <3>3. CASE w # h
      <4>1. ~Holds(h, x) /\ ~Holds(v, x)
        BY <2>1, <2>2, <2>5, <3>1, <3>3 DEF Homes
      <4>2. Homes(ws2 \cup cl, x) = {w} /\ w \in ws2 \cup cl
        BY <2>1, <3>1, <3>3, <4>1 DEF Homes
      <4>3. QED
        BY <4>2 DEF OneHome
    <3>4. QED
      BY <3>2, <3>3
  <2>6. ws2 \cap cl = {} /\ OneHome(ws2 \cup cl, e)
    BY <1>0, <2>1, <2>3, <2>4 DEF OneHome
  <2>7. \A u \in ws2 : \A x : Holds(u, x) => x = e \/ \E w \in ws : Holds(w, x)
    BY <2>1, <2>2
  <2>8. QED
    BY <2>5, <2>6, <2>7, Zenon DEF OnlyNew, KeepsHomes
<1>3. QED
  BY <1>1, <1>2 DEF OnePut

(***************************************************************************)
(* Every settled event is where it ought to be                             *)
(***************************************************************************)

\* How many of the accepted events are through: all but the one in hand.
Settled == IF hand = << >> THEN Len(accepted) ELSE Len(accepted) - 1

\* The accepted events are numbered as they came, and are of the stream.
LogInv ==
  /\ \A i \in DOMAIN accepted : accepted[i].id <= received /\ accepted[i].ts \in Times
  /\ \A i, j \in DOMAIN accepted : i < j => accepted[i].id < accepted[j].id

\* Windows hold no event but the first n of the log.
AllLogged(ws, log, n) ==
  \A w \in ws : \A x : Holds(w, x) => \E m \in 1 .. n : log[m] = x

\* Each of those is in the grid intervals around it.
AllAround(ws, log, n, step, size) ==
  \A m \in 1 .. n : StartsOf(Homes(ws, log[m])) = Around(log[m].ts, step, size)

\* Each of those is in one window.
AllHomed(ws, log, n) == \A m \in 1 .. n : OneHome(ws, log[m])

StepOf == IF strategy.kind = "tumbling" THEN strategy.size ELSE strategy.slide

\* Neither a restart nor the epoch blurs where an event ought to be.
Clear == resumes = 0 /\ (OnGrid(strategy) => PastTheEpoch)

HeldInv == Clear => AllLogged(windows \cup closed, accepted, Settled)

GridInv ==
  Clear /\ OnGrid(strategy) =>
    /\ Distinct(windows)
    /\ Distinct(closed)
    /\ AllAround(windows \cup closed, accepted, Settled, StepOf, strategy.size)

RestInv ==
  Clear /\ ~OnGrid(strategy) =>
    /\ windows \cap closed = {}
    /\ AllHomed(windows \cup closed, accepted, Settled)

ConservedInv == IInv /\ NoReopen /\ LogInv /\ HeldInv /\ GridInv /\ RestInv

\* The log is as long as it is, and the event in hand is its last one.
LEMMA SettledIs ==
  ASSUME TypeOK
  PROVE  /\ accepted \in Seq(Event) /\ Len(accepted) \in Nat /\ DOMAIN accepted = 1 .. Len(accepted)
         /\ \A i \in 1 .. Len(accepted) : accepted[i] \in Event
         /\ hand = << >> => Settled = Len(accepted)
         /\ hand # << >> => /\ Len(accepted) >= 1
                            /\ Settled = Len(accepted) - 1
                            /\ Head(hand) = accepted[Len(accepted)]
<1>1. accepted \in Seq(Event)
  BY DEF TypeOK
<1>2. hand # << >> => accepted # << >> /\ Head(hand) = accepted[Len(accepted)]
  BY DEF TypeOK
<1>3. accepted # << >> => Len(accepted) >= 1
  BY <1>1
<1>4. QED
  BY <1>1, <1>2, <1>3 DEF Settled

\* Accept makes the log longer.
LEMMA AcceptGrows ==
  ASSUME TypeOK, NEW entity \in Entities, NEW ts \in Times,
         Accept([id |-> received + 1, entity |-> entity, ts |-> ts])
  PROVE  accepted' # accepted
<1>1. PICK f : f = [id |-> received + 1, entity |-> entity, ts |-> ts]
  OBVIOUS
<1>2. f \in Event /\ accepted \in Seq(Event)
  BY <1>1, TimesAssumption DEF TypeOK, Event
<1>3. Len(Append(accepted, f)) = Len(accepted) + 1 /\ Len(accepted) \in Nat
  BY <1>2
<1>4. accepted' = Append(accepted, f)
  BY <1>1 DEF Accept
<1>5. QED
  BY <1>3, <1>4

\* What Accept leaves of the log and of the windows.
LEMMA AcceptKeeps ==
  ASSUME TypeOK, NEW entity \in Entities, NEW ts \in Times, Observe(entity, ts), accepted' # accepted
  PROVE  /\ hand = << >> /\ Settled = Len(accepted) /\ Settled' = Len(accepted)
         /\ Len(accepted') = Len(accepted) + 1
         /\ \A m \in 1 .. Len(accepted) : accepted'[m] = accepted[m]
         /\ accepted'[Len(accepted) + 1] = [id |-> received + 1, entity |-> entity, ts |-> ts]
         /\ accepted' \in Seq(Event)
         /\ \E gone \in SUBSET windows : windows' = windows \ gone /\ closed' = closed \cup gone
         /\ UNCHANGED <<strategy, resumes>> /\ received' = received + 1
         /\ hand' = << accepted'[Len(accepted) + 1] >>
<1> DEFINE e == [id |-> received + 1, entity |-> entity, ts |-> ts]
<1>1. e \in Event
  BY TimesAssumption DEF TypeOK, Event
<1>2. Accept(e)
  BY DEF Observe, DropLate
<1>3. /\ hand = << >> /\ received' = received + 1
      /\ UNCHANGED <<strategy, resumes>>
      /\ accepted' = Append(accepted, e)
      /\ hand' = <<e>>
  BY <1>2 DEF Observe, Accept
<1>4. windows' = windows \ Expired(strategy, windows, watermark')
      /\ closed' = closed \cup Expired(strategy, windows, watermark')
  BY <1>2 DEF Accept
<1>5. Expired(strategy, windows, watermark') \in SUBSET windows
  BY DEF Expired
<1> HIDE DEF e
<1>6. /\ Len(accepted') = Len(accepted) + 1 /\ Len(accepted) \in Nat
      /\ \A m \in 1 .. Len(accepted) : accepted'[m] = accepted[m]
      /\ accepted'[Len(accepted) + 1] = e
      /\ accepted' \in Seq(Event)
  BY <1>1, <1>3 DEF TypeOK
<1>7. Settled = Len(accepted) /\ Settled' = Len(accepted)
  BY <1>3, <1>6 DEF Settled
<1>8. QED
  BY <1>3, <1>4, <1>5, <1>6, <1>7 DEF e

LEMMA ObserveLog ==
  ASSUME TypeOK, LogInv, NEW entity \in Entities, NEW ts \in Times, Observe(entity, ts)
  PROVE  LogInv'
<1>0. received' = received + 1 /\ received \in Nat
  BY DEF Observe, TypeOK
<1>t. /\ DOMAIN accepted = 1 .. Len(accepted) /\ Len(accepted) \in Nat
      /\ \A i \in 1 .. Len(accepted) : accepted[i].id \in Nat
  BY SettledIs DEF Event
<1>1. CASE accepted' = accepted
  BY <1>0, <1>1, <1>t DEF LogInv
<1>2. CASE accepted' # accepted
  <2>1. /\ Len(accepted') = Len(accepted) + 1
        /\ \A m \in 1 .. Len(accepted) : accepted'[m] = accepted[m]
        /\ accepted'[Len(accepted) + 1] = [id |-> received + 1, entity |-> entity, ts |-> ts]
        /\ accepted' \in Seq(Event)
    BY <1>2, AcceptKeeps
  <2>2. /\ DOMAIN accepted' = 1 .. Len(accepted) + 1
        /\ accepted'[Len(accepted) + 1].id = received + 1
        /\ accepted'[Len(accepted) + 1].ts = ts
    BY <2>1, <1>t
  <2>3. ASSUME NEW i \in DOMAIN accepted'
        PROVE  accepted'[i].id <= received' /\ accepted'[i].ts \in Times
    <3>1. CASE i \in 1 .. Len(accepted)
      BY <1>0, <1>t, <2>1, <3>1 DEF LogInv
    <3>2. CASE i = Len(accepted) + 1
      BY <1>0, <2>2, <3>2
    <3>3. QED
      BY <1>t, <2>2, <3>1, <3>2
  <2>4. ASSUME NEW i \in DOMAIN accepted', NEW j \in DOMAIN accepted', i < j
        PROVE  accepted'[i].id < accepted'[j].id
    <3>1. i \in 1 .. Len(accepted) /\ accepted'[i] = accepted[i] /\ accepted[i].id <= received
      BY <1>t, <2>1, <2>2, <2>4 DEF LogInv
    <3>2. CASE j \in 1 .. Len(accepted)
      BY <1>t, <2>1, <2>4, <3>1, <3>2 DEF LogInv
    <3>3. CASE j = Len(accepted) + 1
      BY <1>0, <1>t, <2>2, <3>1, <3>3
    <3>4. QED
      BY <1>t, <2>2, <3>2, <3>3
  <2>5. QED
    BY <2>3, <2>4 DEF LogInv
<1>3. QED
  BY <1>1, <1>2

\* The starts of the homes in two sets of windows are those in the one or the other.
LEMMA HomesUnion ==
  ASSUME NEW ws, NEW cl, NEW x
  PROVE  StartsOf(Homes(ws \cup cl, x)) = StartsOf(Homes(ws, x)) \cup StartsOf(Homes(cl, x))
BY DEF StartsOf, Homes

\* The step over which GridStarts looks is the one of the strategy.
LEMMA GridStartsAround ==
  \A ts : GridStarts(ts) = Around(ts, StepOf, strategy.size)
BY DEF GridStarts, Around, StepOf

LEMMA ObserveConserved ==
  ASSUME ConservedInv, IInv', NoReopen',
         NEW entity \in Entities, NEW ts \in Times, Observe(entity, ts)
  PROVE  ConservedInv'
<1>1. LogInv'
  BY ObserveLog DEF ConservedInv, IInv
<1>2. HeldInv' /\ GridInv' /\ RestInv'
  <2>1. CASE accepted' = accepted
    <3>1. ASSUME Accept([id |-> received + 1, entity |-> entity, ts |-> ts])
          PROVE  FALSE
      BY <2>1, <3>1, AcceptGrows DEF ConservedInv, IInv
    <3>2. UNCHANGED <<strategy, resumes, windows, closed, accepted, hand>>
      BY <3>1 DEF Observe, DropLate
    <3>3. UNCHANGED <<Settled, StepOf>>
      BY <3>2 DEF Settled, StepOf
    <3>4. QED
      BY <3>2, <3>3 DEF ConservedInv, HeldInv, GridInv, RestInv, Clear
  <2>2. CASE accepted' # accepted
    <3>1. /\ Settled = Len(accepted) /\ Settled' = Len(accepted)
          /\ \A m \in 1 .. Len(accepted) : accepted'[m] = accepted[m]
          /\ \E gone \in SUBSET windows : windows' = windows \ gone /\ closed' = closed \cup gone
          /\ UNCHANGED <<strategy, resumes>>
      BY <2>2, AcceptKeeps DEF ConservedInv, IInv
    <3>2. PICK gone \in SUBSET windows : windows' = windows \ gone /\ closed' = closed \cup gone
      BY <3>1
    <3>3. windows' \cup closed' = windows \cup closed
      BY <3>2
    <3>4. StepOf' = StepOf
      BY <3>1 DEF StepOf
    <3>5. HeldInv'
      BY <3>1, <3>3 DEF ConservedInv, HeldInv, AllLogged, Clear
    <3>6. GridInv'
      <4> SUFFICES ASSUME Clear, OnGrid(strategy)
                   PROVE  /\ Distinct(windows')
                          /\ Distinct(closed')
                          /\ AllAround(windows' \cup closed', accepted', Settled', StepOf',
                                       strategy'.size)
        BY <3>1 DEF GridInv, Clear
      <4>1. Distinct(windows) /\ Distinct(closed)
        BY DEF ConservedInv, GridInv
      <4>2. \A w \in windows, c \in closed : w.start # c.start
        BY DEF ConservedInv, NoReopen, Clear
      <4>3. Distinct(windows') /\ Distinct(closed')
        BY <3>2, <4>1, <4>2 DEF Distinct
      <4>4. AllAround(windows \cup closed, accepted, Settled, StepOf, strategy.size)
        BY DEF ConservedInv, GridInv
      <4>5. AllAround(windows' \cup closed', accepted', Settled', StepOf', strategy'.size)
        BY <3>1, <3>3, <3>4, <4>4 DEF AllAround
      <4>6. QED
        BY <4>3, <4>5
    <3>7. RestInv'
      <4> SUFFICES ASSUME Clear, ~OnGrid(strategy)
                   PROVE  /\ windows' \cap closed' = {}
                          /\ AllHomed(windows' \cup closed', accepted', Settled')
        BY <3>1 DEF RestInv, Clear
      <4>1. windows \cap closed = {} /\ AllHomed(windows \cup closed, accepted, Settled)
        BY DEF ConservedInv, RestInv
      <4>2. windows' \cap closed' = {}
        BY <3>2, <4>1
      <4>3. AllHomed(windows' \cup closed', accepted', Settled')
        BY <3>1, <3>3, <4>1 DEF AllHomed
      <4>4. QED
        BY <4>2, <4>3
    <3>8. QED
      BY <3>5, <3>6, <3>7
  <2>3. QED
    BY <2>1, <2>2
<1>3. QED
  BY <1>1, <1>2 DEF ConservedInv

\* The event in hand is in no window yet.
LEMMA HandIsNew ==
  ASSUME ConservedInv, hand # << >>, Clear
  PROVE  /\ NotHeld(windows \cup closed, Head(hand))
         /\ \A m \in 1 .. Settled : accepted[m] # Head(hand)
         /\ 1 .. Len(accepted) = 1 .. Settled \cup {Len(accepted)}
         /\ Settled \in Nat
<1>1. /\ Len(accepted) \in Nat /\ Len(accepted) >= 1 /\ Settled = Len(accepted) - 1
      /\ Head(hand) = accepted[Len(accepted)]
      /\ DOMAIN accepted = 1 .. Len(accepted)
      /\ \A i \in 1 .. Len(accepted) : accepted[i] \in Event
  BY SettledIs DEF ConservedInv, IInv
<1>2. \A m \in 1 .. Settled : accepted[m].id < accepted[Len(accepted)].id
  BY <1>1 DEF ConservedInv, LogInv
<1>3. ASSUME NEW m \in 1 .. Settled PROVE accepted[m] # Head(hand)
  <2>1. accepted[Len(accepted)].id \in Nat
    BY <1>1 DEF Event
  <2>2. QED
    BY <1>1, <1>2, <2>1
<1>4. AllLogged(windows \cup closed, accepted, Settled)
  BY DEF ConservedInv, HeldInv
<1>5. NotHeld(windows \cup closed, Head(hand))
  BY <1>3, <1>4, Zenon DEF AllLogged, NotHeld
<1>6. QED
  BY <1>1, <1>3, <1>5

LEMMA SettleConserved ==
  ASSUME ConservedInv, IInv', NoReopen', Settle
  PROVE  ConservedInv'
<1> DEFINE e == Head(hand)
<1>1. /\ hand # << >> /\ hand' = << >>
      /\ windows' = Assign(strategy, windows, e)
      /\ UNCHANGED <<strategy, received, resumes, accepted, closed>>
  BY DEF Settle
<1>2. /\ TypeOK /\ Len(accepted) \in Nat /\ Len(accepted) >= 1
      /\ e = accepted[Len(accepted)] /\ e \in Event
      /\ DOMAIN accepted = 1 .. Len(accepted)
  <2>1. TypeOK
    BY DEF ConservedInv, IInv
  <2>2. /\ Len(accepted) \in Nat /\ Len(accepted) >= 1
        /\ e = accepted[Len(accepted)]
        /\ DOMAIN accepted = 1 .. Len(accepted)
        /\ \A i \in 1 .. Len(accepted) : accepted[i] \in Event
    BY <1>1, <2>1, SettledIs, Zenon
  <2>3. Len(accepted) \in 1 .. Len(accepted)
    BY <2>2
  <2>4. QED
    BY <2>1, <2>2, <2>3
<1>3. e.ts \in Times
  <2>1. Len(accepted) \in DOMAIN accepted
    BY <1>2
  <2>2. QED
    BY <1>2, <2>1 DEF ConservedInv, LogInv
<1>4. Settled' = Len(accepted)
  BY <1>1 DEF Settled
<1>5. LogInv'
  BY <1>1 DEF ConservedInv, LogInv
<1>6. windows \in SUBSET Window /\ strategy \in Strategies /\ strategy.size \in Nat
      /\ strategy.slide \in Nat
  BY <1>2, StrategyType DEF TypeOK
<1>7. CASE ~Clear
  BY <1>1, <1>5, <1>7 DEF ConservedInv, HeldInv, GridInv, RestInv, Clear
<1>8. CASE Clear
  <2>1. /\ NotHeld(windows \cup closed, e)
        /\ \A m \in 1 .. Settled : accepted[m] # e
        /\ 1 .. Len(accepted) = 1 .. Settled \cup {Len(accepted)}
    BY <1>1, <1>8, HandIsNew
  <2>2. AllLogged(windows \cup closed, accepted, Settled)
    BY <1>8 DEF ConservedInv, HeldInv
  <2>3. ASSUME OnlyNew(windows, windows', e)
        PROVE  HeldInv'
    <3> HIDE DEF e
    <3>1. ASSUME NEW w \in windows' \cup closed, NEW x, Holds(w, x)
          PROVE  \E m \in 1 .. Len(accepted) : accepted[m] = x
      <4>1. x = e \/ \E v \in windows \cup closed : Holds(v, x)
        BY <2>3, <3>1 DEF OnlyNew
      <4>2. CASE x = e
        BY <1>2, <4>2
      <4>3. CASE \E v \in windows \cup closed : Holds(v, x)
        <5>1. \E m \in 1 .. Settled : accepted[m] = x
          BY <2>2, <4>3, Zenon DEF AllLogged
        <5>2. QED
          BY <2>1, <5>1
      <4>4. QED
        BY <4>1, <4>2, <4>3
    <3>2. AllLogged(windows' \cup closed, accepted, Len(accepted))
      BY <3>1, Zenon DEF AllLogged
    <3>3. QED
      BY <1>1, <1>4, <3>2 DEF HeldInv, Clear
  <2>4. CASE OnGrid(strategy)
    <3> DEFINE starts == Around(e.ts, StepOf, strategy.size)
    <3>1. Distinct(windows) /\ Distinct(closed)
          /\ AllAround(windows \cup closed, accepted, Settled, StepOf, strategy.size)
      BY <1>8, <2>4 DEF ConservedInv, GridInv
    <3>2. strategy.kind = "sliding" => e.ts >= strategy.size
      BY <1>3, <1>6, <1>8, <2>4 DEF PastTheEpoch, Clear
    <3>3. windows' = GridPut(windows, e, starts, strategy.size)
      <4> HIDE DEF e
      <4>1. QED
        BY <1>1, <1>2, <1>6, <2>4, <3>1, <3>2, GridAssigns DEF StepOf
    <3>4. starts \in SUBSET Nat
      BY <1>2, <1>6, AroundFinite DEF StepOf, Event
    <3> HIDE DEF starts, e
    <3>5. /\ Distinct(windows')
          /\ StartsOf(Homes(windows', e)) = starts
          /\ KeepsStarts(windows, windows', e)
          /\ OnlyNew(windows, windows', e)
      <4>1. NotHeld(windows, e)
        BY <2>1 DEF NotHeld
      <4>2. QED
        BY <1>2, <1>6, <3>1, <3>3, <3>4, <4>1, GridPutHomes
    <3>6. StartsOf(Homes(windows' \cup closed, e)) = starts
      <4>1. StartsOf(Homes(closed, e)) = {}
        BY <2>1 DEF Homes, StartsOf, NotHeld
      <4>2. StartsOf(Homes(windows' \cup closed, e)) =
              StartsOf(Homes(windows', e)) \cup StartsOf(Homes(closed, e))
        BY HomesUnion
      <4>3. QED
        BY <3>5, <4>1, <4>2
    <3>7. ASSUME NEW x, x # e
          PROVE  StartsOf(Homes(windows' \cup closed, x)) = StartsOf(Homes(windows \cup closed, x))
      <4>1. /\ StartsOf(Homes(windows' \cup closed, x)) =
                 StartsOf(Homes(windows', x)) \cup StartsOf(Homes(closed, x))
            /\ StartsOf(Homes(windows \cup closed, x)) =
                 StartsOf(Homes(windows, x)) \cup StartsOf(Homes(closed, x))
        BY HomesUnion
      <4>2. QED
        BY <3>5, <3>7, <4>1, Zenon DEF KeepsStarts
    <3>8. AllAround(windows' \cup closed, accepted, Len(accepted), StepOf, strategy.size)
      <4> SUFFICES ASSUME NEW m \in 1 .. Len(accepted)
                   PROVE  StartsOf(Homes(windows' \cup closed, accepted[m])) =
                            Around(accepted[m].ts, StepOf, strategy.size)
        BY DEF AllAround
      <4>1. CASE m \in 1 .. Settled
        BY <2>1, <3>1, <3>7, <4>1, Zenon DEF AllAround
      <4>2. CASE m = Len(accepted)
        BY <1>2, <3>6, <4>2 DEF starts
      <4>3. QED
        BY <2>1, <4>1, <4>2
    <3>9. StepOf' = StepOf
      BY <1>1 DEF StepOf
    <3>10. GridInv'
      BY <1>1, <1>4, <3>1, <3>5, <3>8, <3>9 DEF GridInv
    <3>11. HeldInv'
      BY <2>3, <3>5
    <3>12. RestInv'
      BY <1>1, <2>4 DEF RestInv
    <3>13. QED
      BY <1>5, <3>10, <3>11, <3>12 DEF ConservedInv
  <2>5. CASE ~OnGrid(strategy)
    <3>1. windows \cap closed = {} /\ AllHomed(windows \cup closed, accepted, Settled)
      BY <1>8, <2>5 DEF ConservedInv, RestInv
    <3>2. strategy.kind = "count" => Alone(windows)
      BY DEF ConservedInv, IInv, CountInv
    <3> HIDE DEF e
    <3>3. OnePut(windows, windows', e)
      BY <1>1, <1>2, <1>6, <2>5, <3>2, OneAssigned
    <3>4. /\ windows' \cap closed = {}
          /\ OneHome(windows' \cup closed, e)
          /\ KeepsHomes(windows \cup closed, windows' \cup closed, e)
          /\ OnlyNew(windows, windows', e)
      <4>1. windows \in SUBSET Window /\ e \in Event /\ windows \cap closed = {}
        BY <1>2, <1>6, <3>1
      <4>2. NotHeld(windows \cup closed, e)
        BY <2>1
      <4>3. QED
        BY <3>3, <4>1, <4>2, OnePutHomes
    <3>5. AllHomed(windows' \cup closed, accepted, Len(accepted))
      <4> SUFFICES ASSUME NEW m \in 1 .. Len(accepted)
                   PROVE  OneHome(windows' \cup closed, accepted[m])
        BY DEF AllHomed
      <4>1. CASE m \in 1 .. Settled
        BY <2>1, <3>1, <3>4, <4>1, Zenon DEF AllHomed, KeepsHomes
      <4>2. CASE m = Len(accepted)
        BY <1>2, <3>4, <4>2
      <4>3. QED
        BY <2>1, <4>1, <4>2
    <3>6. RestInv'
      BY <1>1, <1>4, <3>4, <3>5 DEF RestInv
    <3>7. HeldInv'
      BY <2>3, <3>4
    <3>8. GridInv'
      BY <1>1, <2>5 DEF GridInv
    <3>9. QED
      BY <1>5, <3>6, <3>7, <3>8 DEF ConservedInv
  <2>6. QED
    BY <2>4, <2>5
<1>9. QED
  BY <1>7, <1>8

LEMMA InitConserved == Init => ConservedInv
<1> SUFFICES ASSUME Init PROVE ConservedInv
  OBVIOUS
<1>1. IInv /\ NoReopen
  BY InitIInv, ReopensNot
<1>2. accepted = << >> /\ windows = {} /\ closed = {} /\ hand = << >>
  BY DEF Init
<1>3. DOMAIN accepted = {} /\ Settled = 0 /\ 1 .. Settled = {}
  <2>1. Settled = 0
    BY <1>2 DEF Settled
  <2>2. QED
    BY <1>2, <2>1
<1>4. LogInv
  BY <1>3 DEF LogInv
<1>5. HeldInv /\ GridInv /\ RestInv
  BY <1>2, <1>3 DEF HeldInv, GridInv, RestInv, AllLogged, AllAround, AllHomed, Distinct
<1>6. QED
  BY <1>1, <1>4, <1>5 DEF ConservedInv

LEMMA NextConserved == ConservedInv /\ [Next]_vars => ConservedInv'
<1> SUFFICES ASSUME ConservedInv, [Next]_vars
             PROVE  ConservedInv'
  OBVIOUS
<1>1. IInv'
  BY NextIInv DEF ConservedInv
<1>2. IInv' => NoReopen'
  BY ReopensNot, PTL
<1>3. NoReopen'
  BY <1>1, <1>2
<1>4. CASE \E entity \in Entities, ts \in Times : Observe(entity, ts)
  BY <1>1, <1>3, <1>4, ObserveConserved
<1>5. CASE Settle
  BY <1>1, <1>3, <1>5, SettleConserved
<1>6. CASE Checkpoint \/ UNCHANGED vars
  <2>1. UNCHANGED <<strategy, received, resumes, windows, closed, accepted, hand>>
    BY <1>6 DEF Checkpoint, vars
  <2>2. UNCHANGED <<Settled, StepOf>>
    BY <2>1 DEF Settled, StepOf
  <2>3. QED
    BY <1>1, <1>3, <2>1, <2>2 DEF ConservedInv, LogInv, HeldInv, GridInv, RestInv, Clear
<1>7. CASE Resume
  <2>1. resumes' # 0 /\ UNCHANGED <<accepted, received>>
    BY <1>7 DEF Resume, ConservedInv, IInv, TypeOK
  <2>2. QED
    BY <1>1, <1>3, <2>1 DEF ConservedInv, LogInv, HeldInv, GridInv, RestInv, Clear
<1>8. QED
  BY <1>4, <1>5, <1>6, <1>7 DEF Next

\* An accepted event that is not in hand is settled.
LEMMA NotInHand ==
  ASSUME TypeOK, NEW i \in DOMAIN accepted, hand # << accepted[i] >>
  PROVE  i \in 1 .. Settled
<1>1. /\ Len(accepted) \in Nat /\ DOMAIN accepted = 1 .. Len(accepted)
      /\ hand = << >> => Settled = Len(accepted)
      /\ hand # << >> => Settled = Len(accepted) - 1
  BY SettledIs
<1>2. hand # << >> => i # Len(accepted)
  BY DEF TypeOK
<1>3. QED
  BY <1>1, <1>2

\* It is an invariant, of any stream.
THEOREM ConservedInvariant == Spec => []ConservedInv
BY InitConserved, NextConserved, PTL DEF Spec

\* Until a restart no kept event is lost or counted twice: it is in each grid window
\* around it, or in one session or count window, for any order of the stream, any
\* lateness and any size and slide, past the first window after the epoch.
THEOREM EventsAreConserved ==
  ASSUME PastTheEpoch
  PROVE  Spec => []EventsConserved
<1>1. ConservedInv => EventsConserved
  <2> SUFFICES ASSUME ConservedInv, resumes = 0, NEW i \in DOMAIN accepted,
                      hand # << accepted[i] >>
               PROVE  LET e     == accepted[i]
                          homes == {w \in windows \cup closed : Holds(w, e)}
                      IN  IF OnGrid(strategy)
                          THEN /\ {w.start : w \in homes} = GridStarts(e.ts)
                               /\ Cardinality(homes) = Cardinality(GridStarts(e.ts))
                          ELSE Cardinality(homes) = 1
    BY DEF EventsConserved
  <2> DEFINE e == accepted[i]
             homes == Homes(windows \cup closed, e)
  <2>1. TypeOK /\ i \in 1 .. Settled /\ Clear
    BY NotInHand DEF ConservedInv, IInv, Clear
  <2>2. CASE OnGrid(strategy)
    <3>1. /\ Distinct(windows) /\ Distinct(closed)
          /\ StartsOf(homes) = Around(e.ts, StepOf, strategy.size)
      BY <2>1, <2>2 DEF ConservedInv, GridInv, AllAround
    <3>2. \A w \in windows, c \in closed : w.start # c.start
      BY <2>2 DEF ConservedInv, NoReopen
    <3>3. Distinct(homes)
      BY <3>1, <3>2 DEF Distinct, Homes
    <3>4. IsFiniteSet(Around(e.ts, StepOf, strategy.size))
      <4>1. e \in Event
        BY <2>1, SettledIs
      <4>2. e.ts \in Nat /\ StepOf \in Nat /\ strategy.size \in Nat
        BY <2>1, <4>1, StrategyType DEF Event, StepOf, TypeOK
      <4>3. QED
        BY <4>2, AroundFinite
    <3> HIDE DEF homes, e
    <3>5. Cardinality(homes) = Cardinality(Around(e.ts, StepOf, strategy.size))
      BY <3>1, <3>3, <3>4, CountByStart
    <3>6. StartsOf(homes) = GridStarts(e.ts) /\ Cardinality(homes) = Cardinality(GridStarts(e.ts))
      BY <3>1, <3>5, GridStartsAround
    <3>7. QED
      BY <2>2, <3>6 DEF homes, e, Homes, StartsOf
  <2>3. CASE ~OnGrid(strategy)
    <3>1. OneHome(windows \cup closed, e)
      BY <2>1, <2>3 DEF ConservedInv, RestInv, AllHomed
    <3>2. PICK w : homes = {w}
      BY <3>1 DEF OneHome
    <3>3. Cardinality({w}) = 1
      BY FS_Singleton
    <3>4. QED
      BY <2>3, <3>2, <3>3 DEF Homes
  <2>4. QED
    BY <2>2, <2>3
<1>2. QED
  BY <1>1, ConservedInvariant, PTL

(***************************************************************************)
(* Sessions                                                                *)
(***************************************************************************)

\* A session is one entity's.
OneEntity(ws) ==
  \A w \in ws : \A k, l \in DOMAIN w.events : w.events[k].entity = w.events[l].entity

\* Its events are in the order they came.
InTurn(ws) ==
  \A w \in ws : \A k, l \in DOMAIN w.events : k < l => w.events[k].id < w.events[l].id

\* The first n events of the log that are of an entity have their timestamps in order.
Steady(log, n, entity) ==
  \A i, j \in 1 .. n :
    i < j /\ log[i].entity = entity /\ log[j].entity = entity => log[i].ts <= log[j].ts

\* Two events of an entity, closer than the gap.
Near(a, b, gap) == a.entity = b.entity /\ b.ts - a.ts < gap

\* Two events in one window, which waits a gap after the second.
Shared(ws, a, b, gap) == \E w \in ws : Holds(w, a) /\ Holds(w, b) /\ w.end >= b.ts + gap

AllShared(ws, log, n, gap) ==
  \A i, j \in 1 .. n :
    i <= j /\ Near(log[i], log[j], gap) /\ Steady(log, n, log[i].entity)
      => Shared(ws, log[i], log[j], gap)

\* The first n events of the log are numbered as they came.
Numbered(log, n) ==
  /\ \A i \in 1 .. n : log[i] \in Event
  /\ \A i, j \in 1 .. n : i < j => log[i].id < log[j].id

SessionsSound(ws, log, n, gap) ==
  /\ ws \subseteq Window
  /\ OneEntity(ws)
  /\ InTurn(ws)
  /\ AllLogged(ws, log, n)
  /\ AllHomed(ws, log, n)
  /\ AllShared(ws, log, n, gap)

\* The events of a window that was added to.
LEMMA GrownPlaces ==
  ASSUME NEW w \in Window, NEW e \in Event, NEW v, v.events = Append(w.events, e)
  PROVE  /\ Len(w.events) \in Nat /\ DOMAIN w.events = 1 .. Len(w.events)
         /\ DOMAIN v.events = 1 .. Len(w.events) + 1
         /\ \A k \in 1 .. Len(w.events) : v.events[k] = w.events[k] /\ w.events[k] \in Event
         /\ v.events[Len(w.events) + 1] = e
<1>1. PICK es \in Seq(Event) : es = w.events
  BY DEF Window
<1>2. PICK gs \in Seq(Event) : gs = Append(es, e)
  BY <1>1, AppendProperties
<1>3. /\ Len(gs) = Len(es) + 1 /\ \A k \in 1 .. Len(es) : gs[k] = es[k]
      /\ gs[Len(es) + 1] = e
  BY <1>2, AppendProperties
<1>4. /\ Len(es) \in Nat /\ DOMAIN es = 1 .. Len(es) /\ DOMAIN gs = 1 .. Len(es) + 1
      /\ \A k \in 1 .. Len(es) : es[k] \in Event
  BY <1>3
<1>5. QED
  BY <1>1, <1>2, <1>3, <1>4

\* A session that goes on is of the event's entity.
LEMMA ContinuesEntity ==
  ASSUME NEW ws, OneEntity(ws), NEW w \in ws, NEW e, NEW gap, Continues(w, e, gap)
  PROVE  \A k \in DOMAIN w.events : w.events[k].entity = e.entity
BY DEF OneEntity, Continues

\* The window holds a, goes on with e, and is the only one that does.
OnlyContinues(ws, w, a, e, gap) ==
  Holds(w, a) /\ Continues(w, e, gap) /\ \A h \in ws : Continues(h, e, gap) => h = w

\* These windows have ended.
AllBehind(cl, mark) == \A c \in cl : c.end <= mark

\* What goes on is found: the one session with the entity's last event goes on with e
\* if e is near an earlier event, and no other session does.
LEMMA OneContinues ==
  ASSUME NEW ws \in SUBSET Window, NEW cl \in SUBSET Window, NEW log, NEW n \in Nat,
         NEW gap \in Nat, NEW mark \in Nat,
         Numbered(log, n + 1), SessionsSound(ws \cup cl, log, n, gap),
         AllBehind(cl, mark), log[n + 1].ts >= mark,
         NEW i \in 1 .. n, Near(log[i], log[n + 1], gap),
         Steady(log, n + 1, log[i].entity)
  PROVE  \E w \in ws : OnlyContinues(ws, w, log[i], log[n + 1], gap)
<1> DEFINE e == log[n + 1]
           T == {k \in 1 .. n : log[k].entity = e.entity}
<1>1. log[i].entity = e.entity /\ e.ts - log[i].ts < gap
  BY DEF Near
<1>2. n + 1 \in 1 .. n + 1 /\ \A k \in 1 .. n : k \in 1 .. n + 1 /\ k < n + 1
  OBVIOUS
<1>3. /\ e.ts \in Nat /\ e.id \in Nat
      /\ \A k \in 1 .. n : log[k].ts \in Nat /\ log[k].id \in Nat
  BY <1>2 DEF Numbered, Event
<1>4. PICK l \in T : \A k \in T : k <= l
  <2>1. i \in T
    BY <1>1
  <2>2. T \in SUBSET Nat /\ \A k \in T : k <= n
    OBVIOUS
  <2> HIDE DEF T
  <2>3. QED
    BY <2>1, <2>2, Greatest
<1>5. l \in 1 .. n /\ log[l].entity = e.entity /\ i <= l
  BY <1>1, <1>4
<1>6. ASSUME NEW k \in 1 .. n, log[k].entity = e.entity
      PROVE  k <= l /\ log[k].ts <= log[l].ts /\ log[l].ts <= e.ts
  <2>1. k <= l
    BY <1>4, <1>6
  <2>2. k < l => log[k].ts <= log[l].ts
    BY <1>1, <1>2, <1>5, <1>6, Zenon DEF Steady
  <2>3. log[l].ts <= log[n + 1].ts
    BY <1>1, <1>2, <1>5, Zenon DEF Steady
  <2>4. k = l => log[k].ts <= log[l].ts
    BY <1>3, <1>5
  <2>5. QED
    BY <2>1, <2>2, <2>3, <2>4
<1>7. Steady(log, n, e.entity)
  BY <1>1, <1>2 DEF Steady
<1>8. ASSUME NEW k \in 1 .. n, log[k].entity = e.entity, e.ts - log[k].ts < gap
      PROVE  Shared(ws \cup cl, log[k], log[l], gap)
  <2>1. k <= l /\ log[k].ts <= log[l].ts /\ log[l].ts <= e.ts
    BY <1>6, <1>8
  <2>2. log[l].ts - log[k].ts < gap
    BY <1>3, <1>5, <1>8, <2>1
  <2>3. Near(log[k], log[l], gap) /\ Steady(log, n, log[k].entity)
    BY <1>5, <1>7, <1>8, <2>2 DEF Near
  <2>4. QED
    BY <1>5, <2>1, <2>3, Zenon DEF SessionsSound, AllShared
<1> HIDE DEF T
<1>9. PICK w \in ws \cup cl : Holds(w, log[i]) /\ Holds(w, log[l]) /\ w.end >= log[l].ts + gap
  BY <1>1, <1>8 DEF Shared
<1>10. w \in ws
  <2>1. log[l].ts + gap > e.ts
    <3>1. log[i].ts <= log[l].ts
      BY <1>1, <1>6
    <3>2. QED
      BY <1>1, <1>3, <1>5, <3>1
  <2>2. w.end \in Int
    BY DEF Window
  <2>3. w.end > mark
    BY <1>3, <1>5, <1>9, <2>1, <2>2
  <2>4. QED
    BY <2>2, <2>3 DEF AllBehind
<1>11. /\ Len(w.events) \in Nat /\ DOMAIN w.events = 1 .. Len(w.events)
       /\ \A k \in DOMAIN w.events : w.events[k] \in Event
  BY DEF Window
<1>12. PICK p \in DOMAIN w.events : w.events[p] = log[l]
  BY <1>9 DEF Holds
<1>13. ASSUME NEW j \in DOMAIN w.events, j > p
       PROVE  FALSE
  <2>1. w.events[j].entity = e.entity
    BY <1>5, <1>12 DEF SessionsSound, OneEntity
  <2>2. log[l].id < w.events[j].id
    BY <1>11, <1>12, <1>13 DEF SessionsSound, InTurn
  <2>3. Holds(w, w.events[j])
    BY DEF Holds
  <2>4. PICK m \in 1 .. n : log[m] = w.events[j]
    BY <2>3, Zenon DEF SessionsSound, AllLogged
  <2>5. m <= l
    BY <1>6, <2>1, <2>4
  <2>6. m < l => log[m].id < log[l].id
    BY <1>2, <1>5, Zenon DEF Numbered
  <2>7. QED
    BY <1>3, <1>5, <2>2, <2>4, <2>5, <2>6
<1>14. Continues(w, e, gap)
  <2>1. e.ts - log[l].ts < gap
    <3>1. log[i].ts <= log[l].ts
      BY <1>1, <1>6
    <3>2. QED
      BY <1>1, <1>3, <1>5, <3>1
  <2>2. QED
    BY <1>5, <1>12, <1>13, <2>1 DEF Continues
<1>15. ASSUME NEW h \in ws, Continues(h, e, gap)
       PROVE  h = w
  <2>1. PICK q \in DOMAIN h.events : h.events[q].entity = e.entity /\ e.ts - h.events[q].ts < gap
    BY <1>15 DEF Continues
  <2>2. Holds(h, h.events[q])
    BY DEF Holds
  <2>3. PICK m \in 1 .. n : log[m] = h.events[q]
    BY <2>2, Zenon DEF SessionsSound, AllLogged
  <2>4. Shared(ws \cup cl, log[m], log[l], gap)
    BY <1>8, <2>1, <2>3
  <2>5. PICK u \in ws \cup cl : Holds(u, log[m]) /\ Holds(u, log[l])
    BY <2>4 DEF Shared
  <2>6. OneHome(ws \cup cl, log[l]) /\ OneHome(ws \cup cl, log[m])
    BY <1>5 DEF SessionsSound, AllHomed
  <2>7. u = w
    BY <1>9, <2>5, <2>6 DEF OneHome, Homes
  <2>8. u = h
    BY <2>2, <2>3, <2>5, <2>6 DEF OneHome, Homes
  <2>9. QED
    BY <2>7, <2>8
<1>16. QED
  BY <1>9, <1>10, <1>14, <1>15 DEF OnlyContinues

\* A session put keeps the sessions sound.
LEMMA SessionPutSound ==
  ASSUME NEW ws \in SUBSET Window, NEW cl \in SUBSET Window, NEW log, NEW n \in Nat,
         NEW gap \in Nat, NEW mark \in Nat, NEW ws2,
         Numbered(log, n + 1), SessionsSound(ws \cup cl, log, n, gap),
         AllBehind(cl, mark), log[n + 1].ts >= mark,
         SessionPut(ws, ws2, log[n + 1], gap)
  PROVE  /\ OneEntity(ws2 \cup cl)
         /\ InTurn(ws2 \cup cl)
         /\ AllShared(ws2 \cup cl, log, n + 1, gap)
<1> DEFINE e == log[n + 1]
           all == ws \cup cl
<1>1. n + 1 \in 1 .. n + 1 /\ \A k \in 1 .. n : k \in 1 .. n + 1 /\ k < n + 1
  OBVIOUS
<1>2. /\ e \in Event /\ e.ts \in Nat
      /\ \A k \in 1 .. n : log[k].ts \in Nat /\ log[k].id < e.id
      /\ \A k \in 1 .. n + 1 : log[k].ts \in Nat
  BY <1>1 DEF Numbered, Event
<1>3. /\ OneEntity(all) /\ InTurn(all) /\ AllLogged(all, log, n) /\ AllShared(all, log, n, gap)
  BY DEF SessionsSound
<1>4. ASSUME NEW i \in 1 .. n, NEW j \in 1 .. n, i <= j, Near(log[i], log[j], gap),
             Steady(log, n + 1, log[i].entity)
      PROVE  Shared(all, log[i], log[j], gap)
  <2>1. Steady(log, n, log[i].entity)
    BY <1>1, <1>4 DEF Steady
  <2>2. QED
    BY <1>3, <1>4, <2>1, Zenon DEF AllShared
\* All pairs among the first n are still together, and the new event is with its own.
<1>5. ASSUME NEW v \in ws2, Holds(v, e), v.end = e.ts + gap,
             \A i \in 1 .. n :
               Near(log[i], e, gap) /\ Steady(log, n + 1, log[i].entity) => Holds(v, log[i]),
             \A i, j \in 1 .. n :
               i <= j /\ Near(log[i], log[j], gap) /\ Steady(log, n + 1, log[i].entity)
                 => Shared(ws2 \cup cl, log[i], log[j], gap)
      PROVE  AllShared(ws2 \cup cl, log, n + 1, gap)
  <2> SUFFICES ASSUME NEW i \in 1 .. n + 1, NEW j \in 1 .. n + 1, i <= j,
                      Near(log[i], log[j], gap), Steady(log, n + 1, log[i].entity)
               PROVE  Shared(ws2 \cup cl, log[i], log[j], gap)
    BY DEF AllShared
  <2>1. CASE j \in 1 .. n
    <3>1. i \in 1 .. n
      BY <2>1
    <3>2. QED
      BY <1>5, <2>1, <3>1
  <2>2. CASE j = n + 1
    <3>1. v.end >= e.ts + gap
      BY <1>2, <1>5
    <3>2. Holds(v, log[i])
      <4>1. CASE i \in 1 .. n
        BY <1>5, <2>2, <4>1
      <4>2. CASE i = n + 1
        BY <1>5, <4>2
      <4>3. QED
        BY <4>1, <4>2
    <3>3. QED
      BY <1>5, <2>2, <3>1, <3>2 DEF Shared
  <2>3. QED
    BY <2>1, <2>2
<1>6. CASE /\ \A w \in ws : ~Continues(w, e, gap)
           /\ \E v \in Window : v.events = <<e>> /\ v.end = e.ts + gap /\ ws2 = ws \cup {v}
  <2>1. PICK v \in Window : v.events = <<e>> /\ v.end = e.ts + gap /\ ws2 = ws \cup {v}
    BY <1>6
  <2>2. DOMAIN v.events = {1}
    BY <2>1
  <2>3. OneEntity(ws2 \cup cl) /\ InTurn(ws2 \cup cl)
    <3>1. ASSUME NEW w \in ws2 \cup cl, NEW k \in DOMAIN w.events, NEW l \in DOMAIN w.events
          PROVE  /\ w.events[k].entity = w.events[l].entity
                 /\ k < l => w.events[k].id < w.events[l].id
      <4>1. CASE w \in all
        BY <1>3, <4>1 DEF OneEntity, InTurn
      <4>2. CASE w = v
        BY <2>2, <4>2
      <4>3. QED
        BY <2>1, <4>1, <4>2
    <3>2. QED
      BY <3>1 DEF OneEntity, InTurn
  <2>4. Holds(v, e)
    BY <2>1, HoldsFirst
  <2>5. ASSUME NEW i \in 1 .. n, Near(log[i], e, gap), Steady(log, n + 1, log[i].entity)
        PROVE  FALSE
    <3>1. \E w \in ws : OnlyContinues(ws, w, log[i], log[n + 1], gap)
      BY <2>5, OneContinues
    <3>2. QED
      BY <1>6, <3>1 DEF OnlyContinues
  <2>6. ASSUME NEW i \in 1 .. n, NEW j \in 1 .. n, i <= j, Near(log[i], log[j], gap),
               Steady(log, n + 1, log[i].entity)
        PROVE  Shared(ws2 \cup cl, log[i], log[j], gap)
    <3>1. Shared(all, log[i], log[j], gap)
      BY <1>4, <2>6
    <3>2. QED
      BY <2>1, <3>1 DEF Shared
  <2>7. AllShared(ws2 \cup cl, log, n + 1, gap)
    BY <1>5, <2>1, <2>4, <2>5, <2>6
  <2>8. QED
    BY <2>3, <2>7
<1>7. CASE \E h \in ws, v \in Window :
             /\ Continues(h, e, gap)
             /\ v.events = Append(h.events, e) /\ v.end = e.ts + gap
             /\ ws2 = (ws \ {h}) \cup {v}
  <2>1. PICK h \in ws, v \in Window :
               /\ Continues(h, e, gap)
               /\ v.events = Append(h.events, e) /\ v.end = e.ts + gap
               /\ ws2 = (ws \ {h}) \cup {v}
    BY <1>7
  <2>2. /\ Len(h.events) \in Nat /\ DOMAIN h.events = 1 .. Len(h.events)
        /\ DOMAIN v.events = 1 .. Len(h.events) + 1
        /\ \A k \in 1 .. Len(h.events) : v.events[k] = h.events[k] /\ h.events[k] \in Event
        /\ v.events[Len(h.events) + 1] = e
    BY <1>2, <2>1, GrownPlaces
  <2>3. \A k \in DOMAIN h.events : h.events[k].entity = e.entity
    BY <1>3, <2>1, ContinuesEntity
  <2>4. \A k \in DOMAIN h.events : h.events[k].id < e.id
    <3> SUFFICES ASSUME NEW k \in DOMAIN h.events PROVE h.events[k].id < e.id
      OBVIOUS
    <3>1. Holds(h, h.events[k])
      BY DEF Holds
    <3>2. PICK m \in 1 .. n : log[m] = h.events[k]
      BY <1>3, <3>1, Zenon DEF AllLogged
    <3>3. QED
      BY <1>2, <3>2
  <2>5. OneEntity(ws2 \cup cl) /\ InTurn(ws2 \cup cl)
    <3>1. ASSUME NEW w \in ws2 \cup cl, NEW k \in DOMAIN w.events, NEW l \in DOMAIN w.events
          PROVE  /\ w.events[k].entity = w.events[l].entity
                 /\ k < l => w.events[k].id < w.events[l].id
      <4>1. CASE w \in all
        BY <1>3, <4>1 DEF OneEntity, InTurn
      <4>2. CASE w = v
        <5>1. \A p \in DOMAIN v.events :
                \/ p \in DOMAIN h.events /\ v.events[p] = h.events[p]
                \/ p = Len(h.events) + 1 /\ v.events[p] = e
          BY <2>2
        <5>2. v.events[k].entity = v.events[l].entity
          BY <2>3, <4>2, <5>1
        <5>3. k < l => k \in DOMAIN h.events
          BY <2>2, <4>2
        <5>4. k < l => v.events[k].id < v.events[l].id
          <6> SUFFICES ASSUME k < l PROVE v.events[k].id < v.events[l].id
            OBVIOUS
          <6>1. k \in DOMAIN h.events /\ v.events[k] = h.events[k]
            BY <2>2, <5>3
          <6>2. CASE l \in DOMAIN h.events
            <7>1. h.events[k].id < h.events[l].id
              BY <1>3, <2>1, <6>1, <6>2 DEF InTurn
            <7>2. QED
              BY <2>2, <6>1, <6>2, <7>1
          <6>3. CASE l \notin DOMAIN h.events
            BY <2>4, <4>2, <5>1, <6>1, <6>3
          <6>4. QED
            BY <6>2, <6>3
        <5>5. QED
          BY <4>2, <5>2, <5>4
      <4>3. QED
        BY <2>1, <4>1, <4>2
    <3>2. QED
      BY <3>1 DEF OneEntity, InTurn
  <2>6. Holds(v, e) /\ \A x : Holds(h, x) => Holds(v, x)
    BY <1>2, <2>1, HoldsGrown
  <2>7. ASSUME NEW i \in 1 .. n, Near(log[i], e, gap), Steady(log, n + 1, log[i].entity)
        PROVE  Holds(v, log[i])
    <3>1. PICK w \in ws : OnlyContinues(ws, w, log[i], log[n + 1], gap)
      BY <2>7, OneContinues
    <3>2. h = w /\ Holds(w, log[i])
      BY <2>1, <3>1 DEF OnlyContinues
    <3>3. QED
      BY <2>6, <3>2
  <2>8. ASSUME NEW i \in 1 .. n, NEW j \in 1 .. n, i <= j, Near(log[i], log[j], gap),
               Steady(log, n + 1, log[i].entity)
        PROVE  Shared(ws2 \cup cl, log[i], log[j], gap)
    <3>1. PICK w \in all : Holds(w, log[i]) /\ Holds(w, log[j]) /\ w.end >= log[j].ts + gap
      BY <1>4, <2>8 DEF Shared
    <3>2. CASE w = h
      <4>1. PICK p \in DOMAIN h.events : h.events[p] = log[j]
        BY <3>1, <3>2 DEF Holds
      <4>2. log[j].entity = e.entity /\ log[i].entity = e.entity
        BY <2>3, <2>8, <4>1 DEF Near
      <4>3. log[j].ts <= log[n + 1].ts
        BY <1>1, <2>8, <4>2, Zenon DEF Steady
      <4>4. v.end >= log[j].ts + gap
        BY <1>2, <2>1, <4>3
      <4>5. v \in ws2 \cup cl /\ Holds(v, log[i]) /\ Holds(v, log[j])
        BY <2>1, <2>6, <3>1, <3>2
      <4>6. QED
        BY <4>4, <4>5 DEF Shared
    <3>3. CASE w # h
      BY <2>1, <3>1, <3>3 DEF Shared
    <3>4. QED
      BY <3>2, <3>3
  <2>9. AllShared(ws2 \cup cl, log, n + 1, gap)
    BY <1>5, <2>1, <2>6, <2>7, <2>8
  <2>10. QED
    BY <2>5, <2>9
<1>8. QED
  BY <1>6, <1>7 DEF SessionPut

SessionInv ==
  strategy.kind = "session" /\ resumes = 0 =>
    /\ OneEntity(windows \cup closed)
    /\ InTurn(windows \cup closed)
    /\ AllShared(windows \cup closed, accepted, Settled, strategy.size)

\* Only the first n events of the log matter.
LEMMA SameLog ==
  ASSUME NEW ws, NEW log, NEW log2, NEW n \in Nat, NEW gap,
         \A m \in 1 .. n : log2[m] = log[m], AllShared(ws, log, n, gap)
  PROVE  AllShared(ws, log2, n, gap)
BY DEF AllShared, Steady

LEMMA ObserveSession ==
  ASSUME ConservedInv, SessionInv, NEW entity \in Entities, NEW ts \in Times, Observe(entity, ts)
  PROVE  SessionInv'
<1>1. CASE accepted' = accepted /\ UNCHANGED <<strategy, resumes, windows, closed, hand>>
  <2>1. Settled' = Settled
    BY <1>1 DEF Settled
  <2>2. QED
    BY <1>1, <2>1 DEF SessionInv
<1>2. CASE accepted' # accepted
  <2>1. /\ Settled = Len(accepted) /\ Settled' = Len(accepted)
        /\ \A m \in 1 .. Len(accepted) : accepted'[m] = accepted[m]
        /\ \E gone \in SUBSET windows : windows' = windows \ gone /\ closed' = closed \cup gone
        /\ UNCHANGED <<strategy, resumes>>
    BY <1>2, AcceptKeeps DEF ConservedInv, IInv
  <2>2. windows' \cup closed' = windows \cup closed
    BY <2>1
  <2>3. Len(accepted) \in Nat
    BY SettledIs DEF ConservedInv, IInv
  <2>4. SUFFICES ASSUME strategy.kind = "session", resumes = 0
                 PROVE  /\ OneEntity(windows' \cup closed')
                        /\ InTurn(windows' \cup closed')
                        /\ AllShared(windows' \cup closed', accepted', Settled', strategy'.size)
    BY <2>1 DEF SessionInv
  <2>5. /\ OneEntity(windows \cup closed)
        /\ InTurn(windows \cup closed)
        /\ AllShared(windows \cup closed, accepted, Len(accepted), strategy.size)
    BY <2>1, <2>4 DEF SessionInv
  <2>6. AllShared(windows \cup closed, accepted', Len(accepted), strategy.size)
    BY <2>1, <2>3, <2>5, SameLog
  <2>7. QED
    BY <2>1, <2>2, <2>5, <2>6
<1>3. QED
  <2>1. DropLate([id |-> received + 1, entity |-> entity, ts |-> ts])
          => accepted' = accepted /\ UNCHANGED <<strategy, resumes, windows, closed, hand>>
    BY DEF Observe, DropLate
  <2>2. Accept([id |-> received + 1, entity |-> entity, ts |-> ts]) => accepted' # accepted
    BY AcceptGrows DEF ConservedInv, IInv
  <2>3. QED
    BY <1>1, <1>2, <2>1, <2>2 DEF Observe

LEMMA SettleSession ==
  ASSUME ConservedInv, SessionInv, Settle
  PROVE  SessionInv'
<1> DEFINE n == Settled
<1>1. /\ hand # << >> /\ hand' = << >>
      /\ windows' = Assign(strategy, windows, Head(hand))
      /\ UNCHANGED <<strategy, resumes, accepted, closed>>
  BY DEF Settle
<1>2. SUFFICES ASSUME strategy.kind = "session", resumes = 0
               PROVE  /\ OneEntity(windows' \cup closed)
                      /\ InTurn(windows' \cup closed)
                      /\ AllShared(windows' \cup closed, accepted, Settled', strategy.size)
  BY <1>1 DEF SessionInv
<1>3. /\ TypeOK
      /\ Len(accepted) \in Nat /\ DOMAIN accepted = 1 .. Len(accepted)
      /\ \A i \in 1 .. Len(accepted) : accepted[i] \in Event
      /\ n \in Nat /\ n + 1 = Len(accepted) /\ Head(hand) = accepted[n + 1]
      /\ Settled' = n + 1
  <2>1. TypeOK
    BY DEF ConservedInv, IInv
  <2>2. /\ Len(accepted) \in Nat /\ DOMAIN accepted = 1 .. Len(accepted)
        /\ \A i \in 1 .. Len(accepted) : accepted[i] \in Event
        /\ Len(accepted) >= 1 /\ Settled = Len(accepted) - 1
        /\ Head(hand) = accepted[Len(accepted)]
    BY <1>1, <2>1, SettledIs, Zenon
  <2>3. Settled' = Len(accepted)
    BY <1>1 DEF Settled
  <2>4. QED
    BY <2>1, <2>2, <2>3
<1> HIDE DEF n
<1>4. Numbered(accepted, n + 1)
  BY <1>3 DEF ConservedInv, LogInv, Numbered
<1>5. /\ windows \in SUBSET Window /\ closed \in SUBSET Window
      /\ strategy.size \in Nat /\ watermark \in Nat
  BY <1>3, StrategyType DEF TypeOK
<1>6. SessionsSound(windows \cup closed, accepted, n, strategy.size)
  <2>1. ~OnGrid(strategy) /\ Clear
    BY <1>2 DEF OnGrid, Clear
  <2>2. AllLogged(windows \cup closed, accepted, n) /\ AllHomed(windows \cup closed, accepted, n)
    BY <2>1 DEF ConservedInv, HeldInv, RestInv, n
  <2>3. /\ OneEntity(windows \cup closed) /\ InTurn(windows \cup closed)
        /\ AllShared(windows \cup closed, accepted, n, strategy.size)
    BY <1>2 DEF SessionInv, n
  <2>4. QED
    BY <1>5, <2>2, <2>3 DEF SessionsSound
<1>7. AllBehind(closed, watermark)
  BY <1>2 DEF ConservedInv, IInv, ClosedBehind, AllBehind
<1>8. accepted[n + 1].ts >= watermark
  BY <1>1, <1>3 DEF ConservedInv, IInv, HandLive
<1>9. SessionPut(windows, windows', accepted[n + 1], strategy.size)
  <2>1. windows' = AssignSession(windows, accepted[n + 1], strategy.size)
    BY <1>1, <1>2, <1>3 DEF Assign
  <2>2. accepted[n + 1] \in Event
    BY <1>3
  <2>3. QED
    BY <1>5, <2>1, <2>2, SessionPuts
<1>10. /\ OneEntity(windows' \cup closed)
       /\ InTurn(windows' \cup closed)
       /\ AllShared(windows' \cup closed, accepted, n + 1, strategy.size)
  BY <1>3, <1>4, <1>5, <1>6, <1>7, <1>8, <1>9, SessionPutSound
<1>11. QED
  BY <1>3, <1>10

\* Until a restart the watermark never closes a session between two events of an
\* entity closer than the gap, for any stream in which the entity's events come in
\* order, any lateness and any gap.
THEOREM SessionsSplitByGap == Spec => []SessionsSplitOnlyByGap
<1>1. Init => SessionInv
  <2> SUFFICES ASSUME Init PROVE SessionInv
    OBVIOUS
  <2>1. windows \cup closed = {} /\ Settled = 0
    BY DEF Init, Settled
  <2>2. 1 .. Settled = {}
    BY <2>1
  <2>3. QED
    BY <2>1, <2>2 DEF SessionInv, OneEntity, InTurn, AllShared
<1>2. ConservedInv /\ SessionInv /\ [Next]_vars => SessionInv'
  <2> SUFFICES ASSUME ConservedInv, SessionInv, [Next]_vars PROVE SessionInv'
    OBVIOUS
  <2>1. CASE \E entity \in Entities, ts \in Times : Observe(entity, ts)
    BY <2>1, ObserveSession
  <2>2. CASE Settle
    BY <2>2, SettleSession
  <2>3. CASE Checkpoint \/ UNCHANGED vars
    <3>1. UNCHANGED <<strategy, resumes, windows, closed, accepted, hand>>
      BY <2>3 DEF Checkpoint, vars
    <3>2. UNCHANGED Settled
      BY <3>1 DEF Settled
    <3>3. QED
      BY <3>1, <3>2 DEF SessionInv
  <2>4. CASE Resume
    BY <2>4 DEF Resume, ConservedInv, IInv, TypeOK, SessionInv
  <2>5. QED
    BY <2>1, <2>2, <2>3, <2>4 DEF Next
<1>3. ConservedInv /\ SessionInv => SessionsSplitOnlyByGap
  <2> SUFFICES ASSUME ConservedInv, SessionInv, strategy.kind = "session", resumes = 0,
                      NEW i \in DOMAIN accepted, NEW j \in DOMAIN accepted,
                      i < j, accepted[i].entity = accepted[j].entity,
                      accepted[j].ts - accepted[i].ts < strategy.size,
                      InOrder(accepted[i].entity),
                      hand # << accepted[j] >>
               PROVE  \E w \in windows \cup closed :
                        /\ Holds(w, accepted[i]) /\ Holds(w, accepted[j])
                        /\ w.end >= accepted[j].ts + strategy.size
    BY DEF SessionsSplitOnlyByGap
  <2>1. j \in 1 .. Settled
    BY NotInHand DEF ConservedInv, IInv
  <2>2. /\ DOMAIN accepted = 1 .. Len(accepted) /\ Len(accepted) \in Nat
        /\ Settled \in Int /\ Settled <= Len(accepted)
    <3>1. TypeOK
      BY DEF ConservedInv, IInv
    <3>2. QED
      BY <3>1, SettledIs
  <2>3. i \in 1 .. Settled
    BY <2>1, <2>2
  <2>4. Steady(accepted, Settled, accepted[i].entity)
    BY <2>2 DEF InOrder, Steady
  <2>5. Near(accepted[i], accepted[j], strategy.size)
    BY DEF Near
  <2>6. i <= j
    BY <2>1, <2>3
  <2>7. AllShared(windows \cup closed, accepted, Settled, strategy.size)
    BY DEF SessionInv
  <2>8. Shared(windows \cup closed, accepted[i], accepted[j], strategy.size)
    BY <2>1, <2>3, <2>4, <2>5, <2>6, <2>7, Zenon DEF AllShared
  <2>9. QED
    BY <2>8 DEF Shared
<1>4. QED
  BY <1>1, <1>2, <1>3, ConservedInvariant, PTL DEF Spec

=============================================================================
