----------------------------- MODULE EventTime -----------------------------
(***************************************************************************)
(* The event-time half of Pipeline::run: the watermark that drops late     *)
(* events, the windows that expire against it, and the assignment of each  *)
(* event that was kept to its windows.  The operators, the channels and    *)
(* the metrics are left to module Pipeline, which implements this one.     *)
(*                                                                         *)
(* An event is taken up in two steps, as in the loop body: Observe is the  *)
(* watermark and expiry at its top, Settle the assignment at its bottom.   *)
(* Between the two the event is in hand, while the operators run.  A       *)
(* checkpoint holds the open windows and no watermark, so Resume starts    *)
(* from the saved windows with the watermark back at the epoch.            *)
(***************************************************************************)
EXTENDS Windowing, FiniteSets

CONSTANTS
  Entities,      \* the entity ids of the stream
  Times,         \* the timestamps its events may carry
  Strategies,    \* the window strategies a topology may have
  MaxLateness,   \* max_lateness, u64 seconds in the topology
  MaxEvents,     \* bound: events observed over all runs
  MaxResumes     \* bound: restarts from a checkpoint

ASSUME TimesAssumption == Times \subseteq Nat
ASSUME LatenessAssumption == MaxLateness \in Nat
ASSUME StrategiesAssumption ==
  Strategies \subseteq
    [kind : {"tumbling", "sliding", "session", "count"}, size : Nat, slide : Nat]
ASSUME BoundsAssumption == MaxEvents \in Nat /\ MaxResumes \in Nat

VARIABLES
  strategy,   \* WindowManager::strategy, set once from the topology
  received,   \* how many events were observed, late ones included
  watermark,  \* Watermark::current
  late,       \* Watermark::late_count
  windows,    \* WindowManager::windows
  hand,       \* the event being processed: << >> or <<e>>
  saved,      \* the windows of the latest checkpoint
  horizon,    \* history: the watermark when that checkpoint was taken
  resumes,    \* how many times the pipeline was restarted
  accepted,   \* history: the events that were not late, in order
  closed      \* history: the windows that expired

vars == <<strategy, received, watermark, late, windows, hand, saved, horizon, resumes,
          accepted, closed>>

Event == [id : Nat, entity : Entities, ts : Nat]
Window == [opener : Nat, start : Int, end : Int, events : Seq(Event)]

Init ==
  /\ strategy \in Strategies
  /\ received = 0
  /\ watermark = Epoch
  /\ late = 0
  /\ windows = {}
  /\ hand = << >>
  /\ saved = {}
  /\ horizon = Epoch
  /\ resumes = 0
  /\ accepted = << >>
  /\ closed = {}

\* Mutant: a late event is counted but goes on to the operators.
DropLateGoesOn(e) ==
  /\ IsLate(e.ts, watermark)
  /\ late' = late + 1
  /\ hand' = <<e>>
  /\ UNCHANGED <<watermark, windows, accepted, closed>>

\* An event before the watermark is counted and dropped.
DropLate(e) ==
  /\ IsLate(e.ts, watermark)
  /\ late' = late + 1
  /\ UNCHANGED <<watermark, windows, hand, accepted, closed>>

\* Any other event moves the watermark, which expires windows, and is kept.
Accept(e) ==
  /\ ~IsLate(e.ts, watermark)
  /\ watermark' = Advanced(e.ts, watermark, MaxLateness)
  /\ LET expired == Expired(strategy, windows, watermark')
     IN  /\ windows' = windows \ expired
         /\ closed' = closed \cup expired
  /\ hand' = <<e>>
  /\ accepted' = Append(accepted, e)
  /\ UNCHANGED late

Observe(entity, ts) ==
  /\ hand = << >>
  /\ received < MaxEvents
  /\ received' = received + 1
  /\ LET e == [id |-> received + 1, entity |-> entity, ts |-> ts]
     IN  DropLate(e) \/ Accept(e)
  /\ UNCHANGED <<strategy, saved, horizon, resumes>>

\* The operators are through with the event, filtered or not.
Settle ==
  /\ hand # << >>
  /\ windows' = Assign(strategy, windows, Head(hand))
  /\ hand' = << >>
  /\ UNCHANGED <<strategy, received, watermark, late, saved, horizon, resumes, accepted, closed>>

\* Between events the windows are saved.  The watermark is not.
Checkpoint ==
  /\ hand = << >>
  /\ saved' = windows
  /\ horizon' = watermark
  /\ UNCHANGED <<strategy, received, watermark, late, windows, hand, resumes, accepted, closed>>

\* The process ends or dies at any point and a new one starts from the checkpoint.
Resume ==
  /\ resumes < MaxResumes
  /\ resumes' = resumes + 1
  /\ windows' = saved
  /\ watermark' = Epoch
  /\ late' = 0
  /\ hand' = << >>
  /\ UNCHANGED <<strategy, received, saved, horizon, accepted, closed>>

Next ==
  \/ \E entity \in Entities, ts \in Times : Observe(entity, ts)
  \/ Settle
  \/ Checkpoint
  \/ Resume

Spec == Init /\ [][Next]_vars

(***************************************************************************)
(* Properties                                                              *)
(***************************************************************************)

\* Every variable has its type; an event in hand is the last one accepted.
TypeOK ==
  /\ strategy \in Strategies
  /\ received \in Nat
  /\ watermark \in Nat
  /\ late \in Nat
  /\ windows \subseteq Window
  /\ hand = << >> \/ (accepted # << >> /\ hand = <<accepted[Len(accepted)]>>)
  /\ saved \subseteq Window
  /\ horizon \in Nat
  /\ resumes \in Nat
  /\ accepted \in Seq(Event)
  /\ closed \subseteq Window

\* Until a restart, the watermark is exactly max_lateness behind the newest event
\* kept, or still at the epoch: an out-of-order event inside the lateness never
\* moves it back (Watermark::advance; the bug CHANGELOG.md:33-35 records).
WatermarkTrails ==
  resumes = 0 =>
    /\ \A i \in DOMAIN accepted : watermark >= accepted[i].ts - MaxLateness
    /\ \/ watermark = Epoch
       \/ \E i \in DOMAIN accepted : watermark = accepted[i].ts - MaxLateness

\* Until a restart, no event that follows a newer one by more than max_lateness
\* is kept (Pipeline::run drops what advance refuses).
NoStragglerAccepted ==
  resumes = 0 =>
    \A i, j \in DOMAIN accepted :
      i < j => accepted[j].ts >= accepted[i].ts - MaxLateness

\* An open time window ends after the watermark, so none is left behind to be
\* flushed by an event long past it (expire, then assign, in Pipeline::run).  This
\* also holds for the windows a checkpoint brings back.
OpenWindowsLive ==
  strategy.kind # "count" /\ strategy.size > 0 =>
    \A w \in windows : w.end > watermark

\* Until a restart, a tumbling or sliding window that closed, and flushed the
\* operators, is never opened and flushed a second time for an out-of-order event.
NoReopen ==
  OnGrid(strategy) /\ resumes = 0 =>
    \A w \in windows, c \in closed : w.start # c.start

\* The windows an event ought to be in: every grid interval that contains it.
GridStarts(ts) ==
  LET step == IF strategy.kind = "tumbling" THEN strategy.size ELSE strategy.slide
  IN  {s \in {k * step : k \in 0 .. ts} : s <= ts /\ ts < s + strategy.size}

Holds(w, e) == \E k \in DOMAIN w.events : w.events[k] = e

\* Until a restart, every event that was kept and settled is in the grid windows
\* around it, or in one session or count window, open or closed: no assignment or
\* expiry loses it or counts it twice (WindowManager::assign and expire).
EventsConserved ==
  resumes = 0 =>
    \A i \in DOMAIN accepted :
      LET e     == accepted[i]
          homes == {w \in windows \cup closed : Holds(w, e)}
      IN  hand # <<e>> =>
            IF OnGrid(strategy)
            THEN /\ {w.start : w \in homes} = GridStarts(e.ts)
                 /\ Cardinality(homes) = Cardinality(GridStarts(e.ts))
            ELSE Cardinality(homes) = 1

\* A count window closes exactly full, and there is never a second one open
\* behind it: assign fills the last window, and expire takes it before the next
\* event settles, also when a full window comes back from a checkpoint.
CountWindowsFill ==
  strategy.kind = "count" /\ strategy.size > 0 =>
    /\ Cardinality(windows) <= 1
    /\ \A c \in closed : EventCount(c) = strategy.size

\* The events of an entity arrived in the order of their timestamps.
InOrder(entity) ==
  \A i, j \in DOMAIN accepted :
    i < j /\ accepted[i].entity = entity /\ accepted[j].entity = entity =>
      accepted[i].ts <= accepted[j].ts

\* A session window stays open for the gap after each of its events ("Extend the
\* window end" in assign).
SessionWaitsForGap ==
  strategy.kind = "session" =>
    \A w \in windows \cup closed : \A k \in DOMAIN w.events :
      w.end >= w.events[k].ts + strategy.size

\* Until a restart, two events of an entity closer than the gap share a session, if
\* the entity's events came in order: the watermark, which other entities move too,
\* never closes the session between them, and it closes a gap after the last one.
SessionsSplitOnlyByGap ==
  strategy.kind = "session" /\ resumes = 0 =>
    \A i, j \in DOMAIN accepted :
      LET a == accepted[i]
          b == accepted[j]
      IN  /\ i < j
          /\ a.entity = b.entity
          /\ b.ts - a.ts < strategy.size
          /\ InOrder(a.entity)
          /\ hand # <<b>>
          => \E w \in windows \cup closed :
               Holds(w, a) /\ Holds(w, b) /\ w.end >= b.ts + strategy.size

\* A resumed pipeline drops what the pipeline that wrote the checkpoint would have
\* dropped as late: "the state a resume sees is the live state a crash would have
\* left" (pipeline.rs, above the closing write_checkpoint).
ResumeKeepsLateness ==
  [][accepted' # accepted => accepted'[Len(accepted')].ts >= horizon]_vars

=============================================================================
