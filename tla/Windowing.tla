----------------------------- MODULE Windowing -----------------------------
(***************************************************************************)
(* The pure algorithms of window.rs and watermark.rs: how the watermark    *)
(* moves, which windows an event is assigned to, and which windows expire. *)
(*                                                                         *)
(* Time is counted in milliseconds since the epoch, an Int.  An event is a *)
(* record with the fields id, entity and ts, its id being its place in the *)
(* order of arrival.  The Vec<Window> of a WindowManager is a SET of window *)
(* records; `opener` is the id of the event a window was pushed for, so    *)
(* the order of openers is the order of the Vec (drain and partition are   *)
(* stable, and nothing else reorders it).  The events of a window are kept *)
(* in arrival order; the per-entity vectors of the code are the            *)
(* subsequences of one entity.                                             *)
(***************************************************************************)
EXTENDS Integers, Sequences

Epoch == 0

(***************************************************************************)
(* Watermark                                                               *)
(***************************************************************************)

Later(a, b) == IF a >= b THEN a ELSE b

\* Mutant: the comparison is off by one.
IsLateByOne(ts, current) == ts + 1 < current

IsLate(ts, current) == ts < current

\* Mutant: every event sets the watermark, as before the fix in CHANGELOG.md:33-35.
AdvancedBack(ts, current, maxLateness) == ts - maxLateness

\* The position after an event that is not late.
Advanced(ts, current, maxLateness) == Later(current, ts - maxLateness)

(***************************************************************************)
(* Strategies.  The unused fields of a strategy are 0.                     *)
(***************************************************************************)

Tumbling(d)      == [kind |-> "tumbling", size |-> d,   slide |-> 0]
Sliding(d, step) == [kind |-> "sliding",  size |-> d,   slide |-> step]
Session(gap)     == [kind |-> "session",  size |-> gap, slide |-> 0]
Count(n)         == [kind |-> "count",    size |-> n,   slide |-> 0]

\* A pipeline on which set_window was not called: no windows and no watermark.
Unwindowed       == [kind |-> "none",     size |-> 0,   slide |-> 0]

\* Two strategies whose windows sit on a fixed grid of event time.
OnGrid(strategy) == strategy.kind \in {"tumbling", "sliding"}

(***************************************************************************)
(* Windows                                                                 *)
(***************************************************************************)

\* A window pushed for e, which is its first event.
OpenedBy(e, start, end) ==
  [opener |-> e.id, start |-> start, end |-> end, events |-> <<e>>]

WithEvent(w, e) == [w EXCEPT !.events = Append(@, e)]

EventCount(w) == Len(w.events)

\* The earliest pushed of some windows: what `position` finds.
FirstOf(ws) == CHOOSE w \in ws : \A v \in ws : w.opener <= v.opener

LastOf(ws) == CHOOSE w \in ws : \A v \in ws : w.opener >= v.opener

\* i64 division of the code: towards zero, where \div rounds down.
TruncDiv(a, b) == IF a >= 0 THEN a \div b ELSE -((-a) \div b)

\* Put e in the window that starts at `start`, pushed if there is none.
AddAtStart(ws, start, size, e) ==
  LET found == {w \in ws : w.start = start}
      host  == FirstOf(found)
  IN  IF found = {}
      THEN ws \cup {OpenedBy(e, start, start + size)}
      ELSE (ws \ {host}) \cup {WithEvent(host, e)}

TumblingStart(ts, size) == TruncDiv(ts, size) * size

AssignTumbling(ws, e, size) ==
  IF size <= 0
  THEN ws
  ELSE AddAtStart(ws, TumblingStart(e.ts, size), size, e)

\* Mutant: a window does not contain its start.
SlidingStartsOpen(ts, size, slide) ==
  LET earliest == TruncDiv(ts - size + slide, slide) * slide
  IN  {start \in {earliest + k * slide : k \in 0 .. TruncDiv(ts - earliest, slide)} :
         start < ts /\ ts < start + size}

\* The starts the loop visits and whose window contains ts.
SlidingStarts(ts, size, slide) ==
  LET earliest == TruncDiv(ts - size + slide, slide) * slide
      visited  == {earliest + k * slide : k \in 0 .. TruncDiv(ts - earliest, slide)}
  IN  {start \in visited : start <= ts /\ ts < start + size}

\* Windows are found by their start, which no two share, so the visits of the
\* loop commute and are taken at once.
AssignSliding(ws, e, size, slide) ==
  IF size <= 0 \/ slide <= 0
  THEN ws
  ELSE LET starts == SlidingStarts(e.ts, size, slide)
           open   == {w.start : w \in ws}
       IN  {IF w.start \in starts THEN WithEvent(w, e) ELSE w : w \in ws}
           \cup {OpenedBy(e, s, s + size) : s \in starts \ open}

\* A window the event continues: it is within the gap of the entity's last arrival.
Continues(w, e, gap) ==
  \E k \in DOMAIN w.events :
    /\ w.events[k].entity = e.entity
    /\ \A j \in DOMAIN w.events : j > k => w.events[j].entity # e.entity
    /\ e.ts - w.events[k].ts < gap

\* Mutant: a session that goes on keeps its end.
AssignSessionSameEnd(ws, e, gap) ==
  LET hits == {w \in ws : Continues(w, e, gap)}
      host == FirstOf(hits)
  IN  IF hits = {}
      THEN ws \cup {OpenedBy(e, e.ts, e.ts + gap)}
      ELSE (ws \ {host}) \cup {WithEvent(host, e)}

AssignSession(ws, e, gap) ==
  LET hits == {w \in ws : Continues(w, e, gap)}
      host == FirstOf(hits)
  IN  IF hits = {}
      THEN ws \cup {OpenedBy(e, e.ts, e.ts + gap)}
      ELSE (ws \ {host}) \cup {WithEvent([host EXCEPT !.end = e.ts + gap], e)}

AssignCount(ws, e, size) ==
  LET last == LastOf(ws)
  IN  IF ws # {} /\ EventCount(last) < size
      THEN (ws \ {last}) \cup {WithEvent([last EXCEPT !.end = e.ts], e)}
      ELSE ws \cup {OpenedBy(e, e.ts, e.ts)}

Assign(strategy, ws, e) ==
  CASE strategy.kind = "tumbling" -> AssignTumbling(ws, e, strategy.size)
    [] strategy.kind = "sliding"  -> AssignSliding(ws, e, strategy.size, strategy.slide)
    [] strategy.kind = "session"  -> AssignSession(ws, e, strategy.size)
    [] strategy.kind = "count"    -> AssignCount(ws, e, strategy.size)

\* Mutant: a window that ends at the watermark stays open.
HasExpiredAfterEnd(strategy, w, watermark) ==
  IF strategy.kind = "count" THEN EventCount(w) >= strategy.size ELSE w.end < watermark

\* Mutant: a window expires when the watermark reaches its start.
HasExpiredAtStart(strategy, w, watermark) ==
  IF strategy.kind = "count" THEN EventCount(w) >= strategy.size ELSE w.start <= watermark

\* Mutant: a count window expires when it holds more than its size.
HasExpiredOverfull(strategy, w, watermark) ==
  IF strategy.kind = "count" THEN EventCount(w) > strategy.size ELSE w.end <= watermark

HasExpired(strategy, w, watermark) ==
  IF strategy.kind = "count" THEN EventCount(w) >= strategy.size
                             ELSE w.end <= watermark

Expired(strategy, ws, watermark) == {w \in ws : HasExpired(strategy, w, watermark)}

=============================================================================
