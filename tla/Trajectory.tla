----------------------------- MODULE Trajectory -----------------------------
(***************************************************************************)
(* TrajectoryOperator: the buffer of points of each entity, and the stop   *)
(* detection.                                                              *)
(*                                                                         *)
(* A position is a number on a line and times are in seconds, so a speed   *)
(* is compared by cross-multiplication.  Sums, averages and the smoothed   *)
(* position are left out of the reports.                                   *)
(***************************************************************************)
EXTENDS Picking

CONSTANTS
  Entities,
  MaxBuffer,  \* max_buffer
  MaxSpeed,   \* max_speed
  StopSpeed,  \* stop_speed
  StopSecs    \* stop_duration_secs

\* No entry in last_moving.
Never == -1

Initial ==
  [points     |-> [entity \in Entities |-> << >>],
   lastMoving |-> [entity \in Entities |-> Never],
   stopped    |-> [entity \in Entities |-> FALSE]]

Distance(p, q) == IF p > q THEN p - q ELSE q - p

\* compute_speed(p, q) > speed.  Without time between them the speed is 0.
Faster(p, q, speed) == q.ts > p.ts /\ Distance(p.pos, q.pos) > speed * (q.ts - p.ts)

\* The points after a push, without the oldest if there are too many.
Buffered(points, point) ==
  LET pushed == Append(points, point)
  IN  IF Len(pushed) > MaxBuffer THEN Tail(pushed) ELSE pushed

Report(type, entity, count) == [type |-> type, entity |-> entity, count |-> count]

\* When the stillness of a slow leg began.
StillSince(state, entity, previous) ==
  IF state.lastMoving[entity] = Never THEN previous.ts ELSE state.lastMoving[entity]

\* A slow leg is a stop once it has lasted, and once in a still stretch.
Stops(state, e, previous) ==
  /\ e.ts - StillSince(state, e.entity, previous) >= StopSecs
  /\ ~state.stopped[e.entity]

Moving(state, e) ==
  [state EXCEPT !.lastMoving[e.entity] = e.ts, !.stopped[e.entity] = FALSE]

Stopped(state, e) == [state EXCEPT !.stopped[e.entity] = TRUE]

\* The state after an event, and its alerts and update.
Process(state, e) ==
  LET before  == state.points[e.entity]
      point   == [ts |-> e.ts, pos |-> e.pos]
      pushed  == [state EXCEPT !.points[e.entity] = Buffered(before, point)]
      prev    == before[Len(before)]
      update  == Report("update", e.entity, Len(pushed.points[e.entity]))
      anomaly == IF Faster(prev, point, MaxSpeed)
                 THEN <<Report("speed_anomaly", e.entity, 0)>> ELSE << >>
  IN  IF before = << >>
      THEN [state |-> pushed, out |-> << >>]
      ELSE IF Faster(prev, point, StopSpeed)
      THEN [state |-> Moving(pushed, e), out |-> anomaly \o <<update>>]
      ELSE IF Stops(pushed, e, prev)
      THEN [state |-> Stopped(pushed, e),
            out   |-> anomaly \o <<Report("stop", e.entity, 0), update>>]
      ELSE [state |-> pushed, out |-> anomaly \o <<update>>]

\* on_window_close: a summary of every entity with two points or more, in the
\* order of a hash map, which is left to the order of `order`.  The points are
\* cleared; last_moving and stopped stay.
Close(state, order) ==
  LET long == Picked(order, {k \in DOMAIN order : Len(state.points[order[k]]) >= 2})
  IN  [state |-> [state EXCEPT !.points = Initial.points],
       out   |-> [k \in DOMAIN long |->
                    Report("summary", long[k], Len(state.points[long[k]]))]]

\* Mutant: a checkpoint carries the points only.
SnapshotPoints(state) == [Initial EXCEPT !.points = state.points]

\* What snapshot writes and restore sets.
Snapshot(state) ==
  [points |-> state.points, lastMoving |-> state.lastMoving, stopped |-> state.stopped]

=============================================================================
