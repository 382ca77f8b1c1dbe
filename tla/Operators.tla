----------------------------- MODULE Operators -----------------------------
(***************************************************************************)
(* One operator of a pipeline under the calls Pipeline::run makes on it:   *)
(* an event to process, a window that closed, and a restart from a         *)
(* checkpoint.  The operators of a chain share nothing, so a chain is a    *)
(* set of them, each seeing a stream of calls of its own.                  *)
(*                                                                         *)
(* A restart brings the operator back to the state of the checkpoint, and  *)
(* what was processed after it is as if it had never been: the behaviour   *)
(* is one in which the process restarts right after the checkpoint.        *)
(* `lineage` is the stream of calls the present state comes from.          *)
(***************************************************************************)
EXTENDS Integers, Sequences, FiniteSets

CONSTANTS
  Kinds,      \* the operators to consider
  Inputs,     \* by kind, the events: records of entity, ts, pos and speed
  MaxCalls,   \* bound, by kind: events and window closes
  Entities, Patterns, MaxBuffer, MaxSpeed, StopSpeed, StopSecs, Zones, CellOf, Threshold,
  HalfWorld, Hav, Radius, Token, Rate, TicksPerSecond, MaxPerEntity, Roads, MaxDistance,
  Stretch,    \* see the modules of the operators
  Parts       \* of a segment of a road: the points that a snap is compared with

ASSUME InputsAssumption ==
  \A k \in Kinds : \A e \in Inputs[k] : e.entity \in Entities /\ e.ts \in Nat /\ e.speed \in Int
ASSUME EntitiesAssumption == IsFiniteSet(Entities)
ASSUME ZonesAssumption == Zones \in Seq({Zones[z] : z \in DOMAIN Zones})
ASSUME PatternsAssumption ==
  /\ Patterns \in Seq({Patterns[p] : p \in DOMAIN Patterns})
  /\ \A p \in DOMAIN Patterns :
       LET steps == Patterns[p].steps
       IN  Patterns[p].within \in Nat /\ steps \in Seq({steps[i] : i \in DOMAIN steps})
ASSUME PlaneAssumption == Stretch \in Nat \ {0} /\ Parts \in Nat \ {0}
ASSUME LimitsAssumption ==
  Token \in Nat /\ Rate \in Nat /\ TicksPerSecond \in Nat /\ MaxPerEntity \in Nat

VARIABLES
  kind,      \* which operator this is
  state,     \* its state
  lineage,   \* history: the calls, events with their place as id, and Closed
  reports,   \* history: what the calls returned, with the place of the call
  restarted  \* it was restarted from a checkpoint

vars == <<kind, state, lineage, reports, restarted>>

Cep == INSTANCE Cep
Trajectory == INSTANCE Trajectory
Geofence == INSTANCE Geofence
Aggregate == INSTANCE SpatialAgg
Proximity == INSTANCE Proximity
Bucket == INSTANCE TokenBucket
Limit == INSTANCE EntityLimit
Snap == INSTANCE MapMatch

ASSUME SphereAssumption == Proximity!Spherical

Closed == [id |-> 0]

Events == {n \in DOMAIN lineage : lineage[n] # Closed}

\* The clock at the last call.
Now == IF Events = {} THEN 0 ELSE lineage[CHOOSE n \in Events : \A m \in Events : m <= n].ts

Fresh(k) ==
  CASE k = "cep"         -> Cep!Initial
    [] k = "trajectory"  -> Trajectory!Initial
    [] k = "geofence"    -> Geofence!Initial
    [] k = "spatial_agg" -> Aggregate!Initial
    [] k = "proximity"   -> Proximity!Initial
    [] k = "rate_limit"  -> Bucket!Initial(0)
    [] k = "limiter"     -> Limit!Initial
    [] k = "map_match"   -> << >>

Processing(k, e) ==
  CASE k = "cep"         -> Cep!Process(state, e)
    [] k = "trajectory"  -> Trajectory!Process(state, e)
    [] k = "geofence"    -> Geofence!Process(state, e)
    [] k = "spatial_agg" -> Aggregate!Process(state, e)
    [] k = "proximity"   -> Proximity!Process(state, e)
    [] k = "rate_limit"  -> Bucket!Process(state, e)
    [] k = "limiter"     -> Limit!Process(state, e)
    [] k = "map_match"   -> Snap!Process(e)

\* The order in which a hash map of entities is visited.
Orders == {order \in [1 .. Cardinality(Entities) -> Entities] :
             \A i, j \in DOMAIN order : order[i] = order[j] => i = j}

Closing(k, order) ==
  CASE k = "cep"         -> Cep!Close(state)
    [] k = "trajectory"  -> Trajectory!Close(state, order)
    [] k = "geofence"    -> Geofence!Close(state)
    [] k = "spatial_agg" -> Aggregate!Close(state)
    [] k = "proximity"   -> Proximity!Close(state)
    [] k = "limiter"     -> Limit!Close(state)

\* What a new operator restores from a snapshot of this one.  The maps of cep,
\* geofence and the limiter come back as they were; a rate limit is in no checkpoint.
Restored(k) ==
  CASE k \in {"cep", "geofence", "limiter", "map_match"} -> state
    [] k = "trajectory"          -> Trajectory!Snapshot(state)
    [] k = "spatial_agg"         -> Aggregate!Restore(Aggregate!Snapshot(state))
    [] k = "proximity"           -> Proximity!Restore(Proximity!Snapshot(state))
    [] k = "rate_limit"          -> Bucket!Initial(Now)

Init ==
  /\ kind \in Kinds
  /\ state = Fresh(kind)
  /\ lineage = << >>
  /\ reports = << >>
  /\ restarted = FALSE

\* A call returned `result`.
Called(entry, result) ==
  /\ state' = result.state
  /\ lineage' = Append(lineage, entry)
  /\ reports' = reports \o
       [k \in DOMAIN result.out |-> [at |-> Len(lineage) + 1, what |-> result.out[k]]]
  /\ UNCHANGED <<kind, restarted>>

\* process.  The clock a rate limit reads never goes back; event time may.
Process(event) ==
  /\ Len(lineage) < MaxCalls[kind]
  /\ kind = "rate_limit" => event.ts >= Now
  /\ LET e == [id |-> Len(lineage) + 1, entity |-> event.entity, ts |-> event.ts,
               pos |-> event.pos, speed |-> event.speed]
     IN  Called(e, Processing(kind, e))

\* on_window_close, which map operators do not have.
WindowClose ==
  /\ Len(lineage) < MaxCalls[kind]
  /\ kind \notin {"rate_limit", "map_match"}
  /\ \E order \in Orders : Called(Closed, Closing(kind, order))

\* snapshot, a stop of the process, and restore into a new operator.
Restart ==
  /\ restarted' = TRUE
  /\ state' = Restored(kind)
  /\ UNCHANGED <<kind, lineage, reports>>

Next ==
  \/ \E event \in Inputs[kind] : Process(event)
  \/ WindowClose
  \/ Restart

Spec == Init /\ [][Next]_vars

(***************************************************************************)
(* The history                                                             *)
(***************************************************************************)

EventsOf(entity) == {n \in Events : lineage[n].entity = entity}

ReportsOf(k) == IF kind = k THEN {reports[i] : i \in DOMAIN reports} ELSE {}

\* No window closed between the calls m and n.
SameWindow(m, n) == \A i \in m .. n : lineage[i] # Closed

\* m and n are events of an entity, one after the other.
Leg(entity, m, n) ==
  /\ m \in EventsOf(entity) /\ n \in EventsOf(entity) /\ m < n
  /\ \A i \in m + 1 .. n - 1 : i \notin EventsOf(entity)

\* The legs the operator measures: the first point after a window close has none.
MeasuredLegs(entity) ==
  {leg \in EventsOf(entity) \X EventsOf(entity) :
     Leg(entity, leg[1], leg[2]) /\ SameWindow(leg[1], leg[2])}

Fast(leg) == Trajectory!Faster(lineage[leg[1]], lineage[leg[2]], StopSpeed)

InOrder(entity) ==
  \A m, n \in EventsOf(entity) : m < n => lineage[m].ts <= lineage[n].ts

StopReports(entity) ==
  {r.at : r \in {q \in ReportsOf("trajectory") : q.what.type = "stop" /\ q.what.entity = entity}}

\* The events a cell holds or held at call n: those since it was last emitted and
\* since the last window close.
Contributors(c, n) ==
  {m \in 1 .. n :
     /\ m \in Events
     /\ CellOf[lineage[m].pos] = c
     /\ SameWindow(m, n)
     /\ \A r \in ReportsOf("spatial_agg") : r.what.cell = c => ~(r.at \in m .. n - 1)}

(***************************************************************************)
(* Properties                                                              *)
(***************************************************************************)

\* A reported match is of one entity, satisfies the steps of its pattern in the
\* order of arrival, all within `within` of its first event and in one window, and
\* shares no event with another match of the pattern (CepEngine::process; "a
\* pattern that spans a window boundary would report a bogus duration", cep.rs).
CepMatchesAreOccurrences ==
  \A r \in ReportsOf("cep") :
    LET pattern == Patterns[r.what.pattern]
        es      == r.what.events
        last    == Len(es)
    IN  /\ last = Len(pattern.steps) /\ es[last].id = r.at
        /\ \A i \in 1 .. last :
             /\ es[i].entity = es[1].entity
             /\ Cep!Satisfies(pattern.steps[i], es[i])
             /\ es[i].ts - es[1].ts <= pattern.within
             /\ SameWindow(es[i].id, r.at)
        /\ \A i, j \in 1 .. last : i < j => es[i].id < es[j].id
        /\ \A q \in ReportsOf("cep") :
             q.what.pattern = r.what.pattern /\ q # r =>
               \A i \in DOMAIN es, j \in DOMAIN q.what.events :
                 es[i].id # q.what.events[j].id

\* The events of an entity since its last match of a pattern and the last close.
Unmatched(entity, p) ==
  {n \in EventsOf(entity) :
     /\ SameWindow(n, Len(lineage))
     /\ \A r \in ReportsOf("cep") :
          r.what.pattern = p /\ r.what.events[1].entity = entity => r.at < n}

\* No occurrence is overlooked: if the first step of a pattern is satisfied and the
\* entity's later events are all within the time, they hold no rest of the pattern
\* that was not reported.  (A pattern without steps reports nothing.)
CepFindsOccurrences ==
  kind = "cep" =>
    \A x \in Entities, p \in {q \in DOMAIN Patterns : Patterns[q].steps # << >>} :
      LET steps == Patterns[p].steps
          open  == Unmatched(x, p)
          firsts == {n \in open : Cep!Satisfies(steps[1], lineage[n])}
      IN  \A f \in firsts :
            LET later == {n \in open : n > f}
            IN  (\A n \in firsts : f <= n) /\
                (\A n \in later : lineage[n].ts - lineage[f].ts <= Patterns[p].within)
                => ~\E places \in [2 .. Len(steps) -> later] :
                      \A i \in 2 .. Len(steps) :
                        /\ Cep!Satisfies(steps[i], lineage[places[i]])
                        /\ \A j \in 2 .. i - 1 : places[j] < places[i]

\* What a pattern reports of a stream is what happened in it: every match is one, and
\* none is overlooked.
CepMatchesExact == CepMatchesAreOccurrences /\ CepFindsOccurrences

\* Between two stops of an entity there is a leg faster than stop_speed, also across
\* window closes and a restart (the field `stopped`: "already reported as stopped in
\* this still stretch").
StopsReportedOnce ==
  \A x \in Entities : \A r, q \in StopReports(x) :
    r < q => \E leg \in MeasuredLegs(x) : r <= leg[1] /\ leg[2] <= q /\ Fast(leg)

\* If an entity's events come in order, a stop means that every leg measured in the
\* last stop_duration was slow; and an entity that moved and then had slow legs for
\* that long has been reported.
StopIffMovedThenStill ==
  kind = "trajectory" =>
    \A x \in {y \in Entities : InOrder(y)} :
      LET legs == MeasuredLegs(x)
          fast == {leg \in legs : Fast(leg)}
      IN  /\ \A r \in StopReports(x), leg \in fast :
               leg[2] <= r => lineage[leg[2]].ts <= lineage[r].ts - StopSecs
          /\ \A move \in fast, last \in legs \ fast :
               /\ move[2] < last[2]
               /\ lineage[last[2]].ts - lineage[move[2]].ts >= StopSecs
               /\ \A leg \in fast : ~(move[2] < leg[2] /\ leg[2] < last[2])
               => \E r \in StopReports(x) : move[2] < r /\ r <= last[2]

\* A stop is reported once for each time an entity came to rest, and only then.
StopsExact == StopsReportedOnce /\ StopIffMovedThenStill

\* An entity is reported as entering a zone exactly when it is inside and was not at
\* its event before, and as leaving exactly when it is outside and was inside; no
\* window close or restart comes between ("a resumed geofence knows which entities
\* were already inside a zone", README.md).
FencesReportCrossings ==
  kind = "geofence" =>
    \A x \in Entities, z \in DOMAIN Zones : \A n \in EventsOf(x) :
      LET here  == lineage[n].pos \in Zones[z]
          there == \E m \in EventsOf(x) : Leg(x, m, n) /\ lineage[m].pos \in Zones[z]
          Said(event) == [at |-> n, what |-> [zone |-> z, event |-> event, entity |-> x]]
                         \in ReportsOf("geofence")
      IN  Said("Enter") = (here /\ ~there) /\ Said("Exit") = (there /\ ~here)

MaxOf(S) == CHOOSE a \in S : \A b \in S : b <= a
MinOf(S) == CHOOSE a \in S : \A b \in S : a <= b

\* An aggregate is of the events of its cell since the cell was last emitted or the
\* window closed: as many as the threshold, and with their entities; and if the
\* first of them has a speed, their highest and lowest speed.
AggregatesMatchEvents ==
  \A r \in ReportsOf("spatial_agg") :
    LET those  == Contributors(r.what.cell, r.at)
        speeds == {lineage[n].speed : n \in {m \in those : lineage[m].speed >= 0}}
    IN  /\ Cardinality(those) = r.what.count
        /\ r.what.count = Threshold
        /\ r.what.entities = Cardinality({lineage[n].entity : n \in those})
        /\ lineage[MinOf(those)].speed >= 0 =>
             r.what.max = MaxOf(speeds) /\ r.what.min = MinOf(speeds)

\* "sum, mean, max and min aggregate the event `speed`" (README.md:19): the highest
\* and lowest speed of a cell are speeds of its events.
AggregatesAreOfSpeeds ==
  \A r \in ReportsOf("spatial_agg") :
    LET speeds == {lineage[n].speed : n \in Contributors(r.what.cell, r.at)}
    IN  (\E s \in speeds : s >= 0) => r.what.max \in speeds /\ r.what.min \in speeds

\* "a stop alert after 30 s at or below 1 m/s" (README.md:18): an entity whose legs
\* have all been slow, in one window and in order, for the duration has been reported.
StillIsReported ==
  kind = "trajectory" =>
    \A x \in {y \in Entities : InOrder(y)} : \A m, n \in EventsOf(x) :
      /\ SameWindow(m, n)
      /\ lineage[n].ts - lineage[m].ts >= StopSecs
      /\ \A leg \in MeasuredLegs(x) : ~Fast(leg)
      => \E r \in StopReports(x) : r <= n

\* The last event of an entity in the window of call n, before it.
LastBefore(x, n) ==
  {m \in EventsOf(x) : m < n /\ SameWindow(m, n) /\ \A i \in EventsOf(x) : i < n => i <= m}

\* The box of an event at `pos` need not reach `other`: they are on meridians far apart,
\* and the circle around the event leaves out the poles and the antimeridian.
Beyond(pos, other) ==
  ~Proximity!WholeGlobe(pos) /\ Proximity!Apart(pos, other) > Proximity!Narrow

\* An event raises an alert for each other entity whose last position in this window is
\* within the radius, also across the antimeridian and at a pole; none for an entity that
\* is not, and never two.  It may overlook one that is more than 13 degrees of longitude
\* away, which within the radius happens close to a pole only (longitude_range: half the
\* width is the radius over the cosine of the latitude, and the circle is wider there).
ProximityAlertsExact ==
  kind = "proximity" =>
    \A n \in Events : \A x \in Entities \ {lineage[n].entity} :
      LET here == lineage[n].pos
          due == {m \in LastBefore(x, n) : Proximity!Near(here, lineage[m].pos)}
          alerts == {i \in DOMAIN reports : reports[i].at = n /\ reports[i].what.b = x}
      IN  /\ Cardinality(alerts) <= 1
          /\ alerts # {} => due # {}
          /\ \A m \in due : Beyond(here, lineage[m].pos) \/ alerts # {}

\* In any stretch of time the bucket passes no more than the burst and what the rate
\* allows for the stretch; and an event that comes a token's time after the one
\* before it is not dropped ("passes `max_per_second` events, bursting up to one
\* second's worth", README.md).  A restart fills the bucket.
RateBounded ==
  kind = "rate_limit" /\ ~restarted =>
    LET passed == {r.at : r \in ReportsOf("rate_limit")}
    IN  /\ \A m, n \in passed : m <= n =>
             Token * Cardinality({i \in passed : m <= i /\ i <= n})
               <= Bucket!Burst + Rate * (lineage[n].ts - lineage[m].ts)
        /\ \A n \in Events : n > 1 /\ Rate * (lineage[n].ts - lineage[n - 1].ts) >= Token
             => n \in passed

\* In each window an entity's first max_per_entity events pass and no others, also if
\* the process restarts in between ("emits at most N events per entity per window").
FirstOfWindowPass ==
  kind = "limiter" =>
    \A n \in Events :
      LET before == {m \in EventsOf(lineage[n].entity) : m < n /\ SameWindow(m, n)}
      IN  (n \in {r.at : r \in ReportsOf("limiter")}) = (Cardinality(before) < MaxPerEntity)

\* The two operators that limit a stream let through what they promise.
LimitsKept == RateBounded /\ FirstOfWindowPass

\* Points of the segment from a to b.
PointsOf(a, b) == {Snap!Along(a, b, t, Parts) : t \in 0 .. Parts}

\* The square of how far from p a snap may be if q is a point of the segment from a to b:
\* as far as q if the segment is along a parallel or a meridian, and else up to
\* (Stretch^2 + 1) / (2 Stretch) times as far, which is 1 at the equator.
Allowed(p, q, a, b) ==
  LET d == Snap!Squared(p, q)
      k == Stretch * Stretch
  IN  IF a.x = b.x \/ a.y = b.y THEN d
      ELSE [num |-> (k + 1) * (k + 1) * d.num, den |-> 4 * k * d.den]

\* An event is moved to a point of a road within the maximum, and no road has a point
\* that is nearer, but for what projecting in degrees is off on a segment at an angle,
\* at worst 25 percent at latitude 60; of roads equally near the first is named.  It
\* stays where it is only if no road is within the maximum, but for as much.
\* (match_point and project_point_on_segment, map_match.rs.)
SnapsToNearest ==
  \A r \in ReportsOf("map_match") :
    LET p     == lineage[r.at].pos
        limit == [num |-> MaxDistance * MaxDistance, den |-> 1]
        here  == Snap!Squared(p, r.what.point)
        own   == Roads[r.what.road]
    IN  /\ IF r.what.road = 0 THEN r.what.point = Snap!Along(p, p, 0, 1)
           ELSE /\ Snap!Nearer(here, limit)
                /\ \E k \in 1 .. Len(own) - 1 : \E t \in 0 .. r.what.point.over :
                     r.what.point = Snap!Along(own[k], own[k + 1], t, r.what.point.over)
        /\ \A n \in DOMAIN Roads : \A k \in 1 .. Len(Roads[n]) - 1 :
             \A q \in PointsOf(Roads[n][k], Roads[n][k + 1]) :
               LET there == Allowed(p, q, Roads[n][k], Roads[n][k + 1])
               IN  IF r.what.road = 0 THEN ~Snap!Nearer(there, limit)
                   ELSE /\ ~Snap!Nearer(there, here)
                        /\ n < r.what.road => Snap!Nearer(here, there)

=============================================================================
