------------------------------ MODULE MapMatch ------------------------------
(***************************************************************************)
(* MapMatchOperator: an event is moved to the nearest point of the road    *)
(* network, or left where it is if no road is near enough.                 *)
(*                                                                         *)
(* A point is a pair of degrees, x of longitude and y of latitude, and the *)
(* roads lie near one latitude: a degree of latitude is Stretch times as   *)
(* long as one of longitude, 1/cos(latitude).  The code projects in        *)
(* degrees and compares distances on the ground; so does the model, whose  *)
(* unit of distance is a degree of longitude.  A foot of a road and the    *)
(* square of a distance are fractions, compared without dividing.          *)
(***************************************************************************)
EXTENDS Integers, Sequences

CONSTANTS
  Roads,        \* RoadNetwork::segments, each a sequence of points
  MaxDistance,  \* max_distance_m
  Stretch       \* 1/cos(latitude), here a whole number

\* The point a + (t / over) * (b - a).
Along(a, b, t, over) ==
  [x |-> a.x * over + t * (b.x - a.x), y |-> a.y * over + t * (b.y - a.y), over |-> over]

\* The square of the distance from p to a point as Along gives it.
Squared(p, q) ==
  LET east  == p.x * q.over - q.x
      north == Stretch * (p.y * q.over - q.y)
  IN  [num |-> east * east + north * north, den |-> q.over * q.over]

Nearer(u, v) == u.num * v.den < v.num * u.den

\* Mutant: the line is not cut off at its ends.
ClampedNot(t, length) == t

\* t.clamp(0, 1), for t a fraction of the squared length.
Clamped(t, length) == IF t < 0 THEN 0 ELSE IF t > length THEN length ELSE t

\* project_point_on_segment, for the segment from a to b: the foot is that in degrees.
Projected(p, a, b) ==
  LET dx == b.x - a.x
      dy == b.y - a.y
      length == dx * dx + dy * dy
  IN  IF length = 0 THEN Along(a, b, 0, 1)
      ELSE Along(a, b, Clamped((p.x - a.x) * dx + (p.y - a.y) * dy, length), length)

\* The loop `if dist < best`: of the given places the first where d is least, or 0.
FirstLeast(d, places) ==
  LET best[n \in 0 .. Len(d)] ==
        IF n = 0 THEN 0
        ELSE IF n \in places /\ (best[n - 1] = 0 \/ Nearer(d[n], d[best[n - 1]])) THEN n
        ELSE best[n - 1]
  IN  best[Len(d)]

\* nearest_point_on_line, for two points or more: of the projections on the segments,
\* the nearest to p.
OnRoad(p, road) ==
  LET feet == [k \in 1 .. Len(road) - 1 |-> Projected(p, road[k], road[k + 1])]
      far  == [k \in DOMAIN feet |-> Squared(p, feet[k])]
  IN  feet[FirstLeast(far, DOMAIN feet)]

\* match_point: the first of the nearest roads that are near enough, 0 if there is none.
\* A road of a single point is none.
MatchPoint(p) ==
  LET limit == [num |-> MaxDistance * MaxDistance, den |-> 1]
      far   == [r \in DOMAIN Roads |->
                  IF Len(Roads[r]) < 2 THEN limit ELSE Squared(p, OnRoad(p, Roads[r]))]
  IN  FirstLeast(far, {r \in DOMAIN Roads : Nearer(far[r], limit)})

\* The event goes on in any case; the operator has no state.
Process(e) ==
  LET road == MatchPoint(e.pos)
  IN  [state |-> << >>,
       out   |-> <<[road  |-> road,
                    point |-> IF road = 0 THEN Along(e.pos, e.pos, 0, 1)
                              ELSE OnRoad(e.pos, Roads[road])]>>]

=============================================================================
