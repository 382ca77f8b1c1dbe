---------------------------- MODULE MCOperators ----------------------------
(***************************************************************************)
(* An instance of Operators for TLC: for each operator, the few events     *)
(* that its conditions tell apart.                                         *)
(***************************************************************************)
EXTENDS Operators

NoSpeed == -1

\* A fast step and then a slow one at the place 0; and three steps.
MCPatterns ==
  LET Speed(op, v) == [field |-> "speed", op |-> op, value |-> v]
      fast == [condition |-> Speed(">=", 5), near |-> {0, 1}]
      slow == [condition |-> Speed("<", 5), near |-> {0, 1}]
      slowHere == [slow EXCEPT !.near = {0}]
  IN  <<[steps |-> <<fast, slowHere>>, within |-> 2],
        [steps |-> <<fast, slow, fast>>, within |-> 3]>>

\* Two zones that overlap.
MCZones == <<{0, 1}, {1, 2}>>

MCCellOf == [pos \in 0 .. 3 |-> pos \div 2]

\* A sphere in degrees: 100000 times the haversines of 0 to 90 degrees, and of the rest.
MCHav ==
  LET quarter ==
        <<0, 8, 30, 69, 122, 190, 274, 373, 487, 616, 760, 919, 1093, 1281, 1485, 1704,
          1937, 2185, 2447, 2724, 3015, 3321, 3641, 3975, 4323, 4685, 5060, 5450, 5853,
          6269, 6699, 7142, 7598, 8066, 8548, 9042, 9549, 10068, 10599, 11143, 11698,
          12265, 12843, 13432, 14033, 14645, 15267, 15900, 16543, 17197, 17861, 18534,
          19217, 19909, 20611, 21321, 22040, 22768, 23504, 24248, 25000, 25760, 26526,
          27300, 28081, 28869, 29663, 30463, 31270, 32082, 32899, 33722, 34549, 35381,
          36218, 37059, 37904, 38752, 39604, 40460, 41318, 42178, 43041, 43907, 44774,
          45642, 46512, 47383, 48255, 49127, 50000>>
  IN  [d \in 0 .. 180 |-> IF d <= 90 THEN quarter[d + 1] ELSE 100000 - quarter[181 - d]]

Place(lat, lon) == [lat |-> lat, lon |-> lon]

\* Around the equator, at the distance of the radius; away from it, where a degree of
\* longitude is half as long; on both sides of the antimeridian; where a pole is within
\* the box; and just outside of that.
MCPlaces ==
  {Place(0, 0), Place(0, 5), Place(3, 3), Place(60, 0), Place(60, 9), Place(64, 0),
   Place(0, 179), Place(0, -178), Place(-86, 0), Place(-86, 75), Place(84, 0), Place(84, 49)}

Stream(entities, times, places, speeds) ==
  [entity : entities, ts : times, pos : places, speed : speeds]

MCInputs ==
  [cep         |-> Stream({1, 2}, {1, 3, 4}, {0}, {NoSpeed, 5}) \cup Stream({1}, {3}, {1}, {0}),
   trajectory  |-> Stream({1}, {0, 1, 2, 3}, {0, 4}, {NoSpeed}),
   geofence    |-> Stream({1, 2}, {0}, {0, 1, 2, 3}, {NoSpeed}),
   spatial_agg |-> Stream({1, 2}, {0}, {0, 2}, {NoSpeed, 3, 5}),
   proximity   |-> Stream({1, 2}, {0}, MCPlaces, {NoSpeed}),
   rate_limit  |-> Stream({1}, 0 .. 4, {0}, {NoSpeed}),
   limiter     |-> Stream({1, 2}, {0}, {0}, {NoSpeed}),
   map_match   |-> Stream({1}, {0}, [x : -1 .. 5, y : -1 .. 6], {NoSpeed})]

Point(x, y) == [x |-> x, y |-> y]

\* A road with a corner and a point given twice, one that is only a point, one that
\* meets the first at a right angle, and one that climbs a degree for each degree.
MCRoads ==
  <<<<Point(0, 0), Point(3, 0), Point(3, 0), Point(3, 2)>>, <<Point(4, 4)>>,
    <<Point(1, 2), Point(5, 2)>>, <<Point(-1, 3), Point(1, 5)>>>>

MCMaxCalls ==
  [cep |-> 4, trajectory |-> 5, geofence |-> 4, spatial_agg |-> 4, proximity |-> 3,
   rate_limit |-> 6, limiter |-> 5, map_match |-> 1]

MCEntities == {1, 2}
MCAll == DOMAIN MCInputs
MCTrajectory == {"trajectory"}
MCAggregate == {"spatial_agg"}

\* The two places where the geometry of the code is off, worked out on the sphere and
\* the plane of this instance.  Two places 49 degrees apart on the parallel of 84 are
\* within 5 degrees of each other, and neither is in the box of the other
\* (proximity.rs:36, "longitude span covering" that distance).
ASSUME NeighbourBeyondTheBox ==
  LET a == Place(84, 0)
      b == Place(84, 49)
      seen == Proximity!Process(Proximity!Update(Proximity!Initial, [entity |-> 1, pos |-> a]),
                                [entity |-> 2, pos |-> b])
  IN  Proximity!Near(a, b) /\ seen.out = << >>

\* At latitude 60 the foot of (1, 0) on the road from (0, 0) to (1, 1) is a quarter
\* farther than a fifth of the way along the road, so that it is not "the nearest point
\* on a linestring" (map_match.rs:101); SnapsToNearest allows no more than that.
ASSUME FootIsNotNearest ==
  LET p == Point(1, 0)
      foot == Snap!Squared(p, Snap!OnRoad(p, <<Point(0, 0), Point(1, 1)>>))
      fifth == Snap!Squared(p, Snap!Along(Point(0, 0), Point(1, 1), 1, 5))
  IN  /\ Snap!Nearer(fifth, foot)
      /\ 16 * foot.num * fifth.den = 25 * fifth.num * foot.den

=============================================================================
