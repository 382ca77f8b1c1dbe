----------------------------- MODULE Proximity -----------------------------
(***************************************************************************)
(* ProximityOperator and its SpatialIndex: the tree that is searched with  *)
(* a bounding box, and the positions it has to agree with.                 *)
(*                                                                         *)
(* A position is a latitude and a longitude in units of which HalfWorld    *)
(* make 180 degrees, on a sphere whose haversines are given by a table.    *)
(* The longitudes -HalfWorld and HalfWorld are one meridian.  What the     *)
(* code divides by a cosine is compared here after multiplication by it.   *)
(* An entry of the tree is the entity and the position it was inserted     *)
(* with.                                                                   *)
(***************************************************************************)
EXTENDS Integers, SequencesExt

CONSTANTS
  HalfWorld,   \* 180 degrees
  Hav,         \* the haversine of each distance, scaled and rounded
  Radius       \* threshold_meters, as a distance on the sphere

\* Positions without the entities that have none.
Initial == [tree |-> {}, positions |-> << >>]

Quarter == HalfWorld \div 2

Latitudes == -Quarter .. Quarter

Gap(x, y) == IF x > y THEN x - y ELSE y - x

\* Cosines and widths are in parts of One.
One == 10000

\* The cosine of a latitude, of at most Quarter either way.
Cos(lat) == ((Hav[HalfWorld] - 2 * Hav[Gap(lat, 0)]) * One) \div Hav[HalfWorld]

\* threshold_meters / METERS_PER_DEGREE_LATITUDE * BOUNDING_BOX_PADDING_FACTOR: a degree
\* of the sphere is 111195 m and one of the constant 111320 m, so 1.01 is 1.0089 here.
HalfWidth == Radius * 10089

\* The cases of longitude_range that search the whole globe: the circle around `pos`
\* reaches the pole, or its half width / cos(latitude) the antimeridian.
WholeGlobe(pos) ==
  \/ Gap(pos.lat, 0) * One + HalfWidth >= Quarter * One
  \/ (HalfWorld + pos.lon) * Cos(pos.lat) < HalfWidth
  \/ (HalfWorld - pos.lon) * Cos(pos.lat) < HalfWidth

\* Mutant: a degree of longitude is as long as one of latitude.
InLongitudeRangeFlat(pos, lon) ==
  WholeGlobe(pos) \/ Gap(pos.lon, lon) * One <= HalfWidth

\* longitude_range: `lon` is between the least and the greatest longitude to search.
InLongitudeRange(pos, lon) ==
  WholeGlobe(pos) \/ Gap(pos.lon, lon) * Cos(pos.lat) <= HalfWidth

\* query_bbox: the entries in the box.
QueryBox(index, pos) ==
  {entry \in index.tree :
     /\ InLongitudeRange(pos, entry.pos.lon)
     /\ Gap(pos.lat, entry.pos.lat) * One <= HalfWidth}

\* How far apart two meridians are, by the shorter way.
Apart(a, b) ==
  LET across == Gap(a.lon, b.lon)
  IN  IF across > HalfWorld THEN 2 * HalfWorld - across ELSE across

\* The haversine of the distance between places on two latitudes.
Chord(lat1, lat2, apart) ==
  Hav[Gap(lat1, lat2)] * One + ((Cos(lat1) * Cos(lat2)) \div One) * Hav[apart]

\* Haversine.distance(..) <= threshold_meters.
Near(a, b) == Chord(a.lat, b.lat, Apart(a, b)) <= Hav[Radius] * One

\* SpatialIndex::update.
Update(index, e) ==
  LET old == {entry \in index.tree :
                /\ e.entity \in DOMAIN index.positions
                /\ entry = [entity |-> e.entity, pos |-> index.positions[e.entity]]}
  IN  [tree      |-> (index.tree \ old) \cup {[entity |-> e.entity, pos |-> e.pos]},
       positions |-> [x \in DOMAIN index.positions \cup {e.entity} |->
                        IF x = e.entity THEN e.pos ELSE index.positions[x]]]

\* The index after an event, and an alert for each candidate that is near.  The
\* order of the tree is left to SetToSeq.
Process(index, e) ==
  LET alerts == {entry \in QueryBox(index, e.pos) :
                   /\ entry.entity # e.entity
                   /\ entry.entity \in DOMAIN index.positions
                   /\ Near(e.pos, index.positions[entry.entity])}
      all    == SetToSeq(alerts)
  IN  [state |-> Update(index, e),
       out   |-> [k \in DOMAIN all |-> [a |-> e.entity, b |-> all[k].entity]]]

\* on_window_close clears the index.
Close(index) == [state |-> Initial, out |-> << >>]

\* snapshot carries the positions, and restore builds the tree from them.
Snapshot(index) == index.positions

Restore(positions) ==
  [tree      |-> {[entity |-> x, pos |-> positions[x]] : x \in DOMAIN positions},
   positions |-> positions]

(***************************************************************************)
(* What the box needs of the sphere                                        *)
(***************************************************************************)

\* 13 degrees: an angle and its sine differ so little up to here that the padding makes
\* up for it.
Narrow == (HalfWorld * 13) \div 180

\* Farther places have greater haversines, cosines are not negative, and of the meridians
\* near a place those that are no more than Narrow away are within the padded width.
Spherical ==
  /\ HalfWorld \in Nat /\ Radius \in 1 .. HalfWorld
  /\ Hav \in [0 .. HalfWorld -> Nat]
  /\ \A c, d \in 0 .. HalfWorld : c < d => Hav[c] < Hav[d]
  /\ \A lat \in Latitudes : Cos(lat) \in Nat
  /\ \A lat1 \in Latitudes : \A lat2 \in {z \in Latitudes : Gap(lat1, z) <= Radius} :
       \A apart \in 0 .. HalfWorld :
         Chord(lat1, lat2, apart) <= Hav[Radius] * One =>
           (IF apart < Narrow THEN apart ELSE Narrow) * Cos(lat1) < HalfWidth

=============================================================================
