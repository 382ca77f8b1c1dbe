---------------------------- MODULE MCEventTime ----------------------------
(***************************************************************************)
(* Instances of EventTime for TLC: a strategy of each kind.  Times start   *)
(* past the widest window, as the timestamps of a stream are far from the  *)
(* epoch the watermark starts at, and lie on, off and across the bounds of *)
(* the windows, less and more than a gap and the lateness apart.           *)
(***************************************************************************)
EXTENDS EventTime, TLC

MCStrategies  == {Tumbling(3), Sliding(4, 2), Session(3), Count(2)}
MCSessions    == {Session(3)}
MCTumblings   == {Tumbling(3)}

MCTimes     == {4, 6, 7, 9, 12}
MCFewTimes  == {4, 6, 8, 9, 13}

\* Entities are only compared with each other.
MCSymmetry == Permutations(Entities)

=============================================================================
