----------------------------- MODULE MCPipeline -----------------------------
(***************************************************************************)
(* Instances of Pipeline for TLC.                                          *)
(***************************************************************************)
EXTENDS Pipeline

\* A filter between two stateful stages, as in a topology that geofences the
\* events a speed filter lets through.  6 is in the tumbling window after that of 5, and
\* closes it.
MCSandwich ==
  [stages |-> <<"stateful", "map", "stateful">>, strategy |-> Tumbling(2),
   times |-> {5, 6}, maxOutputs |-> 1]

\* A sliding window of 2 every 1 puts 5 into two windows, which 7 closes together.
MCOverlap ==
  [stages |-> <<"map", "stateful">>, strategy |-> Sliding(2, 1),
   times |-> {5, 7}, maxOutputs |-> 2]

MCTopologies == {MCSandwich, MCOverlap}

=============================================================================
