----------------------------- MODULE MCDelivery -----------------------------
(***************************************************************************)
(* An instance of Delivery for TLC: every source with every sink, two      *)
(* connections, and a malformed event between two good ones.               *)
(***************************************************************************)
EXTENDS Delivery

MCSources == {"file", "replay", "kafka", "mqtt", "listen"}
MCSinks   == {"file", "stdout", "kafka", "mqtt", "batch"}

=============================================================================
