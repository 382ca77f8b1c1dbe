---------------------------- MODULE EntityLimit -----------------------------
(***************************************************************************)
(* RateLimiter: how many events of each entity were passed in this window. *)
(***************************************************************************)
EXTENDS Integers

CONSTANTS
  Entities,
  MaxPerEntity   \* max_per_entity

\* An entity the map of the code has no entry for has passed none.
Initial == [entity \in Entities |-> 0]

HasRoom(counts, e) == counts[e.entity] < MaxPerEntity

Process(counts, e) ==
  IF HasRoom(counts, e)
  THEN [state |-> [counts EXCEPT ![e.entity] = @ + 1],
        out   |-> <<[action |-> "pass", count |-> counts[e.entity] + 1]>>]
  ELSE [state |-> counts, out |-> << >>]

\* on_window_close starts the counts again.
Close(counts) == [state |-> Initial, out |-> << >>]

=============================================================================
