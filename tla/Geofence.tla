------------------------------ MODULE Geofence ------------------------------
(***************************************************************************)
(* GeofenceOperator: for each entity and zone, whether the entity was      *)
(* inside.  A zone is the set of positions its polygon contains.  Zones    *)
(* have distinct names, as the state is keyed by them.                     *)
(***************************************************************************)
EXTENDS Picking

CONSTANTS
  Entities,
  Zones      \* a sequence of sets of positions

Initial == [entity \in Entities |-> [z \in DOMAIN Zones |-> FALSE]]

\* Where the entity is, by zone.
Checked(e) == [z \in DOMAIN Zones |-> e.pos \in Zones[z]]

Transition(was, is) ==
  CASE ~was /\ is -> "Enter"
    [] was /\ ~is -> "Exit"
    [] was /\ is  -> "Inside"
    [] OTHER      -> "Outside"

\* The state after an event, and the zones it enters or leaves, in their order.
Process(state, e) ==
  LET was == state[e.entity]
      is  == Checked(e)
      all == [z \in DOMAIN Zones |->
                [zone |-> z, event |-> Transition(was[z], is[z]), entity |-> e.entity]]
  IN  [state |-> [state EXCEPT ![e.entity] = is],
       out   |-> Picked(all, {z \in DOMAIN Zones : all[z].event \in {"Enter", "Exit"}})]

\* Mutant: a window close forgets who is inside.
CloseForgets(state) == [state |-> Initial, out |-> << >>]

\* on_window_close keeps everything.
Close(state) == [state |-> state, out |-> << >>]

=============================================================================
