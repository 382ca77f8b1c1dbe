-------------------------- MODULE SnapshotRegister --------------------------
(***************************************************************************)
(* What a checkpointed pipeline relies on: one durable register that holds *)
(* the latest completed snapshot.  Saving replaces it at once, stopping at *)
(* any moment leaves it as it is, and a start loads what it holds.         *)
(*                                                                         *)
(* A snapshot is known by its number, the count of snapshots completed so  *)
(* far; 0 means that there is none.  CheckpointStore implements this       *)
(* register with files.                                                    *)
(***************************************************************************)
EXTENDS Naturals

VARIABLES
  stored,   \* the snapshot the register holds
  running,  \* a pipeline is up
  loaded    \* the snapshot the last start read

vars == <<stored, running, loaded>>

Init ==
  /\ stored = 0
  /\ running = FALSE
  /\ loaded = 0

Load ==
  /\ ~running
  /\ running' = TRUE
  /\ loaded' = stored
  /\ UNCHANGED stored

Save ==
  /\ running
  /\ stored' = stored + 1
  /\ UNCHANGED <<running, loaded>>

Stop ==
  /\ running
  /\ running' = FALSE
  /\ UNCHANGED <<stored, loaded>>

Next == Load \/ Save \/ Stop

Spec == Init /\ [][Next]_vars

=============================================================================
