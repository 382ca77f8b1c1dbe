-------------------------- MODULE CheckpointStore --------------------------
(***************************************************************************)
(* CheckpointManager and its directory: writing a checkpoint file,         *)
(* collecting old ones, and finding the latest after a stop or a crash of  *)
(* the process at any step.                                                *)
(*                                                                         *)
(* fs::write truncates or creates the file and fills it afterwards, so     *)
(* between the two the file does not parse; it is Torn.  A write that      *)
(* fails, or a process that dies, leaves it so.  Readers skip it.  The     *)
(* operating system and its disk are assumed to survive: nothing here      *)
(* models a power failure.                                                 *)
(*                                                                         *)
(* The content of a checkpoint is the number of the snapshot it holds,     *)
(* counted from 1 over the life of the directory.                          *)
(***************************************************************************)
EXTENDS Naturals, FiniteSets

CONSTANTS
  Limits,       \* the values max_retained takes, one per start
  MaxSnapshots  \* bound: checkpoints completed over all runs

ASSUME LimitsAssumption == Limits \subseteq Nat /\ Limits # {}
ASSUME BoundAssumption == MaxSnapshots \in Nat

Torn == 0

VARIABLES
  files,    \* the directory: a function from the ids of its files to contents
  pc,       \* the manager: "down", "ready", "writing" or "collecting"
  nextId,   \* next_id
  limit,    \* max_retained
  doomed,   \* the ids gc has still to remove
  loaded,   \* the snapshot the last start restored, 0 for none
  version,  \* history: how many checkpoints were completed
  stuck     \* history: the ids whose last removal failed

vars == <<files, pc, nextId, limit, doomed, loaded, version, stuck>>

\* list_checkpoints_in: the files that parse.
Listed(fs) == {id \in DOMAIN fs : fs[id] # Torn}

\* Mutant: the list is sorted the other way round.
LatestSortedDown(fs) == CHOOSE id \in Listed(fs) : \A other \in Listed(fs) : other >= id

Latest(fs) == CHOOSE id \in Listed(fs) : \A other \in Listed(fs) : other <= id

\* Mutant: ids go on from the number of files instead of the latest id.
ResumeIdByCount(fs) == Cardinality(Listed(fs))

\* The id `new` goes on with, and the snapshot restore_latest applies.
ResumeId(fs) == IF Listed(fs) = {} THEN 0 ELSE Latest(fs) + 1
LatestSnapshot(fs) == IF Listed(fs) = {} THEN 0 ELSE fs[Latest(fs)]

\* Mutant: one checkpoint too many is removed.
SurplusTakesOneMore(fs, max) ==
  {id \in Listed(fs) : Cardinality({other \in Listed(fs) : other >= id}) >= max}

\* Mutant: one checkpoint too many is kept.
SurplusLeavesOneMore(fs, max) ==
  {id \in Listed(fs) : Cardinality({other \in Listed(fs) : other > id}) > max}

\* What gc removes: every checkpoint that has max_retained newer ones.
Surplus(fs, max) ==
  {id \in Listed(fs) : Cardinality({other \in Listed(fs) : other >= id}) > max}

Put(fs, id, content) ==
  [i \in DOMAIN fs \cup {id} |-> IF i = id THEN content ELSE fs[i]]

Delete(fs, id) == [i \in DOMAIN fs \ {id} |-> fs[i]]

Init ==
  /\ files = << >>
  /\ pc = "down"
  /\ nextId = 0
  /\ limit \in Limits
  /\ doomed = {}
  /\ loaded = 0
  /\ version = 0
  /\ stuck = {}

\* A process starts: new, then restore_latest, with the max_retained of its topology.
Open ==
  /\ pc = "down"
  /\ pc' = "ready"
  /\ limit' \in Limits
  /\ nextId' = ResumeId(files)
  /\ loaded' = LatestSnapshot(files)
  /\ UNCHANGED <<files, doomed, version, stuck>>

\* checkpoint, up to the open of fs::write.
BeginWrite ==
  /\ pc = "ready"
  /\ version < MaxSnapshots
  /\ pc' = "writing"
  /\ files' = Put(files, nextId, Torn)
  /\ UNCHANGED <<nextId, limit, doomed, loaded, version, stuck>>

\* The write returns: the id is used up and gc lists what it will remove.
FinishWrite ==
  /\ pc = "writing"
  /\ files' = Put(files, nextId, version + 1)
  /\ version' = version + 1
  /\ nextId' = nextId + 1
  /\ doomed' = Surplus(files', limit)
  /\ pc' = IF doomed' = {} THEN "ready" ELSE "collecting"
  /\ UNCHANGED <<limit, loaded, stuck>>

\* Mutant: a failed write uses up its id.
FailWriteCounts ==
  /\ pc = "writing"
  /\ pc' = "ready"
  /\ nextId' = nextId + 1
  /\ UNCHANGED <<files, limit, doomed, loaded, version, stuck>>

\* The write fails: checkpoint returns the error before it counts or collects.
FailWrite ==
  /\ pc = "writing"
  /\ pc' = "ready"
  /\ UNCHANGED <<files, nextId, limit, doomed, loaded, version, stuck>>

\* gc removes the lowest id first and goes on whether or not that worked.
Remove(id) ==
  /\ pc = "collecting"
  /\ id \in doomed
  /\ \A other \in doomed : id <= other
  /\ \/ files' = Delete(files, id) /\ stuck' = stuck \ {id}
     \/ stuck' = stuck \cup {id} /\ UNCHANGED files
  /\ doomed' = doomed \ {id}
  /\ pc' = IF doomed' = {} THEN "ready" ELSE "collecting"
  /\ UNCHANGED <<nextId, limit, loaded, version>>

\* The run ends, or the process is killed, between any two steps.
Stop ==
  /\ pc # "down"
  /\ pc' = "down"
  /\ doomed' = {}
  /\ UNCHANGED <<files, nextId, limit, loaded, version, stuck>>

Next ==
  \/ Open
  \/ BeginWrite
  \/ FinishWrite
  \/ FailWrite
  \/ \E id \in doomed : Remove(id)
  \/ Stop

Spec == Init /\ [][Next]_vars

(***************************************************************************)
(* Properties                                                              *)
(***************************************************************************)

\* Every variable has its type, and gc removes files that are there.
TypeOK ==
  /\ DOMAIN files \subseteq Nat
  /\ \A id \in DOMAIN files : files[id] \in Nat
  /\ pc \in {"down", "ready", "writing", "collecting"}
  /\ nextId \in Nat
  /\ limit \in Limits
  /\ doomed \subseteq DOMAIN files
  /\ loaded \in Nat
  /\ version \in Nat
  /\ stuck \subseteq DOMAIN files

\* Retention of 0 deletes each checkpoint as soon as it is written.
Retaining == 0 \notin Limits

\* The latest completed checkpoint is what a start would restore, whatever writes
\* failed, whatever gc was doing and wherever the process was stopped.
LatestSurvives == Retaining => LatestSnapshot(files) = version

\* A file that does not parse is the one the next write goes to, so torn files
\* never pile up and none hides behind a newer checkpoint.
TornIsNext ==
  Retaining =>
    \A id \in DOMAIN files :
      files[id] = Torn => id = (IF pc = "down" THEN ResumeId(files) ELSE nextId)

\* No write ever goes to the file of a completed checkpoint.
NeverOverwritten ==
  [][\A id \in Listed(files) : id \in DOMAIN files' => files'[id] = files[id]]_vars

\* Once a run has written a checkpoint and gc is through, the files it could remove
\* are gone: the others are the newest checkpoints, no more than max_retained of
\* them and no gap among them, even if earlier runs kept more or were stopped while
\* collecting.
RetainsNewest ==
  pc = "ready" /\ version # loaded =>
    LET kept == {files[id] : id \in Listed(files) \ stuck}
    IN  /\ Cardinality(kept) <= limit
        /\ kept = {n \in 1 .. version : n > version - Cardinality(kept)}

Register == INSTANCE SnapshotRegister
  WITH stored  <- LatestSnapshot(files),
       running <- pc # "down",
       loaded  <- loaded

\* The directory is a durable register: a save is one step, nothing else changes it,
\* and a start reads the last save.
ImplementsRegister == Register!Spec

=============================================================================
