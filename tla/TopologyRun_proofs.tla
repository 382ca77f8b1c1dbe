------------------------- MODULE TopologyRun_proofs -------------------------
(***************************************************************************)
(* Theorems about TopologyRun, for every set of topologies, any number of  *)
(* starts and of clients of the endpoint.                                  *)
(***************************************************************************)
EXTENDS TopologyRun, TLAPS

(***************************************************************************)
(* States and their operators                                              *)
(***************************************************************************)

IsIdentity(x) == x = [type |-> x.type, name |-> x.name]

\* A state is of some operator, and counts.
IsState(s) == s = [of |-> s.of, seen |-> s.seen] /\ s.seen \in Nat /\ IsIdentity(s.of)

\* A state that a stage built from op may have.
Fits(op, s) ==
  /\ IsState(s)
  /\ s.of.type = op.type
  /\ op.type # "cep" => s.of = Identity(op)

\* What is on disk is under the key of its operator, and the windows count nothing.
DiskInv ==
  \A key \in DOMAIN disk :
    /\ IsState(disk[key])
    /\ KeyOf(disk[key].of) = key
    /\ disk[key].of.type = "windows" => disk[key].seen = 0

\* Stages are there from the build on.
StagesInv ==
  /\ DOMAIN ops = IF pc \in {"down", "build"} THEN {} ELSE StatefulAt
  /\ \A k \in DOMAIN ops : Fits(Stage(k), ops[k])

\* From the restore on, a stage has seen no less than the entry it may replace.
NotBehind(op, s, saved) ==
  KeyOf(op) \in DOMAIN saved /\ saved[KeyOf(op)].of = s.of => saved[KeyOf(op)].seen <= s.seen

Goes == topology.checkpoint # {} /\ pc \notin {"down", "build", "checkpoints"}

AheadOfDisk ==
  Goes => ~Duplicates /\ \A k \in DOMAIN ops : NotBehind(Stage(k), ops[k], disk)

RunInv == DiskInv /\ StagesInv /\ AheadOfDisk

\* A state fits its operator, and a checkpoint has it under the key of the operator.
LEMMA KeyOfFitting ==
  ASSUME NEW op, NEW s, Fits(op, s) PROVE KeyOf(s.of) = KeyOf(op)
BY DEF Fits, Identity, KeyOf

LEMMA FreshFits == ASSUME NEW op PROVE Fits(op, Fresh(op))
BY DEF Fits, IsState, IsIdentity, Identity, Fresh

\* A restored stage is of its own operator, and goes on from what is on disk.
LEMMA RestoredFits ==
  ASSUME DiskInv, NEW op
  PROVE  Fits(op, Restored(op, disk)) /\ NotBehind(op, Restored(op, disk), disk)
<1> DEFINE key == KeyOf(op)
           found == key \in DOMAIN disk /\ disk[key].of.type = op.type
<1>1. CASE found
  <2>1. Restored(op, disk) = disk[key]
    BY <1>1 DEF Restored
  <2>2. IsState(disk[key]) /\ KeyOf(disk[key].of) = key
    BY <1>1 DEF DiskInv
  <2>3. op.type # "cep" => disk[key].of.name = op.name
    BY <1>1, <2>2 DEF KeyOf
  <2>4. op.type # "cep" => disk[key].of = Identity(op)
    BY <1>1, <2>2, <2>3 DEF IsState, IsIdentity, Identity
  <2>5. QED
    BY <1>1, <2>1, <2>2, <2>4 DEF Fits, IsState, NotBehind
<1>2. CASE ~found
  <2>1. Restored(op, disk) = Fresh(op)
    BY <1>2 DEF Restored
  <2>2. Fresh(op).of.type = op.type
    BY DEF Fresh, Identity
  <2>3. QED
    BY <1>2, <2>1, <2>2, FreshFits DEF NotBehind
<1>3. QED
  BY <1>1, <1>2

\* An entry of a checkpoint is that of the windows or the state of the one stage of its key.
LEMMA SnapshotEntry ==
  ASSUME ~Duplicates, NEW key \in DOMAIN Snapshot
  PROVE  \/ Snapshot[key] = [of |-> [type |-> "windows", name |-> key], seen |-> 0]
         \/ \E k \in StatefulAt : KeyOf(Stage(k)) = key /\ Snapshot[key] = ops[k]
<1> DEFINE stage(x) == CHOOSE k \in StatefulAt : KeyOf(Stage(k)) = x
           windowed == IF topology.window = {} THEN {} ELSE {WINDOW_STATE_KEY}
           held == {KeyOf(Stage(k)) : k \in StatefulAt}
<1>1. /\ key \in held \cup windowed
      /\ Snapshot[key] = IF key \in windowed
                         THEN [of |-> [type |-> "windows", name |-> key], seen |-> 0]
                         ELSE ops[stage(key)]
  BY DEF Snapshot
<1>2. CASE key \in windowed
  BY <1>1, <1>2
<1>3. CASE key \notin windowed
  <2>1. \E k \in StatefulAt : KeyOf(Stage(k)) = key
    BY <1>1, <1>3
  <2>2. stage(key) \in StatefulAt /\ KeyOf(Stage(stage(key))) = key
    BY <2>1
  <2>3. QED
    BY <1>1, <1>3, <2>2
<1>4. QED
  BY <1>2, <1>3

\* What a write may leave, the checkpoint before or a new one, is never behind it.
LEMMA WriteGoesOn ==
  ASSUME RunInv, pc = "run", WriteCheckpoint
  PROVE  /\ \A key \in DOMAIN disk' :
              /\ IsState(disk'[key]) /\ KeyOf(disk'[key].of) = key
              /\ disk'[key].of.type = "windows" => disk'[key].seen = 0
         /\ Goes => \A k \in DOMAIN ops : NotBehind(Stage(k), ops[k], disk')
         /\ \A key \in DOMAIN disk \cap DOMAIN disk' :
              disk'[key].of = disk[key].of => disk'[key].seen >= disk[key].seen
<1>1. CASE disk' = disk
  <2>1. \A key \in DOMAIN disk : disk[key].seen \in Nat
    BY DEF RunInv, DiskInv, IsState
  <2>2. QED
    BY <1>1, <2>1 DEF RunInv, DiskInv, AheadOfDisk
<1>2. CASE topology.checkpoint # {} /\ disk' = Snapshot
  <2>1. /\ ~Duplicates /\ DOMAIN ops = StatefulAt
        /\ \A k \in StatefulAt : Fits(Stage(k), ops[k]) /\ NotBehind(Stage(k), ops[k], disk)
    BY <1>2 DEF RunInv, StagesInv, AheadOfDisk, Goes
  <2>2. \A k \in StatefulAt : ops[k].of.type # "windows"
    BY <2>1 DEF Fits, StatefulAt, Stage, Stateful
  <2>3. ASSUME NEW key \in DOMAIN Snapshot
        PROVE  /\ IsState(Snapshot[key]) /\ KeyOf(Snapshot[key].of) = key
               /\ Snapshot[key].of.type = "windows" => Snapshot[key].seen = 0
               /\ \A k \in StatefulAt : KeyOf(Stage(k)) = key =>
                    NotBehind(Stage(k), ops[k], Snapshot)
               /\ key \in DOMAIN disk /\ Snapshot[key].of = disk[key].of =>
                    Snapshot[key].seen >= disk[key].seen
    <3>1. CASE Snapshot[key] = [of |-> [type |-> "windows", name |-> key], seen |-> 0]
      <4>1. /\ IsState(Snapshot[key]) /\ KeyOf(Snapshot[key].of) = key
            /\ Snapshot[key].of.type = "windows" /\ Snapshot[key].seen = 0
        BY <3>1 DEF IsState, IsIdentity, KeyOf
      <4>2. key \in DOMAIN disk /\ Snapshot[key].of = disk[key].of => disk[key].seen = 0
        BY <4>1 DEF RunInv, DiskInv
      <4>3. QED
        BY <2>2, <4>1, <4>2 DEF NotBehind
    <3>2. CASE \E k \in StatefulAt : KeyOf(Stage(k)) = key /\ Snapshot[key] = ops[k]
      <4>1. PICK k \in StatefulAt : KeyOf(Stage(k)) = key /\ Snapshot[key] = ops[k]
        BY <3>2
      <4>2. Fits(Stage(k), ops[k]) /\ NotBehind(Stage(k), ops[k], disk) /\ ops[k].seen \in Nat
        BY <2>1 DEF Fits, IsState
      <4>3. IsState(Snapshot[key]) /\ KeyOf(Snapshot[key].of) = key
        BY <4>1, <4>2, KeyOfFitting DEF Fits
      <4>4. \A j \in StatefulAt : KeyOf(Stage(j)) = key => j = k
        BY <2>1, <4>1 DEF Duplicates
      <4>5. NotBehind(Stage(k), ops[k], Snapshot)
        BY <4>1, <4>2 DEF NotBehind
      <4>6. key \in DOMAIN disk /\ Snapshot[key].of = disk[key].of =>
              Snapshot[key].seen >= disk[key].seen
        <5>1. key \in DOMAIN disk => disk[key].seen \in Nat
          BY DEF RunInv, DiskInv, IsState
        <5>2. QED
          BY <4>1, <4>2, <5>1 DEF NotBehind
      <4>7. QED
        BY <2>2, <4>1, <4>3, <4>4, <4>5, <4>6
    <3>3. QED
      BY <2>1, <3>1, <3>2, SnapshotEntry
  <2>4. \A k \in StatefulAt : NotBehind(Stage(k), ops[k], Snapshot)
    BY <2>3 DEF NotBehind
  <2>5. QED
    BY <1>2, <2>1, <2>3, <2>4
<1>3. QED
  BY <1>1, <1>2 DEF WriteCheckpoint

Started == {"source", "sink", "endpoint", "run", "drain"}

LEMMA InvInit == Init => RunInv
<1> SUFFICES ASSUME Init PROVE RunInv
  OBVIOUS
<1>1. pc = "down" /\ ops = << >> /\ disk = << >>
  BY DEF Init
<1>2. DOMAIN ops = {} /\ DOMAIN disk = {}
  BY <1>1
<1>3. QED
  BY <1>1, <1>2 DEF RunInv, DiskInv, StagesInv, AheadOfDisk, Goes

\* When the process has ended the disk is as it was.
LEMMA DownKeeps == ASSUME RunInv, Down PROVE RunInv'
<1>1. pc' = "down" /\ ops' = << >> /\ disk' = disk
  BY DEF Down
<1>2. DOMAIN ops' = {}
  BY <1>1
<1>3. QED
  BY <1>1, <1>2 DEF RunInv, DiskInv, StagesInv, AheadOfDisk, Goes

LEMMA SameStages ==
  ASSUME RunInv, UNCHANGED <<topology, ops, disk>>,
         pc' = pc \/ (pc \in Started /\ pc' \in Started)
  PROVE  RunInv'
<1>1. /\ StatefulAt' = StatefulAt /\ Duplicates' = Duplicates /\ Goes' = Goes
      /\ \A k : Stage(k)' = Stage(k)
  BY DEF StatefulAt, Duplicates, Stage, Goes, Started
<1>2. QED
  BY <1>1 DEF RunInv, DiskInv, StagesInv, AheadOfDisk, Started

LEMMA StartKeeps == ASSUME RunInv, NEW command \in Commands, Start(command) PROVE RunInv'
<1>1. pc = "down" /\ pc' = "build" /\ ops' = ops /\ disk' = disk
  BY DEF Start
<1>2. DOMAIN ops = {}
  BY <1>1 DEF RunInv, StagesInv
<1>3. QED
  BY <1>1, <1>2 DEF RunInv, DiskInv, StagesInv, AheadOfDisk, Goes

LEMMA BuildKeeps == ASSUME RunInv, Build PROVE RunInv'
<1>1. CASE Down
  BY <1>1, DownKeeps
<1>2. CASE ~Down
  <2>1. /\ pc' = "checkpoints" /\ topology' = topology /\ disk' = disk
        /\ ops' = [k \in StatefulAt |-> Fresh(Stage(k))]
    BY <1>2 DEF Build
  <2>2. StatefulAt' = StatefulAt /\ \A k : Stage(k)' = Stage(k)
    BY <2>1 DEF StatefulAt, Stage
  <2>3. \A k \in StatefulAt : Fits(Stage(k), ops'[k])
    BY <2>1, FreshFits
  <2>4. QED
    BY <2>1, <2>2, <2>3 DEF RunInv, DiskInv, StagesInv, AheadOfDisk, Goes
<1>3. QED
  BY <1>1, <1>2

LEMMA OpenCheckpointsKeeps == ASSUME RunInv, OpenCheckpoints PROVE RunInv'
<1>1. /\ pc = "checkpoints" /\ pc' = "source" /\ topology' = topology /\ disk' = disk
      /\ \/ topology.checkpoint = {} /\ ops' = ops
         \/ /\ topology.checkpoint # {} /\ ~Duplicates
            /\ ops' = [k \in StatefulAt |-> Restored(Stage(k), disk)]
  BY DEF OpenCheckpoints
<1>2. StatefulAt' = StatefulAt /\ Duplicates' = Duplicates /\ \A k : Stage(k)' = Stage(k)
  BY <1>1 DEF StatefulAt, Duplicates, Stage
<1>3. CASE topology.checkpoint = {} /\ ops' = ops
  BY <1>1, <1>2, <1>3 DEF RunInv, DiskInv, StagesInv, AheadOfDisk, Goes
<1>4. CASE /\ topology.checkpoint # {} /\ ~Duplicates
           /\ ops' = [k \in StatefulAt |-> Restored(Stage(k), disk)]
  <2>1. \A k \in StatefulAt : Fits(Stage(k), ops'[k]) /\ NotBehind(Stage(k), ops'[k], disk)
    BY <1>4, RestoredFits DEF RunInv
  <2>2. DOMAIN ops' = StatefulAt
    BY <1>4
  <2>3. QED
    BY <1>1, <1>2, <1>4, <2>1, <2>2 DEF RunInv, DiskInv, StagesInv, AheadOfDisk, Goes
<1>5. QED
  BY <1>1, <1>3, <1>4

\* An event makes the stages it reaches count one more.
LEMMA ProcessKeeps == ASSUME RunInv, Process PROVE RunInv'
<1>1. /\ pc = "run" /\ pc' \in Started /\ topology' = topology /\ disk' = disk
      /\ DOMAIN ops' = DOMAIN ops
      /\ \A k \in DOMAIN ops : ops'[k] = ops[k] \/ ops'[k] = [ops[k] EXCEPT !.seen = @ + 1]
  BY DEF Process, Started
<1>2. /\ StatefulAt' = StatefulAt /\ Duplicates' = Duplicates /\ Goes' = Goes
      /\ \A k : Stage(k)' = Stage(k)
  BY <1>1 DEF StatefulAt, Duplicates, Stage, Goes, Started
<1>3. ASSUME NEW k \in DOMAIN ops
      PROVE  /\ Fits(Stage(k), ops'[k])
             /\ NotBehind(Stage(k), ops[k], disk) => NotBehind(Stage(k), ops'[k], disk)
  <2>1. Fits(Stage(k), ops[k]) /\ ops[k] = [of |-> ops[k].of, seen |-> ops[k].seen]
        /\ ops[k].seen \in Nat
    BY DEF RunInv, StagesInv, Fits, IsState
  <2>2. CASE ops'[k] = ops[k]
    BY <2>1, <2>2
  <2>3. CASE ops'[k] = [ops[k] EXCEPT !.seen = @ + 1]
    <3>1. ops'[k] = [of |-> ops[k].of, seen |-> ops[k].seen + 1]
      BY <2>1, <2>3
    <3>2. \A key \in DOMAIN disk : disk[key].seen \in Nat
      BY DEF RunInv, DiskInv, IsState
    <3>3. QED
      BY <2>1, <3>1, <3>2 DEF Fits, IsState, NotBehind
  <2>4. QED
    BY <1>1, <2>2, <2>3
<1>4. QED
  BY <1>1, <1>2, <1>3 DEF RunInv, DiskInv, StagesInv, AheadOfDisk, Started

LEMMA WriteKeeps == ASSUME RunInv, Tick \/ InputEnds PROVE RunInv'
<1>1. /\ pc = "run" /\ pc' \in Started /\ topology' = topology /\ ops' = ops
      /\ WriteCheckpoint
  BY DEF Tick, InputEnds, process, Started
<1>2. /\ StatefulAt' = StatefulAt /\ Duplicates' = Duplicates /\ Goes' = Goes
      /\ \A k : Stage(k)' = Stage(k)
  BY <1>1 DEF StatefulAt, Duplicates, Stage, Goes, Started
<1>3. DiskInv'
  BY <1>1, WriteGoesOn DEF DiskInv
<1>4. AheadOfDisk'
  BY <1>1, <1>2, WriteGoesOn DEF RunInv, AheadOfDisk
<1>5. QED
  BY <1>1, <1>2, <1>3, <1>4 DEF RunInv, StagesInv, Started

LEMMA RunInvNext == ASSUME RunInv, [Next]_vars PROVE RunInv'
<1>1. CASE \E command \in Commands : Start(command)
  BY <1>1, StartKeeps
<1>2. CASE Build \/ OpenCheckpoints \/ Process \/ Tick \/ InputEnds
  BY <1>2, BuildKeeps, OpenCheckpointsKeeps, ProcessKeeps, WriteKeeps
<1>3. CASE Down
  BY <1>3, DownKeeps
<1>4. CASE ~Down /\ (StartSource \/ StartSink \/ StartEndpoint)
  BY <1>4, SameStages DEF StartSource, StartSink, StartEndpoint, Started
<1>5. CASE SourceSends \/ SourceEnds \/ SinkEnds \/ ServeMetrics \/ Stopped \/ UNCHANGED vars
  BY <1>5, SameStages DEF SourceSends, SourceEnds, SinkEnds, ServeMetrics, Stopped, vars, runVars,
     process
<1>6. QED
  BY <1>1, <1>2, <1>3, <1>4, <1>5 DEF Next, Startup, CheckpointsRefused, Return, Crash

\* Only the steps of the loop write to the disk.
LEMMA DiskStays ==
  ASSUME [Next]_vars, ~Tick, ~InputEnds PROVE disk' = disk
BY DEF Next, Start, Startup, Build, OpenCheckpoints, CheckpointsRefused, StartSource, StartSink,
   StartEndpoint, SourceSends, SourceEnds, Process, SinkEnds, Return, Crash, Down, ServeMetrics,
   Stopped, vars, runVars

\* Whatever topologies a process was started with before, in any order, a stage goes on
\* from a state of its own type and name.
THEOREM StagesResumeTheirOwn == Spec => []ResumesItsOwnState
<1>1. RunInv => ResumesItsOwnState
  BY DEF RunInv, StagesInv, Fits, ResumesItsOwnState
<1>2. QED
  BY InvInit, RunInvNext, <1>1, PTL DEF Spec

\* Whatever topologies a process is started with, refused or killed, no checkpoint has
\* seen less of an operator than the one before.
THEOREM CheckpointsGoOn == Spec => HistoryGoesOn
<1> DEFINE GoesOn == \A key \in DOMAIN disk \cap DOMAIN disk' :
                       disk'[key].of = disk[key].of => disk'[key].seen >= disk[key].seen
<1>1. RunInv /\ [Next]_vars => [GoesOn]_vars
  <2> SUFFICES ASSUME RunInv, [Next]_vars PROVE GoesOn
    OBVIOUS
  <2>1. CASE Tick \/ InputEnds
    <3>1. pc = "run" /\ WriteCheckpoint
      BY <2>1 DEF Tick, InputEnds
    <3>2. QED
      BY <3>1, WriteGoesOn
  <2>2. CASE ~Tick /\ ~InputEnds
    <3>1. \A key \in DOMAIN disk : disk[key].seen \in Nat
      BY DEF RunInv, DiskInv, IsState
    <3>2. QED
      BY <2>2, <3>1, DiskStays
  <2>3. QED
    BY <2>1, <2>2
<1>2. QED
  BY InvInit, RunInvNext, <1>1, PTL DEF Spec, HistoryGoesOn

(***************************************************************************)
(* What the endpoint answers                                               *)
(***************************************************************************)

Counts == [Counters -> Nat]
AtMost(a, b) == \A k \in Counters : a[k] <= b[k]

\* A connection with what was published, p, and what is counted, n.
ScrapeFits(s, p, n) ==
  /\ s = [at |-> s.at, head |-> s.head, seen |-> s.seen, floor |-> s.floor]
  /\ s.floor \in Counts /\ AtMost(s.floor, p)
  /\ s.at = "rendering" =>
       \A k \in DOMAIN s.seen :
         /\ k \in Counters /\ s.seen[k] \in Nat
         /\ s.floor[k] <= s.seen[k] /\ s.seen[k] <= n[k]

\* No answer is ahead of the counters, nor a connection's floor of the answers.
EndpointInv ==
  /\ counters \in Counts /\ published \in Counts
  /\ AtMost(published, counters)
  /\ DOMAIN scrapes = Scrapers
  /\ \A c \in Scrapers : ScrapeFits(scrapes[c], published, counters)

\* A connection still fits when more is counted or published.
LEMMA StillFits ==
  ASSUME NEW s, NEW p \in Counts, NEW n \in Counts, NEW q \in Counts, NEW m \in Counts,
         ScrapeFits(s, p, n), AtMost(p, q), AtMost(n, m)
  PROVE  ScrapeFits(s, q, m)
<1>1. s.floor \in Counts /\ AtMost(s.floor, q)
  BY DEF ScrapeFits, AtMost, Counts
<1>2. s.at = "rendering" =>
       \A k \in DOMAIN s.seen :
         /\ k \in Counters /\ s.seen[k] \in Nat
         /\ s.floor[k] <= s.seen[k] /\ s.seen[k] <= m[k]
  BY <1>1 DEF ScrapeFits, AtMost, Counts
<1>3. QED
  BY <1>1, <1>2 DEF ScrapeFits

LEMMA ZeroCounts == Zero \in Counts /\ AtMost(Zero, Zero)
BY DEF Zero, Counts, AtMost

LEMMA UnconnectedFits ==
  ASSUME NEW at, at # "rendering", NEW p \in Counts, NEW n
  PROVE  ScrapeFits(Connection(at, 0, << >>, Zero), p, n)
<1>1. Zero \in Counts /\ AtMost(Zero, p)
  BY DEF Zero, Counts, AtMost
<1>2. QED
  BY <1>1 DEF ScrapeFits, Connection

LEMMA EndpointAtRest ==
  ASSUME counters' = Zero, published' = Zero, scrapes' = [c \in Scrapers |-> Unconnected]
  PROVE  EndpointInv'
<1>1. ScrapeFits(Unconnected, Zero, Zero)
  BY UnconnectedFits, ZeroCounts DEF Unconnected
<1>2. QED
  BY <1>1, ZeroCounts DEF EndpointInv

\* The connection of c becomes s, and no other changes.
Becomes(c, s) ==
  /\ DOMAIN scrapes' = Scrapers
  /\ scrapes'[c] = s
  /\ \A d \in Scrapers : d # c => scrapes'[d] = scrapes[d]

LEMMA OneScrape ==
  ASSUME EndpointInv, NEW c \in Scrapers, NEW s, Becomes(c, s),
         ScrapeFits(s, published, counters), published' = published, counters' = counters
  PROVE  EndpointInv'
BY DEF EndpointInv, Becomes

\* What a step of a connection does to it.
LEMMA EndpointSteps ==
  ASSUME DOMAIN scrapes = Scrapers, NEW c \in Scrapers,
         NEW at, NEW head, NEW seen, NEW floor,
         scrapes[c] = Connection(at, head, seen, floor)
  PROVE  /\ Connect(c) => Becomes(c, Connection("queued", 0, << >>, Zero))
         /\ Accept(c) => Becomes(c, Connection("reading", head, seen, published))
         /\ ReadChunk(c) => \E a, h : a # "rendering" /\ Becomes(c, Connection(a, h, seen, floor))
         /\ ReadFails(c) => Becomes(c, Connection("dropped", head, seen, floor))
         /\ HeadEnds(c) => \/ Becomes(c, Connection("rendering", head, << >>, floor))
                           \/ Becomes(c, Connection("answered", head, seen, floor))
         /\ \A k \in Counters : Load(c, k) =>
              Becomes(c, Connection(at, head,
                [j \in DOMAIN seen \cup {k} |-> IF j = k THEN counters[k] ELSE seen[j]], floor))
         /\ Answer(c) => Becomes(c, Connection("answered", head, seen, floor))
<1>1. /\ scrapes[c].at = at /\ scrapes[c].head = head
      /\ scrapes[c].seen = seen /\ scrapes[c].floor = floor
  BY DEF Connection
<1>2. \A x : scrapes' = [scrapes EXCEPT ![c] = x] => Becomes(c, x)
  BY DEF Becomes
<1>3. Connect(c) => Becomes(c, Connection("queued", 0, << >>, Zero))
  BY <1>2, Zenon DEF Connect
<1>4. Accept(c) => Becomes(c, Connection("reading", head, seen, published))
  BY <1>1, <1>2 DEF Accept
<1>5. ReadChunk(c) => \E a, h : a # "rendering" /\ Becomes(c, Connection(a, h, seen, floor))
  <2>1. PICK a : a = IF scrapes[c].head < HeadLimit THEN "reading" ELSE "dropped"
    OBVIOUS
  <2>2. ReadChunk(c) => scrapes' = [scrapes EXCEPT ![c] = Connection(a, head + 1, seen, floor)]
    BY <1>1, <2>1 DEF ReadChunk
  <2>3. a # "rendering"
    BY <2>1
  <2>4. QED
    BY <1>2, <2>2, <2>3
<1>6. \A a : Move(c, a) => Becomes(c, Connection(a, head, seen, floor))
  BY <1>1, <1>2 DEF Move
<1>7. HeadEnds(c) => \/ Becomes(c, Connection("rendering", head, << >>, floor))
                     \/ Becomes(c, Connection("answered", head, seen, floor))
  BY <1>1, <1>2, <1>6 DEF HeadEnds
<1>8. ASSUME NEW k \in Counters, Load(c, k)
      PROVE  Becomes(c, Connection(at, head,
               [j \in DOMAIN seen \cup {k} |-> IF j = k THEN counters[k] ELSE seen[j]], floor))
  BY <1>1, <1>2, <1>8 DEF Load, Loaded
<1>9. QED
  BY <1>3, <1>4, <1>5, <1>6, <1>7, <1>8 DEF ReadFails, Answer

LEMMA EndpointKeeps == ASSUME EndpointInv, Endpoint, counters' = counters PROVE EndpointInv'
<1>1. CASE AcceptFails
  BY <1>1 DEF AcceptFails, EndpointInv
<1>2. ASSUME NEW c \in Scrapers,
             Connect(c) \/ Accept(c) \/ ReadChunk(c) \/ ReadFails(c) \/ HeadEnds(c) \/ Render(c)
      PROVE  EndpointInv'
  <2>1. PICK at, head, seen, floor :
          scrapes[c] = Connection(at, head, seen, floor)
    BY DEF EndpointInv, ScrapeFits, Connection
  <2>2. /\ floor \in Counts /\ AtMost(floor, published)
        /\ at = "rendering" =>
             \A k \in DOMAIN seen : /\ k \in Counters /\ seen[k] \in Nat
                                    /\ floor[k] <= seen[k] /\ seen[k] <= counters[k]
    <3>1. ScrapeFits(scrapes[c], published, counters)
      BY DEF EndpointInv
    <3>2. QED
      BY <2>1, <3>1 DEF ScrapeFits, Connection
  <2>3. published \in Counts /\ counters \in Counts /\ AtMost(published, counters)
        /\ DOMAIN scrapes = Scrapers
    BY DEF EndpointInv
  <2>4. ASSUME NEW a, a # "rendering", NEW h, NEW x, NEW f \in Counts, AtMost(f, published)
        PROVE  ScrapeFits(Connection(a, h, x, f), published, counters)
    BY <2>4 DEF ScrapeFits, Connection
  <2>5. CASE Connect(c)
    <3>1. Becomes(c, Connection("queued", 0, << >>, Zero)) /\ published' = published
      BY <2>1, <2>3, <2>5, EndpointSteps DEF Connect
    <3>2. QED
      BY <2>3, <3>1, OneScrape, UnconnectedFits
  <2>6. CASE Accept(c)
    <3>1. /\ Becomes(c, Connection("reading", head, seen, published))
          /\ published' = published
      BY <2>1, <2>3, <2>6, EndpointSteps DEF Accept
    <3>2. AtMost(published, published)
      BY <2>3 DEF AtMost, Counts
    <3>3. QED
      BY <2>3, <2>4, <3>1, <3>2, OneScrape
  <2>7. CASE ReadChunk(c) \/ ReadFails(c)
    <3>1. PICK a, h : a # "rendering" /\ Becomes(c, Connection(a, h, seen, floor))
      <4>1. "dropped" # "rendering"
        OBVIOUS
      <4>2. QED
        BY <2>1, <2>3, <2>7, <4>1, EndpointSteps
    <3>2. published' = published
      BY <2>7 DEF ReadChunk, ReadFails
    <3>3. QED
      BY <2>2, <2>4, <3>1, <3>2, OneScrape
  <2>8. CASE HeadEnds(c)
    <3>1. published' = published
      BY <2>8 DEF HeadEnds
    <3>2. CASE Becomes(c, Connection("rendering", head, << >>, floor))
      <4>1. PICK s : s = Connection("rendering", head, << >>, floor)
        OBVIOUS
      <4>2. DOMAIN s.seen = {}
        BY <4>1 DEF Connection
      <4>3. ScrapeFits(s, published, counters)
        BY <2>2, <4>1, <4>2 DEF ScrapeFits, Connection
      <4>4. QED
        BY <3>1, <3>2, <4>1, <4>3, OneScrape
    <3>3. CASE Becomes(c, Connection("answered", head, seen, floor))
      BY <2>2, <2>4, <3>1, <3>3, OneScrape
    <3>4. QED
      BY <2>1, <2>3, <2>8, <3>2, <3>3, EndpointSteps
  <2>9. CASE \E k \in Counters : Load(c, k)
    <3>1. PICK k \in Counters : Load(c, k)
      BY <2>9
    <3>2. PICK x : x = [j \in DOMAIN seen \cup {k} |-> IF j = k THEN counters[k] ELSE seen[j]]
      OBVIOUS
    <3>3. PICK s : s = Connection(at, head, x, floor)
      OBVIOUS
    <3>4. at = "rendering" /\ Becomes(c, s) /\ published' = published
      <4>1. at = "rendering" /\ published' = published
        BY <2>1, <3>1 DEF Load, At, Connection
      <4>2. Becomes(c, s)
        BY <2>1, <2>3, <3>1, <3>2, <3>3, EndpointSteps
      <4>3. QED
        BY <4>1, <4>2
    <3>5. floor[k] <= counters[k] /\ counters[k] \in Nat
      BY <2>2, <2>3 DEF AtMost, Counts
    <3>6. \A j \in DOMAIN x : /\ j \in Counters /\ x[j] \in Nat
                              /\ floor[j] <= x[j] /\ x[j] <= counters[j]
      BY <2>2, <3>2, <3>4, <3>5
    <3>7. ScrapeFits(s, published, counters)
      BY <2>2, <3>3, <3>6 DEF ScrapeFits, Connection
    <3>8. QED
      BY <3>4, <3>7, OneScrape
  <2>10. CASE Answer(c)
    <3>1. /\ at = "rendering" /\ DOMAIN seen = Counters
          /\ published' = [k \in Counters |-> Higher(published[k], seen[k])]
      BY <2>1, <2>10 DEF Answer, At, Loaded, Connection
    <3>2. Becomes(c, Connection("answered", head, seen, floor))
      BY <2>1, <2>3, <2>10, EndpointSteps
    <3>3. /\ published' \in Counts /\ AtMost(published, published')
          /\ AtMost(published', counters) /\ AtMost(counters, counters)
      BY <2>2, <2>3, <3>1 DEF Counts, AtMost, Higher
    <3>4. ScrapeFits(Connection("answered", head, seen, floor),
                     published, counters)
      BY <2>2, <2>4
    <3>5. \A d \in Scrapers : ScrapeFits(scrapes'[d], published, counters)
      BY <3>2, <3>4 DEF EndpointInv, Becomes
    <3>6. \A d \in Scrapers : ScrapeFits(scrapes'[d], published', counters)
      BY <2>3, <3>3, <3>5, StillFits
    <3>7. QED
      BY <2>3, <3>2, <3>3, <3>6 DEF EndpointInv, Becomes
  <2>11. QED
    BY <1>2, <2>5, <2>6, <2>7, <2>8, <2>9, <2>10 DEF Render
<1>3. QED
  BY <1>1, <1>2 DEF Endpoint

LEMMA EndpointNext == ASSUME EndpointInv, [Next]_vars PROVE EndpointInv'
<1>1. CASE Down
  BY <1>1, EndpointAtRest DEF Down
<1>2. CASE ServeMetrics
  BY <1>2, EndpointKeeps DEF ServeMetrics
<1>3. CASE Process
  <2>1. /\ counters' = [counters EXCEPT !["received"] = counters["received"] + 1]
        /\ published' = published /\ scrapes' = scrapes
    BY <1>3 DEF Process, endpointVars
  <2>2. counters \in Counts /\ published \in Counts /\ AtMost(published, counters)
    BY DEF EndpointInv
  <2>3. counters' \in Counts /\ AtMost(counters, counters') /\ AtMost(published, published)
    BY <2>1, <2>2, CountersAssumption DEF Counts, AtMost
  <2>4. AtMost(published, counters')
    BY <2>2, <2>3 DEF Counts, AtMost
  <2>5. \A c \in Scrapers : ScrapeFits(scrapes[c], published, counters')
    BY <2>2, <2>3, StillFits DEF EndpointInv
  <2>6. QED
    BY <2>1, <2>2, <2>3, <2>4, <2>5 DEF EndpointInv
<1>4. CASE /\ ~Down /\ ~ServeMetrics /\ ~Process
  <2>1. counters' = counters /\ published' = published /\ scrapes' = scrapes
    BY <1>4 DEF Next, Start, Startup, Build, OpenCheckpoints, CheckpointsRefused, StartSource,
       StartSink, StartEndpoint, Bind, SourceSends, SourceEnds, Tick, InputEnds, SinkEnds, Return,
       Crash, Stopped, vars, endpointVars
  <2>2. QED
    BY <2>1 DEF EndpointInv
<1>5. QED
  BY <1>1, <1>2, <1>3, <1>4

\* However many clients ask, at whatever moments of their answers the counters are loaded
\* and in whatever order: no answer is behind one that had been given when its connection
\* was accepted, nor ahead of the counters.
THEOREM ScrapesNeverGoBack == Spec => []ScrapesGoForward
<1>1. Init => EndpointInv
  <2> SUFFICES ASSUME Init PROVE EndpointInv
    OBVIOUS
  <2>1. counters = Zero /\ published = Zero /\ scrapes = [c \in Scrapers |-> Unconnected]
    BY DEF Init, EndpointInit
  <2>2. ScrapeFits(Unconnected, Zero, Zero)
    BY UnconnectedFits, ZeroCounts DEF Unconnected
  <2>3. QED
    BY <2>1, <2>2, ZeroCounts DEF EndpointInv
<1>2. EndpointInv => ScrapesGoForward
  BY DEF EndpointInv, ScrapeFits, ScrapesGoForward, At, Loaded
<1>3. QED
  BY <1>1, <1>2, EndpointNext, PTL DEF Spec

=============================================================================
