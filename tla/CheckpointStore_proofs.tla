----------------------- MODULE CheckpointStore_proofs -----------------------
(***************************************************************************)
(* Theorems about CheckpointStore, for any number of checkpoints, any      *)
(* positive max_retained, changing from start to start, and any failures.  *)
(***************************************************************************)
EXTENDS CheckpointStore, FiniteSetTheorems, TLAPS

\* Snapshot n is in file n - 1: a torn file can only be the next one, and the file
\* of the last snapshot is never among those gc removes.
Layout ==
  /\ \A id \in DOMAIN files :
       /\ id <= version
       /\ files[id] = IF id = version THEN Torn ELSE id + 1
  /\ version > 0 => version - 1 \in DOMAIN files
  /\ pc # "down" => nextId = version
  /\ \A id \in doomed : id + 1 < version

IInv == TypeOK /\ Layout

\* Under the layout the latest file is the last snapshot.
LEMMA LatestIsLast ==
  ASSUME IInv
  PROVE  LatestSnapshot(files) = version /\ ResumeId(files) = version
<1>1. Listed(files) = DOMAIN files \ {version}
  BY DEF IInv, Listed, Layout, TypeOK, Torn
<1>2. CASE version = 0
  <2>1. Listed(files) = {}
    BY <1>1, <1>2 DEF IInv, Layout, TypeOK
  <2>2. QED
    BY <1>2, <2>1 DEF LatestSnapshot, ResumeId
<1>3. CASE version > 0
  <2>1. version - 1 \in Listed(files) /\ \A id \in Listed(files) : id <= version - 1
    BY <1>1, <1>3 DEF IInv, Layout, TypeOK
  <2>2. Latest(files) = version - 1
    <3>1. \A a, b \in Listed(files) : a <= b /\ b <= a => a = b
      BY <1>1 DEF IInv, TypeOK
    <3>2. QED
      BY <2>1, <3>1 DEF Latest
  <2>3. files[version - 1] = version
    BY <1>1, <1>3, <2>1 DEF IInv, Layout, TypeOK
  <2>4. QED
    BY <1>3, <2>1, <2>2, <2>3 DEF IInv, LatestSnapshot, ResumeId, TypeOK
<1>4. QED
  BY <1>2, <1>3 DEF IInv, TypeOK

\* gc spares the newest file whenever it retains anything.
LEMMA NewestIsNotSurplus ==
  ASSUME NEW fs, NEW max \in Nat \ {0}, NEW newest \in Nat,
         DOMAIN fs \subseteq Nat, \A id \in Listed(fs) : id <= newest
  PROVE  newest \notin Surplus(fs, max)
<1> SUFFICES ASSUME newest \in Surplus(fs, max) PROVE FALSE
  OBVIOUS
<1>1. newest \in Listed(fs) /\ Cardinality({other \in Listed(fs) : other >= newest}) > max
  BY DEF Surplus
<1>2. Listed(fs) \subseteq Nat
  BY DEF Listed
<1>3. {other \in Listed(fs) : other >= newest} = {newest}
  BY <1>1, <1>2
<1>4. Cardinality({newest}) = 1
  BY FS_Singleton
<1>5. QED
  BY <1>1, <1>3, <1>4

\* One lemma per action, for the inductive invariant.
LEMMA InitIInv == Init => IInv
BY LimitsAssumption DEF Init, IInv, TypeOK, Layout

LEMMA OpenIInv ==
  ASSUME Retaining, IInv, Open
  PROVE  IInv'
<1>1. nextId' = version /\ loaded' = version /\ version \in Nat
  BY LatestIsLast DEF IInv, TypeOK, Open
<1>2. QED
  BY <1>1 DEF IInv, TypeOK, Layout, Open

LEMMA BeginWriteIInv ==
  ASSUME Retaining, IInv, BeginWrite
  PROVE  IInv'
<1>1. nextId = version /\ version \in Nat
  BY DEF IInv, TypeOK, Layout, BeginWrite
<1>2. DOMAIN files' = DOMAIN files \cup {version}
  BY <1>1 DEF BeginWrite, Put
<1>3. \A id \in DOMAIN files' : files'[id] = IF id = version THEN Torn ELSE files[id]
  BY <1>1 DEF BeginWrite, Put
<1>4. TypeOK'
  BY <1>1, <1>2, <1>3 DEF IInv, TypeOK, BeginWrite, Torn
<1>5. Layout'
  BY <1>1, <1>2, <1>3 DEF IInv, TypeOK, Layout, BeginWrite
<1>6. QED
  BY <1>4, <1>5 DEF IInv

LEMMA FinishWriteIInv ==
  ASSUME Retaining, IInv, FinishWrite
  PROVE  IInv'
<1>1. /\ nextId = version /\ version \in Nat /\ version' = version + 1 /\ nextId' = version + 1
      /\ limit \in Nat \ {0} /\ limit' = limit
  BY LimitsAssumption DEF IInv, TypeOK, Layout, FinishWrite, Retaining
<1>2. DOMAIN files' = DOMAIN files \cup {version}
  BY <1>1 DEF FinishWrite, Put
<1>3. \A id \in DOMAIN files' : files'[id] = IF id = version THEN version + 1 ELSE files[id]
  BY <1>1 DEF FinishWrite, Put
<1>4. \A id \in DOMAIN files' : id \in Nat /\ id <= version /\ files'[id] = id + 1
  BY <1>1, <1>2, <1>3 DEF IInv, TypeOK, Layout
<1>5. doomed' \subseteq DOMAIN files' /\ version \notin doomed'
  <2>1. doomed' = Surplus(files', limit)
    BY DEF FinishWrite
  <2>2. DOMAIN files' \subseteq Nat /\ \A id \in Listed(files') : id <= version
    BY <1>4 DEF Listed
  <2>3. version \notin Surplus(files', limit)
    BY <1>1, <2>2, NewestIsNotSurplus
  <2>4. QED
    BY <2>1, <2>3 DEF Surplus, Listed
<1>6. TypeOK'
  <2>1. pc' \in {"ready", "collecting"} /\ loaded' = loaded
    BY DEF FinishWrite
  <2>2. stuck' \subseteq DOMAIN files'
    BY <1>2 DEF FinishWrite, IInv, TypeOK
  <2>3. QED
    BY <1>1, <1>4, <1>5, <2>1, <2>2 DEF IInv, TypeOK
<1>7. Layout'
  BY <1>1, <1>2, <1>4, <1>5 DEF IInv, TypeOK, Layout
<1>8. QED
  BY <1>6, <1>7 DEF IInv

LEMMA RemoveIInv ==
  ASSUME Retaining, IInv, NEW id \in doomed, Remove(id)
  PROVE  IInv'
<1>1. /\ \/ files' = Delete(files, id) /\ stuck' = stuck \ {id}
         \/ files' = files /\ stuck' = stuck \cup {id}
      /\ doomed' = doomed \ {id}
      /\ pc' \in {"ready", "collecting"}
      /\ pc = "collecting"
      /\ UNCHANGED <<nextId, limit, loaded, version>>
  BY DEF Remove
<1>2. id + 1 < version /\ id \in Nat /\ version \in Nat
  BY DEF IInv, TypeOK, Layout
<1>3. /\ DOMAIN files' \subseteq DOMAIN files
      /\ DOMAIN files \subseteq DOMAIN files' \cup {id}
      /\ \A i \in DOMAIN files' : files'[i] = files[i]
  BY <1>1 DEF Delete
<1>4. TypeOK'
  BY <1>1, <1>3 DEF IInv, TypeOK
<1>5. Layout'
  BY <1>1, <1>2, <1>3 DEF IInv, TypeOK, Layout
<1>6. QED
  BY <1>4, <1>5 DEF IInv

\* The layout holds in every reachable state.
THEOREM LayoutInvariant ==
  ASSUME Retaining
  PROVE  Spec => []IInv
<1>1. IInv /\ [Next]_vars => IInv'
  <2> SUFFICES ASSUME IInv, [Next]_vars PROVE IInv'
    OBVIOUS
  <2>1. CASE Open
    BY <2>1, OpenIInv
  <2>2. CASE BeginWrite
    BY <2>2, BeginWriteIInv
  <2>3. CASE FinishWrite
    BY <2>3, FinishWriteIInv
  <2>4. CASE FailWrite \/ Stop
    BY <2>4 DEF FailWrite, Stop, IInv, TypeOK, Layout
  <2>5. CASE \E id \in doomed : Remove(id)
    BY <2>5, RemoveIInv
  <2>6. CASE UNCHANGED vars
    BY <2>6 DEF vars, IInv, TypeOK, Layout
  <2>7. QED
    BY <2>1, <2>2, <2>3, <2>4, <2>5, <2>6 DEF Next
<1>2. QED
  BY InitIInv, <1>1, PTL DEF Spec

\* Whatever fails and wherever the process stops, a start restores the latest
\* completed checkpoint.
THEOREM LatestCheckpointSurvives ==
  ASSUME Retaining
  PROVE  Spec => []LatestSurvives
<1>1. IInv => LatestSurvives
  BY LatestIsLast DEF LatestSurvives
<1>2. QED
  BY <1>1, LayoutInvariant, PTL

\* At most one torn file exists, and the next write replaces it.
THEOREM TornFileIsReused ==
  ASSUME Retaining
  PROVE  Spec => []TornIsNext
<1>1. IInv => TornIsNext
  BY LatestIsLast DEF TornIsNext, IInv, TypeOK, Layout, Torn
<1>2. QED
  BY <1>1, LayoutInvariant, PTL

\* A completed checkpoint is removed or left alone, never written again.
THEOREM CompletedNeverOverwritten ==
  ASSUME Retaining
  PROVE  Spec => NeverOverwritten
<1> DEFINE Kept == \A id \in Listed(files) : id \in DOMAIN files' => files'[id] = files[id]
<1>1. IInv /\ [Next]_vars => [Kept]_vars
  <2> SUFFICES ASSUME IInv, [Next]_vars, NEW id \in Listed(files), id \in DOMAIN files'
               PROVE  files'[id] = files[id]
    OBVIOUS
  <2>1. id \in DOMAIN files /\ (pc # "down" => id # nextId)
    BY DEF Listed, IInv, TypeOK, Layout
  <2>2. CASE BeginWrite \/ FinishWrite
    BY <2>1, <2>2 DEF BeginWrite, FinishWrite, Put
  <2>3. CASE \E i \in doomed : Remove(i)
    BY <2>1, <2>3 DEF Remove, Delete
  <2>4. CASE Open \/ FailWrite \/ Stop \/ UNCHANGED vars
    BY <2>4 DEF Open, FailWrite, Stop, vars
  <2>5. QED
    BY <2>2, <2>3, <2>4 DEF Next
<1>2. QED
  BY <1>1, LayoutInvariant, PTL DEF Spec, NeverOverwritten

\* The directory implements the abstract register: only the end of a write saves,
\* and every start loads the latest save.
THEOREM StoreImplementsRegister ==
  ASSUME Retaining
  PROVE  Spec => ImplementsRegister
<1>1. Init => Register!Init
  BY DEF Init, Register!Init, LatestSnapshot, Listed
<1> DEFINE Stored == LatestSnapshot(files) = version
<1>2. IInv => Stored
  BY LatestIsLast
<1>3. IInv' => Stored'
  <2> HIDE DEF Stored
  <2>1. QED
    BY <1>2, PTL
<1>4. IInv /\ IInv' /\ [Next]_vars => [Register!Next]_(Register!vars)
  <2> SUFFICES ASSUME IInv, IInv', [Next]_vars
               PROVE  [Register!Next]_(Register!vars)
    OBVIOUS
  <2>1. LatestSnapshot(files) = version
    BY LatestIsLast
  <2>2. LatestSnapshot(files)' = version'
    BY <1>3
  <2>3. CASE Open
    BY <2>1, <2>2, <2>3 DEF Open, Register!Next, Register!Load
  <2>4. CASE FinishWrite
    BY <2>1, <2>2, <2>4 DEF FinishWrite, Register!Next, Register!Save
  <2>5. CASE Stop
    BY <2>1, <2>2, <2>5 DEF Stop, Register!Next, Register!Stop
  <2>6. CASE BeginWrite \/ FailWrite \/ UNCHANGED vars
    BY <2>1, <2>2, <2>6 DEF BeginWrite, FailWrite, vars, Register!vars
  <2>7. CASE \E id \in doomed : Remove(id)
    BY <2>1, <2>2, <2>7 DEF Remove, Register!vars
  <2>8. QED
    BY <2>3, <2>4, <2>5, <2>6, <2>7 DEF Next
<1>5. QED
  BY <1>1, <1>4, LayoutInvariant, PTL DEF Spec, ImplementsRegister, Register!Spec

(***************************************************************************)
(* What is retained                                                        *)
(***************************************************************************)

\* The files that gc did not fail to remove.
Removable == Listed(files) \ stuck

\* They are the newest without a gap, and gc removes the lowest of them; once a run
\* has written, those it spares are no more than the limit.
RetainInv ==
  /\ \A id \in stuck : id < version
  /\ pc # "collecting" => doomed = {}
  /\ \E a \in 0 .. version : Removable = a .. version - 1
  /\ \A id \in Removable, d \in doomed : id < d => id \in doomed
  /\ pc # "down" /\ version # loaded =>
       \E b \in 0 .. version : version - b <= limit /\ Removable \ doomed = b .. version - 1

\* Where no file changes that gc has still to look at.
LEMMA SameRetained ==
  ASSUME RetainInv, Removable' = Removable, stuck' = stuck, version' = version, limit' = limit,
         loaded' = loaded, doomed' = doomed, doomed = {}, pc # "down"
  PROVE  RetainInv'
BY DEF RetainInv

\* A new checkpoint: gc removes what has as many newer files as the limit.
LEMMA FinishRetains ==
  ASSUME Retaining, IInv, RetainInv, FinishWrite
  PROVE  RetainInv'
<1>1. PICK v : v = version
  OBVIOUS
<1>2. /\ v = version /\ v \in Nat /\ nextId = v /\ version' = v + 1 /\ stuck' = stuck
      /\ limit' = limit /\ limit \in Nat
  BY <1>1, LimitsAssumption DEF IInv, TypeOK, Layout, FinishWrite
<1>3. Listed(files') = Listed(files) \cup {v} /\ v \notin Listed(files)
  BY <1>2 DEF Listed, FinishWrite, Put, IInv, TypeOK, Layout, Torn
<1>4. PICK a \in 0 .. v : Removable = a .. v - 1
  BY <1>2 DEF RetainInv
<1>5. \A id \in Listed(files) : id \in Nat /\ id < v
  BY <1>2 DEF Listed, IInv, TypeOK, Layout, Torn
<1>6. v \notin stuck /\ \A id \in stuck : id < v + 1
  BY <1>2 DEF RetainInv, IInv, TypeOK
<1>7. Removable' = a .. v
  <2>1. Removable' = Removable \cup {v}
    BY <1>2, <1>3, <1>6 DEF Removable
  <2>2. QED
    BY <1>2, <1>4, <2>1
<1>8. doomed' = {id \in Listed(files') : Cardinality({other \in Listed(files') : other >= id}) > limit}
  BY DEF FinishWrite, Surplus
<1>9. \A id \in a .. v : {other \in Listed(files') : other >= id} = id .. v
  <2>1. \A id \in Listed(files') : id \in Nat /\ id <= v
    BY <1>2, <1>3, <1>5
  <2>2. a .. v \subseteq Listed(files')
    BY <1>7 DEF Removable
  <2>3. \A id \in a .. v : id .. v \subseteq a .. v
    BY <1>2, <1>4
  <2>4. QED
    BY <1>2, <1>4, <2>1, <2>2, <2>3
<1>10. \A id \in a .. v : id \in doomed' <=> v + 1 - id > limit
  <2>1. \A id \in a .. v : Cardinality(id .. v) = v + 1 - id
    BY <1>2, <1>4, FS_Interval
  <2>2. a .. v \subseteq Listed(files')
    BY <1>7 DEF Removable
  <2>3. QED
    BY <1>8, <1>9, <2>1, <2>2
<1>11. \E b \in 0 .. v + 1 : v + 1 - b <= limit /\ Removable' \ doomed' = b .. v
  <2>1. CASE a <= v + 1 - limit
    <3>1. v + 1 - limit \in 0 .. v + 1
      BY <1>2, <1>4, <2>1
    <3>2. (a .. v) \ doomed' = (v + 1 - limit) .. v
      BY <1>2, <1>4, <1>10, <2>1
    <3>3. QED
      BY <1>2, <1>7, <3>1, <3>2
  <2>2. CASE ~(a <= v + 1 - limit)
    <3>1. (a .. v) \ doomed' = a .. v
      BY <1>2, <1>4, <1>10, <2>2
    <3>2. QED
      BY <1>2, <1>4, <1>7, <2>2, <3>1
  <2>3. QED
    BY <2>1, <2>2
<1>12. \A id \in Removable', d \in doomed' : id < d => id \in doomed'
  <2>1. \A d \in doomed' : d \in Nat /\ d <= v
    BY <1>2, <1>3, <1>5, <1>8
  <2>2. \A id \in a .. v, d \in doomed' : id < d => d \in a .. v
    BY <1>2, <1>4, <2>1
  <2>3. QED
    BY <1>2, <1>4, <1>7, <1>10, <2>1, <2>2
<1>13. pc' # "collecting" => doomed' = {}
  BY DEF FinishWrite
<1>14. a \in 0 .. v + 1 /\ v + 1 - 1 = v
  BY <1>2, <1>4
<1>15. QED
  BY <1>2, <1>6, <1>7, <1>11, <1>12, <1>13, <1>14 DEF RetainInv

\* gc removes the lowest file, or fails to.
LEMMA RemoveRetains ==
  ASSUME IInv, RetainInv, NEW x \in doomed, Remove(x)
  PROVE  RetainInv'
<1>1. /\ pc = "collecting" /\ pc' \in {"ready", "collecting"}
      /\ version' = version /\ limit' = limit /\ loaded' = loaded
      /\ doomed' = doomed \ {x} /\ \A d \in doomed : x <= d
      /\ pc' # "collecting" => doomed' = {}
  BY DEF Remove
<1>2. version \in Nat /\ x \in Nat /\ x < version
  BY DEF IInv, TypeOK, Layout
<1>3. Removable' = Removable \ {x} /\ stuck' \subseteq stuck \cup {x}
  <2>1. CASE files' = Delete(files, x) /\ stuck' = stuck \ {x}
    <3>1. Listed(files') = Listed(files) \ {x}
      BY <2>1 DEF Listed, Delete
    <3>2. QED
      BY <2>1, <3>1 DEF Removable
  <2>2. CASE files' = files /\ stuck' = stuck \cup {x}
    BY <2>2 DEF Removable, Listed
  <2>3. QED
    BY <2>1, <2>2 DEF Remove
<1>4. PICK a \in 0 .. version : Removable = a .. version - 1
  BY DEF RetainInv
<1>5. \E c \in 0 .. version : Removable' = c .. version - 1
  <2>1. CASE x \in Removable
    <3>1. x = a
      <4>1. a \in Removable /\ a <= x
        BY <1>2, <1>4, <2>1
      <4>2. a < x => a \in doomed
        BY <4>1 DEF RetainInv
      <4>3. QED
        BY <1>1, <1>2, <1>4, <4>1, <4>2
    <3>2. Removable' = a + 1 .. version - 1
      BY <1>2, <1>3, <1>4, <3>1
    <3>3. QED
      BY <1>2, <1>4, <3>1, <3>2
  <2>2. CASE x \notin Removable
    BY <1>3, <1>4, <2>2
  <2>3. QED
    BY <2>1, <2>2
<1>6. Removable' \ doomed' = Removable \ doomed
  BY <1>1, <1>3
<1>7. \A id \in Removable', d \in doomed' : id < d => id \in doomed'
  BY <1>1, <1>3 DEF RetainInv
<1>8. \A id \in stuck' : id < version'
  BY <1>1, <1>2, <1>3 DEF RetainInv
<1>9. QED
  BY <1>1, <1>5, <1>6, <1>7, <1>8 DEF RetainInv

LEMMA RetainNext == ASSUME Retaining, IInv, RetainInv, [Next]_vars PROVE RetainInv'
<1>1. CASE FinishWrite
  BY <1>1, FinishRetains
<1>2. CASE \E id \in doomed : Remove(id)
  BY <1>2, RemoveRetains
<1>3. CASE Open
  <2>1. loaded' = version /\ version' = version
    BY <1>3, LatestIsLast DEF Open
  <2>2. Removable' = Removable /\ stuck' = stuck /\ doomed' = doomed
    BY <1>3 DEF Open, Removable, Listed
  <2>3. pc = "down" /\ pc' = "ready"
    BY <1>3 DEF Open
  <2>4. QED
    BY <2>1, <2>2, <2>3 DEF RetainInv
<1>4. CASE BeginWrite
  <2>1. nextId = version
    BY <1>4 DEF BeginWrite, IInv, Layout
  <2>2. Listed(files') = Listed(files)
    BY <1>4, <2>1 DEF BeginWrite, Listed, Put, IInv, Layout
  <2>3. Removable' = Removable
    BY <1>4, <2>2 DEF BeginWrite, Removable
  <2>4. doomed = {} /\ pc = "ready"
    BY <1>4 DEF BeginWrite, RetainInv
  <2>5. QED
    BY <1>4, <2>3, <2>4, SameRetained DEF BeginWrite
<1>5. CASE FailWrite
  <2>1. Removable' = Removable /\ doomed = {}
    BY <1>5 DEF FailWrite, Removable, Listed, RetainInv
  <2>2. QED
    BY <1>5, <2>1, SameRetained DEF FailWrite
<1>6. CASE Stop
  <2>1. Removable' = Removable /\ stuck' = stuck /\ version' = version /\ doomed' = {} /\ pc' = "down"
    BY <1>6 DEF Stop, Removable, Listed
  <2>2. QED
    BY <2>1 DEF RetainInv
<1>7. CASE UNCHANGED vars
  BY <1>7 DEF vars, RetainInv, Removable, Listed
<1>8. QED
  BY <1>1, <1>2, <1>3, <1>4, <1>5, <1>6, <1>7 DEF Next

\* Once a run has written and gc is through, what it could remove is gone: the
\* others are the newest checkpoints, no more than max_retained and without a gap,
\* whatever removals failed and however often a process was stopped while collecting.
THEOREM NewestAreRetained ==
  ASSUME Retaining
  PROVE  Spec => []RetainsNewest
<1>1. Init => RetainInv
  <2> SUFFICES ASSUME Init PROVE RetainInv
    OBVIOUS
  <2>1. Removable = {} /\ version = 0 /\ loaded = 0 /\ stuck = {} /\ doomed = {} /\ pc = "down"
    BY DEF Init, Removable, Listed
  <2>2. 0 \in 0 .. 0 /\ 0 .. 0 - 1 = {}
    OBVIOUS
  <2>3. QED
    BY <2>1, <2>2 DEF RetainInv
<1>2. IInv /\ RetainInv => RetainsNewest
  <2> SUFFICES ASSUME IInv, RetainInv, pc = "ready", version # loaded
               PROVE  LET kept == {files[id] : id \in Listed(files) \ stuck}
                      IN  /\ Cardinality(kept) <= limit
                          /\ kept = {n \in 1 .. version : n > version - Cardinality(kept)}
    BY DEF RetainsNewest
  <2> DEFINE kept == {files[id] : id \in Listed(files) \ stuck}
  <2>1. PICK b \in 0 .. version : version - b <= limit /\ Removable = b .. version - 1
    BY DEF RetainInv
  <2>2. version \in Nat /\ \A id \in Removable : files[id] = id + 1
    BY DEF IInv, TypeOK, Layout, Removable, Listed, Torn
  <2>3. kept = b + 1 .. version
    <3>1. kept = {id + 1 : id \in b .. version - 1}
      BY <2>1, <2>2 DEF Removable
    <3> HIDE DEF kept
    <3>2. ASSUME NEW n PROVE n \in kept <=> n \in b + 1 .. version
      <4>1. n \in b + 1 .. version => n = (n - 1) + 1 /\ n - 1 \in b .. version - 1
        BY <2>1, <2>2
      <4>2. QED
        BY <2>1, <2>2, <3>1, <4>1
    <3>3. QED
      BY <3>2
  <2>4. Cardinality(b + 1 .. version) = version - b
    <3>1. b + 1 \in Int /\ version \in Int /\ b <= version
      BY <2>1, <2>2
    <3>2. Cardinality(b + 1 .. version) = IF b + 1 > version THEN 0 ELSE version - (b + 1) + 1
      BY <3>1, FS_Interval
    <3>3. QED
      BY <2>1, <2>2, <3>1, <3>2
  <2>5. {n \in 1 .. version : n > version - (version - b)} = b + 1 .. version
    BY <2>1, <2>2
  <2>6. QED
    BY <2>1, <2>3, <2>4, <2>5
<1>3. QED
  BY <1>1, <1>2, RetainNext, LayoutInvariant, PTL DEF Spec

=============================================================================
