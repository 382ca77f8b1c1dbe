-------------------------- MODULE Operators_proofs --------------------------
(***************************************************************************)
(* Theorems about Operators, for every set of operators, any events, any   *)
(* rate and limit and any number of calls and restarts.                    *)
(***************************************************************************)
EXTENDS Operators, SequenceLemmas, FiniteSetTheorems, TLAPS

(***************************************************************************)
(* The history of the calls                                                *)
(***************************************************************************)

Reported == {reports[i] : i \in DOMAIN reports}
Passed == {reports[i].at : i \in DOMAIN reports}

HistoryInv ==
  /\ IsSeq(lineage) /\ IsSeq(reports)
  /\ \A n \in Events : lineage[n].entity \in Entities /\ lineage[n].ts \in Nat
  /\ Passed \subseteq Events

LEMMA HistoryInit == Init => HistoryInv /\ Passed = {} /\ Events = {}
<1> SUFFICES ASSUME Init PROVE HistoryInv /\ Passed = {} /\ Events = {}
  OBVIOUS
<1>1. lineage = << >> /\ reports = << >>
  BY DEF Init
<1>2. DOMAIN << >> = {} /\ IsSeq(<< >>)
  BY EmptyIsSeq
<1>3. QED
  BY <1>1, <1>2 DEF HistoryInv, Passed, Events

LEMMA HistoryPlaces ==
  ASSUME HistoryInv
  PROVE  Len(lineage) \in Nat /\ DOMAIN lineage = 1 .. Len(lineage) /\ Events \subseteq 1 .. Len(lineage)
<1>1. Len(lineage) \in Nat /\ DOMAIN lineage = 1 .. Len(lineage)
  BY AppendSeq, AppendPlaces DEF HistoryInv
<1>2. QED
  BY <1>1 DEF Events

\* A call that reports nothing, or once.
LEMMA CalledOnce ==
  ASSUME HistoryInv, NEW entry, NEW result, Called(entry, result),
         entry = Closed \/ (entry # Closed /\ entry.entity \in Entities /\ entry.ts \in Nat),
         result.out = << >> \/ (entry # Closed /\ \E o : result.out = <<o>>)
  PROVE  /\ HistoryInv'
         /\ Len(lineage') = Len(lineage) + 1 /\ lineage'[Len(lineage) + 1] = entry
         /\ \A n \in 1 .. Len(lineage) : lineage'[n] = lineage[n]
         /\ Events' = Events \cup (IF entry = Closed THEN {} ELSE {Len(lineage) + 1})
         /\ Passed' = Passed \cup (IF result.out = << >> THEN {} ELSE {Len(lineage) + 1})
         /\ result.out = << >> => Reported' = Reported
         /\ \A o : result.out = <<o>> =>
              Reported' = Reported \cup {[at |-> Len(lineage) + 1, what |-> o]}
<1> DEFINE n == Len(lineage) + 1
<1>1. /\ IsSeq(lineage') /\ Len(lineage') = n /\ Len(lineage) \in Nat /\ lineage'[n] = entry
      /\ \A m \in 1 .. Len(lineage) : lineage'[m] = lineage[m]
      /\ DOMAIN lineage = 1 .. Len(lineage) /\ DOMAIN lineage' = 1 .. n
  <2>1. lineage' = Append(lineage, entry) /\ IsSeq(lineage)
    BY DEF Called, HistoryInv
  <2>2. QED
    BY <2>1, AppendSeq, AppendPlaces
<1>2. Events' = Events \cup (IF entry = Closed THEN {} ELSE {n})
  BY <1>1 DEF Events, Closed
<1>3. /\ IsSeq(reports')
      /\ Passed' = Passed \cup (IF result.out = << >> THEN {} ELSE {n})
      /\ result.out = << >> => Reported' = Reported
      /\ \A o : result.out = <<o>> => Reported' = Reported \cup {[at |-> n, what |-> o]}
  <2> DEFINE new == [k \in DOMAIN result.out |-> [at |-> n, what |-> result.out[k]]]
  <2>1. reports' = reports \o new /\ IsSeq(reports)
    BY DEF Called, HistoryInv
  <2>2. CASE result.out = << >>
    <3>1. new = << >>
      BY <2>2
    <3>2. reports \o << >> = reports
      BY <2>1, ConcatEmptySeq DEF IsSeq
    <3>3. reports' = reports
      BY <2>1, <3>1, <3>2, Zenon
    <3>4. QED
      BY <2>1, <2>2, <3>3 DEF Passed, Reported
  <2>3. CASE \E o : result.out = <<o>>
    <3>1. PICK o : result.out = <<o>>
      BY <2>3
    <3>2. PICK r : r = [at |-> n, what |-> o]
      OBVIOUS
    <3>3. new = <<r>> /\ result.out # << >> /\ r.at = n
      BY <3>1, <3>2
    <3>4. reports' = Append(reports, r)
      <4>1. reports \in Seq({reports[i] : i \in DOMAIN reports} \cup {r})
        BY <2>1 DEF IsSeq
      <4>2. reports \o <<r>> = Append(reports, r)
        BY <4>1, AppendIsConcat
      <4>3. QED
        BY <2>1, <3>3, <4>2, Zenon
    <3>5. /\ IsSeq(reports') /\ DOMAIN reports = 1 .. Len(reports) /\ Len(reports) \in Nat
          /\ DOMAIN reports' = 1 .. Len(reports) + 1
          /\ \A i \in 1 .. Len(reports) : reports'[i] = reports[i]
          /\ reports'[Len(reports) + 1] = r
      <4>1. IsSeq(reports)
        BY DEF HistoryInv
      <4>2. QED
        BY <3>4, <4>1, AppendSeq, AppendPlaces
    <3>6. Passed' = Passed \cup {n} /\ Reported' = Reported \cup {r}
      BY <3>3, <3>5 DEF Passed, Reported
    <3>7. \A p : result.out = <<p>> => p = o
      BY <3>1
    <3>8. QED
      BY <3>2, <3>3, <3>5, <3>6, <3>7
  <2>4. QED
    BY <2>2, <2>3
<1>4. HistoryInv'
  <2>1. \A m \in Events' : lineage'[m].entity \in Entities /\ lineage'[m].ts \in Nat
    BY <1>1, <1>2 DEF HistoryInv, Events
  <2>2. Passed' \subseteq Events'
    BY <1>2, <1>3 DEF HistoryInv
  <2>3. QED
    BY <1>1, <1>3, <2>1, <2>2 DEF HistoryInv
<1>5. QED
  BY <1>1, <1>2, <1>3, <1>4

(***************************************************************************)
(* The limit for each entity                                               *)
(***************************************************************************)

\* The events of an entity in the window that is open.
Open(x) == {m \in EventsOf(x) : SameWindow(m, Len(lineage))}

Before(n) == {m \in EventsOf(lineage[n].entity) : m < n /\ SameWindow(m, n)}

\* The count of an entity is that of its events until the limit is reached.
CountsInv ==
  /\ state \in [Entities -> 0 .. MaxPerEntity]
  /\ \A x \in Entities :
       IF state[x] < MaxPerEntity THEN Cardinality(Open(x)) = state[x]
                                  ELSE Cardinality(Open(x)) >= MaxPerEntity

LimiterInv ==
  HistoryInv /\ CountsInv
  /\ \A n \in Events : n \in Passed <=> Cardinality(Before(n)) < MaxPerEntity

LEMMA OpenFinite ==
  ASSUME HistoryInv PROVE \A x : IsFiniteSet(Open(x)) /\ Cardinality(Open(x)) \in Nat
<1>1. IsFiniteSet(1 .. Len(lineage))
  BY HistoryPlaces, FS_Interval
<1>2. \A x : Open(x) \in SUBSET (1 .. Len(lineage))
  BY HistoryPlaces DEF Open, EventsOf
<1>3. QED
  BY <1>1, <1>2, FS_Subset, FS_CardinalityType

\* What was before an event does not change.
LEMMA BeforeStays ==
  ASSUME HistoryInv, IsSeq(lineage'),
         \A m \in 1 .. Len(lineage) : lineage'[m] = lineage[m],
         Events' \cap (1 .. Len(lineage)) = Events,
         NEW n \in Events
  PROVE  Before(n)' = Before(n)
<1>1. /\ Len(lineage) \in Nat /\ Events \subseteq 1 .. Len(lineage)
      /\ DOMAIN lineage' = 1 .. Len(lineage') /\ Len(lineage') \in Nat
  BY HistoryPlaces, AppendSeq, AppendPlaces
<1>2. \A m \in 1 .. n : lineage'[m] = lineage[m] /\ m \in Nat
  BY <1>1
<1>3. \A m \in 1 .. n : SameWindow(m, n)' <=> SameWindow(m, n)
  BY <1>1, <1>2 DEF SameWindow, Closed
<1>4. \A m \in 1 .. n : m \in Events' <=> m \in Events
  BY <1>1
<1>5. n \in 1 .. n /\ \A m \in Events' : m < n => m \in 1 .. n
  BY <1>1 DEF Events
<1>6. QED
  BY <1>1, <1>2, <1>3, <1>4, <1>5 DEF Before, EventsOf

LEMMA LimiterInit == Init /\ kind = "limiter" => LimiterInv
<1> SUFFICES ASSUME Init, kind = "limiter" PROVE LimiterInv
  OBVIOUS
<1>1. HistoryInv /\ Events = {} /\ Passed = {}
  BY HistoryInit
<1>2. state = [x \in Entities |-> 0]
  BY DEF Init, Fresh, Limit!Initial
<1>3. \A x : Open(x) = {}
  BY <1>1 DEF Open, EventsOf
<1>4. QED
  BY <1>1, <1>2, <1>3, FS_EmptySet, LimitsAssumption DEF LimiterInv, CountsInv

\* An event is passed if its entity has room, and counted.
LEMMA LimiterProcess ==
  ASSUME LimiterInv, kind = "limiter", NEW event, event.entity \in Entities, event.ts \in Nat,
         Process(event)
  PROVE  LimiterInv'
<1>1. PICK e : e = [id |-> Len(lineage) + 1, entity |-> event.entity, ts |-> event.ts,
                    pos |-> event.pos, speed |-> event.speed]
  OBVIOUS
<1> DEFINE x == event.entity
<1>0. PICK n : n = Len(lineage) + 1
  OBVIOUS
<1>2. /\ n = Len(lineage) + 1 /\ Len(lineage) \in Nat /\ Events \subseteq 1 .. Len(lineage) /\ HistoryInv /\ CountsInv
      /\ Passed \subseteq Events /\ n \notin Events
  BY <1>0, HistoryPlaces DEF LimiterInv, HistoryInv
<1>3. e # Closed /\ e.entity = x /\ e.ts = event.ts
  BY <1>1, <1>2 DEF Closed
<1>4. PICK result : result = Limit!Process(state, e)
  OBVIOUS
<1>5. Called(e, result)
  BY <1>1, <1>4 DEF Process, Processing
<1>6. IF state[x] < MaxPerEntity
      THEN result.state = [state EXCEPT ![x] = state[x] + 1] /\ \E o : result.out = <<o>>
      ELSE result.state = state /\ result.out = << >>
  BY <1>3, <1>4 DEF Limit!Process, Limit!HasRoom
<1>7. /\ HistoryInv' /\ Len(lineage') = n /\ lineage'[n] = e
      /\ \A m \in 1 .. Len(lineage) : lineage'[m] = lineage[m]
      /\ Events' = Events \cup {n}
      /\ Passed' = Passed \cup (IF result.out = << >> THEN {} ELSE {n})
  BY <1>2, <1>3, <1>5, <1>6, CalledOnce
<1>8. state' = result.state /\ kind' = kind
  BY <1>5 DEF Called
<1>9. \A m \in 1 .. Len(lineage) : SameWindow(m, Len(lineage))' <=> SameWindow(m, Len(lineage))
  BY <1>2, <1>3, <1>7 DEF SameWindow, Closed
<1>10. \A y \in Entities : Open(y)' = Open(y) \cup (IF y = x THEN {n} ELSE {})
  <2>1. SameWindow(n, n)'
    BY <1>2, <1>3, <1>7 DEF SameWindow, Closed
  <2>2. \A y : EventsOf(y)' = EventsOf(y) \cup (IF y = x THEN {n} ELSE {})
    BY <1>2, <1>3, <1>7 DEF EventsOf
  <2>3. \A y : EventsOf(y) \subseteq 1 .. Len(lineage)
    BY <1>2 DEF EventsOf
  <2>4. QED
    BY <1>7, <1>9, <2>1, <2>2, <2>3 DEF Open
<1>11. Before(n)' = Open(x)
  <2>1. /\ lineage'[n].entity = x
        /\ EventsOf(x)' = EventsOf(x) \cup {n} /\ EventsOf(x) \subseteq 1 .. Len(lineage)
    BY <1>2, <1>3, <1>7 DEF EventsOf
  <2>2. ~(n < n) /\ \A m \in EventsOf(x) : m < n
    BY <1>2, <2>1
  <2>3. \A m \in EventsOf(x) : SameWindow(m, n)' <=> SameWindow(m, Len(lineage))
    BY <1>7, <1>9, <2>1
  <2>4. \A m : m \in Before(n)' <=> m \in EventsOf(x)' /\ m < n /\ SameWindow(m, n)'
    BY <1>7, <2>1 DEF Before, EventsOf
  <2>5. \A m : m \in Open(x) <=> m \in EventsOf(x) /\ SameWindow(m, Len(lineage))
    BY DEF Open
  <2>6. \A m : m \in Before(n)' <=> m \in Open(x)
    BY <2>1, <2>2, <2>3, <2>4, <2>5
  <2>7. Before(n)' \subseteq Open(x) /\ Open(x) \subseteq Before(n)'
    BY <2>6
  <2>8. QED
    BY <2>7
<1>12. CountsInv'
  <2>1. \A y : IsFiniteSet(Open(y)) /\ Cardinality(Open(y)) \in Nat /\ n \notin Open(y)
    <3>1. \A y : Open(y) \subseteq Events
      BY DEF Open, EventsOf
    <3>2. QED
      BY <1>2, <3>1, OpenFinite
  <2>2. Cardinality(Open(x) \cup {n}) = Cardinality(Open(x)) + 1
    BY <2>1, FS_AddElement
  <2>3. \A y \in Entities : Cardinality(Open(y)') = Cardinality(Open(y)) + (IF y = x THEN 1 ELSE 0)
    BY <1>10, <2>1, <2>2
  <2>4. /\ state' \in [Entities -> 0 .. MaxPerEntity]
        /\ \A y \in Entities : state'[y] = IF y = x /\ state[x] < MaxPerEntity THEN state[x] + 1
                                                                              ELSE state[y]
    <3>1. state \in [Entities -> 0 .. MaxPerEntity] /\ x \in Entities
      BY <1>2 DEF CountsInv
    <3>2. CASE state[x] < MaxPerEntity
      <4>1. state' = [state EXCEPT ![x] = state[x] + 1]
        BY <1>6, <1>8, <3>2
      <4>2. state[x] + 1 \in 0 .. MaxPerEntity
        BY <3>1, <3>2, LimitsAssumption
      <4>3. QED
        BY <3>1, <3>2, <4>1, <4>2
    <3>3. CASE ~(state[x] < MaxPerEntity)
      BY <1>6, <1>8, <3>1, <3>3
    <3>4. QED
      BY <3>2, <3>3
  <2>5. ASSUME NEW y \in Entities
        PROVE  IF state'[y] < MaxPerEntity THEN Cardinality(Open(y)') = state'[y]
                                           ELSE Cardinality(Open(y)') >= MaxPerEntity
    <3>1. /\ state[y] \in 0 .. MaxPerEntity
          /\ IF state[y] < MaxPerEntity THEN Cardinality(Open(y)) = state[y]
                                        ELSE Cardinality(Open(y)) >= MaxPerEntity
      BY <1>2 DEF CountsInv
    <3>2. QED
      BY <2>1, <2>3, <2>4, <3>1, LimitsAssumption
  <2>6. QED
    BY <2>4, <2>5 DEF CountsInv
<1>13. ASSUME NEW m \in Events'
       PROVE  m \in Passed' <=> Cardinality(Before(m)') < MaxPerEntity
  <2>1. CASE m = n
    <3>1. state[x] < MaxPerEntity <=> Cardinality(Open(x)) < MaxPerEntity
      BY <1>2, OpenFinite, LimitsAssumption DEF CountsInv
    <3>2. n \in Passed' <=> state[x] < MaxPerEntity
      <4>1. CASE state[x] < MaxPerEntity
        <5>1. PICK o : result.out = <<o>>
          BY <1>6, <4>1
        <5>2. <<o>> # << >>
          OBVIOUS
        <5>3. QED
          BY <1>7, <4>1, <5>1, <5>2
      <4>2. CASE ~(state[x] < MaxPerEntity)
        <5>1. result.out = << >>
          BY <1>6, <4>2
        <5>2. QED
          BY <1>2, <1>7, <4>2, <5>1
      <4>3. QED
        BY <4>1, <4>2
    <3>3. QED
      BY <1>11, <2>1, <3>1, <3>2, Zenon
  <2>2. CASE m # n
    <3>1. m \in Events /\ (m \in Passed' <=> m \in Passed)
      BY <1>7, <2>2
    <3>2. Events' \cap (1 .. Len(lineage)) = Events
      <4>1. Events' = Events \cup {n} /\ n \notin 1 .. Len(lineage)
        BY <1>2, <1>7
      <4>2. Events \subseteq 1 .. Len(lineage)
        BY <1>2
      <4>3. QED
        BY <4>1, <4>2, Zenon
    <3>3. Before(m)' = Before(m)
      BY <1>2, <1>7, <3>1, <3>2, BeforeStays DEF HistoryInv
    <3>4. QED
      BY <3>1, <3>3, Zenon DEF LimiterInv
  <2>3. QED
    BY <2>1, <2>2
<1>14. QED
  BY <1>7, <1>12, <1>13, Zenon DEF LimiterInv

\* After a window closed no event is in the window that is open.
LEMMA LimiterClose ==
  ASSUME LimiterInv, kind = "limiter", WindowClose
  PROVE  LimiterInv'
<1>0. PICK n : n = Len(lineage) + 1
  OBVIOUS
<1>1. /\ n = Len(lineage) + 1 /\ Len(lineage) \in Nat /\ Events \subseteq 1 .. Len(lineage)
      /\ HistoryInv /\ Passed \subseteq Events
  BY <1>0, HistoryPlaces DEF LimiterInv, HistoryInv
<1>2. PICK result : result = Limit!Close(state)
  OBVIOUS
<1>3. Called(Closed, result) /\ result.state = [x \in Entities |-> 0] /\ result.out = << >>
  BY <1>2 DEF WindowClose, Closing, Limit!Close, Limit!Initial
<1>4. /\ HistoryInv' /\ Len(lineage') = n /\ lineage'[n] = Closed
      /\ \A m \in 1 .. Len(lineage) : lineage'[m] = lineage[m]
      /\ Events' = Events /\ Passed' = Passed
  BY <1>1, <1>3, CalledOnce
<1>5. state' = [x \in Entities |-> 0]
  BY <1>3 DEF Called
<1>6. \A x : Open(x)' = {}
  <2>1. \A m \in 1 .. n : ~SameWindow(m, Len(lineage))'
    BY <1>1, <1>4 DEF SameWindow, Closed
  <2>2. \A x : EventsOf(x)' \subseteq 1 .. n
    <3>1. 1 .. Len(lineage) \subseteq 1 .. n
      BY <1>1
    <3>2. Events' \subseteq 1 .. n
      BY <1>1, <1>4, <3>1
    <3>3. \A x : EventsOf(x)' \subseteq Events'
      BY DEF EventsOf
    <3>4. QED
      BY <3>2, <3>3
  <2>3. \A x : \A m : m \notin Open(x)'
    BY <2>1, <2>2 DEF Open
  <2>4. QED
    BY <2>3
<1>7. CountsInv'
  <2>1. \A x \in Entities : Cardinality(Open(x)') = 0 /\ state'[x] = 0
    BY <1>5, <1>6, FS_EmptySet
  <2>2. state' \in [Entities -> 0 .. MaxPerEntity]
    BY <1>5, LimitsAssumption
  <2>3. QED
    BY <2>1, <2>2, LimitsAssumption DEF CountsInv
<1>8. ASSUME NEW m \in Events'
      PROVE  m \in Passed' <=> Cardinality(Before(m)') < MaxPerEntity
  <2>1. m \in Events /\ (m \in Passed' <=> m \in Passed)
    BY <1>4
  <2>2. Events' \cap (1 .. Len(lineage)) = Events
    BY <1>1, <1>4, Zenon
  <2>3. Before(m)' = Before(m)
    BY <1>1, <1>4, <2>1, <2>2, BeforeStays DEF HistoryInv
  <2>4. QED
    BY <2>1, <2>3, Zenon DEF LimiterInv
<1>9. QED
  BY <1>4, <1>7, <1>8, Zenon DEF LimiterInv

\* The counts of a restarted operator are those of the one before it.
LEMMA LimiterRestart ==
  ASSUME LimiterInv, kind = "limiter", Restart \/ UNCHANGED vars
  PROVE  LimiterInv'
<1>1. state' = state /\ lineage' = lineage /\ reports' = reports
  BY DEF Restart, Restored, vars
<1>2. Events' = Events /\ Passed' = Passed /\ \A m, n : SameWindow(m, n)' <=> SameWindow(m, n)
  BY <1>1 DEF Events, Passed, SameWindow
<1>3. \A x : EventsOf(x)' = EventsOf(x)
  BY <1>1, <1>2 DEF EventsOf
<1>4. \A x : Open(x)' = Open(x)
  BY <1>1, <1>2, <1>3 DEF Open
<1>5. \A n : Before(n)' = Before(n)
  BY <1>1 DEF Before, EventsOf, Events, SameWindow
<1>6. HistoryInv' /\ CountsInv'
  BY <1>1, <1>2, <1>4 DEF LimiterInv, HistoryInv, CountsInv
<1>7. QED
  BY <1>2, <1>5, <1>6 DEF LimiterInv

(***************************************************************************)
(* The token bucket                                                        *)
(***************************************************************************)

Since(m) == {i \in Passed : m <= i}

\* What passed since an event, and the tokens left, are paid by the burst and the
\* rate; and an event that waited a token's time passed.
BucketInv ==
  /\ HistoryInv
  /\ Events = 1 .. Len(lineage)
  /\ state.lastRefill = (IF lineage = << >> THEN 0 ELSE lineage[Len(lineage)].ts)
  /\ state.tokens \in 0 .. Bucket!Burst
  /\ \A m \in Passed :
       Token * Cardinality(Since(m)) + state.tokens
         <= Bucket!Burst + Rate * (state.lastRefill - lineage[m].ts)
  /\ \A m, n \in Passed : m <= n =>
       Token * Cardinality({i \in Passed : m <= i /\ i <= n})
         <= Bucket!Burst + Rate * (lineage[n].ts - lineage[m].ts)
  /\ \A n \in Events : n > 1 /\ Rate * (lineage[n].ts - lineage[n - 1].ts) >= Token => n \in Passed

LEMMA BurstType == Bucket!Burst \in Nat /\ Token <= Bucket!Burst
<1>1. Token \in Nat /\ Rate * TicksPerSecond \in Nat
  BY LimitsAssumption
<1>2. QED
  BY <1>1 DEF Bucket!Burst, Bucket!Higher

LEMMA BucketInit == Init /\ kind = "rate_limit" => BucketInv
<1> SUFFICES ASSUME Init, kind = "rate_limit" PROVE BucketInv
  OBVIOUS
<1>1. HistoryInv /\ Events = {} /\ Passed = {} /\ lineage = << >> /\ Len(lineage) = 0
  BY HistoryInit, EmptyIsSeq DEF Init
<1>2. state = [tokens |-> Bucket!Burst, lastRefill |-> 0]
  BY DEF Init, Fresh, Bucket!Initial
<1>3. 1 .. Len(lineage) = {}
  BY <1>1
<1>4. QED
  BY <1>1, <1>2, <1>3, BurstType DEF BucketInv

\* What a refill adds is what the rate allows for the time that passed.
LEMMA Refilling ==
  ASSUME NEW count \in Nat, NEW tokens \in Int, NEW full \in Int, NEW burst \in Int,
         NEW last \in Int, NEW now \in Int, NEW from \in Int,
         Token * count + tokens <= burst + Rate * (last - from),
         full <= tokens + (now - last) * Rate
  PROVE  /\ Token * count + full <= burst + Rate * (now - from)
         /\ Token * (count + 1) + (full - Token) = Token * count + full
<1>1. /\ Rate * (now - from) = Rate * (last - from) + (now - last) * Rate
      /\ Rate * (last - from) \in Int /\ (now - last) * Rate \in Int
  BY LimitsAssumption
<1>2. /\ Token * (count + 1) = Token * count + Token
      /\ Token * count \in Int /\ Token \in Int
  BY LimitsAssumption
<1>3. QED
  BY <1>1, <1>2

\* Time goes on, and an event passes if the bucket then holds a token.
LEMMA BucketProcess ==
  ASSUME BucketInv, kind = "rate_limit", NEW event, event.entity \in Entities, event.ts \in Nat,
         Process(event)
  PROVE  BucketInv'
<1>1. PICK e : e = [id |-> Len(lineage) + 1, entity |-> event.entity, ts |-> event.ts,
                    pos |-> event.pos, speed |-> event.speed]
  OBVIOUS
<1>0. PICK n, last, tokens :
        n = Len(lineage) + 1 /\ last = state.lastRefill /\ tokens = state.tokens
  OBVIOUS
<1>2. /\ n = Len(lineage) + 1 /\ Len(lineage) \in Nat /\ Events = 1 .. Len(lineage)
      /\ n \in Nat \ {0} /\ HistoryInv /\ Passed \subseteq 1 .. Len(lineage)
      /\ \A m \in 1 .. Len(lineage) : lineage[m].ts \in Nat
  BY <1>0, HistoryPlaces DEF BucketInv, HistoryInv
<1>3. e # Closed /\ e.entity = event.entity /\ e.ts = event.ts /\ e.ts \in Nat
  BY <1>1, <1>2 DEF Closed
<1>4. PICK result : result = Bucket!Process(state, e)
  OBVIOUS
<1>5. PICK full : full = Bucket!Refilled(state, e.ts)
  OBVIOUS
<1>6. Called(e, result)
  BY <1>1, <1>4 DEF Process, Processing
<1>7. /\ full.lastRefill = e.ts
      /\ full.tokens = Bucket!Lower(state.tokens + (e.ts - state.lastRefill) * Rate, Bucket!Burst)
      /\ full = [tokens |-> full.tokens, lastRefill |-> e.ts]
  BY <1>5 DEF Bucket!Refilled
<1>8. IF full.tokens < Token
      THEN result.state = full /\ result.out = << >>
      ELSE /\ result.state.tokens = full.tokens - Token /\ result.state.lastRefill = e.ts
           /\ \E o : result.out = <<o>>
  BY <1>4, <1>5, <1>7 DEF Bucket!Process
<1>9. /\ HistoryInv' /\ Len(lineage') = n /\ lineage'[n] = e
      /\ \A m \in 1 .. Len(lineage) : lineage'[m] = lineage[m]
      /\ Events' = Events \cup {n}
      /\ Passed' = Passed \cup (IF result.out = << >> THEN {} ELSE {n})
  <2>1. result.out = << >> \/ \E o : result.out = <<o>>
    BY <1>8
  <2>2. QED
    BY <1>2, <1>3, <1>6, <2>1, CalledOnce
<1>10. state' = result.state
  BY <1>6 DEF Called
<1>11. last = Now
  <2>1. CASE lineage = << >>
    <3>1. Events = {}
      BY <2>1 DEF Events
    <3>2. QED
      BY <1>0, <2>1, <3>1 DEF BucketInv, Now
  <2>2. CASE lineage # << >>
    <3>1. Len(lineage) \in 1 .. Len(lineage)
      BY <1>2, <2>2, EmptyIsSeq DEF HistoryInv, IsSeq
    <3>2. \A j \in Events : (\A m \in Events : m <= j) => j = Len(lineage)
      BY <1>2, <3>1
    <3>3. Len(lineage) \in Events /\ \A m \in Events : m <= Len(lineage)
      BY <1>2, <3>1
    <3>4. (CHOOSE j \in Events : \A m \in Events : m <= j) = Len(lineage)
      BY <3>2, <3>3
    <3>5. Events # {}
      BY <3>3
    <3>6. QED
      BY <1>0, <2>2, <3>4, <3>5 DEF BucketInv, Now
  <2>3. QED
    BY <2>1, <2>2
<1>12. /\ tokens \in Nat /\ tokens <= Bucket!Burst /\ Bucket!Burst \in Nat /\ Token \in Nat
       /\ Token <= Bucket!Burst /\ Rate \in Nat
  BY <1>0, BurstType, LimitsAssumption DEF BucketInv
<1>13. last \in Nat /\ last <= e.ts
  <2>1. last \in Nat
    <3>1. CASE lineage = << >>
      BY <1>0, <3>1 DEF BucketInv
    <3>2. CASE lineage # << >>
      <4>1. Len(lineage) \in 1 .. Len(lineage)
        BY <1>2, <3>2, EmptyIsSeq DEF HistoryInv, IsSeq
      <4>2. QED
        BY <1>0, <1>2, <3>2, <4>1 DEF BucketInv
    <3>3. QED
      BY <3>1, <3>2
  <2>2. event.ts >= Now
    BY DEF Process
  <2>3. QED
    BY <1>3, <1>11, <2>1, <2>2
<1>14. PICK t, now : t = full.tokens /\ now = e.ts
  OBVIOUS
<1>15. /\ t \in Nat /\ t <= Bucket!Burst /\ t <= tokens + (now - last) * Rate
       /\ (t < Token => t = tokens + (now - last) * Rate)
  <2>1. (now - last) * Rate \in Nat
    BY <1>3, <1>12, <1>13, <1>14
  <2>2. t = IF tokens + (now - last) * Rate <= Bucket!Burst THEN tokens + (now - last) * Rate
                                                            ELSE Bucket!Burst
    BY <1>0, <1>7, <1>14 DEF Bucket!Lower
  <2>3. QED
    BY <1>12, <2>1, <2>2
<1>16. state'.lastRefill = now /\ state'.tokens = IF t < Token THEN t ELSE t - Token
  BY <1>7, <1>8, <1>10, <1>14
<1>17. n \in Passed' <=> ~(t < Token)
  <2>1. CASE t < Token
    BY <1>2, <1>8, <1>9, <1>14, <2>1
  <2>2. CASE ~(t < Token)
    <3>1. PICK o : result.out = <<o>>
      BY <1>8, <1>14, <2>2
    <3>2. <<o>> # << >>
      OBVIOUS
    <3>3. QED
      BY <1>9, <2>2, <3>1, <3>2
  <2>3. QED
    BY <2>1, <2>2
<1>18. Passed' = IF t < Token THEN Passed ELSE Passed \cup {n}
  BY <1>2, <1>9, <1>17
<1>places. IsFiniteSet(1 .. Len(lineage)) /\ n \notin 1 .. Len(lineage)
  <2>1. Len(lineage) \in Int /\ 1 \in Int
    BY <1>2
  <2>2. IsFiniteSet(1 .. Len(lineage))
    BY <2>1, FS_Interval
  <2>3. QED
    BY <1>2, <2>2
<1>19. \A m, k : LET between == {i \in Passed : m <= i /\ i <= k}
                 IN  /\ IsFiniteSet(Since(m)) /\ Cardinality(Since(m)) \in Nat /\ n \notin Since(m)
                     /\ IsFiniteSet(between) /\ Cardinality(between) \in Nat
  <2>2. \A m, k : /\ Since(m) \in SUBSET (1 .. Len(lineage))
                  /\ {i \in Passed : m <= i /\ i <= k} \in SUBSET (1 .. Len(lineage))
    BY <1>2 DEF Since
  <2>3. \A S \in SUBSET (1 .. Len(lineage)) : IsFiniteSet(S) /\ Cardinality(S) \in Nat
    BY <1>places, FS_Subset, FS_CardinalityType
  <2>4. QED
    BY <1>places, <2>2, <2>3
<1>20. \A m \in Passed : Since(m)' = IF t < Token THEN Since(m) ELSE Since(m) \cup {n}
  BY <1>2, <1>18 DEF Since
<1>21. \A m \in 1 .. Len(lineage) : lineage'[m].ts = lineage[m].ts /\ lineage[m].ts \in Nat
  BY <1>2, <1>9
<1>22. lineage'[n].ts = now /\ now \in Nat
  BY <1>3, <1>9, <1>14
<1>23. ASSUME NEW m \in Passed'
       PROVE  Token * Cardinality(Since(m)') + state'.tokens
                <= Bucket!Burst + Rate * (state'.lastRefill - lineage'[m].ts)
  <2>1. CASE m \in Passed
    <3>1. PICK count, from : count = Cardinality(Since(m)) /\ from = lineage[m].ts
      OBVIOUS
    <3>2. count \in Nat /\ from \in Nat /\ lineage'[m].ts = from
      BY <1>2, <1>21, <1>19, <2>1, <3>1
    <3>3. Token * count + tokens <= Bucket!Burst + Rate * (last - from)
      BY <1>0, <2>1, <3>1 DEF BucketInv
    <3>4. /\ Token * count + t <= Bucket!Burst + Rate * (now - from)
          /\ Token * (count + 1) + (t - Token) = Token * count + t
      BY <1>12, <1>13, <1>15, <1>22, <3>2, <3>3, Refilling
    <3>5. CASE t < Token
      <4>1. Cardinality(Since(m)') = count
        BY <1>20, <2>1, <3>1, <3>5
      <4>2. QED
        BY <1>16, <3>2, <3>4, <3>5, <4>1
    <3>6. CASE ~(t < Token)
      <4>1. Cardinality(Since(m) \cup {n}) = count + 1
        BY <1>19, <3>1, FS_AddElement
      <4>2. Cardinality(Since(m)') = count + 1
        BY <1>20, <2>1, <3>6, <4>1
      <4>3. QED
        BY <1>16, <3>2, <3>4, <3>6, <4>2
    <3>7. QED
      BY <3>5, <3>6
  <2>2. CASE m \notin Passed
    <3>1. m = n /\ ~(t < Token)
      BY <1>18, <2>2
    <3>2. Since(m)' = {n}
      <4>1. \A i \in Passed : ~(n <= i)
        BY <1>2
      <4>2. n <= n /\ Passed' = Passed \cup {n}
        BY <1>2, <1>18, <3>1
      <4>3. QED
        BY <3>1, <4>1, <4>2 DEF Since
    <3>3. Cardinality(Since(m)') = 1
      BY <3>2, FS_Singleton
    <3>4. Rate * (now - now) = 0 /\ Token * 1 = Token
      BY <1>12, <1>22
    <3>5. QED
      BY <1>12, <1>15, <1>16, <1>22, <3>1, <3>3, <3>4
  <2>3. QED
    BY <2>1, <2>2
<1>24. ASSUME NEW m \in Passed', NEW k \in Passed', m <= k
       PROVE  Token * Cardinality({i \in Passed' : m <= i /\ i <= k})
                <= Bucket!Burst + Rate * (lineage'[k].ts - lineage'[m].ts)
  <2>1. CASE k \in Passed
    <3>1. m \in Passed /\ ~(n <= k)
      BY <1>2, <1>18, <1>24, <2>1
    <3>2. {i \in Passed' : m <= i /\ i <= k} = {i \in Passed : m <= i /\ i <= k}
      BY <1>18, <3>1
    <3>3. lineage'[k].ts = lineage[k].ts /\ lineage'[m].ts = lineage[m].ts
      BY <1>2, <1>21, <2>1, <3>1
    <3>4. QED
      BY <1>24, <2>1, <3>1, <3>2, <3>3 DEF BucketInv
  <2>2. CASE k \notin Passed
    <3>1. k = n
      BY <1>18, <2>2
    <3>2. \A i \in Passed' : i <= n
      BY <1>2, <1>18
    <3>3. {i \in Passed' : m <= i /\ i <= k} = Since(m)'
      BY <3>1, <3>2 DEF Since
    <3>4. /\ state'.tokens \in Nat /\ state'.lastRefill = lineage'[k].ts
      BY <1>12, <1>15, <1>16, <1>22, <3>1
    <3>5. Cardinality(Since(m)') \in Nat
      <4>1. HistoryInv' => IsFiniteSet(Passed')
        <5>1. Passed \subseteq 1 .. Len(lineage) /\ IsFiniteSet(1 .. Len(lineage))
          BY <1>2, <1>places
        <5>2. IsFiniteSet(Passed) /\ IsFiniteSet(Passed \cup {n})
          BY <5>1, FS_Subset, FS_AddElement
        <5>3. QED
          BY <1>18, <5>2
      <4>2. Since(m)' \subseteq Passed'
        BY DEF Since
      <4>3. QED
        BY <1>9, <4>1, <4>2, FS_Subset, FS_CardinalityType
    <3>6. m \in 1 .. Len(lineage) \cup {n}
      BY <1>2, <1>18
    <3>7. lineage'[m].ts \in Nat /\ lineage'[k].ts \in Nat
      BY <1>21, <1>22, <3>1, <3>6
    <3>8. /\ Token * Cardinality(Since(m)') \in Int
          /\ Rate * (lineage'[k].ts - lineage'[m].ts) \in Int
      BY <1>12, <3>5, <3>7
    <3>9. Token * Cardinality(Since(m)') + state'.tokens
            <= Bucket!Burst + Rate * (lineage'[k].ts - lineage'[m].ts)
      BY <1>23, <3>4
    <3>10. Token * Cardinality(Since(m)')
             <= Bucket!Burst + Rate * (lineage'[k].ts - lineage'[m].ts)
      BY <1>12, <3>4, <3>8, <3>9
    <3>11. QED
      BY <3>3, <3>10
  <2>3. QED
    BY <2>1, <2>2
<1>25. ASSUME NEW k \in Events', k > 1, Rate * (lineage'[k].ts - lineage'[k - 1].ts) >= Token
       PROVE  k \in Passed'
  <2>1. CASE k \in Events
    <3>1. k - 1 \in 1 .. Len(lineage) /\ k \in 1 .. Len(lineage)
      BY <1>2, <1>25, <2>1
    <3>2. lineage'[k] = lineage[k] /\ lineage'[k - 1] = lineage[k - 1]
      BY <1>9, <3>1
    <3>3. k \in Passed
      BY <1>25, <2>1, <3>2 DEF BucketInv
    <3>4. QED
      BY <1>18, <3>3
  <2>2. CASE k \notin Events
    <3>1. k = n
      BY <1>9, <2>2
    <3>2. Len(lineage) \in 1 .. Len(lineage) /\ n - 1 = Len(lineage)
      BY <1>2, <1>25, <3>1
    <3>3. lineage # << >>
      BY <3>2, EmptyIsSeq
    <3>4. lineage'[n - 1].ts = last
      BY <1>0, <1>9, <3>2, <3>3 DEF BucketInv
    <3>5. Rate * (now - last) >= Token
      BY <1>22, <1>25, <3>1, <3>4
    <3>6. Rate * (now - last) = (now - last) * Rate /\ Rate * (now - last) \in Int
      BY <1>12, <1>13, <1>22
    <3>7. ~(t < Token)
      BY <1>12, <1>15, <3>5, <3>6
    <3>8. QED
      BY <1>18, <3>1, <3>7
  <2>3. QED
    BY <2>1, <2>2
<1>26. /\ Events' = 1 .. Len(lineage')
       /\ lineage' # << >> /\ state'.lastRefill = lineage'[Len(lineage')].ts
       /\ state'.tokens \in 0 .. Bucket!Burst
  <2>1. Events' = 1 .. n
    BY <1>2, <1>9
  <2>2. lineage' # << >>
    BY <1>2, <1>9, EmptyIsSeq
  <2>3. state'.tokens \in 0 .. Bucket!Burst
    BY <1>12, <1>15, <1>16
  <2>4. QED
    BY <1>9, <1>16, <1>22, <2>1, <2>2, <2>3
<1>27. QED
  BY <1>9, <1>23, <1>24, <1>25, <1>26 DEF BucketInv

(***************************************************************************)
(* The aggregates of the cells                                             *)
(***************************************************************************)

LEMMA MinIs ==
  ASSUME NEW S \in SUBSET Int, NEW f \in S, \A m \in S : f <= m PROVE MinOf(S) = f
<1>1. \A a \in S : (\A b \in S : a <= b) => a = f
  OBVIOUS
<1>2. QED
  BY <1>1 DEF MinOf

LEMMA MaxIs ==
  ASSUME NEW S \in SUBSET Int, NEW f \in S, \A m \in S : m <= f PROVE MaxOf(S) = f
<1>1. \A a \in S : (\A b \in S : b <= a) => a = f
  OBVIOUS
<1>2. QED
  BY <1>1 DEF MaxOf

SpeedsOf(l, H) == {l[m].speed : m \in {k \in H : l[k].speed >= 0}}

IsCell(x) ==
  x = [count |-> x.count, sum |-> x.sum, max |-> x.max, min |-> x.min, entities |-> x.entities]

\* An accumulator counts the events H of the stream l.
CellFits(l, cell, H) ==
  /\ IsCell(cell)
  /\ IsFiniteSet(H) /\ cell.count = Cardinality(H)
  /\ cell.entities = {l[m].entity : m \in H}
  /\ H = {} \/ \E f \in H : \A m \in H : f <= m
  /\ \A f \in H : (\A m \in H : f <= m) /\ l[f].speed >= 0 =>
       /\ cell.max \in SpeedsOf(l, H) /\ \A s \in SpeedsOf(l, H) : s <= cell.max
       /\ cell.min \in SpeedsOf(l, H) /\ \A s \in SpeedsOf(l, H) : cell.min <= s

LEMMA EmptyFits == ASSUME NEW l PROVE CellFits(l, Aggregate!Empty, {})
BY FS_EmptySet DEF CellFits, IsCell, Aggregate!Empty

LEMMA FitsSame ==
  ASSUME NEW l, NEW k, NEW cell, NEW H, \A m \in H : k[m] = l[m], CellFits(l, cell, H)
  PROVE  CellFits(k, cell, H)
<1>1. SpeedsOf(k, H) = SpeedsOf(l, H) /\ {k[m].entity : m \in H} = {l[m].entity : m \in H}
  BY DEF SpeedsOf
<1>2. QED
  BY <1>1 DEF CellFits

\* Another event is counted, after the others.
LEMMA AccumulatedFits ==
  ASSUME NEW l, NEW cell, NEW H, NEW n \in Nat, NEW e, CellFits(l, cell, H),
         \A m \in H : m \in Nat /\ m < n /\ l[m].speed \in Int,
         l[n].entity = e.entity, l[n].speed = e.speed, e.speed \in Int
  PROVE  /\ CellFits(l, Aggregate!Accumulated(cell, e), H \cup {n})
         /\ Aggregate!Accumulated(cell, e).count = cell.count + 1
<1>1. PICK G : G = H \cup {n}
  OBVIOUS
<1>2. PICK d : d = Aggregate!Accumulated(cell, e)
  OBVIOUS
<1>3. /\ IsFiniteSet(G) /\ Cardinality(G) = Cardinality(H) + 1 /\ Cardinality(H) \in Nat
      /\ n \notin H
  <2>1. n \notin H /\ IsFiniteSet(H)
    BY DEF CellFits
  <2>2. QED
    BY <1>1, <2>1, FS_AddElement, FS_CardinalityType
<1>4. PICK counted : counted = [cell EXCEPT !.count = cell.count + 1,
                                           !.entities = cell.entities \cup {e.entity}]
  OBVIOUS
<1>5. /\ IsCell(counted) /\ counted.max = cell.max /\ counted.min = cell.min
      /\ counted.count = cell.count + 1 /\ counted.entities = cell.entities \cup {e.entity}
  BY <1>4 DEF CellFits, IsCell
<1>6. /\ IsCell(d) /\ d.count = cell.count + 1 /\ d.entities = cell.entities \cup {e.entity}
      /\ IF e.speed < 0 THEN d.max = cell.max /\ d.min = cell.min
         ELSE IF cell.count + 1 = 1 THEN d.max = e.speed /\ d.min = e.speed
         ELSE d.max = Aggregate!Higher(cell.max, e.speed) /\ d.min = Aggregate!Lower(cell.min, e.speed)
  <2>1. d = IF e.speed < 0 THEN counted ELSE Aggregate!WithValue(counted, e.speed)
    BY <1>2, <1>4 DEF Aggregate!Accumulated
  <2>2. QED
    BY <1>5, <2>1 DEF Aggregate!WithValue, IsCell
<1>7. /\ {l[m].entity : m \in G} = {l[m].entity : m \in H} \cup {e.entity}
      /\ SpeedsOf(l, G) = SpeedsOf(l, H) \cup (IF e.speed >= 0 THEN {e.speed} ELSE {})
  BY <1>1 DEF SpeedsOf
<1>8. \E f \in G : \A m \in G : f <= m
  <2>1. CASE H = {}
    BY <1>1, <2>1
  <2>2. CASE H # {}
    <3>1. PICK f \in H : \A m \in H : f <= m
      BY <2>2 DEF CellFits
    <3>2. QED
      BY <1>1, <3>1
  <2>3. QED
    BY <2>1, <2>2
<1>9. ASSUME NEW f \in G, \A m \in G : f <= m, l[f].speed >= 0
      PROVE  /\ d.max \in SpeedsOf(l, G) /\ \A s \in SpeedsOf(l, G) : s <= d.max
             /\ d.min \in SpeedsOf(l, G) /\ \A s \in SpeedsOf(l, G) : d.min <= s
  <2>1. CASE f = n
    <3>1. H = {}
      BY <1>1, <1>9, <2>1
    <3>2. cell.count = 0 /\ e.speed >= 0
      BY <1>9, <2>1, <3>1, FS_EmptySet DEF CellFits
    <3>3. SpeedsOf(l, G) = {e.speed}
      BY <1>7, <3>1, <3>2 DEF SpeedsOf
    <3>4. QED
      BY <1>6, <3>2, <3>3
  <2>2. CASE f # n
    <3>1. f \in H /\ \A m \in H : f <= m
      BY <1>1, <1>9, <2>2
    <3>2. /\ cell.max \in SpeedsOf(l, H) /\ \A s \in SpeedsOf(l, H) : s <= cell.max
          /\ cell.min \in SpeedsOf(l, H) /\ \A s \in SpeedsOf(l, H) : cell.min <= s
      BY <1>9, <3>1 DEF CellFits
    <3>3. SpeedsOf(l, H) \subseteq Int
      BY DEF SpeedsOf
    <3>4. cell.count + 1 # 1
      <4>1. Cardinality(H) # 0
        BY <3>1, FS_EmptySet DEF CellFits
      <4>2. QED
        BY <1>3, <4>1 DEF CellFits
    <3>5. PICK p, q, S : p = cell.max /\ q = cell.min /\ S = SpeedsOf(l, H)
      OBVIOUS
    <3>6. CASE e.speed < 0
      BY <1>6, <1>7, <3>2, <3>6
    <3>7. CASE e.speed >= 0
      <4>1. /\ d.max = (IF p >= e.speed THEN p ELSE e.speed)
            /\ d.min = (IF q <= e.speed THEN q ELSE e.speed)
        BY <1>6, <3>4, <3>5, <3>7 DEF Aggregate!Higher, Aggregate!Lower
      <4>2. SpeedsOf(l, G) = S \cup {e.speed} /\ S \subseteq Int /\ p \in S /\ q \in S
            /\ \A s \in S : s <= p /\ q <= s
        BY <1>7, <3>2, <3>3, <3>5, <3>7
      <4>3. p \in Int /\ q \in Int /\ \A s \in S : s \in Int
        BY <4>2
      <4>4. d.max \in S \cup {e.speed} /\ d.min \in S \cup {e.speed}
        BY <4>1, <4>2
      <4>5. \A s \in S \cup {e.speed} : s <= d.max /\ d.min <= s
        BY <4>1, <4>2, <4>3
      <4>6. QED
        BY <4>2, <4>4, <4>5
    <3>8. QED
      BY <3>6, <3>7
  <2>3. QED
    BY <2>1, <2>2
<1>10. d.count = Cardinality(G) /\ d.entities = {l[m].entity : m \in G}
  BY <1>3, <1>6, <1>7 DEF CellFits
<1>11. CellFits(l, d, G)
  BY <1>3, <1>6, <1>8, <1>9, <1>10, Zenon DEF CellFits
<1>12. QED
  BY <1>1, <1>2, <1>6, <1>11

Aggregates(l, H, what) ==
  /\ \E f \in H : \A m \in H : f <= m
  /\ Cardinality(H) = what.count /\ what.count = Threshold
  /\ what.entities = Cardinality({l[m].entity : m \in H})
  /\ l[MinOf(H)].speed >= 0 => /\ what.max = MaxOf(SpeedsOf(l, H))
                               /\ what.min = MinOf(SpeedsOf(l, H))

\* What is reported of a cell that is full.
LEMMA FullCell ==
  ASSUME NEW l, NEW cell, NEW H, H # {}, CellFits(l, cell, H), cell.count = Threshold, NEW what,
         \A m \in H : m \in Nat /\ l[m].speed \in Int,
         what.count = cell.count, what.entities = Cardinality(cell.entities),
         what.max = cell.max, what.min = cell.min
  PROVE  Aggregates(l, H, what)
<1>1. PICK f \in H : \A m \in H : f <= m
  BY DEF CellFits
<1>2. MinOf(H) = f
  <2>1. H \in SUBSET Int
    OBVIOUS
  <2>2. QED
    BY <1>1, <2>1, MinIs
<1>3. ASSUME l[f].speed >= 0
      PROVE  what.max = MaxOf(SpeedsOf(l, H)) /\ what.min = MinOf(SpeedsOf(l, H))
  <2>1. PICK S : S = SpeedsOf(l, H)
    OBVIOUS
  <2>2. S \in SUBSET Int
    BY <2>1 DEF SpeedsOf
  <2>3. /\ cell.max \in S /\ \A s \in S : s <= cell.max
        /\ cell.min \in S /\ \A s \in S : cell.min <= s
    BY <1>1, <1>3, <2>1 DEF CellFits
  <2>4. QED
    BY <2>1, <2>2, <2>3, MinIs, MaxIs
<1>4. QED
  BY <1>1, <1>2, <1>3 DEF Aggregates, CellFits

\* The events a cell holds.
Held(c) ==
  {m \in Events :
     /\ CellOf[lineage[m].pos] = c
     /\ SameWindow(m, Len(lineage))
     /\ \A r \in Reported : r.what.cell = c => r.at < m}

Exact(r) == Aggregates(lineage, Contributors(r.what.cell, r.at), r.what)

\* An accumulator is of the events its cell holds, and what was reported is exact.
AggregateInv ==
  /\ HistoryInv
  /\ \A m \in Events : lineage[m].speed \in Int
  /\ \A c : /\ CellFits(lineage, Aggregate!At(state, c), Held(c))
            /\ Aggregate!At(state, c).count < Threshold
  /\ \A r \in Reported : Exact(r)

\* A call and its report do not change what was reported before.
LEMMA ExactStays ==
  ASSUME HistoryInv, HistoryInv', kind = "spatial_agg", kind' = kind,
         \A m \in 1 .. Len(lineage) : lineage'[m] = lineage[m],
         Events' \cap (1 .. Len(lineage)) = Events,
         \A q \in Reported' : q \in Reported \/ q.at = Len(lineage) + 1,
         Reported \subseteq Reported',
         NEW r \in Reported, Exact(r)
  PROVE  Exact(r)'
<1>1. /\ Len(lineage) \in Nat /\ Events \subseteq 1 .. Len(lineage) /\ r.at \in Events
      /\ r.at \in 1 .. Len(lineage)
  BY HistoryPlaces DEF HistoryInv, Passed, Reported
<1>2. \A m \in 1 .. r.at : m \in 1 .. Len(lineage) /\ lineage'[m] = lineage[m]
  BY <1>1
<1>3. \A m \in 1 .. r.at : SameWindow(m, r.at)' <=> SameWindow(m, r.at)
  BY <1>2 DEF SameWindow, Closed
<1>4. \A m \in 1 .. r.at : m \in Events' <=> m \in Events
  BY <1>2
<1>5. ReportsOf("spatial_agg") = Reported /\ ReportsOf("spatial_agg")' = Reported'
  BY DEF ReportsOf, Reported
<1>6. \A m \in 1 .. r.at : ~(Len(lineage) + 1 \in m .. r.at - 1)
  BY <1>1
<1>7. ASSUME NEW c, NEW m \in 1 .. r.at
      PROVE  (\A q \in Reported' : q.what.cell = c => ~(q.at \in m .. r.at - 1))
               <=> (\A q \in Reported : q.what.cell = c => ~(q.at \in m .. r.at - 1))
  BY <1>6
<1>8. PICK C : C = Contributors(r.what.cell, r.at)
  OBVIOUS
<1>9. Contributors(r.what.cell, r.at)' = C
  BY <1>2, <1>3, <1>4, <1>5, <1>7, <1>8 DEF Contributors
<1>10. \A m \in C : lineage'[m] = lineage[m] /\ m \in Nat
  BY <1>2, <1>8 DEF Contributors
<1>11. Aggregates(lineage', C, r.what)
  <2>1. Aggregates(lineage, C, r.what)
    BY <1>8 DEF Exact
  <2>2. C \in SUBSET Int
    BY <1>10
  <2>3. MinOf(C) \in C
    BY <2>1, <2>2, MinIs DEF Aggregates
  <2>4. SpeedsOf(lineage', C) = SpeedsOf(lineage, C)
    BY <1>10 DEF SpeedsOf
  <2>5. {lineage'[m].entity : m \in C} = {lineage[m].entity : m \in C}
    BY <1>10
  <2>6. QED
    BY <1>10, <2>1, <2>3, <2>4, <2>5 DEF Aggregates
<1>12. QED
  BY <1>9, <1>11 DEF Exact

LEMMA SameCardinality == \A S : Aggregate!Cardinality(S) = Cardinality(S)
BY DEF Aggregate!Cardinality, Cardinality

LEMMA AggregateInit ==
  ASSUME Init, kind = "spatial_agg", Threshold \in Nat \ {0} PROVE AggregateInv
<1>1. HistoryInv /\ Events = {} /\ Passed = {}
  BY HistoryInit
<1>2. Reported = {}
  BY <1>1 DEF Passed, Reported
<1>3. state = << >>
  BY DEF Init, Fresh, Aggregate!Initial
<1>4. \A c : Aggregate!At(state, c) = Aggregate!Empty /\ Held(c) = {}
  BY <1>1, <1>3 DEF Aggregate!At, Held
<1>5. Aggregate!Empty.count = 0
  BY DEF Aggregate!Empty
<1>6. QED
  BY <1>1, <1>2, <1>4, <1>5, EmptyFits DEF AggregateInv

\* An event is added to its cell, and a cell that is full is reported and emptied.
LEMMA AggregateProcess ==
  ASSUME AggregateInv, kind = "spatial_agg", Threshold \in Nat \ {0},
         NEW event, event.entity \in Entities, event.ts \in Nat, event.speed \in Int,
         Process(event)
  PROVE  AggregateInv'
<1>1. PICK e : e = [id |-> Len(lineage) + 1, entity |-> event.entity, ts |-> event.ts,
                    pos |-> event.pos, speed |-> event.speed]
  OBVIOUS
<1>2. PICK n, l : n = Len(lineage) + 1 /\ l = lineage'
  OBVIOUS
<1>3. /\ Len(lineage) \in Nat /\ n \in Nat /\ Events \subseteq 1 .. Len(lineage)
      /\ HistoryInv /\ \A m \in Events : m \in Nat /\ m < n
  BY <1>2, HistoryPlaces DEF AggregateInv
<1>4. /\ e # Closed /\ e.entity = event.entity /\ e.ts = event.ts /\ e.pos = event.pos
      /\ e.speed = event.speed
  BY <1>1, <1>3 DEF Closed
<1>5. PICK s, result : s = state /\ result = Aggregate!Process(s, e)
  OBVIOUS
<1> DEFINE c == CellOf[e.pos]
           cell == Aggregate!Accumulated(Aggregate!At(s, c), e)
           with == [x \in DOMAIN s \cup {c} |-> IF x = c THEN cell ELSE s[x]]
           what == [cell |-> c, count |-> cell.count, sum |-> cell.sum, max |-> cell.max,
                    min |-> cell.min, entities |-> Cardinality(cell.entities)]
<1>6. /\ what.cell = c /\ what.count = cell.count /\ what.max = cell.max /\ what.min = cell.min
      /\ what.entities = Cardinality(cell.entities)
  OBVIOUS
<1>7. IF cell.count >= Threshold
      THEN result.state = Aggregate!Emitted(with, c) /\ result.out = <<what>>
      ELSE result.state = with /\ result.out = << >>
  <2>1. Aggregate!Process(s, e) = IF cell.count >= Threshold
                                  THEN [state |-> Aggregate!Emitted(with, c), out |-> <<what>>]
                                  ELSE [state |-> with, out |-> << >>]
    BY SameCardinality, Zenon DEF Aggregate!Process
  <2> HIDE DEF with, what, cell, c
  <2>2. QED
    BY <1>5, <2>1
<1>23. CellOf[e.pos] = c /\ cell = Aggregate!Accumulated(Aggregate!At(state, c), e)
  BY <1>5
<1>24. \A x : Aggregate!At(with, x) = IF x = c THEN cell ELSE Aggregate!At(state, x)
  BY <1>5 DEF Aggregate!At
<1>25. \A x : Aggregate!At(Aggregate!Emitted(with, c), x)
                = IF x = c THEN Aggregate!Empty ELSE Aggregate!At(state, x)
  BY <1>5 DEF Aggregate!At, Aggregate!Emitted
<1> HIDE DEF with, what, cell, c
<1>8. Called(e, result)
  BY <1>1, <1>5 DEF Process, Processing
<1>9. result.out = << >> \/ \E o : result.out = <<o>>
  BY <1>7
<1>10. /\ HistoryInv' /\ Len(lineage') = n /\ lineage'[n] = e /\ l = lineage'
       /\ \A m \in 1 .. Len(lineage) : lineage'[m] = lineage[m]
       /\ Events' = Events \cup {n}
       /\ result.out = << >> => Reported' = Reported
       /\ result.out = <<what>> => Reported' = Reported \cup {[at |-> n, what |-> what]}
  <2>1. /\ HistoryInv'
        /\ Len(lineage') = Len(lineage) + 1 /\ lineage'[Len(lineage) + 1] = e
        /\ \A m \in 1 .. Len(lineage) : lineage'[m] = lineage[m]
        /\ Events' = Events \cup (IF e = Closed THEN {} ELSE {Len(lineage) + 1})
        /\ result.out = << >> => Reported' = Reported
        /\ \A o : result.out = <<o>> =>
             Reported' = Reported \cup {[at |-> Len(lineage) + 1, what |-> o]}
    <3>1. \/ e = Closed
          \/ e # Closed /\ e.entity \in Entities /\ e.ts \in Nat
      BY <1>4
    <3>2. result.out = << >> \/ (e # Closed /\ \E o : result.out = <<o>>)
      BY <1>4, <1>9
    <3>3. QED
      BY <1>3, <1>8, <3>1, <3>2, CalledOnce
  <2>2. QED
    BY <1>2, <1>4, <2>1
<1>11. state' = result.state /\ kind' = kind
  BY <1>8 DEF Called
<1>12. /\ \A m \in 1 .. Len(lineage) : SameWindow(m, Len(lineage))' <=> SameWindow(m, Len(lineage))
       /\ SameWindow(n, Len(lineage))'
  BY <1>2, <1>3, <1>4, <1>10 DEF SameWindow, Closed
<1>13. \A r \in Reported : r.at \in 1 .. Len(lineage)
  BY <1>3 DEF HistoryInv, Passed, Reported
<1>14. \A x : /\ Held(x) \subseteq Events
              /\ CellFits(l, Aggregate!At(state, x), Held(x))
              /\ Aggregate!At(state, x).count < Threshold
  <2>1. ASSUME NEW x PROVE CellFits(l, Aggregate!At(state, x), Held(x))
    <3>1. CellFits(lineage, Aggregate!At(state, x), Held(x))
      BY DEF AggregateInv
    <3>2. \A m \in Held(x) : l[m] = lineage[m]
      BY <1>3, <1>10 DEF Held
    <3>3. QED
      BY <3>1, <3>2, FitsSame
  <2>2. QED
    BY <2>1 DEF AggregateInv, Held
<1>15. PICK G : G = Held(c) \cup {n}
  OBVIOUS
<1>16. CellFits(l, cell, G) /\ cell.count = Aggregate!At(state, c).count + 1
  <2>1. \A m \in Held(c) : m \in Nat /\ m < n /\ l[m].speed \in Int
    BY <1>3, <1>10, <1>14 DEF AggregateInv
  <2>2. CellFits(l, Aggregate!At(state, c), Held(c)) /\ l[n].entity = e.entity /\ l[n].speed = e.speed
    BY <1>10, <1>14
  <2>3. n \in Nat /\ e.speed \in Int
    BY <1>3, <1>4
  <2>4. /\ CellFits(l, Aggregate!Accumulated(Aggregate!At(state, c), e), Held(c) \cup {n})
        /\ Aggregate!Accumulated(Aggregate!At(state, c), e).count = Aggregate!At(state, c).count + 1
    BY <2>1, <2>2, <2>3, AccumulatedFits
  <2>5. QED
    BY <1>15, <1>23, <2>4, Zenon
<1>17. \A m \in G : m \in Nat /\ m <= n /\ l[m].speed \in Int
  <2>1. ASSUME NEW m \in Held(c) PROVE m \in Nat /\ m <= n /\ l[m].speed \in Int
    BY <1>3, <1>10, <1>14 DEF AggregateInv
  <2>2. n \in Nat /\ n <= n /\ l[n].speed \in Int
    BY <1>3, <1>4, <1>10
  <2>3. QED
    BY <1>15, <2>1, <2>2
<1>18. ASSUME NEW x, NEW m
       PROVE  (/\ m \in Events' /\ CellOf[lineage'[m].pos] = x /\ SameWindow(m, Len(lineage))'
               /\ \A r \in Reported : r.what.cell = x => r.at < m)
                <=> m \in Held(x) \/ (m = n /\ x = c)
  <2>1. CASE m = n
    <3>1. \A r \in Reported : r.at < m
      BY <1>2, <1>3, <1>13, <2>1
    <3>2. m \notin Events /\ m \in Events' /\ CellOf[lineage'[m].pos] = c
      BY <1>2, <1>3, <1>10, <1>23, <2>1
    <3>3. QED
      BY <1>12, <1>14, <2>1, <3>1, <3>2
  <2>2. CASE m # n
    <3>1. m \in Events' <=> m \in Events
      BY <1>10, <2>2
    <3>2. m \in Events => lineage'[m] = lineage[m] /\ m \in 1 .. Len(lineage)
      BY <1>2, <1>3, <1>10
    <3>3. QED
      BY <1>12, <2>2, <3>1, <3>2 DEF Held
  <2>3. QED
    BY <2>1, <2>2
<1>19. \A r \in Reported : Exact(r)'
  <2>1. Events' \cap (1 .. Len(lineage)) = Events
    <3>1. n \notin 1 .. Len(lineage)
      BY <1>2, <1>3
    <3>2. QED
      BY <1>3, <1>10, <3>1
  <2>2. /\ Reported \subseteq Reported'
        /\ \A q \in Reported' : q \in Reported \/ q.at = Len(lineage) + 1
    <3>1. CASE result.out = << >>
      BY <1>10, <3>1
    <3>2. CASE result.out # << >>
      <4>1. Reported' = Reported \cup {[at |-> n, what |-> what]}
        BY <1>7, <1>10, <3>2
      <4>2. QED
        BY <1>2, <4>1
    <3>3. QED
      BY <3>1, <3>2
  <2>3. \A r \in Reported : Exact(r)
    BY DEF AggregateInv
  <2>4. \A m \in 1 .. Len(lineage) : lineage'[m] = lineage[m]
    BY <1>2, <1>10
  <2>5. QED
    BY <1>3, <1>10, <1>11, <2>1, <2>2, <2>3, <2>4, ExactStays
<1>20. \A m \in Events' : lineage'[m].speed \in Int
  BY <1>2, <1>3, <1>4, <1>10 DEF AggregateInv
<1>21. CASE cell.count < Threshold
  <2>1. state' = with /\ Reported' = Reported
    <3>1. ~(cell.count >= Threshold)
      <4>1. cell.count \in Int
        <5>1. IsFiniteSet(G) /\ cell.count = Cardinality(G)
          BY <1>16 DEF CellFits
        <5>2. QED
          BY <5>1, FS_CardinalityType
      <4>2. QED
        BY <1>21, <4>1
    <3>2. QED
      BY <1>7, <1>10, <1>11, <3>1
  <2>2. \A x : Held(x)' = Held(x) \cup (IF x = c THEN {n} ELSE {})
    <3>1. \A x, m : m \in Held(x)' <=> m \in Held(x) \/ (m = n /\ x = c)
      BY <1>18, <2>1 DEF Held
    <3>2. QED
      BY <3>1
  <2>3. \A x : Aggregate!At(state', x) = IF x = c THEN cell ELSE Aggregate!At(state, x)
    BY <1>24, <2>1
  <2>4. \A x : /\ CellFits(l, Aggregate!At(state', x), Held(x)')
               /\ Aggregate!At(state', x).count < Threshold
    <3>1. TAKE x
    <3>2. CASE x = c
      <4>1. Held(x)' = G /\ Aggregate!At(state', x) = cell
        BY <1>15, <2>2, <2>3, <3>2
      <4>2. QED
        BY <1>16, <1>21, <4>1, Zenon
    <3>3. CASE x # c
      <4>1. Held(x)' = Held(x) /\ Aggregate!At(state', x) = Aggregate!At(state, x)
        BY <2>2, <2>3, <3>3
      <4>2. QED
        BY <1>14, <4>1, Zenon
    <3>4. QED
      BY <3>2, <3>3
  <2>5. \A r \in Reported' : Exact(r)'
    BY <1>19, <2>1
  <2>6. QED
    BY <1>2, <1>10, <1>20, <2>4, <2>5, Zenon DEF AggregateInv
<1>22. CASE cell.count = Threshold
  <2>1. PICK r : r = [at |-> n, what |-> what]
    OBVIOUS
  <2>2. state' = Aggregate!Emitted(with, c) /\ Reported' = Reported \cup {r} /\ r.at = n /\ r.what = what
    BY <1>7, <1>10, <1>11, <1>22, <2>1
  <2>3. \A x : Held(x)' = IF x = c THEN {} ELSE Held(x)
    <3>1. ASSUME NEW x, NEW m PROVE m \in Held(x)' <=> m \in Held(x) /\ x # c
      <4>1. m \in Held(x)' <=> /\ m \in Held(x) \/ (m = n /\ x = c)
                               /\ x = c => n < m
        BY <1>6, <1>18, <2>2 DEF Held
      <4>2. m \in Held(x) => m \in Nat /\ m < n
        BY <1>3, <1>14
      <4>3. QED
        BY <1>3, <4>1, <4>2
    <3>2. QED
      BY <3>1
  <2>4. \A x : /\ CellFits(l, Aggregate!At(state', x), Held(x)')
               /\ Aggregate!At(state', x).count < Threshold
    <3>1. TAKE x
    <3>2. CASE x = c
      <4>1. Held(x)' = {} /\ Aggregate!At(state', x) = Aggregate!Empty
        BY <1>25, <2>2, <2>3, <3>2
      <4>2. Aggregate!Empty.count < Threshold
        BY DEF Aggregate!Empty
      <4>3. QED
        BY <4>1, <4>2, EmptyFits, Zenon
    <3>3. CASE x # c
      <4>1. Held(x)' = Held(x) /\ Aggregate!At(state', x) = Aggregate!At(state, x)
        BY <1>25, <2>2, <2>3, <3>3
      <4>2. QED
        BY <1>14, <4>1, Zenon
    <3>4. QED
      BY <3>2, <3>3
  <2>5. Contributors(c, n)' = G
    <3>1. ReportsOf("spatial_agg")' = Reported'
      BY <1>11 DEF ReportsOf, Reported
    <3>2. ASSUME NEW m PROVE m \in Contributors(c, n)' <=> m \in G
      <4>1. m \in Contributors(c, n)'
              <=> /\ m \in 1 .. n /\ m \in Events' /\ CellOf[lineage'[m].pos] = c
                  /\ SameWindow(m, Len(lineage))'
                  /\ \A q \in Reported' : q.what.cell = c => ~(q.at \in m .. n - 1)
        BY <1>10, <3>1 DEF Contributors
      <4>2. ASSUME m \in 1 .. n
            PROVE  (\A q \in Reported' : q.what.cell = c => ~(q.at \in m .. n - 1))
                     <=> (\A q \in Reported : q.what.cell = c => q.at < m)
        <5>1. ~(n \in m .. n - 1)
          BY <1>3
        <5>2. \A q \in Reported : ~(q.at \in m .. n - 1) <=> q.at < m
          BY <1>2, <1>3, <1>13, <4>2
        <5>3. QED
          BY <2>2, <5>1, <5>2
      <4>3. m \in G => m \in 1 .. n
        <5>1. m \in G => m = n \/ m \in 1 .. Len(lineage)
          BY <1>3, <1>14, <1>15
        <5>2. n \in 1 .. n /\ \A i \in 1 .. Len(lineage) : i \in 1 .. n
          BY <1>2, <1>3
        <5>3. QED
          BY <5>1, <5>2
      <4>4. m \in G <=> /\ m \in Events' /\ CellOf[lineage'[m].pos] = c
                        /\ SameWindow(m, Len(lineage))'
                        /\ \A q \in Reported : q.what.cell = c => q.at < m
        <5>1. m \in G <=> m \in Held(c) \/ (m = n /\ c = c)
          BY <1>15
        <5>2. QED
          BY <1>18, <5>1, Zenon
      <4>5. CASE m \in 1 .. n
        BY <4>1, <4>2, <4>4, <4>5
      <4>6. CASE m \notin 1 .. n
        BY <4>1, <4>3, <4>6
      <4>7. QED
        BY <4>5, <4>6
    <3>3. QED
      BY <3>2
  <2>6. Exact(r)'
    <3>1. G # {}
      BY <1>15
    <3>2. Aggregates(l, G, what)
      BY <1>6, <1>16, <1>17, <1>22, <3>1, FullCell
    <3>3. QED
      BY <1>2, <1>6, <2>2, <2>5, <3>2 DEF Exact
  <2>7. \A q \in Reported' : Exact(q)'
    BY <1>19, <2>2, <2>6
  <2>8. QED
    BY <1>2, <1>10, <1>20, <2>4, <2>7, Zenon DEF AggregateInv
<1>26. cell.count < Threshold \/ cell.count = Threshold
  <2>1. Aggregate!At(state, c).count \in Nat
    <3>1. IsFiniteSet(Held(c)) /\ Aggregate!At(state, c).count = Cardinality(Held(c))
      BY <1>14 DEF CellFits
    <3>2. QED
      BY <3>1, FS_CardinalityType
  <2>2. Aggregate!At(state, c).count < Threshold
    BY <1>14
  <2>3. QED
    BY <1>16, <2>1, <2>2
<1>27. QED
  BY <1>21, <1>22, <1>26

\* A window close empties every cell and reports none.
LEMMA AggregateClose ==
  ASSUME AggregateInv, kind = "spatial_agg", Threshold \in Nat \ {0}, WindowClose
  PROVE  AggregateInv'
<1>1. PICK n : n = Len(lineage) + 1
  OBVIOUS
<1>2. /\ Len(lineage) \in Nat /\ n \in Nat /\ Events \subseteq 1 .. Len(lineage) /\ HistoryInv
  BY <1>1, HistoryPlaces DEF AggregateInv
<1>3. PICK result : result = Aggregate!Close(state)
  OBVIOUS
<1>4. Called(Closed, result) /\ result.state = << >> /\ result.out = << >>
  BY <1>3 DEF WindowClose, Closing, Aggregate!Close, Aggregate!Initial
<1>5. /\ HistoryInv' /\ Len(lineage') = n /\ lineage'[n] = Closed
      /\ \A m \in 1 .. Len(lineage) : lineage'[m] = lineage[m]
      /\ Events' = Events /\ Reported' = Reported
  BY <1>1, <1>2, <1>4, CalledOnce
<1>6. state' = << >> /\ kind' = kind
  BY <1>4 DEF Called
<1>7. \A x : Held(x)' = {} /\ Aggregate!At(state', x) = Aggregate!Empty
  <2>1. \A m \in 1 .. Len(lineage) : ~SameWindow(m, Len(lineage))'
    BY <1>1, <1>2, <1>5 DEF SameWindow, Closed
  <2>2. \A x : \A m : m \notin Held(x)'
    BY <1>2, <1>5, <2>1 DEF Held
  <2>3. DOMAIN << >> = {}
    BY EmptyIsSeq
  <2>4. QED
    BY <1>6, <2>2, <2>3 DEF Aggregate!At
<1>8. \A x : /\ CellFits(lineage', Aggregate!At(state', x), Held(x)')
             /\ Aggregate!At(state', x).count < Threshold
  <2>1. Aggregate!Empty.count < Threshold
    BY DEF Aggregate!Empty
  <2>2. QED
    BY <1>7, <2>1, EmptyFits
<1>9. \A r \in Reported' : Exact(r)'
  <2>1. Events' \cap (1 .. Len(lineage)) = Events
    BY <1>2, <1>5, Zenon
  <2>2. \A r \in Reported : Exact(r)
    BY DEF AggregateInv
  <2>3. Reported \subseteq Reported' /\ \A q \in Reported' : q \in Reported
    BY <1>5
  <2>4. QED
    BY <1>2, <1>5, <1>6, <2>1, <2>2, <2>3, ExactStays
<1>10. \A m \in Events' : lineage'[m].speed \in Int
  BY <1>2, <1>5 DEF AggregateInv
<1>11. QED
  BY <1>5, <1>8, <1>9, <1>10, Zenon DEF AggregateInv

\* The list of pairs in a checkpoint comes back as the map it was written from.
LEMMA RestoredCells ==
  ASSUME NEW s, NEW x
  PROVE  Aggregate!At(Aggregate!Restore(Aggregate!Snapshot(s)), x) = Aggregate!At(s, x)
<1>1. PICK P : P = Aggregate!Snapshot(s)
  OBVIOUS
<1>2. \A p : p \in P <=> \E c \in DOMAIN s : p = <<c, s[c]>>
  BY <1>1 DEF Aggregate!Snapshot
<1>0. \A a, b : <<a, b>>[1] = a /\ <<a, b>>[2] = b
  OBVIOUS
<1>3. {p[1] : p \in P} = DOMAIN s
  <2>1. ASSUME NEW p \in P PROVE p[1] \in DOMAIN s
    <3>1. PICK c \in DOMAIN s : p = <<c, s[c]>>
      BY <1>2
    <3>2. p[1] = c
      BY <3>1
    <3>3. QED
      BY <3>1, <3>2
  <2>2. ASSUME NEW c \in DOMAIN s PROVE \E p \in P : p[1] = c
    <3>1. <<c, s[c]>> \in P /\ <<c, s[c]>>[1] = c
      BY <1>0, <1>2
    <3>2. QED
      BY <3>1
  <2>3. QED
    BY <2>1, <2>2
<1>4. ASSUME x \in DOMAIN s
      PROVE  (CHOOSE p \in P : p[1] = x)[2] = s[x]
  <2>1. <<x, s[x]>> \in P /\ <<x, s[x]>>[1] = x
    BY <1>2, <1>4
  <2>2. PICK q : q = CHOOSE p \in P : p[1] = x
    OBVIOUS
  <2>3. q \in P /\ q[1] = x
    BY <2>1, <2>2
  <2>4. PICK c \in DOMAIN s : q = <<c, s[c]>>
    BY <1>2, <2>3
  <2>5. c = x /\ q[2] = s[c]
    <3>1. <<c, s[c]>>[1] = c /\ <<c, s[c]>>[2] = s[c]
      BY <1>0
    <3>2. QED
      BY <2>3, <2>4, <3>1, Zenon
  <2>6. QED
    BY <2>2, <2>5, Zenon
<1>5. QED
  BY <1>1, <1>3, <1>4 DEF Aggregate!At, Aggregate!Restore

LEMMA AggregateRestart ==
  ASSUME AggregateInv, kind = "spatial_agg", Restart \/ UNCHANGED vars
  PROVE  AggregateInv'
<1>1. /\ lineage' = lineage /\ reports' = reports
      /\ state' = state \/ state' = Aggregate!Restore(Aggregate!Snapshot(state))
      /\ kind' = kind
  BY DEF Restart, Restored, vars
<1>2. \A x : Aggregate!At(state', x) = Aggregate!At(state, x)
  <2>1. CASE state' = state
    BY <2>1
  <2>2. CASE state' = Aggregate!Restore(Aggregate!Snapshot(state))
    BY <2>2, RestoredCells
  <2>3. QED
    BY <1>1, <2>1, <2>2
<1>3. Events' = Events /\ Passed' = Passed /\ Reported' = Reported
  BY <1>1 DEF Events, Passed, Reported
<1>4. \A x : Held(x)' = Held(x)
  BY <1>1, <1>3 DEF Held, SameWindow
<1>5. HistoryInv'
  BY <1>1, <1>3 DEF AggregateInv, HistoryInv
<1>6. \A r : Exact(r)' <=> Exact(r)
  BY <1>1 DEF Exact, Contributors, SameWindow, ReportsOf, Events
<1>7. QED
  BY <1>1, <1>2, <1>3, <1>4, <1>5, <1>6 DEF AggregateInv

LEMMA AggregatePromise ==
  ASSUME kind = "spatial_agg" => AggregateInv
  PROVE  AggregatesMatchEvents
<1>1. CASE kind = "spatial_agg"
  <2>1. ReportsOf("spatial_agg") = Reported
    BY <1>1 DEF ReportsOf, Reported
  <2>2. ASSUME NEW r \in Reported
        PROVE  Aggregates(lineage, Contributors(r.what.cell, r.at), r.what)
    BY <1>1 DEF AggregateInv, Exact
  <2>3. QED
    BY <2>1, <2>2 DEF AggregatesMatchEvents, Aggregates, SpeedsOf
<1>2. CASE kind # "spatial_agg"
  BY <1>2 DEF AggregatesMatchEvents, ReportsOf
<1>3. QED
  BY <1>1, <1>2

AggregatorInv == kind \in Kinds /\ (kind = "spatial_agg" => AggregateInv)

LEMMA AggregateStep ==
  ASSUME Threshold \in Nat \ {0}, AggregatorInv, [Next]_vars
  PROVE  AggregatorInv'
<1>1. CASE \E event \in Inputs[kind] : Process(event)
  <2>1. PICK event \in Inputs[kind] : Process(event)
    BY <1>1
  <2>2. event.entity \in Entities /\ event.ts \in Nat /\ event.speed \in Int
    BY InputsAssumption DEF AggregatorInv
  <2>3. kind' = kind
    BY <2>1 DEF Process, Called
  <2>4. QED
    BY <2>1, <2>2, <2>3, AggregateProcess DEF AggregatorInv
<1>2. CASE WindowClose
  <2>1. kind' = kind
    BY <1>2 DEF WindowClose, Called
  <2>2. QED
    BY <1>2, <2>1, AggregateClose DEF AggregatorInv
<1>3. CASE Restart
  <2>1. kind' = kind
    BY <1>3 DEF Restart
  <2>2. QED
    BY <1>3, <2>1, AggregateRestart DEF AggregatorInv
<1>4. CASE UNCHANGED vars
  <2>1. kind' = kind
    BY <1>4 DEF vars
  <2>2. QED
    BY <1>4, <2>1, AggregateRestart DEF AggregatorInv
<1>5. QED
  BY <1>1, <1>2, <1>3, <1>4 DEF Next

\* What the aggregator reports of a cell is of exactly the events it held since it was
\* last emitted or the window closed, with their count, entities, highest and lowest
\* speed, also across a restart: in every behaviour, for every emit_threshold but 0
\* (SpatialAggregator::process, on_window_close and restore of spatial_agg.rs).
THEOREM AggregatesAreOfTheirEvents ==
  ASSUME Threshold \in Nat \ {0} PROVE Spec => []AggregatesMatchEvents
<1>1. Init => AggregatorInv
  BY AggregateInit DEF AggregatorInv, Init
<1>2. AggregatorInv /\ [Next]_vars => AggregatorInv'
  BY AggregateStep
<1>3. AggregatorInv => AggregatesMatchEvents
  BY AggregatePromise DEF AggregatorInv
<1>4. QED
  BY <1>1, <1>2, <1>3, PTL DEF Spec

(***************************************************************************)
(* What the two limits promise                                             *)
(***************************************************************************)

LimitsInv ==
  /\ kind \in Kinds
  /\ kind = "limiter" => LimiterInv
  /\ kind = "rate_limit" /\ ~restarted => BucketInv

\* What a reader of the invariants gets of them.
LEMMA LimitsPromise == LimitsInv => LimitsKept
<1> SUFFICES ASSUME LimitsInv PROVE LimitsKept
  OBVIOUS
<1>1. ASSUME kind = "limiter" PROVE FirstOfWindowPass
  <2>1. {r.at : r \in ReportsOf("limiter")} = Passed
    BY <1>1 DEF ReportsOf, Passed
  <2>2. LimiterInv
    BY <1>1 DEF LimitsInv
  <2>3. QED
    BY <2>1, <2>2 DEF FirstOfWindowPass, LimiterInv, Before
<1>2. ASSUME kind = "rate_limit", ~restarted PROVE RateBounded
  <2>1. {r.at : r \in ReportsOf("rate_limit")} = Passed
    BY <1>2 DEF ReportsOf, Passed
  <2>2. BucketInv
    BY <1>2 DEF LimitsInv
  <2>3. QED
    BY <2>1, <2>2 DEF RateBounded, BucketInv
<1>3. kind # "limiter" => FirstOfWindowPass
  BY DEF FirstOfWindowPass
<1>4. ~(kind = "rate_limit" /\ ~restarted) => RateBounded
  BY DEF RateBounded
<1>5. QED
  BY <1>1, <1>2, <1>3, <1>4 DEF LimitsKept

LEMMA LimitsStep == LimitsInv /\ [Next]_vars => LimitsInv'
<1> SUFFICES ASSUME LimitsInv, [Next]_vars PROVE LimitsInv'
  OBVIOUS
<1>1. CASE \E event \in Inputs[kind] : Process(event)
  <2>1. PICK event \in Inputs[kind] : Process(event)
    BY <1>1
  <2>2. event.entity \in Entities /\ event.ts \in Nat
    BY InputsAssumption DEF LimitsInv
  <2>3. kind' = kind /\ restarted' = restarted
    BY <2>1 DEF Process, Called
  <2>4. QED
    BY <2>1, <2>2, <2>3, LimiterProcess, BucketProcess DEF LimitsInv
<1>2. CASE WindowClose
  <2>1. kind' = kind /\ kind # "rate_limit"
    BY <1>2 DEF WindowClose, Called
  <2>2. QED
    BY <1>2, <2>1, LimiterClose DEF LimitsInv
<1>3. CASE Restart
  <2>1. kind' = kind /\ restarted' = TRUE
    BY <1>3 DEF Restart
  <2>2. QED
    BY <1>3, <2>1, LimiterRestart DEF LimitsInv
<1>4. CASE UNCHANGED vars
  <2>1. kind' = kind /\ restarted' = restarted
    BY <1>4 DEF vars
  <2>2. BucketInv => BucketInv'
    BY <1>4 DEF vars, BucketInv, HistoryInv, Since, Passed, Events
  <2>3. QED
    BY <1>4, <2>1, <2>2, LimiterRestart DEF LimitsInv
<1>5. QED
  BY <1>1, <1>2, <1>3, <1>4 DEF Next

\* In each window the first max_per_entity events of an entity pass and no others,
\* and in any stretch of time the token bucket passes no more than its burst and
\* the rate allow and nothing that waited a token's time is dropped: in every
\* behaviour (RateLimiter and RateLimitOperator of operator.rs).
THEOREM LimitsAreKept == Spec => []LimitsKept
<1>1. Init => LimitsInv
  BY LimiterInit, BucketInit DEF LimitsInv, Init
<1>2. LimitsInv /\ [Next]_vars => LimitsInv'
  BY LimitsStep
<1>3. LimitsInv => LimitsKept
  BY LimitsPromise
<1>4. QED
  BY <1>1, <1>2, <1>3, PTL DEF Spec

(***************************************************************************)
(* Calls that report any number of times                                   *)
(***************************************************************************)

\* A call adds its entry to the history and its reports, in their order.
LEMMA CalledPlaces ==
  ASSUME IsSeq(lineage), IsSeq(reports), NEW entry, NEW result, Called(entry, result),
         IsSeq(result.out)
  PROVE  /\ IsSeq(lineage') /\ Len(lineage) \in Nat
         /\ DOMAIN lineage = 1 .. Len(lineage) /\ Events \subseteq 1 .. Len(lineage)
         /\ Len(lineage') = Len(lineage) + 1 /\ lineage'[Len(lineage) + 1] = entry
         /\ \A n \in 1 .. Len(lineage) : lineage'[n] = lineage[n]
         /\ Events' = Events \cup (IF entry = Closed THEN {} ELSE {Len(lineage) + 1})
         /\ IsSeq(reports') /\ Len(reports) \in Nat /\ Len(result.out) \in Nat
         /\ Len(reports') = Len(reports) + Len(result.out)
         /\ \A i \in 1 .. Len(reports) : reports'[i] = reports[i]
         /\ \A i \in 1 .. Len(result.out) :
              reports'[Len(reports) + i] = [at |-> Len(lineage) + 1, what |-> result.out[i]]
         /\ Reported' = Reported \cup {[at |-> Len(lineage) + 1, what |-> o] : o \in ToSet(result.out)}
<1> DEFINE n == Len(lineage) + 1
<1>1. /\ IsSeq(lineage') /\ Len(lineage') = n /\ Len(lineage) \in Nat /\ lineage'[n] = entry
      /\ \A m \in 1 .. Len(lineage) : lineage'[m] = lineage[m]
      /\ DOMAIN lineage = 1 .. Len(lineage) /\ DOMAIN lineage' = 1 .. n
  <2>1. lineage' = Append(lineage, entry)
    BY DEF Called
  <2>2. QED
    BY <2>1, AppendSeq, AppendPlaces
<1>2. Events' = Events \cup (IF entry = Closed THEN {} ELSE {n}) /\ Events \subseteq 1 .. Len(lineage)
  BY <1>1 DEF Events, Closed
<1>3. PICK new : new = [k \in DOMAIN result.out |-> [at |-> n, what |-> result.out[k]]]
  OBVIOUS
<1>4. Len(result.out) \in Nat /\ DOMAIN result.out = 1 .. Len(result.out)
  BY LenProperties DEF IsSeq
<1>5. IsSeq(new) /\ Len(new) = Len(result.out)
  <2>1. new = [k \in 1 .. Len(result.out) |-> new[k]]
    BY <1>3, <1>4
  <2>2. QED
    BY <1>4, <2>1, FunctionSeq
<1>6. reports' = reports \o new
  BY <1>3 DEF Called
<1>7. /\ IsSeq(reports') /\ Len(reports) \in Nat /\ Len(reports') = Len(reports) + Len(new)
      /\ \A i \in 1 .. Len(reports) : reports'[i] = reports[i]
      /\ \A i \in 1 .. Len(new) : reports'[Len(reports) + i] = new[i]
      /\ ToSet(reports') = ToSet(reports) \cup ToSet(new)
  <2>1. Joined(reports, new, reports \o new)
    BY <1>5, ConcatPlaces
  <2>2. Joined(reports, new, reports')
    BY <1>6, <2>1, Zenon
  <2>3. QED
    BY <2>2 DEF Joined
<1>8. \A i \in 1 .. Len(result.out) : new[i] = [at |-> n, what |-> result.out[i]]
  BY <1>3, <1>4
<1>9. ToSet(new) = {[at |-> n, what |-> o] : o \in ToSet(result.out)}
  <2>1. DOMAIN new = DOMAIN result.out
    BY <1>3
  <2>2. QED
    BY <1>4, <1>8, <2>1, ToSetPlaces
<1>10. Reported = ToSet(reports) /\ Reported' = ToSet(reports')
  BY ToSetPlaces DEF Reported
<1>11. QED
  BY <1>1, <1>2, <1>4, <1>5, <1>7, <1>8, <1>9, <1>10, Zenon

\* An event is one more in the history of its entity.
LEMMA EventCalled ==
  ASSUME IsSeq(lineage), IsSeq(reports), NEW e, NEW result, Called(e, result), IsSeq(result.out),
         e # Closed
  PROVE  \A x : EventsOf(x)' = EventsOf(x) \cup (IF x = e.entity THEN {Len(lineage) + 1} ELSE {})
<1>1. PICK n : n = Len(lineage) + 1
  OBVIOUS
<1>2. /\ lineage'[n] = e /\ \A m \in 1 .. Len(lineage) : lineage'[m] = lineage[m]
      /\ Events' = Events \cup {n} /\ Events \subseteq 1 .. Len(lineage)
  BY <1>1, CalledPlaces
<1>3. QED
  BY <1>1, <1>2 DEF EventsOf

\* A window close is none.
LEMMA CloseCalled ==
  ASSUME IsSeq(lineage), IsSeq(reports), NEW result, Called(Closed, result), IsSeq(result.out)
  PROVE  \A x : EventsOf(x)' = EventsOf(x)
<1>1. /\ \A m \in 1 .. Len(lineage) : lineage'[m] = lineage[m]
      /\ Events' = Events /\ Events \subseteq 1 .. Len(lineage)
  BY CalledPlaces
<1>2. QED
  BY <1>1 DEF EventsOf

(***************************************************************************)
(* Geofences                                                               *)
(***************************************************************************)

Inside(n, z) == lineage[n].pos \in Zones[z]

\* The entity's last event is inside.
LastInside(x, z) ==
  \E m \in EventsOf(x) : (\A i \in EventsOf(x) : i <= m) /\ Inside(m, z)

\* Its event before n is.
InsideBefore(x, n, z) == \E m \in EventsOf(x) : Leg(x, m, n) /\ Inside(m, z)

Crossing(x, n, z, event) ==
  [at |-> n, what |-> [zone |-> z, event |-> event, entity |-> x]] \in Reported

Crosses(x, n, z) ==
  /\ Crossing(x, n, z, "Enter") = (Inside(n, z) /\ ~InsideBefore(x, n, z))
  /\ Crossing(x, n, z, "Exit") = (InsideBefore(x, n, z) /\ ~Inside(n, z))

\* The state says whether the last event of an entity was inside, and every event so
\* far was reported as it crosses.
FencesInv ==
  /\ IsSeq(lineage) /\ IsSeq(reports)
  /\ \A r \in Reported : r.at \in Events
  /\ state \in [Entities -> [DOMAIN Zones -> BOOLEAN]]
  /\ \A x \in Entities, z \in DOMAIN Zones : state[x][z] = LastInside(x, z)
  /\ \A x \in Entities, z \in DOMAIN Zones : \A n \in EventsOf(x) : Crosses(x, n, z)

LEMMA FencesInit == Init /\ kind = "geofence" => FencesInv
<1> SUFFICES ASSUME Init, kind = "geofence" PROVE FencesInv
  OBVIOUS
<1>1. lineage = << >> /\ reports = << >>
  BY DEF Init
<1>2. DOMAIN << >> = {} /\ IsSeq(<< >>)
  BY EmptyIsSeq
<1>3. Events = {} /\ Reported = {} /\ \A x : EventsOf(x) = {}
  BY <1>1, <1>2 DEF Events, Reported, EventsOf
<1>4. state = [entity \in Entities |-> [z \in DOMAIN Zones |-> FALSE]]
  BY DEF Init, Fresh, Geofence!Initial
<1>5. state \in [Entities -> [DOMAIN Zones -> BOOLEAN]]
  BY <1>4
<1>6. \A x \in Entities, z \in DOMAIN Zones : state[x][z] = FALSE
  BY <1>4
<1>7. \A x, z : LastInside(x, z) = FALSE
  BY <1>3 DEF LastInside
<1>8. \A x \in Entities, z \in DOMAIN Zones : state[x][z] = LastInside(x, z)
  BY <1>6, <1>7, Zenon
<1>9. IsSeq(lineage) /\ IsSeq(reports)
  BY <1>1, <1>2
<1>10. QED
  BY <1>3, <1>5, <1>8, <1>9, Zenon DEF FencesInv

\* What was before an event does not change.
LEMMA CrossesStays ==
  ASSUME IsSeq(lineage), Len(lineage) \in Nat, Events \subseteq 1 .. Len(lineage),
         \A m \in 1 .. Len(lineage) : lineage'[m] = lineage[m],
         NEW x, EventsOf(x)' = EventsOf(x) \/ EventsOf(x)' = EventsOf(x) \cup {Len(lineage) + 1},
         NEW n \in EventsOf(x), NEW z
  PROVE  InsideBefore(x, n, z)' = InsideBefore(x, n, z) /\ Inside(n, z)' = Inside(n, z)
<1>1. n \in 1 .. Len(lineage) /\ EventsOf(x) \subseteq 1 .. Len(lineage)
  BY DEF EventsOf
<1>2. \A m \in EventsOf(x) : Inside(m, z)' = Inside(m, z)
  BY <1>1 DEF Inside
<1>3. \A m \in EventsOf(x)' : m < n => m \in EventsOf(x)
  BY <1>1
<1>4. \A m \in EventsOf(x) : Leg(x, m, n)' = Leg(x, m, n)
  <2>1. ASSUME NEW m \in EventsOf(x) PROVE Leg(x, m, n)' = Leg(x, m, n)
    <3>1. \A i \in m + 1 .. n - 1 : i \in EventsOf(x)' <=> i \in EventsOf(x)
      BY <1>1
    <3>2. m \in EventsOf(x)' /\ n \in EventsOf(x)'
      OBVIOUS
    <3>3. QED
      BY <3>1, <3>2 DEF Leg
  <2>2. QED
    BY <2>1
<1>5. \A m : Leg(x, m, n)' => m \in EventsOf(x)' /\ m < n
  BY DEF Leg
<1>6. QED
  BY <1>2, <1>3, <1>4, <1>5 DEF InsideBefore

\* What the operator reports of an event: every zone that is entered or left.
LEMMA FencesOut ==
  ASSUME NEW e, NEW is, is = Geofence!Checked(e), NEW was, was = state[e.entity],
         NEW result, result = Geofence!Process(state, e),
         \A z \in DOMAIN Zones : was[z] \in BOOLEAN
  PROVE  /\ result.state = [state EXCEPT ![e.entity] = is]
         /\ IsSeq(result.out)
         /\ \A z \in DOMAIN Zones, event \in {"Enter", "Exit"} : \A x :
              [zone |-> z, event |-> event, entity |-> x] \in ToSet(result.out)
              <=> x = e.entity /\ event = Geofence!Transition(was[z], is[z])
<1>1. PICK all : all = [z \in DOMAIN Zones |->
                          [zone |-> z, event |-> Geofence!Transition(was[z], is[z]), entity |-> e.entity]]
  OBVIOUS
<1>2. PICK those : those = {z \in DOMAIN Zones : all[z].event \in {"Enter", "Exit"}}
  OBVIOUS
<1>3. Zones \in Seq({Zones[z] : z \in DOMAIN Zones})
  BY ZonesAssumption
<1>4. DOMAIN Zones = 1 .. Len(Zones) /\ Len(Zones) \in Nat
  BY <1>3, LenProperties
<1>5. IsSeq(all) /\ Len(all) = Len(Zones)
  <2>1. all = [z \in 1 .. Len(Zones) |-> all[z]]
    BY <1>1, <1>4
  <2>2. QED
    BY <1>4, <2>1, FunctionSeq
<1>6. result = [state |-> [state EXCEPT ![e.entity] = is], out |-> Picked(all, those)]
  <2>1. Geofence!Picked(all, those) = Picked(all, those)
    BY DEF Geofence!Picked, Picked
  <2>2. result = [state |-> [state EXCEPT ![e.entity] = is], out |-> Geofence!Picked(all, those)]
    BY <1>1, <1>2 DEF Geofence!Process
  <2>3. QED
    BY <2>1, <2>2, Zenon
<1>7. IsSeq(result.out) /\ ToSet(result.out) = {all[z] : z \in {j \in 1 .. Len(all) : j \in those}}
  <2>1. Len(all) \in Nat
    BY <1>4, <1>5
  <2>2. IsSeq(Picked(all, those))
        /\ ToSet(Picked(all, those)) = {all[z] : z \in {j \in 1 .. Len(all) : j \in those}}
    BY <2>1, PickedElements
  <2>3. result.out = Picked(all, those)
    BY <1>6
  <2>4. QED
    BY <2>2, <2>3, Zenon
<1>8. ToSet(result.out) = {all[z] : z \in those}
  BY <1>2, <1>4, <1>5, <1>7
<1>9. ASSUME NEW z \in DOMAIN Zones, NEW event \in {"Enter", "Exit"}, NEW x
      PROVE  [zone |-> z, event |-> event, entity |-> x] \in ToSet(result.out)
             <=> x = e.entity /\ event = Geofence!Transition(was[z], is[z])
  <2>1. \A y \in DOMAIN Zones :
          all[y] = [zone |-> y, event |-> Geofence!Transition(was[y], is[y]), entity |-> e.entity]
    BY <1>1
  <2>2. \A y \in DOMAIN Zones : [zone |-> z, event |-> event, entity |-> x] = all[y]
          <=> y = z /\ x = e.entity /\ event = Geofence!Transition(was[z], is[z])
    <3>1. ASSUME NEW y \in DOMAIN Zones
          PROVE  [zone |-> z, event |-> event, entity |-> x] = all[y]
                 <=> y = z /\ x = e.entity /\ event = Geofence!Transition(was[z], is[z])
      <4>1. PICK a, b : a = Geofence!Transition(was[y], is[y]) /\ b = Geofence!Transition(was[z], is[z])
        OBVIOUS
      <4>2. all[y] = [zone |-> y, event |-> a, entity |-> e.entity]
        BY <2>1, <4>1, Zenon
      <4>3. [zone |-> z, event |-> event, entity |-> x] = [zone |-> y, event |-> a, entity |-> e.entity]
            <=> y = z /\ event = a /\ x = e.entity
        OBVIOUS
      <4>4. y = z => a = b
        BY <4>1
      <4>5. QED
        BY <4>1, <4>2, <4>3, <4>4, Zenon
    <3>2. QED
      BY <3>1
  <2>3. \A y \in those : y \in DOMAIN Zones
    BY <1>2
  <2>4. event = Geofence!Transition(was[z], is[z]) => z \in those
    <3>1. PICK b : b = Geofence!Transition(was[z], is[z])
      OBVIOUS
    <3>2. all[z].event = b
      <4>1. all[z] = [zone |-> z, event |-> b, entity |-> e.entity]
        BY <2>1, <3>1, Zenon
      <4>2. QED
        BY <4>1
    <3>3. QED
      BY <1>2, <3>1, <3>2, Zenon
  <2>5. QED
    BY <1>8, <2>2, <2>3, <2>4
<1>10. QED
  BY <1>6, <1>7, <1>9

\* An event says of every zone whether the entity is inside, and is reported if it
\* was not the same before.
LEMMA FencesProcess ==
  ASSUME FencesInv, kind = "geofence", NEW event, event.entity \in Entities, Process(event)
  PROVE  FencesInv'
<1>0. PICK n : n = Len(lineage) + 1
  OBVIOUS
<1>1. PICK e : e = [id |-> n, entity |-> event.entity, ts |-> event.ts,
                    pos |-> event.pos, speed |-> event.speed]
  OBVIOUS
<1>2. PICK x0 : x0 = event.entity
  OBVIOUS
<1>3. e # Closed /\ e.entity = x0 /\ e.pos = event.pos /\ x0 \in Entities
  BY <1>1, <1>2 DEF Closed
<1>4. PICK result : result = Geofence!Process(state, e)
  OBVIOUS
<1>5. Called(e, result)
  BY <1>0, <1>1, <1>4 DEF Process, Processing
<1>6. PICK is : is = Geofence!Checked(e)
  OBVIOUS
<1>7. PICK was : was = state[e.entity]
  OBVIOUS
<1>8. was \in [DOMAIN Zones -> BOOLEAN] /\ IsSeq(lineage) /\ IsSeq(reports)
  BY <1>3, <1>7 DEF FencesInv
<1>9. /\ result.state = [state EXCEPT ![e.entity] = is]
      /\ IsSeq(result.out)
      /\ \A z \in DOMAIN Zones, said \in {"Enter", "Exit"} : \A x :
           [zone |-> z, event |-> said, entity |-> x] \in ToSet(result.out)
           <=> x = e.entity /\ said = Geofence!Transition(was[z], is[z])
  BY <1>4, <1>6, <1>7, <1>8, FencesOut
<1>10. /\ IsSeq(lineage') /\ Len(lineage) \in Nat /\ Events \subseteq 1 .. Len(lineage)
       /\ lineage'[n] = e /\ \A m \in 1 .. Len(lineage) : lineage'[m] = lineage[m]
       /\ Events' = Events \cup {n} /\ IsSeq(reports')
       /\ Reported' = Reported \cup {[at |-> n, what |-> o] : o \in ToSet(result.out)}
  BY <1>0, <1>3, <1>5, <1>8, <1>9, CalledPlaces
<1>11. \A x : EventsOf(x)' = EventsOf(x) \cup (IF x = x0 THEN {n} ELSE {})
  BY <1>0, <1>3, <1>5, <1>8, <1>9, EventCalled
<1>12. \A x : EventsOf(x) \subseteq 1 .. Len(lineage)
  BY <1>10 DEF EventsOf
<1>13. \A r \in Reported' : r.at \in Events'
  BY <1>10 DEF FencesInv
<1>14. state' = [state EXCEPT ![x0] = is] /\ is \in [DOMAIN Zones -> BOOLEAN]
       /\ \A z \in DOMAIN Zones : is[z] = (lineage'[n].pos \in Zones[z])
  <2>1. state' = [state EXCEPT ![x0] = is]
    BY <1>3, <1>5, <1>9 DEF Called
  <2>2. is = [z \in DOMAIN Zones |-> e.pos \in Zones[z]]
    BY <1>6 DEF Geofence!Checked
  <2>3. QED
    BY <1>10, <2>1, <2>2
<1>15. state' \in [Entities -> [DOMAIN Zones -> BOOLEAN]]
  BY <1>14 DEF FencesInv
<1>16. \A z : LastInside(x0, z)' = Inside(n, z)'
  <2>1. n \in EventsOf(x0)' /\ \A i \in EventsOf(x0)' : i <= n /\ (n <= i => i = n)
    BY <1>0, <1>10, <1>11, <1>12
  <2>2. \A m \in EventsOf(x0)' : (\A i \in EventsOf(x0)' : i <= m) => m = n
    BY <2>1
  <2>3. ASSUME NEW z PROVE LastInside(x0, z)' <=> Inside(n, z)'
    <3>1. ASSUME LastInside(x0, z)' PROVE Inside(n, z)'
      <4>1. PICK m \in EventsOf(x0)' : (\A i \in EventsOf(x0)' : i <= m) /\ Inside(m, z)'
        BY <3>1 DEF LastInside
      <4>2. m = n
        BY <2>2, <4>1
      <4>3. QED
        BY <4>1, <4>2
    <3>2. ASSUME Inside(n, z)' PROVE LastInside(x0, z)'
      BY <2>1, <3>2, Zenon DEF LastInside
    <3>3. QED
      BY <3>1, <3>2
  <2>4. \A z : LastInside(x0, z)' \in BOOLEAN /\ Inside(n, z)' \in BOOLEAN
    BY DEF LastInside, Inside
  <2>5. QED
    BY <2>3, <2>4, Zenon
<1>17. \A x \in Entities, z \in DOMAIN Zones : state'[x][z] = LastInside(x, z)'
  <2>1. ASSUME NEW x \in Entities, NEW z \in DOMAIN Zones PROVE state'[x][z] = LastInside(x, z)'
    <3>1. CASE x = x0
      <4>1. state'[x] = is
        BY <1>14, <3>1 DEF FencesInv
      <4>2. is[z] = Inside(n, z)'
        BY <1>14 DEF Inside
      <4>3. QED
        BY <1>16, <3>1, <4>1, <4>2
    <3>2. CASE x # x0
      <4>1. EventsOf(x)' = EventsOf(x)
        BY <1>11, <3>2
      <4>2. \A m \in EventsOf(x) : Inside(m, z)' = Inside(m, z)
        BY <1>10, <1>12 DEF Inside
      <4>3. LastInside(x, z)' = LastInside(x, z)
        BY <4>1, <4>2 DEF LastInside
      <4>4. state'[x] = state[x]
        BY <1>14, <3>2 DEF FencesInv
      <4>5. QED
        BY <4>3, <4>4 DEF FencesInv
    <3>3. QED
      BY <3>1, <3>2
  <2>2. QED
    BY <2>1
<1>18. ASSUME NEW z \in DOMAIN Zones PROVE InsideBefore(x0, n, z)' = was[z]
  <2>1. \A m : Leg(x0, m, n)' <=> m \in EventsOf(x0) /\ \A i \in EventsOf(x0) : i <= m
    <3>1. ASSUME NEW m PROVE Leg(x0, m, n)' <=> m \in EventsOf(x0) /\ \A i \in EventsOf(x0) : i <= m
      <4>1. EventsOf(x0)' = EventsOf(x0) \cup {n} /\ n \notin EventsOf(x0) /\ EventsOf(x0) \subseteq 1 .. Len(lineage)
        BY <1>0, <1>10, <1>11, <1>12
      <4>2. m \in EventsOf(x0)' /\ m < n <=> m \in EventsOf(x0)
        BY <1>0, <1>10, <4>1
      <4>3. ASSUME m \in EventsOf(x0)
            PROVE  (\A i \in m + 1 .. n - 1 : i \notin EventsOf(x0)') <=> \A i \in EventsOf(x0) : i <= m
        <5>1. m \in Nat /\ n = Len(lineage) + 1 /\ Len(lineage) \in Nat
          BY <1>0, <1>10, <4>1, <4>3
        <5>2. \A i \in EventsOf(x0) : i <= m \/ i \in m + 1 .. n - 1
          BY <4>1, <5>1
        <5>3. \A i \in m + 1 .. n - 1 : ~(i <= m) /\ i # n
          BY <5>1
        <5>4. QED
          BY <4>1, <5>2, <5>3
      <4>4. n \in EventsOf(x0)'
        BY <4>1
      <4>5. QED
        BY <4>2, <4>3, <4>4 DEF Leg
    <3>2. QED
      BY <3>1
  <2>2. \A m \in EventsOf(x0) : Inside(m, z)' = Inside(m, z)
    BY <1>10, <1>12 DEF Inside
  <2>3. \A m : Leg(x0, m, n)' => m \in EventsOf(x0)'
    BY DEF Leg
  <2>4. InsideBefore(x0, n, z)' = LastInside(x0, z)
    BY <2>1, <2>2, <2>3 DEF InsideBefore, LastInside
  <2>5. QED
    BY <1>3, <1>7, <2>4 DEF FencesInv
<1>19. ASSUME NEW x \in Entities, NEW z \in DOMAIN Zones, NEW m \in EventsOf(x)'
       PROVE  Crosses(x, m, z)'
  <2>1. CASE m = n
    <3>1. x = x0
      BY <1>0, <1>10, <1>11, <1>12, <2>1
    <3>2. \A said : Crossing(x, n, z, said)' <=>
            [zone |-> z, event |-> said, entity |-> x] \in ToSet(result.out)
      <4>1. \A said : [at |-> n, what |-> [zone |-> z, event |-> said, entity |-> x]] \notin Reported
        BY <1>0, <1>10 DEF FencesInv
      <4>2. QED
        BY <1>10, <4>1 DEF Crossing
    <3>3. \A said \in {"Enter", "Exit"} : Crossing(x, n, z, said)' <=> said = Geofence!Transition(was[z], is[z])
      BY <1>3, <1>9, <3>1, <3>2
    <3>4. InsideBefore(x, n, z)' = was[z] /\ Inside(n, z)' = is[z]
      BY <1>14, <1>18, <3>1 DEF Inside
    <3>5. was[z] \in BOOLEAN /\ is[z] \in BOOLEAN
      BY <1>8, <1>14
    <3>6. /\ "Enter" = Geofence!Transition(was[z], is[z]) <=> is[z] /\ ~was[z]
          /\ "Exit" = Geofence!Transition(was[z], is[z]) <=> was[z] /\ ~is[z]
      BY <3>5 DEF Geofence!Transition
    <3>7. /\ Crossing(x, n, z, "Enter")' = (Inside(n, z)' /\ ~InsideBefore(x, n, z)')
          /\ Crossing(x, n, z, "Exit")' = (InsideBefore(x, n, z)' /\ ~Inside(n, z)')
      <4>1. Crossing(x, n, z, "Enter")' <=> is[z] /\ ~was[z]
        BY <3>3, <3>6
      <4>2. Crossing(x, n, z, "Exit")' <=> was[z] /\ ~is[z]
        BY <3>3, <3>6
      <4>3. Crossing(x, n, z, "Enter")' \in BOOLEAN /\ Crossing(x, n, z, "Exit")' \in BOOLEAN
        BY DEF Crossing
      <4>4. QED
        BY <3>4, <3>5, <4>1, <4>2, <4>3, Zenon
    <3>8. QED
      BY <2>1, <3>7 DEF Crosses
  <2>2. CASE m # n
    <3>1. m \in EventsOf(x)
      BY <1>11, <2>2
    <3>2. InsideBefore(x, m, z)' = InsideBefore(x, m, z) /\ Inside(m, z)' = Inside(m, z)
      <4>1. EventsOf(x)' = EventsOf(x) \/ EventsOf(x)' = EventsOf(x) \cup {Len(lineage) + 1}
        BY <1>0, <1>11
      <4>2. QED
        BY <1>8, <1>10, <3>1, <4>1, CrossesStays
    <3>3. \A said : Crossing(x, m, z, said)' = Crossing(x, m, z, said)
      <4>1. \A said, o : [at |-> m, what |-> [zone |-> z, event |-> said, entity |-> x]] # [at |-> n, what |-> o]
        BY <2>2
      <4>2. \A said : [at |-> m, what |-> [zone |-> z, event |-> said, entity |-> x]]
                       \notin {[at |-> n, what |-> o] : o \in ToSet(result.out)}
        BY <4>1
      <4>3. QED
        BY <1>10, <4>2 DEF Crossing
    <3>4. Crosses(x, m, z)
      BY <3>1 DEF FencesInv
    <3>5. QED
      BY <3>2, <3>3, <3>4, Zenon DEF Crosses
  <2>3. QED
    BY <2>1, <2>2
<1>20. QED
  BY <1>10, <1>13, <1>15, <1>17, <1>19, Zenon DEF FencesInv

\* What becomes of the invariant if no event is added and nothing is reported.
LEMMA FencesStay ==
  ASSUME FencesInv, IsSeq(lineage'), IsSeq(reports'), state' = state,
         Events' = Events, Reported' = Reported, \A x : EventsOf(x)' = EventsOf(x),
         Len(lineage) \in Nat, Events \subseteq 1 .. Len(lineage),
         \A m \in 1 .. Len(lineage) : lineage'[m] = lineage[m]
  PROVE  FencesInv'
<1>1. \A x, z : \A m \in EventsOf(x) : Inside(m, z)' = Inside(m, z)
  BY DEF Inside, EventsOf
<1>2. \A x, z : LastInside(x, z)' = LastInside(x, z)
  BY <1>1 DEF LastInside
<1>3. \A x, z : \A m \in EventsOf(x) : InsideBefore(x, m, z)' = InsideBefore(x, m, z)
  BY CrossesStays DEF FencesInv
<1>4. \A x, m, z, said : Crossing(x, m, z, said)' = Crossing(x, m, z, said)
  BY DEF Crossing
<1>5. \A x \in Entities, z \in DOMAIN Zones : \A m \in EventsOf(x)' : Crosses(x, m, z)'
  <2>1. ASSUME NEW x \in Entities, NEW z \in DOMAIN Zones, NEW m \in EventsOf(x)' PROVE Crosses(x, m, z)'
    <3>1. m \in EventsOf(x) /\ Crosses(x, m, z)
      BY DEF FencesInv
    <3>2. QED
      BY <1>1, <1>3, <1>4, <3>1, Zenon DEF Crosses
  <2>2. QED
    BY <2>1
<1>6. \A x \in Entities, z \in DOMAIN Zones : state'[x][z] = LastInside(x, z)'
  BY <1>2, Zenon DEF FencesInv
<1>7. /\ state' \in [Entities -> [DOMAIN Zones -> BOOLEAN]]
      /\ \A r \in Reported' : r.at \in Events'
  BY DEF FencesInv
<1>8. QED
  BY <1>5, <1>6, <1>7, Zenon DEF FencesInv

LEMMA FencesClose ==
  ASSUME FencesInv, kind = "geofence", WindowClose
  PROVE  FencesInv'
<1>1. PICK result : result = Geofence!Close(state)
  OBVIOUS
<1>2. Called(Closed, result) /\ result.state = state /\ result.out = << >>
  BY <1>1 DEF WindowClose, Closing, Geofence!Close
<1>3. IsSeq(lineage) /\ IsSeq(reports) /\ IsSeq(result.out) /\ ToSet(result.out) = {}
  BY <1>2, EmptyIsSeq, ToSetEmpty DEF FencesInv
<1>4. /\ IsSeq(lineage') /\ Len(lineage) \in Nat /\ Events \subseteq 1 .. Len(lineage)
      /\ \A m \in 1 .. Len(lineage) : lineage'[m] = lineage[m]
      /\ Events' = Events /\ IsSeq(reports')
      /\ Reported' = Reported \cup {[at |-> Len(lineage) + 1, what |-> o] : o \in ToSet(result.out)}
  BY <1>2, <1>3, CalledPlaces
<1>5. Reported' = Reported
  BY <1>3, <1>4
<1>6. \A x : EventsOf(x)' = EventsOf(x)
  BY <1>2, <1>3, CloseCalled
<1>7. state' = state
  BY <1>2 DEF Called
<1>8. QED
  BY <1>4, <1>5, <1>6, <1>7, FencesStay

\* A restarted operator has the state of the one before it.
LEMMA FencesRestart ==
  ASSUME FencesInv, kind = "geofence", Restart \/ UNCHANGED vars
  PROVE  FencesInv'
<1>1. state' = state /\ lineage' = lineage /\ reports' = reports
  BY DEF Restart, Restored, vars
<1>2. Events' = Events /\ Reported' = Reported
  BY <1>1 DEF Events, Reported
<1>3. \A x : EventsOf(x)' = EventsOf(x)
  BY <1>1, <1>2 DEF EventsOf
<1>4. IsSeq(lineage) /\ IsSeq(reports)
  BY DEF FencesInv
<1>5. Len(lineage) \in Nat /\ Events \subseteq 1 .. Len(lineage)
  BY <1>4, AppendSeq, AppendPlaces DEF Events
<1>6. QED
  BY <1>1, <1>2, <1>3, <1>4, <1>5, FencesStay

GeofenceInv == kind \in Kinds /\ (kind = "geofence" => FencesInv)

LEMMA FencesPromise == GeofenceInv => FencesReportCrossings
<1> SUFFICES ASSUME FencesInv, kind = "geofence" PROVE FencesReportCrossings
  BY DEF GeofenceInv, FencesReportCrossings
<1>1. ReportsOf("geofence") = Reported
  BY DEF ReportsOf, Reported
<1>2. QED
  BY <1>1, Zenon DEF FencesInv, FencesReportCrossings, Crosses, Crossing, Inside, InsideBefore

LEMMA FencesStep == GeofenceInv /\ [Next]_vars => GeofenceInv'
<1> SUFFICES ASSUME GeofenceInv, [Next]_vars PROVE GeofenceInv'
  OBVIOUS
<1>1. CASE \E event \in Inputs[kind] : Process(event)
  <2>1. PICK event \in Inputs[kind] : Process(event)
    BY <1>1
  <2>2. event.entity \in Entities /\ kind' = kind
    BY <2>1, InputsAssumption DEF GeofenceInv, Process, Called
  <2>3. QED
    BY <2>1, <2>2, FencesProcess DEF GeofenceInv
<1>2. CASE WindowClose
  <2>1. kind' = kind
    BY <1>2 DEF WindowClose, Called
  <2>2. QED
    BY <1>2, <2>1, FencesClose DEF GeofenceInv
<1>3. CASE Restart \/ UNCHANGED vars
  <2>1. kind' = kind
    BY <1>3 DEF Restart, vars
  <2>2. QED
    BY <1>3, <2>1, FencesRestart DEF GeofenceInv
<1>4. QED
  BY <1>1, <1>2, <1>3 DEF Next

\* An entity is reported as entering a zone exactly when it is inside and was not at
\* its event before, and as leaving exactly when it is outside and was inside, for
\* zones of any shape that overlap in any way, across window closes and restarts: in
\* every behaviour (GeofenceOperator::process and restore of geofence.rs).
THEOREM FencesAreCrossed == Spec => []FencesReportCrossings
<1>1. Init => GeofenceInv
  BY FencesInit DEF GeofenceInv, Init
<1>2. GeofenceInv /\ [Next]_vars => GeofenceInv'
  BY FencesStep
<1>3. GeofenceInv => FencesReportCrossings
  BY FencesPromise
<1>4. QED
  BY <1>1, <1>2, <1>3, PTL DEF Spec

(***************************************************************************)
(* Proximity alerts                                                        *)
(***************************************************************************)

\* A finite set in some order: every element once.
LEMMA SetToSeqElements ==
  ASSUME NEW S, IsFiniteSet(S)
  PROVE  /\ IsSeq(SetToSeq(S)) /\ ToSet(SetToSeq(S)) = S
         /\ \A i, j \in DOMAIN SetToSeq(S) : SetToSeq(S)[i] = SetToSeq(S)[j] => i = j
<1>1. PICK c : c = Cardinality(S)
  OBVIOUS
<1>2. c \in Nat /\ ExistsBijection(1 .. c, S)
  BY <1>1, FS_CardinalityType
<1>3. \E f \in [1 .. c -> S] : IsInjective(f)
  BY <1>2 DEF ExistsBijection, Bijection, Injection, IsInjective
<1>4. PICK f : f = SetToSeq(S)
  OBVIOUS
<1>5. f \in [1 .. c -> S] /\ IsInjective(f)
  BY <1>1, <1>3, <1>4, Zenon DEF SetToSeq
<1>6. f \in Surjection(1 .. c, S)
  <2>1. f \in Injection(1 .. c, S)
    BY <1>5 DEF Injection
  <2>2. Cardinality(1 .. c) = c
    BY <1>2, FS_Interval
  <2>3. QED
    BY <1>1, <2>1, <2>2, FS_Injection
<1>7. \A t \in S : \E i \in 1 .. c : f[i] = t
  BY <1>6 DEF Surjection
<1>8. f = [i \in 1 .. c |-> f[i]] /\ DOMAIN f = 1 .. c
  BY <1>5
<1>9. IsSeq(f)
  BY <1>2, <1>8, FunctionSeq
<1>10. ToSet(f) = S
  BY <1>5, <1>7, <1>8, ToSetPlaces
<1>11. \A i, j \in DOMAIN f : f[i] = f[j] => i = j
  BY <1>5 DEF IsInjective
<1>12. QED
  BY <1>4, <1>9, <1>10, <1>11, Zenon

Globe == [lat : Proximity!Latitudes, lon : -HalfWorld .. HalfWorld]

\* The positions are on the globe.
OnTheGlobe == "proximity" \in Kinds => \A e \in Inputs["proximity"] : e.pos \in Globe

\* b is in the box around a.
Boxed(a, b) ==
  /\ Proximity!InLongitudeRange(a, b.lon)
  /\ Proximity!Gap(a.lat, b.lat) * Proximity!One <= Proximity!HalfWidth

Seen(a, b) == Boxed(a, b) /\ Proximity!Near(a, b)

\* Larger by a natural factor.
LEMMA TimesNat == ASSUME NEW c \in Nat, NEW x \in Int, NEW y \in Int, x <= y PROVE x * c <= y * c
<1>1. PICK d \in Nat : y = x + d
  <2>1. y - x \in Nat /\ y = x + (y - x)
    OBVIOUS
  <2>2. QED
    BY <2>1
<1>2. y * c = x * c + d * c /\ d * c \in Nat
  BY <1>1
<1>3. QED
  BY <1>2

\* Near places are on latitudes no more than the radius apart.
LEMMA NearInLatitude ==
  ASSUME NEW a \in Globe, NEW b \in Globe, Proximity!Near(a, b)
  PROVE  Proximity!Gap(a.lat, b.lat) <= Radius /\ Proximity!Gap(a.lat, b.lat) \in 0 .. HalfWorld
<1>1. /\ HalfWorld \in Nat /\ Radius \in 1 .. HalfWorld
      /\ Hav \in [0 .. HalfWorld -> Nat]
      /\ \A c, d \in 0 .. HalfWorld : c < d => Hav[c] < Hav[d]
      /\ \A lat \in Proximity!Latitudes : Proximity!Cos(lat) \in Nat
  BY SphereAssumption DEF Proximity!Spherical
<1>2. /\ a.lat \in Proximity!Latitudes /\ b.lat \in Proximity!Latitudes
      /\ a.lon \in -HalfWorld .. HalfWorld /\ b.lon \in -HalfWorld .. HalfWorld
  BY DEF Globe
<1>3. PICK gap, apart : gap = Proximity!Gap(a.lat, b.lat) /\ apart = Proximity!Apart(a, b)
  OBVIOUS
<1>4. gap \in 0 .. HalfWorld
  <2>1. PICK q : q = HalfWorld \div 2
    OBVIOUS
  <2>2. q \in Nat /\ 2 * q <= HalfWorld
    BY <1>1, <2>1
  <2>3. a.lat \in -q .. q /\ b.lat \in -q .. q
    BY <1>2, <2>1 DEF Proximity!Latitudes, Proximity!Quarter
  <2>4. gap = IF a.lat > b.lat THEN a.lat - b.lat ELSE b.lat - a.lat
    BY <1>3 DEF Proximity!Gap
  <2>5. QED
    BY <1>1, <2>2, <2>3, <2>4
<1>5. apart \in 0 .. HalfWorld
  BY <1>1, <1>2, <1>3 DEF Proximity!Gap, Proximity!Apart
<1>6. PICK w : w = (Proximity!Cos(a.lat) * Proximity!Cos(b.lat)) \div 10000
  OBVIOUS
<1>7. w \in Nat
  <2>1. PICK f, g : f = Proximity!Cos(a.lat) /\ g = Proximity!Cos(b.lat)
    OBVIOUS
  <2>2. f \in Nat /\ g \in Nat
    BY <1>1, <1>2, <2>1
  <2>3. f * g \in Nat /\ w = (f * g) \div 10000
    BY <1>6, <2>1, <2>2
  <2>4. QED
    BY <2>3
<1>8. Hav[gap] * 10000 + w * Hav[apart] <= Hav[Radius] * 10000
  BY <1>3, <1>6 DEF Proximity!Near, Proximity!Chord, Proximity!One
<1>9. Hav[gap] \in Nat /\ Hav[apart] \in Nat /\ Hav[Radius] \in Nat
  BY <1>1, <1>4, <1>5
<1>10. w * Hav[apart] \in Nat
  BY <1>7, <1>9
<1>11. Hav[gap] <= Hav[Radius]
  BY <1>8, <1>9, <1>10
<1>12. ~(Hav[Radius] < Hav[gap])
  BY <1>9, <1>11
<1>13. ~(Radius < gap)
  BY <1>1, <1>4, <1>12
<1>14. QED
  BY <1>1, <1>3, <1>4, <1>13

\* The box around a position holds all that is near it and not on a meridian far away.
LEMMA BoxHoldsNear ==
  ASSUME NEW a \in Globe, NEW b \in Globe, Proximity!Near(a, b), ~Beyond(a, b)
  PROVE  Boxed(a, b)
<1>1. /\ HalfWorld \in Nat /\ Radius \in 1 .. HalfWorld
      /\ \A lat \in Proximity!Latitudes : Proximity!Cos(lat) \in Nat
  BY SphereAssumption DEF Proximity!Spherical
<1>2. /\ a.lat \in Proximity!Latitudes /\ b.lat \in Proximity!Latitudes
      /\ a.lon \in -HalfWorld .. HalfWorld /\ b.lon \in -HalfWorld .. HalfWorld
  BY DEF Globe
<1>3. Proximity!Gap(a.lat, b.lat) <= Radius /\ Proximity!Gap(a.lat, b.lat) \in 0 .. HalfWorld
  BY NearInLatitude
<1>4. Proximity!Gap(a.lat, b.lat) * Proximity!One <= Proximity!HalfWidth
  BY <1>1, <1>3 DEF Proximity!One, Proximity!HalfWidth
<1>5. PICK apart, across, cos : /\ apart = Proximity!Apart(a, b)
                                /\ across = Proximity!Gap(a.lon, b.lon)
                                /\ cos = Proximity!Cos(a.lat)
  OBVIOUS
<1>6. /\ across = IF a.lon > b.lon THEN a.lon - b.lon ELSE b.lon - a.lon
      /\ apart = IF across > HalfWorld THEN 2 * HalfWorld - across ELSE across
  BY <1>5 DEF Proximity!Apart, Proximity!Gap
<1>7. apart \in 0 .. HalfWorld /\ across \in Nat /\ cos \in Nat
  BY <1>1, <1>2, <1>5, <1>6
<1>8. CASE Proximity!WholeGlobe(a)
  BY <1>4, <1>8 DEF Boxed, Proximity!InLongitudeRange
<1>9. CASE ~Proximity!WholeGlobe(a)
  <2>1. ~(apart > Proximity!Narrow)
    BY <1>5, <1>9 DEF Beyond
  <2>2. (IF apart < Proximity!Narrow THEN apart ELSE Proximity!Narrow) * cos < Proximity!HalfWidth
    <3>1. \A lat1 \in Proximity!Latitudes :
            \A lat2 \in {z \in Proximity!Latitudes : Proximity!Gap(lat1, z) <= Radius} :
              \A d \in 0 .. HalfWorld :
                Proximity!Chord(lat1, lat2, d) <= Hav[Radius] * Proximity!One =>
                  (IF d < Proximity!Narrow THEN d ELSE Proximity!Narrow) * Proximity!Cos(lat1)
                    < Proximity!HalfWidth
      BY SphereAssumption, Zenon DEF Proximity!Spherical
    <3>2. Proximity!Chord(a.lat, b.lat, apart) <= Hav[Radius] * Proximity!One
      BY <1>5 DEF Proximity!Near
    <3>3. QED
      BY <1>2, <1>3, <1>5, <1>7, <3>1, <3>2, Zenon
  <2>3. Proximity!Narrow \in Int
    BY <1>1 DEF Proximity!Narrow
  <2>4. (IF apart < Proximity!Narrow THEN apart ELSE Proximity!Narrow) = apart
    BY <1>7, <2>1, <2>3
  <2>5. apart * cos < Proximity!HalfWidth
    BY <2>2, <2>4
  <2>6. Proximity!HalfWidth \in Int /\ apart * cos \in Int
    BY <1>1, <1>7 DEF Proximity!HalfWidth
  <2>7. CASE across <= HalfWorld
    <3>1. across * cos <= Proximity!HalfWidth
      BY <1>1, <1>6, <1>7, <2>5, <2>6, <2>7
    <3>2. QED
      BY <1>4, <1>5, <3>1 DEF Boxed, Proximity!InLongitudeRange
  <2>8. CASE ~(across <= HalfWorld)
    <3>1. /\ ~((HalfWorld + a.lon) * cos < Proximity!HalfWidth)
          /\ ~((HalfWorld - a.lon) * cos < Proximity!HalfWidth)
      BY <1>5, <1>9 DEF Proximity!WholeGlobe
    <3>2. HalfWorld - a.lon <= apart \/ HalfWorld + a.lon <= apart
      BY <1>1, <1>2, <1>6, <1>7, <2>8
    <3>3. HalfWorld - a.lon \in Int /\ HalfWorld + a.lon \in Int
      BY <1>1, <1>2
    <3>4. HalfWorld - a.lon <= apart => (HalfWorld - a.lon) * cos <= apart * cos
      BY <1>7, <3>3, TimesNat
    <3>5. HalfWorld + a.lon <= apart => (HalfWorld + a.lon) * cos <= apart * cos
      BY <1>7, <3>3, TimesNat
    <3>6. (HalfWorld - a.lon) * cos \in Int /\ (HalfWorld + a.lon) * cos \in Int
      BY <1>7, <3>3
    <3>7. QED
      BY <2>5, <2>6, <3>1, <3>2, <3>4, <3>5, <3>6
  <2>9. QED
    BY <2>7, <2>8
<1>10. QED
  BY <1>8, <1>9

\* The tree of an index has an entry for each position.
TreeOf(positions) == {[entity |-> x, pos |-> positions[x]] : x \in DOMAIN positions}

\* The reports of a call that are about x.
About(out, x) == {j \in DOMAIN out : out[j].b = x}

\* What the operator reports of an event: once each other entity that is near and boxed.
LEMMA ProximityOut ==
  ASSUME state.tree = TreeOf(state.positions), IsFiniteSet(DOMAIN state.positions),
         NEW e, NEW result, result = Proximity!Process(state, e)
  PROVE  /\ IsSeq(result.out)
         /\ \A x : x # e.entity =>
              IF x \in DOMAIN state.positions /\ Seen(e.pos, state.positions[x])
              THEN \E k \in DOMAIN result.out : About(result.out, x) = {k}
              ELSE About(result.out, x) = {}
<1>1. PICK positions : positions = state.positions
  OBVIOUS
<1>2. PICK alerts : alerts = {entry \in Proximity!QueryBox(state, e.pos) :
                               /\ entry.entity # e.entity
                               /\ entry.entity \in DOMAIN positions
                               /\ Proximity!Near(e.pos, positions[entry.entity])}
  OBVIOUS
<1>3. Proximity!QueryBox(state, e.pos) =
        {entry \in TreeOf(positions) : Boxed(e.pos, entry.pos)}
  BY <1>1 DEF Proximity!QueryBox, Boxed
<1>4. IsFiniteSet(alerts)
  <2>1. IsFiniteSet(TreeOf(positions))
    <3>1. PICK X : X = DOMAIN positions
      OBVIOUS
    <3>2. IsFiniteSet(X)
      BY <1>1, <3>1
    <3>3. PICK f : f = [x \in X |-> [entity |-> x, pos |-> positions[x]]]
      OBVIOUS
    <3>4. PICK Y : Y = {f[x] : x \in X}
      OBVIOUS
    <3>5. f \in Surjection(X, Y)
      <4>1. f \in [X -> Y]
        BY <3>3, <3>4
      <4>2. \A y \in Y : \E x \in X : f[x] = y
        BY <3>4
      <4>3. QED
        BY <4>1, <4>2 DEF Surjection
    <3>6. IsFiniteSet(Y)
      BY <3>2, <3>5, FS_Surjection
    <3>7. Y = TreeOf(positions)
      BY <3>1, <3>3, <3>4 DEF TreeOf
    <3>8. QED
      BY <3>6, <3>7
  <2>2. alerts \in SUBSET TreeOf(positions)
    BY <1>2, <1>3
  <2>3. QED
    BY <2>1, <2>2, FS_Subset
<1>5. PICK all : all = SetToSeq(alerts)
  OBVIOUS
<1>6. /\ IsSeq(all) /\ ToSet(all) = alerts
      /\ \A i, j \in DOMAIN all : all[i] = all[j] => i = j
  BY <1>4, <1>5, SetToSeqElements
<1>7. result.out = [k \in DOMAIN all |-> [a |-> e.entity, b |-> all[k].entity]]
  <2>1. Proximity!SetToSeq(alerts) = SetToSeq(alerts)
    <3>1. Proximity!Cardinality(alerts) = Cardinality(alerts)
      BY DEF Proximity!Cardinality, Cardinality
    <3>2. QED
      BY <3>1, Zenon DEF Proximity!SetToSeq, SetToSeq, Proximity!IsInjective, IsInjective
  <2>2. result = [state |-> Proximity!Update(state, e),
                  out   |-> [k \in DOMAIN Proximity!SetToSeq(alerts) |->
                               [a |-> e.entity, b |-> Proximity!SetToSeq(alerts)[k].entity]]]
    BY <1>1, <1>2 DEF Proximity!Process
  <2>3. QED
    BY <1>5, <2>1, <2>2
<1>8. IsSeq(result.out) /\ DOMAIN result.out = DOMAIN all
      /\ \A k \in DOMAIN all : result.out[k].b = all[k].entity
  <2>1. Len(all) \in Nat /\ DOMAIN all = 1 .. Len(all)
    BY <1>6, LenProperties DEF IsSeq
  <2>2. result.out = [k \in 1 .. Len(all) |-> result.out[k]]
    BY <1>7, <2>1
  <2>3. QED
    BY <1>7, <2>1, <2>2, FunctionSeq
<1>9. \A x : {r \in alerts : r.entity = x} =
        IF x # e.entity /\ x \in DOMAIN positions /\ Seen(e.pos, positions[x])
        THEN {[entity |-> x, pos |-> positions[x]]} ELSE {}
  <2>1. ASSUME NEW x
        PROVE  {r \in alerts : r.entity = x} =
                 IF x # e.entity /\ x \in DOMAIN positions /\ Seen(e.pos, positions[x])
                 THEN {[entity |-> x, pos |-> positions[x]]} ELSE {}
    <3>1. \A r \in alerts : r.entity = x =>
            /\ x # e.entity /\ x \in DOMAIN positions /\ Seen(e.pos, positions[x])
            /\ r = [entity |-> x, pos |-> positions[x]]
      BY <1>2, <1>3 DEF TreeOf, Seen
    <3>2. ASSUME x # e.entity, x \in DOMAIN positions, Seen(e.pos, positions[x])
          PROVE  [entity |-> x, pos |-> positions[x]] \in alerts
      <4>1. PICK r : r = [entity |-> x, pos |-> positions[x]]
        OBVIOUS
      <4>2. r \in TreeOf(positions) /\ r.entity = x /\ r.pos = positions[x]
        BY <3>2, <4>1 DEF TreeOf
      <4>3. r \in Proximity!QueryBox(state, e.pos)
        BY <1>3, <3>2, <4>2 DEF Seen
      <4>4. QED
        BY <1>2, <3>2, <4>1, <4>2, <4>3 DEF Seen
    <3>3. [entity |-> x, pos |-> positions[x]].entity = x
      OBVIOUS
    <3>4. QED
      BY <3>1, <3>2, <3>3
  <2>2. QED
    BY <2>1
<1>10. ASSUME NEW x, x # e.entity
       PROVE  IF x \in DOMAIN positions /\ Seen(e.pos, positions[x])
              THEN \E k \in DOMAIN result.out : About(result.out, x) = {k}
              ELSE About(result.out, x) = {}
  <2>1. About(result.out, x) = {j \in DOMAIN all : all[j].entity = x}
    BY <1>8 DEF About
  <2>2. \A j \in DOMAIN all : all[j] \in alerts
    BY <1>6, ToSetPlaces
  <2>3. CASE x \in DOMAIN positions /\ Seen(e.pos, positions[x])
    <3>1. PICK r : r = [entity |-> x, pos |-> positions[x]]
      OBVIOUS
    <3>2. {q \in alerts : q.entity = x} = {r}
      BY <1>9, <1>10, <2>3, <3>1
    <3>3. r \in ToSet(all)
      BY <1>6, <3>2
    <3>4. PICK k \in DOMAIN all : all[k] = r
      BY <3>3, ToSetPlaces
    <3>5. \A j \in DOMAIN all : all[j].entity = x <=> j = k
      BY <1>6, <2>2, <3>1, <3>2, <3>4
    <3>6. {j \in DOMAIN all : all[j].entity = x} = {k}
      BY <3>5
    <3>7. QED
      BY <1>8, <2>1, <2>3, <3>6
  <2>4. CASE ~(x \in DOMAIN positions /\ Seen(e.pos, positions[x]))
    <3>1. {q \in alerts : q.entity = x} = {}
      BY <1>9, <2>4
    <3>2. QED
      BY <2>1, <2>2, <2>4, <3>1
  <2>5. QED
    BY <2>3, <2>4
<1>11. QED
  BY <1>1, <1>8, <1>10

\* The last event of an entity, if no window closed since.
LastOpen(x) ==
  {m \in EventsOf(x) : SameWindow(m, Len(lineage)) /\ \A i \in EventsOf(x) : i <= m}

Due(x, n) == \E m \in LastBefore(x, n) : Seen(lineage[n].pos, lineage[m].pos)

\* The reports of the call n that are about x.
AlertsAbout(x, n) == {i \in DOMAIN reports : reports[i].at = n /\ reports[i].what.b = x}

Alerted(x, n) == Cardinality(AlertsAbout(x, n)) = IF Due(x, n) THEN 1 ELSE 0

\* The index has the last position in this window of each entity, its tree agrees
\* with that, and every event so far raised the alerts that were due.
IndexInv ==
  /\ state.tree = TreeOf(state.positions)
  /\ IsFiniteSet(DOMAIN state.positions)
  /\ \A x \in DOMAIN state.positions : LastOpen(x) # {}
  /\ \A x : \A m \in LastOpen(x) : x \in DOMAIN state.positions /\ state.positions[x] = lineage[m].pos

ProximityInv ==
  /\ IsSeq(lineage) /\ IsSeq(reports)
  /\ \A n \in Events : lineage[n].pos \in Globe
  /\ \A i \in DOMAIN reports : reports[i].at \in Events
  /\ IndexInv
  /\ \A n \in Events : \A x \in Entities \ {lineage[n].entity} : Alerted(x, n)

LEMMA ProximityInit == Init /\ kind = "proximity" => ProximityInv
<1> SUFFICES ASSUME Init, kind = "proximity" PROVE ProximityInv
  OBVIOUS
<1>1. lineage = << >> /\ reports = << >>
  BY DEF Init
<1>2. DOMAIN << >> = {} /\ IsSeq(<< >>)
  BY EmptyIsSeq
<1>3. Events = {} /\ \A x : EventsOf(x) = {}
  BY <1>1, <1>2 DEF Events, EventsOf
<1>4. state.tree = {} /\ state.positions = << >>
  BY DEF Init, Fresh, Proximity!Initial
<1>5. DOMAIN state.positions = {} /\ IsFiniteSet(DOMAIN state.positions)
  BY <1>2, <1>4, FS_EmptySet
<1>6. TreeOf(state.positions) = {}
  BY <1>5 DEF TreeOf
<1>7. IndexInv
  BY <1>3, <1>4, <1>5, <1>6 DEF IndexInv, LastOpen
<1>8. IsSeq(lineage) /\ IsSeq(reports) /\ DOMAIN reports = {}
  BY <1>1, <1>2
<1>9. QED
  BY <1>3, <1>7, <1>8 DEF ProximityInv

\* The alerts of an event do not change.
LEMMA AlertedStays ==
  ASSUME Len(lineage) \in Nat, Events \subseteq 1 .. Len(lineage),
         \A m \in 1 .. Len(lineage) : lineage'[m] = lineage[m],
         Events' \subseteq Events \cup {Len(lineage) + 1}, Events \subseteq Events',
         NEW n \in Events, NEW x,
         AlertsAbout(x, n)' = AlertsAbout(x, n), Alerted(x, n)
  PROVE  Alerted(x, n)'
<1>1. n \in 1 .. Len(lineage) /\ n \in Nat
  OBVIOUS
<1>2. \A m \in 1 .. n : lineage'[m] = lineage[m] /\ m \in Nat
  BY <1>1
<1>3. \A m \in 1 .. n : m \in Events' <=> m \in Events
  BY <1>1
<1>4. \A m \in 1 .. n : m \in EventsOf(x)' <=> m \in EventsOf(x)
  BY <1>2, <1>3 DEF EventsOf
<1>5. \A m \in Events' : m < n => m \in 1 .. n
  BY <1>1
<1>6. \A m \in EventsOf(x)' : m < n => m \in 1 .. n
  BY <1>5 DEF EventsOf
<1>7. \A m \in EventsOf(x) : m < n => m \in 1 .. n
  BY <1>1 DEF EventsOf
<1>8. \A m \in 1 .. n : SameWindow(m, n)' <=> SameWindow(m, n)
  <2>1. \A m \in 1 .. n : \A i \in m .. n : i \in 1 .. n
    BY <1>1
  <2>2. QED
    BY <1>2, <2>1 DEF SameWindow, Closed
<1>9. \A m : m \in LastBefore(x, n)' <=> m \in LastBefore(x, n)
  <2>1. ASSUME NEW m PROVE m \in LastBefore(x, n)' <=> m \in LastBefore(x, n)
    <3>1. m \in EventsOf(x)' /\ m < n <=> m \in EventsOf(x) /\ m < n
      BY <1>4, <1>6, <1>7
    <3>2. (\A i \in EventsOf(x)' : i < n => i <= m) <=> (\A i \in EventsOf(x) : i < n => i <= m)
      BY <1>4, <1>6, <1>7
    <3>3. QED
      BY <1>7, <1>8, <3>1, <3>2 DEF LastBefore
  <2>2. QED
    BY <2>1
<1>10. \A m \in LastBefore(x, n) : m \in 1 .. n
  BY <1>7 DEF LastBefore
<1>11. Due(x, n)' <=> Due(x, n)
  BY <1>1, <1>2, <1>9, <1>10 DEF Due
<1>12. QED
  BY <1>11, Zenon DEF Alerted

\* An event alerts once for each other entity that is near, and moves its own.
LEMMA ProximityProcess ==
  ASSUME OnTheGlobe, ProximityInv, kind = "proximity", NEW event,
         event.entity \in Entities, event.pos \in Globe, Process(event)
  PROVE  ProximityInv'
<1>0. PICK n : n = Len(lineage) + 1
  OBVIOUS
<1>1. PICK e : e = [id |-> n, entity |-> event.entity, ts |-> event.ts,
                    pos |-> event.pos, speed |-> event.speed]
  OBVIOUS
<1>2. PICK x0 : x0 = event.entity
  OBVIOUS
<1>3. e # Closed /\ e.entity = x0 /\ e.pos \in Globe /\ x0 \in Entities
  BY <1>1, <1>2 DEF Closed
<1>4. PICK result : result = Proximity!Process(state, e)
  OBVIOUS
<1>5. Called(e, result)
  BY <1>0, <1>1, <1>4 DEF Process, Processing
<1>6. /\ state.tree = TreeOf(state.positions) /\ IsFiniteSet(DOMAIN state.positions)
      /\ IsSeq(lineage) /\ IsSeq(reports)
  BY DEF ProximityInv, IndexInv
<1>8. /\ IsSeq(result.out)
      /\ \A x : x # x0 =>
           IF x \in DOMAIN state.positions /\ Seen(e.pos, state.positions[x])
           THEN \E k \in DOMAIN result.out : About(result.out, x) = {k}
           ELSE About(result.out, x) = {}
  BY <1>3, <1>4, <1>6, ProximityOut
<1>9. /\ IsSeq(lineage') /\ Len(lineage) \in Nat /\ Events \subseteq 1 .. Len(lineage)
      /\ Len(lineage') = n /\ lineage'[n] = e
      /\ \A m \in 1 .. Len(lineage) : lineage'[m] = lineage[m]
      /\ Events' = Events \cup {n}
      /\ IsSeq(reports') /\ Len(reports) \in Nat /\ Len(result.out) \in Nat
      /\ Len(reports') = Len(reports) + Len(result.out)
      /\ \A i \in 1 .. Len(reports) : reports'[i] = reports[i]
      /\ \A i \in 1 .. Len(result.out) :
           reports'[Len(reports) + i] = [at |-> n, what |-> result.out[i]]
  BY <1>0, <1>3, <1>5, <1>6, <1>8, CalledPlaces
<1>10. \A x : EventsOf(x)' = EventsOf(x) \cup (IF x = x0 THEN {n} ELSE {})
  BY <1>0, <1>3, <1>5, <1>6, <1>8, EventCalled
<1>11. \A x : EventsOf(x) \subseteq 1 .. Len(lineage)
  BY <1>9 DEF EventsOf
<1>12. /\ DOMAIN reports = 1 .. Len(reports) /\ DOMAIN reports' = 1 .. Len(reports')
       /\ DOMAIN result.out = 1 .. Len(result.out)
  BY <1>6, <1>8, <1>9, LenProperties DEF IsSeq
<1>13. \A m \in 1 .. Len(lineage) : SameWindow(m, n)' <=> SameWindow(m, Len(lineage))
  BY <1>0, <1>3, <1>9 DEF SameWindow
<1>14. \A x : x # x0 => LastOpen(x)' = LastOpen(x) /\ LastBefore(x, n)' = LastOpen(x)
  <2>1. ASSUME NEW x, x # x0 PROVE LastOpen(x)' = LastOpen(x) /\ LastBefore(x, n)' = LastOpen(x)
    <3>1. EventsOf(x)' = EventsOf(x) /\ \A m \in EventsOf(x) : m \in 1 .. Len(lineage) /\ m < n
      <4>1. EventsOf(x)' = EventsOf(x)
        BY <1>10, <2>1
      <4>2. \A m \in 1 .. Len(lineage) : m < n
        BY <1>0, <1>9
      <4>3. QED
        BY <1>11, <4>1, <4>2
    <3>2. \A m \in EventsOf(x) : SameWindow(m, n)' <=> SameWindow(m, Len(lineage))
      BY <1>13, <3>1
    <3>3. LastOpen(x)' = {m \in EventsOf(x)' : SameWindow(m, n)' /\ \A i \in EventsOf(x)' : i <= m}
      BY <1>9 DEF LastOpen
    <3>4. LastBefore(x, n)' = {m \in EventsOf(x)' : m < n /\ SameWindow(m, n)'
                                                   /\ \A i \in EventsOf(x)' : i < n => i <= m}
      BY DEF LastBefore
    <3>5. QED
      BY <3>1, <3>2, <3>3, <3>4 DEF LastOpen
  <2>2. QED
    BY <2>1
<1>15. LastOpen(x0)' = {n}
  <2>1. n \in EventsOf(x0)' /\ \A i \in EventsOf(x0)' : i <= n /\ (n <= i => i = n)
    BY <1>0, <1>9, <1>10, <1>11
  <2>2. SameWindow(n, n)'
    BY <1>0, <1>3, <1>9 DEF SameWindow
  <2>3. LastOpen(x0)' = {m \in EventsOf(x0)' : SameWindow(m, n)' /\ \A i \in EventsOf(x0)' : i <= m}
    BY <1>9 DEF LastOpen
  <2>4. QED
    BY <2>1, <2>2, <2>3
<1>16. PICK positions : positions = [x \in DOMAIN state.positions \cup {x0} |->
                                      IF x = x0 THEN e.pos ELSE state.positions[x]]
  OBVIOUS
<1>17. state'.positions = positions /\ state'.tree = TreeOf(positions)
  <2>1. PICK old : old = {entry \in state.tree :
                            /\ x0 \in DOMAIN state.positions
                            /\ entry = [entity |-> x0, pos |-> state.positions[x0]]}
    OBVIOUS
  <2>2. result.state = [tree |-> (state.tree \ old) \cup {[entity |-> x0, pos |-> e.pos]},
                        positions |-> positions]
    BY <1>3, <1>4, <1>16, <2>1 DEF Proximity!Process, Proximity!Update
  <2>3. state' = result.state
    BY <1>5 DEF Called
  <2>4. (TreeOf(state.positions) \ old) \cup {[entity |-> x0, pos |-> e.pos]} = TreeOf(positions)
    <3>1. \A r \in TreeOf(state.positions) : r \in old <=> r.entity = x0
      BY <1>6, <2>1 DEF TreeOf
    <3>2. \A x : x \in DOMAIN positions <=> x \in DOMAIN state.positions \/ x = x0
      BY <1>16
    <3>3. positions[x0] = e.pos /\ \A x \in DOMAIN state.positions : x # x0 => positions[x] = state.positions[x]
      BY <1>16
    <3>4. \A r : r \in TreeOf(positions)
            <=> \E x : (x \in DOMAIN state.positions \/ x = x0) /\ r = [entity |-> x, pos |-> positions[x]]
      BY <3>2 DEF TreeOf
    <3>5. \A r : r \in TreeOf(state.positions)
            <=> \E x \in DOMAIN state.positions : r = [entity |-> x, pos |-> state.positions[x]]
      BY DEF TreeOf
    <3>6. \A x, y : [entity |-> x, pos |-> y].entity = x
      OBVIOUS
    <3>7. QED
      BY <3>1, <3>3, <3>4, <3>5, <3>6
  <2>5. QED
    BY <1>6, <2>2, <2>3, <2>4
<1>18. IndexInv'
  <2>1. DOMAIN positions = DOMAIN state.positions \cup {x0}
    BY <1>16
  <2>2. IsFiniteSet(DOMAIN positions)
    BY <1>6, <2>1, FS_AddElement
  <2>3. \A x \in DOMAIN positions : LastOpen(x)' # {}
    BY <1>14, <1>15, <2>1 DEF ProximityInv, IndexInv
  <2>4. ASSUME NEW x, NEW m \in LastOpen(x)'
        PROVE  x \in DOMAIN positions /\ positions[x] = lineage'[m].pos
    <3>1. CASE x = x0
      BY <1>9, <1>15, <1>16, <3>1
    <3>2. CASE x # x0
      <4>1. m \in LastOpen(x) /\ m \in 1 .. Len(lineage)
        BY <1>11, <1>14, <3>2 DEF LastOpen
      <4>2. x \in DOMAIN state.positions /\ state.positions[x] = lineage[m].pos
        BY <4>1 DEF ProximityInv, IndexInv
      <4>3. QED
        BY <1>9, <1>16, <3>2, <4>1, <4>2
    <3>3. QED
      BY <3>1, <3>2
  <2>5. QED
    BY <1>17, <2>2, <2>3, <2>4 DEF IndexInv
<1>19. ASSUME NEW i \in DOMAIN reports'
       PROVE  i \in DOMAIN reports
              \/ \E k \in DOMAIN result.out : i = Len(reports) + k /\ reports'[i] = [at |-> n, what |-> result.out[k]]
  <2>1. CASE i \in 1 .. Len(reports)
    BY <1>12, <2>1
  <2>2. CASE i \notin 1 .. Len(reports)
    <3>1. PICK k : k = i - Len(reports)
      OBVIOUS
    <3>2. k \in 1 .. Len(result.out) /\ i = Len(reports) + k
      BY <1>9, <1>12, <2>2, <3>1
    <3>3. reports'[i] = [at |-> n, what |-> result.out[k]]
      BY <1>9, <3>2
    <3>4. QED
      BY <1>12, <3>2, <3>3, Zenon
  <2>3. QED
    BY <2>1, <2>2
<1>20. ASSUME NEW m \in Events', NEW x \in Entities \ {lineage'[m].entity} PROVE Alerted(x, m)'
  <2>1. CASE m = n
    <3>1. x # x0
      BY <1>3, <1>9, <2>1
    <3>2. AlertsAbout(x, n)' = {Len(reports) + k : k \in About(result.out, x)}
      <4>1. \A i \in DOMAIN reports : i \in DOMAIN reports' /\ reports'[i] = reports[i] /\ reports'[i].at # n
        BY <1>0, <1>9, <1>12 DEF ProximityInv
      <4>2. \A i \in DOMAIN reports' : reports'[i].at = n =>
              \E k \in DOMAIN result.out : i = Len(reports) + k /\ reports'[i].what = result.out[k]
        <5>1. \A k \in DOMAIN result.out : [at |-> n, what |-> result.out[k]].what = result.out[k]
          OBVIOUS
        <5>2. QED
          BY <1>19, <4>1, <5>1, Zenon
      <4>3. \A k \in DOMAIN result.out :
              /\ Len(reports) + k \in DOMAIN reports'
              /\ reports'[Len(reports) + k].at = n /\ reports'[Len(reports) + k].what = result.out[k]
        <5>1. ASSUME NEW k \in DOMAIN result.out
              PROVE  /\ Len(reports) + k \in DOMAIN reports'
                     /\ reports'[Len(reports) + k].at = n /\ reports'[Len(reports) + k].what = result.out[k]
          <6>1. k \in 1 .. Len(result.out)
            BY <1>12
          <6>2. reports'[Len(reports) + k] = [at |-> n, what |-> result.out[k]]
            BY <1>9, <6>1
          <6>3. Len(reports) + k \in 1 .. Len(reports')
            BY <1>9, <6>1
          <6>4. QED
            BY <1>12, <6>2, <6>3
        <5>2. QED
          BY <5>1
      <4>4. QED
        BY <4>2, <4>3 DEF AlertsAbout, About
    <3>3. Due(x, n)' <=> x \in DOMAIN state.positions /\ Seen(e.pos, state.positions[x])
      <4>1. LastBefore(x, n)' = LastOpen(x) /\ lineage'[n].pos = e.pos
        BY <1>9, <1>14, <3>1
      <4>2. \A i \in LastOpen(x) : lineage'[i].pos = state.positions[x] /\ x \in DOMAIN state.positions
        <5>1. \A i \in LastOpen(x) : i \in 1 .. Len(lineage)
          BY <1>11 DEF LastOpen
        <5>2. QED
          BY <1>9, <5>1 DEF ProximityInv, IndexInv
      <4>3. x \in DOMAIN state.positions => LastOpen(x) # {}
        BY DEF ProximityInv, IndexInv
      <4>4. Due(x, n)' <=> \E i \in LastOpen(x) : Seen(e.pos, lineage'[i].pos)
        BY <4>1 DEF Due
      <4>5. QED
        BY <4>2, <4>3, <4>4
    <3>4. CASE x \in DOMAIN state.positions /\ Seen(e.pos, state.positions[x])
      <4>1. PICK k : About(result.out, x) = {k}
        BY <1>8, <3>1, <3>4
      <4>2. AlertsAbout(x, n)' = {Len(reports) + k}
        BY <3>2, <4>1
      <4>3. Cardinality(AlertsAbout(x, n)') = 1
        BY <4>2, FS_Singleton
      <4>4. QED
        BY <2>1, <3>3, <3>4, <4>3, Zenon DEF Alerted
    <3>5. CASE ~(x \in DOMAIN state.positions /\ Seen(e.pos, state.positions[x]))
      <4>1. About(result.out, x) = {}
        BY <1>8, <3>1, <3>5
      <4>2. AlertsAbout(x, n)' = {}
        BY <3>2, <4>1
      <4>3. Cardinality(AlertsAbout(x, n)') = 0
        BY <4>2, FS_EmptySet
      <4>4. QED
        BY <2>1, <3>3, <3>5, <4>3, Zenon DEF Alerted
    <3>6. QED
      BY <3>4, <3>5
  <2>2. CASE m # n
    <3>1. m \in Events /\ m \in 1 .. Len(lineage)
      BY <1>9, <2>2
    <3>2. Alerted(x, m)
      BY <1>9, <3>1 DEF ProximityInv
    <3>3. AlertsAbout(x, m)' = AlertsAbout(x, m)
      <4>1. \A i \in DOMAIN reports : i \in DOMAIN reports' /\ reports'[i] = reports[i]
        BY <1>9, <1>12
      <4>2. \A i \in DOMAIN reports' : i \notin DOMAIN reports => reports'[i].at = n
        <5>1. \A o : [at |-> n, what |-> o].at = n
          OBVIOUS
        <5>2. QED
          BY <1>19, <5>1, Zenon
      <4>3. QED
        BY <2>2, <4>1, <4>2 DEF AlertsAbout
    <3>4. Events' \subseteq Events \cup {Len(lineage) + 1} /\ Events \subseteq Events'
      BY <1>0, <1>9
    <3>5. QED
      BY <1>9, <3>1, <3>2, <3>3, <3>4, AlertedStays
  <2>3. QED
    BY <2>1, <2>2
<1>21. \A m \in Events' : lineage'[m].pos \in Globe
  BY <1>3, <1>9 DEF ProximityInv
<1>22. \A i \in DOMAIN reports' : reports'[i].at \in Events'
  <2>1. \A i \in DOMAIN reports : reports'[i].at \in Events'
    BY <1>9, <1>12 DEF ProximityInv
  <2>2. \A o : [at |-> n, what |-> o].at \in Events'
    BY <1>9
  <2>3. QED
    BY <1>19, <2>1, <2>2, Zenon
<1>23. QED
  BY <1>9, <1>18, <1>20, <1>21, <1>22, Zenon DEF ProximityInv

\* After a window closed the index is empty.
LEMMA ProximityClose ==
  ASSUME ProximityInv, kind = "proximity", WindowClose
  PROVE  ProximityInv'
<1>1. PICK result : result = Proximity!Close(state)
  OBVIOUS
<1>2. Called(Closed, result) /\ result.state = Proximity!Initial /\ result.out = << >>
  BY <1>1 DEF WindowClose, Closing, Proximity!Close
<1>3. IsSeq(lineage) /\ IsSeq(reports) /\ IsSeq(result.out) /\ Len(result.out) = 0
  BY <1>2, EmptyIsSeq DEF ProximityInv
<1>4. PICK n : n = Len(lineage) + 1
  OBVIOUS
<1>5. /\ IsSeq(lineage') /\ Len(lineage) \in Nat /\ Events \subseteq 1 .. Len(lineage)
      /\ Len(lineage') = n /\ lineage'[n] = Closed
      /\ \A m \in 1 .. Len(lineage) : lineage'[m] = lineage[m]
      /\ Events' = Events
      /\ IsSeq(reports') /\ Len(reports) \in Nat /\ Len(reports') = Len(reports) + Len(result.out)
      /\ \A i \in 1 .. Len(reports) : reports'[i] = reports[i]
  BY <1>2, <1>3, <1>4, CalledPlaces
<1>6. \A x : EventsOf(x)' = EventsOf(x)
  BY <1>2, <1>3, CloseCalled
<1>7. DOMAIN reports = 1 .. Len(reports) /\ DOMAIN reports' = 1 .. Len(reports)
  BY <1>3, <1>5, LenProperties DEF IsSeq
<1>8. \A x, m : AlertsAbout(x, m)' = AlertsAbout(x, m)
  <2>1. DOMAIN reports' = DOMAIN reports /\ \A i \in DOMAIN reports : reports'[i] = reports[i]
    BY <1>5, <1>7, Zenon
  <2>2. QED
    BY <2>1, Zenon DEF AlertsAbout
<1>9. \A x : LastOpen(x)' = {}
  <2>1. \A m \in 1 .. Len(lineage) : ~SameWindow(m, n)'
    BY <1>4, <1>5 DEF SameWindow
  <2>2. \A x : EventsOf(x)' \subseteq 1 .. Len(lineage)
    BY <1>5, <1>6 DEF EventsOf
  <2>3. \A x : \A m : m \notin LastOpen(x)'
    BY <1>5, <2>1, <2>2 DEF LastOpen
  <2>4. QED
    BY <2>3
<1>10. state'.tree = {} /\ state'.positions = << >>
  <2>1. state' = Proximity!Initial
    BY <1>2 DEF Called
  <2>2. QED
    BY <2>1 DEF Proximity!Initial
<1>11. IndexInv'
  <2>1. DOMAIN state'.positions = {}
    BY <1>10
  <2>2. IsFiniteSet(DOMAIN state'.positions) /\ TreeOf(state'.positions) = {}
    BY <2>1, FS_EmptySet DEF TreeOf
  <2>3. QED
    BY <1>9, <1>10, <2>1, <2>2 DEF IndexInv
<1>12. ASSUME NEW m \in Events', NEW x \in Entities \ {lineage'[m].entity} PROVE Alerted(x, m)'
  <2>1. m \in Events /\ m \in 1 .. Len(lineage)
    BY <1>5
  <2>2. Alerted(x, m)
    BY <1>5, <2>1 DEF ProximityInv
  <2>3. Events' \subseteq Events \cup {Len(lineage) + 1} /\ Events \subseteq Events'
    BY <1>5
  <2>4. AlertsAbout(x, m)' = AlertsAbout(x, m)
    BY <1>8
  <2>5. QED
    BY <1>5, <2>1, <2>2, <2>3, <2>4, AlertedStays
<1>13. \A m \in Events' : lineage'[m].pos \in Globe
  BY <1>5 DEF ProximityInv
<1>14. \A i \in DOMAIN reports' : reports'[i].at \in Events'
  <2>1. \A i \in DOMAIN reports' : i \in DOMAIN reports /\ reports'[i] = reports[i]
    BY <1>5, <1>7, Zenon
  <2>2. QED
    BY <1>5, <2>1, Zenon DEF ProximityInv
<1>15. QED
  BY <1>5, <1>11, <1>12, <1>13, <1>14, Zenon DEF ProximityInv

\* A restart builds the tree of the positions again.
LEMMA ProximityRestart ==
  ASSUME ProximityInv, kind = "proximity", Restart \/ UNCHANGED vars
  PROVE  ProximityInv'
<1>1. lineage' = lineage /\ reports' = reports
  BY DEF Restart, vars
<1>2. state'.positions = state.positions /\ state'.tree = TreeOf(state.positions)
  <2>1. CASE UNCHANGED vars
    BY <2>1 DEF vars, ProximityInv, IndexInv
  <2>2. CASE Restart
    <3>1. state' = Proximity!Restore(Proximity!Snapshot(state))
      BY <2>2 DEF Restart, Restored
    <3>2. QED
      BY <3>1 DEF Proximity!Restore, Proximity!Snapshot, TreeOf
  <2>3. QED
    BY <2>1, <2>2
<1>3. Events' = Events
  BY <1>1 DEF Events
<1>4. \A x : EventsOf(x)' = EventsOf(x)
  BY <1>1, <1>3 DEF EventsOf
<1>5. \A m, n : SameWindow(m, n)' <=> SameWindow(m, n)
  BY <1>1 DEF SameWindow
<1>6. \A x : LastOpen(x)' = LastOpen(x)
  BY <1>1, <1>4, <1>5 DEF LastOpen
<1>7. IndexInv'
  BY <1>1, <1>2, <1>6 DEF ProximityInv, IndexInv
<1>8. \A x, n : LastBefore(x, n)' = LastBefore(x, n)
  BY <1>4, <1>5 DEF LastBefore
<1>9. \A x, n : AlertsAbout(x, n)' = AlertsAbout(x, n)
  BY <1>1 DEF AlertsAbout
<1>10. \A x, n : Alerted(x, n)' <=> Alerted(x, n)
  BY <1>1, <1>8, <1>9 DEF Alerted, Due
<1>11. QED
  BY <1>1, <1>3, <1>7, <1>10 DEF ProximityInv

NeighboursInv == kind \in Kinds /\ (kind = "proximity" => ProximityInv)

\* Alerts for what is near and boxed are alerts for all that is near and not beyond.
LEMMA ProximityPromise == NeighboursInv => ProximityAlertsExact
<1> SUFFICES ASSUME ProximityInv, kind = "proximity",
                    NEW n \in Events, NEW x \in Entities \ {lineage[n].entity}
             PROVE  /\ Cardinality(AlertsAbout(x, n)) <= 1
                    /\ AlertsAbout(x, n) # {} =>
                         {m \in LastBefore(x, n) : Proximity!Near(lineage[n].pos, lineage[m].pos)} # {}
                    /\ \A m \in {i \in LastBefore(x, n) : Proximity!Near(lineage[n].pos, lineage[i].pos)} :
                         Beyond(lineage[n].pos, lineage[m].pos) \/ AlertsAbout(x, n) # {}
  BY Zenon DEF NeighboursInv, ProximityAlertsExact, AlertsAbout
<1>1. Cardinality(AlertsAbout(x, n)) = IF Due(x, n) THEN 1 ELSE 0
  BY Zenon DEF ProximityInv, Alerted
<1>2. IsFiniteSet(AlertsAbout(x, n))
  <2>1. Len(reports) \in Nat /\ DOMAIN reports = 1 .. Len(reports)
    BY LenProperties DEF ProximityInv, IsSeq
  <2>2. IsFiniteSet(1 .. Len(reports))
    BY <2>1, FS_Interval
  <2>3. AlertsAbout(x, n) \in SUBSET (1 .. Len(reports))
    BY <2>1 DEF AlertsAbout
  <2>4. QED
    BY <2>2, <2>3, FS_Subset
<1>3. AlertsAbout(x, n) = {} <=> Cardinality(AlertsAbout(x, n)) = 0
  BY <1>2, FS_EmptySet
<1>4. AlertsAbout(x, n) # {} <=> Due(x, n)
  BY <1>1, <1>3
<1>5. Cardinality(AlertsAbout(x, n)) <= 1
  BY <1>1
<1>6. AlertsAbout(x, n) # {} =>
        {m \in LastBefore(x, n) : Proximity!Near(lineage[n].pos, lineage[m].pos)} # {}
  BY <1>4 DEF Due, Seen
<1>7. ASSUME NEW m \in LastBefore(x, n), Proximity!Near(lineage[n].pos, lineage[m].pos),
             ~Beyond(lineage[n].pos, lineage[m].pos)
      PROVE  AlertsAbout(x, n) # {}
  <2>1. lineage[n].pos \in Globe /\ lineage[m].pos \in Globe
    BY DEF ProximityInv, LastBefore, EventsOf
  <2>2. Boxed(lineage[n].pos, lineage[m].pos)
    BY <1>7, <2>1, BoxHoldsNear
  <2>3. QED
    BY <1>4, <1>7, <2>2 DEF Due, Seen
<1>8. QED
  BY <1>5, <1>6, <1>7

LEMMA ProximityStep == OnTheGlobe /\ NeighboursInv /\ [Next]_vars => NeighboursInv'
<1> SUFFICES ASSUME OnTheGlobe, NeighboursInv, [Next]_vars PROVE NeighboursInv'
  OBVIOUS
<1>1. CASE \E event \in Inputs[kind] : Process(event)
  <2>1. PICK event \in Inputs[kind] : Process(event)
    BY <1>1
  <2>2. event.entity \in Entities /\ kind' = kind
    BY <2>1, InputsAssumption DEF NeighboursInv, Process, Called
  <2>3. kind = "proximity" => event.pos \in Globe
    BY <2>1 DEF NeighboursInv, OnTheGlobe
  <2>4. QED
    BY <2>1, <2>2, <2>3, ProximityProcess DEF NeighboursInv
<1>2. CASE WindowClose
  <2>1. kind' = kind
    BY <1>2 DEF WindowClose, Called
  <2>2. QED
    BY <1>2, <2>1, ProximityClose DEF NeighboursInv
<1>3. CASE Restart \/ UNCHANGED vars
  <2>1. kind' = kind
    BY <1>3 DEF Restart, vars
  <2>2. QED
    BY <1>3, <2>1, ProximityRestart DEF NeighboursInv
<1>4. QED
  BY <1>1, <1>2, <1>3 DEF Next

\* The box that is searched, as wide as the radius over the cosine of the latitude and
\* as high, misses no neighbour on a meridian up to 13 degrees away and none where the
\* whole globe is searched, and the tree agrees with the positions after every update,
\* window close and restart: an event raises one alert for each of these neighbours and
\* none for an entity that is no neighbour; in every behaviour in which all positions
\* are on the globe (longitude_range, ProximityOperator::process and restore of
\* proximity.rs, SpatialIndex of spatial_index.rs).
THEOREM NeighboursAreAlerted ==
  ASSUME OnTheGlobe PROVE Spec => []ProximityAlertsExact
<1>1. Init => NeighboursInv
  BY ProximityInit DEF NeighboursInv, Init
<1>2. NeighboursInv /\ [Next]_vars => NeighboursInv'
  BY ProximityStep
<1>3. NeighboursInv => ProximityAlertsExact
  BY ProximityPromise
<1>4. QED
  BY <1>1, <1>2, <1>3, PTL DEF Spec

(***************************************************************************)
(* Trajectories                                                            *)
(***************************************************************************)

Points == [ts : Nat, pos : {e.pos : e \in Inputs["trajectory"]}]

TrajectoryStates ==
  [points : [Entities -> Seq(Points)], lastMoving : [Entities -> Nat \cup {Trajectory!Never}],
   stopped : [Entities -> BOOLEAN]]

LastPoint(x) == state.points[x][Len(state.points[x])]

\* The event ends a fast leg.
Moves(e) ==
  state.points[e.entity] # << >> /\ Trajectory!Faster(LastPoint(e.entity), e, StopSpeed)

\* The event is reported as a stop.
StopsAt(e) ==
  /\ state.points[e.entity] # << >>
  /\ ~Trajectory!Faster(LastPoint(e.entity), e, StopSpeed)
  /\ e.ts - (IF state.lastMoving[e.entity] = Trajectory!Never THEN LastPoint(e.entity).ts
             ELSE state.lastMoving[e.entity]) >= StopSecs
  /\ ~state.stopped[e.entity]

\* The buffer ends with the point that was pushed.
LEMMA BufferedLast ==
  ASSUME MaxBuffer \in Nat \ {0}, NEW S, NEW before \in Seq(S), NEW point \in S,
         NEW after, after = Trajectory!Buffered(before, point)
  PROVE  after \in Seq(S) /\ after # << >> /\ after[Len(after)] = point
<1>1. PICK pushed \in Seq(S) : pushed = Append(before, point)
  BY AppendProperties
<1>2. Len(pushed) = Len(before) + 1 /\ pushed[Len(pushed)] = point /\ Len(before) \in Nat
  BY <1>1, AppendProperties
<1>3. after = IF Len(pushed) > MaxBuffer THEN Tail(pushed) ELSE pushed
  BY <1>1 DEF Trajectory!Buffered
<1>4. CASE Len(pushed) > MaxBuffer
  <2>1. pushed # << >> /\ Len(pushed) >= 2
    BY <1>2, <1>4
  <2>2. /\ Tail(pushed) \in Seq(S) /\ Len(Tail(pushed)) = Len(pushed) - 1
        /\ \A i \in 1 .. Len(Tail(pushed)) : Tail(pushed)[i] = pushed[i + 1]
    BY <2>1, HeadTailProperties
  <2>3. Tail(pushed)[Len(pushed) - 1] = pushed[Len(pushed)]
    BY <1>2, <2>1, <2>2
  <2>4. Tail(pushed) # << >>
    <3>1. Len(Tail(pushed)) >= 1
      BY <2>1, <2>2
    <3>2. PICK t : t = Tail(pushed)
      OBVIOUS
    <3>3. t = << >> => Len(t) = 0
      BY EmptyIsSeq
    <3>4. QED
      BY <3>1, <3>2, <3>3
  <2>5. QED
    BY <1>2, <1>3, <1>4, <2>2, <2>3, <2>4
<1>5. CASE ~(Len(pushed) > MaxBuffer)
  BY <1>1, <1>2, <1>3, <1>5
<1>6. QED
  BY <1>4, <1>5

\* Reports, in an order, and what is in them.
LEMMA FewReports ==
  /\ IsSeq(<< >>) /\ ToSet(<< >>) = {}
  /\ \A a : IsSeq(<<a>>) /\ ToSet(<<a>>) = {a}
  /\ \A a, b : IsSeq(<<a, b>>) /\ ToSet(<<a, b>>) = {a, b}
<1>1. \A a : IsSeq(<<a>>) /\ ToSet(<<a>>) = {a}
  BY DEF IsSeq, ToSet
<1>2. \A a, b : IsSeq(<<a, b>>) /\ ToSet(<<a, b>>) = {a, b}
  BY DEF IsSeq, ToSet
<1>3. QED
  BY <1>1, <1>2, EmptyIsSeq, ToSetEmpty

\* What the state after an event and its reports are.
Gives(e, result) ==
  /\ result.state \in TrajectoryStates
  /\ \A x \in Entities : x # e.entity =>
       /\ result.state.points[x] = state.points[x]
       /\ result.state.lastMoving[x] = state.lastMoving[x]
       /\ result.state.stopped[x] = state.stopped[x]
  /\ result.state.points[e.entity] # << >>
  /\ result.state.points[e.entity][Len(result.state.points[e.entity])] = [ts |-> e.ts, pos |-> e.pos]
  /\ result.state.lastMoving[e.entity] = IF Moves(e) THEN e.ts ELSE state.lastMoving[e.entity]
  /\ result.state.stopped[e.entity] =
       IF Moves(e) THEN FALSE ELSE IF StopsAt(e) THEN TRUE ELSE state.stopped[e.entity]
  /\ IsSeq(result.out)
  /\ \A o \in ToSet(result.out) : o.entity = e.entity /\ (o.type = "stop" => StopsAt(e))
  /\ StopsAt(e) => \E o \in ToSet(result.out) : o.type = "stop"

\* An event makes this of the state.
LEMMA TrajectoryOut ==
  ASSUME MaxBuffer \in Nat \ {0}, state \in TrajectoryStates,
         NEW e, e.entity \in Entities, e.ts \in Nat, e.pos \in {f.pos : f \in Inputs["trajectory"]},
         NEW result, result = Trajectory!Process(state, e)
  PROVE  Gives(e, result)
<1> DEFINE P == [Entities -> Seq(Points)]
           M == [Entities -> Nat \cup {Trajectory!Never}]
           B == [Entities -> BOOLEAN]
<1>1. PICK x0 : x0 = e.entity
  OBVIOUS
<1>2. PICK points \in P, lastMoving \in M, stopped \in B :
        state = [points |-> points, lastMoving |-> lastMoving, stopped |-> stopped]
  BY DEF TrajectoryStates
<1>3. PICK before : before = points[x0]
  OBVIOUS
<1>4. PICK point : point = [ts |-> e.ts, pos |-> e.pos]
  OBVIOUS
<1>5. point \in Points /\ before \in Seq(Points) /\ x0 \in Entities
  BY <1>1, <1>2, <1>3, <1>4 DEF Points
<1>6. PICK after : after = Trajectory!Buffered(before, point)
  OBVIOUS
<1>7. after \in Seq(Points) /\ after # << >> /\ after[Len(after)] = point
  <2>1. before \in Seq(Points) /\ point \in Points
    BY <1>5
  <2>2. QED
    BY <1>6, <2>1, BufferedLast, Zenon
<1>8. PICK pushed : pushed = [state EXCEPT !.points[x0] = after]
  OBVIOUS
<1>9. PICK Q : Q = [points EXCEPT ![x0] = after]
  OBVIOUS
<1>10. Q \in P /\ Q[x0] = after /\ \A x \in Entities : x # x0 => Q[x] = points[x]
  BY <1>2, <1>5, <1>7, <1>9
<1> HIDE DEF P, M, B
<1>11. pushed = [points |-> Q, lastMoving |-> lastMoving, stopped |-> stopped]
  BY <1>2, <1>8, <1>9
<1>12. PICK prev : prev = before[Len(before)]
  OBVIOUS
<1>13. state.points = points /\ state.lastMoving = lastMoving /\ state.stopped = stopped
  BY <1>2
<1>14. LastPoint(x0) = prev
  BY <1>3, <1>12, <1>13 DEF LastPoint
<1>15. \A speed : Trajectory!Faster(prev, point, speed) <=> Trajectory!Faster(prev, e, speed)
  <2>1. point.ts = e.ts /\ point.pos = e.pos
    BY <1>4
  <2>2. QED
    BY <2>1 DEF Trajectory!Faster
<1>16. Moves(e) <=> before # << >> /\ Trajectory!Faster(prev, point, StopSpeed)
  BY <1>1, <1>3, <1>13, <1>14, <1>15 DEF Moves
<1>17. StopsAt(e) <=> before # << >> /\ ~Trajectory!Faster(prev, point, StopSpeed)
                     /\ Trajectory!Stops(pushed, e, prev)
  BY <1>1, <1>3, <1>11, <1>13, <1>14, <1>15
  DEF StopsAt, Trajectory!Stops, Trajectory!StillSince
<1>18. PICK update, stop, odd, anomaly :
         /\ update = Trajectory!Report("update", x0, Len(pushed.points[x0]))
         /\ stop = Trajectory!Report("stop", x0, 0)
         /\ odd = Trajectory!Report("speed_anomaly", x0, 0)
         /\ anomaly = IF Trajectory!Faster(prev, point, MaxSpeed) THEN <<odd>> ELSE << >>
  OBVIOUS
<1>19. /\ update.entity = x0 /\ update.type = "update" /\ stop.entity = x0 /\ stop.type = "stop"
       /\ odd.entity = x0 /\ odd.type = "speed_anomaly"
  BY <1>18 DEF Trajectory!Report
<1>20. IsSeq(anomaly) /\ ToSet(anomaly) \subseteq {odd}
  BY <1>18, FewReports
<1>21. /\ IsSeq(anomaly \o <<update>>) /\ ToSet(anomaly \o <<update>>) \subseteq {odd, update}
       /\ IsSeq(anomaly \o <<stop, update>>)
       /\ ToSet(anomaly \o <<stop, update>>) \subseteq {odd, stop, update}
       /\ stop \in ToSet(anomaly \o <<stop, update>>)
  <2>1. Joined(anomaly, <<update>>, anomaly \o <<update>>)
    BY <1>20, FewReports, ConcatPlaces
  <2>2. Joined(anomaly, <<stop, update>>, anomaly \o <<stop, update>>)
    BY <1>20, FewReports, ConcatPlaces
  <2>3. QED
    BY <1>20, <2>1, <2>2, FewReports DEF Joined
<1>22. result =
         IF before = << >>
         THEN [state |-> pushed, out |-> << >>]
         ELSE IF Trajectory!Faster(prev, point, StopSpeed)
         THEN [state |-> Trajectory!Moving(pushed, e), out |-> anomaly \o <<update>>]
         ELSE IF Trajectory!Stops(pushed, e, prev)
         THEN [state |-> Trajectory!Stopped(pushed, e), out |-> anomaly \o <<stop, update>>]
         ELSE [state |-> pushed, out |-> anomaly \o <<update>>]
  BY <1>1, <1>3, <1>4, <1>6, <1>8, <1>12, <1>13, <1>18 DEF Trajectory!Process
<1>23. PICK L, H : L = [lastMoving EXCEPT ![x0] = e.ts] /\ H = [stopped EXCEPT ![x0] = FALSE]
  OBVIOUS
<1>24. PICK G : G = [stopped EXCEPT ![x0] = TRUE]
  OBVIOUS
<1>25. /\ L \in M /\ L[x0] = e.ts /\ \A x \in Entities : x # x0 => L[x] = lastMoving[x]
       /\ H \in B /\ H[x0] = FALSE /\ \A x \in Entities : x # x0 => H[x] = stopped[x]
       /\ G \in B /\ G[x0] = TRUE /\ \A x \in Entities : x # x0 => G[x] = stopped[x]
  BY <1>2, <1>5, <1>23, <1>24 DEF M, B
<1>26. Trajectory!Moving(pushed, e) = [points |-> Q, lastMoving |-> L, stopped |-> H]
  <2>1. pushed.lastMoving = lastMoving /\ pushed.stopped = stopped
    BY <1>11
  <2>2. Trajectory!Moving(pushed, e) =
          [pushed EXCEPT !.lastMoving = [pushed.lastMoving EXCEPT ![x0] = e.ts],
                         !.stopped = [pushed.stopped EXCEPT ![x0] = FALSE]]
    BY <1>1, <1>11 DEF Trajectory!Moving
  <2>3. Trajectory!Moving(pushed, e) = [pushed EXCEPT !.lastMoving = L, !.stopped = H]
    BY <1>23, <2>1, <2>2, Zenon
  <2>4. QED
    BY <1>11, <2>3
<1>27. Trajectory!Stopped(pushed, e) = [points |-> Q, lastMoving |-> lastMoving, stopped |-> G]
  <2>1. pushed.stopped = stopped
    BY <1>11
  <2>2. Trajectory!Stopped(pushed, e) = [pushed EXCEPT !.stopped = [pushed.stopped EXCEPT ![x0] = TRUE]]
    BY <1>1, <1>11 DEF Trajectory!Stopped
  <2>3. Trajectory!Stopped(pushed, e) = [pushed EXCEPT !.stopped = G]
    BY <1>24, <2>1, <2>2, Zenon
  <2>4. QED
    BY <1>11, <2>3
<1>28. \A l \in M, h \in B : [points |-> Q, lastMoving |-> l, stopped |-> h] \in TrajectoryStates
  BY <1>10 DEF TrajectoryStates, P, M, B
<1>29. PICK l \in M, h \in B :
         /\ result.state = [points |-> Q, lastMoving |-> l, stopped |-> h]
         /\ l = IF Moves(e) THEN L ELSE lastMoving
         /\ h = IF Moves(e) THEN H ELSE IF StopsAt(e) THEN G ELSE stopped
  <2>1. CASE before = << >>
    BY <1>2, <1>11, <1>16, <1>17, <1>22, <2>1
  <2>2. CASE Moves(e)
    BY <1>16, <1>22, <1>25, <1>26, <2>2
  <2>3. CASE StopsAt(e)
    BY <1>2, <1>16, <1>17, <1>22, <1>25, <1>27, <2>3
  <2>4. CASE before # << >> /\ ~Moves(e) /\ ~StopsAt(e)
    BY <1>2, <1>11, <1>16, <1>17, <1>22, <2>4
  <2>5. QED
    BY <2>1, <2>2, <2>3, <2>4
<1>30. result.out = IF before = << >> THEN << >>
                    ELSE IF StopsAt(e) THEN anomaly \o <<stop, update>> ELSE anomaly \o <<update>>
  BY <1>17, <1>22
<1>31. /\ IsSeq(result.out)
       /\ \A o \in ToSet(result.out) : o.entity = x0 /\ (o.type = "stop" => StopsAt(e))
       /\ StopsAt(e) => \E o \in ToSet(result.out) : o.type = "stop"
  <2>1. CASE before = << >>
    BY <1>17, <1>30, <2>1, FewReports
  <2>2. CASE before # << >> /\ StopsAt(e)
    <3>1. result.out = anomaly \o <<stop, update>>
      BY <1>30, <2>2
    <3>2. QED
      BY <1>19, <1>21, <2>2, <3>1
  <2>3. CASE before # << >> /\ ~StopsAt(e)
    <3>1. result.out = anomaly \o <<update>>
      BY <1>30, <2>3
    <3>2. QED
      BY <1>19, <1>21, <2>3, <3>1
  <2>4. QED
    BY <2>1, <2>2, <2>3
<1>32. result.state.points = Q /\ result.state.lastMoving = l /\ result.state.stopped = h
  BY <1>29
<1>33. result.state \in TrajectoryStates
  BY <1>28, <1>29
<1>34. \A x \in Entities : x # x0 => l[x] = lastMoving[x] /\ h[x] = stopped[x]
  BY <1>25, <1>29
<1>35. l[x0] = (IF Moves(e) THEN e.ts ELSE lastMoving[x0])
       /\ h[x0] = IF Moves(e) THEN FALSE ELSE IF StopsAt(e) THEN TRUE ELSE stopped[x0]
  BY <1>25, <1>29
<1>36. QED
  BY <1>1, <1>4, <1>7, <1>10, <1>13, <1>31, <1>32, <1>33, <1>34, <1>35 DEF Gives

\* The measured legs of an entity, as a relation between calls.
MeasuredLeg(x, a, b) ==
  a \in EventsOf(x) /\ b \in EventsOf(x) /\ Leg(x, a, b) /\ SameWindow(a, b)

\* And the fast ones.
FastLeg(x, a, b) == MeasuredLeg(x, a, b) /\ Trajectory!Faster(lineage[a], lineage[b], StopSpeed)

StopPlaces(x) == {r.at : r \in {q \in Reported : q.what.type = "stop" /\ q.what.entity = x}}

\* The buffer of an entity ends with its last event in this window, and has no points
\* if there is none.
BufferEnds(x) ==
  /\ state.points[x] # << >> => LastOpen(x) # {}
  /\ \A m \in LastOpen(x) :
       /\ state.points[x] # << >>
       /\ LastPoint(x) = [ts |-> lineage[m].ts, pos |-> lineage[m].pos]

\* last_moving is the time of the last fast leg.
LastMoves(x) ==
  \/ /\ state.lastMoving[x] = Trajectory!Never
     /\ \A a, b : ~FastLeg(x, a, b)
  \/ \E a, b : /\ FastLeg(x, a, b) /\ state.lastMoving[x] = lineage[b].ts
               /\ \A c, d : FastLeg(x, c, d) => d <= b

\* There was a stop since the last fast leg.
StoppedSince(x) == \E r \in StopPlaces(x) : \A a, b : FastLeg(x, a, b) => b < r

\* A stop is an event of its entity and ends no fast leg.
StopsApart(x) == \A r \in StopPlaces(x) : r \in EventsOf(x) /\ \A a, b : FastLeg(x, a, b) => b # r

StoppedOnce(x) ==
  \A r, q \in StopPlaces(x) : r < q => \E a, b : FastLeg(x, a, b) /\ r <= a /\ b <= q

\* What was fast before a stop was long before it.
SlowBefore(x) ==
  InOrder(x) => \A r \in StopPlaces(x) : \A a, b :
    FastLeg(x, a, b) /\ b <= r => lineage[b].ts <= lineage[r].ts - StopSecs

\* Who moved and was slow for long was stopped.
StillFound(x) ==
  InOrder(x) => \A a, b, c, d :
    /\ FastLeg(x, a, b) /\ MeasuredLeg(x, c, d) /\ ~FastLeg(x, c, d)
    /\ b < d /\ lineage[d].ts - lineage[b].ts >= StopSecs
    /\ \A i, j : FastLeg(x, i, j) => ~(b < j /\ j < d)
    => \E r \in StopPlaces(x) : b < r /\ r <= d

\* What the state of the stop detection of an entity says.
StillInv(x) ==
  /\ LastMoves(x)
  /\ state.stopped[x] = StoppedSince(x)
  /\ StopsApart(x)
  /\ StoppedOnce(x)
  /\ SlowBefore(x)
  /\ StillFound(x)

TrajectoryInv ==
  /\ IsSeq(lineage) /\ IsSeq(reports)
  /\ \A n \in Events : lineage[n].ts \in Nat
  /\ state \in TrajectoryStates
  /\ \A x \in Entities : BufferEnds(x) /\ StillInv(x)

\* The legs so far do not change.
LEMMA LegsStay ==
  ASSUME Len(lineage) \in Nat, Events \subseteq 1 .. Len(lineage),
         \A m \in 1 .. Len(lineage) : lineage'[m] = lineage[m],
         NEW x, EventsOf(x)' = EventsOf(x) \/ EventsOf(x)' = EventsOf(x) \cup {Len(lineage) + 1}
  PROVE  \A a, b \in EventsOf(x) :
           (MeasuredLeg(x, a, b)' <=> MeasuredLeg(x, a, b)) /\ (FastLeg(x, a, b)' <=> FastLeg(x, a, b))
<1> SUFFICES ASSUME NEW a \in EventsOf(x), NEW b \in EventsOf(x)
             PROVE  (MeasuredLeg(x, a, b)' <=> MeasuredLeg(x, a, b)) /\ (FastLeg(x, a, b)' <=> FastLeg(x, a, b))
  OBVIOUS
<1>1. EventsOf(x) \subseteq 1 .. Len(lineage)
  BY DEF EventsOf
<1>2. \A i \in a .. b : i \in 1 .. Len(lineage) /\ lineage'[i] = lineage[i]
  BY <1>1
<1>3. SameWindow(a, b)' <=> SameWindow(a, b)
  BY <1>2 DEF SameWindow
<1>4. \A i \in a + 1 .. b - 1 : i \in EventsOf(x)' <=> i \in EventsOf(x)
  BY <1>1
<1>5. a \in EventsOf(x)' /\ b \in EventsOf(x)'
  OBVIOUS
<1>6. Leg(x, a, b)' <=> Leg(x, a, b)
  BY <1>4, <1>5 DEF Leg
<1>7. lineage'[a] = lineage[a] /\ lineage'[b] = lineage[b]
  BY <1>1
<1>8. MeasuredLeg(x, a, b)' <=> MeasuredLeg(x, a, b)
  BY <1>3, <1>5, <1>6 DEF MeasuredLeg
<1>9. QED
  BY <1>7, <1>8 DEF FastLeg

\* The one that an event adds begins at the last event of the entity.
LEMMA LegsGrow ==
  ASSUME Len(lineage) \in Nat, Events \subseteq 1 .. Len(lineage),
         NEW n, n = Len(lineage) + 1, Len(lineage') = n, lineage'[n] # Closed,
         \A m \in 1 .. Len(lineage) : lineage'[m] = lineage[m],
         NEW x, EventsOf(x)' = EventsOf(x) \cup {n}
  PROVE  /\ \A a : MeasuredLeg(x, a, n)' <=> a \in LastOpen(x)
         /\ \A b : ~MeasuredLeg(x, n, b)'
         /\ LastOpen(x)' = {n}
<1>1. EventsOf(x) \subseteq 1 .. Len(lineage) /\ n \notin EventsOf(x) /\ n \in EventsOf(x)'
  <2>1. EventsOf(x) \subseteq 1 .. Len(lineage)
    BY DEF EventsOf
  <2>2. n \notin 1 .. Len(lineage)
    OBVIOUS
  <2>3. QED
    BY <2>1, <2>2
<1>2. \A a \in EventsOf(x) : a \in 1 .. Len(lineage) /\ a \in Nat /\ a < n
  BY <1>1
<1>3. \A a \in EventsOf(x) : SameWindow(a, n)' <=> SameWindow(a, Len(lineage))
  <2>1. ASSUME NEW a \in EventsOf(x) PROVE SameWindow(a, n)' <=> SameWindow(a, Len(lineage))
    <3>1. \A i : i \in a .. n <=> i \in a .. Len(lineage) \/ i = n
      BY <1>2
    <3>2. \A i \in a .. Len(lineage) : lineage'[i] = lineage[i]
      BY <1>2
    <3>3. QED
      BY <3>1, <3>2 DEF SameWindow
  <2>2. QED
    BY <2>1
<1>4. \A a \in EventsOf(x) : Leg(x, a, n)' <=> \A i \in EventsOf(x) : i <= a
  <2>1. ASSUME NEW a \in EventsOf(x) PROVE Leg(x, a, n)' <=> \A i \in EventsOf(x) : i <= a
    <3>1. \A i \in EventsOf(x) : i <= a \/ i \in a + 1 .. n - 1
      BY <1>2
    <3>2. \A i \in a + 1 .. n - 1 : ~(i <= a) /\ i # n
      BY <1>2
    <3>3. Leg(x, a, n)' <=> \A i \in a + 1 .. n - 1 : i \notin EventsOf(x)'
      BY <1>1, <1>2 DEF Leg
    <3>4. QED
      BY <3>1, <3>2, <3>3
  <2>2. QED
    BY <2>1
<1>5. ~(n < n) /\ \A b \in EventsOf(x)' : ~(n < b)
  BY <1>2
<1>6. \A a : MeasuredLeg(x, a, n)' <=> a \in LastOpen(x)
  <2>1. \A a : MeasuredLeg(x, a, n)' => a \in EventsOf(x)
    BY <1>5 DEF MeasuredLeg, Leg
  <2>2. \A a \in EventsOf(x) : MeasuredLeg(x, a, n)' <=> Leg(x, a, n)' /\ SameWindow(a, n)'
    BY <1>1 DEF MeasuredLeg
  <2>3. \A a : a \in LastOpen(x) <=>
          a \in EventsOf(x) /\ SameWindow(a, Len(lineage)) /\ \A i \in EventsOf(x) : i <= a
    BY DEF LastOpen
  <2>4. QED
    BY <1>3, <1>4, <2>1, <2>2, <2>3
<1>7. \A b : ~MeasuredLeg(x, n, b)'
  BY <1>5 DEF MeasuredLeg, Leg
<1>8. LastOpen(x)' = {n}
  <2>1. \A i \in EventsOf(x)' : i <= n /\ (n <= i => i = n)
    BY <1>2
  <2>2. SameWindow(n, n)'
    BY DEF SameWindow
  <2>3. LastOpen(x)' = {m \in EventsOf(x)' : SameWindow(m, n)' /\ \A i \in EventsOf(x)' : i <= m}
    BY DEF LastOpen
  <2>4. QED
    BY <1>1, <2>1, <2>2, <2>3
<1>9. QED
  BY <1>6, <1>7, <1>8

\* What the state says of an entity to which nothing happens.
LEMMA StillStays ==
  ASSUME Len(lineage) \in Nat, Events \subseteq 1 .. Len(lineage),
         \A m \in 1 .. Len(lineage) : lineage'[m] = lineage[m],
         NEW x, EventsOf(x)' = EventsOf(x), StopPlaces(x)' = StopPlaces(x),
         state'.lastMoving[x] = state.lastMoving[x], state'.stopped[x] = state.stopped[x],
         StillInv(x)
  PROVE  StillInv(x)'
<1>1. \A m \in EventsOf(x) : lineage'[m] = lineage[m]
  BY DEF EventsOf
<1>2. \A a, b : (MeasuredLeg(x, a, b)' <=> MeasuredLeg(x, a, b)) /\ (FastLeg(x, a, b)' <=> FastLeg(x, a, b))
  <2>1. \A a, b : MeasuredLeg(x, a, b)' \/ MeasuredLeg(x, a, b) \/ FastLeg(x, a, b)' \/ FastLeg(x, a, b)
                 => a \in EventsOf(x) /\ b \in EventsOf(x)
    BY DEF MeasuredLeg, FastLeg
  <2>2. QED
    BY <2>1, LegsStay
<1>3. \A a, b : MeasuredLeg(x, a, b) \/ FastLeg(x, a, b) => lineage'[a] = lineage[a] /\ lineage'[b] = lineage[b]
  BY <1>1 DEF MeasuredLeg, FastLeg
<1>4. InOrder(x)' <=> InOrder(x)
  BY <1>1 DEF InOrder
<1>5. LastMoves(x)'
  BY <1>2, <1>3 DEF StillInv, LastMoves
<1>6. StoppedSince(x)' <=> StoppedSince(x)
  BY <1>2, Zenon DEF StoppedSince
<1>7. state'.stopped[x] = StoppedSince(x)'
  <2>1. state.stopped[x] = StoppedSince(x)
    BY DEF StillInv
  <2>2. StoppedSince(x) \in BOOLEAN /\ StoppedSince(x)' \in BOOLEAN
    BY DEF StoppedSince
  <2>3. QED
    BY <1>6, <2>1, <2>2, Zenon
<1>8. StopsApart(x)' /\ StoppedOnce(x)'
  BY <1>2 DEF StillInv, StopsApart, StoppedOnce
<1>9. SlowBefore(x)'
  <2>1. \A r \in StopPlaces(x) : lineage'[r] = lineage[r]
    BY <1>1 DEF StillInv, StopsApart
  <2>2. QED
    BY <1>2, <1>3, <1>4, <2>1 DEF StillInv, SlowBefore
<1>10. StillFound(x)'
  BY <1>2, <1>3, <1>4 DEF StillInv, StillFound
<1>11. QED
  BY <1>5, <1>7, <1>8, <1>9, <1>10 DEF StillInv

\* What the state says of the entity of an event: the leg it ends is fast, or slow and
\* a stop, or neither.
LEMMA StillMoves ==
  ASSUME StopSecs \in Nat, Len(lineage) \in Nat, Events \subseteq 1 .. Len(lineage),
         \A m \in Events : lineage[m].ts \in Nat,
         NEW n, n = Len(lineage) + 1, Len(lineage') = n,
         NEW e, e = lineage'[n], e # Closed, e.ts \in Nat,
         \A m \in 1 .. Len(lineage) : lineage'[m] = lineage[m],
         NEW x, EventsOf(x)' = EventsOf(x) \cup {n},
         NEW moves \in BOOLEAN, NEW stops \in BOOLEAN,
         moves <=> \E m \in LastOpen(x) : Trajectory!Faster(lineage[m], e, StopSpeed),
         stops <=> /\ ~moves /\ ~state.stopped[x]
                   /\ \E m \in LastOpen(x) :
                        e.ts - (IF state.lastMoving[x] = Trajectory!Never THEN lineage[m].ts
                                ELSE state.lastMoving[x]) >= StopSecs,
         StopPlaces(x)' = StopPlaces(x) \cup (IF stops THEN {n} ELSE {}),
         state'.lastMoving[x] = (IF moves THEN e.ts ELSE state.lastMoving[x]),
         state'.stopped[x] = (IF moves THEN FALSE ELSE IF stops THEN TRUE ELSE state.stopped[x]),
         state.stopped[x] \in BOOLEAN, StillInv(x)
  PROVE  StillInv(x)'
<1>1. EventsOf(x) \subseteq 1 .. Len(lineage) /\ EventsOf(x) \subseteq Events
  BY DEF EventsOf
<1>2. \A m \in EventsOf(x) : m \in Nat /\ m < n /\ lineage'[m] = lineage[m] /\ lineage[m].ts \in Nat
  BY <1>1
<1>3. n \in Nat /\ n \notin EventsOf(x) /\ n \in EventsOf(x)'
  BY <1>2
<1>4. \A a, b \in EventsOf(x) :
        (MeasuredLeg(x, a, b)' <=> MeasuredLeg(x, a, b)) /\ (FastLeg(x, a, b)' <=> FastLeg(x, a, b))
  BY LegsStay
<1>5. /\ \A a : MeasuredLeg(x, a, n)' <=> a \in LastOpen(x)
      /\ \A b : ~MeasuredLeg(x, n, b)'
  BY LegsGrow
<1>6. \A a, b : MeasuredLeg(x, a, b) => a \in EventsOf(x) /\ b \in EventsOf(x) /\ a < b
  BY DEF MeasuredLeg, Leg
<1>7. \A a, b : FastLeg(x, a, b) => MeasuredLeg(x, a, b)
  BY DEF FastLeg
<1>8. \A a, b : MeasuredLeg(x, a, b)' <=> MeasuredLeg(x, a, b) \/ (b = n /\ a \in LastOpen(x))
  <2>1. \A a, b : MeasuredLeg(x, a, b)' => a \in EventsOf(x)' /\ b \in EventsOf(x)'
    BY DEF MeasuredLeg
  <2>2. QED
    BY <1>3, <1>4, <1>5, <1>6, <2>1
<1>9. \A a, b \in LastOpen(x) : a = b /\ a \in EventsOf(x)
  <2>1. \A a, b \in LastOpen(x) : a \in EventsOf(x) /\ b \in EventsOf(x) /\ a <= b /\ b <= a
    BY DEF LastOpen
  <2>2. QED
    BY <1>2, <2>1
<1>10. \A a, b : FastLeg(x, a, b)' <=> FastLeg(x, a, b) \/ (b = n /\ a \in LastOpen(x) /\ moves)
  <2>1. ASSUME NEW a, NEW b
        PROVE  FastLeg(x, a, b)' <=> FastLeg(x, a, b) \/ (b = n /\ a \in LastOpen(x) /\ moves)
    <3>1. CASE b = n
      <4>1. ~FastLeg(x, a, b)
        BY <1>3, <1>6, <1>7, <3>1
      <4>2. a \in LastOpen(x) => lineage'[a] = lineage[a]
        BY <1>2, <1>9
      <4>3. FastLeg(x, a, n)' <=> a \in LastOpen(x) /\ Trajectory!Faster(lineage'[a], e, StopSpeed)
        BY <1>5 DEF FastLeg
      <4>4. a \in LastOpen(x) => (moves <=> Trajectory!Faster(lineage[a], e, StopSpeed))
        BY <1>9
      <4>5. QED
        BY <3>1, <4>1, <4>2, <4>3, <4>4
    <3>2. CASE b # n
      <4>1. FastLeg(x, a, b)' => MeasuredLeg(x, a, b)'
        BY DEF FastLeg
      <4>2. FastLeg(x, a, b)' => a \in EventsOf(x) /\ b \in EventsOf(x)
        BY <1>6, <1>8, <3>2, <4>1
      <4>3. FastLeg(x, a, b) => a \in EventsOf(x) /\ b \in EventsOf(x)
        BY <1>6, <1>7
      <4>4. QED
        BY <1>4, <3>2, <4>2, <4>3
    <3>3. QED
      BY <3>1, <3>2
  <2>2. QED
    BY <2>1
<1>11. \A a, b : FastLeg(x, a, b) => a \in EventsOf(x) /\ b \in EventsOf(x) /\ a < b /\ b < n
  BY <1>2, <1>6, <1>7
<1>12. \A r \in StopPlaces(x) : r \in EventsOf(x) /\ r < n /\ r \in Nat
  BY <1>2 DEF StillInv, StopsApart
<1>13. InOrder(x)' => InOrder(x) /\ \A m \in EventsOf(x) : lineage[m].ts <= e.ts
  BY <1>2, <1>3 DEF InOrder
<1>14. moves => (~stops /\ \E m : m \in LastOpen(x))
  OBVIOUS
<1>15. stops => \E m : m \in LastOpen(x)
  OBVIOUS
<1>16. LastMoves(x)'
  <2>1. CASE moves
    <3>1. PICK m : m \in LastOpen(x)
      BY <1>14, <2>1
    <3>2. FastLeg(x, m, n)' /\ state'.lastMoving[x] = lineage'[n].ts
      BY <1>10, <2>1, <3>1
    <3>3. \A c, d : FastLeg(x, c, d)' => d <= n
      BY <1>2, <1>3, <1>10, <1>11
    <3>4. QED
      BY <3>2, <3>3, Zenon DEF LastMoves
  <2>2. CASE ~moves
    <3>1. \A a, b : FastLeg(x, a, b)' <=> FastLeg(x, a, b)
      BY <1>10, <2>2
    <3>2. \A a, b : FastLeg(x, a, b) => lineage'[b] = lineage[b]
      BY <1>2, <1>11
    <3>3. state'.lastMoving[x] = state.lastMoving[x] /\ LastMoves(x)
      BY <2>2 DEF StillInv
    <3>4. QED
      BY <3>1, <3>2, <3>3 DEF LastMoves
  <2>3. QED
    BY <2>1, <2>2
<1>17. StoppedSince(x)' <=> (~moves /\ (stops \/ StoppedSince(x)))
  <2>1. CASE moves
    <3>1. PICK m : FastLeg(x, m, n)'
      BY <1>10, <1>14, <2>1
    <3>2. StopPlaces(x)' = StopPlaces(x) /\ \A r \in StopPlaces(x) : ~(n < r)
      BY <1>12, <1>14, <2>1, <1>3
    <3>3. ~StoppedSince(x)'
      BY <3>1, <3>2, Zenon DEF StoppedSince
    <3>4. QED
      BY <2>1, <3>3
  <2>2. CASE ~moves /\ stops
    <3>1. n \in StopPlaces(x)' /\ \A a, b : FastLeg(x, a, b)' => b < n
      BY <1>10, <1>11, <2>2
    <3>2. StoppedSince(x)'
      BY <3>1, Zenon DEF StoppedSince
    <3>3. QED
      BY <2>2, <3>2
  <2>3. CASE ~moves /\ ~stops
    <3>1. StopPlaces(x)' = StopPlaces(x) /\ \A a, b : FastLeg(x, a, b)' <=> FastLeg(x, a, b)
      BY <1>10, <2>3
    <3>2. StoppedSince(x)' <=> StoppedSince(x)
      BY <3>1, Zenon DEF StoppedSince
    <3>3. QED
      BY <2>3, <3>2
  <2>4. QED
    BY <2>1, <2>2, <2>3
<1>18. state'.stopped[x] = StoppedSince(x)'
  <2>1. StoppedSince(x) \in BOOLEAN /\ StoppedSince(x)' \in BOOLEAN /\ state.stopped[x] = StoppedSince(x)
    BY DEF StoppedSince, StillInv
  <2>2. CASE moves
    BY <1>17, <2>1, <2>2
  <2>3. CASE ~moves /\ stops
    BY <1>17, <2>1, <2>3
  <2>4. CASE ~moves /\ ~stops
    BY <1>17, <2>1, <2>4
  <2>5. QED
    BY <2>2, <2>3, <2>4
<1>19. StopsApart(x)'
  <2>1. ASSUME NEW r \in StopPlaces(x)', NEW a, NEW b, FastLeg(x, a, b)' PROVE b # r
    <3>1. CASE r = n /\ r \notin StopPlaces(x)
      <4>1. ~moves
        BY <1>14, <2>1, <3>1
      <4>2. FastLeg(x, a, b)
        BY <1>10, <2>1, <4>1
      <4>3. QED
        BY <1>2, <1>11, <3>1, <4>2
    <3>2. CASE r \in StopPlaces(x)
      <4>1. CASE FastLeg(x, a, b)
        BY <3>2, <4>1 DEF StillInv, StopsApart
      <4>2. CASE b = n
        BY <1>12, <1>3, <3>2, <4>2
      <4>3. QED
        BY <1>10, <2>1, <4>1, <4>2
    <3>3. QED
      BY <2>1, <3>1, <3>2
  <2>2. \A r \in StopPlaces(x)' : r \in EventsOf(x)'
    BY <1>3, <1>12
  <2>3. QED
    BY <2>1, <2>2 DEF StopsApart
<1>20. StoppedOnce(x)'
  <2>1. ASSUME NEW r \in StopPlaces(x)', NEW q \in StopPlaces(x)', r < q
        PROVE  \E a, b : FastLeg(x, a, b)' /\ r <= a /\ b <= q
    <3>1. r \in StopPlaces(x)
      BY <1>3, <1>12, <2>1
    <3>2. CASE q \in StopPlaces(x)
      <4>1. \E a, b : FastLeg(x, a, b) /\ r <= a /\ b <= q
        BY <2>1, <3>1, <3>2 DEF StillInv, StoppedOnce
      <4>2. QED
        BY <1>10, <4>1
    <3>3. CASE q \notin StopPlaces(x)
      <4>1. q = n /\ stops
        BY <2>1, <3>3
      <4>2. ~StoppedSince(x)
        BY <4>1 DEF StillInv
      <4>3. PICK a, b : FastLeg(x, a, b) /\ ~(b < r)
        BY <3>1, <4>2 DEF StoppedSince
      <4>4. b # r /\ r \in EventsOf(x)
        BY <3>1, <4>3 DEF StillInv, StopsApart
      <4>5. a \in Nat /\ b \in Nat /\ r \in Nat /\ a < b /\ b < n
        BY <1>2, <1>11, <1>12, <3>1, <4>3
      <4>6. \A i \in a + 1 .. b - 1 : i \notin EventsOf(x)
        BY <4>3 DEF FastLeg, MeasuredLeg, Leg
      <4>7. r <= a
        BY <4>3, <4>4, <4>5, <4>6
      <4>8. b <= q
        BY <1>3, <4>1, <4>5
      <4>9. QED
        BY <1>10, <4>3, <4>7, <4>8
    <3>4. QED
      BY <3>2, <3>3
  <2>2. QED
    BY <2>1 DEF StoppedOnce
<1>21. SlowBefore(x)'
  <2>1. ASSUME InOrder(x)', NEW r \in StopPlaces(x)', NEW a, NEW b, FastLeg(x, a, b)', b <= r
        PROVE  lineage'[b].ts <= lineage'[r].ts - StopSecs
    <3>1. CASE r \in StopPlaces(x)
      <4>1. b # n
        BY <1>3, <1>12, <2>1, <3>1
      <4>2. FastLeg(x, a, b)
        BY <1>10, <2>1, <4>1
      <4>3. lineage[b].ts <= lineage[r].ts - StopSecs
        BY <1>13, <2>1, <3>1, <4>2 DEF StillInv, SlowBefore
      <4>4. b \in EventsOf(x) /\ r \in EventsOf(x)
        BY <1>11, <1>12, <3>1, <4>2
      <4>5. QED
        BY <1>2, <4>3, <4>4
    <3>2. CASE r \notin StopPlaces(x)
      <4>1. r = n /\ stops /\ ~moves
        BY <2>1, <3>2
      <4>2. FastLeg(x, a, b)
        BY <1>10, <2>1, <4>1
      <4>3. PICK c, d : /\ FastLeg(x, c, d) /\ state.lastMoving[x] = lineage[d].ts
                        /\ \A i, j : FastLeg(x, i, j) => j <= d
        BY <4>2 DEF StillInv, LastMoves
      <4>4. /\ d \in EventsOf(x) /\ b \in EventsOf(x) /\ b <= d
        BY <1>11, <4>2, <4>3
      <4>5. lineage[b].ts <= lineage[d].ts
        <5>1. CASE b = d
          BY <1>2, <4>4, <5>1
        <5>2. CASE b # d
          <6>1. b < d
            BY <1>2, <4>4, <5>2
          <6>2. QED
            BY <1>13, <2>1, <4>4, <6>1 DEF InOrder
        <5>3. QED
          BY <5>1, <5>2
      <4>6. lineage[d].ts \in Nat /\ lineage[b].ts \in Nat
        BY <1>2, <4>4
      <4>7. state.lastMoving[x] # Trajectory!Never
        BY <4>3, <4>6 DEF Trajectory!Never
      <4>8. e.ts - lineage[d].ts >= StopSecs
        BY <4>1, <4>3, <4>7
      <4>9. lineage'[b] = lineage[b] /\ lineage'[r] = e
        BY <1>2, <4>1, <4>4
      <4>10. QED
        BY <4>5, <4>6, <4>8, <4>9
    <3>3. QED
      BY <3>1, <3>2
  <2>2. QED
    BY <2>1 DEF SlowBefore
<1>22. StillFound(x)'
  <2>1. ASSUME InOrder(x)', NEW a, NEW b, NEW c, NEW d,
               FastLeg(x, a, b)', MeasuredLeg(x, c, d)', ~FastLeg(x, c, d)',
               b < d, lineage'[d].ts - lineage'[b].ts >= StopSecs,
               \A i, j : FastLeg(x, i, j)' => ~(b < j /\ j < d)
        PROVE  \E r \in StopPlaces(x)' : b < r /\ r <= d
    <3>1. CASE d # n
      <4>1. MeasuredLeg(x, c, d) /\ ~FastLeg(x, c, d)
        BY <1>8, <1>10, <2>1, <3>1
      <4>2. d \in EventsOf(x)
        BY <1>6, <4>1
      <4>3. b # n
        BY <1>2, <1>3, <2>1, <4>2
      <4>4. FastLeg(x, a, b)
        BY <1>10, <2>1, <4>3
      <4>5. b \in EventsOf(x)
        BY <1>11, <4>4
      <4>6. lineage[d].ts - lineage[b].ts >= StopSecs
        BY <1>2, <2>1, <4>2, <4>5
      <4>7. \A i, j : FastLeg(x, i, j) => ~(b < j /\ j < d)
        BY <1>10, <2>1
      <4>8. \E r \in StopPlaces(x) : b < r /\ r <= d
        BY <1>13, <2>1, <4>1, <4>4, <4>6, <4>7 DEF StillInv, StillFound
      <4>9. QED
        BY <4>8
    <3>2. CASE d = n
      <4>1. c \in LastOpen(x) /\ ~moves
        BY <1>3, <1>6, <1>8, <1>10, <2>1, <3>2
      <4>2. FastLeg(x, a, b)
        BY <1>10, <2>1, <4>1
      <4>3. PICK i, j : /\ FastLeg(x, i, j) /\ state.lastMoving[x] = lineage[j].ts
                        /\ \A k, l : FastLeg(x, k, l) => l <= j
        BY <4>2 DEF StillInv, LastMoves
      <4>4. b \in EventsOf(x) /\ j \in EventsOf(x)
        BY <1>11, <4>2, <4>3
      <4>5. j = b
        <5>1. b <= j
          BY <4>2, <4>3
        <5>2. ~(b < j)
          BY <1>10, <1>11, <2>1, <3>2, <4>3
        <5>3. QED
          BY <1>2, <4>4, <5>1, <5>2
      <4>6. lineage[b].ts \in Nat /\ lineage'[b] = lineage[b]
        BY <1>2, <4>4
      <4>7. state.lastMoving[x] # Trajectory!Never /\ e.ts - state.lastMoving[x] >= StopSecs
        BY <2>1, <3>2, <4>3, <4>5, <4>6 DEF Trajectory!Never
      <4>8. CASE state.stopped[x]
        <5>1. PICK r \in StopPlaces(x) : \A k, l : FastLeg(x, k, l) => l < r
          BY <4>8 DEF StillInv, StoppedSince
        <5>2. b < r /\ r <= n
          BY <1>12, <1>3, <4>2, <5>1
        <5>3. QED
          BY <3>2, <5>1, <5>2
      <4>9. CASE ~state.stopped[x]
        <5>1. stops
          BY <4>1, <4>7, <4>9
        <5>2. n \in StopPlaces(x)' /\ n <= n
          BY <1>3, <5>1
        <5>3. QED
          BY <2>1, <3>2, <5>2
      <4>10. QED
        BY <4>8, <4>9
    <3>3. QED
      BY <3>1, <3>2
  <2>2. QED
    BY <2>1 DEF StillFound
<1>23. QED
  BY <1>16, <1>18, <1>19, <1>20, <1>21, <1>22 DEF StillInv

LEMMA TrajectoryInit == Init /\ kind = "trajectory" => TrajectoryInv
<1> SUFFICES ASSUME Init, kind = "trajectory" PROVE TrajectoryInv
  OBVIOUS
<1>1. lineage = << >> /\ reports = << >>
  BY DEF Init
<1>2. DOMAIN << >> = {} /\ IsSeq(<< >>)
  BY EmptyIsSeq
<1>3. Events = {} /\ Reported = {} /\ \A x : EventsOf(x) = {}
  BY <1>1, <1>2 DEF Events, Reported, EventsOf
<1>4. state = [points |-> [x \in Entities |-> << >>], lastMoving |-> [x \in Entities |-> Trajectory!Never],
               stopped |-> [x \in Entities |-> FALSE]]
  BY DEF Init, Fresh, Trajectory!Initial
<1>5. state \in TrajectoryStates
  <2>1. << >> \in Seq(Points)
    OBVIOUS
  <2>2. [x \in Entities |-> << >>] \in [Entities -> Seq(Points)]
    BY <2>1
  <2>3. QED
    BY <1>4, <2>2 DEF TrajectoryStates
<1>6. \A x : LastOpen(x) = {} /\ StopPlaces(x) = {} /\ \A a, b : ~FastLeg(x, a, b)
  BY <1>3 DEF LastOpen, StopPlaces, FastLeg, MeasuredLeg
<1>7. ASSUME NEW x \in Entities PROVE BufferEnds(x) /\ StillInv(x)
  <2>1. state.points[x] = << >> /\ state.lastMoving[x] = Trajectory!Never /\ state.stopped[x] = FALSE
    BY <1>4
  <2>2. BufferEnds(x)
    BY <1>6, <2>1 DEF BufferEnds
  <2>3. LastMoves(x) /\ StopsApart(x) /\ StoppedOnce(x) /\ SlowBefore(x) /\ StillFound(x)
    BY <1>6, <2>1 DEF LastMoves, StopsApart, StoppedOnce, SlowBefore, StillFound
  <2>4. StoppedSince(x) = FALSE
    BY <1>6 DEF StoppedSince
  <2>5. QED
    BY <2>1, <2>2, <2>3, <2>4, Zenon DEF StillInv
<1>8. IsSeq(lineage) /\ IsSeq(reports)
  BY <1>1, <1>2
<1>9. QED
  BY <1>3, <1>5, <1>7, <1>8 DEF TrajectoryInv

\* An event is pushed to the buffer of its entity, and its leg moves or stops it.
LEMMA TrajectoryProcess ==
  ASSUME MaxBuffer \in Nat \ {0}, StopSecs \in Nat, TrajectoryInv, kind = "trajectory",
         NEW event \in Inputs["trajectory"], event.entity \in Entities, event.ts \in Nat, Process(event)
  PROVE  TrajectoryInv'
<1>0. PICK n : n = Len(lineage) + 1
  OBVIOUS
<1>1. PICK e : e = [id |-> n, entity |-> event.entity, ts |-> event.ts,
                    pos |-> event.pos, speed |-> event.speed]
  OBVIOUS
<1>2. PICK x0 : x0 = event.entity
  OBVIOUS
<1>3. /\ e # Closed /\ e.entity = x0 /\ e.ts \in Nat /\ x0 \in Entities
      /\ e.pos \in {f.pos : f \in Inputs["trajectory"]}
  BY <1>1, <1>2 DEF Closed
<1>4. PICK result : result = Trajectory!Process(state, e)
  OBVIOUS
<1>5. Called(e, result)
  BY <1>0, <1>1, <1>4 DEF Process, Processing
<1>6. /\ state \in TrajectoryStates /\ IsSeq(lineage) /\ IsSeq(reports)
      /\ \A m \in Events : lineage[m].ts \in Nat
  BY DEF TrajectoryInv
<1>7. /\ result.state \in TrajectoryStates
      /\ \A x \in Entities : x # x0 =>
           /\ result.state.points[x] = state.points[x]
           /\ result.state.lastMoving[x] = state.lastMoving[x]
           /\ result.state.stopped[x] = state.stopped[x]
      /\ result.state.points[x0] # << >>
      /\ result.state.points[x0][Len(result.state.points[x0])] = [ts |-> e.ts, pos |-> e.pos]
      /\ result.state.lastMoving[x0] = IF Moves(e) THEN e.ts ELSE state.lastMoving[x0]
      /\ result.state.stopped[x0] = IF Moves(e) THEN FALSE ELSE IF StopsAt(e) THEN TRUE ELSE state.stopped[x0]
      /\ IsSeq(result.out)
      /\ \A o \in ToSet(result.out) : o.entity = x0 /\ (o.type = "stop" => StopsAt(e))
      /\ StopsAt(e) => \E o \in ToSet(result.out) : o.type = "stop"
  <2>1. Gives(e, result)
    BY <1>3, <1>4, <1>6, TrajectoryOut
  <2>2. QED
    BY <1>3, <2>1 DEF Gives
<1>8. /\ IsSeq(lineage') /\ Len(lineage) \in Nat /\ Events \subseteq 1 .. Len(lineage)
      /\ Len(lineage') = n /\ lineage'[n] = e
      /\ \A m \in 1 .. Len(lineage) : lineage'[m] = lineage[m]
      /\ Events' = Events \cup {n} /\ IsSeq(reports')
      /\ Reported' = Reported \cup {[at |-> n, what |-> o] : o \in ToSet(result.out)}
  BY <1>0, <1>3, <1>5, <1>6, <1>7, CalledPlaces
<1>9. \A x : EventsOf(x)' = EventsOf(x) \cup (IF x = x0 THEN {n} ELSE {})
  BY <1>0, <1>3, <1>5, <1>6, <1>7, EventCalled
<1>10. \A x : EventsOf(x) \subseteq 1 .. Len(lineage) /\ EventsOf(x) \subseteq Events
  BY <1>8 DEF EventsOf
<1>11. state' = result.state
  BY <1>5 DEF Called
<1>12. \A x : StopPlaces(x)' = StopPlaces(x) \cup (IF x = x0 /\ StopsAt(e) THEN {n} ELSE {})
  <2>1. ASSUME NEW x, NEW q
        PROVE  q \in {[at |-> n, what |-> o] : o \in ToSet(result.out)}
                 /\ q.what.type = "stop" /\ q.what.entity = x => q.at = n /\ x = x0 /\ StopsAt(e)
    BY <1>7
  <2>2. ASSUME StopsAt(e) PROVE \E q \in {[at |-> n, what |-> o] : o \in ToSet(result.out)} :
                                  q.what.type = "stop" /\ q.what.entity = x0 /\ q.at = n
    <3>1. PICK o \in ToSet(result.out) : o.type = "stop" /\ o.entity = x0
      BY <1>7, <2>2
    <3>2. PICK q : q = [at |-> n, what |-> o]
      OBVIOUS
    <3>3. q.what = o /\ q.at = n
      BY <3>2
    <3>4. QED
      BY <3>1, <3>2, <3>3
  <2>3. PICK new : new = {[at |-> n, what |-> o] : o \in ToSet(result.out)}
    OBVIOUS
  <2>4. \A x : StopPlaces(x)' = StopPlaces(x) \cup {q.at : q \in {r \in new : r.what.type = "stop" /\ r.what.entity = x}}
    <3>1. Reported' = Reported \cup new
      BY <1>8, <2>3
    <3>2. QED
      BY <3>1 DEF StopPlaces
  <2>5. \A x : {q.at : q \in {r \in new : r.what.type = "stop" /\ r.what.entity = x}}
                = IF x = x0 /\ StopsAt(e) THEN {n} ELSE {}
    BY <2>1, <2>2, <2>3
  <2>6. QED
    BY <2>4, <2>5
<1>13. ASSUME NEW x \in Entities, x # x0 PROVE BufferEnds(x)' /\ StillInv(x)'
  <2>1. EventsOf(x)' = EventsOf(x) /\ StopPlaces(x)' = StopPlaces(x)
    BY <1>9, <1>12, <1>13
  <2>2. /\ state'.points[x] = state.points[x] /\ state'.lastMoving[x] = state.lastMoving[x]
        /\ state'.stopped[x] = state.stopped[x]
    BY <1>7, <1>11, <1>13
  <2>3. StillInv(x)'
    BY <1>8, <2>1, <2>2, StillStays DEF TrajectoryInv
  <2>4. LastOpen(x)' = LastOpen(x)
    <3>1. \A m \in EventsOf(x) : SameWindow(m, n)' <=> SameWindow(m, Len(lineage))
      <4>1. ASSUME NEW m \in EventsOf(x) PROVE SameWindow(m, n)' <=> SameWindow(m, Len(lineage))
        <5>1. m \in 1 .. Len(lineage)
          BY <1>10
        <5>2. \A i : i \in m .. n <=> i \in m .. Len(lineage) \/ i = n
          BY <1>0, <1>8, <5>1
        <5>3. \A i \in m .. Len(lineage) : lineage'[i] = lineage[i]
          BY <1>8, <5>1
        <5>4. QED
          BY <1>3, <1>8, <5>2, <5>3 DEF SameWindow
      <4>2. QED
        BY <4>1
    <3>2. LastOpen(x)' = {m \in EventsOf(x)' : SameWindow(m, n)' /\ \A i \in EventsOf(x)' : i <= m}
      BY <1>8 DEF LastOpen
    <3>3. QED
      BY <2>1, <3>1, <3>2 DEF LastOpen
  <2>5. LastPoint(x)' = LastPoint(x)
    BY <2>2 DEF LastPoint
  <2>6. \A m \in LastOpen(x) : lineage'[m] = lineage[m]
    BY <1>8, <1>10 DEF LastOpen
  <2>7. BufferEnds(x)'
    BY <2>2, <2>4, <2>5, <2>6 DEF TrajectoryInv, BufferEnds
  <2>8. QED
    BY <2>3, <2>7
<1>14. EventsOf(x0)' = EventsOf(x0) \cup {n}
  BY <1>9
<1>15. BufferEnds(x0)'
  <2>1. LastOpen(x0)' = {n}
    BY <1>0, <1>3, <1>8, <1>14, LegsGrow
  <2>2. state'.points[x0] # << >> /\ LastPoint(x0)' = [ts |-> e.ts, pos |-> e.pos]
    BY <1>7, <1>11 DEF LastPoint
  <2>3. QED
    BY <1>8, <2>1, <2>2 DEF BufferEnds
<1>16. BufferEnds(x0) /\ StillInv(x0)
  BY <1>3 DEF TrajectoryInv
<1>17. \A m \in LastOpen(x0) :
         /\ state.points[x0] # << >> /\ LastPoint(x0).ts = lineage[m].ts
         /\ Trajectory!Faster(LastPoint(x0), e, StopSpeed) <=> Trajectory!Faster(lineage[m], e, StopSpeed)
  <2>1. ASSUME NEW m \in LastOpen(x0)
        PROVE  /\ state.points[x0] # << >> /\ LastPoint(x0).ts = lineage[m].ts
               /\ Trajectory!Faster(LastPoint(x0), e, StopSpeed) <=> Trajectory!Faster(lineage[m], e, StopSpeed)
    <3>1. state.points[x0] # << >> /\ LastPoint(x0) = [ts |-> lineage[m].ts, pos |-> lineage[m].pos]
      BY <1>16 DEF BufferEnds
    <3>2. LastPoint(x0).ts = lineage[m].ts /\ LastPoint(x0).pos = lineage[m].pos
      BY <3>1
    <3>3. QED
      BY <3>1, <3>2 DEF Trajectory!Faster
  <2>2. QED
    BY <2>1
<1>18. state.points[x0] # << >> => \E m : m \in LastOpen(x0)
  BY <1>16 DEF BufferEnds
<1>19. Moves(e) <=> \E m \in LastOpen(x0) : Trajectory!Faster(lineage[m], e, StopSpeed)
  BY <1>3, <1>17, <1>18 DEF Moves
<1>20. StopsAt(e) <=> /\ ~Moves(e) /\ ~state.stopped[x0]
                     /\ \E m \in LastOpen(x0) :
                          e.ts - (IF state.lastMoving[x0] = Trajectory!Never THEN lineage[m].ts
                                  ELSE state.lastMoving[x0]) >= StopSecs
  BY <1>3, <1>17, <1>18 DEF Moves, StopsAt
<1>21. StillInv(x0)'
  <2>1. PICK moves \in BOOLEAN, stops \in BOOLEAN : (moves <=> Moves(e)) /\ (stops <=> StopsAt(e))
    OBVIOUS
  <2>2. state.stopped[x0] \in BOOLEAN
    BY <1>3, <1>6 DEF TrajectoryStates
  <2>3. StopPlaces(x0)' = StopPlaces(x0) \cup (IF stops THEN {n} ELSE {})
    BY <1>12, <2>1
  <2>4. /\ state'.lastMoving[x0] = (IF moves THEN e.ts ELSE state.lastMoving[x0])
        /\ state'.stopped[x0] = (IF moves THEN FALSE ELSE IF stops THEN TRUE ELSE state.stopped[x0])
    BY <1>7, <1>11, <2>1
  <2>5. moves <=> \E m \in LastOpen(x0) : Trajectory!Faster(lineage[m], e, StopSpeed)
    BY <1>19, <2>1
  <2>6. stops <=> /\ ~moves /\ ~state.stopped[x0]
                  /\ \E m \in LastOpen(x0) :
                       e.ts - (IF state.lastMoving[x0] = Trajectory!Never THEN lineage[m].ts
                               ELSE state.lastMoving[x0]) >= StopSecs
    BY <1>20, <2>1
  <2>7. QED
    BY <1>0, <1>3, <1>6, <1>8, <1>14, <1>16, <2>2, <2>3, <2>4, <2>5, <2>6, StillMoves
<1>22. \A m \in Events' : lineage'[m].ts \in Nat
  BY <1>3, <1>6, <1>8
<1>23. QED
  BY <1>7, <1>8, <1>11, <1>13, <1>15, <1>21, <1>22 DEF TrajectoryInv

\* A window close clears the buffers, and reports no stops.
LEMMA TrajectoryClose ==
  ASSUME TrajectoryInv, kind = "trajectory", WindowClose
  PROVE  TrajectoryInv'
<1>1. PICK order \in Orders : Called(Closed, Trajectory!Close(state, order))
  BY DEF WindowClose, Closing
<1>2. PICK result : result = Trajectory!Close(state, order)
  OBVIOUS
<1>3. PICK long : long = Trajectory!Picked(order, {k \in DOMAIN order : Len(state.points[order[k]]) >= 2})
  OBVIOUS
<1>4. /\ result.state = [state EXCEPT !.points = Trajectory!Initial.points]
      /\ result.out = [k \in DOMAIN long |-> Trajectory!Report("summary", long[k], Len(state.points[long[k]]))]
  BY <1>2, <1>3 DEF Trajectory!Close
<1>5. IsSeq(long)
  <2>1. Cardinality(Entities) \in Nat
    BY EntitiesAssumption, FS_CardinalityType
  <2>2. order \in [1 .. Cardinality(Entities) -> Entities]
    BY DEF Orders
  <2>3. IsSeq(order) /\ Len(order) = Cardinality(Entities)
    <3>1. order = [k \in 1 .. Cardinality(Entities) |-> order[k]]
      BY <2>2
    <3>2. QED
      BY <2>1, <3>1, FunctionSeq
  <2>4. PICK those : those = {k \in DOMAIN order : Len(state.points[order[k]]) >= 2}
    OBVIOUS
  <2>5. Trajectory!Picked(order, those) = Picked(order, those)
    BY DEF Trajectory!Picked, Picked
  <2>6. IsSeq(Picked(order, those))
    BY <2>1, <2>3, PickedElements
  <2>7. QED
    BY <1>3, <2>4, <2>5, <2>6, Zenon
<1>6. IsSeq(result.out) /\ \A o \in ToSet(result.out) : o.type = "summary"
  <2>1. Len(long) \in Nat /\ DOMAIN long = 1 .. Len(long)
    BY <1>5, LenProperties DEF IsSeq
  <2>2. result.out = [k \in 1 .. Len(long) |-> result.out[k]]
    BY <1>4, <2>1
  <2>3. \A k \in DOMAIN result.out : result.out[k].type = "summary"
    BY <1>4 DEF Trajectory!Report
  <2>4. QED
    BY <2>1, <2>2, <2>3, FunctionSeq, ToSetPlaces
<1>7. PICK n : n = Len(lineage) + 1
  OBVIOUS
<1>8. Called(Closed, result) /\ IsSeq(lineage) /\ IsSeq(reports)
  BY <1>1, <1>2 DEF TrajectoryInv
<1>9. /\ IsSeq(lineage') /\ Len(lineage) \in Nat /\ Events \subseteq 1 .. Len(lineage)
      /\ Len(lineage') = n /\ lineage'[n] = Closed
      /\ \A m \in 1 .. Len(lineage) : lineage'[m] = lineage[m]
      /\ Events' = Events /\ IsSeq(reports')
      /\ Reported' = Reported \cup {[at |-> n, what |-> o] : o \in ToSet(result.out)}
  <2>1. /\ IsSeq(lineage') /\ Len(lineage) \in Nat /\ Events \subseteq 1 .. Len(lineage)
        /\ Len(lineage') = Len(lineage) + 1 /\ lineage'[Len(lineage) + 1] = Closed
        /\ \A m \in 1 .. Len(lineage) : lineage'[m] = lineage[m]
        /\ Events' = Events \cup (IF Closed = Closed THEN {} ELSE {Len(lineage) + 1}) /\ IsSeq(reports')
        /\ Reported' = Reported \cup {[at |-> Len(lineage) + 1, what |-> o] : o \in ToSet(result.out)}
    BY <1>6, <1>8, CalledPlaces
  <2>2. QED
    BY <1>7, <2>1
<1>10. \A x : EventsOf(x)' = EventsOf(x)
  BY <1>6, <1>8, CloseCalled
<1>11. \A x : StopPlaces(x)' = StopPlaces(x)
  <2>1. \A q \in {[at |-> n, what |-> o] : o \in ToSet(result.out)} : q.what.type # "stop"
    BY <1>6
  <2>2. QED
    BY <1>9, <2>1 DEF StopPlaces
<1>12. \A x : LastOpen(x)' = {}
  <2>1. \A m \in 1 .. Len(lineage) : ~SameWindow(m, n)'
    BY <1>7, <1>9 DEF SameWindow
  <2>2. \A x : EventsOf(x)' \subseteq 1 .. Len(lineage)
    BY <1>9, <1>10 DEF EventsOf
  <2>3. \A x : \A m : m \notin LastOpen(x)'
    BY <1>9, <2>1, <2>2 DEF LastOpen
  <2>4. QED
    BY <2>3
<1>13. state' = [state EXCEPT !.points = [x \in Entities |-> << >>]]
  BY <1>4, <1>8 DEF Called, Trajectory!Initial
<1>14. /\ state' \in TrajectoryStates
       /\ \A x \in Entities : /\ state'.points[x] = << >> /\ state'.lastMoving[x] = state.lastMoving[x]
                               /\ state'.stopped[x] = state.stopped[x]
  <2>1. state \in TrajectoryStates
    BY DEF TrajectoryInv
  <2>2. << >> \in Seq(Points)
    OBVIOUS
  <2>3. [x \in Entities |-> << >>] \in [Entities -> Seq(Points)]
    BY <2>2
  <2>4. QED
    BY <1>13, <2>1, <2>3 DEF TrajectoryStates
<1>15. ASSUME NEW x \in Entities PROVE BufferEnds(x)' /\ StillInv(x)'
  <2>1. BufferEnds(x)'
    BY <1>12, <1>14 DEF BufferEnds
  <2>2. EventsOf(x)' = EventsOf(x) /\ StopPlaces(x)' = StopPlaces(x) /\ StillInv(x)
    BY <1>10, <1>11 DEF TrajectoryInv
  <2>3. StillInv(x)'
    BY <1>9, <1>14, <2>2, StillStays
  <2>4. QED
    BY <2>1, <2>3
<1>16. \A m \in Events' : lineage'[m].ts \in Nat
  BY <1>9 DEF TrajectoryInv
<1>17. QED
  BY <1>9, <1>14, <1>15, <1>16 DEF TrajectoryInv

\* A checkpoint carries all of the state.
LEMMA TrajectoryRestart ==
  ASSUME TrajectoryInv, kind = "trajectory", Restart \/ UNCHANGED vars
  PROVE  TrajectoryInv'
<1>1. lineage' = lineage /\ reports' = reports
  BY DEF Restart, vars
<1>2. state' = state
  <2>1. CASE UNCHANGED vars
    BY <2>1 DEF vars
  <2>2. CASE Restart
    <3>1. state' = [points |-> state.points, lastMoving |-> state.lastMoving, stopped |-> state.stopped]
      BY <2>2 DEF Restart, Restored, Trajectory!Snapshot
    <3>2. state \in TrajectoryStates
      BY DEF TrajectoryInv
    <3>3. QED
      BY <3>1, <3>2 DEF TrajectoryStates
  <2>3. QED
    BY <2>1, <2>2
<1>3. Events' = Events /\ Reported' = Reported
  BY <1>1 DEF Events, Reported
<1>4. \A x : EventsOf(x)' = EventsOf(x) /\ StopPlaces(x)' = StopPlaces(x)
  BY <1>1, <1>3 DEF EventsOf, StopPlaces
<1>5. IsSeq(lineage)
  BY DEF TrajectoryInv
<1>6. Len(lineage) \in Nat /\ Events \subseteq 1 .. Len(lineage)
  BY <1>5, AppendSeq, AppendPlaces DEF Events
<1>7. ASSUME NEW x \in Entities PROVE BufferEnds(x)' /\ StillInv(x)'
  <2>1. StillInv(x)'
    BY <1>1, <1>2, <1>4, <1>6, StillStays DEF TrajectoryInv
  <2>2. LastOpen(x)' = LastOpen(x)
    BY <1>1, <1>4 DEF LastOpen, SameWindow
  <2>3. LastPoint(x)' = LastPoint(x)
    BY <1>2 DEF LastPoint
  <2>4. BufferEnds(x)'
    BY <1>1, <1>2, <2>2, <2>3 DEF TrajectoryInv, BufferEnds
  <2>5. QED
    BY <2>1, <2>4
<1>8. QED
  BY <1>1, <1>2, <1>3, <1>7 DEF TrajectoryInv

MovementInv == kind \in Kinds /\ (kind = "trajectory" => TrajectoryInv)

\* What a reader of the invariant gets of it.
LEMMA TrajectoryPromise == MovementInv => StopsExact
<1> SUFFICES ASSUME MovementInv PROVE StopsExact
  OBVIOUS
<1>1. CASE kind # "trajectory"
  <2>1. \A x : StopReports(x) = {}
    BY <1>1 DEF StopReports, ReportsOf
  <2>2. QED
    BY <1>1, <2>1 DEF StopsExact, StopsReportedOnce, StopIffMovedThenStill
<1>2. CASE kind = "trajectory"
  <2>1. \A x : StopReports(x) = StopPlaces(x)
    BY <1>2 DEF StopReports, ReportsOf, StopPlaces, Reported
  <2>2. \A x : \A leg : leg \in MeasuredLegs(x)
          <=> leg = <<leg[1], leg[2]>> /\ MeasuredLeg(x, leg[1], leg[2])
    BY DEF MeasuredLegs, MeasuredLeg
  <2>3. \A x, a, b : <<a, b>> \in MeasuredLegs(x) <=> MeasuredLeg(x, a, b)
    BY DEF MeasuredLegs, MeasuredLeg
  <2>4. \A x : \A leg : leg \in MeasuredLegs(x) /\ Fast(leg)
          <=> leg = <<leg[1], leg[2]>> /\ FastLeg(x, leg[1], leg[2])
    BY <2>2 DEF Fast, FastLeg
  <2>5. \A x, a, b : <<a, b>> \in MeasuredLegs(x) /\ Fast(<<a, b>>) <=> FastLeg(x, a, b)
    BY <2>3 DEF Fast, FastLeg
  <2>6. ASSUME NEW x \in Entities
        PROVE  /\ \A r, q \in StopReports(x) :
                    r < q => \E leg \in MeasuredLegs(x) : r <= leg[1] /\ leg[2] <= q /\ Fast(leg)
               /\ InOrder(x) =>
                    LET legs == MeasuredLegs(x)
                        fast == {leg \in legs : Fast(leg)}
                    IN  /\ \A r \in StopReports(x), leg \in fast :
                             leg[2] <= r => lineage[leg[2]].ts <= lineage[r].ts - StopSecs
                        /\ \A move \in fast, last \in legs \ fast :
                             /\ move[2] < last[2]
                             /\ lineage[last[2]].ts - lineage[move[2]].ts >= StopSecs
                             /\ \A leg \in fast : ~(move[2] < leg[2] /\ leg[2] < last[2])
                             => \E r \in StopReports(x) : move[2] < r /\ r <= last[2]
    <3>1. StoppedOnce(x) /\ SlowBefore(x) /\ StillFound(x)
      BY <1>2 DEF MovementInv, TrajectoryInv, StillInv
    <3>2. ASSUME NEW r \in StopReports(x), NEW q \in StopReports(x), r < q
          PROVE  \E leg \in MeasuredLegs(x) : r <= leg[1] /\ leg[2] <= q /\ Fast(leg)
      <4>1. PICK a, b : FastLeg(x, a, b) /\ r <= a /\ b <= q
        BY <2>1, <3>1, <3>2 DEF StoppedOnce
      <4>2. PICK leg : leg = <<a, b>>
        OBVIOUS
      <4>3. leg \in MeasuredLegs(x) /\ Fast(leg) /\ leg[1] = a /\ leg[2] = b
        BY <2>5, <4>1, <4>2
      <4>4. QED
        BY <4>1, <4>3
    <3>3. ASSUME InOrder(x), NEW r \in StopReports(x), NEW leg \in MeasuredLegs(x), Fast(leg), leg[2] <= r
          PROVE  lineage[leg[2]].ts <= lineage[r].ts - StopSecs
      <4>1. FastLeg(x, leg[1], leg[2])
        BY <2>4, <3>3
      <4>2. QED
        BY <2>1, <3>1, <3>3, <4>1 DEF SlowBefore
    <3>4. ASSUME InOrder(x), NEW move \in MeasuredLegs(x), Fast(move),
                 NEW last \in MeasuredLegs(x), ~Fast(last), move[2] < last[2],
                 lineage[last[2]].ts - lineage[move[2]].ts >= StopSecs,
                 \A leg \in MeasuredLegs(x) : Fast(leg) => ~(move[2] < leg[2] /\ leg[2] < last[2])
          PROVE  \E r \in StopReports(x) : move[2] < r /\ r <= last[2]
      <4>1. FastLeg(x, move[1], move[2]) /\ MeasuredLeg(x, last[1], last[2])
        BY <2>2, <2>4, <3>4
      <4>2. ~FastLeg(x, last[1], last[2])
        BY <2>2, <2>4, <3>4
      <4>3. ASSUME NEW i, NEW j, FastLeg(x, i, j) PROVE ~(move[2] < j /\ j < last[2])
        <5>1. PICK leg : leg = <<i, j>>
          OBVIOUS
        <5>2. leg \in MeasuredLegs(x) /\ Fast(leg) /\ leg[2] = j
          BY <2>5, <4>3, <5>1
        <5>3. QED
          BY <3>4, <5>2
      <4>4. \E r \in StopPlaces(x) : move[2] < r /\ r <= last[2]
        BY <3>1, <3>4, <4>1, <4>2, <4>3 DEF StillFound
      <4>5. QED
        BY <2>1, <4>4
    <3>5. QED
      BY <3>2, <3>3, <3>4
  <2>7. QED
    BY <1>2, <2>6 DEF StopsExact, StopsReportedOnce, StopIffMovedThenStill
<1>3. QED
  BY <1>1, <1>2

LEMMA TrajectoryStep ==
  ASSUME MaxBuffer \in Nat \ {0}, StopSecs \in Nat
  PROVE  MovementInv /\ [Next]_vars => MovementInv'
<1> SUFFICES ASSUME MovementInv, [Next]_vars PROVE MovementInv'
  OBVIOUS
<1>1. CASE \E event \in Inputs[kind] : Process(event)
  <2>1. PICK event \in Inputs[kind] : Process(event)
    BY <1>1
  <2>2. event.entity \in Entities /\ event.ts \in Nat /\ kind' = kind
    BY <2>1, InputsAssumption DEF MovementInv, Process, Called
  <2>3. QED
    BY <2>1, <2>2, TrajectoryProcess DEF MovementInv
<1>2. CASE WindowClose
  <2>1. kind' = kind
    BY <1>2 DEF WindowClose, Called
  <2>2. QED
    BY <1>2, <2>1, TrajectoryClose DEF MovementInv
<1>3. CASE Restart \/ UNCHANGED vars
  <2>1. kind' = kind
    BY <1>3 DEF Restart, vars
  <2>2. QED
    BY <1>3, <2>1, TrajectoryRestart DEF MovementInv
<1>4. QED
  BY <1>1, <1>2, <1>3 DEF Next

\* Between two stops of an entity there is a fast leg, and if its events come in order
\* a stop means that it was slow for the whole stop duration, and an entity that moved
\* and was slow for that long was reported; across window closes, which clear the
\* buffer and not the rest, and restarts: in every behaviour, for every buffer that
\* holds a point (TrajectoryOperator::process, on_window_close and restore of
\* trajectory.rs).
THEOREM StopsAreOfStillStretches ==
  ASSUME MaxBuffer \in Nat \ {0}, StopSecs \in Nat PROVE Spec => []StopsExact
<1>1. Init => MovementInv
  BY TrajectoryInit DEF MovementInv, Init
<1>2. MovementInv /\ [Next]_vars => MovementInv'
  BY TrajectoryStep
<1>3. MovementInv => StopsExact
  BY TrajectoryPromise
<1>4. QED
  BY <1>1, <1>2, <1>3, PTL DEF Spec

(***************************************************************************)
(* Patterns of events                                                      *)
(***************************************************************************)

Steps(p) == Patterns[p].steps
Fits(p, i, e) == Cep!Satisfies(Steps(p)[i], e)

\* m holds events of H, from the history l, that match the first steps of a pattern
\* in the order they came and within its time.
Matching(l, m, H, p) ==
  /\ m.currentStep \in Nat /\ m.startedAt \in Int
  /\ IsSeq(m.matched) /\ Len(m.matched) = m.currentStep /\ m.currentStep <= Len(Steps(p))
  /\ m.currentStep > 0 => m.matched[1].ts = m.startedAt
  /\ \A i \in 1 .. m.currentStep :
       /\ m.matched[i].id \in H /\ l[m.matched[i].id] = m.matched[i]
       /\ Fits(p, i, m.matched[i]) /\ m.matched[i].ts - m.startedAt <= Patterns[p].within
  /\ \A i, j \in 1 .. m.currentStep : i < j => m.matched[i].id < m.matched[j].id

\* The first event of H that can start the pattern, if the others are within its time.
Starts(l, H, p, f) ==
  /\ f \in H /\ Fits(p, 1, l[f])
  /\ \A k \in H : Fits(p, 1, l[k]) => f <= k
  /\ \A k \in H : k > f => l[k].ts - l[f].ts <= Patterns[p].within

\* m has taken the first event that matches a step after the one before it.
Greedy(l, m, H, p, f) ==
  /\ m.currentStep > 0 /\ m.matched[1].id = f
  /\ \A i \in 2 .. m.currentStep + 1 : \A k \in H :
       i <= Len(Steps(p)) /\ m.matched[i - 1].id < k /\ Fits(p, i, l[k])
         => i <= m.currentStep /\ m.matched[i].id <= k

\* What m becomes if it takes e, or else stays.
Takes(m, e, p) == m.currentStep < Len(Steps(p)) /\ Fits(p, m.currentStep + 1, e)

Took(moved, m, e, p) ==
  IF Takes(m, e, p)
  THEN /\ moved = [currentStep |-> moved.currentStep, startedAt |-> moved.startedAt,
                   matched |-> moved.matched]
       /\ moved.currentStep = m.currentStep + 1 /\ moved.matched[m.currentStep + 1] = e
       /\ \A i \in 1 .. m.currentStep : moved.matched[i] = m.matched[i]
  ELSE moved = m

FindsAll(l, m, H, p) == \A f \in H : Starts(l, H, p, f) => Greedy(l, m, H, p, f)

LEMMA PatternTypes ==
  ASSUME NEW p \in DOMAIN Patterns
  PROVE  Patterns[p].within \in Nat /\ IsSeq(Steps(p)) /\ Len(Steps(p)) \in Nat
<1>1. Patterns[p].within \in Nat /\ IsSeq(Steps(p))
  BY PatternsAssumption DEF Steps, IsSeq
<1>2. QED
  BY <1>1, LenProperties DEF IsSeq

\* An event of the entity adds to its match, or starts it, or changes nothing.
LEMMA MatchAdvances ==
  ASSUME NEW p \in DOMAIN Patterns, NEW l, NEW H, NEW m, Matching(l, m, H, p),
         NEW n \in Nat, H \subseteq 1 .. n - 1,
         NEW e, e.id = n, l[n] = e, e.ts \in Int,
         NEW moved, moved = Cep!Advance(m, e, Patterns[p]),
         NEW b, b = Cep!AfterTimeout(m, e, Patterns[p])
  PROVE  Matching(l, moved, H \cup {n}, p) /\ Took(moved, b, e, p)
<1>1. \A k \in H : k \in Nat /\ k < n
  OBVIOUS
<1>2. Patterns[p].within \in Nat /\ Len(Steps(p)) \in Nat
  BY PatternTypes
<1>3. /\ Matching(l, b, H, p)
      /\ b.currentStep > 0 => e.ts - b.startedAt <= Patterns[p].within
  <2>1. CASE Cep!TimedOut(m, e, Patterns[p])
    <3>1. b = [currentStep |-> 0, startedAt |-> e.ts, matched |-> << >>]
      BY <2>1 DEF Cep!AfterTimeout
    <3>2. b.currentStep = 0 /\ b.startedAt = e.ts /\ IsSeq(b.matched) /\ Len(b.matched) = 0
      BY <3>1, EmptyIsSeq
    <3>3. QED
      BY <1>2, <3>2 DEF Matching
  <2>2. CASE ~Cep!TimedOut(m, e, Patterns[p])
    <3>1. b = m
      BY <2>2 DEF Cep!AfterTimeout
    <3>2. m.currentStep > 0 => ~(e.ts - m.startedAt > Patterns[p].within)
      BY <2>2 DEF Cep!TimedOut
    <3>3. m.startedAt \in Int
      BY DEF Matching
    <3>4. QED
      BY <1>2, <3>1, <3>2, <3>3
  <2>3. QED
    BY <2>1, <2>2
<1>4. CASE Takes(b, e, p)
  <2>1. moved = [currentStep |-> b.currentStep + 1,
                 startedAt   |-> IF b.currentStep = 0 THEN e.ts ELSE b.startedAt,
                 matched     |-> Append(b.matched, e)]
    BY <1>4 DEF Cep!Advance, Cep!StepMatched, Takes, Fits, Steps
  <2>2. PICK c : c = b.currentStep
    OBVIOUS
  <2>3. /\ c \in Nat /\ c < Len(Steps(p)) /\ moved.currentStep = c + 1
        /\ moved.startedAt = IF c = 0 THEN e.ts ELSE b.startedAt
        /\ moved.matched = Append(b.matched, e)
        /\ b.startedAt \in Int /\ IsSeq(b.matched) /\ Len(b.matched) = c
    BY <1>3, <1>4, <2>1, <2>2 DEF Matching, Takes
  <2>4. /\ IsSeq(moved.matched) /\ Len(moved.matched) = c + 1
        /\ \A i \in 1 .. c : moved.matched[i] = b.matched[i]
        /\ moved.matched[c + 1] = e
    BY <2>3, AppendSeq, AppendPlaces
  <2>5. c > 0 => b.matched[1].ts = b.startedAt /\ e.ts - b.startedAt <= Patterns[p].within
    BY <1>3, <2>2 DEF Matching
  <2>6. moved.startedAt \in Int /\ moved.matched[1].ts = moved.startedAt
    BY <2>3, <2>4, <2>5
  <2>7. ASSUME NEW i \in 1 .. c + 1
        PROVE  /\ moved.matched[i].id \in H \cup {n} /\ l[moved.matched[i].id] = moved.matched[i]
               /\ Fits(p, i, moved.matched[i])
               /\ moved.matched[i].ts - moved.startedAt <= Patterns[p].within
    <3>1. CASE i \in 1 .. c
      <4>1. /\ b.matched[i].id \in H /\ l[b.matched[i].id] = b.matched[i]
            /\ Fits(p, i, b.matched[i]) /\ b.matched[i].ts - b.startedAt <= Patterns[p].within
        BY <1>3, <2>2, <3>1 DEF Matching
      <4>2. moved.matched[i] = b.matched[i] /\ moved.startedAt = b.startedAt
        BY <2>3, <2>4, <3>1
      <4>3. QED
        BY <4>1, <4>2
    <3>2. CASE i = c + 1
      <4>1. moved.matched[i] = e /\ Fits(p, i, e)
        BY <1>4, <2>2, <2>4, <3>2 DEF Takes
      <4>2. e.ts - moved.startedAt <= Patterns[p].within
        BY <1>2, <2>3, <2>5
      <4>3. QED
        BY <4>1, <4>2
    <3>3. QED
      BY <2>3, <3>1, <3>2
  <2>8. ASSUME NEW i \in 1 .. c + 1, NEW j \in 1 .. c + 1, i < j
        PROVE  moved.matched[i].id < moved.matched[j].id
    <3>1. i \in 1 .. c /\ (j \in 1 .. c \/ j = c + 1)
      <4>1. c \in Nat
        BY <2>3
      <4>2. QED
        BY <2>8, <4>1
    <3>2. \A k \in 1 .. c : b.matched[k].id \in H
      BY <1>3, <2>2 DEF Matching
    <3>3. CASE j \in 1 .. c
      <4>1. b.matched[i].id < b.matched[j].id
        BY <1>3, <2>2, <2>8, <3>1, <3>3 DEF Matching
      <4>2. QED
        BY <2>4, <3>1, <3>3, <4>1
    <3>4. CASE j = c + 1
      <4>1. b.matched[i].id \in H
        BY <3>1, <3>2
      <4>2. b.matched[i].id < n
        BY <1>1, <4>1
      <4>3. QED
        BY <2>4, <3>1, <3>4, <4>2
    <3>5. QED
      BY <3>1, <3>3, <3>4
  <2>9. Matching(l, moved, H \cup {n}, p)
    <3>1. c + 1 \in Nat /\ c + 1 <= Len(Steps(p))
      BY <1>2, <2>3
    <3>2. QED
      BY <2>3, <2>4, <2>6, <2>7, <2>8, <3>1 DEF Matching
  <2>10. Took(moved, b, e, p)
    <3>1. moved = [currentStep |-> moved.currentStep, startedAt |-> moved.startedAt,
                   matched |-> moved.matched]
      BY <2>1
    <3>2. QED
      BY <1>4, <2>2, <2>3, <2>4, <3>1 DEF Took
  <2>11. QED
    BY <2>9, <2>10
<1>5. CASE ~Takes(b, e, p)
  <2>1. moved = b
    BY <1>5 DEF Cep!Advance, Takes, Fits, Steps
  <2>2. Matching(l, b, H \cup {n}, p)
    BY <1>3 DEF Matching
  <2>3. QED
    BY <1>5, <2>1, <2>2, Zenon DEF Took
<1>6. QED
  BY <1>4, <1>5

\* If the event before which nothing could start the pattern is in time with those
\* after it, the match takes the first event that goes on with it.
LEMMA MatchFinds ==
  ASSUME NEW p \in DOMAIN Patterns, Steps(p) # << >>,
         NEW l, NEW H, NEW m, Matching(l, m, H, p), FindsAll(l, m, H, p),
         NEW n \in Nat, H \subseteq 1 .. n - 1,
         NEW e, e.id = n, l[n] = e, e.ts \in Int,
         NEW moved, moved = Cep!Advance(m, e, Patterns[p])
  PROVE  FindsAll(l, moved, H \cup {n}, p)
<1>1. PICK b : b = Cep!AfterTimeout(m, e, Patterns[p])
  OBVIOUS
<1>2. PICK M : M = H \cup {n}
  OBVIOUS
<1>3. Matching(l, moved, M, p) /\ Took(moved, b, e, p)
  <2>1. Matching(l, moved, H \cup {n}, p) /\ Took(moved, b, e, p)
    BY <1>1, MatchAdvances
  <2>2. QED
    BY <1>2, <2>1, Zenon
<1>4. Patterns[p].within \in Nat /\ Len(Steps(p)) \in Nat \ {0}
  BY PatternTypes, EmptySeq DEF IsSeq
<1>5. /\ \A k \in H : k \in Nat /\ k < n
      /\ \A k \in M : k \in Nat /\ k <= n /\ (k # n => k \in H)
      /\ \A k \in H : k \in M
      /\ n \in M /\ ~(n < n)
  BY <1>2
<1>6. m.currentStep \in Nat /\ m.currentStep <= Len(Steps(p))
  BY DEF Matching
<1>7. SUFFICES ASSUME NEW f \in M, Starts(l, M, p, f) PROVE Greedy(l, moved, M, p, f)
  BY <1>2 DEF FindsAll
<1>8. CASE f = n
  <2>1. m.currentStep = 0
    <3>1. ASSUME m.currentStep > 0 PROVE FALSE
      <4>1. 1 \in 1 .. m.currentStep
        BY <1>6, <3>1
      <4>2. m.matched[1].id \in H /\ l[m.matched[1].id] = m.matched[1] /\ Fits(p, 1, m.matched[1])
        BY <4>1 DEF Matching
      <4>3. f <= m.matched[1].id
        BY <1>5, <1>7, <4>2 DEF Starts
      <4>4. m.matched[1].id \in Nat /\ m.matched[1].id < n
        BY <1>5, <4>2
      <4>5. QED
        BY <1>8, <4>3, <4>4
    <3>2. QED
      BY <1>6, <3>1
  <2>2. b = m
    BY <1>1, <2>1 DEF Cep!AfterTimeout, Cep!TimedOut
  <2>3. Fits(p, 1, e)
    BY <1>7, <1>8 DEF Starts
  <2>4. moved.currentStep = 1 /\ moved.matched[1] = e
    BY <1>3, <1>4, <2>1, <2>2, <2>3 DEF Took, Takes
  <2>5. \A i \in 2 .. 2 : \A k \in M : ~(moved.matched[i - 1].id < k)
    BY <1>2, <1>5, <2>4
  <2>6. QED
    BY <1>8, <2>4, <2>5 DEF Greedy
<1>9. CASE f \in H
  <2>1. Starts(l, H, p, f)
    BY <1>5, <1>7, <1>9 DEF Starts
  <2>2. Greedy(l, m, H, p, f)
    BY <1>9, <2>1 DEF FindsAll
  <2>3. b = m
    <3>1. l[n].ts - l[f].ts <= Patterns[p].within
      BY <1>5, <1>7, <1>9 DEF Starts
    <3>2. m.currentStep > 0 /\ m.matched[1].id = f
      BY <2>2 DEF Greedy
    <3>3. l[f].ts = m.startedAt /\ m.startedAt \in Int
      <4>1. 1 \in 1 .. m.currentStep
        BY <1>6, <3>2
      <4>2. l[m.matched[1].id] = m.matched[1] /\ m.matched[1].ts = m.startedAt
        BY <3>2, <4>1 DEF Matching
      <4>3. QED
        BY <3>2, <4>2 DEF Matching
    <3>4. ~Cep!TimedOut(m, e, Patterns[p])
      BY <1>4, <3>1, <3>3 DEF Cep!TimedOut
    <3>5. QED
      BY <1>1, <3>4 DEF Cep!AfterTimeout
  <2>4. PICK c : c = m.currentStep
    OBVIOUS
  <2>5. c \in Nat /\ c > 0 /\ c <= Len(Steps(p)) /\ m.matched[1].id = f
    BY <1>6, <2>2, <2>4 DEF Greedy
  <2>6. \A i \in 2 .. c + 1 : \A k \in H :
          i <= Len(Steps(p)) /\ m.matched[i - 1].id < k /\ Fits(p, i, l[k])
            => i <= c /\ m.matched[i].id <= k
    BY <2>2, <2>4 DEF Greedy
  <2>7. \A i \in 1 .. moved.currentStep : moved.matched[i].id \in M
    BY <1>3 DEF Matching
  <2>8. CASE Takes(m, e, p)
    <3>1. /\ moved.currentStep = c + 1 /\ moved.matched[c + 1] = e
          /\ \A i \in 1 .. c : moved.matched[i] = m.matched[i]
      BY <1>3, <2>3, <2>4, <2>8 DEF Took
    <3>2. moved.matched[1].id = f
      BY <2>5, <3>1
    <3>3. ASSUME NEW i \in 2 .. c + 2, NEW k \in M, i <= Len(Steps(p)),
                 moved.matched[i - 1].id < k, Fits(p, i, l[k])
          PROVE  i <= c + 1 /\ moved.matched[i].id <= k
      <4>1. CASE i = c + 2
        <5>1. moved.matched[i - 1] = e
          BY <2>5, <3>1, <4>1
        <5>2. QED
          BY <1>5, <3>3, <5>1
      <4>2. CASE i # c + 2 /\ k = n
        <5>1. i \in 1 .. moved.currentStep /\ i <= c + 1
          BY <2>5, <3>1, <4>2
        <5>2. moved.matched[i].id \in M
          BY <2>7, <5>1
        <5>3. moved.matched[i].id <= n
          BY <1>5, <5>2
        <5>4. QED
          BY <4>2, <5>1, <5>3
      <4>3. CASE i # c + 2 /\ k # n
        <5>1. i \in 2 .. c + 1 /\ i - 1 \in 1 .. c /\ k \in H
          BY <1>5, <2>5, <4>3
        <5>2. m.matched[i - 1].id < k
          BY <3>1, <3>3, <5>1
        <5>3. i <= c /\ m.matched[i].id <= k
          BY <2>6, <3>3, <5>1, <5>2
        <5>4. i \in 1 .. c
          BY <5>1, <5>3
        <5>5. moved.matched[i] = m.matched[i]
          BY <3>1, <5>4
        <5>6. QED
          BY <2>5, <5>3, <5>5
      <4>4. QED
        BY <4>1, <4>2, <4>3
    <3>4. moved.currentStep + 1 = c + 2 /\ moved.currentStep > 0
      BY <2>5, <3>1
    <3>5. QED
      BY <3>1, <3>2, <3>3, <3>4 DEF Greedy
  <2>9. CASE ~Takes(m, e, p)
    <3>1. moved = m
      BY <1>3, <2>3, <2>9 DEF Took
    <3>2. ASSUME NEW i \in 2 .. c + 1, NEW k \in M, i <= Len(Steps(p)),
                 m.matched[i - 1].id < k, Fits(p, i, l[k])
          PROVE  i <= c /\ m.matched[i].id <= k
      <4>1. CASE k = n
        <5>1. i # c + 1
          BY <2>4, <2>5, <2>9, <3>2, <4>1 DEF Takes
        <5>2. i \in 1 .. c
          BY <2>5, <5>1
        <5>3. m.matched[i].id \in M
          BY <2>4, <2>7, <3>1, <5>2
        <5>4. m.matched[i].id <= n
          BY <1>5, <5>3
        <5>5. QED
          BY <4>1, <5>2, <5>4
      <4>2. CASE k # n
        <5>1. k \in H
          BY <1>5, <4>2
        <5>2. QED
          BY <2>6, <3>2, <5>1
      <4>3. QED
        BY <4>1, <4>2
    <3>3. QED
      BY <2>4, <2>5, <3>1, <3>2 DEF Greedy
  <2>10. QED
    BY <2>8, <2>9
<1>10. QED
  BY <1>5, <1>8, <1>9

\* A match that takes the first events leaves no later ones that complete it.
LEMMA GreedyMissesNone ==
  ASSUME NEW p \in DOMAIN Patterns, NEW l, NEW H \in SUBSET Nat, NEW m, NEW f,
         Matching(l, m, H, p), Greedy(l, m, H, p, f), m.currentStep < Len(Steps(p)),
         NEW places \in [2 .. Len(Steps(p)) -> {k \in H : k > f}],
         \A i \in 2 .. Len(Steps(p)) :
           Fits(p, i, l[places[i]]) /\ \A j \in 2 .. i - 1 : places[j] < places[i]
  PROVE  FALSE
<1>1. PICK c : c = m.currentStep
  OBVIOUS
<1>2. c \in Nat /\ c > 0 /\ Len(Steps(p)) \in Nat /\ c < Len(Steps(p)) /\ m.matched[1].id = f
  BY <1>1, PatternTypes DEF Matching, Greedy
<1>3. \A i \in 1 .. c : m.matched[i].id \in Nat
  BY <1>1 DEF Matching
<1>4. \A i \in 2 .. Len(Steps(p)) : places[i] \in H /\ places[i] \in Nat /\ places[i] > f
  OBVIOUS
<1>5. \A i \in 2 .. c + 1 :
        m.matched[i - 1].id < places[i] => i <= c /\ m.matched[i].id <= places[i]
  <2>1. ASSUME NEW i \in 2 .. c + 1, m.matched[i - 1].id < places[i]
        PROVE  i <= c /\ m.matched[i].id <= places[i]
    <3>1. i \in 2 .. Len(Steps(p)) /\ i <= Len(Steps(p))
      BY <1>2
    <3>2. places[i] \in H /\ Fits(p, i, l[places[i]])
      BY <1>4, <3>1
    <3>3. QED
      BY <1>1, <2>1, <3>1, <3>2 DEF Greedy
  <2>2. QED
    BY <2>1
<1>6. PICK T : T = {k \in Nat : k \in 2 .. c => m.matched[k].id <= places[k]}
  OBVIOUS
<1>7. 0 \in T
  BY <1>6
<1>8. \A k \in T : k + 1 \in T
  <2>1. ASSUME NEW k \in T, k + 1 \in 2 .. c PROVE m.matched[k + 1].id <= places[k + 1]
    <3>1. k \in Nat /\ k + 1 \in 2 .. c + 1 /\ k + 1 \in 2 .. Len(Steps(p)) /\ (k + 1) - 1 = k
      BY <1>2, <1>6, <2>1
    <3>2. m.matched[k].id < places[k + 1]
      <4>1. CASE k = 1
        BY <1>2, <1>4, <3>1, <4>1
      <4>2. CASE k # 1
        <5>1. k \in 2 .. c /\ k \in 1 .. c /\ k \in 2 .. (k + 1) - 1 /\ k \in 2 .. Len(Steps(p))
          BY <1>2, <2>1, <3>1, <4>2
        <5>2. places[k] < places[k + 1]
          BY <3>1, <5>1
        <5>3. m.matched[k].id <= places[k]
          BY <1>6, <5>1
        <5>4. m.matched[k].id \in Nat /\ places[k] \in Nat /\ places[k + 1] \in Nat
          BY <1>3, <1>4, <3>1, <5>1
        <5>5. QED
          BY <5>2, <5>3, <5>4
      <4>3. QED
        BY <4>1, <4>2
    <3>3. QED
      BY <1>5, <3>1, <3>2
  <2>2. QED
    BY <1>6, <2>1
<1>9. T = Nat
  <2>1. T \in SUBSET Nat
    BY <1>6
  <2>2. QED
    BY <1>7, <1>8, <2>1, Inductive
<1>10. m.matched[c].id < places[c + 1]
  <2>1. c + 1 \in 2 .. Len(Steps(p)) /\ places[c + 1] \in Nat
    BY <1>2, <1>4
  <2>2. CASE c = 1
    BY <1>2, <1>4, <2>1, <2>2
  <2>3. CASE c # 1
    <3>1. c \in 2 .. c /\ c \in 1 .. c /\ c \in 2 .. (c + 1) - 1 /\ c \in 2 .. Len(Steps(p))
      BY <1>2, <2>3
    <3>2. places[c] < places[c + 1]
      BY <2>1, <3>1
    <3>3. m.matched[c].id <= places[c]
      BY <1>6, <1>9, <3>1
    <3>4. QED
      BY <1>3, <1>4, <2>1, <3>1, <3>2, <3>3
  <2>4. QED
    BY <2>2, <2>3
<1>11. QED
  BY <1>2, <1>5, <1>10

\* A match is one also among more events and of a longer history.
LEMMA MatchingSame ==
  ASSUME NEW l, NEW ll, NEW m, NEW H, NEW M, NEW p, Matching(l, m, H, p),
         H \subseteq M, \A k \in H : ll[k] = l[k]
  PROVE  Matching(ll, m, M, p)
<1>1. \A i \in 1 .. m.currentStep :
        m.matched[i].id \in M /\ ll[m.matched[i].id] = m.matched[i]
  BY DEF Matching
<1>2. QED
  BY <1>1 DEF Matching

\* Nothing is matched yet.
LEMMA NothingMatched ==
  ASSUME NEW p \in DOMAIN Patterns, NEW l, NEW m,
         m.currentStep = 0, m.startedAt \in Int, m.matched = << >>
  PROVE  Matching(l, m, {}, p) /\ FindsAll(l, m, {}, p)
<1>1. IsSeq(m.matched) /\ Len(m.matched) = 0 /\ Len(Steps(p)) \in Nat
  BY EmptyIsSeq, PatternTypes
<1>2. QED
  BY <1>1 DEF Matching, FindsAll

\* The events of an entity since its last match of the pattern and the last close.
Pending(x, p) ==
  {k \in EventsOf(x) :
     /\ SameWindow(k, Len(lineage))
     /\ \A r \in Reported : r.what.pattern = p /\ r.what.events[1].entity = x => r.at < k}

\* The events of an entity in the window of n, up to it.
EventsTo(x, n) == {k \in EventsOf(x) : k <= n /\ SameWindow(k, n)}

Complete(m, p, n) ==
  /\ m.currentStep = Len(Steps(p)) /\ m.currentStep > 0
  /\ m.matched[m.currentStep].id = n

\* What was reported is a match that ended with the event of the report.
IsMatch(r) ==
  /\ r.at \in Events /\ r.what.pattern \in DOMAIN Patterns
  /\ \E m : /\ Matching(lineage, m, EventsTo(r.what.events[1].entity, r.at), r.what.pattern)
            /\ Complete(m, r.what.pattern, r.at) /\ m.matched = r.what.events

ShareNone(r, q) ==
  r.what.pattern = q.what.pattern /\ r # q =>
    \A i \in DOMAIN r.what.events, j \in DOMAIN q.what.events :
      r.what.events[i].id # q.what.events[j].id

\* The state holds, for every entity and pattern, a match of the events since its last,
\* which is not complete and took every first event that goes on with it.
PartialInv(x, p) ==
  /\ Matching(lineage, state[x][p], Pending(x, p), p)
  /\ state[x][p].currentStep = 0 \/ state[x][p].currentStep < Len(Steps(p))
  /\ Steps(p) # << >> => FindsAll(lineage, state[x][p], Pending(x, p), p)

MatchesInv ==
  /\ IsSeq(lineage) /\ IsSeq(reports)
  /\ DOMAIN state = Entities
  /\ \A r \in Reported : IsMatch(r)
  /\ \A r, q \in Reported : ShareNone(r, q)
  /\ \A x \in Entities, p \in DOMAIN Patterns : PartialInv(x, p)

LEMMA MatchesInit == Init /\ kind = "cep" => MatchesInv
<1> SUFFICES ASSUME Init, kind = "cep" PROVE MatchesInv
  OBVIOUS
<1>1. lineage = << >> /\ reports = << >>
  BY DEF Init
<1>2. DOMAIN << >> = {} /\ IsSeq(<< >>)
  BY EmptyIsSeq
<1>3. Events = {} /\ Reported = {} /\ \A x : EventsOf(x) = {}
  BY <1>1, <1>2 DEF Events, Reported, EventsOf
<1>4. state = [x \in Entities |-> [p \in DOMAIN Patterns |-> Cep!Idle]]
  BY DEF Init, Fresh, Cep!Initial
<1>5. \A x, p : Pending(x, p) = {}
  BY <1>3 DEF Pending
<1>6. ASSUME NEW x \in Entities, NEW p \in DOMAIN Patterns PROVE PartialInv(x, p)
  <2>1. PICK m : m = state[x][p]
    OBVIOUS
  <2>2. m.currentStep = 0 /\ m.startedAt \in Int /\ m.matched = << >>
    BY <1>4, <2>1 DEF Cep!Idle
  <2>3. Matching(lineage, m, {}, p) /\ FindsAll(lineage, m, {}, p)
    BY <2>2, NothingMatched
  <2>4. QED
    BY <1>5, <2>1, <2>2, <2>3 DEF PartialInv
<1>7. IsSeq(lineage) /\ IsSeq(reports) /\ DOMAIN state = Entities
  BY <1>1, <1>2, <1>4
<1>8. QED
  BY <1>3, <1>6, <1>7 DEF MatchesInv

\* A match stays one when calls are added to the history.
LEMMA IsMatchStays ==
  ASSUME Len(lineage) \in Nat, Events \subseteq 1 .. Len(lineage), Events \subseteq Events',
         \A k \in 1 .. Len(lineage) : lineage'[k] = lineage[k],
         \A x : EventsOf(x) \subseteq EventsOf(x)',
         NEW r, IsMatch(r)
  PROVE  IsMatch(r)'
<1>1. PICK x : x = r.what.events[1].entity
  OBVIOUS
<1>2. PICK m : /\ Matching(lineage, m, EventsTo(x, r.at), r.what.pattern)
               /\ Complete(m, r.what.pattern, r.at) /\ m.matched = r.what.events
  BY <1>1 DEF IsMatch
<1>3. r.at \in 1 .. Len(lineage) /\ r.at \in Events' /\ r.what.pattern \in DOMAIN Patterns
  BY DEF IsMatch
<1>4. \A k \in EventsOf(x) : k \in 1 .. Len(lineage)
  BY DEF EventsOf
<1>5. EventsTo(x, r.at) \subseteq EventsTo(x, r.at)'
  <2>1. \A k \in EventsOf(x) : \A i \in k .. r.at : i \in 1 .. Len(lineage)
    BY <1>3, <1>4
  <2>2. \A k \in EventsOf(x) : SameWindow(k, r.at)' <=> SameWindow(k, r.at)
    BY <2>1 DEF SameWindow, Closed
  <2>3. \A k \in EventsOf(x) : k \in EventsOf(x)'
    OBVIOUS
  <2>4. QED
    BY <2>2, <2>3 DEF EventsTo
<1>6. \A k \in EventsTo(x, r.at) : lineage'[k] = lineage[k]
  BY <1>4 DEF EventsTo
<1>7. Matching(lineage', m, EventsTo(x, r.at)', r.what.pattern)
  BY <1>2, <1>5, <1>6, MatchingSame
<1>8. QED
  BY <1>1, <1>2, <1>3, <1>7, Zenon DEF IsMatch

Moved(e, p) == Cep!Advance(state[e.entity][p], e, Patterns[p])
Done(e) == {p \in DOMAIN Patterns : Cep!Completes(Moved(e, p), Patterns[p])}
Settled(e, p) == IF p \in Done(e) THEN Cep!AfterMatch(Moved(e, p)) ELSE Moved(e, p)
Match(e, p) == [pattern |-> p, events |-> Moved(e, p).matched]

\* What an event makes of the state, and the matches it completes.
LEMMA MatchesOut ==
  ASSUME NEW e, NEW result, result = Cep!Process(state, e)
  PROVE  /\ result.state = [state EXCEPT ![e.entity] = [p \in DOMAIN Patterns |-> Settled(e, p)]]
         /\ IsSeq(result.out) /\ ToSet(result.out) = {Match(e, p) : p \in Done(e)}
<1>1. PICK moved : moved = [p \in DOMAIN Patterns |-> Cep!Advance(state[e.entity][p], e, Patterns[p])]
  OBVIOUS
<1>2. PICK completed : completed = {p \in DOMAIN Patterns : Cep!Completes(moved[p], Patterns[p])}
  OBVIOUS
<1>3. PICK all : all = [p \in DOMAIN Patterns |-> [pattern |-> p, events |-> moved[p].matched]]
  OBVIOUS
<1>4. DOMAIN Patterns = 1 .. Len(Patterns) /\ Len(Patterns) \in Nat
  BY PatternsAssumption, LenProperties
<1>5. IsSeq(all) /\ Len(all) = Len(Patterns)
  <2>1. all = [p \in 1 .. Len(Patterns) |-> all[p]]
    BY <1>3, <1>4
  <2>2. QED
    BY <1>4, <2>1, FunctionSeq
<1>6. result = [state |-> [state EXCEPT ![e.entity] =
                             [p \in DOMAIN Patterns |->
                                IF p \in completed THEN Cep!AfterMatch(moved[p]) ELSE moved[p]]],
                out |-> Picked(all, completed)]
  <2>1. Cep!Picked(all, completed) = Picked(all, completed)
    BY DEF Cep!Picked, Picked
  <2>2. result = [state |-> [state EXCEPT ![e.entity] =
                               [p \in DOMAIN Patterns |->
                                  IF p \in completed THEN Cep!AfterMatch(moved[p]) ELSE moved[p]]],
                  out |-> Cep!Picked(all, completed)]
    BY <1>1, <1>2, <1>3 DEF Cep!Process
  <2>3. QED
    BY <2>1, <2>2, Zenon
<1>7. \A p \in DOMAIN Patterns : moved[p] = Moved(e, p)
  BY <1>1 DEF Moved
<1>8. completed = Done(e)
  BY <1>2, <1>7 DEF Done
<1>9. \A p \in DOMAIN Patterns : all[p] = Match(e, p)
  BY <1>3, <1>7 DEF Match
<1>10. [p \in DOMAIN Patterns |-> IF p \in completed THEN Cep!AfterMatch(moved[p]) ELSE moved[p]]
         = [p \in DOMAIN Patterns |-> Settled(e, p)]
  BY <1>7, <1>8 DEF Settled
<1>11. result.out = Picked(all, completed)
  BY <1>6
<1>12. IsSeq(result.out) /\ ToSet(result.out) = {all[p] : p \in {j \in 1 .. Len(all) : j \in completed}}
  <2>1. Len(all) \in Nat
    BY <1>4, <1>5
  <2>2. /\ IsSeq(Picked(all, completed))
        /\ ToSet(Picked(all, completed)) = {all[p] : p \in {j \in 1 .. Len(all) : j \in completed}}
    BY <2>1, PickedElements
  <2>3. QED
    BY <1>11, <2>2, Zenon
<1>13. {all[p] : p \in {j \in 1 .. Len(all) : j \in completed}} = {Match(e, p) : p \in Done(e)}
  <2>1. {j \in 1 .. Len(all) : j \in completed} = Done(e)
    BY <1>2, <1>4, <1>5, <1>8
  <2>2. \A p \in Done(e) : all[p] = Match(e, p)
    BY <1>9 DEF Done
  <2>3. QED
    BY <2>1, <2>2
<1>14. result.state = [state EXCEPT ![e.entity] = [p \in DOMAIN Patterns |-> Settled(e, p)]]
  <2>1. PICK row : row = [p \in DOMAIN Patterns |->
                            IF p \in completed THEN Cep!AfterMatch(moved[p]) ELSE moved[p]]
    OBVIOUS
  <2>2. result.state = [state EXCEPT ![e.entity] = row]
    BY <1>6, <2>1
  <2>3. row = [p \in DOMAIN Patterns |-> Settled(e, p)]
    BY <1>10, <2>1, Zenon
  <2>4. QED
    BY <2>2, <2>3, Zenon
<1>15. QED
  BY <1>12, <1>13, <1>14, Zenon

\* What becomes of the match of an entity and a pattern with an event of the entity:
\* it is complete and starts over, or goes on.
LEMMA MatchMoves ==
  ASSUME MatchesInv, NEW n, n = Len(lineage) + 1, NEW e, e.id = n, e.ts \in Int,
         e.entity \in Entities, lineage'[n] = e, Len(lineage) \in Nat,
         Events \subseteq 1 .. Len(lineage), \A k \in 1 .. Len(lineage) : lineage'[k] = lineage[k],
         NEW p \in DOMAIN Patterns
  PROVE  /\ Matching(lineage', Moved(e, p), Pending(e.entity, p) \cup {n}, p)
         /\ Steps(p) # << >> => FindsAll(lineage', Moved(e, p), Pending(e.entity, p) \cup {n}, p)
         /\ p \in Done(e) =>
              /\ Complete(Moved(e, p), p, n)
              /\ Settled(e, p).currentStep = 0 /\ Settled(e, p).matched = << >>
              /\ Settled(e, p).startedAt \in Int
         /\ p \notin Done(e) =>
              /\ Settled(e, p) = Moved(e, p)
              /\ Moved(e, p).currentStep = 0 \/ Moved(e, p).currentStep < Len(Steps(p))
<1>1. PICK H : H = Pending(e.entity, p)
  OBVIOUS
<1>2. PICK m : m = state[e.entity][p]
  OBVIOUS
<1>3. PICK moved : moved = Moved(e, p)
  OBVIOUS
<1>4. PICK b : b = Cep!AfterTimeout(m, e, Patterns[p])
  OBVIOUS
<1>5. PartialInv(e.entity, p)
  BY DEF MatchesInv
<1>6. H \subseteq Events
  BY <1>1 DEF Pending, EventsOf
<1>7. H \subseteq 1 .. n - 1 /\ n \in Nat /\ \A k \in H : lineage'[k] = lineage[k]
  <2>1. n - 1 = Len(lineage) /\ n \in Nat
    OBVIOUS
  <2>2. H \subseteq 1 .. Len(lineage)
    BY <1>6
  <2>3. QED
    BY <2>1, <2>2
<1>8. Matching(lineage', m, H, p)
  <2>1. Matching(lineage, m, H, p)
    BY <1>1, <1>2, <1>5 DEF PartialInv
  <2>2. QED
    BY <1>7, <2>1, MatchingSame
<1>9. moved = Cep!Advance(m, e, Patterns[p])
  BY <1>2, <1>3 DEF Moved
<1>10. Matching(lineage', moved, H \cup {n}, p) /\ Took(moved, b, e, p)
  BY <1>4, <1>7, <1>8, <1>9, MatchAdvances
<1>11. ASSUME Steps(p) # << >> PROVE FindsAll(lineage', moved, H \cup {n}, p)
  <2>1. FindsAll(lineage, m, H, p)
    BY <1>1, <1>2, <1>5, <1>11 DEF PartialInv
  <2>2. FindsAll(lineage', m, H, p)
    <3>1. ASSUME NEW f \in H, Starts(lineage', H, p, f) PROVE Greedy(lineage', m, H, p, f)
      <4>1. Starts(lineage, H, p, f)
        BY <1>7, <3>1 DEF Starts
      <4>2. Greedy(lineage, m, H, p, f)
        BY <2>1, <4>1 DEF FindsAll
      <4>3. QED
        BY <1>7, <4>2 DEF Greedy
    <3>2. QED
      BY <3>1 DEF FindsAll
  <2>3. QED
    BY <1>7, <1>8, <1>9, <1>11, <2>2, MatchFinds
<1>12. Len(Steps(p)) \in Nat /\ moved.currentStep \in Nat /\ moved.currentStep <= Len(Steps(p))
       /\ m.currentStep \in Nat /\ moved.startedAt \in Int
  BY <1>8, <1>10, PatternTypes DEF Matching
<1>13. b.currentStep = 0 \/ b.currentStep = m.currentStep
  BY <1>4 DEF Cep!AfterTimeout
<1>14. m.currentStep = 0 \/ m.currentStep < Len(Steps(p))
  BY <1>2, <1>5 DEF PartialInv
<1>15. p \in Done(e) <=> moved.currentStep > 0 /\ moved.currentStep >= Len(Steps(p))
  BY <1>3 DEF Done, Cep!Completes, Steps
<1>16. ASSUME p \in Done(e)
       PROVE  /\ Complete(moved, p, n)
              /\ Settled(e, p).currentStep = 0 /\ Settled(e, p).matched = << >>
              /\ Settled(e, p).startedAt \in Int
  <2>1. moved.currentStep > 0 /\ moved.currentStep = Len(Steps(p))
    BY <1>12, <1>15, <1>16
  <2>2. Takes(b, e, p)
    <3>1. ASSUME moved = b PROVE FALSE
      BY <1>12, <1>13, <1>14, <2>1, <3>1
    <3>2. QED
      BY <1>10, <3>1 DEF Took
  <2>3. /\ moved = [currentStep |-> moved.currentStep, startedAt |-> moved.startedAt,
                    matched |-> moved.matched]
        /\ moved.currentStep = b.currentStep + 1 /\ moved.matched[b.currentStep + 1] = e
    BY <1>10, <2>2 DEF Took
  <2>4. Complete(moved, p, n)
    <3>1. moved.matched[moved.currentStep] = e
      BY <2>3, Zenon
    <3>2. QED
      BY <2>1, <3>1 DEF Complete
  <2>5. Settled(e, p) = [moved EXCEPT !.currentStep = 0, !.matched = << >>]
    BY <1>3, <1>16 DEF Settled, Cep!AfterMatch
  <2>6. Settled(e, p) = [currentStep |-> 0, startedAt |-> moved.startedAt, matched |-> << >>]
    BY <2>3, <2>5
  <2>7. QED
    BY <1>12, <2>4, <2>6
<1>17. ASSUME p \notin Done(e)
       PROVE  /\ Settled(e, p) = moved
              /\ moved.currentStep = 0 \/ moved.currentStep < Len(Steps(p))
  <2>1. Settled(e, p) = moved
    BY <1>3, <1>17 DEF Settled
  <2>2. QED
    BY <1>12, <1>15, <1>17, <2>1
<1>18. QED
  BY <1>1, <1>3, <1>10, <1>11, <1>16, <1>17, Zenon

\* An event moves the matches of its entity and reports those it completes.
LEMMA MatchesProcess ==
  ASSUME MatchesInv, kind = "cep", NEW event, event.entity \in Entities, event.ts \in Int,
         Process(event)
  PROVE  MatchesInv'
<1>0. PICK n : n = Len(lineage) + 1
  OBVIOUS
<1>1. PICK e : e = [id |-> n, entity |-> event.entity, ts |-> event.ts,
                    pos |-> event.pos, speed |-> event.speed]
  OBVIOUS
<1>2. PICK x0 : x0 = event.entity
  OBVIOUS
<1>3. e # Closed /\ e.entity = x0 /\ e.id = n /\ e.ts \in Int /\ x0 \in Entities
  BY <1>1, <1>2 DEF Closed
<1>4. PICK result : result = Cep!Process(state, e)
  OBVIOUS
<1>5. Called(e, result)
  BY <1>0, <1>1, <1>4 DEF Process, Processing
<1>6. PICK row : row = [p \in DOMAIN Patterns |-> Settled(e, p)]
  OBVIOUS
<1>7. /\ result.state = [state EXCEPT ![x0] = row]
      /\ IsSeq(result.out) /\ ToSet(result.out) = {Match(e, p) : p \in Done(e)}
  <2>1. result.state = [state EXCEPT ![e.entity] = [p \in DOMAIN Patterns |-> Settled(e, p)]]
        /\ IsSeq(result.out) /\ ToSet(result.out) = {Match(e, p) : p \in Done(e)}
    BY <1>4, MatchesOut
  <2>2. QED
    BY <1>3, <1>6, <2>1, Zenon
<1>8. IsSeq(lineage) /\ IsSeq(reports) /\ DOMAIN state = Entities
  BY DEF MatchesInv
<1>9. /\ IsSeq(lineage') /\ Len(lineage) \in Nat /\ Events \subseteq 1 .. Len(lineage)
      /\ Len(lineage') = n /\ lineage'[n] = e
      /\ \A m \in 1 .. Len(lineage) : lineage'[m] = lineage[m]
      /\ Events' = Events \cup {n} /\ IsSeq(reports')
      /\ Reported' = Reported \cup {[at |-> n, what |-> o] : o \in ToSet(result.out)}
  BY <1>0, <1>3, <1>5, <1>7, <1>8, CalledPlaces
<1>10. \A x : EventsOf(x)' = EventsOf(x) \cup (IF x = x0 THEN {n} ELSE {})
  BY <1>0, <1>3, <1>5, <1>7, <1>8, EventCalled
<1>11. (\A x : EventsOf(x) \subseteq Events) /\ \A k \in Events : k \in Nat /\ k < n /\ k \in 1 .. Len(lineage)
  <2>1. \A k \in 1 .. Len(lineage) : k \in Nat /\ k < n
    BY <1>0, <1>9
  <2>2. QED
    BY <1>9, <2>1 DEF EventsOf
<1>12. Reported' = Reported \cup {[at |-> n, what |-> Match(e, p)] : p \in Done(e)}
  BY <1>7, <1>9
<1>13. state' = [state EXCEPT ![x0] = row] /\ DOMAIN state' = Entities
  <2>1. state' = result.state
    BY <1>5 DEF Called
  <2>2. QED
    BY <1>7, <1>8, <2>1
<1>14. Done(e) \subseteq DOMAIN Patterns
  BY DEF Done
<1>15. ASSUME NEW p \in DOMAIN Patterns
       PROVE  /\ Matching(lineage', Moved(e, p), Pending(x0, p) \cup {n}, p)
              /\ Steps(p) # << >> => FindsAll(lineage', Moved(e, p), Pending(x0, p) \cup {n}, p)
              /\ p \in Done(e) =>
                   /\ Complete(Moved(e, p), p, n)
                   /\ Settled(e, p).currentStep = 0 /\ Settled(e, p).matched = << >>
                   /\ Settled(e, p).startedAt \in Int
              /\ p \notin Done(e) =>
                   /\ Settled(e, p) = Moved(e, p)
                   /\ Moved(e, p).currentStep = 0 \/ Moved(e, p).currentStep < Len(Steps(p))
  BY <1>0, <1>3, <1>9, MatchMoves
<1>16. \A x : \A k \in EventsOf(x) : SameWindow(k, Len(lineage))' <=> SameWindow(k, Len(lineage))
  <2>1. \A x : \A k \in EventsOf(x) : k \in 1 .. Len(lineage)
    BY <1>9, <1>11
  <2>2. \A k \in 1 .. Len(lineage) : SameWindow(k, Len(lineage))' <=> SameWindow(k, Len(lineage))
    BY <1>0, <1>3, <1>9 DEF SameWindow, Closed
  <2>3. QED
    BY <2>1, <2>2
<1>17. SameWindow(n, Len(lineage))'
  BY <1>0, <1>3, <1>9 DEF SameWindow, Closed
\* Places of the new matches.
<1>18. ASSUME NEW p \in Done(e)
       PROVE  /\ Moved(e, p).currentStep \in Nat
              /\ DOMAIN Moved(e, p).matched = 1 .. Moved(e, p).currentStep
              /\ \A i \in 1 .. Moved(e, p).currentStep :
                   /\ Moved(e, p).matched[i].id \in Pending(x0, p) \cup {n}
                   /\ Moved(e, p).matched[i].entity = x0
                   /\ lineage'[Moved(e, p).matched[i].id] = Moved(e, p).matched[i]
              /\ Moved(e, p).matched[1].entity = x0
  <2>1. Matching(lineage', Moved(e, p), Pending(x0, p) \cup {n}, p) /\ Complete(Moved(e, p), p, n)
    BY <1>14, <1>15
  <2>2. PICK m : m = Moved(e, p)
    OBVIOUS
  <2>3. m.currentStep \in Nat /\ m.currentStep > 0 /\ DOMAIN m.matched = 1 .. m.currentStep
    <3>1. m.currentStep \in Nat /\ IsSeq(m.matched) /\ Len(m.matched) = m.currentStep
      BY <2>1, <2>2 DEF Matching
    <3>2. m.currentStep > 0
      BY <2>1, <2>2 DEF Complete
    <3>3. QED
      BY <3>1, <3>2, LenProperties DEF IsSeq
  <2>4. \A i \in 1 .. m.currentStep :
          m.matched[i].id \in Pending(x0, p) \cup {n} /\ lineage'[m.matched[i].id] = m.matched[i]
    BY <2>1, <2>2 DEF Matching
  <2>5. \A k \in Pending(x0, p) \cup {n} : lineage'[k].entity = x0
    BY <1>3, <1>9, <1>11 DEF Pending, EventsOf
  <2>6. \A i \in 1 .. m.currentStep : m.matched[i].entity = x0
    BY <2>4, <2>5
  <2>7. 1 \in 1 .. m.currentStep
    BY <2>3
  <2>8. QED
    BY <2>2, <2>3, <2>4, <2>6, <2>7, Zenon
<1>19. \A r \in Reported : r.at \in Events /\ r.at < n
  <2>1. \A r \in Reported : r.at \in Events
    BY DEF MatchesInv, IsMatch
  <2>2. QED
    BY <1>11, <2>1
<1>20. ASSUME NEW x \in Entities, NEW p \in DOMAIN Patterns
       PROVE  Pending(x, p)' = IF x = x0 THEN IF p \in Done(e) THEN {} ELSE Pending(x, p) \cup {n}
                                         ELSE Pending(x, p)
  <2>1. ASSUME NEW k
        PROVE  (\A r \in Reported' : r.what.pattern = p /\ r.what.events[1].entity = x => r.at < k)
               <=> /\ \A r \in Reported : r.what.pattern = p /\ r.what.events[1].entity = x => r.at < k
                   /\ x = x0 /\ p \in Done(e) => n < k
    <3>1. ASSUME NEW q \in Done(e), NEW r, r = [at |-> n, what |-> Match(e, q)]
          PROVE  r.at = n /\ r.what.pattern = q /\ r.what.events[1].entity = x0
      <4>1. Match(e, q).pattern = q /\ Match(e, q).events[1].entity = x0
        BY <1>18 DEF Match
      <4>2. QED
        BY <3>1, <4>1
    <3>2. ASSUME \A r \in Reported' : r.what.pattern = p /\ r.what.events[1].entity = x => r.at < k,
                 x = x0, p \in Done(e)
          PROVE  n < k
      <4>1. PICK r : r = [at |-> n, what |-> Match(e, p)]
        OBVIOUS
      <4>2. r \in Reported' /\ r.at = n /\ r.what.pattern = p /\ r.what.events[1].entity = x0
        BY <1>12, <3>1, <3>2, <4>1
      <4>3. QED
        BY <3>2, <4>2
    <3>3. ASSUME \A r \in Reported : r.what.pattern = p /\ r.what.events[1].entity = x => r.at < k,
                 x = x0 /\ p \in Done(e) => n < k,
                 NEW r \in Reported', r.what.pattern = p, r.what.events[1].entity = x
          PROVE  r.at < k
      <4>1. CASE r \in Reported
        BY <3>3, <4>1
      <4>2. CASE r \notin Reported
        <5>1. PICK q \in Done(e) : r = [at |-> n, what |-> Match(e, q)]
          BY <1>12, <4>2
        <5>2. r.at = n /\ r.what.pattern = q /\ r.what.events[1].entity = x0
          BY <3>1, <5>1
        <5>3. QED
          BY <3>3, <5>2
      <4>3. QED
        BY <4>1, <4>2
    <3>4. Reported \subseteq Reported'
      BY <1>12
    <3>5. QED
      BY <3>2, <3>3, <3>4
  <2>2. \A k \in EventsOf(x)' : ~(n < k)
    <3>1. n \in Nat /\ \A k \in EventsOf(x)' : k = n \/ (k \in Nat /\ k < n)
      <4>1. n \in Nat
        BY <1>0, <1>9
      <4>2. \A k \in EventsOf(x)' : k = n \/ k \in Events
        BY <1>10, <1>11
      <4>3. QED
        BY <1>11, <4>1, <4>2
    <3>2. QED
      BY <3>1
  <2>3. \A k : k \in Pending(x, p)' <=>
          /\ k \in EventsOf(x)' /\ SameWindow(k, Len(lineage))'
          /\ \A r \in Reported : r.what.pattern = p /\ r.what.events[1].entity = x => r.at < k
          /\ x = x0 /\ p \in Done(e) => n < k
    BY <2>1 DEF Pending
  <2>4. CASE x = x0 /\ p \in Done(e)
    <3>1. \A k : k \notin Pending(x, p)'
      BY <2>2, <2>3, <2>4
    <3>2. QED
      BY <2>4, <3>1
  <2>5. CASE ~(x = x0 /\ p \in Done(e))
    <3>1. \A k : k \in Pending(x, p) <=>
            /\ k \in EventsOf(x) /\ SameWindow(k, Len(lineage))
            /\ \A r \in Reported : r.what.pattern = p /\ r.what.events[1].entity = x => r.at < k
      BY DEF Pending
    <3>2. \A k : k \in EventsOf(x) => (k \in Pending(x, p)' <=> k \in Pending(x, p))
      BY <1>10, <1>16, <2>3, <2>5, <3>1, Zenon
    <3>3. \A k : k \in Pending(x, p) => k \in EventsOf(x)
      BY <3>1
    <3>4. \A k : k \in Pending(x, p)' => k \in EventsOf(x) \/ (x = x0 /\ k = n)
      BY <1>10, <2>3
    <3>5. x = x0 => n \in Pending(x, p)'
      BY <1>10, <1>17, <1>19, <2>3, <2>5
    <3>6. QED
      BY <2>5, <3>2, <3>3, <3>4, <3>5
  <2>6. QED
    BY <2>4, <2>5
<1>21. ASSUME NEW x \in Entities, NEW p \in DOMAIN Patterns PROVE PartialInv(x, p)'
  <2>1. CASE x # x0
    <3>1. state'[x] = state[x] /\ Pending(x, p)' = Pending(x, p)
      BY <1>8, <1>13, <1>20, <2>1
    <3>2. PICK m, H : m = state[x][p] /\ H = Pending(x, p)
      OBVIOUS
    <3>3. \A k \in H : lineage'[k] = lineage[k]
      BY <1>9, <1>11, <3>2 DEF Pending
    <3>4. PartialInv(x, p)
      BY DEF MatchesInv
    <3>5. Matching(lineage', m, H, p)
      <4>1. Matching(lineage, m, H, p)
        BY <3>2, <3>4 DEF PartialInv
      <4>2. QED
        BY <3>3, <4>1, MatchingSame
    <3>6. FindsAll(lineage, m, H, p) => FindsAll(lineage', m, H, p)
      <4>1. ASSUME FindsAll(lineage, m, H, p), NEW f \in H, Starts(lineage', H, p, f)
            PROVE  Greedy(lineage', m, H, p, f)
        <5>1. Starts(lineage, H, p, f)
          BY <3>3, <4>1 DEF Starts
        <5>2. Greedy(lineage, m, H, p, f)
          BY <4>1, <5>1 DEF FindsAll
        <5>3. QED
          BY <3>3, <5>2 DEF Greedy
      <4>2. QED
        BY <4>1 DEF FindsAll
    <3>7. QED
      BY <3>1, <3>2, <3>4, <3>5, <3>6, Zenon DEF PartialInv
  <2>2. CASE x = x0
    <3>1. state'[x][p] = Settled(e, p)
      <4>1. state'[x] = row
        BY <1>8, <1>13, <2>2
      <4>2. QED
        BY <1>6, <4>1
    <3>2. CASE p \in Done(e)
      <4>1. Matching(lineage', Settled(e, p), {}, p) /\ FindsAll(lineage', Settled(e, p), {}, p)
        BY <1>15, <3>2, NothingMatched
      <4>2. Pending(x, p)' = {} /\ Settled(e, p).currentStep = 0
        BY <1>15, <1>20, <2>2, <3>2
      <4>3. QED
        BY <3>1, <4>1, <4>2, Zenon DEF PartialInv
    <3>3. CASE p \notin Done(e)
      <4>1. Pending(x, p)' = Pending(x0, p) \cup {n}
        BY <1>20, <2>2, <3>3
      <4>2. QED
        BY <1>15, <3>1, <3>3, <4>1, Zenon DEF PartialInv
    <3>4. QED
      BY <3>2, <3>3
  <2>3. QED
    BY <2>1, <2>2
<1>22. ASSUME NEW r \in Reported PROVE IsMatch(r)'
  <2>1. IsMatch(r)
    BY DEF MatchesInv
  <2>2. Events \subseteq Events' /\ \A x : EventsOf(x) \subseteq EventsOf(x)'
    BY <1>9, <1>10
  <2>3. QED
    BY <1>9, <2>1, <2>2, IsMatchStays
<1>23. ASSUME NEW p \in Done(e), NEW r, r = [at |-> n, what |-> Match(e, p)] PROVE IsMatch(r)'
  <2>1. /\ r.at = n /\ r.what.pattern = p /\ r.what.events = Moved(e, p).matched
        /\ r.what.events[1].entity = x0
    BY <1>18, <1>23 DEF Match
  <2>2. Pending(x0, p) \cup {n} \subseteq EventsTo(x0, n)'
    <3>1. \A k \in EventsOf(x0) : k \in EventsOf(x0)' /\ k <= n /\ k \in 1 .. Len(lineage)
      <4>1. n \in Nat
        BY <1>0, <1>9
      <4>2. \A k \in EventsOf(x0) : k \in Nat /\ k < n /\ k \in 1 .. Len(lineage)
        BY <1>11
      <4>3. \A k \in EventsOf(x0) : k \in EventsOf(x0)'
        BY <1>10
      <4>4. QED
        BY <4>1, <4>2, <4>3
    <3>2. \A k \in EventsOf(x0) : SameWindow(k, Len(lineage)) => SameWindow(k, n)'
      <4>1. \A k \in EventsOf(x0) : SameWindow(k, Len(lineage)) => SameWindow(k, Len(lineage))'
        BY <1>16
      <4>2. \A k : SameWindow(k, Len(lineage))' => SameWindow(k, n)'
        BY <1>9 DEF SameWindow
      <4>3. QED
        BY <4>1, <4>2
    <3>3. n \in EventsOf(x0)' /\ n <= n /\ SameWindow(n, n)'
      BY <1>0, <1>9, <1>10, <1>17
    <3>4. QED
      BY <3>1, <3>2, <3>3 DEF EventsTo, Pending
  <2>3. Matching(lineage', Moved(e, p), EventsTo(x0, n)', p)
    <3>1. Matching(lineage', Moved(e, p), Pending(x0, p) \cup {n}, p)
      BY <1>14, <1>15
    <3>2. QED
      BY <2>2, <3>1, MatchingSame
  <2>4. Complete(Moved(e, p), p, n)
    BY <1>14, <1>15
  <2>5. n \in Events' /\ p \in DOMAIN Patterns
    BY <1>9, <1>14
  <2>6. QED
    BY <2>1, <2>3, <2>4, <2>5, Zenon DEF IsMatch
<1>24. ASSUME NEW r \in Reported', NEW q \in Reported' PROVE ShareNone(r, q)
  <2>1. ASSUME NEW old \in Reported, NEW p \in Done(e), old.what.pattern = p,
               NEW i \in DOMAIN Moved(e, p).matched, NEW j \in DOMAIN old.what.events
        PROVE  Moved(e, p).matched[i].id # old.what.events[j].id
    <3>1. PICK x : x = old.what.events[1].entity
      OBVIOUS
    <3>2. IsMatch(old)
      BY DEF MatchesInv
    <3>3. PICK m : Matching(lineage, m, EventsTo(x, old.at), p) /\ m.matched = old.what.events
      BY <2>1, <3>1, <3>2, Zenon DEF IsMatch
    <3>4. j \in 1 .. m.currentStep
      <4>1. IsSeq(m.matched) /\ Len(m.matched) = m.currentStep
        BY <3>3 DEF Matching
      <4>2. DOMAIN m.matched = 1 .. m.currentStep
        BY <4>1, LenProperties DEF IsSeq
      <4>3. QED
        BY <3>3, <4>2
    <3>5. PICK k : k = old.what.events[j].id
      OBVIOUS
    <3>6. k \in EventsOf(x) /\ k <= old.at
      BY <3>3, <3>4, <3>5 DEF Matching, EventsTo
    <3>7. PICK h : h = Moved(e, p).matched[i].id
      OBVIOUS
    <3>8. h \in Pending(x0, p) \cup {n} /\ lineage'[h].entity = x0
      BY <1>18, <3>7
    <3>9. CASE x = x0
      <4>1. old.at < h
        <5>1. h \in Pending(x0, p) => old.at < h
          BY <2>1, <3>1, <3>9 DEF Pending
        <5>2. old.at < n
          BY <1>19
        <5>3. QED
          BY <3>8, <5>1, <5>2
      <4>2. old.at \in Nat /\ k \in Nat
        BY <1>11, <1>19, <3>6
      <4>3. h # k
        BY <3>6, <4>1, <4>2
      <4>4. QED
        BY <3>5, <3>7, <4>3
    <3>10. CASE x # x0
      <4>1. lineage[k].entity = x /\ lineage'[k] = lineage[k]
        BY <1>9, <1>11, <3>6 DEF EventsOf
      <4>2. h # k
        BY <3>8, <3>10, <4>1
      <4>3. QED
        BY <3>5, <3>7, <4>2
    <3>11. QED
      BY <3>9, <3>10
  <2>2. CASE r \in Reported /\ q \in Reported
    BY <2>2 DEF MatchesInv
  <2>3. CASE r \in Reported /\ q \notin Reported
    <3>1. PICK p \in Done(e) : q = [at |-> n, what |-> Match(e, p)]
      BY <1>12, <2>3
    <3>2. q.what.pattern = p /\ q.what.events = Moved(e, p).matched
      BY <3>1 DEF Match
    <3>3. QED
      BY <2>1, <2>3, <3>2 DEF ShareNone
  <2>4. CASE r \notin Reported /\ q \in Reported
    <3>1. PICK p \in Done(e) : r = [at |-> n, what |-> Match(e, p)]
      BY <1>12, <2>4
    <3>2. r.what.pattern = p /\ r.what.events = Moved(e, p).matched
      BY <3>1 DEF Match
    <3>3. QED
      BY <2>1, <2>4, <3>2 DEF ShareNone
  <2>5. CASE r \notin Reported /\ q \notin Reported
    <3>1. PICK p \in Done(e), pp \in Done(e) :
            r = [at |-> n, what |-> Match(e, p)] /\ q = [at |-> n, what |-> Match(e, pp)]
      BY <1>12, <2>5
    <3>2. r.what.pattern = p /\ q.what.pattern = pp
      BY <3>1 DEF Match
    <3>3. p = pp => r = q
      BY <3>1
    <3>4. QED
      BY <3>2, <3>3 DEF ShareNone
  <2>6. QED
    BY <2>2, <2>3, <2>4, <2>5
<1>25. \A r \in Reported' : IsMatch(r)'
  BY <1>12, <1>22, <1>23
<1>26. \A r, q \in Reported' : ShareNone(r, q)
  BY <1>24
<1>27. \A x \in Entities, p \in DOMAIN Patterns : PartialInv(x, p)'
  BY <1>21
<1>28. QED
  BY <1>9, <1>13, <1>25, <1>26, <1>27 DEF MatchesInv

\* A window close drops what is matched and reports nothing.
LEMMA MatchesClose ==
  ASSUME MatchesInv, kind = "cep", WindowClose
  PROVE  MatchesInv'
<1>1. PICK result : result = Cep!Close(state)
  OBVIOUS
<1>2. Called(Closed, result) /\ result.out = << >>
      /\ result.state = [x \in Entities |-> [p \in DOMAIN Patterns |-> Cep!Idle]]
  BY <1>1 DEF WindowClose, Closing, Cep!Close, Cep!Initial
<1>3. IsSeq(lineage) /\ IsSeq(reports) /\ IsSeq(result.out) /\ ToSet(result.out) = {}
  BY <1>2, EmptyIsSeq, ToSetEmpty DEF MatchesInv
<1>4. PICK n : n = Len(lineage) + 1
  OBVIOUS
<1>5. /\ IsSeq(lineage') /\ Len(lineage) \in Nat /\ Events \subseteq 1 .. Len(lineage)
      /\ Len(lineage') = n /\ lineage'[n] = Closed
      /\ \A m \in 1 .. Len(lineage) : lineage'[m] = lineage[m]
      /\ Events' = Events /\ IsSeq(reports')
      /\ Reported' = Reported \cup {[at |-> n, what |-> o] : o \in ToSet(result.out)}
  <2>1. /\ IsSeq(lineage') /\ Len(lineage) \in Nat /\ Events \subseteq 1 .. Len(lineage)
        /\ Len(lineage') = Len(lineage) + 1 /\ lineage'[Len(lineage) + 1] = Closed
        /\ \A m \in 1 .. Len(lineage) : lineage'[m] = lineage[m]
        /\ Events' = Events /\ IsSeq(reports')
        /\ Reported' = Reported \cup {[at |-> Len(lineage) + 1, what |-> o] : o \in ToSet(result.out)}
    BY <1>2, <1>3, CalledPlaces
  <2>2. QED
    BY <1>4, <2>1, Zenon
<1>6. Reported' = Reported
  BY <1>3, <1>5
<1>7. \A x : EventsOf(x)' = EventsOf(x)
  BY <1>2, <1>3, CloseCalled
<1>8. state' = [x \in Entities |-> [p \in DOMAIN Patterns |-> Cep!Idle]]
  BY <1>2 DEF Called
<1>9. \A k \in 1 .. n : ~SameWindow(k, n)'
  <2>1. n \in Nat
    BY <1>4, <1>5
  <2>2. \A k \in 1 .. n : n \in k .. n
    BY <2>1
  <2>3. QED
    BY <1>5, <2>2 DEF SameWindow, Closed
<1>10. \A x, p : Pending(x, p)' = {}
  <2>1. \A x : \A k \in EventsOf(x)' : k \in 1 .. n
    <3>1. \A x : EventsOf(x) \subseteq Events
      BY DEF EventsOf
    <3>2. \A k \in 1 .. Len(lineage) : k \in 1 .. n
      BY <1>4, <1>5
    <3>3. QED
      BY <1>5, <1>7, <3>1, <3>2
  <2>2. \A x : \A k \in EventsOf(x)' : ~SameWindow(k, Len(lineage))'
    BY <1>5, <1>9, <2>1
  <2>3. QED
    BY <2>2 DEF Pending
<1>11. ASSUME NEW x \in Entities, NEW p \in DOMAIN Patterns PROVE PartialInv(x, p)'
  <2>1. PICK m : m = state'[x][p]
    OBVIOUS
  <2>2. m.currentStep = 0 /\ m.startedAt \in Int /\ m.matched = << >>
    BY <1>8, <2>1 DEF Cep!Idle
  <2>3. Matching(lineage', m, {}, p) /\ FindsAll(lineage', m, {}, p)
    BY <2>2, NothingMatched
  <2>4. QED
    BY <1>10, <2>1, <2>2, <2>3 DEF PartialInv
<1>12. ASSUME NEW r \in Reported PROVE IsMatch(r)'
  <2>1. IsMatch(r)
    BY DEF MatchesInv
  <2>2. Events \subseteq Events' /\ \A x : EventsOf(x) \subseteq EventsOf(x)'
    BY <1>5, <1>7
  <2>3. QED
    BY <1>5, <2>1, <2>2, IsMatchStays
<1>13. \A r \in Reported' : IsMatch(r)'
  BY <1>6, <1>12
<1>14. \A r, q \in Reported' : ShareNone(r, q)
  BY <1>6 DEF MatchesInv
<1>15. DOMAIN state' = Entities
  BY <1>8
<1>16. QED
  BY <1>5, <1>11, <1>13, <1>14, <1>15 DEF MatchesInv

\* A restarted operator has the matches of the one before it.
LEMMA MatchesRestart ==
  ASSUME MatchesInv, kind = "cep", Restart \/ UNCHANGED vars
  PROVE  MatchesInv'
<1>1. state' = state /\ lineage' = lineage /\ reports' = reports
  BY DEF Restart, Restored, vars
<1>2. Events' = Events /\ Reported' = Reported
  BY <1>1 DEF Events, Reported
<1>3. \A x : EventsOf(x)' = EventsOf(x)
  BY <1>1, <1>2 DEF EventsOf
<1>4. \A k, n : SameWindow(k, n)' <=> SameWindow(k, n)
  BY <1>1 DEF SameWindow
<1>5. \A x, p : Pending(x, p)' = Pending(x, p)
  BY <1>1, <1>2, <1>3, <1>4 DEF Pending
<1>6. ASSUME NEW x \in Entities, NEW p \in DOMAIN Patterns PROVE PartialInv(x, p)'
  <2>1. PartialInv(x, p)
    BY DEF MatchesInv
  <2>2. QED
    BY <1>1, <1>5, <2>1, Zenon DEF PartialInv
<1>7. IsSeq(lineage) /\ IsSeq(reports) /\ DOMAIN state = Entities
  BY DEF MatchesInv
<1>8. Len(lineage) \in Nat /\ Events \subseteq 1 .. Len(lineage)
  BY <1>7, AppendSeq, AppendPlaces DEF Events
<1>9. ASSUME NEW r \in Reported PROVE IsMatch(r)'
  <2>1. IsMatch(r)
    BY DEF MatchesInv
  <2>2. Events \subseteq Events' /\ \A x : EventsOf(x) \subseteq EventsOf(x)'
    BY <1>2, <1>3
  <2>3. \A k \in 1 .. Len(lineage) : lineage'[k] = lineage[k]
    BY <1>1
  <2>4. QED
    BY <1>8, <2>1, <2>2, <2>3, IsMatchStays
<1>10. \A r, q \in Reported' : ShareNone(r, q)
  BY <1>2 DEF MatchesInv
<1>11. QED
  BY <1>1, <1>2, <1>6, <1>7, <1>9, <1>10 DEF MatchesInv

PatternsInv == kind \in Kinds /\ (kind = "cep" => MatchesInv)

\* What the invariant promises of the matches that are reported.
LEMMA MatchesPromise == PatternsInv => CepMatchesAreOccurrences
<1> SUFFICES ASSUME PatternsInv, NEW r \in ReportsOf("cep")
             PROVE  LET pattern == Patterns[r.what.pattern]
                        es      == r.what.events
                        last    == Len(es)
                    IN  /\ last = Len(pattern.steps) /\ es[last].id = r.at
                        /\ \A i \in 1 .. last :
                             /\ es[i].entity = es[1].entity
                             /\ Cep!Satisfies(pattern.steps[i], es[i])
                             /\ es[i].ts - es[1].ts <= pattern.within
                             /\ SameWindow(es[i].id, r.at)
                        /\ \A i, j \in 1 .. last : i < j => es[i].id < es[j].id
                        /\ \A q \in ReportsOf("cep") :
                             q.what.pattern = r.what.pattern /\ q # r =>
                               \A i \in DOMAIN es, j \in DOMAIN q.what.events :
                                 es[i].id # q.what.events[j].id
  BY DEF CepMatchesAreOccurrences
<1>1. MatchesInv /\ ReportsOf("cep") = Reported
  BY DEF ReportsOf, PatternsInv, Reported
<1>2. PICK p, x, es : p = r.what.pattern /\ es = r.what.events /\ x = es[1].entity
  OBVIOUS
<1>3. PICK m : Matching(lineage, m, EventsTo(x, r.at), p) /\ Complete(m, p, r.at) /\ m.matched = es
  <2>1. IsMatch(r)
    BY <1>1 DEF MatchesInv
  <2>2. QED
    BY <1>2, <2>1, Zenon DEF IsMatch
<1>4. /\ m.currentStep = Len(Steps(p)) /\ m.currentStep > 0 /\ es[m.currentStep].id = r.at
      /\ Len(es) = m.currentStep /\ m.currentStep \in Nat /\ es[1].ts = m.startedAt
  BY <1>3 DEF Matching, Complete
<1>5. ASSUME NEW i \in 1 .. Len(es)
      PROVE  /\ es[i].entity = x /\ Cep!Satisfies(Steps(p)[i], es[i])
             /\ es[i].ts - es[1].ts <= Patterns[p].within
             /\ SameWindow(es[i].id, r.at)
  <2>1. /\ es[i].id \in EventsTo(x, r.at) /\ lineage[es[i].id] = es[i]
        /\ Fits(p, i, es[i]) /\ es[i].ts - m.startedAt <= Patterns[p].within
    BY <1>3, <1>4 DEF Matching
  <2>2. QED
    BY <1>4, <2>1 DEF EventsTo, EventsOf, Fits
<1>6. \A i, j \in 1 .. Len(es) : i < j => es[i].id < es[j].id
  BY <1>3, <1>4 DEF Matching
<1>7. \A q \in Reported : q.what.pattern = p /\ q # r =>
        \A i \in DOMAIN es, j \in DOMAIN q.what.events : es[i].id # q.what.events[j].id
  BY <1>1, <1>2 DEF MatchesInv, ShareNone
<1>8. QED
  BY <1>1, <1>2, <1>4, <1>5, <1>6, <1>7 DEF Steps

\* And that none is overlooked.
LEMMA NoneOverlooked == PatternsInv => CepFindsOccurrences
<1> SUFFICES ASSUME PatternsInv, kind = "cep", NEW x \in Entities,
                    NEW p \in {q \in DOMAIN Patterns : Patterns[q].steps # << >>},
                    NEW f \in {n \in Unmatched(x, p) : Cep!Satisfies(Patterns[p].steps[1], lineage[n])},
                    \A n \in {k \in Unmatched(x, p) : Cep!Satisfies(Patterns[p].steps[1], lineage[k])} : f <= n,
                    \A n \in {k \in Unmatched(x, p) : k > f} : lineage[n].ts - lineage[f].ts <= Patterns[p].within,
                    NEW places \in [2 .. Len(Patterns[p].steps) -> {k \in Unmatched(x, p) : k > f}],
                    \A i \in 2 .. Len(Patterns[p].steps) :
                      /\ Cep!Satisfies(Patterns[p].steps[i], lineage[places[i]])
                      /\ \A j \in 2 .. i - 1 : places[j] < places[i]
             PROVE  FALSE
  BY DEF CepFindsOccurrences
<1>1. MatchesInv /\ p \in DOMAIN Patterns /\ Steps(p) # << >>
  BY DEF PatternsInv, Steps
<1>2. ReportsOf("cep") = Reported
  BY DEF ReportsOf, Reported
<1>3. PICK H : H = Pending(x, p)
  OBVIOUS
<1>4. Unmatched(x, p) = H
  BY <1>2, <1>3 DEF Unmatched, Pending
<1>5. PICK m : m = state[x][p]
  OBVIOUS
<1>6. /\ Matching(lineage, m, H, p) /\ FindsAll(lineage, m, H, p)
      /\ m.currentStep = 0 \/ m.currentStep < Len(Steps(p))
  BY <1>1, <1>3, <1>5 DEF MatchesInv, PartialInv
<1>7. Starts(lineage, H, p, f)
  BY <1>4 DEF Starts, Fits, Steps
<1>8. Greedy(lineage, m, H, p, f)
  BY <1>6, <1>7 DEF FindsAll, Starts
<1>9. m.currentStep < Len(Steps(p))
  BY <1>6, <1>8 DEF Greedy
<1>10. H \in SUBSET Nat
  <2>1. DOMAIN lineage \subseteq Nat
    BY <1>1, AppendPlaces, AppendSeq DEF MatchesInv
  <2>2. QED
    BY <1>3, <2>1 DEF Pending, EventsOf, Events
<1>11. places \in [2 .. Len(Steps(p)) -> {k \in H : k > f}]
  BY <1>4 DEF Steps
<1>12. \A i \in 2 .. Len(Steps(p)) :
         Fits(p, i, lineage[places[i]]) /\ \A j \in 2 .. i - 1 : places[j] < places[i]
  BY DEF Steps, Fits
<1>13. QED
  BY <1>1, <1>6, <1>8, <1>9, <1>10, <1>11, <1>12, GreedyMissesNone

LEMMA PatternsStep == PatternsInv /\ [Next]_vars => PatternsInv'
<1> SUFFICES ASSUME PatternsInv, [Next]_vars PROVE PatternsInv'
  OBVIOUS
<1>1. CASE \E event \in Inputs[kind] : Process(event)
  <2>1. PICK event \in Inputs[kind] : Process(event)
    BY <1>1
  <2>2. event.entity \in Entities /\ event.ts \in Nat /\ kind' = kind
    BY <2>1, InputsAssumption DEF PatternsInv, Process, Called
  <2>3. event.ts \in Int
    BY <2>2
  <2>4. QED
    BY <2>1, <2>2, <2>3, MatchesProcess DEF PatternsInv
<1>2. CASE WindowClose
  <2>1. kind' = kind
    BY <1>2 DEF WindowClose, Called
  <2>2. QED
    BY <1>2, <2>1, MatchesClose DEF PatternsInv
<1>3. CASE Restart \/ UNCHANGED vars
  <2>1. kind' = kind
    BY <1>3 DEF Restart, vars
  <2>2. QED
    BY <1>3, <2>1, MatchesRestart DEF PatternsInv
<1>4. QED
  BY <1>1, <1>2, <1>3 DEF Next

\* What a pattern reports of a stream is what happened in it, in every behaviour: a
\* match is of one entity, in its time and window and apart from the others, and none
\* of those that follow the first event that can start one is overlooked, for any
\* patterns, interleaving of entities, window closes and restarts (CepEngine::process,
\* on_window_close and restore of cep.rs).
THEOREM MatchesAreExact == Spec => []CepMatchesExact
<1>1. Init => PatternsInv
  BY MatchesInit DEF PatternsInv, Init
<1>2. PatternsInv /\ [Next]_vars => PatternsInv'
  BY PatternsStep
<1>3. PatternsInv => CepMatchesExact
  BY MatchesPromise, NoneOverlooked DEF CepMatchesExact
<1>4. QED
  BY <1>1, <1>2, <1>3, PTL DEF Spec

(***************************************************************************)
(* Map matching                                                            *)
(***************************************************************************)

Plane == [x : Int, y : Int]

\* The roads and the events have whole coordinates; a road may run in any direction.
OnThePlane ==
  /\ MaxDistance \in Int
  /\ Roads \in Seq(Seq(Plane))
  /\ "map_match" \in Kinds => \A e \in Inputs["map_match"] : e.pos \in Plane

\* Points of roads, and squares of distances.
Feet == [x : Int, y : Int, over : Nat \ {0}]
Fractions == [num : Nat, den : Nat \ {0}]

AtMost(u, v) == ~Snap!Nearer(v, u)

LEMMA LessTimes ==
  ASSUME NEW c \in Nat \ {0}, NEW x \in Int, NEW y \in Int
  PROVE  x < y <=> x * c < y * c
<1>1. x * c \in Int /\ y * c \in Int
  OBVIOUS
<1>2. ASSUME x < y PROVE x * c < y * c
  <2>1. x + 1 <= y
    BY <1>2
  <2>2. (x + 1) * c <= y * c
    BY <2>1, TimesNat
  <2>3. (x + 1) * c = x * c + c
    OBVIOUS
  <2>4. QED
    BY <1>1, <2>2, <2>3
<1>3. ASSUME ~(x < y) PROVE ~(x * c < y * c)
  <2>1. y * c <= x * c
    BY <1>3, TimesNat
  <2>2. QED
    BY <1>1, <2>1
<1>4. QED
  BY <1>2, <1>3

\* Fractions compared by cross multiplication are in a linear order.
LEMMA Chained ==
  ASSUME NEW a \in Nat, NEW b \in Nat \ {0}, NEW c \in Nat, NEW d \in Nat \ {0},
         NEW e \in Nat, NEW f \in Nat \ {0}, a * d <= c * b, c * f <= e * d
  PROVE  /\ a * f <= e * b
         /\ a * d < c * b \/ c * f < e * d => a * f < e * b
<1>1. /\ a * d \in Nat /\ c * b \in Nat /\ c * f \in Nat /\ e * d \in Nat
      /\ a * f \in Nat /\ e * b \in Nat
  OBVIOUS
<1>2. (a * d) * f <= (c * b) * f /\ (c * f) * b <= (e * d) * b
  BY <1>1, TimesNat
<1>3. /\ a * d < c * b => (a * d) * f < (c * b) * f
      /\ c * f < e * d => (c * f) * b < (e * d) * b
  BY <1>1, LessTimes
<1>4. /\ (a * d) * f = (a * f) * d /\ (c * f) * b = (c * b) * f /\ (e * d) * b = (e * b) * d
  OBVIOUS
<1>5. PICK u, v, w : u = (a * f) * d /\ v = (c * b) * f /\ w = (e * b) * d
  OBVIOUS
<1>6. u \in Int /\ v \in Int /\ w \in Int
  BY <1>1, <1>5
<1>7. u <= v /\ v <= w
  BY <1>2, <1>4, <1>5
<1>8. ~(w < u) /\ (a * d < c * b \/ c * f < e * d => u < w)
  BY <1>3, <1>4, <1>5, <1>6, <1>7
<1>9. (e * b < a * f <=> w < u) /\ (a * f < e * b <=> u < w)
  BY <1>1, <1>5, LessTimes
<1>10. QED
  BY <1>1, <1>8, <1>9

LEMMA FractionOrder ==
  ASSUME NEW u \in Fractions, NEW v \in Fractions, NEW w \in Fractions
  PROVE  /\ AtMost(u, u)
         /\ Snap!Nearer(u, v) => AtMost(u, v)
         /\ AtMost(u, v) /\ AtMost(v, w) => AtMost(u, w)
         /\ AtMost(u, v) /\ Snap!Nearer(v, w) => Snap!Nearer(u, w)
         /\ Snap!Nearer(u, v) /\ AtMost(v, w) => Snap!Nearer(u, w)
<1>1. PICK a, b, c, d, e, f : /\ a = u.num /\ b = u.den /\ c = v.num /\ d = v.den
                              /\ e = w.num /\ f = w.den
  OBVIOUS
<1>2. a \in Nat /\ b \in Nat \ {0} /\ c \in Nat /\ d \in Nat \ {0} /\ e \in Nat /\ f \in Nat \ {0}
  BY <1>1 DEF Fractions
<1>3. /\ a * b \in Nat /\ a * d \in Nat /\ c * b \in Nat /\ c * f \in Nat /\ e * d \in Nat
      /\ a * f \in Nat /\ e * b \in Nat
  BY <1>2
<1>4. /\ Snap!Nearer(u, u) <=> a * b < a * b
      /\ Snap!Nearer(u, v) <=> a * d < c * b
      /\ Snap!Nearer(v, u) <=> c * b < a * d
      /\ Snap!Nearer(v, w) <=> c * f < e * d
      /\ Snap!Nearer(w, v) <=> e * d < c * f
      /\ Snap!Nearer(u, w) <=> a * f < e * b
      /\ Snap!Nearer(w, u) <=> e * b < a * f
  BY <1>1 DEF Snap!Nearer
<1>5. a * d <= c * b /\ c * f <= e * d =>
        /\ a * f <= e * b
        /\ a * d < c * b \/ c * f < e * d => a * f < e * b
  BY <1>2, Chained
<1>6. QED
  BY <1>3, <1>4, <1>5 DEF AtMost

\* The function best of FirstLeast.
Scans(u, d, P, k) ==
  u = [n \in 0 .. k |-> IF n = 0 THEN 0
                        ELSE IF n \in P /\ (u[n - 1] = 0 \/ Snap!Nearer(d[n], d[u[n - 1]])) THEN n
                        ELSE u[n - 1]]

LEMMA ScansPlaces ==
  ASSUME NEW u, NEW d, NEW P, NEW k \in Nat, Scans(u, d, P, k)
  PROVE  /\ u[0] = 0
         /\ \A n \in 1 .. k : u[n] = IF n \in P /\ (u[n - 1] = 0 \/ Snap!Nearer(d[n], d[u[n - 1]])) THEN n
                                     ELSE u[n - 1]
<1>1. 0 \in 0 .. k /\ \A n \in 1 .. k : n \in 0 .. k /\ n # 0
  OBVIOUS
<1>2. \A n \in 0 .. k : u[n] = IF n = 0 THEN 0
                        ELSE IF n \in P /\ (u[n - 1] = 0 \/ Snap!Nearer(d[n], d[u[n - 1]])) THEN n
                        ELSE u[n - 1]
  BY Zenon DEF Scans
<1>3. QED
  BY <1>1, <1>2

LEMMA ScansExists ==
  ASSUME NEW d, NEW P, NEW k \in Nat
  PROVE  \E u : Scans(u, d, P, k)
<1> DEFINE T == {m \in Nat : \E u : Scans(u, d, P, m)}
<1>1. 0 \in T
  <2> DEFINE u == [n \in 0 .. 0 |-> 0]
  <2>1. \A n \in 0 .. 0 : n = 0
    OBVIOUS
  <2>2. Scans(u, d, P, 0)
    BY <2>1 DEF Scans
  <2>3. QED
    BY <2>2
<1>2. ASSUME NEW m \in T PROVE m + 1 \in T
  <2>1. PICK u : Scans(u, d, P, m)
    OBVIOUS
  <2>2. m \in Nat /\ m + 1 \in Nat
    OBVIOUS
  <2> DEFINE new == IF m + 1 \in P /\ (u[m] = 0 \/ Snap!Nearer(d[m + 1], d[u[m]])) THEN m + 1 ELSE u[m]
             v == [n \in 0 .. m + 1 |-> IF n = m + 1 THEN new ELSE u[n]]
  <2>3. \A n \in 0 .. m + 1 : v[n] = IF n = 0 THEN 0
                        ELSE IF n \in P /\ (v[n - 1] = 0 \/ Snap!Nearer(d[n], d[v[n - 1]])) THEN n
                        ELSE v[n - 1]
    <3> SUFFICES ASSUME NEW n \in 0 .. m + 1
                 PROVE v[n] = IF n = 0 THEN 0
                        ELSE IF n \in P /\ (v[n - 1] = 0 \/ Snap!Nearer(d[n], d[v[n - 1]])) THEN n
                        ELSE v[n - 1]
      OBVIOUS
    <3>1. CASE n = 0
      <4>1. v[0] = u[0]
        BY <2>2
      <4>2. QED
        BY <2>1, <2>2, <3>1, <4>1, ScansPlaces
    <3>2. CASE n = m + 1
      <4>1. v[n] = new /\ v[n - 1] = u[m] /\ n # 0 /\ n - 1 = m
        BY <2>2, <3>2
      <4>2. QED
        BY <3>2, <4>1
    <3>3. CASE n # 0 /\ n # m + 1
      <4>1. n \in 1 .. m /\ v[n] = u[n] /\ v[n - 1] = u[n - 1]
        BY <2>2, <3>3
      <4>2. u[n] = IF n \in P /\ (u[n - 1] = 0 \/ Snap!Nearer(d[n], d[u[n - 1]])) THEN n ELSE u[n - 1]
        BY <2>1, <2>2, <4>1, ScansPlaces
      <4>3. QED
        BY <3>3, <4>1, <4>2
    <3>4. QED
      BY <3>1, <3>2, <3>3
  <2>4. Scans(v, d, P, m + 1)
    <3> DEFINE w == [n \in 0 .. m + 1 |-> IF n = 0 THEN 0
                        ELSE IF n \in P /\ (v[n - 1] = 0 \/ Snap!Nearer(d[n], d[v[n - 1]])) THEN n
                        ELSE v[n - 1]]
    <3>1. \A n \in 0 .. m + 1 : v[n] = w[n]
      BY <2>3
    <3>2. v = w
      BY <3>1
    <3>3. QED
      BY <3>2, Zenon DEF Scans
  <2>5. QED
    BY <2>2, <2>4, Zenon
<1> HIDE DEF T
<1>3. T = Nat
  BY <1>1, <1>2, Inductive DEF T
<1>4. QED
  BY <1>3 DEF T

\* b is the first of the places up to m where d is least.
IsFirst(b, d, P, m) ==
  /\ b = 0 => \A n \in P : ~(n <= m)
  /\ b # 0 => /\ b \in P /\ b <= m
              /\ \A n \in P : n <= m => AtMost(d[b], d[n]) /\ (n < b => Snap!Nearer(d[b], d[n]))

\* The loop finds the first of the places where d is least.
LEMMA FirstLeastIs ==
  ASSUME NEW d, NEW P, Len(d) \in Nat, \A n \in P : n \in 1 .. Len(d) /\ d[n] \in Fractions
  PROVE  /\ Snap!FirstLeast(d, P) = 0 <=> P = {}
         /\ Snap!FirstLeast(d, P) \in P \cup {0}
         /\ P # {} => \A n \in P : /\ AtMost(d[Snap!FirstLeast(d, P)], d[n])
                                   /\ n < Snap!FirstLeast(d, P) => Snap!Nearer(d[Snap!FirstLeast(d, P)], d[n])
<1> DEFINE c == CHOOSE u : u = [n \in 0 .. Len(d) |-> IF n = 0 THEN 0
                        ELSE IF n \in P /\ (u[n - 1] = 0 \/ Snap!Nearer(d[n], d[u[n - 1]])) THEN n
                        ELSE u[n - 1]]
<1>1. Snap!FirstLeast(d, P) = c[Len(d)]
  BY DEF Snap!FirstLeast
<1>2. Scans(c, d, P, Len(d))
  <2>1. \E u : Scans(u, d, P, Len(d))
    BY ScansExists
  <2>2. QED
    BY <2>1, Zenon DEF Scans
<1>3. PICK b : b = c
  OBVIOUS
<1>4. Scans(b, d, P, Len(d)) /\ Snap!FirstLeast(d, P) = b[Len(d)]
  BY <1>1, <1>2, <1>3, Zenon
<1> HIDE DEF c
<1>5. b[0] = 0 /\ \A n \in 1 .. Len(d) : b[n] = IF n \in P /\ (b[n - 1] = 0 \/ Snap!Nearer(d[n], d[b[n - 1]]))
                                                THEN n ELSE b[n - 1]
  BY <1>4, ScansPlaces
<1>6. PICK T : T = {m \in Nat : m <= Len(d) => IsFirst(b[m], d, P, m)}
  OBVIOUS
<1>7. 0 \in T
  BY <1>5, <1>6 DEF IsFirst
<1>8. ASSUME NEW m \in T PROVE m + 1 \in T
  <2>1. m \in Nat /\ m + 1 \in Nat
    BY <1>6
  <2>2. ASSUME m + 1 <= Len(d) PROVE IsFirst(b[m + 1], d, P, m + 1)
    <3>1. PICK o : o = b[m]
      OBVIOUS
    <3>2. IsFirst(o, d, P, m)
      BY <1>6, <2>1, <2>2, <3>1
    <3>3. b[m + 1] = IF m + 1 \in P /\ (o = 0 \/ Snap!Nearer(d[m + 1], d[o])) THEN m + 1 ELSE o
      <4>1. m + 1 \in 1 .. Len(d) /\ (m + 1) - 1 = m
        BY <2>1, <2>2
      <4>2. QED
        BY <1>5, <3>1, <4>1
    <3>4. \A n \in P : n \in Nat /\ n > 0 /\ d[n] \in Fractions
      OBVIOUS
    <3>5. \A n \in P : n <= m + 1 => n <= m \/ n = m + 1
      BY <2>1, <3>4
    <3>6. CASE m + 1 \in P /\ (o = 0 \/ Snap!Nearer(d[m + 1], d[o]))
      <4>1. ASSUME NEW n \in P, n <= m
            PROVE  Snap!Nearer(d[m + 1], d[n])
        <5>1. o # 0 /\ o \in P /\ AtMost(d[o], d[n])
          BY <3>2, <4>1 DEF IsFirst
        <5>2. d[m + 1] \in Fractions /\ d[o] \in Fractions /\ d[n] \in Fractions
          BY <3>4, <3>6, <5>1
        <5>3. QED
          BY <3>6, <5>1, <5>2, FractionOrder
      <4>2. ASSUME NEW n \in P, n <= m + 1
            PROVE  AtMost(d[m + 1], d[n]) /\ (n < m + 1 => Snap!Nearer(d[m + 1], d[n]))
        <5>1. d[m + 1] \in Fractions /\ d[n] \in Fractions /\ (n <= m \/ n = m + 1)
          BY <3>4, <3>5, <3>6, <4>2
        <5>2. CASE n <= m
          BY <4>1, <5>1, <5>2, FractionOrder
        <5>3. CASE n = m + 1
          BY <2>1, <5>1, <5>3, FractionOrder
        <5>4. QED
          BY <5>1, <5>2, <5>3
      <4>3. b[m + 1] = m + 1 /\ m + 1 # 0 /\ m + 1 <= m + 1
        <5>1. b[m + 1] = m + 1
          BY <3>3, <3>6
        <5>2. QED
          BY <2>1, <5>1
      <4>4. QED
        BY <3>6, <4>2, <4>3 DEF IsFirst
    <3>7. CASE ~(m + 1 \in P /\ (o = 0 \/ Snap!Nearer(d[m + 1], d[o])))
      <4>1. b[m + 1] = o
        BY <3>3, <3>7
      <4>2. CASE o = 0
        BY <3>2, <3>5, <3>7, <4>1, <4>2 DEF IsFirst
      <4>3. CASE o # 0
        <5>1. /\ o \in P /\ o <= m
              /\ \A n \in P : n <= m => AtMost(d[o], d[n]) /\ (n < o => Snap!Nearer(d[o], d[n]))
          BY <3>2, <4>3 DEF IsFirst
        <5>2. o \in Nat /\ o <= m + 1 /\ ~(m + 1 < o)
          BY <2>1, <3>4, <5>1
        <5>3. m + 1 \in P => AtMost(d[o], d[m + 1])
          BY <3>7, <4>3 DEF AtMost
        <5>4. \A n \in P : n <= m + 1 => AtMost(d[o], d[n]) /\ (n < o => Snap!Nearer(d[o], d[n]))
          BY <3>5, <5>1, <5>2, <5>3, Zenon
        <5>5. QED
          BY <4>1, <4>3, <5>1, <5>2, <5>4 DEF IsFirst
      <4>4. QED
        BY <4>2, <4>3
    <3>8. QED
      BY <3>6, <3>7
  <2>3. QED
    BY <1>6, <2>1, <2>2
<1>9. T = Nat
  <2>1. T \in SUBSET Nat
    BY <1>6
  <2>2. QED
    BY <1>7, <1>8, <2>1, Inductive
<1>10. IsFirst(b[Len(d)], d, P, Len(d))
  BY <1>6, <1>9
<1>11. \A n \in P : n <= Len(d) /\ n # 0
  OBVIOUS
<1>12. QED
  BY <1>4, <1>10, <1>11 DEF IsFirst

\* What is nearer has the smaller square.
LEMMA SquareGrows ==
  ASSUME NEW u \in Int, NEW v \in Int, (0 <= u /\ u <= v) \/ (0 <= -u /\ -u <= -v)
  PROVE  u * u <= v * v
<1>1. CASE 0 <= u /\ u <= v
  <2>1. u * u <= u * v
    BY <1>1
  <2>2. u * v <= v * v
    BY <1>1
  <2>3. QED
    BY <2>1, <2>2
<1>2. CASE 0 <= -u /\ -u <= -v
  <2>1. u * u <= u * v
    BY <1>2
  <2>2. u * v <= v * v
    BY <1>2
  <2>3. QED
    BY <2>1, <2>2
<1>3. QED
  BY <1>1, <1>2

LEMMA SquareNat == ASSUME NEW x \in Int PROVE x * x \in Nat
<1>1. CASE x >= 0
  BY <1>1
<1>2. CASE x < 0
  <2>1. PICK y \in Nat : x = -y
    <3>1. -x \in Nat /\ x = -(-x)
      BY <1>2
    <3>2. QED
      BY <3>1
  <2>2. x * x = y * y
    BY <2>1
  <2>3. QED
    BY <2>2
<1>3. QED
  BY <1>1, <1>2

LEMMA ProductSmaller ==
  ASSUME NEW u \in Int, NEW v \in Int, u * u <= u * v
  PROVE  u * u <= v * v
<1>1. CASE u = 0
  <2>1. u * u = 0 /\ v * v \in Nat
    BY <1>1, SquareNat
  <2>2. QED
    BY <2>1
<1>2. CASE u > 0
  <2>1. u * u = u * u /\ u * v = v * u /\ u * u \in Int /\ v * u \in Int
    OBVIOUS
  <2>2. ~(v < u)
    BY <1>2, <2>1, LessTimes
  <2>3. QED
    BY <1>2, <2>2, SquareGrows
<1>3. CASE u < 0
  <2>1. PICK w : w = -u
    OBVIOUS
  <2>2. w \in Nat \ {0} /\ -v \in Int
    BY <1>3, <2>1
  <2>3. w * w = u * u /\ (-v) * w = u * v /\ w * w \in Int /\ (-v) * w \in Int
    BY <2>1, <2>2
  <2>4. ~(-v < w)
    BY <2>2, <2>3, LessTimes
  <2>5. 0 <= -u /\ -u <= -v
    BY <2>1, <2>2, <2>4
  <2>6. QED
    BY <2>5, SquareGrows
<1>4. QED
  BY <1>1, <1>2, <1>3

\* The inequality of Kantorovich in two dimensions: how far v is from the foot in the
\* one metric, against how far z is in the other, if v is a foot as seen from z.
LEMMA TwoMetrics ==
  ASSUME NEW a \in Int, NEW b \in Int, NEW c \in Int, NEW e \in Int, NEW k \in Nat \ {0},
         a * a + b * b <= a * c + b * e
  PROVE  4 * k * (a * a + k * (b * b)) <= (k + 1) * (k + 1) * (c * c + k * (e * e))
<1>1. PICK A, B, G : A = a * a /\ B = b * b /\ G = a * c + b * e
  OBVIOUS
<1>2. A \in Nat /\ B \in Nat /\ G \in Int /\ A + B <= G
  BY <1>1, SquareNat
<1>3. PICK M, N, Z : M = A + k * B /\ N = k * A + B /\ Z = c * c + k * (e * e)
  OBVIOUS
<1>4. M \in Nat /\ N \in Nat /\ Z \in Nat
  <2>1. c * c \in Nat /\ e * e \in Nat
    BY SquareNat
  <2>2. k * B \in Nat /\ k * A \in Nat /\ k * (e * e) \in Nat
    BY <1>2, <2>1
  <2>3. QED
    BY <1>2, <1>3, <2>1, <2>2
<1>5. (A + B) * (A + B) <= G * G
  BY <1>2, SquareGrows
<1>6. k * (G * G) <= Z * N
  <2>1. PICK r : r = c * b - k * (e * a)
    OBVIOUS
  <2>2. (c * c + k * (e * e)) * (k * (a * a) + b * b)
          = k * ((a * c + b * e) * (a * c + b * e)) + (c * b - k * (e * a)) * (c * b - k * (e * a))
    OBVIOUS
  <2>3. Z * N = k * (G * G) + r * r
    BY <1>1, <1>3, <2>1, <2>2
  <2>4. r * r \in Nat
    <3>1. r \in Int
      BY <2>1
    <3>2. QED
      BY <3>1, SquareNat
  <2>5. k * (G * G) \in Int
    BY <1>2
  <2>6. QED
    BY <2>3, <2>4, <2>5
<1>7. 4 * (M * N) <= (k + 1) * (k + 1) * ((A + B) * (A + B))
  <2>1. PICK r : r = (k - 1) * (A - B)
    OBVIOUS
  <2>2. (k + 1) * (k + 1) * ((A + B) * (A + B))
          = 4 * ((A + k * B) * (k * A + B)) + ((k - 1) * (A - B)) * ((k - 1) * (A - B))
    BY <1>2
  <2>3. r * r \in Nat
    <3>1. r \in Int
      BY <1>2, <2>1
    <3>2. QED
      BY <3>1, SquareNat
  <2>4. 4 * (M * N) \in Int
    BY <1>4
  <2>5. QED
    BY <1>3, <2>1, <2>2, <2>3, <2>4
<1>8. PICK K, D : K = (k + 1) * (k + 1) /\ D = (A + B) * (A + B)
  OBVIOUS
<1>9. K \in Nat /\ D \in Int /\ G * G \in Int /\ M * N \in Nat /\ Z * N \in Nat
  BY <1>2, <1>4, <1>8
<1>10. (4 * k * M) * N <= (K * Z) * N
  <2>1. (4 * (M * N)) * k <= (K * D) * k
    BY <1>7, <1>8, <1>9, TimesNat
  <2>2. D * (K * k) <= (G * G) * (K * k)
    <3>1. K * k \in Nat
      BY <1>9
    <3>2. QED
      BY <1>5, <1>8, <1>9, <3>1, TimesNat
  <2>3. (k * (G * G)) * K <= (Z * N) * K
    <3>1. k * (G * G) \in Int
      BY <1>9
    <3>2. QED
      BY <1>6, <1>9, <3>1, TimesNat
  <2>4. PICK h : h = G * G
    OBVIOUS
  <2>5. h \in Int
    BY <1>9, <2>4
  <2>6. (K * D) * k = D * (K * k) /\ h * (K * k) = (k * h) * K
    BY <1>9, <2>5
  <2>7. (4 * (M * N)) * k = (4 * k * M) * N /\ (Z * N) * K = (K * Z) * N
    BY <1>4, <1>9
  <2>8. (4 * k * M) * N \in Int /\ (K * D) * k \in Int /\ (k * h) * K \in Int /\ (K * Z) * N \in Int
    BY <1>4, <1>9, <2>5
  <2>9. QED
    BY <2>1, <2>2, <2>3, <2>4, <2>6, <2>7, <2>8
<1>11. 4 * k * M \in Int /\ K * Z \in Nat
  BY <1>4, <1>9
<1>12. 4 * k * M <= K * Z
  <2>1. CASE N = 0
    <3>1. k * A \in Nat /\ A <= k * A
      BY <1>2
    <3>2. A = 0 /\ B = 0
      BY <1>2, <1>3, <2>1, <3>1
    <3>3. M = 0
      BY <1>3, <3>2
    <3>4. QED
      BY <1>11, <3>3
  <2>2. CASE N # 0
    <3>1. ~((K * Z) * N < (4 * k * M) * N)
      <4>1. (K * Z) * N \in Int /\ (4 * k * M) * N \in Int
        BY <1>4, <1>11
      <4>2. QED
        BY <1>10, <4>1
    <3>2. ~(K * Z < 4 * k * M)
      BY <1>4, <1>11, <2>2, <3>1, LessTimes
    <3>3. QED
      BY <1>11, <3>2
  <2>3. QED
    BY <2>1, <2>2
<1>13. QED
  BY <1>1, <1>3, <1>8, <1>12

\* t is the foot of a point on a line, cut off at its ends, and s a point of the line in
\* parts of h.  The line is (x, y), n the square of its length, the point (u, v) from its
\* beginning, and c their product.
HasFoot(u, v, x, y, n, c, t, h, s) ==
  /\ u \in Int /\ v \in Int /\ x \in Int /\ y \in Int /\ n \in Nat /\ c \in Int /\ t \in Int
  /\ h \in Nat \ {0} /\ s \in 0 .. h
  /\ n = x * x + y * y /\ c = u * x + v * y /\ t = Snap!Clamped(c, n)

\* From the foot the point is at a right angle to the line, or past its end.
LEMMA FootSeen ==
  ASSUME NEW u, NEW v, NEW x, NEW y, NEW n, NEW c, NEW t, NEW h, NEW s,
         HasFoot(u, v, x, y, n, c, t, h, s),
         NEW a, a = h * (n * u - t * x), NEW b, b = h * (n * v - t * y),
         NEW d, d = n * (h * u - s * x), NEW e, e = n * (h * v - s * y)
  PROVE  a * a + b * b <= a * d + b * e
<1>0. /\ u \in Int /\ v \in Int /\ x \in Int /\ y \in Int /\ n \in Nat /\ c \in Int /\ t \in Int
      /\ h \in Nat \ {0} /\ s \in 0 .. h
      /\ n = x * x + y * y /\ c = u * x + v * y /\ t = Snap!Clamped(c, n)
  BY DEF HasFoot
<1>1. (h * (n * u - t * x)) * (n * (h * u - s * x)) + (h * (n * v - t * y)) * (n * (h * v - s * y))
        = (h * (n * u - t * x)) * (h * (n * u - t * x)) + (h * (n * v - t * y)) * (h * (n * v - t * y))
          + (h * n) * ((t - c) * (s * n - h * t))
  BY <1>0
<1>2. a * d + b * e = a * a + b * b + (h * n) * ((t - c) * (s * n - h * t))
  BY <1>1
<1>3. s * n \in Nat /\ s * n <= h * n /\ h * n \in Nat
  <2>1. s \in Int /\ s <= h /\ 0 <= s
    BY <1>0
  <2>2. s * n <= h * n
    BY <1>0, <2>1, TimesNat
  <2>3. QED
    BY <1>0, <2>1, <2>2
<1>4. PICK g : g = (t - c) * (s * n - h * t)
  OBVIOUS
<1>5. g \in Nat
  <2>1. CASE c < 0
    <3>1. t = 0 /\ g = (0 - c) * (s * n)
      BY <1>0, <1>3, <1>4, <2>1 DEF Snap!Clamped
    <3>2. PICK i, j : i = 0 - c /\ j = s * n
      OBVIOUS
    <3>3. i \in Nat /\ j \in Nat /\ g = i * j
      BY <1>0, <1>3, <2>1, <3>1, <3>2
    <3>4. QED
      BY <3>3
  <2>2. CASE c > n
    <3>1. t = n
      BY <1>0, <2>2 DEF Snap!Clamped
    <3>2. PICK i, j : i = s * n /\ j = h * n
      OBVIOUS
    <3>3. i \in Int /\ j \in Int /\ g = (n - c) * (i - j)
      <4>1. i \in Int /\ j \in Int
        BY <1>3, <3>2
      <4>2. g = (n - c) * (s * n - h * n)
        BY <1>0, <1>4, <3>1
      <4>3. QED
        BY <3>2, <4>1, <4>2
    <3>4. (n - c) * (i - j) = (c - n) * (j - i)
      BY <1>0, <3>3
    <3>5. c - n \in Nat /\ j - i \in Nat
      BY <1>0, <1>3, <2>2, <3>2
    <3>6. \A w, z \in Nat : w * z \in Nat
      OBVIOUS
    <3>7. QED
      BY <3>3, <3>4, <3>5, <3>6
  <2>3. CASE ~(c < 0) /\ ~(c > n)
    <3>1. t = c
      BY <1>0, <2>3 DEF Snap!Clamped
    <3>2. PICK i : i = s * n - h * t
      OBVIOUS
    <3>3. h * t \in Int
      BY <1>0
    <3>4. i \in Int /\ g = 0 * i
      BY <1>0, <1>3, <1>4, <3>1, <3>2, <3>3
    <3>5. QED
      BY <3>4
  <2>4. QED
    BY <2>1, <2>2, <2>3
<1>6. (h * n) * g \in Nat
  BY <1>3, <1>5
<1>7. a * a + b * b \in Int /\ a * d + b * e = a * a + b * b + (h * n) * g
  <2>1. a \in Int /\ b \in Int
    BY <1>0
  <2>2. QED
    BY <1>2, <1>4, <2>1
<1>8. QED
  BY <1>6, <1>7

LEMMA AlongIs ==
  ASSUME NEW a \in Plane, NEW b \in Plane, NEW t \in Int, NEW o \in Nat \ {0}
  PROVE  Snap!Along(a, b, t, o) \in Feet
<1>1. PICK x, y : x = a.x * o + t * (b.x - a.x) /\ y = a.y * o + t * (b.y - a.y)
  OBVIOUS
<1>2. a.x \in Int /\ a.y \in Int /\ b.x \in Int /\ b.y \in Int
  BY DEF Plane
<1>3. x \in Int /\ y \in Int
  BY <1>1, <1>2
<1>4. Snap!Along(a, b, t, o) = [x |-> x, y |-> y, over |-> o]
  BY <1>1 DEF Snap!Along
<1>5. QED
  BY <1>3, <1>4 DEF Feet

LEMMA SquaredIs ==
  ASSUME NEW p \in Plane, NEW q \in Feet
  PROVE  Snap!Squared(p, q) \in Fractions
<1>1. PICK east, north : /\ east = p.x * q.over - q.x
                         /\ north = Stretch * (p.y * q.over - q.y)
  OBVIOUS
<1>2. p.x \in Int /\ p.y \in Int /\ q.x \in Int /\ q.y \in Int /\ q.over \in Nat \ {0}
  BY DEF Plane, Feet
<1>3. p.y * q.over - q.y \in Int /\ east \in Int
  BY <1>1, <1>2
<1>4. north \in Int
  BY <1>1, <1>3, PlaneAssumption
<1>5. east * east \in Nat /\ north * north \in Nat /\ q.over * q.over \in Nat \ {0}
  BY <1>2, <1>3, <1>4, SquareNat
<1>6. Snap!Squared(p, q) = [num |-> east * east + north * north, den |-> q.over * q.over]
  BY <1>1 DEF Snap!Squared
<1>7. QED
  BY <1>5, <1>6 DEF Fractions

\* The distance of a point of a segment, from the offset of p from the segment's beginning.
LEMMA SquaredAlong ==
  ASSUME NEW p \in Plane, NEW a \in Plane, NEW b \in Plane, NEW t \in Int, NEW o \in Nat \ {0},
         NEW u, u = p.x - a.x, NEW v, v = p.y - a.y, NEW x, x = b.x - a.x, NEW y, y = b.y - a.y
  PROVE  Snap!Squared(p, Snap!Along(a, b, t, o)) =
           [num |-> (o * u - t * x) * (o * u - t * x)
                      + (Stretch * Stretch) * ((o * v - t * y) * (o * v - t * y)),
            den |-> o * o]
<1>1. a.x \in Int /\ a.y \in Int /\ b.x \in Int /\ b.y \in Int /\ p.x \in Int /\ p.y \in Int
  BY DEF Plane
<1>2. PICK q : q = Snap!Along(a, b, t, o)
  OBVIOUS
<1>3. q.x = a.x * o + t * x /\ q.y = a.y * o + t * y /\ q.over = o
  BY <1>2 DEF Snap!Along
<1>4. u \in Int /\ v \in Int /\ x \in Int /\ y \in Int
  BY <1>1
<1>5. p.x * o - q.x = o * u - t * x /\ p.y * o - q.y = o * v - t * y
  BY <1>1, <1>3, <1>4
<1>6. PICK f, g : f = o * u - t * x /\ g = o * v - t * y
  OBVIOUS
<1>7. f \in Int /\ g \in Int
  BY <1>4, <1>6
<1>8. (Stretch * g) * (Stretch * g) = (Stretch * Stretch) * (g * g)
  BY <1>7, PlaneAssumption
<1>9. Snap!Squared(p, q) = [num |-> f * f + (Stretch * g) * (Stretch * g), den |-> o * o]
  BY <1>3, <1>5, <1>6 DEF Snap!Squared
<1>10. QED
  BY <1>2, <1>6, <1>8, <1>9

\* The foot of p on a segment is a point of it.
LEMMA FootIs ==
  ASSUME NEW p \in Plane, NEW a \in Plane, NEW b \in Plane,
         NEW u, u = p.x - a.x, NEW v, v = p.y - a.y, NEW x, x = b.x - a.x, NEW y, y = b.y - a.y,
         NEW n, n = x * x + y * y
  PROVE  /\ u \in Int /\ v \in Int /\ x \in Int /\ y \in Int /\ n \in Nat
         /\ n = 0 => Snap!Projected(p, a, b) = Snap!Along(a, b, 0, 1) /\ x = 0 /\ y = 0
         /\ n # 0 => /\ Snap!Clamped(u * x + v * y, n) \in 0 .. n
                     /\ Snap!Projected(p, a, b) = Snap!Along(a, b, Snap!Clamped(u * x + v * y, n), n)
<1>1. u \in Int /\ v \in Int /\ x \in Int /\ y \in Int
  BY DEF Plane
<1>2. x * x \in Nat /\ y * y \in Nat /\ (x # 0 => x * x # 0) /\ (y # 0 => y * y # 0)
  <2>1. ASSUME NEW z \in Int, z # 0 PROVE z * z # 0
    <3>1. CASE z > 0
      BY <3>1
    <3>2. CASE z < 0
      BY <3>2
    <3>3. QED
      BY <2>1, <3>1, <3>2
  <2>2. QED
    BY <1>1, <2>1, SquareNat
<1>3. n \in Nat /\ (n = 0 => x = 0 /\ y = 0)
  BY <1>1, <1>2
<1>4. PICK c : c = u * x + v * y
  OBVIOUS
<1>5. c \in Int
  BY <1>1, <1>4
<1>6. Snap!Clamped(c, n) \in 0 .. n
  BY <1>3, <1>5 DEF Snap!Clamped
<1>7. Snap!Projected(p, a, b) = IF n = 0 THEN Snap!Along(a, b, 0, 1)
                                ELSE Snap!Along(a, b, Snap!Clamped(c, n), n)
  BY <1>4 DEF Snap!Projected
<1>8. QED
  BY <1>1, <1>3, <1>4, <1>6, <1>7

LEMMA FootOnSegment ==
  ASSUME NEW p \in Plane, NEW a \in Plane, NEW b \in Plane
  PROVE  /\ Snap!Projected(p, a, b) \in Feet
         /\ \E t \in 0 .. Snap!Projected(p, a, b).over :
              Snap!Projected(p, a, b) = Snap!Along(a, b, t, Snap!Projected(p, a, b).over)
<1>1. PICK u, v, x, y : u = p.x - a.x /\ v = p.y - a.y /\ x = b.x - a.x /\ y = b.y - a.y
  OBVIOUS
<1>2. PICK n : n = x * x + y * y
  OBVIOUS
<1>3. \E o \in Nat \ {0} : \E t \in 0 .. o : Snap!Projected(p, a, b) = Snap!Along(a, b, t, o)
  <2>1. /\ n \in Nat
        /\ n = 0 => Snap!Projected(p, a, b) = Snap!Along(a, b, 0, 1)
        /\ n # 0 => /\ Snap!Clamped(u * x + v * y, n) \in 0 .. n
                    /\ Snap!Projected(p, a, b) = Snap!Along(a, b, Snap!Clamped(u * x + v * y, n), n)
    BY <1>1, <1>2, FootIs
  <2>2. 0 \in 0 .. 1 /\ 1 \in Nat \ {0}
    OBVIOUS
  <2>3. QED
    BY <2>1, <2>2
<1>4. PICK o \in Nat \ {0} : \E t \in 0 .. o : Snap!Projected(p, a, b) = Snap!Along(a, b, t, o)
  BY <1>3
<1>5. PICK t \in 0 .. o : Snap!Projected(p, a, b) = Snap!Along(a, b, t, o)
  BY <1>4
<1>6. Snap!Along(a, b, t, o).over = o
  BY DEF Snap!Along
<1>7. t \in Int
  OBVIOUS
<1>8. QED
  BY <1>5, <1>6, <1>7, AlongIs

LEMMA AllowedIs ==
  ASSUME NEW p \in Plane, NEW q \in Feet, NEW a, NEW b
  PROVE  Allowed(p, q, a, b) \in Fractions
<1>1. PICK d, k : d = Snap!Squared(p, q) /\ k = Stretch * Stretch
  OBVIOUS
<1>2. d \in Fractions /\ d.num \in Nat /\ d.den \in Nat \ {0}
  BY <1>1, SquaredIs DEF Fractions
<1>3. k \in Nat \ {0}
  BY <1>1, PlaneAssumption
<1>4. (k + 1) * (k + 1) * d.num \in Nat /\ 4 * k * d.den \in Nat \ {0}
  BY <1>2, <1>3
<1>5. Allowed(p, q, a, b) = IF a.x = b.x \/ a.y = b.y THEN d
                            ELSE [num |-> (k + 1) * (k + 1) * d.num, den |-> 4 * k * d.den]
  BY <1>1 DEF Allowed
<1>6. QED
  BY <1>2, <1>4, <1>5 DEF Fractions

\* The foot of p on a segment is no farther than is allowed for any point of it.
LEMMA FootAllowed ==
  ASSUME NEW p \in Plane, NEW a \in Plane, NEW b \in Plane, NEW s \in 0 .. Parts
  PROVE  AtMost(Snap!Squared(p, Snap!Projected(p, a, b)),
                Allowed(p, Snap!Along(a, b, s, Parts), a, b))
<1>1. PICK u, v, x, y : u = p.x - a.x /\ v = p.y - a.y /\ x = b.x - a.x /\ y = b.y - a.y
  OBVIOUS
<1>2. PICK n, c : n = x * x + y * y /\ c = u * x + v * y
  OBVIOUS
<1>3. PICK h, k : h = Parts /\ k = Stretch * Stretch
  OBVIOUS
<1>4. PICK t : t = Snap!Clamped(c, n)
  OBVIOUS
<1>5. /\ u \in Int /\ v \in Int /\ x \in Int /\ y \in Int /\ n \in Nat
      /\ n = 0 => Snap!Projected(p, a, b) = Snap!Along(a, b, 0, 1) /\ x = 0 /\ y = 0
      /\ n # 0 => t \in 0 .. n /\ Snap!Projected(p, a, b) = Snap!Along(a, b, t, n)
  BY <1>1, <1>2, <1>4, FootIs
<1>6. h \in Nat \ {0} /\ k \in Nat \ {0} /\ s \in 0 .. h /\ s \in Int /\ c \in Int
  BY <1>2, <1>3, <1>5, PlaneAssumption
<1>7. PICK zx, zy : zx = h * u - s * x /\ zy = h * v - s * y
  OBVIOUS
<1>8. zx \in Int /\ zy \in Int
  BY <1>5, <1>6, <1>7
<1>9. PICK z : z = zx * zx + k * (zy * zy)
  OBVIOUS
<1>10. z \in Nat
  <2>1. zx * zx \in Nat /\ zy * zy \in Nat
    BY <1>8, SquareNat
  <2>2. QED
    BY <1>6, <1>9, <2>1
<1>11. Snap!Squared(p, Snap!Along(a, b, s, Parts)) = [num |-> z, den |-> h * h]
  BY <1>1, <1>3, <1>6, <1>7, <1>9, SquaredAlong
<1>12. (a.x = b.x <=> x = 0) /\ (a.y = b.y <=> y = 0)
  <2>1. a.x \in Int /\ a.y \in Int /\ b.x \in Int /\ b.y \in Int
    BY DEF Plane
  <2>2. QED
    BY <1>1, <2>1
<1>13. Allowed(p, Snap!Along(a, b, s, Parts), a, b) =
         IF x = 0 \/ y = 0 THEN [num |-> z, den |-> h * h]
         ELSE [num |-> (k + 1) * (k + 1) * z, den |-> 4 * k * (h * h)]
  BY <1>3, <1>11, <1>12 DEF Allowed
<1>14. CASE n = 0
  <2>1. x = 0 /\ y = 0 /\ Snap!Projected(p, a, b) = Snap!Along(a, b, 0, 1)
    BY <1>5, <1>14
  <2>2. Snap!Squared(p, Snap!Along(a, b, 0, 1)) =
          [num |-> (1 * u - 0 * x) * (1 * u - 0 * x)
                     + (Stretch * Stretch) * ((1 * v - 0 * y) * (1 * v - 0 * y)), den |-> 1 * 1]
    BY <1>1, SquaredAlong
  <2>3. PICK w : w = u * u + k * (v * v)
    OBVIOUS
  <2>4. Snap!Squared(p, Snap!Projected(p, a, b)) = [num |-> w, den |-> 1]
    BY <1>3, <1>5, <2>1, <2>2, <2>3
  <2>5. zx = h * u /\ zy = h * v
    BY <1>5, <1>6, <1>7, <2>1
  <2>6. z = w * (h * h)
    BY <1>5, <1>6, <1>9, <2>3, <2>5
  <2>7. z * 1 = z
    BY <1>10
  <2>8. QED
    BY <1>10, <1>13, <2>1, <2>4, <2>6, <2>7 DEF AtMost, Snap!Nearer
<1>15. CASE n # 0
  <2>1. PICK fx, fy : fx = n * u - t * x /\ fy = n * v - t * y
    OBVIOUS
  <2>2. t \in Int /\ n \in Nat \ {0}
    BY <1>5, <1>15
  <2>3. fx \in Int /\ fy \in Int
    BY <1>5, <2>1, <2>2
  <2>4. PICK w : w = fx * fx + k * (fy * fy)
    OBVIOUS
  <2>5. w \in Nat
    <3>1. fx * fx \in Nat /\ fy * fy \in Nat
      BY <2>3, SquareNat
    <3>2. QED
      BY <1>6, <2>4, <3>1
  <2>6. Snap!Squared(p, Snap!Projected(p, a, b)) = [num |-> w, den |-> n * n]
    BY <1>1, <1>3, <1>5, <1>15, <2>1, <2>2, <2>4, SquaredAlong
  <2>7. PICK A, B, D, E : A = h * fx /\ B = h * fy /\ D = n * zx /\ E = n * zy
    OBVIOUS
  <2>8. A \in Int /\ B \in Int /\ D \in Int /\ E \in Int
    BY <1>6, <1>8, <2>2, <2>3, <2>7
  <2>9. A * A + B * B <= A * D + B * E
    <3>1. /\ A = h * (n * u - t * x) /\ B = h * (n * v - t * y)
          /\ D = n * (h * u - s * x) /\ E = n * (h * v - s * y)
      BY <1>7, <2>1, <2>7
    <3>2. HasFoot(u, v, x, y, n, c, t, h, s)
      BY <1>2, <1>4, <1>5, <1>6, <2>2 DEF HasFoot
    <3>3. QED
      BY <3>1, <3>2, FootSeen
  <2>10. A * A + k * (B * B) = w * (h * h)
    BY <1>6, <2>3, <2>4, <2>7
  <2>11. D * D + k * (E * E) = z * (n * n)
    BY <1>6, <1>8, <1>9, <2>2, <2>7
  <2>12. n * n \in Nat \ {0} /\ h * h \in Nat \ {0} /\ w * (h * h) \in Nat /\ z * (n * n) \in Nat
    BY <1>6, <1>10, <2>2, <2>5
  <2>13. CASE x = 0 \/ y = 0
    <3>1. A * A <= D * D /\ B * B <= E * E
      <4>1. CASE x = 0
        <5>1. fx = n * u /\ zx = h * u
          BY <1>5, <1>6, <1>7, <2>1, <2>2, <2>13, <4>1
        <5>2. A = D
          BY <1>5, <1>6, <2>2, <2>7, <5>1
        <5>3. B * B <= B * E
          <6>1. A * D = A * A /\ A * A \in Int /\ B * B \in Int /\ B * E \in Int
            BY <2>8, <5>2
          <6>2. QED
            BY <2>9, <6>1
        <5>4. B * B <= E * E
          BY <2>8, <5>3, ProductSmaller
        <5>5. QED
          BY <2>8, <5>2, <5>4
      <4>2. CASE y = 0
        <5>1. fy = n * v /\ zy = h * v
          BY <1>5, <1>6, <1>7, <2>1, <2>2, <2>13, <4>2
        <5>2. B = E
          BY <1>5, <1>6, <2>2, <2>7, <5>1
        <5>3. A * A <= A * D
          <6>1. B * E = B * B /\ B * B \in Int /\ A * A \in Int /\ A * D \in Int
            BY <2>8, <5>2
          <6>2. QED
            BY <2>9, <6>1
        <5>4. A * A <= D * D
          BY <2>8, <5>3, ProductSmaller
        <5>5. QED
          BY <2>8, <5>2, <5>4
      <4>3. QED
        BY <2>13, <4>1, <4>2
    <3>2. A * A + k * (B * B) <= D * D + k * (E * E)
      <4>1. A * A \in Int /\ B * B \in Int /\ D * D \in Int /\ E * E \in Int
        BY <2>8
      <4>2. (B * B) * k <= (E * E) * k
        BY <1>6, <3>1, <4>1, TimesNat
      <4>3. (B * B) * k = k * (B * B) /\ (E * E) * k = k * (E * E)
        BY <1>6, <4>1
      <4>4. k * (B * B) \in Int /\ k * (E * E) \in Int
        BY <1>6, <4>1
      <4>5. QED
        BY <3>1, <4>1, <4>2, <4>3, <4>4
    <3>3. ~(z * (n * n) < w * (h * h))
      BY <2>10, <2>11, <2>12, <3>2
    <3>4. QED
      BY <1>13, <2>6, <2>13, <3>3 DEF AtMost, Snap!Nearer
  <2>14. CASE ~(x = 0 \/ y = 0)
    <3>1. 4 * k * (A * A + k * (B * B)) <= (k + 1) * (k + 1) * (D * D + k * (E * E))
      BY <1>6, <2>8, <2>9, TwoMetrics
    <3>2. 4 * k * (w * (h * h)) <= (k + 1) * (k + 1) * (z * (n * n))
      BY <2>10, <2>11, <3>1
    <3>3. /\ 4 * k * (w * (h * h)) = w * (4 * k * (h * h))
          /\ (k + 1) * (k + 1) * (z * (n * n)) = ((k + 1) * (k + 1) * z) * (n * n)
      BY <1>6, <1>10, <2>2, <2>5
    <3>4. w * (4 * k * (h * h)) \in Int /\ ((k + 1) * (k + 1) * z) * (n * n) \in Int
      BY <1>6, <1>10, <2>2, <2>5
    <3>5. ~(((k + 1) * (k + 1) * z) * (n * n) < w * (4 * k * (h * h)))
      BY <3>2, <3>3, <3>4
    <3>6. QED
      BY <1>13, <2>6, <2>14, <3>5 DEF AtMost, Snap!Nearer
  <2>15. QED
    BY <2>13, <2>14
<1>16. QED
  BY <1>14, <1>15

\* A road: points of the plane.
IsRoad(road) ==
  /\ road \in Seq(Plane) /\ Len(road) \in Nat
  /\ \A k \in 1 .. Len(road) : road[k] \in Plane

\* A place on a road, in parts of one of its segments.
OnSegment(foot, road) ==
  \E k \in 1 .. Len(road) - 1 : \E t \in 0 .. foot.over :
    foot = Snap!Along(road[k], road[k + 1], t, foot.over)

\* No point of a road allows less than the distance `far` from p.
NoneNearer(far, p, road) ==
  \A k \in 1 .. Len(road) - 1 : \A q \in PointsOf(road[k], road[k + 1]) :
    AtMost(far, Allowed(p, q, road[k], road[k + 1]))

\* The point found on a road is on it, and no point of the road allows less.
LEMMA OnRoadIsNearest ==
  ASSUME NEW p \in Plane, NEW road, IsRoad(road), Len(road) >= 2
  PROVE  /\ Snap!OnRoad(p, road) \in Feet /\ OnSegment(Snap!OnRoad(p, road), road)
         /\ NoneNearer(Snap!Squared(p, Snap!OnRoad(p, road)), p, road)
<1>1. PICK n : n = Len(road) - 1
  OBVIOUS
<1>2. n \in Nat /\ n >= 1 /\ \A k \in 1 .. n : road[k] \in Plane /\ road[k + 1] \in Plane
  BY <1>1 DEF IsRoad
<1>3. PICK feet : feet = [k \in 1 .. n |-> Snap!Projected(p, road[k], road[k + 1])]
  OBVIOUS
<1>4. PICK far : far = [k \in DOMAIN feet |-> Snap!Squared(p, feet[k])]
  OBVIOUS
<1>5. PICK b : b = Snap!FirstLeast(far, DOMAIN feet)
  OBVIOUS
<1>6. Snap!OnRoad(p, road) = feet[b]
  BY <1>1, <1>3, <1>4, <1>5 DEF Snap!OnRoad
<1>7. /\ DOMAIN feet = 1 .. n
      /\ \A k \in 1 .. n : /\ far[k] = Snap!Squared(p, feet[k])
                           /\ feet[k] = Snap!Projected(p, road[k], road[k + 1])
  BY <1>3, <1>4
<1>8. \A k \in 1 .. n : feet[k] \in Feet /\ far[k] \in Fractions
  <2>1. TAKE k \in 1 .. n
  <2>2. feet[k] \in Feet
    BY <1>2, <1>7, FootOnSegment
  <2>3. QED
    BY <1>7, <2>2, SquaredIs
<1>9. b \in 1 .. n /\ \A k \in 1 .. n : AtMost(far[b], far[k])
  <2>1. far = [k \in 1 .. n |-> far[k]]
    BY <1>4, <1>7
  <2>2. Len(far) = n
    BY <1>2, <2>1, FunctionSeq
  <2>3. \A k \in DOMAIN feet : k \in 1 .. Len(far) /\ far[k] \in Fractions
    BY <1>7, <1>8, <2>2
  <2>4. 1 \in DOMAIN feet
    BY <1>2, <1>7
  <2>5. Len(far) \in Nat
    BY <1>2, <2>2
  <2>6. /\ Snap!FirstLeast(far, DOMAIN feet) = 0 <=> DOMAIN feet = {}
        /\ Snap!FirstLeast(far, DOMAIN feet) \in DOMAIN feet \cup {0}
        /\ DOMAIN feet # {} => \A k \in DOMAIN feet :
             /\ AtMost(far[Snap!FirstLeast(far, DOMAIN feet)], far[k])
             /\ k < Snap!FirstLeast(far, DOMAIN feet) => Snap!Nearer(far[Snap!FirstLeast(far, DOMAIN feet)], far[k])
    BY <2>3, <2>5, FirstLeastIs
  <2>7. QED
    BY <1>5, <1>7, <2>4, <2>6
<1>10. OnSegment(feet[b], road)
  <2>1. feet[b] = Snap!Projected(p, road[b], road[b + 1]) /\ road[b] \in Plane /\ road[b + 1] \in Plane
    BY <1>2, <1>7, <1>9
  <2>2. \E t \in 0 .. Snap!Projected(p, road[b], road[b + 1]).over :
          Snap!Projected(p, road[b], road[b + 1])
            = Snap!Along(road[b], road[b + 1], t, Snap!Projected(p, road[b], road[b + 1]).over)
    BY <2>1, FootOnSegment
  <2>3. QED
    BY <1>1, <1>9, <2>1, <2>2, Zenon DEF OnSegment
<1>11. NoneNearer(far[b], p, road)
  <2>1. SUFFICES ASSUME NEW k \in 1 .. n, NEW q \in PointsOf(road[k], road[k + 1])
                 PROVE  AtMost(far[b], Allowed(p, q, road[k], road[k + 1]))
    BY <1>1 DEF NoneNearer
  <2>2. PICK s \in 0 .. Parts : q = Snap!Along(road[k], road[k + 1], s, Parts)
    BY DEF PointsOf
  <2>3. AtMost(far[k], Allowed(p, q, road[k], road[k + 1]))
    BY <1>2, <1>7, <2>2, FootAllowed
  <2>4. q \in Feet
    <3>1. s \in Int /\ Parts \in Nat \ {0}
      BY PlaneAssumption
    <3>2. QED
      BY <1>2, <2>2, <3>1, AlongIs
  <2>5. Allowed(p, q, road[k], road[k + 1]) \in Fractions
    BY <2>4, AllowedIs
  <2>6. QED
    BY <1>8, <1>9, <2>3, <2>5, FractionOrder
<1>12. QED
  BY <1>6, <1>7, <1>8, <1>9, <1>10, <1>11

\* Where a point is moved to.
Snapped(p) ==
  LET road == Snap!MatchPoint(p)
  IN  [road |-> road, point |-> IF road = 0 THEN Snap!Along(p, p, 0, 1) ELSE Snap!OnRoad(p, Roads[road])]

\* max_distance_m, squared.
Maximum == [num |-> MaxDistance * MaxDistance, den |-> 1]

LEMMA RoadTypes ==
  ASSUME OnThePlane
  PROVE  /\ Len(Roads) \in Nat /\ DOMAIN Roads = 1 .. Len(Roads)
         /\ Maximum \in Fractions
         /\ \A r \in DOMAIN Roads : IsRoad(Roads[r])
<1>1. Len(Roads) \in Nat /\ DOMAIN Roads = 1 .. Len(Roads)
  BY LenProperties DEF OnThePlane
<1>2. \A r \in 1 .. Len(Roads) : Roads[r] \in Seq(Plane)
  BY ElementOfSeq DEF OnThePlane
<1>3. \A r \in DOMAIN Roads : IsRoad(Roads[r])
  BY <1>1, <1>2, LenProperties, ElementOfSeq DEF IsRoad
<1>4. MaxDistance * MaxDistance \in Nat
  BY SquareNat DEF OnThePlane
<1>5. QED
  BY <1>1, <1>3, <1>4 DEF Maximum, Fractions

\* What the snap of a point p is, for the road and the point that are named.
IsSnap(p, snap) ==
  /\ IF snap.road = 0 THEN snap.point = Snap!Along(p, p, 0, 1)
     ELSE Snap!Nearer(Snap!Squared(p, snap.point), Maximum) /\ OnSegment(snap.point, Roads[snap.road])
  /\ \A n \in DOMAIN Roads : \A k \in 1 .. Len(Roads[n]) - 1 :
       \A q \in PointsOf(Roads[n][k], Roads[n][k + 1]) :
         IF snap.road = 0 THEN ~Snap!Nearer(Allowed(p, q, Roads[n][k], Roads[n][k + 1]), Maximum)
         ELSE /\ ~Snap!Nearer(Allowed(p, q, Roads[n][k], Roads[n][k + 1]), Snap!Squared(p, snap.point))
              /\ n < snap.road =>
                   Snap!Nearer(Snap!Squared(p, snap.point), Allowed(p, q, Roads[n][k], Roads[n][k + 1]))

LEMMA SnappedIsNearest ==
  ASSUME OnThePlane, NEW p \in Plane
  PROVE  IsSnap(p, Snapped(p))
<1>1. PICK far : far = [r \in DOMAIN Roads |->
                   IF Len(Roads[r]) < 2 THEN Maximum ELSE Snap!Squared(p, Snap!OnRoad(p, Roads[r]))]
  OBVIOUS
<1>2. PICK P : P = {r \in DOMAIN Roads : Snap!Nearer(far[r], Maximum)}
  OBVIOUS
<1>3. PICK b : b = Snap!FirstLeast(far, P)
  OBVIOUS
<1>4. Snap!MatchPoint(p) = b
  BY <1>1, <1>2, <1>3 DEF Snap!MatchPoint, Maximum
<1>5. PICK snap : snap = Snapped(p)
  OBVIOUS
<1>6. snap.road = b /\ snap.point = IF b = 0 THEN Snap!Along(p, p, 0, 1) ELSE Snap!OnRoad(p, Roads[b])
  BY <1>4, <1>5 DEF Snapped
<1>7. /\ Len(Roads) \in Nat /\ DOMAIN Roads = 1 .. Len(Roads) /\ Maximum \in Fractions
      /\ \A r \in DOMAIN Roads : IsRoad(Roads[r])
  BY RoadTypes
<1>8. ASSUME NEW r \in DOMAIN Roads
      PROVE  /\ far[r] \in Fractions /\ NoneNearer(far[r], p, Roads[r])
             /\ r \in P => far[r] = Snap!Squared(p, Snap!OnRoad(p, Roads[r])) /\ OnSegment(Snap!OnRoad(p, Roads[r]), Roads[r])
  <2>1. far[r] = IF Len(Roads[r]) < 2 THEN Maximum ELSE Snap!Squared(p, Snap!OnRoad(p, Roads[r]))
    BY <1>1
  <2>2. IsRoad(Roads[r]) /\ Len(Roads[r]) \in Nat
    BY <1>7 DEF IsRoad
  <2>3. CASE Len(Roads[r]) < 2
    <3>1. 1 .. Len(Roads[r]) - 1 = {}
      BY <2>2, <2>3
    <3>2. far[r] = Maximum /\ NoneNearer(far[r], p, Roads[r])
      BY <2>1, <2>3, <3>1 DEF NoneNearer
    <3>3. ~Snap!Nearer(Maximum, Maximum)
      BY <1>7, FractionOrder DEF AtMost
    <3>4. QED
      BY <1>2, <1>7, <3>2, <3>3
  <2>4. CASE ~(Len(Roads[r]) < 2)
    <3>1. Len(Roads[r]) >= 2
      BY <2>2, <2>4
    <3>2. /\ Snap!OnRoad(p, Roads[r]) \in Feet /\ OnSegment(Snap!OnRoad(p, Roads[r]), Roads[r])
          /\ NoneNearer(Snap!Squared(p, Snap!OnRoad(p, Roads[r])), p, Roads[r])
      BY <2>2, <3>1, OnRoadIsNearest
    <3>3. far[r] = Snap!Squared(p, Snap!OnRoad(p, Roads[r]))
      BY <2>1, <2>4
    <3>4. far[r] \in Fractions
      BY <3>2, <3>3, SquaredIs
    <3>5. QED
      BY <3>2, <3>3, <3>4
  <2>5. QED
    BY <2>3, <2>4
<1>9. ASSUME NEW n \in DOMAIN Roads, NEW k \in 1 .. Len(Roads[n]) - 1,
             NEW q \in PointsOf(Roads[n][k], Roads[n][k + 1])
      PROVE  /\ Allowed(p, q, Roads[n][k], Roads[n][k + 1]) \in Fractions
             /\ AtMost(far[n], Allowed(p, q, Roads[n][k], Roads[n][k + 1]))
  <2>1. PICK s \in 0 .. Parts : q = Snap!Along(Roads[n][k], Roads[n][k + 1], s, Parts)
    BY DEF PointsOf
  <2>2. Roads[n][k] \in Plane /\ Roads[n][k + 1] \in Plane
    <3>1. IsRoad(Roads[n])
      BY <1>7
    <3>2. k \in 1 .. Len(Roads[n]) /\ k + 1 \in 1 .. Len(Roads[n])
      BY <3>1 DEF IsRoad
    <3>3. QED
      BY <3>1, <3>2 DEF IsRoad
  <2>3. s \in Int /\ Parts \in Nat \ {0}
    BY PlaneAssumption
  <2>4. q \in Feet
    BY <2>1, <2>2, <2>3, AlongIs
  <2>5. QED
    BY <1>8, <2>4, AllowedIs DEF NoneNearer
<1>10. /\ P = {} => b = 0
       /\ b = 0 => P = {}
       /\ b # 0 => /\ b \in P /\ b \in DOMAIN Roads
                   /\ \A r \in P : AtMost(far[b], far[r]) /\ (r < b => Snap!Nearer(far[b], far[r]))
  <2>1. far = [k \in 1 .. Len(Roads) |-> far[k]]
    BY <1>1, <1>7
  <2>2. Len(far) = Len(Roads)
    BY <1>7, <2>1, FunctionSeq
  <2>3. \A r \in P : r \in 1 .. Len(far) /\ far[r] \in Fractions
    BY <1>2, <1>7, <1>8, <2>2
  <2>4. Len(far) \in Nat
    BY <1>7, <2>2
  <2>5. /\ Snap!FirstLeast(far, P) = 0 <=> P = {}
        /\ Snap!FirstLeast(far, P) \in P \cup {0}
        /\ P # {} => \A r \in P : /\ AtMost(far[Snap!FirstLeast(far, P)], far[r])
                                  /\ r < Snap!FirstLeast(far, P) => Snap!Nearer(far[Snap!FirstLeast(far, P)], far[r])
    BY <2>3, <2>4, FirstLeastIs
  <2>6. QED
    BY <1>2, <1>3, <2>5
<1>11. \A r \in DOMAIN Roads : r \notin P => AtMost(Maximum, far[r])
  BY <1>2 DEF AtMost
<1>12. CASE b = 0
  <2>1. ASSUME NEW n \in DOMAIN Roads, NEW k \in 1 .. Len(Roads[n]) - 1,
               NEW q \in PointsOf(Roads[n][k], Roads[n][k + 1])
        PROVE  ~Snap!Nearer(Allowed(p, q, Roads[n][k], Roads[n][k + 1]), Maximum)
    <3>1. PICK there : there = Allowed(p, q, Roads[n][k], Roads[n][k + 1])
      OBVIOUS
    <3>2. there \in Fractions /\ AtMost(far[n], there)
      BY <1>9, <3>1
    <3>3. AtMost(Maximum, far[n]) /\ far[n] \in Fractions
      BY <1>8, <1>10, <1>11, <1>12
    <3>4. AtMost(Maximum, there)
      BY <1>7, <3>2, <3>3, FractionOrder
    <3>5. QED
      BY <3>1, <3>4 DEF AtMost
  <2>2. snap.road = 0 /\ snap.point = Snap!Along(p, p, 0, 1)
    BY <1>6, <1>12
  <2>3. QED
    BY <1>5, <2>1, <2>2 DEF IsSnap
<1>13. CASE b # 0
  <2>1. PICK here : here = far[b]
    OBVIOUS
  <2>2. /\ here \in Fractions /\ here = Snap!Squared(p, snap.point) /\ OnSegment(snap.point, Roads[b])
        /\ Snap!Nearer(here, Maximum)
    BY <1>2, <1>6, <1>8, <1>10, <1>13, <2>1
  <2>3. ASSUME NEW r \in DOMAIN Roads
        PROVE  AtMost(here, far[r]) /\ (r < b => Snap!Nearer(here, far[r]))
    <3>1. CASE r \in P
      BY <1>10, <1>13, <2>1, <3>1
    <3>2. CASE r \notin P
      <4>1. AtMost(Maximum, far[r]) /\ far[r] \in Fractions
        BY <1>8, <1>11, <3>2
      <4>2. Snap!Nearer(here, far[r])
        BY <1>7, <2>2, <4>1, FractionOrder
      <4>3. QED
        BY <2>2, <4>1, <4>2, FractionOrder
    <3>3. QED
      BY <3>1, <3>2
  <2>4. ASSUME NEW n \in DOMAIN Roads, NEW k \in 1 .. Len(Roads[n]) - 1,
               NEW q \in PointsOf(Roads[n][k], Roads[n][k + 1])
        PROVE  /\ ~Snap!Nearer(Allowed(p, q, Roads[n][k], Roads[n][k + 1]), here)
               /\ n < b => Snap!Nearer(here, Allowed(p, q, Roads[n][k], Roads[n][k + 1]))
    <3>1. PICK there : there = Allowed(p, q, Roads[n][k], Roads[n][k + 1])
      OBVIOUS
    <3>2. there \in Fractions /\ AtMost(far[n], there) /\ far[n] \in Fractions
      BY <1>8, <1>9, <3>1
    <3>3. AtMost(here, there) /\ (n < b => Snap!Nearer(here, there))
      BY <2>2, <2>3, <3>2, FractionOrder
    <3>4. QED
      BY <3>1, <3>3 DEF AtMost
  <2>5. QED
    BY <1>5, <1>6, <1>13, <2>2, <2>4 DEF IsSnap
<1>14. QED
  BY <1>12, <1>13

\* Each report is where its event was moved to.
SnapInv ==
  /\ HistoryInv
  /\ \A n \in Events : lineage[n].pos \in Plane
  /\ \A r \in Reported : r.what = Snapped(lineage[r.at].pos)

EventSnapsInv == kind \in Kinds /\ (kind = "map_match" => SnapInv)

LEMMA SnapInit == Init => EventSnapsInv
<1> SUFFICES ASSUME Init PROVE kind \in Kinds /\ SnapInv
  BY DEF EventSnapsInv
<1>1. HistoryInv /\ Passed = {} /\ Events = {} /\ kind \in Kinds
  BY HistoryInit DEF Init
<1>2. Reported = {}
  BY <1>1 DEF Passed, Reported
<1>3. QED
  BY <1>1, <1>2 DEF SnapInv

LEMMA SnapProcess ==
  ASSUME SnapInv, kind = "map_match", NEW event, event.entity \in Entities, event.ts \in Nat,
         event.pos \in Plane, Process(event)
  PROVE  SnapInv'
<1>0. PICK n : n = Len(lineage) + 1
  OBVIOUS
<1>1. PICK e : e = [id |-> Len(lineage) + 1, entity |-> event.entity, ts |-> event.ts,
                    pos |-> event.pos, speed |-> event.speed]
  OBVIOUS
<1>2. /\ HistoryInv /\ Len(lineage) \in Nat /\ Events \subseteq 1 .. Len(lineage) /\ Passed \subseteq Events
      /\ n \notin Events
  BY <1>0, HistoryPlaces DEF SnapInv, HistoryInv
<1>3. e # Closed /\ e.entity \in Entities /\ e.ts \in Nat /\ e.pos = event.pos
  BY <1>1, <1>2 DEF Closed
<1>4. PICK result : result = Snap!Process(e)
  OBVIOUS
<1>5. Called(e, result)
  BY <1>1, <1>4 DEF Process, Processing
<1>6. result.out = <<Snapped(event.pos)>>
  BY <1>3, <1>4 DEF Snap!Process, Snapped
<1>7. result.out # << >>
  BY <1>6
<1>8. /\ HistoryInv' /\ lineage'[n] = e
      /\ \A k \in 1 .. Len(lineage) : lineage'[k] = lineage[k]
      /\ Events' = Events \cup {n}
      /\ Reported' = Reported \cup {[at |-> n, what |-> Snapped(event.pos)]}
  BY <1>0, <1>2, <1>3, <1>5, <1>6, <1>7, CalledOnce
<1>9. \A k \in Events' : lineage'[k].pos \in Plane
  BY <1>2, <1>3, <1>8 DEF SnapInv
<1>10. \A r \in Reported : r.at \in 1 .. Len(lineage) /\ r.what = Snapped(lineage'[r.at].pos)
  BY <1>2, <1>8 DEF SnapInv, Passed, Reported
<1>11. \A r \in Reported' : r.what = Snapped(lineage'[r.at].pos)
  BY <1>3, <1>8, <1>10
<1>12. QED
  BY <1>8, <1>9, <1>11 DEF SnapInv, Snapped

LEMMA SnapStep == OnThePlane /\ EventSnapsInv /\ [Next]_vars => EventSnapsInv'
<1> SUFFICES ASSUME OnThePlane, EventSnapsInv, [Next]_vars PROVE EventSnapsInv'
  OBVIOUS
<1>1. CASE \E event \in Inputs[kind] : Process(event)
  <2>1. PICK event \in Inputs[kind] : Process(event)
    BY <1>1
  <2>2. event.entity \in Entities /\ event.ts \in Nat /\ kind' = kind
    BY <2>1, InputsAssumption DEF EventSnapsInv, Process, Called
  <2>3. kind = "map_match" => event.pos \in Plane
    BY <2>1 DEF EventSnapsInv, OnThePlane
  <2>4. QED
    BY <2>1, <2>2, <2>3, SnapProcess DEF EventSnapsInv
<1>2. CASE WindowClose
  BY <1>2 DEF WindowClose, Called, EventSnapsInv
<1>3. CASE Restart \/ UNCHANGED vars
  <2>1. lineage' = lineage /\ reports' = reports /\ kind' = kind
    BY <1>3 DEF Restart, vars
  <2>2. QED
    BY <2>1 DEF EventSnapsInv, SnapInv, HistoryInv, Events, Reported, Passed
<1>4. QED
  BY <1>1, <1>2, <1>3 DEF Next

LEMMA SnapPromise == OnThePlane /\ EventSnapsInv => SnapsToNearest
<1> SUFFICES ASSUME OnThePlane, SnapInv, kind = "map_match", NEW r \in Reported
             PROVE  IsSnap(lineage[r.at].pos, r.what)
  BY Zenon DEF EventSnapsInv, SnapsToNearest, ReportsOf, Reported, IsSnap, OnSegment, Maximum
<1>1. PICK p : p = lineage[r.at].pos
  OBVIOUS
<1>2. p \in Plane /\ r.what = Snapped(p)
  <2>1. r.at \in Events
    BY DEF SnapInv, HistoryInv, Passed, Reported
  <2>2. QED
    BY <1>1, <2>1 DEF SnapInv
<1>3. QED
  BY <1>1, <1>2, SnappedIsNearest

\* Every event is moved to a point of a road within the maximum distance, the first
\* of the nearest as far as the projection in degrees can tell: no point of a segment
\* along a parallel or a meridian is nearer, and one of a segment at an angle at most by
\* the factor of Allowed.  It stays where it is only if no road is near enough, but for
\* as much.  For any network of roads in any directions, any distance, any length of a
\* degree of latitude, and any number of calls and restarts (MapMatchOperator::process,
\* match_point and project_point_on_segment of map_match.rs).
THEOREM EventsSnapToNearest == ASSUME OnThePlane PROVE Spec => []SnapsToNearest
<1>1. Init => EventSnapsInv
  BY SnapInit
<1>2. EventSnapsInv /\ [Next]_vars => EventSnapsInv'
  BY SnapStep
<1>3. EventSnapsInv => SnapsToNearest
  BY SnapPromise
<1>4. QED
  BY <1>1, <1>2, <1>3, PTL DEF Spec

=============================================================================
