--------------------------- MODULE SequenceLemmas ---------------------------
(***************************************************************************)
(* Facts about sequences of whatever elements, for the proofs: channels    *)
(* and logs whose elements need no type.                                   *)
(***************************************************************************)
EXTENDS Picking, SequencesExt, SequenceTheorems, WellFoundedInduction, TLAPS

\* s is a sequence of some elements.
IsSeq(s) == s \in Seq({s[i] : i \in DOMAIN s})

\* Appending keeps a sequence one, and makes it longer by one.
LEMMA AppendSeq ==
  ASSUME NEW s, IsSeq(s), NEW e
  PROVE  IsSeq(Append(s, e)) /\ Len(Append(s, e)) = Len(s) + 1 /\ Len(s) \in Nat
<1> DEFINE S == {s[i] : i \in DOMAIN s} \cup {e}
<1>1. s \in Seq(S)
  BY DEF IsSeq
<1>2. Append(s, e) \in Seq(S) /\ Len(Append(s, e)) = Len(s) + 1 /\ Len(s) \in Nat
  <2> HIDE DEF S
  <2>1. e \in S
    BY DEF S
  <2>2. QED
    BY <1>1, <2>1
<1>3. \A t : t \in Seq(S) => IsSeq(t)
  <2> HIDE DEF S
  <2>1. QED
    BY DEF IsSeq
<1>4. QED
  BY <1>2, <1>3

\* Where the elements are after an element was appended.
LEMMA AppendPlaces ==
  ASSUME NEW s, IsSeq(s), NEW e
  PROVE  /\ DOMAIN s = 1 .. Len(s) /\ DOMAIN Append(s, e) = 1 .. Len(s) + 1
         /\ \A i \in 1 .. Len(s) : Append(s, e)[i] = s[i]
         /\ Append(s, e)[Len(s) + 1] = e
<1> DEFINE S == {s[i] : i \in DOMAIN s} \cup {e}
<1>1. s \in Seq(S)
  BY DEF IsSeq
<1>2. e \in S
  OBVIOUS
<1> HIDE DEF S
<1>3. QED
  BY <1>1, <1>2

\* The tail of a sequence is one, shorter by one.
LEMMA TailSeq ==
  ASSUME NEW s, IsSeq(s), s # << >>
  PROVE  IsSeq(Tail(s)) /\ Len(Tail(s)) + 1 = Len(s) /\ Len(Tail(s)) \in Nat
<1> DEFINE S == {s[i] : i \in DOMAIN s}
<1>1. s \in Seq(S)
  BY DEF IsSeq
<1>2. Tail(s) \in Seq(S) /\ Len(Tail(s)) + 1 = Len(s) /\ Len(Tail(s)) \in Nat
  <2> HIDE DEF S
  <2>1. QED
    BY <1>1
<1>3. \A t : t \in Seq(S) => IsSeq(t)
  <2> HIDE DEF S
  <2>1. QED
    BY DEF IsSeq
<1>4. QED
  BY <1>2, <1>3

\* A function with the places of a sequence is one.
LEMMA SamePlacesSeq ==
  ASSUME NEW S, NEW s \in Seq(S), NEW t, t \in [DOMAIN s -> S]
  PROVE  t \in Seq(S) /\ Len(t) = Len(s)
<1>1. Len(s) \in Nat /\ DOMAIN s = 1 .. Len(s)
  BY LenProperties
<1>2. t \in Seq(S)
  BY <1>1, SeqDef
<1>3. QED
  BY <1>1, <1>2, LenProperties

\* There is an empty sequence.
LEMMA EmptyIsSeq == IsSeq(<< >>) /\ Len(<< >>) = 0
BY DEF IsSeq

\* What is in a sequence after an element was appended.
LEMMA ToSetAppend ==
  ASSUME NEW s, IsSeq(s), NEW e
  PROVE  ToSet(Append(s, e)) = ToSet(s) \cup {e}
<1> DEFINE S == {s[i] : i \in DOMAIN s} \cup {e}
<1>1. s \in Seq(S) /\ e \in S
  BY DEF IsSeq
<1> HIDE DEF S
<1> DEFINE t == Append(s, e)
<1>2. /\ DOMAIN s = 1 .. Len(s) /\ DOMAIN t = 1 .. Len(s) + 1 /\ Len(s) \in Nat
      /\ \A i \in 1 .. Len(s) : t[i] = s[i]
      /\ t[Len(s) + 1] = e
  BY <1>1
<1> HIDE DEF t
<1>3. {t[i] : i \in DOMAIN t} = {s[i] : i \in DOMAIN s} \cup {e}
  BY <1>2
<1>4. QED
  BY <1>3 DEF ToSet, t

\* What is in a sequence is its head and what is in its tail.
LEMMA ToSetTail ==
  ASSUME NEW s, IsSeq(s), s # << >>
  PROVE  ToSet(s) = {Head(s)} \cup ToSet(Tail(s))
<1> DEFINE S == {s[i] : i \in DOMAIN s}
<1>1. s \in Seq(S)
  BY DEF IsSeq
<1> HIDE DEF S
<1> DEFINE t == Tail(s)
<1>2. /\ DOMAIN s = 1 .. Len(s) /\ DOMAIN t = 1 .. Len(s) - 1 /\ Len(s) \in Nat \ {0}
      /\ \A i \in 1 .. Len(s) - 1 : t[i] = s[i + 1]
      /\ Head(s) = s[1]
  BY <1>1
<1> HIDE DEF t
<1>3. \A i \in DOMAIN s : i = 1 \/ (i - 1 \in DOMAIN t /\ t[i - 1] = s[i])
  BY <1>2
<1>4. \A i \in DOMAIN t : i + 1 \in DOMAIN s /\ t[i] = s[i + 1]
  BY <1>2
<1>5. 1 \in DOMAIN s
  BY <1>2
<1>6. {s[i] : i \in DOMAIN s} = {s[1]} \cup {t[i] : i \in DOMAIN t}
  BY <1>3, <1>4, <1>5
<1>7. QED
  BY <1>2, <1>6 DEF ToSet, t

\* Nothing is in the empty sequence.
LEMMA ToSetEmpty == ToSet(<< >>) = {}
BY DEF ToSet

\* An element goes from the head of the second to the end of the first.
LEMMA MoveAcross ==
  ASSUME NEW S, NEW s \in Seq(S), NEW t \in Seq(S), t # << >>
  PROVE  s \o t = Append(s, Head(t)) \o Tail(t)
<1>1. Head(t) \in S /\ Tail(t) \in Seq(S) /\ <<Head(t)>> \in Seq(S)
  BY HeadTailProperties
<1>2. t = <<Head(t)>> \o Tail(t)
  <2>1. /\ <<Head(t)>> \o Tail(t) \in Seq(S)
        /\ Len(<<Head(t)>> \o Tail(t)) = 1 + Len(Tail(t))
        /\ \A i \in 1 .. 1 + Len(Tail(t)) :
             (<<Head(t)>> \o Tail(t))[i] = IF i <= 1 THEN Head(t) ELSE Tail(t)[i - 1]
    BY <1>1, ConcatProperties
  <2>2. /\ Len(t) \in Nat \ {0} /\ Len(Tail(t)) = Len(t) - 1 /\ Head(t) = t[1]
        /\ \A i \in 1 .. Len(Tail(t)) : Tail(t)[i] = t[i + 1]
    BY HeadTailProperties, EmptySeq
  <2>3. QED
    BY <2>1, <2>2, SeqEqual
<1>3. Append(s, Head(t)) = s \o <<Head(t)>>
  BY <1>1, AppendIsConcat
<1>4. QED
  BY <1>1, <1>2, <1>3, ConcatAssociative

\* What a prefix is, place by place.
LEMMA PrefixByPlace ==
  ASSUME NEW S, NEW s \in Seq(S), NEW t \in Seq(S)
  PROVE  IsPrefix(s, t) <=> (Len(s) <= Len(t) /\ (\A i \in 1 .. Len(s) : s[i] = t[i]))
<1>1. Len(s) \in Nat /\ Len(t) \in Nat
  OBVIOUS
<1>2. SubSeq(s, 1, Len(s)) = s
  BY SubSeqFull
<1>3. ASSUME Len(s) <= Len(t)
      PROVE  /\ SubSeq(t, 1, Len(s)) \in Seq(S)
             /\ Len(SubSeq(t, 1, Len(s))) = Len(s)
             /\ \A i \in 1 .. Len(s) : SubSeq(t, 1, Len(s))[i] = t[i]
  <2>1. \A i \in 1 .. Len(s) : t[i] \in S
    BY <1>1, <1>3, ElementOfSeq
  <2>2. QED
    BY <1>1, <1>3, <2>1, SubSeqProperties
<1>4. QED
  BY <1>1, <1>2, <1>3, SeqEqual DEF IsPrefix

\* The first of two sequences in a row is a prefix of the two.
LEMMA PrefixOfConcat ==
  ASSUME NEW S, NEW s \in Seq(S), NEW t \in Seq(S)
  PROVE  IsPrefix(s, s \o t)
<1>1. s \o t \in Seq(S)
  BY ConcatProperties
<1>2. PICK u \in Seq(S) : u = s \o t
  BY <1>1, Zenon
<1>3. /\ Len(u) = Len(s) + Len(t) /\ Len(s) \in Nat /\ Len(t) \in Nat
      /\ \A i \in 1 .. Len(s) : s[i] = u[i]
  BY <1>2, ConcatProperties
<1>4. Len(s) <= Len(u)
  BY <1>3
<1>5. IsPrefix(s, u)
  BY <1>3, <1>4, PrefixByPlace, Zenon
<1>6. QED
  BY <1>2, <1>5, Zenon

\* A prefix stays one when the sequence grows.
LEMMA PrefixOfAppend ==
  ASSUME NEW S, NEW s \in Seq(S), NEW t \in Seq(S), NEW e \in S, IsPrefix(s, t)
  PROVE  IsPrefix(s, Append(t, e))
<1> DEFINE u == Append(t, e)
<1>1. u \in Seq(S) /\ Len(u) = Len(t) + 1 /\ \A i \in 1 .. Len(t) : u[i] = t[i]
  BY AppendProperties
<1> HIDE DEF u
<1>2. /\ Len(s) \in Nat /\ Len(t) \in Nat
      /\ Len(s) <= Len(t) /\ \A i \in 1 .. Len(s) : s[i] = t[i]
  <2>1. Len(s) <= Len(t) /\ \A i \in 1 .. Len(s) : s[i] = t[i]
    BY PrefixByPlace
  <2>2. QED
    BY <2>1
<1>3. IsPrefix(s, u) <=> Len(s) <= Len(u) /\ \A i \in 1 .. Len(s) : s[i] = u[i]
  BY <1>1, PrefixByPlace
<1>4. IsPrefix(s, u)
  BY <1>1, <1>2, <1>3
<1>5. QED
  BY <1>4 DEF u

\* A prefix of a prefix is one.
LEMMA PrefixOfPrefix ==
  ASSUME NEW S, NEW s \in Seq(S), NEW t \in Seq(S), NEW u \in Seq(S),
         IsPrefix(s, t), IsPrefix(t, u)
  PROVE  IsPrefix(s, u)
<1>1. Len(s) \in Nat /\ Len(t) \in Nat /\ Len(u) \in Nat
  OBVIOUS
<1>2. /\ Len(s) <= Len(t) /\ \A i \in 1 .. Len(s) : s[i] = t[i]
      /\ Len(t) <= Len(u) /\ \A i \in 1 .. Len(t) : t[i] = u[i]
  BY PrefixByPlace
<1>3. Len(s) <= Len(u) /\ \A i \in 1 .. Len(s) : s[i] = u[i]
  BY <1>1, <1>2
<1>4. QED
  BY <1>3, PrefixByPlace

(***************************************************************************)
(* Induction                                                               *)
(***************************************************************************)

\* A set of naturals that is not empty has a least element.
LEMMA Least ==
  ASSUME NEW T \in SUBSET Nat, T # {}
  PROVE  \E x \in T : \A y \in T : x <= y
<1>1. PICK R : R = OpToRel(<, Nat)
  OBVIOUS
<1>2. IsWellFoundedOn(R, Nat)
  BY <1>1, NatLessThanWellFounded
<1>3. \A x, y \in Nat : y < x => <<y, x>> \in R
  BY <1>1, Zenon DEF OpToRel
<1>4. PICK x \in T : \A y \in T : ~(<<y, x>> \in R)
  BY <1>2, WFMin
<1>5. \A y \in T : ~(y < x)
  BY <1>3, <1>4
<1>6. QED
  BY <1>4, <1>5

\* A set of naturals that is not empty and has a bound has a greatest element.
LEMMA Greatest ==
  ASSUME NEW T \in SUBSET Nat, T # {}, NEW n \in Nat, \A x \in T : x <= n
  PROVE  \E x \in T : \A y \in T : y <= x
<1> DEFINE below == {n - x : x \in T}
<1>1. below \in SUBSET Nat /\ below # {}
  <2>1. \A x \in T : n - x \in Nat
    OBVIOUS
  <2>2. QED
    BY <2>1
<1>2. PICK b \in below : \A c \in below : b <= c
  <2> HIDE DEF below
  <2>1. QED
    BY <1>1, Least
<1>3. PICK x \in T : b = n - x
  OBVIOUS
<1>4. \A y \in T : n - x <= n - y
  BY <1>2, <1>3
<1>5. QED
  BY <1>4

\* A set of naturals with 0 and the successor of each of its elements has them all.
LEMMA Inductive ==
  ASSUME NEW T \in SUBSET Nat, 0 \in T, \A n \in T : n + 1 \in T
  PROVE  T = Nat
<1> SUFFICES ASSUME T # Nat PROVE FALSE
  OBVIOUS
<1>1. PICK x \in Nat \ T : \A y \in Nat \ T : x <= y
  BY Least
<1>2. x # 0 /\ x - 1 \in Nat
  BY <1>1
<1>3. x - 1 \in T
  BY <1>1, <1>2
<1>4. QED
  BY <1>1, <1>2, <1>3

(***************************************************************************)
(* Division                                                                *)
(***************************************************************************)

\* An integer lies in one interval of a grid.
LEMMA OneInterval ==
  ASSUME NEW q \in Int, NEW r \in Int, NEW b \in Nat, NEW u \in Int,
         q * b <= u, u < q * b + b, r * b <= u, u < r * b + b
  PROVE  q = r
<1>1. \A x, y \in Int : x < y => x * b + b <= y * b
  OBVIOUS
<1>2. q * b \in Int /\ r * b \in Int
  OBVIOUS
<1>3. ~(q < r) /\ ~(r < q)
  BY <1>1, <1>2
<1>4. QED
  BY <1>3

LEMMA DivBounds ==
  ASSUME NEW a \in Nat, NEW b \in Nat \ {0}
  PROVE  a \div b \in Nat /\ (a \div b) * b <= a /\ a < (a \div b) * b + b
OBVIOUS

\* What fits is counted by the quotient.
LEMMA DivFits ==
  ASSUME NEW a \in Nat, NEW b \in Nat \ {0}, NEW k \in Int, k * b <= a
  PROVE  k <= a \div b
<1>1. a \div b \in Nat /\ a < (a \div b) * b + b
  BY DivBounds
<1>2. PICK q \in Nat : q = a \div b
  BY <1>1
<1>3. \A x, y \in Int : x < y => x * b + b <= y * b
  OBVIOUS
<1>4. q * b \in Int /\ k * b \in Int /\ a < q * b + b
  BY <1>1, <1>2
<1>5. ~(q < k)
  BY <1>3, <1>4
<1>6. QED
  BY <1>2, <1>5

(***************************************************************************)
(* Picked                                                                  *)
(***************************************************************************)

\* The function upTo of Picked.
Builds(u, s, places, k) ==
  u = [n \in 0 .. k |-> IF n = 0 THEN << >>
                        ELSE IF n \in places THEN Append(u[n - 1], s[n]) ELSE u[n - 1]]

\* Its values, place by place.
LEMMA BuildsPlaces ==
  ASSUME NEW u, NEW s, NEW places, NEW k \in Nat, Builds(u, s, places, k)
  PROVE  /\ u[0] = << >>
         /\ \A n \in 1 .. k : u[n] = IF n \in places THEN Append(u[n - 1], s[n]) ELSE u[n - 1]
<1>1. DOMAIN u = 0 .. k /\ 0 \in 0 .. k /\ \A n \in 1 .. k : n \in 0 .. k /\ n # 0
  BY DEF Builds
<1>2. \A n \in 0 .. k : u[n] = IF n = 0 THEN << >>
                        ELSE IF n \in places THEN Append(u[n - 1], s[n]) ELSE u[n - 1]
  BY Zenon DEF Builds
<1>3. QED
  BY <1>1, <1>2

\* There is one.
LEMMA BuildsExists ==
  ASSUME NEW s, NEW places, NEW k \in Nat
  PROVE  \E u : Builds(u, s, places, k)
<1> DEFINE T == {m \in Nat : \E u : Builds(u, s, places, m)}
<1>1. 0 \in T
  <2> DEFINE u == [n \in 0 .. 0 |-> << >>]
  <2>1. \A n \in 0 .. 0 : n = 0
    OBVIOUS
  <2>2. Builds(u, s, places, 0)
    BY <2>1 DEF Builds
  <2>3. QED
    BY <2>2
<1>2. ASSUME NEW m \in T PROVE m + 1 \in T
  <2>1. PICK u : Builds(u, s, places, m)
    OBVIOUS
  <2>2. m \in Nat /\ m + 1 \in Nat
    OBVIOUS
  <2> DEFINE new == IF m + 1 \in places THEN Append(u[m], s[m + 1]) ELSE u[m]
             v == [n \in 0 .. m + 1 |-> IF n = m + 1 THEN new ELSE u[n]]
  <2>3. \A n \in 0 .. m + 1 : v[n] = IF n = 0 THEN << >>
                        ELSE IF n \in places THEN Append(v[n - 1], s[n]) ELSE v[n - 1]
    <3> SUFFICES ASSUME NEW n \in 0 .. m + 1
                 PROVE v[n] = IF n = 0 THEN << >>
                        ELSE IF n \in places THEN Append(v[n - 1], s[n]) ELSE v[n - 1]
      OBVIOUS
    <3>1. CASE n = 0
      <4>1. v[0] = u[0]
        BY <2>2
      <4>2. QED
        BY <2>1, <2>2, <3>1, <4>1, BuildsPlaces
    <3>2. CASE n = m + 1
      <4>1. v[n] = new /\ v[n - 1] = u[m] /\ n # 0 /\ n - 1 = m
        BY <2>2, <3>2
      <4>2. QED
        BY <3>2, <4>1
    <3>3. CASE n # 0 /\ n # m + 1
      <4>1. n \in 1 .. m /\ v[n] = u[n] /\ v[n - 1] = u[n - 1]
        BY <2>2, <3>3
      <4>2. u[n] = IF n \in places THEN Append(u[n - 1], s[n]) ELSE u[n - 1]
        BY <2>1, <2>2, <4>1, BuildsPlaces
      <4>3. QED
        BY <3>3, <4>1, <4>2
    <3>4. QED
      BY <3>1, <3>2, <3>3
  <2>4. Builds(v, s, places, m + 1)
    <3> DEFINE w == [n \in 0 .. m + 1 |-> IF n = 0 THEN << >>
                        ELSE IF n \in places THEN Append(v[n - 1], s[n]) ELSE v[n - 1]]
    <3>1. \A n \in 0 .. m + 1 : v[n] = w[n]
      BY <2>3
    <3>2. v = w
      BY <3>1
    <3>3. QED
      BY <3>2, Zenon DEF Builds
  <2>5. QED
    BY <2>2, <2>4, Zenon
<1> HIDE DEF T
<1>3. T = Nat
  BY <1>1, <1>2, Inductive DEF T
<1>4. QED
  BY <1>3 DEF T

\* Picked is its last value.
LEMMA PickedBuilds ==
  ASSUME NEW s, NEW places, Len(s) \in Nat
  PROVE  \E u : Builds(u, s, places, Len(s)) /\ Picked(s, places) = u[Len(s)]
<1> DEFINE c == CHOOSE u : u = [n \in 0 .. Len(s) |-> IF n = 0 THEN << >>
                        ELSE IF n \in places THEN Append(u[n - 1], s[n]) ELSE u[n - 1]]
<1>1. Picked(s, places) = c[Len(s)]
  BY DEF Picked
<1>2. \E u : Builds(u, s, places, Len(s))
  BY BuildsExists
<1>3. Builds(c, s, places, Len(s))
  BY <1>2, Zenon DEF Builds
<1>4. QED
  BY <1>1, <1>3, Zenon

\* Two of them agree as far as their sequences and places do.
LEMMA BuildsAgree ==
  ASSUME NEW u, NEW s, NEW P, NEW k \in Nat, Builds(u, s, P, k),
         NEW v, NEW t, NEW Q, NEW m \in Nat, Builds(v, t, Q, m),
         k <= m,
         \A n \in 1 .. k : (n \in P <=> n \in Q) /\ s[n] = t[n]
  PROVE  \A n \in 0 .. k : u[n] = v[n]
<1> DEFINE T == {n \in Nat : n \in 0 .. k => u[n] = v[n]}
<1>1. 0 \in T
  <2>1. u[0] = << >> /\ v[0] = << >>
    BY BuildsPlaces
  <2>2. QED
    BY <2>1
<1>2. ASSUME NEW n \in T PROVE n + 1 \in T
  <2>1. n \in Nat /\ (n \in 0 .. k => u[n] = v[n])
    BY <1>2
  <2>2. CASE n + 1 \in 1 .. k
    <3>1. n + 1 \in 1 .. m /\ (n + 1) - 1 = n /\ n \in 0 .. k
      BY <2>1, <2>2
    <3>2. u[n + 1] = IF n + 1 \in P THEN Append(u[n], s[n + 1]) ELSE u[n]
      BY <2>2, <3>1, BuildsPlaces
    <3>3. v[n + 1] = IF n + 1 \in Q THEN Append(v[n], t[n + 1]) ELSE v[n]
      BY <3>1, BuildsPlaces
    <3>4. u[n + 1] = v[n + 1]
      BY <2>1, <2>2, <3>1, <3>2, <3>3
    <3>5. QED
      BY <2>1, <3>4
  <2>3. CASE n + 1 \notin 1 .. k
    BY <2>1, <2>3
  <2>4. QED
    BY <2>2, <2>3
<1> HIDE DEF T
<1>3. T = Nat
  BY <1>1, <1>2, Inductive DEF T
<1>4. QED
  BY <1>3 DEF T

\* Nothing is picked from nothing.
LEMMA PickedEmpty == \A P : Picked(<< >>, P) = << >>
<1> SUFFICES ASSUME NEW P PROVE Picked(<< >>, P) = << >>
  OBVIOUS
<1>1. Len(<< >>) = 0
  OBVIOUS
<1>2. PICK u : Builds(u, << >>, P, Len(<< >>)) /\ Picked(<< >>, P) = u[Len(<< >>)]
  BY <1>1, PickedBuilds
<1>3. QED
  BY <1>1, <1>2, BuildsPlaces

\* What is picked depends only on what is at the places.
LEMMA PickedSame ==
  ASSUME NEW s, NEW t, NEW P, NEW Q, Len(s) \in Nat, Len(t) = Len(s),
         \A n \in 1 .. Len(s) : (n \in P <=> n \in Q) /\ s[n] = t[n]
  PROVE  Picked(s, P) = Picked(t, Q)
<1>1. PICK u : Builds(u, s, P, Len(s)) /\ Picked(s, P) = u[Len(s)]
  BY PickedBuilds
<1>2. PICK v : Builds(v, t, Q, Len(s)) /\ Picked(t, Q) = v[Len(s)]
  BY PickedBuilds
<1>3. \A n \in 0 .. Len(s) : u[n] = v[n]
  BY <1>1, <1>2, BuildsAgree
<1>4. QED
  BY <1>1, <1>2, <1>3

\* The last element of a sequence is picked, or the rest decides.
LEMMA PickedLast ==
  ASSUME NEW s, NEW P, NEW t, NEW Q, Len(s) \in Nat, Len(t) = Len(s) + 1,
         \A n \in 1 .. Len(s) : (n \in P <=> n \in Q) /\ s[n] = t[n]
  PROVE  Picked(t, Q) = IF Len(t) \in Q THEN Append(Picked(s, P), t[Len(t)]) ELSE Picked(s, P)
<1>1. PICK u : Builds(u, s, P, Len(s)) /\ Picked(s, P) = u[Len(s)]
  BY PickedBuilds
<1>2. PICK v : Builds(v, t, Q, Len(t)) /\ Picked(t, Q) = v[Len(t)]
  BY PickedBuilds
<1>3. u[Len(s)] = v[Len(s)]
  BY <1>1, <1>2, BuildsAgree
<1>4. v[Len(t)] = IF Len(t) \in Q THEN Append(v[Len(t) - 1], t[Len(t)]) ELSE v[Len(t) - 1]
  BY <1>2, BuildsPlaces
<1>5. Len(t) - 1 = Len(s)
  OBVIOUS
<1>6. QED
  BY <1>1, <1>2, <1>3, <1>4, <1>5, Zenon

\* What is picked is the elements at the places, and nothing else.
LEMMA PickedElements ==
  ASSUME NEW s, NEW P, Len(s) \in Nat
  PROVE  IsSeq(Picked(s, P)) /\ ToSet(Picked(s, P)) = {s[i] : i \in {j \in 1 .. Len(s) : j \in P}}
<1>1. PICK u : Builds(u, s, P, Len(s)) /\ Picked(s, P) = u[Len(s)]
  BY PickedBuilds
<1> DEFINE At(n) == {s[i] : i \in {j \in 1 .. n : j \in P}}
           T == {n \in Nat : n \in 0 .. Len(s) => IsSeq(u[n]) /\ ToSet(u[n]) = At(n)}
<1>2. 0 \in T
  <2>1. u[0] = << >> /\ At(0) = {}
    BY <1>1, BuildsPlaces
  <2>2. QED
    BY <2>1, EmptyIsSeq, ToSetEmpty
<1>3. ASSUME NEW n \in T PROVE n + 1 \in T
  <2>1. n \in Nat /\ (n \in 0 .. Len(s) => IsSeq(u[n]) /\ ToSet(u[n]) = At(n))
    BY <1>3
  <2>2. CASE n + 1 \in 1 .. Len(s)
    <3>1. IsSeq(u[n]) /\ ToSet(u[n]) = At(n) /\ (n + 1) - 1 = n
      BY <2>1, <2>2
    <3>2. u[n + 1] = IF n + 1 \in P THEN Append(u[n], s[n + 1]) ELSE u[n]
      BY <1>1, <2>2, <3>1, BuildsPlaces
    <3>3. At(n + 1) = IF n + 1 \in P THEN At(n) \cup {s[n + 1]} ELSE At(n)
      <4>1. 1 .. n + 1 = (1 .. n) \cup {n + 1}
        BY <2>1
      <4>2. QED
        BY <4>1
    <3> HIDE DEF At
    <3>4. IsSeq(u[n + 1]) /\ ToSet(u[n + 1]) = At(n + 1)
      <4>1. CASE n + 1 \in P
        <5>1. IsSeq(Append(u[n], s[n + 1])) /\ ToSet(Append(u[n], s[n + 1])) = ToSet(u[n]) \cup {s[n + 1]}
          BY <3>1, AppendSeq, ToSetAppend, Zenon
        <5>2. QED
          BY <3>1, <3>2, <3>3, <4>1, <5>1
      <4>2. CASE n + 1 \notin P
        BY <3>1, <3>2, <3>3, <4>2, Zenon
      <4>3. QED
        BY <4>1, <4>2
    <3>5. QED
      BY <2>1, <3>4
  <2>3. CASE n + 1 \notin 1 .. Len(s)
    BY <2>1, <2>3
  <2>4. QED
    BY <2>2, <2>3
<1> HIDE DEF T
<1>4. T = Nat
  BY <1>2, <1>3, Inductive DEF T
<1>5. Len(s) \in 0 .. Len(s)
  OBVIOUS
<1>6. QED
  BY <1>1, <1>4, <1>5, Zenon DEF T

\* The elements of a sequence, by their places.
LEMMA ToSetPlaces == \A s : ToSet(s) = {s[i] : i \in DOMAIN s}
BY DEF ToSet

\* u has what s has at its places, and then what t has.
Joined(s, t, u) ==
  /\ IsSeq(u) /\ Len(s) \in Nat /\ Len(t) \in Nat /\ Len(u) = Len(s) + Len(t)
  /\ DOMAIN s = 1 .. Len(s) /\ DOMAIN t = 1 .. Len(t) /\ DOMAIN u = 1 .. Len(s) + Len(t)
  /\ \A i \in 1 .. Len(s) : u[i] = s[i]
  /\ \A i \in 1 .. Len(t) : u[Len(s) + i] = t[i]
  /\ ToSet(u) = ToSet(s) \cup ToSet(t)

\* What a concatenation has at its places.
LEMMA ConcatPlaces ==
  ASSUME NEW s, NEW t, IsSeq(s), IsSeq(t) PROVE Joined(s, t, s \o t)
<1> DEFINE S == {s[i] : i \in DOMAIN s} \cup {t[i] : i \in DOMAIN t}
<1>1. s \in Seq(S) /\ t \in Seq(S)
  BY DEF IsSeq
<1> HIDE DEF S
<1>2. PICK u : u = s \o t
  OBVIOUS
<1>3. /\ u \in Seq(S) /\ Len(u) = Len(s) + Len(t)
      /\ \A i \in 1 .. Len(s) + Len(t) : u[i] = IF i <= Len(s) THEN s[i] ELSE t[i - Len(s)]
  BY <1>1, <1>2, ConcatProperties
<1>4. /\ Len(s) \in Nat /\ Len(t) \in Nat /\ DOMAIN s = 1 .. Len(s) /\ DOMAIN t = 1 .. Len(t)
      /\ DOMAIN u = 1 .. Len(s) + Len(t)
  BY <1>1, <1>3, LenProperties
<1>5. \A i \in 1 .. Len(s) : u[i] = s[i]
  BY <1>3, <1>4
<1>6. \A i \in 1 .. Len(t) : u[Len(s) + i] = t[i]
  BY <1>3, <1>4
<1>7. IsSeq(u)
  <2>1. Len(u) \in Nat /\ DOMAIN u = 1 .. Len(u)
    BY <1>3, LenProperties
  <2>2. u \in [1 .. Len(u) -> {u[i] : i \in DOMAIN u}]
    <3>1. u = [i \in 1 .. Len(u) |-> u[i]]
      BY <1>3, <2>1
    <3>2. QED
      BY <2>1, <3>1
  <2>3. QED
    BY <2>1, <2>2, SeqDef DEF IsSeq
<1>8. ToSet(u) = ToSet(s) \cup ToSet(t)
  <2>1. \A i \in DOMAIN u : i \in DOMAIN s \/ (i - Len(s) \in DOMAIN t /\ u[i] = t[i - Len(s)])
    BY <1>3, <1>4
  <2>2. \A i \in DOMAIN s : i \in DOMAIN u
    BY <1>4
  <2>3. \A i \in DOMAIN t : Len(s) + i \in DOMAIN u
    BY <1>4
  <2>4. \A i \in DOMAIN u : u[i] \in ToSet(s) \cup ToSet(t)
    BY <1>4, <1>5, <2>1, ToSetPlaces
  <2>5. \A i \in DOMAIN s : s[i] \in ToSet(u)
    BY <1>4, <1>5, <2>2, ToSetPlaces
  <2>6. \A i \in DOMAIN t : t[i] \in ToSet(u)
    BY <1>4, <1>6, <2>3, ToSetPlaces
  <2>7. QED
    BY <2>4, <2>5, <2>6, ToSetPlaces
<1>9. QED
  BY <1>2, <1>3, <1>4, <1>5, <1>6, <1>7, <1>8 DEF Joined

\* A function on an interval from 1 is a sequence.
LEMMA FunctionSeq ==
  ASSUME NEW n \in Nat, NEW s, s = [i \in 1 .. n |-> s[i]]
  PROVE  IsSeq(s) /\ Len(s) = n
<1>1. DOMAIN s = 1 .. n
  OBVIOUS
<1>2. s \in [1 .. n -> {s[i] : i \in DOMAIN s}]
  BY <1>1
<1>3. s \in Seq({s[i] : i \in DOMAIN s})
  BY <1>2, SeqDef
<1>4. QED
  BY <1>1, <1>3, LenProperties DEF IsSeq

=============================================================================
