---------------------------- MODULE AsioUdpProofs ----------------------------
(***************************************************************************)
(* Proofs about AsioUdp, for any sockets, buffer, program and bounds.      *)
(***************************************************************************)
EXTENDS AsioUdp, SequenceTheorems, FiniteSetTheorems, WellFoundedInduction, TLAPS

(***************************************************************************)
(* Sequences put one after the other are a sequence.  The induction it     *)
(* needs is had from the least element of a set of counterexamples.        *)
(***************************************************************************)
LEMMA LeastNatural ==
  ASSUME NEW S, S \subseteq Nat, S # {}
  PROVE  \E x \in S : \A y \in S : x <= y
<1> DEFINE R == OpToRel(<, Nat)
<1>1. IsWellFoundedOn(R, Nat)
  BY NatLessThanWellFounded
<1>2. \A x, y \in S : y < x => <<y, x>> \in R
  BY DEF OpToRel
<1> HIDE DEF R
<1>3. PICK x \in S : \A y \in S : ~(<<y, x>> \in R)
  BY <1>1, WFMin
<1>4. \A y \in S : ~(y < x)
  BY <1>2, <1>3
<1>5. QED
  BY <1>4

FlattenBy(seqs, f, i) == IF i = 1 THEN seqs[i] ELSE f[i - 1] \o seqs[i]

FlattenedUpto(S, seqs, n) ==
  {g \in [1..n -> Seq(S)] : \A k \in 1..n : g[k] = FlattenBy(seqs, g, k)}

LEMMA FlattenedUptoExists ==
  ASSUME NEW S, NEW seqs \in Seq(Seq(S))
  PROVE  \A n \in 1..Len(seqs) : FlattenedUpto(S, seqs, n) # {}
<1> DEFINE C == {n \in 1..Len(seqs) : FlattenedUpto(S, seqs, n) = {}}
<1>1. SUFFICES ASSUME C # {} PROVE FALSE
  OBVIOUS
<1>2. C \subseteq Nat
  OBVIOUS
<1>3. PICK n \in C : \A y \in C : n <= y
  BY <1>1, <1>2, LeastNatural
<1>4. seqs[n] \in Seq(S)
  BY ElementOfSeq
<1>5. CASE n = 1
  <2>1. [k \in 1..1 |-> seqs[1]] \in FlattenedUpto(S, seqs, 1)
    BY <1>4, <1>5 DEF FlattenedUpto, FlattenBy
  <2>2. QED
    BY <1>5, <2>1
<1>6. CASE n # 1
  <2>1. /\ n \in Nat /\ n - 1 \in 1..Len(seqs) /\ n - 1 < n
        /\ n \in 1..n /\ ~(n < n) /\ n - 1 \in 1..(n - 1)
    BY <1>6, LenProperties
  <2>2. PICK g : g \in FlattenedUpto(S, seqs, n - 1)
    <3> HIDE DEF C
    <3>1. n - 1 \notin C
      <4>1. SUFFICES ASSUME n - 1 \in C PROVE FALSE
        OBVIOUS
      <4>2. n <= n - 1
        BY <1>3, <4>1
      <4>3. QED
        BY <2>1, <4>2
    <3> USE DEF C
    <3>2. FlattenedUpto(S, seqs, n - 1) # {}
      BY <2>1, <3>1
    <3>3. QED
      BY <3>2
  <2> DEFINE h == [k \in 1..n |-> IF k < n THEN g[k] ELSE g[n - 1] \o seqs[n]]
  <2>3. \A k \in 1..(n - 1) : h[k] = g[k]
    BY <2>1
  <2>4. h[n] = g[n - 1] \o seqs[n]
    BY <2>1
  <2>5. g \in [1..(n - 1) -> Seq(S)] /\ g[n - 1] \in Seq(S)
    BY <2>1, <2>2 DEF FlattenedUpto
  <2>6. g[n - 1] \o seqs[n] \in Seq(S)
    BY <1>4, <2>5, ConcatProperties
  <2>7. h \in [1..n -> Seq(S)]
    BY <2>1, <2>5, <2>6
  <2> HIDE DEF h
  <2>8. ASSUME NEW k \in 1..n PROVE h[k] = FlattenBy(seqs, h, k)
    <3>1. CASE k < n
      <4>1. k \in 1..(n - 1) /\ (k # 1 => k - 1 \in 1..(n - 1))
        BY <2>1, <3>1
      <4>2. g[k] = FlattenBy(seqs, g, k)
        BY <2>2, <4>1 DEF FlattenedUpto
      <4>3. FlattenBy(seqs, g, k) = FlattenBy(seqs, h, k)
        BY <2>3, <4>1 DEF FlattenBy
      <4>4. QED
        BY <2>3, <4>1, <4>2, <4>3
    <3>2. CASE k = n
      <4>1. h[n] = h[n - 1] \o seqs[n]
        BY <2>1, <2>3, <2>4
      <4>2. QED
        BY <1>6, <3>2, <4>1 DEF FlattenBy
    <3>3. QED
      BY <2>1, <3>1, <3>2
  <2>9. QED
    BY <2>7, <2>8 DEF FlattenedUpto
<1>7. QED
  BY <1>5, <1>6

(* What FlattenSeq recurses through. *)
LEMMA FlattenSeqUnfolds ==
  ASSUME NEW S, NEW seqs \in Seq(Seq(S)), Len(seqs) # 0
  PROVE  \E f : /\ FlattenSeq(seqs) = f[Len(seqs)]
                /\ \A n \in 1..Len(seqs) : f[n] = FlattenBy(seqs, f, n)
<1> DEFINE N == Len(seqs)
           flatten == CHOOSE f : f = [i \in 1..N |-> IF i = 1 THEN seqs[i] ELSE f[i - 1] \o seqs[i]]
<1>1. N \in 1..N
  BY LenProperties
<1>2. PICK g : g \in FlattenedUpto(S, seqs, N)
  BY <1>1, FlattenedUptoExists
<1>3. g = [i \in 1..N |-> IF i = 1 THEN seqs[i] ELSE g[i - 1] \o seqs[i]]
  BY <1>2 DEF FlattenedUpto, FlattenBy
<1>4. flatten = [i \in 1..N |-> IF i = 1 THEN seqs[i] ELSE flatten[i - 1] \o seqs[i]]
  BY <1>3
<1>5. FlattenSeq(seqs) = flatten[N]
  BY DEF FlattenSeq
<1> HIDE DEF flatten
<1>6. \A n \in 1..N : flatten[n] = FlattenBy(seqs, flatten, n)
  BY <1>4 DEF FlattenBy
<1>7. QED
  BY <1>5, <1>6

LEMMA FlattenSeqType ==
  ASSUME NEW S, NEW seqs \in Seq(Seq(S)) PROVE FlattenSeq(seqs) \in Seq(S)
<1> DEFINE N == Len(seqs)
<1>1. CASE N = 0
  <2>1. seqs = <<>>
    BY <1>1, EmptySeq
  <2>2. QED
    BY <1>1, <2>1, EmptySeq DEF FlattenSeq
<1>2. CASE N # 0
  <2>1. N \in 1..N
    BY <1>2, LenProperties
  <2>2. PICK f : FlattenSeq(seqs) = f[N] /\ \A n \in 1..N : f[n] = FlattenBy(seqs, f, n)
    BY <1>2, FlattenSeqUnfolds
  <2> DEFINE C == {n \in 1..N : f[n] \notin Seq(S)}
  <2>3. C = {}
    <3>1. SUFFICES ASSUME C # {} PROVE FALSE
      OBVIOUS
    <3>2. C \subseteq Nat
      OBVIOUS
    <3>3. PICK n \in C : \A y \in C : n <= y
      BY <3>1, <3>2, LeastNatural
    <3>4. seqs[n] \in Seq(S)
      BY ElementOfSeq
    <3>5. n # 1 => f[n - 1] \in Seq(S)
      <4>1. SUFFICES ASSUME n # 1 PROVE f[n - 1] \in Seq(S)
        OBVIOUS
      <4>2. n - 1 \in 1..N /\ n - 1 < n
        BY <4>1, LenProperties
      <4>3. QED
        BY <3>3, <4>2
    <3>6. f[n] = IF n = 1 THEN seqs[n] ELSE f[n - 1] \o seqs[n]
      BY <2>2 DEF FlattenBy
    <3>7. n # 1 => f[n - 1] \o seqs[n] \in Seq(S)
      BY <3>4, <3>5, ConcatProperties
    <3>8. QED
      BY <3>4, <3>6, <3>7
  <2>4. QED
    BY <2>1, <2>2, <2>3
<1>3. QED
  BY <1>1, <1>2

(***************************************************************************)
(* Flattening what is empty or one element each leaves those elements, in  *)
(* their order.                                                            *)
(***************************************************************************)
Increasing(f, m, n) ==
  /\ f \in [1..m -> 1..n]
  /\ \A i, j \in 1..m : i < j => f[i] < f[j]

Picked(t, s, n) ==
  \E m \in Nat : \E f : Increasing(f, m, n) /\ t = [k \in 1..m |-> s[f[k]]]

LEMMA PickedNone == ASSUME NEW s PROVE Picked(<<>>, s, 0)
<1>1. PICK f : f = [k \in 1..0 |-> k]
  OBVIOUS
<1>2. Increasing(f, 0, 0)
  BY <1>1 DEF Increasing
<1>3. <<>> = [k \in 1..0 |-> s[f[k]]]
  OBVIOUS
<1>4. QED
  BY <1>2, <1>3 DEF Picked

LEMMA PickedOn ==
  ASSUME NEW S, NEW N \in Nat, NEW s \in [1..N -> S], NEW n \in 1..N,
         NEW t, Picked(t, s, n - 1)
  PROVE  Picked(t \o <<>>, s, n) /\ Picked(t \o <<s[n]>>, s, n)
<1>1. PICK m \in Nat : \E f : Increasing(f, m, n - 1) /\ t = [k \in 1..m |-> s[f[k]]]
  BY DEF Picked
<1>2. PICK f : Increasing(f, m, n - 1) /\ t = [k \in 1..m |-> s[f[k]]]
  BY <1>1
<1>3. \A k \in 1..m : f[k] \in 1..N /\ f[k] \in 1..n /\ f[k] < n
  BY <1>2 DEF Increasing
<1>4. t \in Seq(S) /\ Len(t) = m
  <2>1. t \in [1..m -> S]
    BY <1>2, <1>3
  <2>2. t \in Seq(S)
    BY <2>1, SeqDef
  <2>3. QED
    BY <2>1, <2>2, LenProperties
<1>5. Picked(t \o <<>>, s, n)
  <2>1. t \o <<>> = t
    BY <1>4, ConcatEmptySeq
  <2>2. Increasing(f, m, n)
    BY <1>2, <1>3 DEF Increasing
  <2>3. QED
    BY <1>2, <2>1, <2>2 DEF Picked
<1>6. Picked(t \o <<s[n]>>, s, n)
  <2>1. PICK g : g = [k \in 1..(m + 1) |-> IF k <= m THEN f[k] ELSE n]
    OBVIOUS
  <2>2. Increasing(g, m + 1, n)
    BY <1>2, <1>3, <2>1 DEF Increasing
  <2>3. PICK e \in S : e = s[n]
    OBVIOUS
  <2>4. t \o <<e>> = Append(t, e)
    BY <1>4, AppendIsConcat
  <2>5. Append(t, e) = [k \in 1..(m + 1) |-> s[g[k]]]
    <3>1. /\ Append(t, e) \in Seq(S) /\ Len(Append(t, e)) = m + 1
          /\ Append(t, e)[m + 1] = e
          /\ \A k \in 1..m : Append(t, e)[k] = t[k]
      BY <1>4, AppendProperties
    <3>2. PICK u : u = Append(t, e)
      OBVIOUS
    <3>3. u \in [1..(m + 1) -> S]
      BY <3>1, <3>2, LenProperties
    <3>4. \A k \in 1..(m + 1) : u[k] = s[g[k]]
      BY <1>2, <2>1, <2>3, <3>1, <3>2
    <3>5. QED
      BY <3>2, <3>3, <3>4
  <2>6. m + 1 \in Nat /\ t \o <<s[n]>> = [k \in 1..(m + 1) |-> s[g[k]]]
    <3>1. t \o <<s[n]>> = Append(t, e)
      BY <2>3, <2>4, Zenon
    <3>2. t \o <<s[n]>> = [k \in 1..(m + 1) |-> s[g[k]]]
      BY <2>5, <3>1, Zenon
    <3>3. m + 1 \in Nat
      OBVIOUS
    <3>4. QED
      BY <3>2, <3>3
  <2>7. PICK l \in Nat : l = m + 1
    BY <2>6
  <2>8. PICK u : u = t \o <<s[n]>>
    OBVIOUS
  <2>9. Increasing(g, l, n) /\ u = [k \in 1..l |-> s[g[k]]]
    BY <2>2, <2>6, <2>7, <2>8
  <2>10. Picked(u, s, n)
    BY <2>9 DEF Picked
  <2>11. QED
    BY <2>8, <2>10
<1>7. QED
  BY <1>5, <1>6

LEMMA FlattenPicks ==
  ASSUME NEW S, NEW N \in Nat, NEW s \in [1..N -> S], NEW R
  PROVE  Picked(FlattenSeq([i \in 1..N |-> IF i \in R THEN <<>> ELSE <<s[i]>>]), s, N)
<1>1. PICK seqs : seqs = [i \in 1..N |-> IF i \in R THEN <<>> ELSE <<s[i]>>]
  OBVIOUS
<1>2. seqs \in Seq(Seq(S)) /\ Len(seqs) = N
  <2>1. ASSUME NEW i \in 1..N PROVE seqs[i] \in Seq(S)
    <3>1. PICK e \in S : e = s[i]
      OBVIOUS
    <3>2. <<e>> \in Seq(S) /\ <<>> \in Seq(S)
      OBVIOUS
    <3>3. QED
      BY <1>1, <3>1, <3>2
  <2>2. seqs \in [1..N -> Seq(S)]
    BY <1>1, <2>1
  <2>3. seqs \in Seq(Seq(S))
    BY <2>2, SeqDef
  <2>4. QED
    BY <2>2, <2>3, LenProperties
<1>3. CASE N = 0
  <2>1. seqs = <<>>
    BY <1>2, <1>3, EmptySeq
  <2>2. FlattenSeq(seqs) = <<>>
    BY <1>2, <1>3, <2>1 DEF FlattenSeq
  <2>3. QED
    BY <1>1, <1>3, <2>2, PickedNone
<1>4. CASE N # 0
  <2>1. PICK f : FlattenSeq(seqs) = f[N] /\ \A n \in 1..N : f[n] = FlattenBy(seqs, f, n)
    BY <1>2, <1>4, FlattenSeqUnfolds
  <2> DEFINE C == {n \in 1..N : ~Picked(f[n], s, n)}
  <2>2. C = {}
    <3>1. SUFFICES ASSUME C # {} PROVE FALSE
      OBVIOUS
    <3>2. C \subseteq Nat
      OBVIOUS
    <3>3. PICK n \in C : \A y \in C : n <= y
      BY <3>1, <3>2, LeastNatural
    <3>4. PICK t : t = IF n = 1 THEN <<>> ELSE f[n - 1]
      OBVIOUS
    <3>5. Picked(t, s, n - 1)
      <4>1. CASE n = 1
        BY <3>4, <4>1, PickedNone
      <4>2. CASE n # 1
        <5>1. n - 1 \in 1..N /\ n - 1 < n /\ ~(n <= n - 1)
          BY <4>2
        <5>2. n - 1 \notin C
          BY <3>3, <5>1
        <5>3. QED
          BY <3>4, <4>2, <5>1, <5>2
      <4>3. QED
        BY <4>1, <4>2
    <3>6. f[n] = t \o seqs[n]
      <4>1. seqs[n] \in Seq(S)
        BY <1>2, ElementOfSeq
      <4>2. f[n] = IF n = 1 THEN seqs[n] ELSE f[n - 1] \o seqs[n]
        BY <2>1 DEF FlattenBy
      <4>3. <<>> \o seqs[n] = seqs[n]
        BY <4>1, ConcatEmptySeq
      <4>4. QED
        BY <3>4, <4>2, <4>3
    <3>7. seqs[n] = <<>> \/ seqs[n] = <<s[n]>>
      BY <1>1
    <3>8. Picked(f[n], s, n)
      BY <3>5, <3>6, <3>7, PickedOn
    <3>9. QED
      BY <3>8
  <2>3. N \in 1..N
    BY <1>4
  <2>4. QED
    BY <1>1, <2>1, <2>2, <2>3
<1>5. QED
  BY <1>3, <1>4

------------------------------------------------------------------------------
(***************************************************************************)
(* How many items of a kind a queue holds.                                 *)
(***************************************************************************)
Places(q, kind) == {i \in DOMAIN q : q[i].item = kind}

LEMMA PlacesFinite ==
  ASSUME NEW S, NEW q \in Seq(S), NEW kind
  PROVE  IsFiniteSet(Places(q, kind)) /\ Cardinality(Places(q, kind)) \in Nat
<1>1. Places(q, kind) \in SUBSET (1..Len(q)) /\ Len(q) \in Nat
  BY LenProperties DEF Places
<1>2. IsFiniteSet(1..Len(q))
  BY <1>1, FS_Interval
<1>3. QED
  BY <1>1, <1>2, FS_Subset, FS_CardinalityType

LEMMA PlacesOfConcat ==
  ASSUME NEW S, NEW q \in Seq(S), NEW r \in Seq(S), NEW kind
  PROVE  /\ q \o r \in Seq(S)
         /\ Cardinality(Places(q \o r, kind)) =
              Cardinality(Places(q, kind)) + Cardinality(Places(r, kind))
<1> DEFINE A == Places(q, kind)
           B == Places(r, kind)
           moved == {Len(q) + j : j \in B}
<1>1. /\ q \o r \in Seq(S) /\ Len(q \o r) = Len(q) + Len(r)
      /\ \A i \in 1..(Len(q) + Len(r)) :
           (q \o r)[i] = IF i <= Len(q) THEN q[i] ELSE r[i - Len(q)]
  BY ConcatProperties
<1>2. /\ DOMAIN q = 1..Len(q) /\ DOMAIN r = 1..Len(r)
      /\ DOMAIN (q \o r) = 1..(Len(q) + Len(r))
      /\ Len(q) \in Nat /\ Len(r) \in Nat
  BY <1>1, LenProperties
<1>3. A \subseteq 1..Len(q) /\ B \subseteq 1..Len(r)
  BY <1>2 DEF Places
<1>4. ASSUME NEW i \in 1..(Len(q) + Len(r))
      PROVE  (q \o r)[i].item = kind <=> i \in A \cup moved
  <2>1. CASE i <= Len(q)
    <3>1. i \in 1..Len(q) /\ i \notin moved
      BY <1>2, <1>3, <2>1
    <3>2. QED
      BY <1>1, <1>2, <2>1, <3>1 DEF Places
  <2>2. CASE i > Len(q)
    <3>1. i - Len(q) \in 1..Len(r) /\ i \notin A
      BY <1>2, <1>3, <2>2
    <3>2. i \in moved <=> i - Len(q) \in B
      <4>1. ASSUME NEW j \in B, i = Len(q) + j PROVE j = i - Len(q)
        BY <1>2, <1>3, <4>1
      <4>2. i = Len(q) + (i - Len(q))
        BY <1>2
      <4>3. QED
        BY <4>1, <4>2
    <3>3. QED
      BY <1>1, <1>2, <2>2, <3>1, <3>2 DEF Places
  <2>3. QED
    BY <1>2, <2>1, <2>2
<1>5. moved \subseteq 1..(Len(q) + Len(r)) /\ A \cap moved = {}
  BY <1>2, <1>3
<1>6. Places(q \o r, kind) = A \cup moved
  <2>1. A \subseteq 1..(Len(q) + Len(r))
    BY <1>2, <1>3
  <2>2. Places(q \o r, kind) = {i \in 1..(Len(q) + Len(r)) : (q \o r)[i].item = kind}
    BY <1>2 DEF Places
  <2> HIDE DEF A, moved
  <2>3. QED
    BY <1>4, <1>5, <2>1, <2>2
<1>7. IsFiniteSet(A) /\ IsFiniteSet(B)
  BY PlacesFinite
<1>8. IsFiniteSet(moved) /\ Cardinality(moved) = Cardinality(B)
  <2> DEFINE f == [j \in B |-> Len(q) + j]
  <2>1. f \in Bijection(B, moved)
    <3>1. f \in Surjection(B, moved)
      BY DEF Surjection
    <3>2. \A a, b \in B : f[a] = f[b] => a = b
      BY <1>2, <1>3
    <3>3. f \in Injection(B, moved)
      BY <3>2 DEF Injection, IsInjective
    <3>4. QED
      BY <3>1, <3>3 DEF Bijection
  <2>2. ExistsBijection(B, moved)
    BY <2>1 DEF ExistsBijection
  <2>3. QED
    BY <1>7, <2>2, FS_Bijection
<1>9. Cardinality(A \cup moved) = Cardinality(A) + Cardinality(moved)
  <2> HIDE DEF A, B, moved
  <2>1. Cardinality(A \cup moved)
          = Cardinality(A) + Cardinality(moved) - Cardinality(A \cap moved)
    BY <1>7, <1>8, FS_Union
  <2>2. Cardinality(A \cap moved) = 0
    BY <1>5, FS_EmptySet
  <2>3. Cardinality(A) \in Nat /\ Cardinality(moved) \in Nat
    BY <1>7, <1>8, FS_CardinalityType
  <2>4. QED
    BY <2>1, <2>2, <2>3
<1>10. QED
  BY <1>1, <1>6, <1>8, <1>9

LEMMA PlacesOfOne ==
  ASSUME NEW x, NEW kind
  PROVE  Cardinality(Places(<<x>>, kind)) = IF x.item = kind THEN 1 ELSE 0
<1>1. Places(<<x>>, kind) = IF x.item = kind THEN {1} ELSE {}
  BY DEF Places
<1>2. QED
  BY <1>1, FS_EmptySet, FS_Singleton

LEMMA PlacesOfAppend ==
  ASSUME NEW S, NEW q \in Seq(S), NEW x \in S, NEW kind
  PROVE  Cardinality(Places(Append(q, x), kind)) =
           Cardinality(Places(q, kind)) + (IF x.item = kind THEN 1 ELSE 0)
<1>1. PICK one : one = <<x>> /\ one \in Seq(S)
  <2>1. <<x>> \in Seq(S)
    OBVIOUS
  <2>2. QED
    BY <2>1
<1>2. Append(q, x) = q \o one
  BY <1>1, AppendIsConcat
<1>3. Cardinality(Places(one, kind)) = IF x.item = kind THEN 1 ELSE 0
  BY <1>1, PlacesOfOne
<1>4. Cardinality(Places(q \o one, kind))
        = Cardinality(Places(q, kind)) + Cardinality(Places(one, kind))
  <2>1. one \in Seq(S)
    BY <1>1
  <2>2. QED
    BY <2>1, PlacesOfConcat
<1>5. QED
  BY <1>2, <1>3, <1>4

LEMMA PlacesOfTail ==
  ASSUME NEW S, NEW q \in Seq(S), q # <<>>, NEW kind
  PROVE  Cardinality(Places(q, kind)) =
           Cardinality(Places(Tail(q), kind)) + (IF Head(q).item = kind THEN 1 ELSE 0)
<1>1. /\ Head(q) \in S /\ Tail(q) \in Seq(S) /\ Head(q) = q[1]
      /\ Len(Tail(q)) = Len(q) - 1 /\ Len(q) \in Nat \ {0}
      /\ \A i \in 1..Len(Tail(q)) : Tail(q)[i] = q[i + 1]
  BY HeadTailProperties, EmptySeq
<1>2. PICK h : h = <<Head(q)>> /\ h \in Seq(S)
  <2>1. <<Head(q)>> \in Seq(S)
    BY <1>1
  <2>2. QED
    BY <2>1
<1>3. Len(h) = 1 /\ h[1] = q[1]
  BY <1>1, <1>2
<1>4. q = h \o Tail(q)
  <2>1. /\ Len(h \o Tail(q)) = Len(q) /\ h \o Tail(q) \in Seq(S)
        /\ \A i \in 1..Len(q) :
             (h \o Tail(q))[i] = IF i <= 1 THEN h[i] ELSE Tail(q)[i - 1]
    <3>1. /\ h \o Tail(q) \in Seq(S)
          /\ Len(h \o Tail(q)) = Len(h) + Len(Tail(q))
          /\ \A i \in 1..(Len(h) + Len(Tail(q))) :
               (h \o Tail(q))[i] = IF i <= Len(h) THEN h[i] ELSE Tail(q)[i - Len(h)]
      BY <1>1, <1>2, ConcatProperties
    <3>2. Len(h) + Len(Tail(q)) = Len(q)
      BY <1>1, <1>3
    <3>3. QED
      BY <1>3, <3>1, <3>2
  <2>2. ASSUME NEW i \in 1..Len(q) PROVE q[i] = (h \o Tail(q))[i]
    <3>1. CASE i = 1
      BY <1>3, <2>1, <3>1
    <3>2. CASE i # 1
      <4>1. i - 1 \in 1..Len(Tail(q)) /\ (i - 1) + 1 = i /\ ~(i <= 1)
        BY <1>1, <3>2
      <4>2. Tail(q)[i - 1] = q[(i - 1) + 1]
        BY <1>1, <4>1
      <4>3. QED
        BY <2>1, <4>1, <4>2
    <3>3. QED
      BY <3>1, <3>2
  <2>3. QED
    BY <2>1, <2>2, SeqEqual
<1>5. Cardinality(Places(h \o Tail(q), kind))
        = Cardinality(Places(h, kind)) + Cardinality(Places(Tail(q), kind))
  <2>1. PICK t : t = Tail(q)
    OBVIOUS
  <2>2. h \in Seq(S) /\ t \in Seq(S)
    BY <1>1, <1>2, <2>1
  <2>3. Cardinality(Places(h \o t, kind))
          = Cardinality(Places(h, kind)) + Cardinality(Places(t, kind))
    BY <2>2, PlacesOfConcat
  <2>4. QED
    BY <2>1, <2>3
<1>6. Cardinality(Places(h, kind)) = IF Head(q).item = kind THEN 1 ELSE 0
  BY <1>2, PlacesOfOne
<1>7. Cardinality(Places(Tail(q), kind)) \in Nat
  BY <1>1, PlacesFinite
<1>8. PICK a \in Nat, b \in Nat :
         /\ a = Cardinality(Places(Tail(q), kind))
         /\ b = IF Head(q).item = kind THEN 1 ELSE 0
  BY <1>7
<1>9. Cardinality(Places(q, kind)) = b + a
  BY <1>4, <1>5, <1>6, <1>8
<1>10. b + a = a + b
  OBVIOUS
<1>11. QED
  BY <1>8, <1>9, <1>10

LEMMA PlacesOfAll ==
  ASSUME NEW S, NEW q \in Seq(S), NEW kind, \A i \in DOMAIN q : q[i].item = kind
  PROVE  Cardinality(Places(q, kind)) = Len(q)
<1>1. Places(q, kind) = 1..Len(q) /\ Len(q) \in Nat
  BY LenProperties DEF Places
<1>2. QED
  BY <1>1, FS_Interval

LEMMA PlacesOfNone ==
  ASSUME NEW S, NEW q \in Seq(S), NEW kind, \A i \in DOMAIN q : q[i].item # kind
  PROVE  Cardinality(Places(q, kind)) = 0
<1>1. Places(q, kind) = {}
  BY DEF Places
<1>2. QED
  BY <1>1, FS_EmptySet

------------------------------------------------------------------------------
(***************************************************************************)
(* The sends that wait, of all sockets.                                    *)
(***************************************************************************)
Waiting(w) == UNION {{p} \X DOMAIN w[p] : p \in Ports}

LEMMA WaitingMembers ==
  ASSUME NEW w
  PROVE  /\ \A p, i : <<p, i>> \in Waiting(w) <=> p \in Ports /\ i \in DOMAIN w[p]
         /\ \A x \in Waiting(w) : x = <<x[1], x[2]>>
<1>1. \A x : x \in Waiting(w) <=> \E p \in Ports : x \in {p} \X DOMAIN w[p]
  BY DEF Waiting
<1>2. QED
  BY <1>1

LEMMA RowsFinite ==
  ASSUME NEW w, \A p \in Ports : IsFiniteSet(DOMAIN w[p])
  PROVE  IsFiniteSet(Waiting(w)) /\ Cardinality(Waiting(w)) \in Nat
<1> DEFINE row(p) == {p} \X DOMAIN w[p]
           rows == {row(p) : p \in Ports}
<1>1. ASSUME NEW p \in Ports PROVE IsFiniteSet(row(p))
  BY FS_Singleton, FS_Product
<1>2. IsFiniteSet(rows)
  <2>1. [p \in Ports |-> row(p)] \in Surjection(Ports, rows)
    BY DEF Surjection
  <2>2. QED
    BY <2>1, AsioUdpAssumption, FS_Surjection
<1>3. IsFiniteSet(UNION rows)
  BY <1>1, <1>2, FS_UNION
<1>4. QED
  BY <1>3, FS_CardinalityType DEF Waiting

LEMMA WaitingFinite ==
  ASSUME NEW w \in [Ports -> Seq(Send)]
  PROVE  IsFiniteSet(Waiting(w)) /\ Cardinality(Waiting(w)) \in Nat
<1>1. ASSUME NEW p \in Ports PROVE IsFiniteSet(DOMAIN w[p])
  <2>1. DOMAIN w[p] = 1..Len(w[p]) /\ Len(w[p]) \in Nat
    BY LenProperties
  <2>2. QED
    BY <2>1, FS_Interval
<1>2. QED
  BY <1>1, RowsFinite

(* One row gets longer by one. *)
LEMMA RowGrows ==
  ASSUME NEW w, NEW v, NEW p \in Ports, NEW n \in Nat,
         IsFiniteSet(Waiting(w)),
         DOMAIN w[p] = 1..n, DOMAIN v[p] = 1..(n + 1),
         \A q \in Ports : q # p => DOMAIN v[q] = DOMAIN w[q]
  PROVE  Cardinality(Waiting(v)) = Cardinality(Waiting(w)) + 1
<1> DEFINE new == <<p, n + 1>>
<1>1. new \notin Waiting(w)
  <2>1. ~(n + 1 \in 1..n)
    OBVIOUS
  <2>2. QED
    BY <2>1, WaitingMembers
<1>2. 1..(n + 1) = (1..n) \cup {n + 1}
  OBVIOUS
<1>3. Waiting(v) = Waiting(w) \cup {new}
  <2>1. \A q \in Ports : \A i : <<q, i>> \in Waiting(v) <=> <<q, i>> \in Waiting(w) \cup {new}
    <3>1. SUFFICES ASSUME NEW q \in Ports, NEW i
                   PROVE  <<q, i>> \in Waiting(v) <=> <<q, i>> \in Waiting(w) \cup {new}
      OBVIOUS
    <3>2. CASE q = p
      BY <1>2, <3>2, WaitingMembers
    <3>3. CASE q # p
      BY <3>3, WaitingMembers
    <3>4. QED
      BY <3>2, <3>3
  <2>2. \A x \in Waiting(v) \cup Waiting(w) \cup {new} : \E q \in Ports : \E i : x = <<q, i>>
    BY WaitingMembers
  <2>3. QED
    BY <2>1, <2>2
<1>4. Cardinality(Waiting(w) \cup {new}) = Cardinality(Waiting(w)) + 1
  BY <1>1, FS_AddElement
<1>5. QED
  BY <1>3, <1>4

LEMMA WaitingAppend ==
  ASSUME NEW w \in [Ports -> Seq(Send)], NEW p \in Ports, NEW op \in Send
  PROVE  Cardinality(Waiting([w EXCEPT ![p] = Append(@, op)]))
           = Cardinality(Waiting(w)) + 1
<1> DEFINE v == [w EXCEPT ![p] = Append(@, op)]
<1>1. Len(w[p]) \in Nat /\ DOMAIN w[p] = 1..Len(w[p])
  BY LenProperties
<1>2. DOMAIN v[p] = 1..(Len(w[p]) + 1)
  <2>1. v[p] = Append(w[p], op)
    OBVIOUS
  <2>2. QED
    BY <2>1, AppendProperties
<1>3. \A q \in Ports : q # p => DOMAIN v[q] = DOMAIN w[q]
  OBVIOUS
<1>4. IsFiniteSet(Waiting(w))
  BY WaitingFinite
<1> HIDE DEF v
<1>5. Cardinality(Waiting(v)) = Cardinality(Waiting(w)) + 1
  BY <1>1, <1>2, <1>3, <1>4, RowGrows
<1>6. QED
  BY <1>5 DEF v

LEMMA WaitingDrop ==
  ASSUME NEW w \in [Ports -> Seq(Send)], NEW p \in Ports, NEW n \in 0..Len(w[p])
  PROVE  /\ SubSeq(w[p], n + 1, Len(w[p])) \in Seq(Send)
         /\ Len(SubSeq(w[p], n + 1, Len(w[p]))) = Len(w[p]) - n
         /\ Cardinality(Waiting(w))
              = Cardinality(Waiting([w EXCEPT ![p] = SubSeq(@, n + 1, Len(@))])) + n
<1> DEFINE v == [w EXCEPT ![p] = SubSeq(@, n + 1, Len(@))]
           len == Len(w[p])
           gone == {p} \X ((len - n + 1)..len)
<1>1. len \in Nat /\ DOMAIN w[p] = 1..len /\ n \in Nat /\ n <= len
  BY LenProperties
<1>2. /\ SubSeq(w[p], n + 1, len) \in Seq(Send)
      /\ Len(SubSeq(w[p], n + 1, len)) = len - n
  <2>1. \A i \in (n + 1)..len : w[p][i] \in Send
    <3>1. \A i \in (n + 1)..len : i \in 1..len
      BY <1>1
    <3>2. QED
      BY <3>1, ElementOfSeq
  <2>2. n + 1 \in Int /\ len \in Int
    BY <1>1
  <2>3. /\ SubSeq(w[p], n + 1, len) \in Seq(Send)
        /\ Len(SubSeq(w[p], n + 1, len))
             = IF n + 1 <= len THEN len - (n + 1) + 1 ELSE 0
    BY <2>1, <2>2, SubSeqProperties
  <2>4. (IF n + 1 <= len THEN len - (n + 1) + 1 ELSE 0) = len - n
    <3>1. PICK l \in Nat, m \in Nat : l = len /\ m = n /\ m <= l
      BY <1>1
    <3>2. (IF m + 1 <= l THEN l - (m + 1) + 1 ELSE 0) = l - m
      BY <3>1
    <3>3. QED
      BY <3>1, <3>2
  <2>5. QED
    BY <2>3, <2>4
<1>3. DOMAIN v[p] = 1..(len - n)
  <2>1. v[p] = SubSeq(w[p], n + 1, len)
    OBVIOUS
  <2>2. QED
    BY <1>2, <2>1, LenProperties
<1>4. \A q \in Ports : q # p => v[q] = w[q]
  OBVIOUS
<1>5. v \in [Ports -> Seq(Send)]
  BY <1>2
<1>6. /\ 1..len = (1..(len - n)) \cup ((len - n + 1)..len)
      /\ (1..(len - n)) \cap ((len - n + 1)..len) = {}
  BY <1>1
<1>7. IsFiniteSet(gone) /\ Cardinality(gone) = n
  <2>1. /\ IsFiniteSet((len - n + 1)..len)
        /\ Cardinality((len - n + 1)..len) = n
    <3>1. len - n + 1 \in Int /\ len \in Int
      BY <1>1
    <3>2. /\ IsFiniteSet((len - n + 1)..len)
          /\ Cardinality((len - n + 1)..len)
               = IF len - n + 1 > len THEN 0 ELSE len - (len - n + 1) + 1
      BY <3>1, FS_Interval
    <3>3. (IF len - n + 1 > len THEN 0 ELSE len - (len - n + 1) + 1) = n
      BY <1>1
    <3>4. QED
      BY <3>2, <3>3
  <2>2. IsFiniteSet({p}) /\ Cardinality({p}) = 1
    BY FS_Singleton
  <2> HIDE DEF len
  <2>3. Cardinality(gone) = 1 * n /\ IsFiniteSet(gone)
    <3>1. PICK S, T : S = {p} /\ T = (len - n + 1)..len
      OBVIOUS
    <3>2. IsFiniteSet(S) /\ IsFiniteSet(T) /\ Cardinality(S) = 1 /\ Cardinality(T) = n
      BY <2>1, <2>2, <3>1
    <3>3. IsFiniteSet(S \X T) /\ Cardinality(S \X T) = Cardinality(S) * Cardinality(T)
      BY <3>2, FS_Product
    <3>4. QED
      BY <3>1, <3>2, <3>3
  <2>4. QED
    BY <1>1, <2>3
<1> HIDE DEF v, len
<1>8. Waiting(w) = Waiting(v) \cup gone /\ Waiting(v) \cap gone = {}
  <2>1. \A q \in Ports : \A i :
          /\ <<q, i>> \in Waiting(w) <=> <<q, i>> \in Waiting(v) \cup gone
          /\ ~(<<q, i>> \in Waiting(v) /\ <<q, i>> \in gone)
    <3>1. SUFFICES ASSUME NEW q \in Ports, NEW i
                   PROVE  /\ <<q, i>> \in Waiting(w) <=> <<q, i>> \in Waiting(v) \cup gone
                          /\ ~(<<q, i>> \in Waiting(v) /\ <<q, i>> \in gone)
      OBVIOUS
    <3>2. CASE q = p
      BY <1>1, <1>3, <1>6, <3>2, WaitingMembers
    <3>3. CASE q # p
      BY <1>4, <3>3, WaitingMembers
    <3>4. QED
      BY <3>2, <3>3
  <2>2. \A x \in Waiting(v) \cup Waiting(w) \cup gone : \E q \in Ports : \E i : x = <<q, i>>
    BY WaitingMembers
  <2> HIDE DEF gone
  <2>3. QED
    BY <2>1, <2>2
<1>9. IsFiniteSet(Waiting(v)) /\ Cardinality(Waiting(v)) \in Nat
  BY <1>5, WaitingFinite
<1>10. Cardinality(Waiting(w)) = Cardinality(Waiting(v)) + n
  <2> HIDE DEF gone
  <2>1. Cardinality(Waiting(v) \cup gone)
          = Cardinality(Waiting(v)) + Cardinality(gone) - Cardinality(Waiting(v) \cap gone)
    BY <1>7, <1>9, FS_Union
  <2>2. Cardinality(Waiting(v) \cap gone) = 0
    BY <1>8, FS_EmptySet
  <2>3. QED
    BY <1>1, <1>7, <1>8, <1>9, <2>1, <2>2
<1>11. QED
  BY <1>2, <1>10 DEF v, len

------------------------------------------------------------------------------
(***************************************************************************)
(* What a queue holds, and the turn in it: the task once, the descriptors  *)
(* it found before it, each of them once.                                  *)
(***************************************************************************)
LEMMA ItemKinds ==
  /\ Task \in QueueItems /\ Task.item = "task"
  /\ \A p \in Ports : Descriptor(p) \in QueueItems /\ Descriptor(p).item = "descriptor"
  /\ \A p, r \in Ports : Descriptor(p) = Descriptor(r) => p = r
  /\ \A c \in Completion : /\ Completed(c) \in QueueItems
                           /\ Completed(c).item = "completion"
  /\ \A x \in QueueItems : x.item = "task" => x = Task
  /\ \A x \in QueueItems : x.item = "descriptor" => \E p \in Ports : x = Descriptor(p)
  /\ \A x \in QueueItems : x.item = "completion" => x.op \in Completion
<1>1. /\ Task \in QueueItems /\ Task.item = "task"
      /\ \A p \in Ports : Descriptor(p) \in QueueItems /\ Descriptor(p).item = "descriptor"
  BY DEF Task, Descriptor, QueueItems
<1>2. \A p, r \in Ports : Descriptor(p) = Descriptor(r) => p = r
  <2>1. \A p \in Ports : Descriptor(p).port = p
    BY DEF Descriptor
  <2>2. QED
    BY <2>1
<1>3. \A c \in Completion : /\ Completed(c) \in QueueItems
                            /\ Completed(c).item = "completion"
  BY DEF Completed, QueueItems
<1>4. ASSUME NEW x \in QueueItems
      PROVE  /\ x.item = "task" => x = Task
             /\ x.item = "descriptor" => \E p \in Ports : x = Descriptor(p)
             /\ x.item = "completion" => x.op \in Completion
  <2>1. CASE x = Task
    BY <2>1 DEF Task
  <2>2. CASE \E p \in Ports : x = Descriptor(p)
    BY <2>2 DEF Descriptor
  <2>3. CASE x \in [item : {"completion"}, op : Completion]
    BY <2>3
  <2>4. QED
    BY <2>1, <2>2, <2>3 DEF QueueItems
<1>5. QED
  BY <1>1, <1>2, <1>3, <1>4

TaskAt(q, k) ==
  /\ k \in DOMAIN q
  /\ q[k] = Task
  /\ \A i \in DOMAIN q : /\ q[i].item = "task" => i = k
                         /\ q[i].item = "descriptor" => i < k
  /\ \A i, j \in DOMAIN q : q[i].item = "descriptor" /\ q[i] = q[j] => i = j

InTurn(q) == \E k \in Nat : TaskAt(q, k)

LEMMA TurnMeansOnce == ASSUME InTurn(ioq) PROVE DescriptorsBeforeTask
<1>1. PICK k : TaskAt(ioq, k)
  BY DEF InTurn
<1>2. QueuedAt("task") = {k}
  BY <1>1, ItemKinds DEF TaskAt, QueuedAt
<1>3. Cardinality(QueuedAt("task")) = 1
  BY <1>2, FS_Singleton
<1>4. \A i \in QueuedAt("descriptor"), j \in QueuedAt("task") : i < j
  BY <1>1, <1>2 DEF TaskAt, QueuedAt
<1>5. \A i, j \in QueuedAt("descriptor") : ioq[i] = ioq[j] => i = j
  BY <1>1 DEF TaskAt, QueuedAt
<1>6. QED
  BY <1>3, <1>4, <1>5 DEF DescriptorsBeforeTask

LEMMA TurnNotEmpty ==
  ASSUME NEW q \in Seq(QueueItems), InTurn(q)
  PROVE  q # <<>> /\ Len(q) \in Nat \ {0} /\ Head(q) \in QueueItems /\ Head(q) = q[1]
<1>1. PICK k : k \in DOMAIN q
  BY DEF InTurn, TaskAt
<1>2. DOMAIN q = 1..Len(q) /\ Len(q) \in Nat
  BY LenProperties
<1>3. Len(q) # 0
  BY <1>1, <1>2
<1>4. q # <<>>
  BY <1>3, EmptySeq
<1>5. QED
  BY <1>2, <1>3, <1>4, HeadTailProperties

(* Completions go behind what is queued, and change no turn. *)
LEMMA TurnBefore ==
  ASSUME NEW q \in Seq(QueueItems), InTurn(q), NEW r \in Seq(QueueItems),
         \A i \in DOMAIN r : r[i].item = "completion"
  PROVE  InTurn(q \o r)
<1>1. PICK k \in Nat : TaskAt(q, k)
  BY DEF InTurn
<1>2. /\ Len(q \o r) = Len(q) + Len(r) /\ q \o r \in Seq(QueueItems)
      /\ \A i \in 1..(Len(q) + Len(r)) :
           (q \o r)[i] = IF i <= Len(q) THEN q[i] ELSE r[i - Len(q)]
  BY ConcatProperties
<1>3. /\ DOMAIN q = 1..Len(q) /\ DOMAIN r = 1..Len(r)
      /\ DOMAIN (q \o r) = 1..(Len(q) + Len(r))
      /\ Len(q) \in Nat /\ Len(r) \in Nat
  BY <1>2, LenProperties
<1>4. \A i \in DOMAIN q : i \in DOMAIN (q \o r) /\ (q \o r)[i] = q[i]
  BY <1>2, <1>3
<1>5. ASSUME NEW i \in DOMAIN (q \o r), i \notin DOMAIN q
      PROVE  (q \o r)[i].item = "completion"
  <2>1. i - Len(q) \in DOMAIN r /\ ~(i <= Len(q)) /\ i \in 1..(Len(q) + Len(r))
    BY <1>3, <1>5
  <2>2. (q \o r)[i] = r[i - Len(q)]
    BY <1>2, <2>1
  <2>3. QED
    BY <2>1, <2>2
<1>6. \A i \in DOMAIN (q \o r) :
         (q \o r)[i].item \in {"task", "descriptor"} => i \in DOMAIN q
  BY <1>5
<1>7. k \in DOMAIN (q \o r) /\ (q \o r)[k] = Task
  BY <1>1, <1>4 DEF TaskAt
<1>8. ASSUME NEW i \in DOMAIN (q \o r)
      PROVE  /\ (q \o r)[i].item = "task" => i = k
             /\ (q \o r)[i].item = "descriptor" => i < k
  BY <1>1, <1>4, <1>6 DEF TaskAt
<1>9. ASSUME NEW i \in DOMAIN (q \o r), NEW j \in DOMAIN (q \o r),
             (q \o r)[i].item = "descriptor", (q \o r)[i] = (q \o r)[j]
      PROVE  i = j
  <2>1. i \in DOMAIN q /\ j \in DOMAIN q
    BY <1>6, <1>9
  <2>2. q[i].item = "descriptor" /\ q[i] = q[j]
    BY <1>4, <1>9, <2>1
  <2>3. QED
    BY <1>1, <2>1, <2>2 DEF TaskAt
<1>10. TaskAt(q \o r, k)
  BY <1>7, <1>8, <1>9 DEF TaskAt
<1>11. QED
  BY <1>10 DEF InTurn

(* What is not the task leaves the queue, and changes no turn. *)
LEMMA TurnAfter ==
  ASSUME NEW q \in Seq(QueueItems), InTurn(q), Head(q).item # "task"
  PROVE  InTurn(Tail(q))
<1>1. PICK k \in Nat : TaskAt(q, k)
  BY DEF InTurn
<1>2. q # <<>> /\ Len(q) \in Nat \ {0} /\ Head(q) = q[1]
  BY TurnNotEmpty
<1>3. PICK t : t = Tail(q)
  OBVIOUS
<1>4. /\ t \in Seq(QueueItems) /\ Len(t) = Len(q) - 1
      /\ \A i \in 1..Len(t) : t[i] = q[i + 1]
  BY <1>2, <1>3, HeadTailProperties
<1>5. DOMAIN q = 1..Len(q) /\ DOMAIN t = 1..Len(t)
  BY <1>4, LenProperties
<1>6. k # 1
  BY <1>1, <1>2, ItemKinds DEF TaskAt
<1>7. k - 1 \in DOMAIN t /\ t[k - 1] = Task /\ k - 1 \in Nat
  <2>1. k \in 1..Len(q)
    BY <1>1, <1>5 DEF TaskAt
  <2>2. k - 1 \in 1..Len(t) /\ (k - 1) + 1 = k
    BY <1>2, <1>4, <1>6, <2>1
  <2>3. t[k - 1] = q[(k - 1) + 1]
    BY <1>4, <2>2
  <2>4. QED
    BY <1>1, <1>5, <2>2, <2>3 DEF TaskAt
<1>8. \A i \in DOMAIN t : i \in Nat /\ i + 1 \in DOMAIN q /\ t[i] = q[i + 1]
  BY <1>2, <1>4, <1>5
<1>9. ASSUME NEW i \in DOMAIN t
      PROVE  /\ t[i].item = "task" => i = k - 1
             /\ t[i].item = "descriptor" => i < k - 1
  <2>1. /\ q[i + 1].item = "task" => i + 1 = k
        /\ q[i + 1].item = "descriptor" => i + 1 < k
    BY <1>1, <1>8 DEF TaskAt
  <2>2. QED
    BY <1>8, <2>1
<1>10. ASSUME NEW i \in DOMAIN t, NEW j \in DOMAIN t,
              t[i].item = "descriptor", t[i] = t[j]
       PROVE  i = j
  <2>1. i + 1 = j + 1
    BY <1>1, <1>8, <1>10 DEF TaskAt
  <2>2. QED
    BY <1>8, <2>1
<1>11. TaskAt(t, k - 1)
  BY <1>7, <1>9, <1>10 DEF TaskAt
<1>12. QED
  BY <1>3, <1>7, <1>11 DEF InTurn

(* The task finds descriptors, and goes behind them. *)
Requeued(q, order) ==
  Tail(q) \o [i \in DOMAIN order |-> Descriptor(order[i])] \o <<Task>>

Distinct(order) == \A i, j \in DOMAIN order : order[i] = order[j] => i = j

LEMMA TurnOfTask ==
  ASSUME NEW q \in Seq(QueueItems), InTurn(q), Head(q) = Task,
         NEW order \in Seq(Ports), Distinct(order)
  PROVE  /\ Requeued(q, order) \in Seq(QueueItems)
         /\ InTurn(Requeued(q, order))
         /\ Cardinality(Places(Requeued(q, order), "completion"))
              = Cardinality(Places(q, "completion"))
         /\ \A i \in DOMAIN order :
              \E j \in DOMAIN Requeued(q, order) : Requeued(q, order)[j] = Descriptor(order[i])
         /\ \A j \in DOMAIN q : q[j].item # "descriptor"
<1>1. PICK t : t = Tail(q)
  OBVIOUS
<1>2. PICK d : d = [i \in DOMAIN order |-> Descriptor(order[i])]
  OBVIOUS
<1>3. PICK u : u = <<Task>>
  OBVIOUS
<1>4. PICK k \in Nat : TaskAt(q, k)
  BY DEF InTurn
<1>5. q # <<>> /\ Len(q) \in Nat \ {0} /\ Head(q) = q[1] /\ DOMAIN q = 1..Len(q)
  BY TurnNotEmpty, LenProperties
<1>6. k = 1
  <2>1. 1 \in DOMAIN q /\ q[1].item = "task"
    BY <1>5, ItemKinds
  <2>2. QED
    BY <1>4, <2>1 DEF TaskAt
<1>7. /\ t \in Seq(QueueItems) /\ Len(t) = Len(q) - 1 /\ Len(t) \in Nat
      /\ \A i \in 1..Len(t) : t[i] = q[i + 1]
  BY <1>1, <1>5, HeadTailProperties
<1>8. \A i \in 1..Len(t) : t[i].item # "task" /\ t[i].item # "descriptor"
  <2>1. SUFFICES ASSUME NEW i \in 1..Len(t)
                 PROVE  t[i].item # "task" /\ t[i].item # "descriptor"
    OBVIOUS
  <2>2. i + 1 \in DOMAIN q /\ i + 1 # 1 /\ ~(i + 1 < 1)
    BY <1>5, <1>7
  <2>3. t[i] = q[i + 1]
    BY <1>7
  <2>4. QED
    BY <1>4, <1>6, <2>2, <2>3 DEF TaskAt
<1>9. /\ d \in Seq(QueueItems) /\ Len(d) = Len(order) /\ Len(d) \in Nat
      /\ DOMAIN order = 1..Len(d)
      /\ \A i \in 1..Len(d) : d[i] = Descriptor(order[i]) /\ d[i].item = "descriptor"
  <2>1. DOMAIN order = 1..Len(order) /\ Len(order) \in Nat
    BY LenProperties
  <2>2. \A i \in 1..Len(order) : order[i] \in Ports
    BY ElementOfSeq
  <2>3. \A i \in 1..Len(order) : /\ Descriptor(order[i]) \in QueueItems
                                 /\ Descriptor(order[i]).item = "descriptor"
    BY <2>2, ItemKinds
  <2>4. d \in [1..Len(order) -> QueueItems]
    BY <1>2, <2>1, <2>3
  <2>5. d \in Seq(QueueItems) /\ Len(d) = Len(order)
    BY <2>1, <2>4, SeqDef
  <2>6. QED
    BY <1>2, <2>1, <2>3, <2>5
<1>10. u \in Seq(QueueItems) /\ Len(u) = 1 /\ u[1] = Task
  <2>1. <<Task>> \in Seq(QueueItems)
    BY ItemKinds
  <2>2. QED
    BY <1>3, <2>1
<1>11. PICK s : s = t \o d
  OBVIOUS
<1>12. /\ s \in Seq(QueueItems) /\ Len(s) = Len(t) + Len(d) /\ Len(s) \in Nat
       /\ \A i \in 1..(Len(t) + Len(d)) : s[i] = IF i <= Len(t) THEN t[i] ELSE d[i - Len(t)]
  <2>1. t \in Seq(QueueItems) /\ d \in Seq(QueueItems)
    BY <1>7, <1>9
  <2>2. /\ t \o d \in Seq(QueueItems) /\ Len(t \o d) = Len(t) + Len(d)
        /\ \A i \in 1..(Len(t) + Len(d)) :
             (t \o d)[i] = IF i <= Len(t) THEN t[i] ELSE d[i - Len(t)]
    BY <2>1, ConcatProperties
  <2>3. Len(t) + Len(d) \in Nat
    BY <1>7, <1>9
  <2>4. QED
    BY <1>11, <2>2, <2>3
<1>0. PICK r : r = Requeued(q, order)
  OBVIOUS
<1>13. r = s \o u
  BY <1>0, <1>1, <1>2, <1>3, <1>11 DEF Requeued
<1>14. /\ r \in Seq(QueueItems) /\ Len(r) = Len(s) + 1
       /\ \A i \in 1..(Len(s) + 1) : r[i] = IF i <= Len(s) THEN s[i] ELSE u[i - Len(s)]
       /\ DOMAIN r = 1..(Len(s) + 1)
  <2>1. /\ s \o u \in Seq(QueueItems) /\ Len(s \o u) = Len(s) + Len(u)
        /\ \A i \in 1..(Len(s) + Len(u)) :
             (s \o u)[i] = IF i <= Len(s) THEN s[i] ELSE u[i - Len(s)]
    <3>1. s \in Seq(QueueItems) /\ u \in Seq(QueueItems)
      BY <1>10, <1>12
    <3>2. QED
      BY <3>1, ConcatProperties
  <2>2. QED
    BY <1>10, <1>13, <2>1, LenProperties
<1>15. /\ \A i \in 1..Len(t) : r[i] = t[i]
       /\ \A i \in 1..Len(d) : Len(t) + i \in 1..Len(s) /\ r[Len(t) + i] = d[i]
       /\ r[Len(s) + 1] = Task
  <2>1. ASSUME NEW i \in 1..Len(t) PROVE r[i] = t[i]
    <3>1. i \in 1..(Len(t) + Len(d)) /\ i <= Len(t) /\ i <= Len(s) /\ i \in 1..(Len(s) + 1)
      BY <1>7, <1>9, <1>12
    <3>2. QED
      BY <1>12, <1>14, <3>1
  <2>2. ASSUME NEW i \in 1..Len(d)
        PROVE  Len(t) + i \in 1..Len(s) /\ r[Len(t) + i] = d[i]
    <3>1. PICK j : j = Len(t) + i /\ j \in Nat
      <4>1. Len(t) + i \in Nat
        BY <1>7, <1>9
      <4>2. QED
        BY <4>1
    <3>2. /\ j \in 1..(Len(t) + Len(d)) /\ ~(j <= Len(t)) /\ j <= Len(s)
          /\ j \in 1..(Len(s) + 1) /\ j - Len(t) = i
      BY <1>7, <1>9, <1>12, <3>1
    <3>3. s[j] = d[j - Len(t)] /\ r[j] = s[j]
      BY <1>12, <1>14, <3>2
    <3>4. QED
      BY <1>12, <3>1, <3>2, <3>3
  <2>3. r[Len(s) + 1] = Task
    <3>1. /\ Len(s) + 1 \in 1..(Len(s) + 1) /\ ~(Len(s) + 1 <= Len(s))
          /\ (Len(s) + 1) - Len(s) = 1
      BY <1>12
    <3>2. r[Len(s) + 1] = u[(Len(s) + 1) - Len(s)]
      BY <1>14, <3>1
    <3>3. QED
      BY <1>10, <3>1, <3>2
  <2>4. QED
    BY <2>1, <2>2, <2>3
<1>16. \A i \in DOMAIN r : \/ i \in 1..Len(t)
                           \/ \E j \in 1..Len(d) : i = Len(t) + j
                           \/ i = Len(s) + 1
  <2>1. SUFFICES ASSUME NEW i \in 1..(Len(s) + 1), ~(i \in 1..Len(t)), i # Len(s) + 1
                 PROVE  \E j \in 1..Len(d) : i = Len(t) + j
    BY <1>14
  <2>2. i - Len(t) \in 1..Len(d) /\ i = Len(t) + (i - Len(t))
    BY <1>7, <1>9, <1>12, <2>1
  <2>3. QED
    BY <2>2
<1>17. TaskAt(r, Len(s) + 1)
  <2>1. Len(s) + 1 \in DOMAIN r
    BY <1>12, <1>14
  <2>2. ASSUME NEW i \in DOMAIN r
        PROVE  /\ r[i].item = "task" => i = Len(s) + 1
               /\ r[i].item = "descriptor" => i < Len(s) + 1
    <3>1. CASE i \in 1..Len(t)
      BY <1>8, <1>15, <3>1
    <3>2. CASE \E j \in 1..Len(d) : i = Len(t) + j
      <4>1. PICK j \in 1..Len(d) : i = Len(t) + j
        BY <3>2
      <4>2. r[i].item = "descriptor" /\ i \in 1..Len(s)
        BY <1>9, <1>15, <4>1
      <4>3. i < Len(s) + 1
        BY <1>12, <4>2
      <4>4. QED
        BY <4>2, <4>3
    <3>3. CASE i = Len(s) + 1
      BY <1>15, <3>3, ItemKinds
    <3>4. QED
      BY <1>16, <3>1, <3>2, <3>3
  <2>3. ASSUME NEW i \in DOMAIN r, r[i].item = "descriptor"
        PROVE  \E j \in 1..Len(d) : i = Len(t) + j /\ r[i] = Descriptor(order[j])
    <3>1. ~(i \in 1..Len(t))
      BY <1>8, <1>15, <2>3
    <3>2. i # Len(s) + 1
      BY <1>15, <2>3, ItemKinds
    <3>3. PICK j \in 1..Len(d) : i = Len(t) + j
      BY <1>16, <3>1, <3>2
    <3>4. QED
      BY <1>9, <1>15, <3>3
  <2>4. ASSUME NEW i \in DOMAIN r, NEW j \in DOMAIN r,
               r[i].item = "descriptor", r[i] = r[j]
        PROVE  i = j
    <3>1. PICK a \in 1..Len(d) : i = Len(t) + a /\ r[i] = Descriptor(order[a])
      BY <2>3, <2>4
    <3>2. PICK b \in 1..Len(d) : j = Len(t) + b /\ r[j] = Descriptor(order[b])
      BY <2>3, <2>4
    <3>3. order[a] = order[b]
      <4>1. order[a] \in Ports /\ order[b] \in Ports
        BY <1>9, ElementOfSeq
      <4>2. Descriptor(order[a]) = Descriptor(order[b])
        BY <2>4, <3>1, <3>2
      <4>3. QED
        BY <4>1, <4>2, ItemKinds
    <3>4. a = b
      BY <1>9, <3>3 DEF Distinct
    <3>5. QED
      BY <3>1, <3>2, <3>4
  <2>5. QED
    BY <1>15, <2>1, <2>2, <2>4 DEF TaskAt
<1>18. InTurn(r)
  BY <1>12, <1>17 DEF InTurn
<1>19. Cardinality(Places(r, "completion")) = Cardinality(Places(q, "completion"))
  <2>1. Cardinality(Places(q, "completion")) = Cardinality(Places(t, "completion"))
    <3>1. Cardinality(Places(q, "completion")) = Cardinality(Places(t, "completion"))
            + (IF Head(q).item = "completion" THEN 1 ELSE 0)
      BY <1>1, <1>5, PlacesOfTail
    <3>2. Head(q).item # "completion"
      BY ItemKinds
    <3>3. Cardinality(Places(t, "completion")) \in Nat
      BY <1>7, PlacesFinite
    <3>4. QED
      BY <3>1, <3>2, <3>3
  <2>2. Cardinality(Places(s, "completion")) =
          Cardinality(Places(t, "completion")) + Cardinality(Places(d, "completion"))
    BY <1>7, <1>9, <1>11, PlacesOfConcat
  <2>3. Cardinality(Places(d, "completion")) = 0
    <3>1. DOMAIN d = 1..Len(d)
      BY <1>9, LenProperties
    <3>2. \A i \in DOMAIN d : d[i].item # "completion"
      BY <1>9, <3>1
    <3>3. QED
      BY <1>9, <3>2, PlacesOfNone
  <2>4. Cardinality(Places(r, "completion")) =
          Cardinality(Places(s, "completion")) + Cardinality(Places(u, "completion"))
    BY <1>10, <1>12, <1>13, PlacesOfConcat
  <2>5. Cardinality(Places(u, "completion")) = 0
    BY <1>3, ItemKinds, PlacesOfOne
  <2>6. Cardinality(Places(t, "completion")) \in Nat
    BY <1>7, PlacesFinite
  <2>7. QED
    BY <2>1, <2>2, <2>3, <2>4, <2>5, <2>6
<1>20. \A i \in DOMAIN order : \E j \in DOMAIN r : r[j] = Descriptor(order[i])
  <2>1. SUFFICES ASSUME NEW i \in 1..Len(d)
                 PROVE  \E j \in DOMAIN r : r[j] = Descriptor(order[i])
    BY <1>9
  <2>2. Len(t) + i \in DOMAIN r
    BY <1>12, <1>14, <1>15
  <2>3. r[Len(t) + i] = Descriptor(order[i])
    BY <1>9, <1>15
  <2>4. QED
    BY <2>2, <2>3
<1>21. \A j \in DOMAIN q : q[j].item # "descriptor"
  <2>1. \A j \in DOMAIN q : ~(j < 1)
    BY <1>5
  <2>2. QED
    BY <1>4, <1>6, <2>1 DEF TaskAt
<1>22. QED
  BY <1>0, <1>14, <1>18, <1>19, <1>20, <1>21

------------------------------------------------------------------------------
(***************************************************************************)
(* What completes and what goes out has the type it should have.           *)
(***************************************************************************)
Wired == [port : Ports, index : Nat, cells : Seq(Datagram \cup {None})]

LEMMA HeadType ==
  ASSUME TypeOK, NEW p \in Ports, Readable(p)
  PROVE  /\ taken[p] + 1 \in Nat \ {0}
         /\ Head1(p) \in [src : Senders, size : Sizes]
         /\ BytesOf(p) \in 0..BufferSize
         /\ Failed(p) \in BOOLEAN
<1>1. arrivals[p] \in Seq([src : Senders, size : Sizes]) /\ taken[p] \in Nat
  BY DEF TypeOK
<1>2. taken[p] + 1 \in 1..Len(arrivals[p])
  BY <1>1, LenProperties DEF Readable
<1>3. Head1(p) \in [src : Senders, size : Sizes]
  BY <1>1, <1>2, ElementOfSeq DEF Head1
<1>4. Head1(p).size \in Nat \cup {ReceiveError}
  BY <1>3, AsioUdpAssumption
<1>5. BufferSize \in Nat
  BY AsioUdpAssumption
<1>6. BytesOf(p) \in 0..BufferSize
  <2>1. CASE Failed(p)
    BY <1>5, <2>1 DEF BytesOf
  <2>2. CASE ~Failed(p)
    <3>1. Head1(p).size \in Nat
      BY <1>4, <2>2 DEF Failed
    <3>2. QED
      BY <1>5, <2>2, <3>1 DEF BytesOf
  <2>3. QED
    BY <2>1, <2>2
<1>7. Failed(p) \in BOOLEAN
  BY DEF Failed
<1>8. QED
  BY <1>1, <1>3, <1>6, <1>7

LEMMA ReceiveDoneType ==
  ASSUME TypeOK, NEW p \in Ports, Readable(p), NEW op \in Receive
  PROVE  ReceiveDone(p, op) \in Completion
<1>1. op.handler \in Handlers
  BY DEF Receive
<1>2. QED
  BY <1>1, HeadType DEF ReceiveDone, Completion

LEMMA PerformReceiveType ==
  ASSUME TypeOK, NEW p \in Ports, Readable(p), PerformReceive(p)
  PROVE  /\ taken' \in [Ports -> Nat]
         /\ \A r \in Ports : taken'[r] >= taken[r]
         /\ buffer' \in [1..BufferSize -> Datagram \cup {None}]
         /\ endpoint' \in Senders \cup {None}
<1>1. /\ taken \in [Ports -> Nat] /\ buffer \in [1..BufferSize -> Datagram \cup {None}]
      /\ endpoint \in Senders \cup {None}
  BY DEF TypeOK
<1>2. taken' = [taken EXCEPT ![p] = @ + 1]
  BY DEF PerformReceive
<1>3. taken' \in [Ports -> Nat] /\ \A r \in Ports : taken'[r] >= taken[r]
  BY <1>1, <1>2
<1>4. [port |-> p, index |-> taken[p] + 1] \in Datagram
  BY HeadType DEF Datagram
<1>5. buffer' \in [1..BufferSize -> Datagram \cup {None}]
  BY <1>1, <1>4 DEF PerformReceive
<1>6. Head1(p).src \in Senders
  BY HeadType
<1>7. endpoint' \in Senders \cup {None}
  BY <1>1, <1>6 DEF PerformReceive
<1>8. QED
  BY <1>3, <1>5, <1>7

LEMMA SendDoneType ==
  ASSUME NEW op \in Send, NEW failed \in BOOLEAN
  PROVE  SendDone(op, failed) \in Completion
<1>1. 0 \in 0..BufferSize
  BY AsioUdpAssumption
<1>2. /\ op.port \in Ports /\ op.handler \in Handlers /\ op.index \in Nat
      /\ op.bytes \in 0..BufferSize
  BY DEF Send
<1>3. QED
  BY <1>1, <1>2 DEF SendDone, Completion

LEMMA PacketType == ASSUME TypeOK, NEW op \in Send PROVE Packet(op) \in Wired
<1>1. /\ op.port \in Ports /\ op.index \in Nat /\ op.bytes \in 0..BufferSize
      /\ BufferSize \in Nat
  BY AsioUdpAssumption DEF Send
<1>2. \A i \in 1..op.bytes : buffer[i] \in Datagram \cup {None}
  <2>1. \A i \in 1..op.bytes : i \in 1..BufferSize
    BY <1>1
  <2>2. QED
    BY <2>1 DEF TypeOK
<1>3. op.bytes \in Int /\ 1 \in Int
  BY <1>1
<1>4. SubSeq(buffer, 1, op.bytes) \in Seq(Datagram \cup {None})
  BY <1>2, <1>3, SubSeqProperties
<1>5. QED
  BY <1>1, <1>4 DEF Packet, Wired

LEMMA DoneType ==
  ASSUME TypeOK, NEW p \in Ports, NEW n \in 0..Len(writeOps[p]), NEW rejected
  PROVE  /\ Done(p, n, rejected) \in Seq(Completion)
         /\ Len(Done(p, n, rejected)) = n + (IF Receives(p) THEN 1 ELSE 0)
         /\ Packets(p, n, rejected) \in Seq(Wired)
         /\ \A i \in 1..n : /\ Done(p, n, rejected)[i].handler = writeOps[p][i].handler
                            /\ Done(p, n, rejected)[i].port = writeOps[p][i].port
         /\ Receives(p) => Done(p, n, rejected)[n + 1] = ReceiveDone(p, readOp[p])
<1>1. writeOps[p] \in Seq(Send) /\ Len(writeOps[p]) \in Nat /\ n \in Nat
  <2>1. writeOps[p] \in Seq(Send)
    BY DEF TypeOK
  <2>2. QED
    BY <2>1, LenProperties
<1>2. \A i \in 1..n : writeOps[p][i] \in Send
  <2>1. \A i \in 1..n : i \in 1..Len(writeOps[p])
    BY <1>1
  <2>2. QED
    BY <1>1, <2>1, ElementOfSeq
<1>3. PICK sent : sent = [i \in 1..n |-> SendDone(writeOps[p][i], i \in rejected)]
  OBVIOUS
<1>4. sent \in Seq(Completion) /\ Len(sent) = n
  <2>1. ASSUME NEW i \in 1..n PROVE SendDone(writeOps[p][i], i \in rejected) \in Completion
    <3>1. (i \in rejected) \in BOOLEAN
      OBVIOUS
    <3>2. QED
      BY <1>2, <3>1, SendDoneType
  <2>2. sent \in [1..n -> Completion]
    BY <1>3, <2>1
  <2>3. QED
    BY <1>1, <2>2, SeqDef
<1>5. PICK rest : rest = IF Receives(p) THEN <<ReceiveDone(p, readOp[p])>> ELSE <<>>
  OBVIOUS
<1>6. rest \in Seq(Completion) /\ Len(rest) = IF Receives(p) THEN 1 ELSE 0
  <2>1. CASE Receives(p)
    <3>1. readOp[p] \in Receive
      BY <2>1 DEF TypeOK, Receives
    <3>2. ReceiveDone(p, readOp[p]) \in Completion
      BY <2>1, <3>1, ReceiveDoneType DEF Receives
    <3>3. PICK c \in Completion : c = ReceiveDone(p, readOp[p])
      BY <3>2
    <3>4. rest = <<c>>
      BY <1>5, <2>1, <3>3
    <3>5. QED
      BY <2>1, <3>4
  <2>2. CASE ~Receives(p)
    BY <1>5, <2>2, EmptySeq
  <2>3. QED
    BY <2>1, <2>2
<1>7. Done(p, n, rejected) = sent \o rest
  BY <1>3, <1>5 DEF Done
<1>8. /\ Done(p, n, rejected) \in Seq(Completion)
      /\ Len(Done(p, n, rejected)) = n + (IF Receives(p) THEN 1 ELSE 0)
  BY <1>4, <1>6, <1>7, ConcatProperties
<1>9. /\ \A i \in 1..n : Done(p, n, rejected)[i] = sent[i]
      /\ Receives(p) => Done(p, n, rejected)[n + 1] = rest[1]
  <2>1. \A i \in 1..(Len(sent) + Len(rest)) :
          (sent \o rest)[i] = IF i <= Len(sent) THEN sent[i] ELSE rest[i - Len(sent)]
    BY <1>4, <1>6, ConcatProperties
  <2>2. ASSUME NEW i \in 1..n PROVE Done(p, n, rejected)[i] = sent[i]
    <3>1. i \in 1..(Len(sent) + Len(rest)) /\ i <= Len(sent)
      BY <1>1, <1>4, <1>6
    <3>2. QED
      BY <1>7, <2>1, <3>1
  <2>3. ASSUME Receives(p) PROVE Done(p, n, rejected)[n + 1] = rest[1]
    <3>1. n + 1 \in 1..(Len(sent) + Len(rest)) /\ ~(n + 1 <= Len(sent))
          /\ (n + 1) - Len(sent) = 1
      BY <1>1, <1>4, <1>6, <2>3
    <3>2. QED
      BY <1>7, <2>1, <3>1
  <2>4. QED
    BY <2>2, <2>3
<1>10. \A i \in 1..n : /\ sent[i].handler = writeOps[p][i].handler
                       /\ sent[i].port = writeOps[p][i].port
  BY <1>3 DEF SendDone
<1>11. Receives(p) => rest[1] = ReceiveDone(p, readOp[p])
  BY <1>5
<1>12. Packets(p, n, rejected) \in Seq(Wired)
  <2> DEFINE piece(i) == IF i \in rejected THEN <<>> ELSE <<Packet(writeOps[p][i])>>
  <2>1. ASSUME NEW i \in 1..n PROVE piece(i) \in Seq(Wired)
    <3>1. PICK w \in Wired : w = Packet(writeOps[p][i])
      BY <1>2, PacketType
    <3>2. <<w>> \in Seq(Wired) /\ <<>> \in Seq(Wired)
      OBVIOUS
    <3>3. QED
      BY <3>1, <3>2
  <2> HIDE DEF piece
  <2>2. [i \in 1..n |-> piece(i)] \in [1..n -> Seq(Wired)]
    BY <2>1
  <2>3. [i \in 1..n |-> piece(i)] \in Seq(Seq(Wired))
    BY <1>1, <2>2, SeqDef
  <2>4. FlattenSeq([i \in 1..n |-> piece(i)]) \in Seq(Wired)
    BY <2>3, FlattenSeqType
  <2>5. QED
    BY <2>4 DEF Packets, piece
<1>13. QED
  BY <1>8, <1>9, <1>10, <1>11, <1>12

LEMMA FunctionIsSeq ==
  ASSUME NEW S, NEW l \in Nat, NEW f \in [1..l -> S]
  PROVE  f \in Seq(S) /\ Len(f) = l /\ DOMAIN f = 1..l
<1>1. f \in Seq(S)
  BY SeqDef
<1>2. PICK m \in Nat : m = Len(f) /\ 1..m = 1..l
  BY <1>1, LenProperties
<1>3. m <= l /\ l <= m
  <2>1. m > l => m \in 1..m /\ m \notin 1..l
    OBVIOUS
  <2>2. l > m => l \in 1..l /\ l \notin 1..m
    OBVIOUS
  <2>3. QED
    BY <1>2, <2>1, <2>2
<1>4. QED
  BY <1>1, <1>2, <1>3

(* Completions but the first are posted. *)
Posted(done) == [i \in 1..(Len(done) - 1) |-> Completed(done[i + 1])]

LEMMA PostedType ==
  ASSUME NEW done \in Seq(Completion)
  PROVE  /\ Posted(done) \in Seq(QueueItems)
         /\ Len(Posted(done)) = IF done = <<>> THEN 0 ELSE Len(done) - 1
         /\ \A i \in DOMAIN Posted(done) :
              /\ Posted(done)[i].item = "completion"
              /\ i + 1 \in 1..Len(done) /\ Posted(done)[i] = Completed(done[i + 1])
<1>1. Len(done) \in Nat /\ (done = <<>> <=> Len(done) = 0)
  BY LenProperties, EmptySeq
<1>2. PICK l \in Nat : l = IF done = <<>> THEN 0 ELSE Len(done) - 1
  BY <1>1
<1>3. 1..(Len(done) - 1) = 1..l
  BY <1>1, <1>2
<1>4. ASSUME NEW i \in 1..l
      PROVE  /\ Completed(done[i + 1]) \in QueueItems
             /\ Completed(done[i + 1]).item = "completion"
             /\ i + 1 \in 1..Len(done)
  <2>1. i + 1 \in 1..Len(done)
    BY <1>1, <1>2
  <2>2. done[i + 1] \in Completion
    BY <2>1, ElementOfSeq
  <2>3. QED
    BY <2>1, <2>2, ItemKinds
<1>5. PICK more : more = Posted(done)
  OBVIOUS
<1>6. more = [i \in 1..l |-> Completed(done[i + 1])]
  BY <1>3, <1>5 DEF Posted
<1>7. /\ more \in [1..l -> QueueItems]
      /\ \A i \in 1..l : /\ more[i].item = "completion"
                         /\ i + 1 \in 1..Len(done)
                         /\ more[i] = Completed(done[i + 1])
  BY <1>4, <1>6
<1>8. more \in Seq(QueueItems) /\ Len(more) = l /\ DOMAIN more = 1..l
  <2>1. more \in [1..l -> QueueItems]
    BY <1>7
  <2>2. QED
    BY <2>1, FunctionIsSeq
<1>9. QED
  BY <1>2, <1>5, <1>7, <1>8

------------------------------------------------------------------------------
(***************************************************************************)
(* The step of a descriptor, told without the sets it chooses from: n      *)
(* sends leave, done is what completes, and more of it is posted.          *)
(***************************************************************************)
KeptOf(packets, p, n) ==
  \E m \in Nat : \E f :
    Increasing(f, m, n) /\ packets = [k \in 1..m |-> Packet(writeOps[p][f[k]])]

DescriptorDoes(p, n, done, more, packets, full) ==
  /\ Len(done) = n + (IF Receives(p) THEN 1 ELSE 0)
  /\ Len(more) = IF done = <<>> THEN 0 ELSE Len(done) - 1
  /\ \A i \in 1..n : /\ done[i].handler = writeOps[p][i].handler
                     /\ done[i].port = writeOps[p][i].port
  /\ Receives(p) => done[n + 1] = ReceiveDone(p, readOp[p])
  /\ \A i \in DOMAIN more : more[i].item = "completion"
  /\ \A i \in DOMAIN more : i + 1 \in 1..Len(done) /\ more[i] = Completed(done[i + 1])
  /\ (full <=> 0 < n /\ n < Len(writeOps[p]))
  /\ "out" \in events[p] /\ Writable(p) => n = Len(writeOps[p]) \/ 0 < n
  /\ KeptOf(packets, p, n)
  /\ wire' = wire \o packets
  /\ writeOps' = [writeOps EXCEPT ![p] = SubSeq(@, n + 1, Len(@))]
  /\ txFull' = [txFull EXCEPT ![p] = @ \/ full]
  /\ blocks' = IF full THEN blocks + 1 ELSE blocks
  /\ running' = IF done = <<>> THEN None ELSE Head(done)
  /\ ioq' = Tail(ioq) \o more

(* What the kernel takes of n sends are some of them, in their order. *)
LEMMA PacketsKept ==
  ASSUME TypeOK, NEW p \in Ports, NEW n \in 0..Len(writeOps[p]), NEW R
  PROVE  KeptOf(Packets(p, n, R), p, n)
<1>1. writeOps[p] \in Seq(Send) /\ n \in Nat /\ 1..n \subseteq DOMAIN writeOps[p]
  <2>1. writeOps[p] \in Seq(Send)
    BY DEF TypeOK
  <2>2. QED
    BY <2>1, LenProperties
<1>2. PICK s : s = [i \in 1..n |-> Packet(writeOps[p][i])]
  OBVIOUS
<1>3. s \in [1..n -> Wired]
  <2>1. ASSUME NEW i \in 1..n PROVE Packet(writeOps[p][i]) \in Wired
    <3>1. writeOps[p][i] \in Send
      BY <1>1, ElementOfSeq
    <3>2. QED
      BY <3>1, PacketType
  <2>2. QED
    BY <1>2, <2>1
<1>4. Packets(p, n, R) = FlattenSeq([i \in 1..n |-> IF i \in R THEN <<>> ELSE <<s[i]>>])
  <2>1. \A i \in 1..n : Packet(writeOps[p][i]) = s[i]
    BY <1>2
  <2>2. [i \in 1..n |-> IF i \in R THEN <<>> ELSE <<Packet(writeOps[p][i])>>]
          = [i \in 1..n |-> IF i \in R THEN <<>> ELSE <<s[i]>>]
    BY <2>1
  <2>3. QED
    BY <2>2 DEF Packets
<1>5. Picked(Packets(p, n, R), s, n)
  BY <1>1, <1>3, <1>4, FlattenPicks
<1>6. PICK m \in Nat :
        \E f : Increasing(f, m, n) /\ Packets(p, n, R) = [k \in 1..m |-> s[f[k]]]
  BY <1>5 DEF Picked
<1>7. PICK f : Increasing(f, m, n) /\ Packets(p, n, R) = [k \in 1..m |-> s[f[k]]]
  BY <1>6
<1>8. \A k \in 1..m : s[f[k]] = Packet(writeOps[p][f[k]])
  BY <1>2, <1>7 DEF Increasing
<1>9. Packets(p, n, R) = [k \in 1..m |-> Packet(writeOps[p][f[k]])]
  BY <1>7, <1>8
<1>10. QED
  BY <1>7, <1>9 DEF KeptOf

LEMMA DescriptorStep ==
  ASSUME TypeOK, NEW p \in Ports, RunDescriptor(p)
  PROVE  \E n \in 0..Len(writeOps[p]), done \in Seq(Completion),
            more \in Seq(QueueItems), packets \in Seq(Wired), full \in BOOLEAN :
           DescriptorDoes(p, n, done, more, packets, full)
<1>1. Len(writeOps[p]) \in Nat
  <2>1. writeOps[p] \in Seq(Send)
    BY DEF TypeOK
  <2>2. QED
    BY <2>1, LenProperties
<1>2. PICK n \in Flushable(p) : \E rejected \in Rejected(n) :
         LET done == Done(p, n, rejected)
             full == 0 < n /\ n < Len(writeOps[p])
         IN  /\ wire' = wire \o Packets(p, n, rejected)
             /\ writeOps' = [writeOps EXCEPT ![p] = SubSeq(@, n + 1, Len(@))]
             /\ txFull' = [txFull EXCEPT ![p] = @ \/ full]
             /\ blocks' = IF full THEN blocks + 1 ELSE blocks
             /\ running' = IF done = <<>> THEN None ELSE Head(done)
             /\ ioq' = Tail(ioq) \o [i \in 1..(Len(done) - 1) |-> Completed(done[i + 1])]
  BY DEF RunDescriptor
<1>3. /\ n \in 0..Len(writeOps[p])
      /\ "out" \in events[p] /\ Writable(p) => n = Len(writeOps[p]) \/ 0 < n
  BY <1>1 DEF Flushable
<1>0. PICK rejected :
         LET done == Done(p, n, rejected)
             full == 0 < n /\ n < Len(writeOps[p])
         IN  /\ wire' = wire \o Packets(p, n, rejected)
             /\ writeOps' = [writeOps EXCEPT ![p] = SubSeq(@, n + 1, Len(@))]
             /\ txFull' = [txFull EXCEPT ![p] = @ \/ full]
             /\ blocks' = IF full THEN blocks + 1 ELSE blocks
             /\ running' = IF done = <<>> THEN None ELSE Head(done)
             /\ ioq' = Tail(ioq) \o [i \in 1..(Len(done) - 1) |-> Completed(done[i + 1])]
  BY <1>2
<1>4. PICK done : done = Done(p, n, rejected)
  OBVIOUS
<1>5. PICK packets : packets = Packets(p, n, rejected)
  OBVIOUS
<1>6. /\ done \in Seq(Completion) /\ packets \in Seq(Wired)
      /\ Len(done) = n + (IF Receives(p) THEN 1 ELSE 0)
      /\ \A i \in 1..n : /\ done[i].handler = writeOps[p][i].handler
                         /\ done[i].port = writeOps[p][i].port
      /\ Receives(p) => done[n + 1] = ReceiveDone(p, readOp[p])
  BY <1>3, <1>4, <1>5, DoneType
<1>7. KeptOf(packets, p, n)
  BY <1>3, <1>5, PacketsKept
<1>8. PICK full \in BOOLEAN : full <=> 0 < n /\ n < Len(writeOps[p])
  OBVIOUS
<1>9. PICK more : more = Posted(done)
  OBVIOUS
<1>10. /\ more \in Seq(QueueItems)
       /\ Len(more) = IF done = <<>> THEN 0 ELSE Len(done) - 1
       /\ \A i \in DOMAIN more : more[i].item = "completion"
       /\ \A i \in DOMAIN more : i + 1 \in 1..Len(done) /\ more[i] = Completed(done[i + 1])
  BY <1>6, <1>9, PostedType
<1>11. /\ wire' = wire \o packets
       /\ writeOps' = [writeOps EXCEPT ![p] = SubSeq(@, n + 1, Len(@))]
       /\ txFull' = [txFull EXCEPT ![p] = @ \/ full]
       /\ blocks' = IF full THEN blocks + 1 ELSE blocks
       /\ running' = IF done = <<>> THEN None ELSE Head(done)
  BY <1>0, <1>4, <1>5, <1>8
<1>12. ioq' = Tail(ioq) \o more
  BY <1>0, <1>4, <1>9 DEF Posted
<1>13. DescriptorDoes(p, n, done, more, packets, full)
  BY <1>3, <1>6, <1>7, <1>8, <1>10, <1>11, <1>12 DEF DescriptorDoes
<1>14. QED
  BY <1>3, <1>6, <1>8, <1>10, <1>13

(***************************************************************************)
(* The queue keeps its turn, and with it every variable its type.          *)
(***************************************************************************)
LEMMA WorkThere ==
  ASSUME TypeOK, WorkIsExact, running # None PROVE work \in Nat \ {0}
<1>1. /\ PendingReceives \subseteq Ports
      /\ IsFiniteSet(PendingReceives) /\ Cardinality(PendingReceives) \in Nat
  <2>1. PendingReceives \in SUBSET Ports
    BY DEF PendingReceives
  <2>2. QED
    BY <2>1, AsioUdpAssumption, FS_Subset, FS_CardinalityType
<1>2. PendingSends = Waiting(writeOps)
  BY DEF PendingSends, Waiting
<1>3. Cardinality(PendingSends) \in Nat
  <2>1. writeOps \in [Ports -> Seq(Send)]
    BY DEF TypeOK
  <2>2. QED
    BY <1>2, <2>1, WaitingFinite
<1>4. Cardinality(QueuedAt("completion")) \in Nat
  <2>1. QueuedAt("completion") = Places(ioq, "completion") /\ ioq \in Seq(QueueItems)
    BY DEF QueuedAt, Places, TypeOK
  <2>2. QED
    BY <2>1, PlacesFinite
<1>5. work = Cardinality(PendingReceives) + Cardinality(PendingSends)
               + Cardinality(QueuedAt("completion")) + 1
  BY DEF WorkIsExact
<1>6. QED
  BY <1>1, <1>3, <1>4, <1>5

TypeTurn == TypeOK /\ InTurn(ioq)

LEMMA TurnUnchanged == ASSUME InTurn(ioq), ioq' = ioq PROVE InTurn(ioq)'
BY DEF InTurn, TaskAt

LEMMA KernelTypes == ASSUME TypeTurn, Kernel PROVE TypeTurn'
<1>1. PICK p \in Ports : \/ \E src \in Senders, size \in Sizes : Deliver(p, src, size)
                         \/ Block(p) \/ Drain(p)
  BY DEF Kernel
<1>2. UNCHANGED <<reactorVars, schedulerVars, memoryVars, open, taken, wire>>
  BY <1>1 DEF Deliver, Block, Drain
<1>3. InTurn(ioq)'
  BY <1>2, TurnUnchanged DEF TypeTurn, schedulerVars
<1>4. arrivals' \in [Ports -> Seq([src : Senders, size : Sizes])]
  <2>1. CASE \E src \in Senders, size \in Sizes : Deliver(p, src, size)
    <3>1. PICK src \in Senders, size \in Sizes : Deliver(p, src, size)
      BY <2>1
    <3>2. [src |-> src, size |-> size] \in [src : Senders, size : Sizes]
      OBVIOUS
    <3>3. arrivals[p] \in Seq([src : Senders, size : Sizes])
      BY DEF TypeTurn, TypeOK
    <3>4. Append(arrivals[p], [src |-> src, size |-> size])
            \in Seq([src : Senders, size : Sizes])
      BY <3>2, <3>3, AppendProperties
    <3>5. QED
      BY <3>1, <3>4 DEF TypeTurn, TypeOK, Deliver
  <2>2. CASE Block(p) \/ Drain(p)
    BY <2>2 DEF TypeTurn, TypeOK, Block, Drain
  <2>3. QED
    BY <1>1, <2>1, <2>2
<1>5. /\ txFull' \in [Ports -> BOOLEAN]
      /\ blocks' \in Nat
      /\ edge' \in [Ports -> BOOLEAN]
  <2>1. /\ txFull \in [Ports -> BOOLEAN] /\ blocks \in Nat
        /\ edge \in [Ports -> BOOLEAN] /\ pollOut \in [Ports -> BOOLEAN]
    BY DEF TypeTurn, TypeOK
  <2>2. CASE \E src \in Senders, size \in Sizes : Deliver(p, src, size)
    BY <2>1, <2>2 DEF Deliver
  <2>3. CASE Block(p)
    BY <2>1, <2>3 DEF Block
  <2>4. CASE Drain(p)
    <3>1. (edge[p] \/ pollOut[p]) \in BOOLEAN
      BY <2>1
    <3>2. edge' \in [Ports -> BOOLEAN]
      BY <2>1, <2>4, <3>1 DEF Drain
    <3>3. QED
      BY <2>1, <2>4, <3>2 DEF Drain
  <2>5. QED
    BY <1>1, <2>2, <2>3, <2>4
<1>6. QED
  BY <1>2, <1>3, <1>4, <1>5
  DEF TypeTurn, TypeOK, reactorVars, schedulerVars, memoryVars

LEMMA OpenTypes ==
  ASSUME TypeTurn, NEW p \in Ports, OpenSocket(p) PROVE TypeTurn'
<1>1. InTurn(ioq)'
  BY TurnUnchanged DEF TypeTurn, OpenSocket, schedulerVars
<1>2. QED
  BY <1>1 DEF TypeTurn, TypeOK, OpenSocket, reactorVars, schedulerVars, memoryVars

(* A completion that is posted. *)
LEMMA TurnAppend ==
  ASSUME NEW q \in Seq(QueueItems), InTurn(q), NEW c \in Completion
  PROVE  /\ Append(q, Completed(c)) \in Seq(QueueItems)
         /\ InTurn(Append(q, Completed(c)))
<1>1. PICK x \in QueueItems : x = Completed(c) /\ x.item = "completion"
  BY ItemKinds
<1>2. PICK one : one = <<x>>
  OBVIOUS
<1>3. one \in Seq(QueueItems) /\ \A i \in DOMAIN one : one[i].item = "completion"
  BY <1>1, <1>2
<1>4. Append(q, x) = q \o one
  BY <1>2, AppendIsConcat
<1>5. InTurn(q \o one) /\ q \o one \in Seq(QueueItems)
  BY <1>3, TurnBefore, ConcatProperties
<1>6. QED
  BY <1>1, <1>4, <1>5

LEMMA ReceiveTypes ==
  ASSUME TypeTurn, NEW p \in Ports, NEW h \in Handlers, AsyncReceive(p, h)
  PROVE  TypeTurn'
<1> DEFINE op == [port |-> p, handler |-> h]
<1>1. op \in Receive
  BY DEF Receive
<1>2. work' \in Nat
  BY DEF TypeTurn, TypeOK, AsyncReceive
<1>3. /\ taken' \in [Ports -> Nat]
      /\ buffer' \in [1..BufferSize -> Datagram \cup {None}]
      /\ endpoint' \in Senders \cup {None}
      /\ readOp' \in [Ports -> Receive \cup {None}]
      /\ ioq' \in Seq(QueueItems) /\ InTurn(ioq)'
  <2>1. CASE Readable(p)
    <3>1. /\ PerformReceive(p) /\ readOp' = readOp
          /\ ioq' = Append(ioq, Completed(ReceiveDone(p, op)))
      BY <2>1 DEF AsyncReceive
    <3>2. PICK c \in Completion : c = ReceiveDone(p, op)
      BY <1>1, <2>1, ReceiveDoneType DEF TypeTurn
    <3>3. Append(ioq, Completed(c)) \in Seq(QueueItems) /\ InTurn(Append(ioq, Completed(c)))
      BY TurnAppend DEF TypeTurn, TypeOK
    <3>4. ioq' = Append(ioq, Completed(c))
      BY <3>1, <3>2
    <3>5. ioq' \in Seq(QueueItems) /\ InTurn(ioq)'
      BY <3>3, <3>4
    <3>6. QED
      BY <2>1, <3>1, <3>5, PerformReceiveType DEF TypeTurn, TypeOK
  <2>2. CASE ~Readable(p)
    <3>1. /\ readOp' = [readOp EXCEPT ![p] = op]
          /\ UNCHANGED <<taken, buffer, endpoint, ioq>>
      BY <2>2 DEF AsyncReceive
    <3>2. InTurn(ioq)'
      BY <3>1, TurnUnchanged DEF TypeTurn
    <3>3. QED
      BY <1>1, <3>1, <3>2 DEF TypeTurn, TypeOK
  <2>3. QED
    BY <2>1, <2>2
<1>4. UNCHANGED <<open, arrivals, txFull, blocks, edge, wire>>
  BY DEF AsyncReceive
<1>5. UNCHANGED <<pollOut, events, writeOps, ioState, running, sends>>
  BY DEF AsyncReceive
<1>6. QED
  BY <1>2, <1>3, <1>4, <1>5 DEF TypeTurn, TypeOK

LEMMA SendTypes ==
  ASSUME TypeTurn, NEW p \in Ports, NEW h \in Handlers, NEW i \in Nat,
         NEW n \in 0..BufferSize, AsyncSend(p, h, i, n)
  PROVE  TypeTurn'
<1>1. PICK op : op = [port |-> p, handler |-> h, index |-> i, bytes |-> n]
  OBVIOUS
<1>2. op \in Send /\ op.port = p
  BY <1>1 DEF Send
<1>3. work' \in Nat /\ sends' \in Nat
  BY DEF TypeTurn, TypeOK, AsyncSend
<1>4. SendNow(op) \/ SendLater(op)
  BY <1>1 DEF AsyncSend
<1>5. /\ wire' \in Seq(Wired)
      /\ ioq' \in Seq(QueueItems) /\ InTurn(ioq)'
      /\ writeOps' \in [Ports -> Seq(Send)]
      /\ pollOut' \in [Ports -> BOOLEAN]
      /\ edge' \in [Ports -> BOOLEAN]
  <2>1. CASE SendNow(op)
    <3>1. PICK rejected \in Rejected(1) :
             /\ wire' = IF 1 \in rejected THEN wire ELSE Append(wire, Packet(op))
             /\ ioq' = Append(ioq, Completed(SendDone(op, 1 \in rejected)))
      BY <2>1 DEF SendNow
    <3>2. PICK c \in Completion : c = SendDone(op, 1 \in rejected)
      <4>1. (1 \in rejected) \in BOOLEAN
        OBVIOUS
      <4>2. QED
        BY <1>2, <4>1, SendDoneType
    <3>3. Append(ioq, Completed(c)) \in Seq(QueueItems) /\ InTurn(Append(ioq, Completed(c)))
      BY TurnAppend DEF TypeTurn, TypeOK
    <3>4. ioq' = Append(ioq, Completed(c))
      BY <3>1, <3>2
    <3>5. ioq' \in Seq(QueueItems) /\ InTurn(ioq)'
      BY <3>3, <3>4
    <3>6. wire' \in Seq(Wired)
      <4>1. Packet(op) \in Wired /\ wire \in Seq(Wired)
        BY <1>2, PacketType DEF TypeTurn, TypeOK, Wired
      <4>2. Append(wire, Packet(op)) \in Seq(Wired)
        BY <4>1, AppendProperties
      <4>3. QED
        BY <3>1, <4>1, <4>2
    <3>7. UNCHANGED <<writeOps, pollOut, edge>>
      BY <2>1 DEF SendNow
    <3>8. QED
      BY <3>5, <3>6, <3>7 DEF TypeTurn, TypeOK
  <2>2. CASE SendLater(op)
    <3>1. /\ writeOps' = [writeOps EXCEPT ![p] = Append(@, op)]
          /\ UNCHANGED <<wire, ioq>>
      BY <1>2, <2>2 DEF SendLater
    <3>2. edge' \in [Ports -> BOOLEAN] /\ pollOut' \in [Ports -> BOOLEAN]
      BY <1>2, <2>2 DEF SendLater, Reregistered, TypeTurn, TypeOK
    <3>3. InTurn(ioq)'
      BY <3>1, TurnUnchanged DEF TypeTurn
    <3>4. writeOps[p] \in Seq(Send)
      BY DEF TypeTurn, TypeOK
    <3>5. Append(writeOps[p], op) \in Seq(Send)
      BY <1>2, <3>4, AppendProperties
    <3>6. writeOps' \in [Ports -> Seq(Send)]
      BY <3>1, <3>5 DEF TypeTurn, TypeOK
    <3>7. QED
      BY <3>1, <3>2, <3>3, <3>6 DEF TypeTurn, TypeOK, Wired
  <2>3. QED
    BY <1>4, <2>1, <2>2
<1>6. /\ UNCHANGED <<open, arrivals, taken, txFull, blocks, events, readOp>>
      /\ UNCHANGED <<ioState, running, buffer, endpoint>>
  BY DEF AsyncSend
<1>7. QED
  BY <1>3, <1>5, <1>6 DEF TypeTurn, TypeOK, Wired

LEMMA SetToSeqsOnce ==
  ASSUME NEW S, IsFiniteSet(S), NEW q \in SetToSeqs(S)
  PROVE  q \in Seq(S) /\ Distinct(q) /\ \A x \in S : \E i \in DOMAIN q : q[i] = x
<1> DEFINE n == Cardinality(S)
<1>1. n \in Nat
  BY FS_CardinalityType
<1>2. q \in [1..n -> S] /\ \A i, j \in 1..n : i # j => q[i] # q[j]
  BY DEF SetToSeqs
<1>3. Distinct(q) /\ q \in Injection(1..n, S)
  BY <1>2 DEF Distinct, IsInjective, Injection
<1>4. Cardinality(1..n) = n
  BY <1>1, FS_Interval
<1>5. q \in Surjection(1..n, S)
  BY <1>3, <1>4, FS_Injection
<1>6. \A x \in S : \E i \in DOMAIN q : q[i] = x
  BY <1>2, <1>5 DEF Surjection
<1>7. q \in Seq(S)
  BY <1>1, <1>2, SeqDef
<1>8. QED
  BY <1>3, <1>6, <1>7

(* A round of the task queues no completion. *)
LEMMA TaskAppends ==
  ASSUME TypeTurn, RunTask
  PROVE  \E r \in Seq(QueueItems) :
           /\ ioq' = Tail(ioq) \o r
           /\ \A i \in DOMAIN r : r[i].item # "completion"
<1> DEFINE ready == {p \in open : edge[p] /\ Ready(p) # {}}
<1>1. PICK found \in Reports(ready) : \E order \in SetToSeqs(found) : ioq' = Requeue(order)
  BY DEF RunTask
<1>2. PICK order \in SetToSeqs(found) : ioq' = Requeue(order)
  BY <1>1
<1>3. found \subseteq Ports /\ IsFiniteSet(found)
  <2>1. found \in SUBSET Ports
    BY DEF Reports, TypeTurn, TypeOK
  <2>2. QED
    BY <2>1, AsioUdpAssumption, FS_Subset
<1>4. order \in Seq(Ports)
  BY <1>3, SetToSeqsOnce, SeqMonotonic
<1>5. PICK d : d = [i \in DOMAIN order |-> Descriptor(order[i])]
  OBVIOUS
<1>6. PICK t : t = <<Task>>
  OBVIOUS
<1>7. Len(order) \in Nat /\ DOMAIN order = 1..Len(order)
  BY <1>4, LenProperties
<1>8. /\ \A i \in 1..Len(order) : d[i] = Descriptor(order[i]) /\ order[i] \in Ports
      /\ DOMAIN d = 1..Len(order)
  BY <1>4, <1>5, <1>7, ElementOfSeq
<1>9. /\ d \in Seq(QueueItems) /\ Len(d) = Len(order)
      /\ \A i \in DOMAIN d : d[i].item # "completion"
  <2>1. \A i \in 1..Len(order) : d[i] \in QueueItems /\ d[i].item # "completion"
    BY <1>8, ItemKinds
  <2>2. d \in [1..Len(order) -> QueueItems]
    BY <1>5, <1>7, <2>1
  <2>3. QED
    BY <1>7, <1>8, <2>1, <2>2, FunctionIsSeq
<1>10. t \in Seq(QueueItems) /\ Len(t) = 1 /\ t[1].item # "completion"
  <2>1. Task \in QueueItems /\ Task.item # "completion"
    BY ItemKinds DEF Task
  <2>2. QED
    BY <1>6, <2>1
<1>11. PICK r : r = d \o t
  OBVIOUS
<1>12. /\ r \in Seq(QueueItems)
       /\ \A i \in DOMAIN r : r[i].item # "completion"
  <2>0. /\ r \in Seq(QueueItems) /\ Len(r) = Len(d) + Len(t)
        /\ \A i \in 1..(Len(d) + Len(t)) :
             r[i] = IF i <= Len(d) THEN d[i] ELSE t[i - Len(d)]
    <3>1. d \in Seq(QueueItems) /\ t \in Seq(QueueItems)
      BY <1>9, <1>10
    <3>2. /\ d \o t \in Seq(QueueItems) /\ Len(d \o t) = Len(d) + Len(t)
          /\ \A i \in 1..(Len(d) + Len(t)) :
               (d \o t)[i] = IF i <= Len(d) THEN d[i] ELSE t[i - Len(d)]
      BY <3>1, ConcatProperties
    <3>3. QED
      BY <1>11, <3>2
  <2>1. /\ r \in Seq(QueueItems) /\ Len(r) = Len(d) + 1
        /\ \A i \in 1..(Len(d) + 1) :
             r[i] = IF i <= Len(d) THEN d[i] ELSE t[i - Len(d)]
    BY <1>10, <2>0
  <2>2. Len(d) \in Nat /\ DOMAIN d = 1..Len(d) /\ DOMAIN r = 1..(Len(d) + 1)
    BY <1>9, <2>1, LenProperties
  <2>3. ASSUME NEW i \in DOMAIN r PROVE r[i].item # "completion"
    <3>1. CASE i <= Len(d)
      BY <1>9, <2>1, <2>2, <2>3, <3>1
    <3>2. CASE i = Len(d) + 1
      <4>1. i - Len(d) = 1 /\ ~(i <= Len(d))
        BY <2>2, <3>2
      <4>2. r[i] = t[1]
        BY <2>1, <2>2, <2>3, <4>1
      <4>3. QED
        BY <1>10, <4>2
    <3>3. QED
      BY <2>2, <3>1, <3>2
  <2>4. QED
    BY <2>1, <2>3
<1>13. ioq' = Tail(ioq) \o r
  <2>1. Tail(ioq) \in Seq(QueueItems)
    <3>1. ioq \in Seq(QueueItems) /\ Head(ioq) = Task
      BY DEF TypeTurn, TypeOK, RunTask, Dispatches
    <3>2. ioq # <<>>
      BY <3>1, TurnNotEmpty DEF TypeTurn
    <3>3. QED
      BY <3>1, <3>2, HeadTailProperties
  <2>2. ioq' = (Tail(ioq) \o d) \o t
    BY <1>2, <1>5, <1>6 DEF Requeue
  <2>3. (Tail(ioq) \o d) \o t = Tail(ioq) \o (d \o t)
    BY <1>9, <1>10, <2>1, ConcatAssociative
  <2>4. QED
    BY <1>11, <2>2, <2>3
<1>14. QED
  BY <1>12, <1>13

(* The step of the task, told without the order it queues descriptors in. *)
LEMMA TaskStep ==
  ASSUME TypeTurn, RunTask
  PROVE  LET ready == {p \in open : edge[p] /\ Ready(p) # {}} IN
         \E found \in SUBSET ready :
           /\ ioq' \in Seq(QueueItems) /\ InTurn(ioq)'
           /\ Cardinality(Places(ioq', "completion")) = Cardinality(Places(ioq, "completion"))
           /\ \A p \in found : \E i \in DOMAIN ioq' : ioq'[i] = Descriptor(p)
           /\ \A i \in DOMAIN ioq : ioq[i].item # "descriptor"
           /\ events' = [p \in Ports |-> IF p \in found THEN Ready(p) ELSE events[p]]
           /\ edge' = [p \in Ports |-> p \in ready \ found]
<1> DEFINE ready == {p \in open : edge[p] /\ Ready(p) # {}}
<1>1. PICK found \in Reports(ready) :
         /\ \E order \in SetToSeqs(found) : ioq' = Requeue(order)
         /\ events' = [p \in Ports |-> IF p \in found THEN Ready(p) ELSE events[p]]
         /\ edge' = [p \in Ports |-> p \in ready \ found]
  BY DEF RunTask
<1>2. PICK order \in SetToSeqs(found) : ioq' = Requeue(order)
  BY <1>1
<1>3. found \in SUBSET ready
  BY DEF Reports
<1>4. found \subseteq Ports /\ IsFiniteSet(found)
  <2>1. found \in SUBSET Ports
    BY <1>3 DEF TypeTurn, TypeOK
  <2>2. QED
    BY <2>1, AsioUdpAssumption, FS_Subset
<1>5. /\ order \in Seq(Ports) /\ Distinct(order)
      /\ \A p \in found : \E i \in DOMAIN order : order[i] = p
  <2>1. order \in Seq(found)
    BY <1>4, SetToSeqsOnce
  <2>2. order \in Seq(Ports)
    BY <1>4, <2>1, SeqMonotonic
  <2>3. QED
    BY <1>4, <2>2, SetToSeqsOnce
<1>6. ioq' = Requeued(ioq, order)
  BY <1>2 DEF Requeue, Requeued
<1>7. ioq \in Seq(QueueItems) /\ InTurn(ioq) /\ Head(ioq) = Task
  BY DEF TypeTurn, TypeOK, RunTask, Dispatches
<1>8. /\ ioq' \in Seq(QueueItems)
      /\ InTurn(Requeued(ioq, order))
      /\ Cardinality(Places(ioq', "completion")) = Cardinality(Places(ioq, "completion"))
      /\ \A i \in DOMAIN order : \E j \in DOMAIN ioq' : ioq'[j] = Descriptor(order[i])
      /\ \A j \in DOMAIN ioq : ioq[j].item # "descriptor"
  BY <1>5, <1>6, <1>7, TurnOfTask
<1>9. InTurn(ioq)'
  BY <1>6, <1>8
<1>10. \A p \in found : \E i \in DOMAIN ioq' : ioq'[i] = Descriptor(p)
  BY <1>5, <1>8
<1>11. QED
  BY <1>1, <1>3, <1>8, <1>9, <1>10

LEMMA TaskTypes == ASSUME TypeTurn, RunTask PROVE TypeTurn'
<1> DEFINE ready == {p \in open : edge[p] /\ Ready(p) # {}}
<1>1. PICK found \in SUBSET ready :
         /\ ioq' \in Seq(QueueItems) /\ InTurn(ioq)'
         /\ events' = [p \in Ports |-> IF p \in found THEN Ready(p) ELSE events[p]]
         /\ edge' = [p \in Ports |-> p \in ready \ found]
  BY TaskStep
<1>2. \A p \in Ports : Ready(p) \in SUBSET {"in", "out"}
  BY DEF Ready
<1>3. events' \in [Ports -> SUBSET {"in", "out"}]
  BY <1>1, <1>2 DEF TypeTurn, TypeOK
<1>4. edge' \in [Ports -> BOOLEAN]
  BY <1>1
<1>5. /\ UNCHANGED <<open, arrivals, taken, txFull, blocks, wire>>
      /\ UNCHANGED <<pollOut, readOp, writeOps, work, ioState, running>>
      /\ UNCHANGED <<buffer, endpoint, sends>>
  BY DEF RunTask, memoryVars
<1>6. QED
  BY <1>1, <1>3, <1>4, <1>5 DEF TypeTurn, TypeOK

LEMMA TailType ==
  ASSUME NEW q \in Seq(QueueItems), InTurn(q)
  PROVE  Tail(q) \in Seq(QueueItems)
BY TurnNotEmpty, HeadTailProperties

LEMMA DescriptorTypes ==
  ASSUME TypeTurn, NEW p \in Ports, RunDescriptor(p) PROVE TypeTurn'
<1>0. PICK n \in 0..Len(writeOps[p]), done \in Seq(Completion),
           more \in Seq(QueueItems), packets \in Seq(Wired), full \in BOOLEAN :
         DescriptorDoes(p, n, done, more, packets, full)
  BY DescriptorStep DEF TypeTurn
<1>1. /\ \A i \in DOMAIN more : more[i].item = "completion"
      /\ wire' = wire \o packets
      /\ writeOps' = [writeOps EXCEPT ![p] = SubSeq(@, n + 1, Len(@))]
      /\ txFull' = [txFull EXCEPT ![p] = @ \/ full]
      /\ blocks' = IF full THEN blocks + 1 ELSE blocks
      /\ running' = IF done = <<>> THEN None ELSE Head(done)
      /\ ioq' = Tail(ioq) \o more
  BY <1>0 DEF DescriptorDoes
<1>2. wire' \in Seq(Wired)
  <2>1. wire \in Seq(Wired)
    BY DEF TypeTurn, TypeOK, Wired
  <2>2. QED
    BY <1>1, <2>1, ConcatProperties
<1>3. writeOps' \in [Ports -> Seq(Send)]
  <2>1. writeOps \in [Ports -> Seq(Send)]
    BY DEF TypeTurn, TypeOK
  <2>2. SubSeq(writeOps[p], n + 1, Len(writeOps[p])) \in Seq(Send)
    BY <2>1, WaitingDrop
  <2>3. QED
    BY <1>1, <2>1, <2>2
<1>4. txFull' \in [Ports -> BOOLEAN] /\ blocks' \in Nat
  <2>1. txFull \in [Ports -> BOOLEAN] /\ blocks \in Nat
    BY DEF TypeTurn, TypeOK
  <2>2. (txFull[p] \/ full) \in BOOLEAN
    BY <2>1
  <2>3. QED
    BY <1>1, <2>1, <2>2
<1>5. running' \in Completion \cup {None}
  <2>1. done # <<>> => Head(done) \in Completion
    BY HeadTailProperties
  <2>2. QED
    BY <1>1, <2>1
<1>6. ioq' \in Seq(QueueItems) /\ InTurn(ioq)'
  <2>1. ioq \in Seq(QueueItems) /\ InTurn(ioq)
    BY DEF TypeTurn, TypeOK
  <2>2. Head(ioq).item # "task"
    BY ItemKinds DEF RunDescriptor, Dispatches
  <2>3. PICK t : t = Tail(ioq)
    OBVIOUS
  <2>4. t \in Seq(QueueItems) /\ InTurn(t)
    BY <2>1, <2>2, <2>3, TurnAfter, TailType
  <2>5. InTurn(t \o more) /\ t \o more \in Seq(QueueItems)
    BY <1>1, <2>4, TurnBefore, ConcatProperties
  <2>6. QED
    BY <1>1, <2>3, <2>5
<1>7. /\ taken' \in [Ports -> Nat]
      /\ buffer' \in [1..BufferSize -> Datagram \cup {None}]
      /\ endpoint' \in Senders \cup {None}
      /\ readOp' \in [Ports -> Receive \cup {None}]
  <2>1. CASE Receives(p)
    <3>1. Readable(p) /\ PerformReceive(p) /\ readOp' = [readOp EXCEPT ![p] = None]
      BY <2>1 DEF RunDescriptor, Receives
    <3>2. QED
      BY <3>1, PerformReceiveType DEF TypeTurn, TypeOK
  <2>2. CASE ~Receives(p)
    <3>1. UNCHANGED <<taken, buffer, endpoint, readOp>>
      BY <2>2 DEF RunDescriptor
    <3>2. QED
      BY <3>1 DEF TypeTurn, TypeOK
  <2>3. QED
    BY <2>1, <2>2
<1>8. events' \in [Ports -> SUBSET {"in", "out"}]
  BY DEF RunDescriptor, TypeTurn, TypeOK
<1>9. UNCHANGED <<open, arrivals, edge, pollOut, work, ioState, sends>>
  BY DEF RunDescriptor
<1>10. QED
  BY <1>2, <1>3, <1>4, <1>5, <1>6, <1>7, <1>8, <1>9 DEF TypeTurn, TypeOK, Wired

LEMMA CompletionTypes == ASSUME TypeTurn, RunCompletion PROVE TypeTurn'
<1>1. ioq \in Seq(QueueItems) /\ InTurn(ioq)
  BY DEF TypeTurn, TypeOK
<1>2. Head(ioq) \in QueueItems /\ Head(ioq).item = "completion"
  BY <1>1, TurnNotEmpty DEF RunCompletion
<1>3. running' \in Completion
  BY <1>2, ItemKinds DEF RunCompletion
<1>4. PICK t : t = Tail(ioq) /\ t = ioq'
  BY DEF RunCompletion
<1>5. t \in Seq(QueueItems) /\ InTurn(t)
  BY <1>1, <1>2, <1>4, TurnAfter, TailType
<1>6. ioq' \in Seq(QueueItems) /\ InTurn(ioq)'
  BY <1>4, <1>5
<1>7. UNCHANGED <<kernelVars, reactorVars, memoryVars, work, ioState>>
  BY DEF RunCompletion
<1>8. QED
  BY <1>3, <1>6, <1>7 DEF TypeTurn, TypeOK, kernelVars, reactorVars, memoryVars

LEMMA FinishTypes ==
  ASSUME TypeTurn, WorkIsExact, FinishHandler PROVE TypeTurn'
<1>1. work \in Nat \ {0}
  BY WorkThere DEF FinishHandler, TypeTurn
<1>2. work' \in Nat
  BY <1>1 DEF FinishHandler
<1>3. UNCHANGED <<kernelVars, reactorVars, memoryVars, ioq>>
  BY DEF FinishHandler
<1>4. InTurn(ioq)'
  BY <1>3, TurnUnchanged DEF TypeTurn
<1>5. running' = None /\ ioState' \in {"idle", "running", "stopped"}
  BY DEF FinishHandler, TypeTurn, TypeOK
<1>6. QED
  BY <1>2, <1>3, <1>4, <1>5 DEF TypeTurn, TypeOK, kernelVars, reactorVars, memoryVars

LEMMA StartTypes == ASSUME TypeTurn, StartRun PROVE TypeTurn'
<1>1. UNCHANGED <<kernelVars, reactorVars, memoryVars, ioq, work, running>>
  BY DEF StartRun
<1>2. InTurn(ioq)'
  BY <1>1, TurnUnchanged DEF TypeTurn
<1>3. ioState' \in {"idle", "running", "stopped"}
  BY DEF StartRun
<1>4. QED
  BY <1>1, <1>2, <1>3 DEF TypeTurn, TypeOK, kernelVars, reactorVars, memoryVars

LEMMA TypesStep == ASSUME TypeTurn, WorkIsExact, [Next]_vars PROVE TypeTurn'
<1>1. CASE Kernel
  BY <1>1, KernelTypes
<1>2. CASE Program
  <2>1. PICK p \in Ports :
          \/ OpenSocket(p)
          \/ \E h \in Handlers : AsyncReceive(p, h)
          \/ \E h \in Handlers : /\ running # None
                                 /\ AsyncSend(p, h, running.index, running.bytes)
    BY <1>2 DEF Program
  <2>2. running # None => running.index \in Nat /\ running.bytes \in 0..BufferSize
    BY DEF TypeTurn, TypeOK, Completion
  <2>3. QED
    BY <2>1, <2>2, OpenTypes, ReceiveTypes, SendTypes
<1>3. CASE Run
  BY <1>3, StartTypes, TaskTypes, DescriptorTypes, CompletionTypes, FinishTypes DEF Run
<1>4. CASE UNCHANGED vars
  <2>1. InTurn(ioq)'
    BY <1>4, TurnUnchanged DEF TypeTurn, vars, schedulerVars
  <2>2. QED
    BY <1>4, <2>1
    DEF TypeTurn, TypeOK, vars, kernelVars, reactorVars, schedulerVars, memoryVars
<1>5. QED
  BY <1>1, <1>2, <1>3, <1>4 DEF Next

------------------------------------------------------------------------------
(***************************************************************************)
(* The count of work, of whatever waits where.                             *)
(***************************************************************************)
Receiving(ops) == {p \in Ports : ops[p] # None}

WorkSum(ops, w, q, r) ==
  Cardinality(Receiving(ops)) + Cardinality(Waiting(w))
    + Cardinality(Places(q, "completion")) + (IF r # None THEN 1 ELSE 0)

LEMMA WorkIsSum ==
  /\ WorkIsExact <=> work = WorkSum(readOp, writeOps, ioq, running)
  /\ WorkIsExact' <=> work' = WorkSum(readOp', writeOps', ioq', running')
BY DEF WorkIsExact, WorkSum, PendingReceives, Receiving, PendingSends, Waiting, QueuedAt, Places

LEMMA ReceivingFinite ==
  ASSUME NEW ops
  PROVE  IsFiniteSet(Receiving(ops)) /\ Cardinality(Receiving(ops)) \in Nat
<1>1. Receiving(ops) \in SUBSET Ports
  BY DEF Receiving
<1>2. QED
  BY <1>1, AsioUdpAssumption, FS_Subset, FS_CardinalityType

LEMMA ReceivingAdd ==
  ASSUME NEW ops \in [Ports -> Receive \cup {None}], NEW p \in Ports, ops[p] = None,
         NEW op \in Receive
  PROVE  Cardinality(Receiving([ops EXCEPT ![p] = op])) = Cardinality(Receiving(ops)) + 1
<1>1. op # None
  BY AsioUdpAssumption
<1>2. Receiving([ops EXCEPT ![p] = op]) = Receiving(ops) \cup {p}
  BY <1>1 DEF Receiving
<1>3. p \notin Receiving(ops)
  BY DEF Receiving
<1>4. QED
  BY <1>2, <1>3, ReceivingFinite, FS_AddElement

LEMMA ReceivingDrop ==
  ASSUME NEW ops \in [Ports -> Receive \cup {None}], NEW p \in Ports, ops[p] # None
  PROVE  Cardinality(Receiving(ops)) = Cardinality(Receiving([ops EXCEPT ![p] = None])) + 1
<1> DEFINE dropped == [ops EXCEPT ![p] = None]
<1>1. Receiving(ops) = Receiving(dropped) \cup {p} /\ p \notin Receiving(dropped)
  BY DEF Receiving
<1> HIDE DEF dropped
<1>2. Cardinality(Receiving(dropped) \cup {p}) = Cardinality(Receiving(dropped)) + 1
  BY <1>1, ReceivingFinite, FS_AddElement
<1>3. QED
  BY <1>1, <1>2 DEF dropped

Drained(ops, w, q, r) ==
  /\ r = None
  /\ Places(q, "completion") = {}
  /\ \A p \in Ports : ops[p] = None /\ w[p] = <<>>

LEMMA NothingCounted ==
  ASSUME NEW ops, NEW w \in [Ports -> Seq(Send)], NEW q \in Seq(QueueItems), NEW r,
         WorkSum(ops, w, q, r) = 0
  PROVE  Drained(ops, w, q, r)
<1>1. /\ IsFiniteSet(Receiving(ops)) /\ Cardinality(Receiving(ops)) \in Nat
      /\ IsFiniteSet(Waiting(w)) /\ Cardinality(Waiting(w)) \in Nat
      /\ IsFiniteSet(Places(q, "completion")) /\ Cardinality(Places(q, "completion")) \in Nat
  BY ReceivingFinite, WaitingFinite, PlacesFinite
<1>2. /\ Cardinality(Receiving(ops)) = 0
      /\ Cardinality(Waiting(w)) = 0
      /\ Cardinality(Places(q, "completion")) = 0
      /\ r = None
  BY <1>1 DEF WorkSum
<1>3. Receiving(ops) = {} /\ Waiting(w) = {} /\ Places(q, "completion") = {}
  BY <1>1, <1>2, FS_EmptySet
<1>4. \A p \in Ports : ops[p] = None
  BY <1>3 DEF Receiving
<1>5. ASSUME NEW p \in Ports PROVE w[p] = <<>>
  <2>1. ~(1 \in DOMAIN w[p])
    BY <1>3, WaitingMembers
  <2>2. DOMAIN w[p] = 1..Len(w[p]) /\ w[p] \in Seq(Send)
    BY LenProperties
  <2>3. ~(Len(w[p]) \in Nat \ {0})
    BY <2>1, <2>2
  <2>4. QED
    BY <2>2, <2>3, EmptySeq
<1>6. QED
  BY <1>2, <1>3, <1>4, <1>5 DEF Drained

LEMMA CompletionCounted ==
  ASSUME NEW q \in Seq(QueueItems), NEW c \in Completion
  PROVE  Cardinality(Places(Append(q, Completed(c)), "completion"))
           = Cardinality(Places(q, "completion")) + 1
<1>1. PICK x \in QueueItems : x = Completed(c) /\ x.item = "completion"
  BY ItemKinds
<1>2. Cardinality(Places(Append(q, x), "completion"))
        = Cardinality(Places(q, "completion")) + (IF x.item = "completion" THEN 1 ELSE 0)
  BY PlacesOfAppend
<1>3. QED
  BY <1>1, <1>2

(***************************************************************************)
(* Every step keeps the count exact.                                       *)
(***************************************************************************)
LEMMA ReceiveCounted ==
  ASSUME TypeOK, WorkIsExact, NEW p \in Ports, NEW h \in Handlers, AsyncReceive(p, h)
  PROVE  WorkIsExact'
<1> DEFINE op == [port |-> p, handler |-> h]
<1>1. op \in Receive
  BY DEF Receive
<1>2. /\ Cardinality(Receiving(readOp)) \in Nat /\ Cardinality(Waiting(writeOps)) \in Nat
      /\ Cardinality(Places(ioq, "completion")) \in Nat
  BY ReceivingFinite, WaitingFinite, PlacesFinite DEF TypeOK
<1>3. /\ work = WorkSum(readOp, writeOps, ioq, running)
      /\ work' = work + 1 /\ writeOps' = writeOps /\ running' = running
      /\ readOp \in [Ports -> Receive \cup {None}] /\ ioq \in Seq(QueueItems)
      /\ readOp[p] = None
  BY WorkIsSum DEF AsyncReceive, TypeOK
<1>4. CASE Readable(p)
  <2>1. /\ ioq' = Append(ioq, Completed(ReceiveDone(p, op)))
        /\ readOp' = readOp
    BY <1>4 DEF AsyncReceive
  <2>2. ReceiveDone(p, op) \in Completion
    BY <1>1, <1>4, ReceiveDoneType
  <2>3. Cardinality(Places(ioq', "completion")) = Cardinality(Places(ioq, "completion")) + 1
    BY <1>3, <2>1, <2>2, CompletionCounted
  <2>4. work' = WorkSum(readOp', writeOps', ioq', running')
    BY <1>2, <1>3, <2>1, <2>3 DEF WorkSum
  <2>5. QED
    BY <2>4, WorkIsSum
<1>5. CASE ~Readable(p)
  <2>1. readOp' = [readOp EXCEPT ![p] = op] /\ ioq' = ioq
    BY <1>5 DEF AsyncReceive
  <2>2. Cardinality(Receiving(readOp')) = Cardinality(Receiving(readOp)) + 1
    BY <1>1, <1>3, <2>1, ReceivingAdd
  <2>3. work' = WorkSum(readOp', writeOps', ioq', running')
    BY <1>2, <1>3, <2>1, <2>2 DEF WorkSum
  <2>4. QED
    BY <2>3, WorkIsSum
<1>6. QED
  BY <1>4, <1>5

LEMMA SendCounted ==
  ASSUME TypeOK, WorkIsExact, NEW p \in Ports, NEW h \in Handlers, NEW i \in Nat,
         NEW n \in 0..BufferSize, AsyncSend(p, h, i, n)
  PROVE  WorkIsExact'
<1>1. PICK op : op = [port |-> p, handler |-> h, index |-> i, bytes |-> n]
  OBVIOUS
<1>2. op \in Send /\ op.port = p
  BY <1>1 DEF Send
<1>3. /\ Cardinality(Receiving(readOp)) \in Nat /\ Cardinality(Waiting(writeOps)) \in Nat
      /\ Cardinality(Places(ioq, "completion")) \in Nat
  BY ReceivingFinite, WaitingFinite, PlacesFinite DEF TypeOK
<1>4. /\ work = WorkSum(readOp, writeOps, ioq, running)
      /\ work' = work + 1 /\ readOp' = readOp /\ running' = running
      /\ writeOps \in [Ports -> Seq(Send)] /\ ioq \in Seq(QueueItems)
  BY WorkIsSum DEF AsyncSend, TypeOK
<1>5. CASE SendNow(op)
  <2>1. PICK rejected \in Rejected(1) :
           ioq' = Append(ioq, Completed(SendDone(op, 1 \in rejected)))
    BY <1>5 DEF SendNow
  <2>2. (1 \in rejected) \in BOOLEAN
    OBVIOUS
  <2>3. SendDone(op, 1 \in rejected) \in Completion
    BY <1>2, <2>2, SendDoneType
  <2>4. Cardinality(Places(ioq', "completion")) = Cardinality(Places(ioq, "completion")) + 1
    BY <1>4, <2>1, <2>3, CompletionCounted
  <2>5. writeOps' = writeOps
    BY <1>5 DEF SendNow
  <2>6. work' = WorkSum(readOp', writeOps', ioq', running')
    BY <1>3, <1>4, <2>4, <2>5 DEF WorkSum
  <2>7. QED
    BY <2>6, WorkIsSum
<1>6. CASE SendLater(op)
  <2>1. writeOps' = [writeOps EXCEPT ![p] = Append(@, op)] /\ ioq' = ioq
    BY <1>2, <1>6 DEF SendLater
  <2>2. Cardinality(Waiting(writeOps')) = Cardinality(Waiting(writeOps)) + 1
    <3>1. op \in Send /\ writeOps \in [Ports -> Seq(Send)]
      BY <1>2, <1>4
    <3>2. Cardinality(Waiting([writeOps EXCEPT ![p] = Append(@, op)]))
            = Cardinality(Waiting(writeOps)) + 1
      BY <3>1, WaitingAppend
    <3>3. QED
      BY <2>1, <3>2
  <2>3. work' = WorkSum(readOp', writeOps', ioq', running')
    BY <1>3, <1>4, <2>1, <2>2 DEF WorkSum
  <2>4. QED
    BY <2>3, WorkIsSum
<1>7. QED
  BY <1>1, <1>5, <1>6 DEF AsyncSend

LEMMA DescriptorCounted ==
  ASSUME TypeTurn, WorkIsExact, NEW p \in Ports, RunDescriptor(p)
  PROVE  WorkIsExact'
<1>0. PICK n \in 0..Len(writeOps[p]), done \in Seq(Completion),
           more \in Seq(QueueItems), packets \in Seq(Wired), full \in BOOLEAN :
         DescriptorDoes(p, n, done, more, packets, full)
  BY DescriptorStep DEF TypeTurn
<1>1. /\ Len(done) = n + (IF Receives(p) THEN 1 ELSE 0)
      /\ Len(more) = IF done = <<>> THEN 0 ELSE Len(done) - 1
      /\ \A i \in DOMAIN more : more[i].item = "completion"
      /\ writeOps' = [writeOps EXCEPT ![p] = SubSeq(@, n + 1, Len(@))]
      /\ running' = IF done = <<>> THEN None ELSE Head(done)
      /\ ioq' = Tail(ioq) \o more
  BY <1>0 DEF DescriptorDoes
<1>2. /\ work = WorkSum(readOp, writeOps, ioq, running) /\ work' = work /\ running = None
      /\ readOp \in [Ports -> Receive \cup {None}] /\ writeOps \in [Ports -> Seq(Send)]
      /\ ioq \in Seq(QueueItems) /\ InTurn(ioq) /\ Head(ioq).item = "descriptor"
  BY WorkIsSum, ItemKinds DEF TypeTurn, TypeOK, RunDescriptor, Dispatches
<1>3. PICK len \in Nat : len = Len(writeOps[p]) /\ n \in Nat
  <2>1. writeOps[p] \in Seq(Send)
    BY <1>2
  <2>2. Len(writeOps[p]) \in Nat
    BY <2>1, LenProperties
  <2>3. QED
    BY <2>2
<1>4. PICK rc \in Nat, rc2 \in Nat :
         /\ rc = Cardinality(Receiving(readOp)) /\ rc2 = Cardinality(Receiving(readOp'))
  BY ReceivingFinite
<1>5. rc = rc2 + (IF Receives(p) THEN 1 ELSE 0)
  <2>1. CASE Receives(p)
    <3>1. readOp' = [readOp EXCEPT ![p] = None] /\ readOp[p] # None
      BY <2>1 DEF RunDescriptor, Receives
    <3>2. QED
      BY <1>2, <1>4, <2>1, <3>1, ReceivingDrop
  <2>2. CASE ~Receives(p)
    <3>1. readOp' = readOp
      BY <2>2 DEF RunDescriptor
    <3>2. QED
      BY <1>4, <2>2, <3>1
  <2>3. QED
    BY <2>1, <2>2
<1>6. PICK sc \in Nat, sc2 \in Nat :
         /\ sc = Cardinality(Waiting(writeOps)) /\ sc2 = Cardinality(Waiting(writeOps'))
         /\ sc = sc2 + n
  <2>1. /\ Cardinality(Waiting(writeOps)) = Cardinality(Waiting(writeOps')) + n
        /\ SubSeq(writeOps[p], n + 1, Len(writeOps[p])) \in Seq(Send)
    <3>1. PICK w \in [Ports -> Seq(Send)] : w = writeOps
      BY <1>2
    <3>2. PICK v : v = [w EXCEPT ![p] = SubSeq(@, n + 1, Len(@))]
      OBVIOUS
    <3>3. n \in 0..Len(w[p])
      BY <3>1
    <3>4. /\ SubSeq(w[p], n + 1, Len(w[p])) \in Seq(Send)
          /\ Cardinality(Waiting(w))
               = Cardinality(Waiting([w EXCEPT ![p] = SubSeq(@, n + 1, Len(@))])) + n
      BY <3>3, WaitingDrop
    <3>5. writeOps' = v
      BY <1>1, <3>1, <3>2
    <3>6. QED
      BY <3>1, <3>2, <3>4, <3>5
  <2>2. writeOps' \in [Ports -> Seq(Send)]
    BY <1>1, <1>2, <2>1
  <2>3. Cardinality(Waiting(writeOps)) \in Nat /\ Cardinality(Waiting(writeOps')) \in Nat
    BY <1>2, <2>2, WaitingFinite
  <2>4. QED
    BY <2>1, <2>3
<1>7. PICK cc \in Nat, cc2 \in Nat :
         /\ cc = Cardinality(Places(ioq, "completion"))
         /\ cc2 = Cardinality(Places(ioq', "completion"))
         /\ cc2 = cc + Len(more)
  <2>1. PICK t : t = Tail(ioq)
    OBVIOUS
  <2>2. t \in Seq(QueueItems) /\ ioq # <<>>
    BY <1>2, <2>1, TailType, TurnNotEmpty
  <2>3. Cardinality(Places(ioq, "completion")) = Cardinality(Places(t, "completion"))
          + (IF Head(ioq).item = "completion" THEN 1 ELSE 0)
    BY <1>2, <2>1, <2>2, PlacesOfTail
  <2>4. /\ Cardinality(Places(t \o more, "completion"))
             = Cardinality(Places(t, "completion")) + Cardinality(Places(more, "completion"))
        /\ t \o more \in Seq(QueueItems)
    BY <2>2, PlacesOfConcat
  <2>5. Cardinality(Places(more, "completion")) = Len(more)
    BY <1>1, PlacesOfAll
  <2>6. Cardinality(Places(t, "completion")) \in Nat /\ Len(more) \in Nat
    BY <2>2, PlacesFinite, LenProperties
  <2>7. ioq' = t \o more
    BY <1>1, <2>1
  <2>8. Cardinality(Places(ioq, "completion")) = Cardinality(Places(t, "completion"))
    BY <1>2, <2>3, <2>6
  <2>9. /\ Cardinality(Places(ioq', "completion"))
             = Cardinality(Places(ioq, "completion")) + Len(more)
        /\ Cardinality(Places(ioq, "completion")) \in Nat
    BY <2>4, <2>5, <2>6, <2>7, <2>8
  <2>10. Cardinality(Places(ioq', "completion")) \in Nat
    BY <2>6, <2>9
  <2>11. QED
    BY <2>9, <2>10
<1>8. PICK d \in Nat : d = Len(done) /\ (done = <<>> <=> d = 0)
  BY LenProperties, EmptySeq
<1>9. running' # None <=> done # <<>>
  <2>1. done # <<>> => Head(done) \in Completion
    BY HeadTailProperties
  <2>2. QED
    BY <1>1, <2>1, AsioUdpAssumption
<1>10. work = rc + sc + cc
  <2>1. work = WorkSum(readOp, writeOps, ioq, running) /\ running = None
    BY <1>2
  <2>2. work = rc + sc + cc + 0
    BY <1>4, <1>6, <1>7, <2>1 DEF WorkSum
  <2>3. QED
    BY <2>2
<1>11. WorkSum(readOp', writeOps', ioq', running')
         = rc2 + sc2 + cc2 + (IF done # <<>> THEN 1 ELSE 0)
  BY <1>4, <1>6, <1>7, <1>9 DEF WorkSum
<1>12. cc2 + (IF done # <<>> THEN 1 ELSE 0) = cc + d
  BY <1>1, <1>7, <1>8
<1>13. d = n + (IF Receives(p) THEN 1 ELSE 0)
  BY <1>1, <1>8
<1>14. work' = WorkSum(readOp', writeOps', ioq', running')
  <2>1. rc + sc + cc = rc2 + sc2 + (cc2 + (IF done # <<>> THEN 1 ELSE 0))
    <3>1. rc + sc + cc = rc2 + sc2 + (cc + d)
      BY <1>3, <1>5, <1>6, <1>13
    <3>2. QED
      BY <1>12, <3>1
  <2>2. QED
    BY <1>2, <1>10, <1>11, <2>1
<1>15. QED
  BY <1>14, WorkIsSum

LEMMA CompletionStepCounted ==
  ASSUME TypeTurn, WorkIsExact, RunCompletion PROVE WorkIsExact'
<1>1. /\ work = WorkSum(readOp, writeOps, ioq, running) /\ work' = work /\ running = None
      /\ ioq \in Seq(QueueItems) /\ InTurn(ioq) /\ Head(ioq).item = "completion"
      /\ readOp' = readOp /\ writeOps' = writeOps /\ ioq' = Tail(ioq)
      /\ running' = Head(ioq).op
  BY WorkIsSum DEF TypeTurn, TypeOK, RunCompletion, reactorVars
<1>2. ioq # <<>> /\ Head(ioq) \in QueueItems
  BY <1>1, TurnNotEmpty
<1>3. running' # None
  <2>1. running' \in Completion
    BY <1>1, <1>2, ItemKinds
  <2>2. QED
    BY <2>1, AsioUdpAssumption
<1>4. /\ Cardinality(Receiving(readOp)) \in Nat /\ Cardinality(Waiting(writeOps)) \in Nat
      /\ Cardinality(Places(Tail(ioq), "completion")) \in Nat
  BY <1>1, TailType, ReceivingFinite, WaitingFinite, PlacesFinite DEF TypeTurn, TypeOK
<1>5. Cardinality(Places(ioq, "completion")) = Cardinality(Places(Tail(ioq), "completion"))
        + (IF Head(ioq).item = "completion" THEN 1 ELSE 0)
  BY <1>1, <1>2, PlacesOfTail
<1>6. work' = WorkSum(readOp', writeOps', ioq', running')
  BY <1>1, <1>3, <1>4, <1>5 DEF WorkSum
<1>7. QED
  BY <1>6, WorkIsSum

LEMMA FinishCounted ==
  ASSUME TypeOK, WorkIsExact, FinishHandler PROVE WorkIsExact'
<1>1. /\ work = WorkSum(readOp, writeOps, ioq, running) /\ work' = work - 1
      /\ running # None /\ running' = None
      /\ readOp' = readOp /\ writeOps' = writeOps /\ ioq' = ioq
  BY WorkIsSum DEF FinishHandler, reactorVars
<1>2. /\ Cardinality(Receiving(readOp)) \in Nat /\ Cardinality(Waiting(writeOps)) \in Nat
      /\ Cardinality(Places(ioq, "completion")) \in Nat
  BY ReceivingFinite, WaitingFinite, PlacesFinite DEF TypeOK
<1>3. work' = WorkSum(readOp', writeOps', ioq', running')
  BY <1>1, <1>2 DEF WorkSum
<1>4. QED
  BY <1>3, WorkIsSum

LEMMA TaskCounted == ASSUME TypeTurn, WorkIsExact, RunTask PROVE WorkIsExact'
<1>1. Cardinality(Places(ioq', "completion")) = Cardinality(Places(ioq, "completion"))
  BY TaskStep
<1>2. /\ work = WorkSum(readOp, writeOps, ioq, running)
      /\ UNCHANGED <<readOp, writeOps, work, running>>
  BY WorkIsSum DEF RunTask
<1>3. work' = WorkSum(readOp', writeOps', ioq', running')
  BY <1>1, <1>2 DEF WorkSum
<1>4. QED
  BY <1>3, WorkIsSum

LEMMA CountUnchanged ==
  ASSUME WorkIsExact, UNCHANGED <<work, readOp, writeOps, ioq, running>>
  PROVE  WorkIsExact'
<1>1. work' = WorkSum(readOp', writeOps', ioq', running')
  BY WorkIsSum
<1>2. QED
  BY <1>1, WorkIsSum

LEMMA WorkStep == ASSUME TypeTurn, WorkIsExact, [Next]_vars PROVE WorkIsExact'
<1>1. TypeOK
  BY DEF TypeTurn
<1>2. CASE Kernel
  BY <1>2, CountUnchanged
  DEF Kernel, Deliver, Block, Drain, reactorVars, schedulerVars
<1>3. CASE Program
  <2>1. PICK p \in Ports :
          \/ OpenSocket(p)
          \/ \E h \in Handlers : AsyncReceive(p, h)
          \/ \E h \in Handlers : /\ running # None
                                 /\ AsyncSend(p, h, running.index, running.bytes)
    BY <1>3 DEF Program
  <2>2. running # None => running.index \in Nat /\ running.bytes \in 0..BufferSize
    BY <1>1 DEF TypeOK, Completion
  <2>3. OpenSocket(p) => WorkIsExact'
    BY CountUnchanged DEF OpenSocket, reactorVars, schedulerVars
  <2>4. QED
    BY <1>1, <2>1, <2>2, <2>3, ReceiveCounted, SendCounted
<1>4. CASE Run
  <2>1. StartRun => WorkIsExact'
    BY CountUnchanged DEF StartRun, reactorVars
  <2>2. QED
    BY <1>1, <1>4, <2>1, TaskCounted, DescriptorCounted, CompletionStepCounted,
       FinishCounted DEF Run
<1>5. CASE UNCHANGED vars
  BY <1>5, CountUnchanged DEF vars, reactorVars, schedulerVars
<1>6. QED
  BY <1>2, <1>3, <1>4, <1>5 DEF Next

------------------------------------------------------------------------------
(***************************************************************************)
(* Only a count of zero stops the context, and nothing runs in one that    *)
(* has stopped.                                                            *)
(***************************************************************************)
LEMMA StopsWhy ==
  ASSUME StopsOnlyWhenIdle, [Next]_vars, ioState' = "stopped"
  PROVE  work' = 0 \/ (ioState = "stopped" /\ UNCHANGED <<readOp, writeOps, ioq, running>>)
<1>1. CASE Kernel
  BY <1>1 DEF Kernel, Deliver, Block, Drain, reactorVars, schedulerVars
<1>2. CASE Program
  <2>1. PICK p \in Ports :
          \/ OpenSocket(p)
          \/ CallerRuns /\ ioState' = ioState
    BY <1>2 DEF Program, AsyncReceive, AsyncSend
  <2>2. CASE OpenSocket(p)
    BY <2>2 DEF OpenSocket, reactorVars, schedulerVars
  <2>3. CASE CallerRuns /\ ioState' = ioState
    BY <2>3 DEF CallerRuns, StopsOnlyWhenIdle
  <2>4. QED
    BY <2>1, <2>2, <2>3
<1>3. CASE Run
  <2>1. CASE StartRun
    <3>1. work' = work /\ (work = 0 \/ ioState' = "running")
      BY <2>1 DEF StartRun
    <3>2. QED
      BY <3>1
  <2>2. CASE FinishHandler
    <3>1. running # None /\ (work' = 0 \/ ioState' = ioState)
      BY <2>2 DEF FinishHandler
    <3>2. QED
      BY <3>1 DEF StopsOnlyWhenIdle
  <2>3. CASE RunTask \/ RunCompletion \/ \E p \in Ports : RunDescriptor(p)
    BY <2>3 DEF RunTask, RunCompletion, RunDescriptor, Dispatches
  <2>4. QED
    BY <1>3, <2>1, <2>2, <2>3 DEF Run
<1>4. CASE UNCHANGED vars
  BY <1>4 DEF vars, reactorVars, schedulerVars
<1>5. QED
  BY <1>1, <1>2, <1>3, <1>4 DEF Next

LEMMA StopStep ==
  ASSUME TypeTurn', WorkIsExact', StopsOnlyWhenIdle, [Next]_vars
  PROVE  StopsOnlyWhenIdle'
<1>1. SUFFICES ASSUME ioState' = "stopped"
               PROVE  /\ running' = None
                      /\ QueuedAt("completion")' = {}
                      /\ \A p \in Ports : readOp'[p] = None /\ writeOps'[p] = <<>>
  BY DEF StopsOnlyWhenIdle
<1>2. CASE work' = 0
  <2>1. WorkSum(readOp', writeOps', ioq', running') = 0
    BY <1>2, WorkIsSum
  <2>2. writeOps' \in [Ports -> Seq(Send)] /\ ioq' \in Seq(QueueItems)
    BY DEF TypeTurn, TypeOK
  <2>3. Drained(readOp', writeOps', ioq', running')
    BY <2>1, <2>2, NothingCounted
  <2>4. QED
    BY <2>3 DEF Drained, QueuedAt, Places
<1>3. CASE ioState = "stopped" /\ UNCHANGED <<readOp, writeOps, ioq, running>>
  BY <1>3 DEF StopsOnlyWhenIdle, QueuedAt
<1>4. QED
  BY <1>1, <1>2, <1>3, StopsWhy

(***************************************************************************)
(* An operation waits only where epoll looks.                              *)
(***************************************************************************)
LEMMA RegisteredStep ==
  ASSUME TypeTurn, PendingRegistered, [Next]_vars PROVE PendingRegistered'
<1>1. SUFFICES ASSUME NEW p \in Ports
               PROVE  /\ readOp'[p] # None \/ writeOps'[p] # <<>> => p \in open'
                      /\ writeOps'[p] # <<>> => pollOut'[p]
  BY DEF PendingRegistered
<1>2. /\ readOp[p] # None \/ writeOps[p] # <<>> => p \in open
      /\ writeOps[p] # <<>> => pollOut[p]
  BY DEF PendingRegistered
<1>3. /\ readOp \in [Ports -> Receive \cup {None}] /\ writeOps \in [Ports -> Seq(Send)]
      /\ pollOut \in [Ports -> BOOLEAN]
  BY DEF TypeTurn, TypeOK
<1>4. CASE Kernel
  BY <1>2, <1>4 DEF Kernel, Deliver, Block, Drain, reactorVars
<1>5. CASE Program
  <2>1. PICK r \in Ports :
          \/ OpenSocket(r)
          \/ \E h \in Handlers : AsyncReceive(r, h)
          \/ \E h \in Handlers : AsyncSend(r, h, running.index, running.bytes)
    BY <1>5 DEF Program
  <2>2. CASE OpenSocket(r)
    BY <1>2, <2>2 DEF OpenSocket, reactorVars
  <2>3. CASE \E h \in Handlers : AsyncReceive(r, h)
    BY <1>2, <1>3, <2>3 DEF AsyncReceive
  <2>4. ASSUME NEW h \in Handlers, AsyncSend(r, h, running.index, running.bytes)
        PROVE  /\ readOp'[p] # None \/ writeOps'[p] # <<>> => p \in open'
               /\ writeOps'[p] # <<>> => pollOut'[p]
    <3>1. PICK op : op = [port |-> r, handler |-> h, index |-> running.index,
                          bytes |-> running.bytes]
      OBVIOUS
    <3>2. (SendNow(op) \/ SendLater(op)) /\ op.port = r /\ r \in open
          /\ readOp' = readOp /\ open' = open
      BY <2>4, <3>1 DEF AsyncSend
    <3>3. CASE SendNow(op)
      BY <1>2, <3>2, <3>3 DEF SendNow
    <3>4. CASE SendLater(op)
      <4>1. /\ writeOps' = [writeOps EXCEPT ![r] = Append(@, op)]
            /\ pollOut' = [pollOut EXCEPT ![r] = @ \/ writeOps[r] = <<>>]
        BY <3>2, <3>4 DEF SendLater
      <4>2. p # r => writeOps'[p] = writeOps[p] /\ pollOut'[p] = pollOut[p]
        BY <1>3, <4>1
      <4>3. p = r => pollOut'[p]
        BY <1>2, <1>3, <4>1
      <4>4. QED
        BY <1>2, <3>2, <4>2, <4>3
    <3>5. QED
      BY <3>2, <3>3, <3>4
  <2>5. QED
    BY <2>1, <2>2, <2>3, <2>4
<1>6. CASE Run
  <2>1. CASE StartRun \/ RunTask \/ RunCompletion \/ FinishHandler
    BY <1>2, <2>1
    DEF StartRun, RunTask, RunCompletion, FinishHandler, kernelVars, reactorVars
  <2>2. ASSUME NEW r \in Ports, RunDescriptor(r)
        PROVE  /\ readOp'[p] # None \/ writeOps'[p] # <<>> => p \in open'
               /\ writeOps'[p] # <<>> => pollOut'[p]
    <3>1. open' = open /\ pollOut' = pollOut
      BY <2>2 DEF RunDescriptor
    <3>2. readOp'[p] # None => readOp[p] # None
      <4>1. readOp' = [readOp EXCEPT ![r] = None] \/ readOp' = readOp
        BY <2>2 DEF RunDescriptor
      <4>2. QED
        BY <1>3, <4>1
    <3>3. writeOps'[p] # <<>> => writeOps[p] # <<>>
      <4>1. PICK n \in 0..Len(writeOps[r]) :
              writeOps' = [writeOps EXCEPT ![r] = SubSeq(@, n + 1, Len(@))]
        BY <2>2, DescriptorStep DEF DescriptorDoes, TypeTurn
      <4>2. CASE p # r
        BY <1>3, <4>1, <4>2
      <4>3. CASE p = r
        <5>1. PICK rest : rest = SubSeq(writeOps[p], n + 1, Len(writeOps[p]))
          OBVIOUS
        <5>2. /\ rest \in Seq(Send) /\ Len(rest) = Len(writeOps[p]) - n
          BY <1>3, <4>3, <5>1, WaitingDrop
        <5>3. writeOps'[p] = rest
          BY <1>3, <4>1, <4>3, <5>1
        <5>4. /\ Len(writeOps[p]) \in Nat /\ n \in 0..Len(writeOps[p])
              /\ (writeOps[p] = <<>> <=> Len(writeOps[p]) = 0)
              /\ Len(rest) \in Nat /\ (rest = <<>> <=> Len(rest) = 0)
          <6>1. writeOps[p] \in Seq(Send)
            BY <1>3
          <6>2. QED
            BY <4>3, <5>2, <6>1, LenProperties, EmptySeq
        <5>5. QED
          BY <5>2, <5>3, <5>4
      <4>4. QED
        BY <4>2, <4>3
    <3>4. QED
      BY <1>2, <3>1, <3>2, <3>3
  <2>3. QED
    BY <1>6, <2>1, <2>2 DEF Run
<1>7. CASE UNCHANGED vars
  BY <1>2, <1>7 DEF vars, kernelVars, reactorVars
<1>8. QED
  BY <1>4, <1>5, <1>6, <1>7 DEF Next

------------------------------------------------------------------------------
(***************************************************************************)
(* No wakeup is lost.  What is queued stays queued until it is its turn.   *)
(***************************************************************************)
Holds(q, x) == \E i \in DOMAIN q : q[i] = x

LEMMA TailHolds ==
  ASSUME NEW q \in Seq(QueueItems), InTurn(q), NEW x, Holds(q, x), x # Head(q)
  PROVE  Holds(Tail(q), x)
<1>1. PICK i \in DOMAIN q : q[i] = x
  BY DEF Holds
<1>2. q # <<>> /\ Len(q) \in Nat \ {0} /\ Head(q) = q[1] /\ DOMAIN q = 1..Len(q)
  BY TurnNotEmpty, LenProperties
<1>3. PICK t : t = Tail(q)
  OBVIOUS
<1>4. /\ t \in Seq(QueueItems) /\ Len(t) = Len(q) - 1
      /\ \A j \in 1..Len(t) : t[j] = q[j + 1]
  BY <1>2, <1>3, HeadTailProperties
<1>5. i - 1 \in 1..Len(t) /\ (i - 1) + 1 = i
  BY <1>1, <1>2, <1>4
<1>6. t[i - 1] = x /\ i - 1 \in DOMAIN t
  BY <1>1, <1>4, <1>5, LenProperties
<1>7. QED
  BY <1>3, <1>6 DEF Holds

LEMMA ConcatHolds ==
  ASSUME NEW q \in Seq(QueueItems), NEW r \in Seq(QueueItems), NEW x, Holds(q, x)
  PROVE  Holds(q \o r, x)
<1>1. PICK i \in DOMAIN q : q[i] = x
  BY DEF Holds
<1>2. /\ Len(q \o r) = Len(q) + Len(r) /\ q \o r \in Seq(QueueItems)
      /\ \A j \in 1..(Len(q) + Len(r)) :
           (q \o r)[j] = IF j <= Len(q) THEN q[j] ELSE r[j - Len(q)]
  BY ConcatProperties
<1>3. /\ DOMAIN q = 1..Len(q) /\ DOMAIN (q \o r) = 1..(Len(q) + Len(r))
      /\ Len(q) \in Nat /\ Len(r) \in Nat
  BY <1>2, LenProperties
<1>4. i \in DOMAIN (q \o r) /\ (q \o r)[i] = x
  BY <1>1, <1>2, <1>3
<1>5. QED
  BY <1>4 DEF Holds

LEMMA AppendHolds ==
  ASSUME NEW q \in Seq(QueueItems), NEW c \in Completion, NEW x, Holds(q, x)
  PROVE  Holds(Append(q, Completed(c)), x)
<1>1. PICK y \in QueueItems : y = Completed(c)
  BY ItemKinds
<1>2. PICK one : one = <<y>>
  OBVIOUS
<1>3. one \in Seq(QueueItems)
  BY <1>1, <1>2
<1>4. Append(q, y) = q \o one
  BY <1>2, AppendIsConcat
<1>5. Holds(q \o one, x)
  BY <1>3, ConcatHolds
<1>6. QED
  BY <1>1, <1>4, <1>5

(* That an event of a socket is on its way. *)
Awaits(p, e) == edge[p] \/ (Holds(ioq, Descriptor(p)) /\ e \in events[p])

Wakes(p) ==
  /\ readOp[p] # None /\ Readable(p) => Awaits(p, "in")
  /\ writeOps[p] # <<>> /\ Writable(p) => Awaits(p, "out")

LEMMA WakeupIsWakes ==
  /\ NoLostWakeup <=> \A p \in Ports : Wakes(p)
  /\ NoLostWakeup' <=> \A p \in Ports : Wakes(p)'
BY DEF NoLostWakeup, Wakes, Awaits, Holds, DescriptorQueued

(* A step that does nothing to a socket and leaves its descriptor queued. *)
Leaves(p) ==
  /\ edge[p] => edge'[p]
  /\ Holds(ioq, Descriptor(p)) => Holds(ioq', Descriptor(p))
  /\ events'[p] = events[p]
  /\ readOp'[p] = readOp[p] /\ writeOps'[p] = writeOps[p]
  /\ arrivals'[p] = arrivals[p] /\ taken'[p] = taken[p]
  /\ txFull'[p] = txFull[p]

LEMMA LeavesWakes ==
  ASSUME NEW p \in Ports, Wakes(p), Leaves(p) PROVE Wakes(p)'
BY DEF Wakes, Awaits, Leaves, Readable, Writable

LEMMA KernelWakes ==
  ASSUME TypeTurn, PendingRegistered, NEW p \in Ports, Wakes(p), Kernel PROVE Wakes(p)'
<1>1. PICK r \in Ports : \/ \E src \in Senders, size \in Sizes : Deliver(r, src, size)
                         \/ Block(r) \/ Drain(r)
  BY DEF Kernel
<1>2. UNCHANGED <<readOp, writeOps, events, ioq, pollOut, taken>>
  BY <1>1 DEF Deliver, Block, Drain, reactorVars, schedulerVars
<1>3. /\ arrivals \in [Ports -> Seq([src : Senders, size : Sizes])]
      /\ txFull \in [Ports -> BOOLEAN] /\ edge \in [Ports -> BOOLEAN]
      /\ pollOut \in [Ports -> BOOLEAN]
  BY DEF TypeTurn, TypeOK
<1>4. CASE p # r
  <2>1. arrivals'[p] = arrivals[p] /\ txFull'[p] = txFull[p] /\ edge'[p] = edge[p]
    BY <1>1, <1>3, <1>4 DEF Deliver, Block, Drain
  <2>2. QED
    BY <1>2, <2>1, LeavesWakes DEF Leaves
<1>5. CASE p = r
  <2>1. CASE \E src \in Senders, size \in Sizes : Deliver(r, src, size)
    <3>1. edge'[p]
      BY <1>3, <1>5, <2>1 DEF Deliver
    <3>2. QED
      BY <3>1 DEF Wakes, Awaits
  <2>2. CASE Block(r)
    <3>1. txFull'[p] /\ edge'[p] = edge[p] /\ arrivals'[p] = arrivals[p]
      BY <1>3, <1>5, <2>2 DEF Block
    <3>2. QED
      BY <1>2, <3>1 DEF Wakes, Awaits, Readable, Writable
  <2>3. CASE Drain(r)
    <3>1. (edge[p] => edge'[p]) /\ (pollOut[p] => edge'[p]) /\ arrivals'[p] = arrivals[p]
      BY <1>3, <1>5, <2>3 DEF Drain
    <3>2. writeOps[p] # <<>> => pollOut[p]
      BY DEF PendingRegistered
    <3>3. QED
      BY <1>2, <3>1, <3>2 DEF Wakes, Awaits, Readable
  <2>4. QED
    BY <1>1, <2>1, <2>2, <2>3
<1>6. QED
  BY <1>4, <1>5

LEMMA ReceiveWakes ==
  ASSUME TypeTurn, NEW p \in Ports, Wakes(p), NEW r \in Ports, NEW h \in Handlers,
         AsyncReceive(r, h)
  PROVE  Wakes(p)'
<1> DEFINE op == [port |-> r, handler |-> h]
<1>1. UNCHANGED <<arrivals, txFull, edge, events, writeOps>> /\ readOp[r] = None
  BY DEF AsyncReceive
<1>2. /\ readOp \in [Ports -> Receive \cup {None}] /\ taken \in [Ports -> Nat]
      /\ ioq \in Seq(QueueItems)
  BY DEF TypeTurn, TypeOK
<1>3. CASE Readable(r)
  <2>1. /\ taken' = [taken EXCEPT ![r] = @ + 1] /\ readOp' = readOp
        /\ ioq' = Append(ioq, Completed(ReceiveDone(r, op)))
    BY <1>3 DEF AsyncReceive, PerformReceive
  <2>2. PICK c \in Completion : c = ReceiveDone(r, op)
    <3>1. op \in Receive
      BY DEF Receive
    <3>2. QED
      BY <1>3, <3>1, ReceiveDoneType DEF TypeTurn
  <2>3. Holds(ioq, Descriptor(p)) => Holds(ioq', Descriptor(p))
    BY <1>2, <2>1, <2>2, AppendHolds
  <2>4. p # r => taken'[p] = taken[p]
    BY <1>2, <2>1
  <2>5. CASE p = r
    BY <1>1, <2>1, <2>3, <2>5 DEF Wakes, Awaits, Writable
  <2>6. CASE p # r
    BY <1>1, <2>1, <2>3, <2>4, <2>6, LeavesWakes DEF Leaves
  <2>7. QED
    BY <2>5, <2>6
<1>4. CASE ~Readable(r)
  <2>1. readOp' = [readOp EXCEPT ![r] = op] /\ taken' = taken /\ ioq' = ioq
    BY <1>4 DEF AsyncReceive
  <2>2. CASE p = r
    BY <1>1, <1>4, <2>1, <2>2 DEF Wakes, Awaits, Readable, Writable
  <2>3. CASE p # r
    <3>1. readOp'[p] = readOp[p]
      BY <1>2, <2>1, <2>3
    <3>2. QED
      BY <1>1, <2>1, <3>1, LeavesWakes DEF Leaves
  <2>4. QED
    BY <2>2, <2>3
<1>5. QED
  BY <1>3, <1>4

LEMMA SendWakes ==
  ASSUME TypeTurn, NEW p \in Ports, Wakes(p), NEW r \in Ports, NEW h \in Handlers,
         NEW i \in Nat, NEW n \in 0..BufferSize, AsyncSend(r, h, i, n)
  PROVE  Wakes(p)'
<1>1. PICK op : op = [port |-> r, handler |-> h, index |-> i, bytes |-> n]
  OBVIOUS
<1>2. op \in Send /\ op.port = r
  BY <1>1 DEF Send
<1>3. UNCHANGED <<arrivals, taken, txFull, events, readOp>>
  BY DEF AsyncSend
<1>4. /\ writeOps \in [Ports -> Seq(Send)] /\ edge \in [Ports -> BOOLEAN]
      /\ ioq \in Seq(QueueItems)
  BY DEF TypeTurn, TypeOK
<1>5. CASE SendNow(op)
  <2>1. PICK rejected \in Rejected(1) :
           ioq' = Append(ioq, Completed(SendDone(op, 1 \in rejected)))
    BY <1>5 DEF SendNow
  <2>2. PICK c \in Completion : c = SendDone(op, 1 \in rejected)
    <3>1. (1 \in rejected) \in BOOLEAN
      OBVIOUS
    <3>2. QED
      BY <1>2, <3>1, SendDoneType
  <2>3. Holds(ioq, Descriptor(p)) => Holds(ioq', Descriptor(p))
    BY <1>4, <2>1, <2>2, AppendHolds
  <2>4. writeOps' = writeOps /\ edge' = edge
    BY <1>5 DEF SendNow
  <2>5. QED
    BY <1>3, <2>3, <2>4, LeavesWakes DEF Leaves
<1>6. CASE SendLater(op)
  <2>1. /\ writeOps' = [writeOps EXCEPT ![r] = Append(@, op)]
        /\ edge' = Reregistered(r) /\ ioq' = ioq
        /\ writeOps[r] # <<>> \/ ~Writable(r)
    BY <1>2, <1>6 DEF SendLater
  <2>2. edge[p] => edge'[p]
    BY <1>4, <2>1 DEF Reregistered
  <2>3. CASE p = r
    BY <1>3, <2>1, <2>2, <2>3 DEF Wakes, Awaits, Readable, Writable
  <2>4. CASE p # r
    <3>1. writeOps'[p] = writeOps[p]
      BY <1>4, <2>1, <2>4
    <3>2. QED
      BY <1>3, <2>1, <2>2, <3>1, LeavesWakes DEF Leaves
  <2>5. QED
    BY <2>3, <2>4
<1>7. QED
  BY <1>1, <1>5, <1>6 DEF AsyncSend

LEMMA TaskWakes ==
  ASSUME TypeTurn, PendingRegistered, NEW p \in Ports, Wakes(p), RunTask
  PROVE  Wakes(p)'
<1> DEFINE ready == {r \in open : edge[r] /\ Ready(r) # {}}
<1>1. PICK found \in SUBSET ready :
         /\ \A r \in found : \E i \in DOMAIN ioq' : ioq'[i] = Descriptor(r)
         /\ \A i \in DOMAIN ioq : ioq[i].item # "descriptor"
         /\ events' = [r \in Ports |-> IF r \in found THEN Ready(r) ELSE events[r]]
         /\ edge' = [r \in Ports |-> r \in ready \ found]
  BY TaskStep
<1>2. UNCHANGED <<arrivals, taken, txFull, pollOut, readOp, writeOps>>
  BY DEF RunTask
<1>3. ~Holds(ioq, Descriptor(p))
  BY <1>1, ItemKinds DEF Holds
<1>4. ASSUME NEW e \in Ready(p), edge[p], p \in open PROVE Awaits(p, e)'
  <2>1. p \in ready
    BY <1>4
  <2>2. CASE p \in found
    <3>1. Holds(ioq', Descriptor(p)) /\ events'[p] = Ready(p)
      BY <1>1, <2>2 DEF Holds
    <3>2. QED
      BY <3>1 DEF Awaits
  <2>3. CASE p \notin found
    <3>1. edge'[p]
      BY <1>1, <2>1, <2>3
    <3>2. QED
      BY <3>1 DEF Awaits
  <2>4. QED
    BY <2>2, <2>3
<1>5. readOp'[p] # None /\ Readable(p)' => Awaits(p, "in")'
  <2>1. SUFFICES ASSUME readOp[p] # None, Readable(p) PROVE Awaits(p, "in")'
    BY <1>2 DEF Readable
  <2>2. edge[p] /\ p \in open /\ "in" \in Ready(p)
    BY <1>3, <2>1 DEF Wakes, Awaits, Ready, PendingRegistered
  <2>3. QED
    BY <1>4, <2>2
<1>6. writeOps'[p] # <<>> /\ Writable(p)' => Awaits(p, "out")'
  <2>1. SUFFICES ASSUME writeOps[p] # <<>>, Writable(p) PROVE Awaits(p, "out")'
    BY <1>2 DEF Writable
  <2>2. edge[p] /\ p \in open /\ "out" \in Ready(p)
    BY <1>3, <2>1 DEF Wakes, Awaits, Ready, PendingRegistered
  <2>3. QED
    BY <1>4, <2>2
<1>7. QED
  BY <1>5, <1>6 DEF Wakes

(* A descriptor that ran for an event is left with nothing it could do. *)
LEMMA DescriptorWakes ==
  ASSUME TypeTurn, NEW p \in Ports, Wakes(p), NEW r \in Ports, RunDescriptor(r)
  PROVE  Wakes(p)'
<1>1. PICK n \in 0..Len(writeOps[r]), done \in Seq(Completion),
           more \in Seq(QueueItems), packets \in Seq(Wired), full \in BOOLEAN :
         DescriptorDoes(r, n, done, more, packets, full)
  BY DescriptorStep DEF TypeTurn
<1>2. /\ full <=> 0 < n /\ n < Len(writeOps[r])
      /\ "out" \in events[r] /\ Writable(r) => n = Len(writeOps[r]) \/ 0 < n
      /\ writeOps' = [writeOps EXCEPT ![r] = SubSeq(@, n + 1, Len(@))]
      /\ txFull' = [txFull EXCEPT ![r] = @ \/ full]
      /\ ioq' = Tail(ioq) \o more
  BY <1>1 DEF DescriptorDoes
<1>3. /\ events' = [events EXCEPT ![r] = {}] /\ Head(ioq) = Descriptor(r)
      /\ UNCHANGED <<arrivals, edge>>
      /\ Receives(r) => taken' = [taken EXCEPT ![r] = @ + 1]
                        /\ readOp' = [readOp EXCEPT ![r] = None]
      /\ ~Receives(r) => taken' = taken /\ readOp' = readOp
  BY DEF RunDescriptor, Dispatches, PerformReceive
<1>4. /\ readOp \in [Ports -> Receive \cup {None}] /\ writeOps \in [Ports -> Seq(Send)]
      /\ taken \in [Ports -> Nat] /\ txFull \in [Ports -> BOOLEAN]
      /\ events \in [Ports -> SUBSET {"in", "out"}]
      /\ ioq \in Seq(QueueItems) /\ InTurn(ioq)
  BY DEF TypeTurn, TypeOK
<1>5. CASE p # r
  <2>1. Descriptor(p) # Head(ioq)
    BY <1>3, <1>5, ItemKinds
  <2>2. Holds(ioq, Descriptor(p)) => Holds(ioq', Descriptor(p))
    <3>1. PICK t : t = Tail(ioq)
      OBVIOUS
    <3>2. t \in Seq(QueueItems)
      BY <1>4, <3>1, TailType
    <3>3. Holds(ioq, Descriptor(p)) => Holds(t, Descriptor(p))
      BY <1>4, <2>1, <3>1, TailHolds
    <3>4. Holds(t, Descriptor(p)) => Holds(t \o more, Descriptor(p))
      BY <3>2, ConcatHolds
    <3>5. ioq' = t \o more
      BY <1>2, <3>1
    <3>6. QED
      BY <3>3, <3>4, <3>5
  <2>3. /\ writeOps'[p] = writeOps[p] /\ txFull'[p] = txFull[p] /\ events'[p] = events[p]
        /\ readOp'[p] = readOp[p] /\ taken'[p] = taken[p]
    BY <1>2, <1>3, <1>4, <1>5
  <2>4. QED
    BY <1>3, <2>2, <2>3, LeavesWakes DEF Leaves
<1>6. CASE p = r
  <2>1. readOp'[p] # None /\ Readable(p)' => edge'[p]
    <3>1. SUFFICES ASSUME readOp'[p] # None, Readable(p)' PROVE edge[p]
      BY <1>3
    <3>2. ~Receives(r)
      BY <1>3, <1>4, <1>6, <3>1
    <3>3. readOp[p] # None /\ Readable(p)
      BY <1>3, <3>1, <3>2 DEF Readable
    <3>4. "in" \notin events[p]
      BY <1>6, <3>2, <3>3 DEF Receives
    <3>5. QED
      BY <3>3, <3>4 DEF Wakes, Awaits
  <2>2. writeOps'[p] # <<>> /\ Writable(p)' => edge'[p]
    <3>1. SUFFICES ASSUME writeOps'[p] # <<>>, Writable(p)' PROVE edge[p]
      BY <1>3
    <3>2. ~full /\ Writable(p)
      BY <1>2, <1>4, <1>6, <3>1 DEF Writable
    <3>3. PICK rest : rest = SubSeq(writeOps[p], n + 1, Len(writeOps[p]))
      OBVIOUS
    <3>4. rest \in Seq(Send) /\ Len(rest) = Len(writeOps[p]) - n
      BY <1>4, <1>6, <3>3, WaitingDrop
    <3>5. writeOps'[p] = rest
      BY <1>2, <1>4, <1>6, <3>3
    <3>6. /\ Len(writeOps[p]) \in Nat /\ n \in 0..Len(writeOps[p])
          /\ (writeOps[p] = <<>> <=> Len(writeOps[p]) = 0)
          /\ Len(rest) \in Nat /\ (rest = <<>> <=> Len(rest) = 0)
      <4>1. writeOps[p] \in Seq(Send)
        BY <1>4
      <4>2. QED
        BY <1>6, <3>4, <4>1, LenProperties, EmptySeq
    <3>7. n < Len(writeOps[p]) /\ ~(0 < n) /\ writeOps[p] # <<>>
      BY <1>2, <1>6, <3>1, <3>2, <3>4, <3>5, <3>6
    <3>8. "out" \notin events[p]
      BY <1>2, <1>6, <3>2, <3>6, <3>7
    <3>9. QED
      BY <3>2, <3>7, <3>8 DEF Wakes, Awaits
  <2>3. QED
    BY <2>1, <2>2 DEF Wakes, Awaits
<1>7. QED
  BY <1>5, <1>6

LEMMA WakeupStep ==
  ASSUME TypeTurn, PendingRegistered, NoLostWakeup, [Next]_vars PROVE NoLostWakeup'
<1>1. SUFFICES ASSUME NEW p \in Ports PROVE Wakes(p)'
  BY WakeupIsWakes
<1>2. Wakes(p)
  BY WakeupIsWakes
<1>3. CASE Kernel
  BY <1>2, <1>3, KernelWakes
<1>4. CASE Program
  <2>1. PICK r \in Ports :
          \/ OpenSocket(r)
          \/ \E h \in Handlers : AsyncReceive(r, h)
          \/ \E h \in Handlers : /\ running # None
                                 /\ AsyncSend(r, h, running.index, running.bytes)
    BY <1>4 DEF Program
  <2>2. running # None => running.index \in Nat /\ running.bytes \in 0..BufferSize
    BY DEF TypeTurn, TypeOK, Completion
  <2>3. OpenSocket(r) => Leaves(p)
    BY DEF OpenSocket, Leaves, reactorVars, schedulerVars
  <2>4. QED
    BY <1>2, <2>1, <2>2, <2>3, LeavesWakes, ReceiveWakes, SendWakes
<1>5. CASE Run
  <2>1. StartRun \/ FinishHandler => Leaves(p)
    BY DEF StartRun, FinishHandler, Leaves, kernelVars, reactorVars
  <2>2. RunCompletion => Leaves(p)
    <3>1. SUFFICES ASSUME RunCompletion PROVE Leaves(p)
      OBVIOUS
    <3>2. Descriptor(p) # Head(ioq)
      BY <3>1, ItemKinds DEF RunCompletion
    <3>3. Holds(ioq, Descriptor(p)) => Holds(ioq', Descriptor(p))
      BY <3>1, <3>2, TailHolds DEF RunCompletion, TypeTurn, TypeOK
    <3>4. UNCHANGED <<kernelVars, reactorVars>>
      BY <3>1 DEF RunCompletion
    <3>5. QED
      BY <3>3, <3>4 DEF Leaves, kernelVars, reactorVars
  <2>3. QED
    BY <1>2, <1>5, <2>1, <2>2, LeavesWakes, TaskWakes, DescriptorWakes DEF Run
<1>6. CASE UNCHANGED vars
  <2>1. Leaves(p)
    BY <1>6 DEF Leaves, vars, kernelVars, reactorVars, schedulerVars
  <2>2. QED
    BY <1>2, <2>1, LeavesWakes
<1>7. QED
  BY <1>3, <1>4, <1>5, <1>6 DEF Next

------------------------------------------------------------------------------
(***************************************************************************)
(* The inductive invariant.  That no wakeup is lost needs the turn of the  *)
(* queue (when the task runs, no event is on its way to a descriptor any   *)
(* more, so that epoll's ready list must hold the socket) and that what    *)
(* waits is registered; that the context stops only when idle needs the    *)
(* exact count; and the count needs the turn, because a step of the task   *)
(* must not lose a completion.                                             *)
(***************************************************************************)
EventInv == AsioInv /\ InTurn(ioq) /\ NoLostWakeup

LEMMA InitEvent == ASSUME Init PROVE EventInv
<1>1. PICK q : q = <<Task>>
  OBVIOUS
<1>2. /\ q \in Seq(QueueItems) /\ Len(q) = 1 /\ DOMAIN q = {1} /\ q[1] = Task
  <2>1. Task \in QueueItems
    BY ItemKinds
  <2>2. /\ q \in Seq(QueueItems) /\ Len(q) = 1 /\ q[1] = Task
    BY <1>1, <2>1
  <2>3. DOMAIN q = 1..1
    BY <2>2, LenProperties
  <2>4. QED
    BY <2>2, <2>3
<1>3. ioq = q
  BY <1>1 DEF Init
<1>4. InTurn(ioq)
  <2>1. TaskAt(q, 1)
    BY <1>2, ItemKinds DEF TaskAt
  <2>2. QED
    BY <1>3, <2>1 DEF InTurn
<1>5. PICK none : none = <<>>
  OBVIOUS
<1>6. TypeOK
  <2>1. /\ none \in Seq([src : Senders, size : Sizes])
        /\ none \in Seq([port : Ports, index : Nat, cells : Seq(Datagram \cup {None})])
        /\ none \in Seq(Send)
    BY <1>5
  <2>2. /\ arrivals \in [Ports -> Seq([src : Senders, size : Sizes])]
        /\ wire \in Seq([port : Ports, index : Nat, cells : Seq(Datagram \cup {None})])
        /\ writeOps \in [Ports -> Seq(Send)]
    BY <1>5, <2>1 DEF Init
  <2>3. ioq \in Seq(QueueItems)
    BY <1>2, <1>3
  <2>4. QED
    BY <2>2, <2>3 DEF Init, TypeOK
<1>7. /\ \A p \in Ports : readOp[p] = None /\ writeOps[p] = <<>>
      /\ running = None /\ work = 0 /\ ioState = "idle"
  BY DEF Init
<1>8. WorkIsExact
  <2>1. Cardinality(Receiving(readOp)) = 0
    <3>1. Receiving(readOp) = {}
      BY <1>7 DEF Receiving
    <3>2. QED
      BY <3>1, FS_EmptySet
  <2>2. Cardinality(Waiting(writeOps)) = 0
    <3>1. \A p \in Ports : DOMAIN writeOps[p] = {}
      BY <1>7
    <3>2. Waiting(writeOps) = {}
      BY <3>1 DEF Waiting
    <3>3. QED
      BY <3>2, FS_EmptySet
  <2>3. Cardinality(Places(ioq, "completion")) = 0
    <3>1. Places(ioq, "completion") = {}
      BY <1>2, <1>3, ItemKinds DEF Places
    <3>2. QED
      BY <3>1, FS_EmptySet
  <2>4. WorkSum(readOp, writeOps, ioq, running) = 0
    BY <1>7, <2>1, <2>2, <2>3 DEF WorkSum
  <2>5. QED
    BY <1>7, <2>4, WorkIsSum
<1>9. StopsOnlyWhenIdle /\ PendingRegistered /\ NoLostWakeup
  BY <1>7 DEF StopsOnlyWhenIdle, PendingRegistered, NoLostWakeup
<1>10. QED
  BY <1>4, <1>6, <1>8, <1>9 DEF EventInv, AsioInv

LEMMA EventStep == ASSUME EventInv, [Next]_vars PROVE EventInv'
<1>1. /\ TypeTurn /\ WorkIsExact /\ StopsOnlyWhenIdle /\ PendingRegistered
      /\ NoLostWakeup
  BY DEF EventInv, AsioInv, TypeTurn
<1>2. TypeTurn'
  BY <1>1, TypesStep
<1>3. WorkIsExact'
  BY <1>1, WorkStep
<1>4. StopsOnlyWhenIdle'
  BY <1>1, <1>2, <1>3, StopStep
<1>5. PendingRegistered'
  BY <1>1, RegisteredStep
<1>6. NoLostWakeup'
  BY <1>1, WakeupStep
<1>7. QED
  BY <1>2, <1>3, <1>4, <1>5, <1>6 DEF EventInv, AsioInv, TypeTurn

LEMMA EventAlways == Spec => []EventInv
<1>1. Init => EventInv
  BY InitEvent
<1>2. EventInv /\ [Next]_vars => EventInv'
  BY EventStep
<1>3. QED
  BY <1>1, <1>2, PTL DEF Spec

(***************************************************************************)
(* The count of outstanding work is exact for any sockets and any program  *)
(* that keeps one receive per socket pending: run() returns when nothing   *)
(* is left, and not before (scheduler.ipp, epoll_reactor.ipp).             *)
(***************************************************************************)
THEOREM AsioInvariant == Spec => []AsioInv
<1>1. EventInv => AsioInv
  BY DEF EventInv
<1>2. QED
  BY <1>1, EventAlways, PTL

(***************************************************************************)
(* What epoll_reactor.ipp:487-491 relies on: the task is queued once and   *)
(* behind the descriptors it found, none of which is queued twice.         *)
(***************************************************************************)
THEOREM DescriptorsOnce == Spec => []DescriptorsBeforeTask
<1>1. EventInv => DescriptorsBeforeTask
  BY TurnMeansOnce DEF EventInv
<1>2. QED
  BY <1>1, EventAlways, PTL

(***************************************************************************)
(* Edge-triggered registration loses no wakeup: an operation that could    *)
(* proceed has its socket on epoll's ready list or its descriptor queued   *)
(* with the event, whatever the order of kernel, task and handlers, and    *)
(* however few of the ready sockets one epoll_wait reports.                *)
(***************************************************************************)
THEOREM WakeupsKept == Spec => []NoLostWakeup
<1>1. EventInv => NoLostWakeup
  BY DEF EventInv
<1>2. QED
  BY <1>1, EventAlways, PTL
==============================================================================
