------------------------------- MODULE SetProofs -------------------------------
(***************************************************************************)
(* Facts about finite sets that the proofs of several components need:     *)
(* sets with one element at most, induction over the subsets of a set, and *)
(* sums over a set.                                                        *)
(***************************************************************************)
EXTENDS Integers, FiniteSetsExt, FiniteSetTheorems, WellFoundedInduction, TLAPS

\* A finite set without two elements or more has one at most.
LEMMA NoTwo ==
  ASSUME NEW S, IsFiniteSet(S), ~(Cardinality(S) > 1)
  PROVE  \A x, y \in S : x = y
  <1> SUFFICES ASSUME NEW x \in S, NEW y \in S, x # y PROVE FALSE
    OBVIOUS
  <1>1. Cardinality({x, y}) = 2
    <2>1. IsFiniteSet({x}) /\ Cardinality({x}) = 1
      BY FS_Singleton
    <2>2. Cardinality({x} \cup {y}) = Cardinality({x}) + 1
      BY <2>1, FS_AddElement
    <2>3. {x} \cup {y} = {x, y}
      OBVIOUS
    <2> QED
      BY <2>1, <2>2, <2>3
  <1>2. {x, y} \in SUBSET S
    OBVIOUS
  <1>3. Cardinality({x, y}) <= Cardinality(S)
    BY <1>2, FS_Subset
  <1>4. Cardinality(S) \in Nat
    BY FS_CardinalityType
  <1> QED
    BY <1>1, <1>3, <1>4

\* A set whose members are all the same has at most one.
LEMMA AtMostOne ==
  ASSUME NEW S, \A a, b \in S : a = b
  PROVE  Cardinality(S) <= 1
  <1>1. CASE S = {}
    BY <1>1, FS_EmptySet
  <1>2. CASE S # {}
    <2>1. PICK a \in S : TRUE
      BY <1>2
    <2>2. S = {a}
      BY <2>1
    <2>3. Cardinality(S) = 1
      BY <2>2, FS_Singleton
    <2> QED
      BY <2>3
  <1> QED
    BY <1>1, <1>2

-----------------------------------------------------------------------------
(***************************************************************************)
(* Induction and sums.                                                     *)
(***************************************************************************)

\* Induction over the subsets of a finite set, with a set for the property.
LEMMA SubsetInduction ==
  ASSUME NEW S, IsFiniteSet(S), NEW A,
         \A t \in SUBSET S : (\A u \in SUBSET t : u # t => u \in A) => t \in A
  PROVE  \A t \in SUBSET S : t \in A
  <1> DEFINE Rest == {t \in SUBSET S : t \notin A}
             R == StrictSubsetOrdering(S)
  <1>1. IsWellFoundedOn(R, SUBSET S)
    BY FS_StrictSubsetOrderingWellFounded, FS_FiniteSubsetsOfFinite
  <1>2. SUFFICES ASSUME Rest # {} PROVE FALSE
    OBVIOUS
  <1> HIDE DEF R
  <1>3. PICK t \in Rest : \A u \in Rest : ~ (<<u, t>> \in R)
    <2>1. Rest \subseteq SUBSET S
      OBVIOUS
    <2> HIDE DEF Rest
    <2> QED
      BY <1>1, <1>2, <2>1, WFMin
  <1>4. \A u \in SUBSET t : u # t => <<u, t>> \in R
    BY DEF R, StrictSubsetOrdering
  <1>5. t \in SUBSET S /\ t \notin A
    BY <1>3
  <1>6. \A u \in SUBSET t : u # t => u \in A
    <2> SUFFICES ASSUME NEW u \in SUBSET t, u # t, u \notin A PROVE FALSE
      OBVIOUS
    <2>1. u \in Rest
      BY <1>5
    <2> QED
      BY <1>3, <1>4, <2>1
  <1> QED
    BY <1>5, <1>6

\* The element MapThenSumSet takes out of a set, and the sums h of f over the
\* subsets of t that it works out one element at a time.
Picked(s) == CHOOSE x \in s : TRUE

SumsUp(f, t, h) ==
  /\ h \in [SUBSET t -> Nat]
  /\ \A s \in SUBSET t : h[s] = IF s = {} THEN 0 ELSE f[Picked(s)] + h[s \ {Picked(s)}]

LEMMA PickedIn == \A s : s # {} => Picked(s) \in s
  BY DEF Picked

\* There is one such h at most, and one there is.
LEMMA SumsUnique ==
  ASSUME NEW W, IsFiniteSet(W), NEW f, NEW t \in SUBSET W, NEW u \in SUBSET W, NEW g, NEW h,
         SumsUp(f, t, g), SumsUp(f, u, h)
  PROVE  \A s \in SUBSET (t \cap u) : g[s] = h[s]
  <1> DEFINE A == {s \in SUBSET (t \cap u) : g[s] = h[s]}
  <1>1. IsFiniteSet(t \cap u)
    BY FS_Subset
  <1>2. ASSUME NEW s \in SUBSET (t \cap u), \A v \in SUBSET s : v # s => v \in A
        PROVE  s \in A
    <2>1. CASE s = {}
      BY <2>1 DEF SumsUp
    <2>2. CASE s # {}
      <3>1. s \ {Picked(s)} \in A
        BY <1>2, <2>2, PickedIn
      <3> QED
        BY <2>2, <3>1 DEF SumsUp
    <2> QED
      BY <2>1, <2>2
  <1>3. \A s \in SUBSET (t \cap u) : s \in A
    <2> HIDE DEF A
    <2> QED
      BY <1>1, <1>2, SubsetInduction
  <1> QED
    BY <1>3

LEMMA SumsExist ==
  ASSUME NEW W, IsFiniteSet(W), NEW f \in [W -> Nat]
  PROVE  \E h : SumsUp(f, W, h)
  <1> DEFINE A == {t \in SUBSET W : \E h : SumsUp(f, t, h)}
             H(t) == CHOOSE h : SumsUp(f, t, h)
  <1>1. ASSUME NEW t \in SUBSET W, \A u \in SUBSET t : u # t => u \in A
        PROVE  t \in A
    <2> DEFINE g == [s \in SUBSET t |-> IF s = {} THEN 0
                      ELSE f[Picked(s)] + H(s \ {Picked(s)})[s \ {Picked(s)}]]
    <2>1. \A u \in SUBSET t : u # t => SumsUp(f, u, H(u))
      BY <1>1
    <2> HIDE DEF H
    <2>2. ASSUME NEW s \in SUBSET t, s # {}
          PROVE  /\ Picked(s) \in s /\ s \ {Picked(s)} \in SUBSET t /\ s \ {Picked(s)} # t
                 /\ f[Picked(s)] \in Nat
                 /\ H(s \ {Picked(s)})[s \ {Picked(s)}] \in Nat
      <3>1. Picked(s) \in s
        BY <2>2, PickedIn
      <3>2. s \ {Picked(s)} \in SUBSET t /\ s \ {Picked(s)} # t
        BY <3>1
      <3>3. SumsUp(f, s \ {Picked(s)}, H(s \ {Picked(s)}))
        BY <2>1, <3>2
      <3> QED
        BY <3>1, <3>2, <3>3 DEF SumsUp
    <2>3. g \in [SUBSET t -> Nat]
      BY <2>2
    <2>4. ASSUME NEW s \in SUBSET t, s # t PROVE g[s] = H(s)[s]
      <3>1. SumsUp(f, s, H(s))
        BY <2>1, <2>4
      <3>2. CASE s = {}
        BY <3>1, <3>2 DEF SumsUp
      <3>3. CASE s # {}
        <4> DEFINE v == s \ {Picked(s)}
        <4>1. v \in SUBSET t /\ v # t /\ v \in SUBSET s
          BY <2>2, <3>3
        <4>2. SumsUp(f, v, H(v))
          BY <2>1, <4>1
        <4>3. H(s)[v] = H(v)[v]
          <5>1. s \in SUBSET W /\ v \in SUBSET W /\ v \in SUBSET (s \cap v)
            BY <4>1
          <5> HIDE DEF v
          <5> QED
            BY <3>1, <4>2, <5>1, SumsUnique
        <4>4. H(s)[s] = f[Picked(s)] + H(s)[v]
          BY <3>1, <3>3 DEF SumsUp
        <4> QED
          BY <3>3, <4>3, <4>4
      <3> QED
        BY <3>2, <3>3
    <2>5. ASSUME NEW s \in SUBSET t, s # {}
          PROVE  g[s] = f[Picked(s)] + g[s \ {Picked(s)}]
      BY <2>2, <2>4, <2>5
    <2>6. g[{}] = 0
      OBVIOUS
    <2> HIDE DEF g
    <2>7. SumsUp(f, t, g)
      BY <2>3, <2>5, <2>6 DEF SumsUp
    <2> QED
      BY <2>7
  <1>2. \A t \in SUBSET W : t \in A
    <2> HIDE DEF A
    <2> QED
      BY <1>1, SubsetInduction
  <1> QED
    BY <1>2

\* So the sum of natural numbers over a finite set is the last of them.
LEMMA SumIsLast ==
  ASSUME NEW W, IsFiniteSet(W), NEW f \in [W -> Nat]
  PROVE  \E h : SumsUp(f, W, h) /\ MapThenSumSet(LAMBDA w : f[w], W) = h[W]
  <1> DEFINE Fold(g) == [s \in SUBSET W |-> IF s = {} THEN 0
                          ELSE f[Picked(s)] + g[s \ {Picked(s)}]]
             sum == CHOOSE g : g = Fold(g)
  <1>1. PICK h : SumsUp(f, W, h)
    BY SumsExist
  <1>2. h = Fold(h)
    BY <1>1 DEF SumsUp
  <1>3. sum = Fold(sum)
    BY <1>2
  <1>4. MapThenSumSet(LAMBDA w : f[w], W) = sum[W]
    BY DEF MapThenSumSet, MapThenFoldSet, Picked
  <1> HIDE DEF sum
  <1> DEFINE A == {s \in SUBSET W : sum[s] \in Nat}
  <1>5. ASSUME NEW s \in SUBSET W, \A v \in SUBSET s : v # s => v \in A
        PROVE  s \in A
    <2>1. CASE s = {}
      BY <1>3, <2>1
    <2>2. CASE s # {}
      <3>1. Picked(s) \in s /\ s \ {Picked(s)} \in A
        BY <1>5, <2>2, PickedIn
      <3>2. sum[s] = f[Picked(s)] + sum[s \ {Picked(s)}]
        BY <1>3, <2>2
      <3> QED
        BY <3>1, <3>2
    <2> QED
      BY <2>1, <2>2
  <1>6. \A s \in SUBSET W : s \in A
    <2> HIDE DEF A
    <2> QED
      BY <1>5, SubsetInduction
  <1>7. SumsUp(f, W, sum)
    BY <1>3, <1>6 DEF SumsUp
  <1> QED
    BY <1>4, <1>7

\* It is a natural number itself, ...
LEMMA SumIsNat ==
  ASSUME NEW W, IsFiniteSet(W), NEW f \in [W -> Nat]
  PROVE  MapThenSumSet(LAMBDA w : f[w], W) \in Nat
  <1>1. PICK h : SumsUp(f, W, h) /\ MapThenSumSet(LAMBDA w : f[w], W) = h[W]
    BY SumIsLast
  <1>2. h[W] \in Nat
    BY <1>1 DEF SumsUp
  <1> QED
    BY <1>1, <1>2

\* ... at most as many times the largest as there are numbers.
LEMMA SumBound ==
  ASSUME NEW W, IsFiniteSet(W), NEW f \in [W -> Nat], NEW m \in Nat, \A w \in W : f[w] <= m
  PROVE  MapThenSumSet(LAMBDA w : f[w], W) <= m * Cardinality(W)
  <1>1. PICK h : SumsUp(f, W, h) /\ MapThenSumSet(LAMBDA w : f[w], W) = h[W]
    BY SumIsLast
  <1> DEFINE A == {s \in SUBSET W : h[s] <= m * Cardinality(s)}
  <1>2. ASSUME NEW s \in SUBSET W, \A v \in SUBSET s : v # s => v \in A
        PROVE  s \in A
    <2>1. CASE s = {}
      <3>1. Cardinality(s) = 0 /\ h[s] = 0
        BY <1>1, <2>1, FS_EmptySet DEF SumsUp
      <3> QED
        BY <3>1
    <2>2. CASE s # {}
      <3>1. PICK x \in s : x = Picked(s)
        BY <2>2, PickedIn
      <3>2. PICK v \in SUBSET s : v = s \ {x}
        OBVIOUS
      <3>3. IsFiniteSet(s) /\ IsFiniteSet(v)
        BY FS_Subset
      <3>4. PICK n \in Nat : n = Cardinality(v)
        BY <3>3, FS_CardinalityType
      <3>5. Cardinality(s) = n + 1
        <4>1. s = v \cup {x} /\ x \notin v
          BY <3>2
        <4>2. Cardinality(v \cup {x}) = n + 1
          BY <3>3, <3>4, <4>1, FS_AddElement
        <4> QED
          BY <4>1, <4>2
      <3>6. PICK y \in Nat, z \in Nat : y = f[x] /\ z = h[v]
        BY <1>1 DEF SumsUp
      <3>7. z <= m * n /\ y <= m
        BY <1>2, <3>2, <3>4, <3>6
      <3>8. h[s] = y + z
        BY <1>1, <2>2, <3>1, <3>2, <3>6 DEF SumsUp
      <3>9. y + z <= m * (n + 1)
        BY <3>7
      <3> QED
        BY <3>5, <3>8, <3>9
    <2> QED
      BY <2>1, <2>2
  <1>3. \A s \in SUBSET W : s \in A
    <2> HIDE DEF A
    <2> QED
      BY <1>2, SubsetInduction
  <1> QED
    BY <1>1, <1>3

=============================================================================
