----------------------------- MODULE Inductions -----------------------------
(***************************************************************************)
(* Inductions over the naturals and over finite sets, with sets in place   *)
(* of predicates, so that the provers can use them.  The recursive         *)
(* functions of the models are well defined, and their facts proved, by    *)
(* these.                                                                  *)
(***************************************************************************)
EXTENDS Integers, FiniteSetsExt, FiniteSetTheorems, WellFoundedInduction, TLAPS

(***************************************************************************)
(* Of every set of naturals one is the least: the intervals below them are *)
(* well-founded by inclusion.                                              *)
(***************************************************************************)
LEMMA LeastNat ==
    ASSUME NEW T \in SUBSET Nat, T # {}
    PROVE  \E n \in T : \A m \in T : n <= m
<1>1. PICK n \in T : TRUE
  OBVIOUS
<1> DEFINE S == 0 .. n
           F == {0 .. (m - 1) : m \in T \cap (0 .. n)}
           R == StrictSubsetOrdering(S)
<1>2. IsWellFoundedOn(R, SUBSET S)
  <2>1. IsFiniteSet(S)
    BY FS_Interval
  <2> QED
    BY <2>1, FS_StrictSubsetOrderingWellFounded, FS_FiniteSubsetsOfFinite, Zenon
<1>3. F \subseteq SUBSET S /\ F # {}
  BY <1>1
<1>4. PICK x \in F : \A y \in F : <<y, x>> \notin R
  <2> HIDE DEF F, R
  <2> QED
    BY <1>2, <1>3, WFMin, Zenon
<1>5. PICK m \in T \cap (0 .. n) : x = 0 .. (m - 1)
  BY <1>4
<1>6. ASSUME NEW k \in T, k < m
      PROVE  FALSE
  <2> DEFINE y == 0 .. (k - 1)
  <2>1. y \in F
    BY <1>6
  <2>2. y \subseteq x /\ k \in x /\ k \notin y
    BY <1>5, <1>6
  <2>3. <<y, x>> \in (SUBSET S) \X (SUBSET S)
    BY <1>3, <1>4, <2>1
  <2> HIDE DEF y, S
  <2>4. <<y, x>> \in R
    BY <2>2, <2>3 DEF StrictSubsetOrdering
  <2> QED
    BY <1>4, <2>1, <2>4
<1> QED
  BY <1>5, <1>6

(***************************************************************************)
(* A non-empty set of naturals bounded by t has a greatest element.        *)
(***************************************************************************)
LEMMA GreatestNat ==
    ASSUME NEW t \in Nat, NEW S \in SUBSET (0 .. t), S # {}
    PROVE  \E m \in S : \A n \in S : n <= m
<1> DEFINE T == {t - x : x \in S}
<1>0. \A x \in S : x \in Nat /\ x <= t
  OBVIOUS
<1>1. T \in SUBSET Nat /\ T # {}
  <2>1. \A x \in S : t - x \in Nat
    BY <1>0
  <2> QED
    BY <2>1
<1>2. PICK d \in T : \A e \in T : d <= e
  <2> HIDE DEF T
  <2> QED
    BY <1>1, LeastNat
<1>3. PICK x \in S : d = t - x
  BY <1>2
<1>4. \A y \in S : x >= y
  <2> TAKE y \in S
  <2>1. d <= t - y
    BY <1>2
  <2> QED
    BY <1>0, <1>3, <2>1
<1> QED
  BY <1>0, <1>4

\* Max of such a set.
LEMMA MaxOf ==
    ASSUME NEW n \in Nat, NEW S \in SUBSET (0 .. n), S # {}
    PROVE  Max(S) \in S /\ \A x \in S : x <= Max(S)
<1>1. PICK m \in S : \A x \in S : x <= m
  BY GreatestNat
<1> QED
  BY <1>1 DEF Max

\* A set of numbers that has 0, and the successor of each of its members, is
\* Nat: induction without an operator parameter, so that the provers can use
\* it.
LEMMA SetInduction ==
    ASSUME NEW T \in SUBSET Nat, 0 \in T, \A n \in T : n + 1 \in T
    PROVE  T = Nat
<1> SUFFICES ASSUME Nat \ T # {}
             PROVE  FALSE
  OBVIOUS
<1>1. PICK n \in Nat \ T : \A m \in Nat \ T : n <= m
  <2> DEFINE U == Nat \ T
  <2>1. U \in SUBSET Nat /\ U # {}
    OBVIOUS
  <2> HIDE DEF U
  <2>2. \E n \in U : \A m \in U : n <= m
    BY <2>1, LeastNat
  <2> QED
    BY <2>2 DEF U
<1>2. n - 1 \in Nat /\ n - 1 \in T
  BY <1>1
<1> QED
  BY <1>1, <1>2

(***************************************************************************)
(* A step function can be iterated: what makes each recursive definition   *)
(* below well defined.                                                     *)
(***************************************************************************)
Iterates(f, base, step, n) ==
    f[0] = base /\ \A i \in 1 .. n : f[i] = step[<<f[i - 1], i>>]

\* A step function applied m times: the recursive functions of Controller are
\* instances.
LEMMA Iterate ==
    ASSUME NEW D, NEW base \in D, NEW step \in [D \X Nat -> D], NEW m \in Nat
    PROVE  \E f \in [0 .. m -> D] : Iterates(f, base, step, m)
<1> USE DEF Iterates
<1> DEFINE T == {n \in Nat : \E f \in [0 .. n -> D] : Iterates(f, base, step, n)}
<1>1. 0 \in T
  <2>1. Iterates([i \in 0 .. 0 |-> base], base, step, 0)
    OBVIOUS
  <2> QED
    BY <2>1
<1>2. ASSUME NEW n \in T
      PROVE  n + 1 \in T
  <2>1. PICK f \in [0 .. n -> D] : Iterates(f, base, step, n)
    OBVIOUS
  <2> DEFINE g == [i \in 0 .. n + 1 |-> IF i = n + 1 THEN step[<<f[n], n + 1>>] ELSE f[i]]
  <2>2. g \in [0 .. n + 1 -> D]
    <3>1. f[n] \in D /\ n + 1 \in Nat
      OBVIOUS
    <3> QED
      BY <3>1
  <2>3. g[0] = base
    BY <2>1
  <2>4. ASSUME NEW i \in 1 .. n + 1
        PROVE  g[i] = step[<<g[i - 1], i>>]
    <3>1. CASE i = n + 1
      <4>1. g[n + 1] = step[<<f[n], n + 1>>] /\ g[n] = f[n] /\ i - 1 = n
        BY <3>1
      <4> QED
        BY <3>1, <4>1
    <3>2. CASE i \in 1 .. n
      <4>1. g[i] = f[i] /\ g[i - 1] = f[i - 1]
        BY <3>2
      <4> QED
        BY <2>1, <3>2, <4>1
    <3> QED
      BY <3>1, <3>2
  <2>5. Iterates(g, base, step, n + 1)
    BY <2>3, <2>4
  <2> HIDE DEF Iterates, g
  <2> QED
    BY <2>2, <2>5
<1>3. T = Nat
  <2>1. T \in SUBSET Nat
    OBVIOUS
  <2> HIDE DEF T
  <2> QED
    BY <1>1, <1>2, <2>1, SetInduction
<1> QED
  BY <1>3

\* What holds of a set when it holds of the set with any one element taken
\* away, holds of all subsets of a finite set.
LEMMA SizeInduction ==
    ASSUME NEW S, IsFiniteSet(S), NEW T,
           \A s \in SUBSET S : (\A z \in s : s \ {z} \in T) => s \in T
    PROVE  SUBSET S \subseteq T
<1> DEFINE N == {m \in Nat : \A s \in SUBSET S : Cardinality(s) = m => s \in T}
<1>0. \A s \in SUBSET S : IsFiniteSet(s) /\ Cardinality(s) \in Nat /\ (Cardinality(s) = 0 <=> s = {})
  BY FS_Subset, FS_CardinalityType, FS_EmptySet
<1>1. 0 \in N
  BY <1>0
<1>2. ASSUME NEW m \in N
      PROVE  m + 1 \in N
  <2> SUFFICES ASSUME NEW s \in SUBSET S, Cardinality(s) = m + 1
               PROVE  s \in T
    OBVIOUS
  <2>1. ASSUME NEW z \in s
        PROVE  s \ {z} \in T
    <3>1. IsFiniteSet(s) /\ Cardinality(s) = m + 1 /\ m \in Nat /\ s \ {z} \in SUBSET S
      BY <1>0
    <3> HIDE DEF N
    <3>2. Cardinality(s \ {z}) = Cardinality(s) - 1
      BY <3>1, FS_RemoveElement, Zenon
    <3>3. Cardinality(s \ {z}) = m
      BY <3>1, <3>2
    <3> QED
      BY <3>1, <3>3 DEF N
  <2> QED
    BY <2>1
<1> HIDE DEF N
<1>3. N = Nat
  <2>1. N \in SUBSET Nat
    BY DEF N
  <2> QED
    BY <1>1, <1>2, <2>1, SetInduction
<1> QED
  BY <1>0, <1>3 DEF N

\* A finite set of naturals that is not empty has a greatest element.
LEMMA FiniteMax ==
    ASSUME NEW S \in SUBSET Nat, IsFiniteSet(S), S # {}
    PROVE  Max(S) \in S /\ \A x \in S : x <= Max(S)
<1> DEFINE T == {s \in SUBSET S : s # {} => \E m \in s : \A x \in s : x <= m}
<1>1. ASSUME NEW s \in SUBSET S, \A z \in s : s \ {z} \in T
      PROVE  s \in T
  <2> SUFFICES ASSUME NEW z \in s
               PROVE  \E m \in s : \A x \in s : x <= m
    OBVIOUS
  <2>1. CASE s = {z}
    BY <2>1
  <2>2. CASE s # {z}
    <3>1. PICK m \in s \ {z} : \A x \in s \ {z} : x <= m
      BY <1>1, <2>2
    <3>2. m \in Nat /\ z \in Nat /\ \A x \in s : x \in Nat
      OBVIOUS
    <3>3. CASE z <= m
      BY <3>1, <3>3
    <3>4. CASE m < z
      <4>1. \A x \in s : x <= z
        BY <3>1, <3>2, <3>4
      <4> QED
        BY <4>1
    <3> QED
      BY <3>2, <3>3, <3>4
  <2> QED
    BY <2>1, <2>2
<1> HIDE DEF T
<1>2. SUBSET S \subseteq T
  BY <1>1, SizeInduction
<1>3. S \in T
  BY <1>2
<1>4. PICK m \in S : \A x \in S : x <= m
  BY <1>3 DEF T
<1> QED
  BY <1>4 DEF Max
=============================================================================
