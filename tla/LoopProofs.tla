----------------------------- MODULE LoopProofs ------------------------------
(***************************************************************************)
(* Proofs about CompactionLoop: the tiers never lose a table or hold one   *)
(* twice, whatever is flushed while a merge runs, and nothing is compacted *)
(* behind a closed engine.                                                 *)
(***************************************************************************)
EXTENDS CompactionLoopProps, OperatorProofs

-----------------------------------------------------------------------------
(* Sums over finite sets.  FoldSet picks the elements of its set one by    *)
(* one; what it returns does not depend on the picks.                      *)

Picked(s) == CHOOSE x \in s : TRUE

SumOf(f, S) == FoldSet(LAMBDA t, n : n + f[t], 0, S)

\* g has the sums of f over the sets in D, as FoldSet computes them.
Sums(g, f, D) ==
    \A s \in D : g[s] = IF s = {} THEN 0 ELSE g[s \ {Picked(s)}] + f[Picked(s)]

\* What may be said of sets of at most n elements, for every n.
UpTo(S, n) == {s \in SUBSET S : Cardinality(s) <= n}

\* The pick of a set is one of its elements, and taking it away leaves less.
LEMMA PickedRest ==
    ASSUME NEW S, IsFiniteSet(S), NEW s \in SUBSET S, s # {}
    PROVE  /\ Picked(s) \in s /\ IsFiniteSet(s) /\ s \ {Picked(s)} \in SUBSET S
           /\ Cardinality(s) \in Nat \ {0}
           /\ Cardinality(s \ {Picked(s)}) = Cardinality(s) - 1
<1>1. Picked(s) \in s
  BY DEF Picked
<1>2. IsFiniteSet(s)
  BY FS_Subset
<1>3. Cardinality(s) \in Nat /\ Cardinality(s) # 0
  BY <1>2, FS_CardinalityType, FS_EmptySet
<1>4. Cardinality(s \ {Picked(s)}) = Cardinality(s) - 1
  BY <1>1, <1>2, FS_RemoveElement
<1> QED
  BY <1>1, <1>2, <1>3, <1>4

\* There are sums, one set size after the other.
LEMMA SumsExist ==
    ASSUME NEW S, IsFiniteSet(S), NEW f, \A x \in S : f[x] \in Nat, NEW n \in Nat
    PROVE  \E g \in [UpTo(S, n) -> Nat] : Sums(g, f, UpTo(S, n))
<1> DEFINE T == {m \in Nat : \E g \in [UpTo(S, m) -> Nat] : Sums(g, f, UpTo(S, m))}
<1>0. \A s \in SUBSET S : IsFiniteSet(s) /\ Cardinality(s) \in Nat /\ (Cardinality(s) = 0 <=> s = {})
  BY FS_Subset, FS_CardinalityType, FS_EmptySet
<1>1. 0 \in T
  <2> DEFINE g == [s \in UpTo(S, 0) |-> 0]
  <2>1. UpTo(S, 0) = {{}}
    BY <1>0 DEF UpTo
  <2>2. g \in [UpTo(S, 0) -> Nat] /\ Sums(g, f, UpTo(S, 0))
    BY <2>1 DEF Sums
  <2> HIDE DEF g
  <2> QED
    BY <2>2
<1>2. ASSUME NEW m \in T
      PROVE  m + 1 \in T
  <2>1. PICK g \in [UpTo(S, m) -> Nat] : Sums(g, f, UpTo(S, m))
    OBVIOUS
  <2> DEFINE h == [s \in UpTo(S, m + 1) |-> IF s = {} THEN 0
                                            ELSE g[s \ {Picked(s)}] + f[Picked(s)]]
  <2>2. ASSUME NEW s \in UpTo(S, m + 1), s # {}
        PROVE  s \ {Picked(s)} \in UpTo(S, m) /\ f[Picked(s)] \in Nat
    <3>1. s \in SUBSET S /\ Cardinality(s) <= m + 1
      BY DEF UpTo
    <3>2. /\ Picked(s) \in s /\ s \ {Picked(s)} \in SUBSET S /\ Cardinality(s) \in Nat
          /\ Cardinality(s \ {Picked(s)}) = Cardinality(s) - 1
      BY <2>2, <3>1, PickedRest
    <3>3. Cardinality(s \ {Picked(s)}) <= m
      BY <3>1, <3>2
    <3> QED
      BY <3>1, <3>2, <3>3 DEF UpTo
  <2>3. h \in [UpTo(S, m + 1) -> Nat]
    BY <2>1, <2>2
  <2>4. UpTo(S, m) \subseteq UpTo(S, m + 1)
    BY <1>0 DEF UpTo
  <2>5. ASSUME NEW s \in UpTo(S, m)
        PROVE  h[s] = g[s]
    BY <2>1, <2>4, <2>5 DEF Sums
  <2>6. Sums(h, f, UpTo(S, m + 1))
    <3> SUFFICES ASSUME NEW s \in UpTo(S, m + 1), s # {}
                 PROVE  h[s] = h[s \ {Picked(s)}] + f[Picked(s)]
      BY DEF Sums
    <3>1. h[s] = g[s \ {Picked(s)}] + f[Picked(s)]
      OBVIOUS
    <3> QED
      BY <3>1, <2>2, <2>5
  <2> HIDE DEF h
  <2> QED
    BY <2>3, <2>6
<1> HIDE DEF T
<1>3. T = Nat
  <2>1. T \in SUBSET Nat
    BY DEF T
  <2> QED
    BY <1>1, <1>2, <2>1, SetInduction
<1> QED
  BY <1>3 DEF T

\* Sums are unique.
LEMMA SumsAgree ==
    ASSUME NEW S, IsFiniteSet(S), NEW f, NEW g, NEW h, Sums(g, f, SUBSET S), Sums(h, f, SUBSET S)
    PROVE  \A s \in SUBSET S : g[s] = h[s]
<1> DEFINE T == {m \in Nat : \A s \in SUBSET S : Cardinality(s) = m => g[s] = h[s]}
<1>0. \A s \in SUBSET S : IsFiniteSet(s) /\ Cardinality(s) \in Nat /\ (Cardinality(s) = 0 <=> s = {})
  BY FS_Subset, FS_CardinalityType, FS_EmptySet
<1>1. 0 \in T
  BY <1>0 DEF Sums
<1>2. ASSUME NEW m \in T
      PROVE  m + 1 \in T
  <2> SUFFICES ASSUME NEW s \in SUBSET S, Cardinality(s) = m + 1
               PROVE  g[s] = h[s]
    OBVIOUS
  <2>1. s # {}
    BY <1>0
  <2>2. s \ {Picked(s)} \in SUBSET S /\ Cardinality(s \ {Picked(s)}) = m
    BY <2>1, PickedRest
  <2>3. g[s \ {Picked(s)}] = h[s \ {Picked(s)}]
    BY <2>2
  <2> QED
    BY <2>1, <2>3 DEF Sums
<1> HIDE DEF T
<1>3. T = Nat
  <2>1. T \in SUBSET Nat
    BY DEF T
  <2> QED
    BY <1>1, <1>2, <2>1, SetInduction
<1> QED
  BY <1>0, <1>3 DEF T

\* SumOf is one of the sums.
LEMMA SumOfIs ==
    ASSUME NEW S, IsFiniteSet(S), NEW f, \A x \in S : f[x] \in Nat
    PROVE  \E g \in [SUBSET S -> Nat] : Sums(g, f, SUBSET S) /\ SumOf(f, S) = g[S]
<1> DEFINE F(g) == g = [s \in SUBSET S |-> IF s = {} THEN 0
                                          ELSE g[s \ {Picked(s)}] + f[Picked(s)]]
<1>1. SumOf(f, S) = (CHOOSE g : F(g))[S]
  BY DEF SumOf, FoldSet, MapThenFoldSet, Picked
<1>2. Cardinality(S) \in Nat
  BY FS_CardinalityType
<1>3. UpTo(S, Cardinality(S)) = SUBSET S
  BY FS_Subset DEF UpTo
<1>4. PICK g \in [SUBSET S -> Nat] : Sums(g, f, SUBSET S)
  <2> DEFINE n == Cardinality(S)
  <2> HIDE DEF n
  <2>1. \E g \in [UpTo(S, n) -> Nat] : Sums(g, f, UpTo(S, n))
    BY <1>2, SumsExist DEF n
  <2> QED
    BY <1>3, <2>1 DEF n
<1>5. F(g)
  BY <1>4 DEF Sums
<1> HIDE DEF F
<1>6. F(CHOOSE h : F(h))
  BY <1>5, Zenon
<1> DEFINE h == CHOOSE h : F(h)
<1>7. Sums(h, f, SUBSET S)
  <2> HIDE DEF h
  <2>1. F(h)
    BY <1>6 DEF h
  <2>2. h = [s \in SUBSET S |-> IF s = {} THEN 0 ELSE h[s \ {Picked(s)}] + f[Picked(s)]]
    BY <2>1 DEF F
  <2> QED
    BY <2>2 DEF Sums
<1> HIDE DEF h
<1>8. h[S] = g[S]
  BY <1>4, <1>7, SumsAgree
<1> QED
  BY <1>1, <1>4, <1>8 DEF h

\* What SumOf returns: of nothing 0, of a set what its pick and the rest give.
LEMMA SumOfSteps ==
    ASSUME NEW S, IsFiniteSet(S), NEW f, \A x \in S : f[x] \in Nat
    PROVE  /\ SumOf(f, {}) = 0
           /\ \A s \in SUBSET S : SumOf(f, s) \in Nat
           /\ \A s \in SUBSET S : s # {} =>
                SumOf(f, s) = SumOf(f, s \ {Picked(s)}) + f[Picked(s)]
<1>1. PICK g \in [SUBSET S -> Nat] : Sums(g, f, SUBSET S)
  BY SumOfIs
<1>2. ASSUME NEW s \in SUBSET S
      PROVE  SumOf(f, s) = g[s]
  <2>1. IsFiniteSet(s) /\ \A x \in s : f[x] \in Nat
    BY FS_Subset
  <2>2. PICK h \in [SUBSET s -> Nat] : Sums(h, f, SUBSET s) /\ SumOf(f, s) = h[s]
    BY <2>1, SumOfIs
  <2>3. Sums(g, f, SUBSET s)
    BY <1>1 DEF Sums
  <2>4. g[s] = h[s]
    BY <2>1, <2>2, <2>3, SumsAgree
  <2> QED
    BY <2>2, <2>4
<1>3. SumOf(f, {}) = 0
  BY <1>1, <1>2 DEF Sums
<1>4. ASSUME NEW s \in SUBSET S, s # {}
      PROVE  SumOf(f, s) = SumOf(f, s \ {Picked(s)}) + f[Picked(s)]
  <2>1. s \ {Picked(s)} \in SUBSET S
    OBVIOUS
  <2> QED
    BY <1>1, <1>2, <1>4, <2>1 DEF Sums
<1>5. \A s \in SUBSET S : SumOf(f, s) \in Nat
  BY <1>1, <1>2
<1> QED
  BY <1>3, <1>4, <1>5

\* Any element may be the first to be added.
LEMMA SumOfRemove ==
    ASSUME NEW S, IsFiniteSet(S), NEW f, \A x \in S : f[x] \in Nat, NEW y \in S
    PROVE  SumOf(f, S) = SumOf(f, S \ {y}) + f[y]
<1> DEFINE T == {s \in SUBSET S : \A z \in s : SumOf(f, s) = SumOf(f, s \ {z}) + f[z]}
<1>0. /\ \A s \in SUBSET S : SumOf(f, s) \in Nat
      /\ \A s \in SUBSET S : s # {} => SumOf(f, s) = SumOf(f, s \ {Picked(s)}) + f[Picked(s)]
  BY SumOfSteps
<1>1. ASSUME NEW s \in SUBSET S, \A z \in s : s \ {z} \in T
      PROVE  s \in T
  <2> SUFFICES ASSUME NEW z \in s
               PROVE  SumOf(f, s) = SumOf(f, s \ {z}) + f[z]
    OBVIOUS
  <2> DEFINE p == Picked(s)
  <2>1. p \in s
    BY DEF Picked
  <2>2. SumOf(f, s) = SumOf(f, s \ {p}) + f[p]
    BY <1>0
  <2> HIDE DEF p
  <2>3. CASE z = p
    BY <2>2, <2>3
  <2>4. CASE z # p
    <3>1. SumOf(f, s \ {p}) = SumOf(f, (s \ {p}) \ {z}) + f[z]
      BY <1>1, <2>1, <2>4
    <3>2. SumOf(f, s \ {z}) = SumOf(f, (s \ {z}) \ {p}) + f[p]
      BY <1>1, <2>1, <2>4
    <3>3. (s \ {p}) \ {z} = (s \ {z}) \ {p}
      OBVIOUS
    <3>4. /\ SumOf(f, (s \ {z}) \ {p}) \in Nat /\ f[p] \in Nat /\ f[z] \in Nat
      BY <1>0, <2>1
    <3> QED
      BY <2>2, <3>1, <3>2, <3>3, <3>4
  <2> QED
    BY <2>3, <2>4
<1> HIDE DEF T
<1>2. SUBSET S \subseteq T
  BY <1>1, SizeInduction
<1>3. S \in T
  BY <1>2
<1> QED
  BY <1>3 DEF T

\* Only the values over the set count.
LEMMA SumOfEqual ==
    ASSUME NEW S, IsFiniteSet(S), NEW f, NEW g, \A x \in S : f[x] \in Nat /\ g[x] = f[x]
    PROVE  SumOf(g, S) = SumOf(f, S)
<1> DEFINE T == {s \in SUBSET S : SumOf(g, s) = SumOf(f, s)}
<1>0. /\ SumOf(f, {}) = 0 /\ SumOf(g, {}) = 0
      /\ \A s \in SUBSET S : IsFiniteSet(s)
  BY SumOfSteps, FS_Subset
<1>1. ASSUME NEW s \in SUBSET S, \A z \in s : s \ {z} \in T
      PROVE  s \in T
  <2>1. CASE s = {}
    BY <1>0, <2>1
  <2>2. CASE s # {}
    <3>1. PICK z \in s : TRUE
      BY <2>2
    <3>2. /\ IsFiniteSet(s)
          /\ \A x \in s : f[x] \in Nat
          /\ \A x \in s : g[x] \in Nat
      BY <1>0
    <3>3. SumOf(f, s) = SumOf(f, s \ {z}) + f[z]
      BY <3>1, <3>2, SumOfRemove
    <3>4. SumOf(g, s) = SumOf(g, s \ {z}) + g[z]
      BY <3>1, <3>2, SumOfRemove
    <3>5. SumOf(g, s \ {z}) = SumOf(f, s \ {z}) /\ g[z] = f[z]
      BY <1>1
    <3> QED
      BY <3>3, <3>4, <3>5
  <2> QED
    BY <2>1, <2>2
<1> HIDE DEF T
<1>2. SUBSET S \subseteq T
  BY <1>1, SizeInduction
<1>3. S \in T
  BY <1>2
<1> QED
  BY <1>3 DEF T

\* The sum over a set is that over a part of it and that over the rest.
LEMMA SumOfSplit ==
    ASSUME NEW S, IsFiniteSet(S), NEW f, \A x \in S : f[x] \in Nat, NEW part \in SUBSET S
    PROVE  SumOf(f, S) = SumOf(f, S \ part) + SumOf(f, part)
<1> DEFINE T == {s \in SUBSET S : SumOf(f, s) = SumOf(f, s \ part) + SumOf(f, s \cap part)}
<1>0. /\ SumOf(f, {}) = 0
      /\ \A s \in SUBSET S : IsFiniteSet(s) /\ SumOf(f, s) \in Nat
  BY SumOfSteps, FS_Subset
<1>1. ASSUME NEW s \in SUBSET S, \A z \in s : s \ {z} \in T
      PROVE  s \in T
  <2>1. CASE s = {}
    <3>1. s \ part = {} /\ s \cap part = {}
      BY <2>1
    <3>2. SumOf(f, s) = 0 /\ SumOf(f, s \ part) = 0 /\ SumOf(f, s \cap part) = 0
      BY <1>0, <2>1, <3>1, Zenon
    <3>3. SumOf(f, s) = SumOf(f, s \ part) + SumOf(f, s \cap part)
      BY <3>2
    <3> QED
      BY <3>3
  <2>2. CASE s # {}
    <3>1. PICK z \in s : TRUE
      BY <2>2
    <3>2. SumOf(f, s) = SumOf(f, s \ {z}) + f[z]
      BY <1>0, SumOfRemove
    <3>3. SumOf(f, s \ {z}) = SumOf(f, (s \ {z}) \ part) + SumOf(f, (s \ {z}) \cap part)
      BY <1>1
    <3>4. CASE z \in part
      <4>1. SumOf(f, s \cap part) = SumOf(f, (s \cap part) \ {z}) + f[z]
        BY <1>0, <3>4, SumOfRemove
      <4>2. (s \cap part) \ {z} = (s \ {z}) \cap part /\ (s \ {z}) \ part = s \ part
        BY <3>4
      <4>3. /\ SumOf(f, (s \ {z}) \cap part) \in Nat /\ SumOf(f, s \ part) \in Nat
            /\ f[z] \in Nat
        BY <1>0
      <4> QED
        BY <3>2, <3>3, <4>1, <4>2, <4>3
    <3>5. CASE z \notin part
      <4>1. SumOf(f, s \ part) = SumOf(f, (s \ part) \ {z}) + f[z]
        BY <1>0, <3>5, SumOfRemove
      <4>2. (s \ part) \ {z} = (s \ {z}) \ part /\ (s \ {z}) \cap part = s \cap part
        BY <3>5
      <4>3. /\ SumOf(f, (s \ {z}) \ part) \in Nat /\ SumOf(f, s \cap part) \in Nat
            /\ f[z] \in Nat
        BY <1>0
      <4>4. SumOf(f, s \ part) = SumOf(f, (s \ {z}) \ part) + f[z]
        BY <4>1, <4>2
      <4>5. SumOf(f, s \cap part) = SumOf(f, (s \ {z}) \cap part)
        BY <4>2
      <4>6. SumOf(f, s) = SumOf(f, s \ part) + SumOf(f, s \cap part)
        BY <3>2, <3>3, <4>3, <4>4, <4>5
      <4> QED
        BY <4>6
    <3> QED
      BY <3>4, <3>5
  <2> QED
    BY <2>1, <2>2
<1> HIDE DEF T
<1>2. SUBSET S \subseteq T
  BY <1>1, SizeInduction
<1>3. S \in T /\ S \cap part = part
  BY <1>2
<1> QED
  BY <1>3 DEF T

-----------------------------------------------------------------------------
LoopTypes ==
    /\ strategy \in Strategies
    /\ l0 \in Seq(Table) /\ levels \in [1 .. MaxLevels -> Seq(Table)]
    /\ size \in [Table -> Nat] /\ tick \in BOOLEAN
    /\ loop \in {"off", "wait", "drain", "merge", "exited"}
    /\ task # NoTask <=> loop = "merge"
    /\ loop = "merge" => task \in Task(Table)
    /\ close \in {"open", "stopping", "closed"}

\* The tables of a tier.
TierOf(n) == IF n = 0 THEN l0 ELSE levels[n]

\* No table occurs twice, and the tiers are the tables there are.
Placed ==
    /\ \A n \in 0 .. MaxLevels : IsInjective(TierOf(n))
    /\ \A m, n \in 0 .. MaxLevels : m # n => IdsIn(TierOf(m)) \cap IdsIn(TierOf(n)) = {}
    /\ TableIds = {t \in Table : size[t] > 0}

\* The layout may have grown since the task was picked, but only in L0.
TaskFits ==
    loop = "merge" =>
      LET u == task.upperLevel
          l == task.lowerLevel IN
      /\ InputIDs(task) # <<>>
      /\ u \in 0 .. MaxLevels - 1 /\ l \in 1 .. MaxLevels /\ u < l
      /\ IdsIn(task.upperIDs) \subseteq IdsIn(TierOf(u))
      /\ u > 0 => task.upperIDs = levels[u]
      /\ strategy = "full" =>
           /\ u = 0 /\ l = MaxLevels
           /\ IdsIn(task.lowerIDs) = UNION {IdsIn(levels[i]) : i \in 1 .. MaxLevels}
      /\ strategy # "full" => l = u + 1 /\ task.lowerIDs = levels[l]

\* Together the tables are never larger than what flushes were let in for.
Bounded == Total(TableIds) <= MaxSize

\* The loop has stopped, or never began, when the files are closed.
Quiet == close = "closed" => loop \in {"off", "exited"}

-----------------------------------------------------------------------------
(* Sequences without repetition. *)

\* A sequence without repetition is as long as it has ids.
LEMMA InjectiveCount ==
    ASSUME NEW S, NEW s \in Seq(S)
    PROVE  /\ IsFiniteSet(IdsIn(s))
           /\ IsInjective(s) => Cardinality(IdsIn(s)) = Len(s)
<1>1. Len(s) \in Nat /\ s \in [1 .. Len(s) -> S] /\ DOMAIN s = 1 .. Len(s)
  OBVIOUS
<1>2. s \in Surjection(1 .. Len(s), IdsIn(s))
  BY <1>1 DEF Surjection, IdsIn
<1>3. IsFiniteSet(1 .. Len(s)) /\ Cardinality(1 .. Len(s)) = Len(s)
  BY <1>1, FS_Interval
<1>4. IsInjective(s) => s \in Injection(1 .. Len(s), IdsIn(s))
  BY <1>1, <1>2 DEF Surjection, Injection
<1> QED
  BY <1>2, <1>3, <1>4, FS_Surjection

\* Joining two such sequences that share no id gives another.
LEMMA InjectiveConcat ==
    ASSUME NEW S, NEW s \in Seq(S), NEW t \in Seq(S), IsInjective(s), IsInjective(t),
           IdsIn(s) \cap IdsIn(t) = {}
    PROVE  IsInjective(s \o t)
<1> SUFFICES ASSUME NEW i \in 1 .. Len(s) + Len(t), NEW j \in 1 .. Len(s) + Len(t),
                    (s \o t)[i] = (s \o t)[j]
             PROVE  i = j
  BY DEF IsInjective
<1>1. /\ Len(s) \in Nat /\ Len(t) \in Nat
      /\ \A n \in 1 .. Len(s) + Len(t) :
           (s \o t)[n] = IF n <= Len(s) THEN s[n] ELSE t[n - Len(s)]
  OBVIOUS
<1>2. /\ \A n \in 1 .. Len(s) : n \in DOMAIN s /\ s[n] \in IdsIn(s)
      /\ \A n \in 1 .. Len(t) : n \in DOMAIN t /\ t[n] \in IdsIn(t)
  BY DEF IdsIn
<1>3. CASE i <= Len(s) /\ j <= Len(s)
  <2>1. i \in 1 .. Len(s) /\ j \in 1 .. Len(s) /\ s[i] = s[j]
    BY <1>1, <1>3
  <2> QED
    BY <1>2, <2>1 DEF IsInjective
<1>4. CASE ~ (i <= Len(s)) /\ ~ (j <= Len(s))
  <2>1. /\ i - Len(s) \in 1 .. Len(t) /\ j - Len(s) \in 1 .. Len(t)
        /\ t[i - Len(s)] = t[j - Len(s)]
    BY <1>1, <1>4
  <2>2. i - Len(s) = j - Len(s)
    BY <1>2, <2>1 DEF IsInjective
  <2> QED
    BY <1>1, <2>2
<1>5. CASE i <= Len(s) /\ ~ (j <= Len(s))
  <2>1. i \in 1 .. Len(s) /\ j - Len(s) \in 1 .. Len(t) /\ s[i] = t[j - Len(s)]
    BY <1>1, <1>5
  <2> QED
    BY <1>2, <2>1
<1>6. CASE ~ (i <= Len(s)) /\ j <= Len(s)
  <2>1. j \in 1 .. Len(s) /\ i - Len(s) \in 1 .. Len(t) /\ s[j] = t[i - Len(s)]
    BY <1>1, <1>6
  <2> QED
    BY <1>2, <2>1
<1> QED
  BY <1>3, <1>4, <1>5, <1>6

\* RemoveIDs repeats nothing that was not repeated.
LEMMA InjectiveRemove ==
    ASSUME NEW S, NEW src \in Seq(S), NEW drop, IsInjective(src)
    PROVE  IsInjective(RemoveIDs(src, drop))
<1> DEFINE r == RemoveIDs(src, drop)
<1>1. r \in Seq(S) /\ InOrder(r, src)
  BY RemoveIDsResult
<1> HIDE DEF r
<1>2. ASSUME NEW i \in 1 .. Len(r), NEW j \in 1 .. Len(r), i < j
      PROVE  r[i] # r[j]
  <2>1. PICK p \in 1 .. Len(src), q \in 1 .. Len(src) : p < q /\ r[i] = src[p] /\ r[j] = src[q]
    BY <1>1, <1>2 DEF InOrder
  <2>2. p \in DOMAIN src /\ q \in DOMAIN src /\ p # q
    BY <2>1
  <2> QED
    BY <2>1, <2>2 DEF IsInjective
<1>3. DOMAIN r = 1 .. Len(r) /\ Len(r) \in Nat
  BY <1>1
<1>4. IsInjective(r)
  <2> SUFFICES ASSUME NEW i \in 1 .. Len(r), NEW j \in 1 .. Len(r), r[i] = r[j], i # j
               PROVE  FALSE
    BY <1>3 DEF IsInjective
  <2>1. i < j \/ j < i
    BY <1>3
  <2> QED
    BY <1>2, <2>1
<1> QED
  BY <1>4 DEF r

\* The levels one after the other repeat nothing.
LEMMA InjectiveFlatten ==
    ASSUME NEW S, NEW seqs \in Seq(Seq(S)), Len(seqs) > 0,
           \A n \in 1 .. Len(seqs) : IsInjective(seqs[n]),
           \A m, n \in 1 .. Len(seqs) : m # n => IdsIn(seqs[m]) \cap IdsIn(seqs[n]) = {}
    PROVE  IsInjective(FlattenSeq(seqs))
<1>1. PICK flat \in [1 .. Len(seqs) -> Seq(S)] : Joins(flat, seqs)
  BY FlattenSeqUnfolds
<1>0. Len(seqs) \in Nat /\ \A n \in 1 .. Len(seqs) : seqs[n] \in Seq(S)
  OBVIOUS
<1> DEFINE Good(n) == /\ IsInjective(flat[n])
                      /\ \A x \in IdsIn(flat[n]) : \E m \in 1 .. n : x \in IdsIn(seqs[m])
           T == {n \in Nat : n + 1 \in 1 .. Len(seqs) => Good(n + 1)}
<1>2. 0 \in T
  <2>1. flat[1] = seqs[1] /\ 1 \in 1 .. Len(seqs) /\ 0 + 1 = 1
    BY <1>0, <1>1 DEF Joins
  <2>2. Good(1)
    BY <2>1
  <2> QED
    BY <2>1, <2>2
<1>3. ASSUME NEW n \in T
      PROVE  n + 1 \in T
  <2> SUFFICES ASSUME (n + 1) + 1 \in 1 .. Len(seqs)
               PROVE  Good((n + 1) + 1)
    OBVIOUS
  <2> DEFINE k == (n + 1) + 1
  <2>1. /\ k \in 2 .. Len(seqs) /\ k - 1 = n + 1 /\ n + 1 \in 1 .. Len(seqs)
        /\ k \in 1 .. Len(seqs)
        /\ \A m \in 1 .. n + 1 : m \in 1 .. k /\ m \in 1 .. Len(seqs) /\ m # k
    BY <1>0
  <2>2. Good(n + 1)
    BY <2>1
  <2> HIDE DEF k, T
  <2>3. flat[k] = flat[k - 1] \o seqs[k]
    BY <1>1, <2>1 DEF Joins
  <2>4. flat[n + 1] \in Seq(S) /\ seqs[k] \in Seq(S)
    BY <1>0, <1>1, <2>1
  <2>5. IdsIn(flat[n + 1]) \cap IdsIn(seqs[k]) = {}
    BY <2>1, <2>2
  <2>6. IsInjective(flat[k])
    BY <2>1, <2>2, <2>3, <2>4, <2>5, InjectiveConcat
  <2>7. IdsIn(flat[k]) = IdsIn(flat[n + 1]) \cup IdsIn(seqs[k])
    BY <2>1, <2>3, <2>4, IdsInConcat
  <2>8. \A x \in IdsIn(flat[k]) : \E m \in 1 .. k : x \in IdsIn(seqs[m])
    BY <2>1, <2>2, <2>7
  <2> QED
    BY <2>6, <2>8 DEF k
<1> HIDE DEF T
<1>4. T = Nat
  <2>1. T \in SUBSET Nat
    BY DEF T
  <2> QED
    BY <1>2, <1>3, <2>1, SetInduction
<1>5. Len(seqs) - 1 \in T /\ (Len(seqs) - 1) + 1 = Len(seqs) /\ Len(seqs) \in 1 .. Len(seqs)
  BY <1>0, <1>4
<1>6. Good(Len(seqs))
  BY <1>5 DEF T
<1> QED
  BY <1>1, <1>6 DEF Joins

-----------------------------------------------------------------------------
(* The tiers and what a merge does to them. *)

\* The tables are those of the tiers, all of them in one sequence.
LEMMA TableIdsOf ==
    ASSUME LoopTypes
    PROVE  /\ TableIds = UNION {IdsIn(TierOf(n)) : n \in 0 .. MaxLevels}
           /\ \A n \in 0 .. MaxLevels : TierOf(n) \in Seq(Table)
           /\ TableIds = IdsIn(l0 \o FlattenSeq(levels))
           /\ FlattenSeq(levels) \in Seq(Table)
           /\ TableIds \subseteq Table /\ IsFiniteSet(TableIds)
<1>0. MaxLevels \in Nat \ {0} /\ levels \in Seq(Seq(Table)) /\ Len(levels) = MaxLevels
  BY ControllerAssumption DEF LoopTypes
<1>1. TableIds = UNION {IdsIn(TierOf(n)) : n \in 0 .. MaxLevels}
  <2>1. \A n \in 0 .. MaxLevels : n = 0 \/ n \in 1 .. MaxLevels
    BY <1>0
  <2>2. \A n \in 1 .. MaxLevels : n \in 0 .. MaxLevels /\ n # 0
    BY <1>0
  <2>3. 0 \in 0 .. MaxLevels
    BY <1>0
  <2>4. ASSUME NEW t \in TableIds
        PROVE  \E n \in 0 .. MaxLevels : t \in IdsIn(TierOf(n))
    BY <2>2, <2>3 DEF TableIds, TierOf
  <2>5. ASSUME NEW n \in 0 .. MaxLevels, NEW t \in IdsIn(TierOf(n))
        PROVE  t \in TableIds
    BY <2>1 DEF TableIds, TierOf
  <2> QED
    BY <2>4, <2>5
<1>2. \A n \in 0 .. MaxLevels : TierOf(n) \in Seq(Table)
  BY <1>0 DEF LoopTypes, TierOf
<1>3. /\ FlattenSeq(levels) \in Seq(Table)
      /\ IdsIn(FlattenSeq(levels)) = UNION {IdsIn(levels[i]) : i \in 1 .. MaxLevels}
  BY <1>0, FlattenSeqResult
<1>4. l0 \in Seq(Table)
  BY DEF LoopTypes
<1>5. TableIds = IdsIn(l0 \o FlattenSeq(levels))
  BY <1>3, <1>4, IdsInConcat DEF TableIds
<1>6. l0 \o FlattenSeq(levels) \in Seq(Table)
  BY <1>3, <1>4
<1>7. TableIds \subseteq Table
  BY <1>5, <1>6, IdsInOf
<1>8. IsFiniteSet(TableIds)
  BY <1>5, <1>6, InjectiveCount
<1> QED
  BY <1>1, <1>2, <1>3, <1>5, <1>7, <1>8

\* What a merge takes are tables of the layout, among which is a least.
LEMMA InputsOf ==
    ASSUME LoopTypes, Placed, TaskFits, loop = "merge"
    PROVE  /\ IdsIn(InputIDs(task)) = IdsIn(task.upperIDs) \cup IdsIn(task.lowerIDs)
           /\ task.upperIDs \in Seq(Table) /\ task.lowerIDs \in Seq(Table)
           /\ IdsIn(InputIDs(task)) \subseteq TableIds
           /\ Min(IdsIn(InputIDs(task))) \in IdsIn(InputIDs(task))
<1> DEFINE inputs == IdsIn(InputIDs(task))
<1>1. task.upperIDs \in Seq(Table) /\ task.lowerIDs \in Seq(Table)
  BY DEF LoopTypes, Task
<1>2. inputs = IdsIn(task.upperIDs) \cup IdsIn(task.lowerIDs)
  BY <1>1, IdsInConcat DEF InputIDs
<1>3. task.upperLevel \in 0 .. MaxLevels /\ IdsIn(task.upperIDs) \subseteq TableIds
  <2>1. task.upperLevel \in 0 .. MaxLevels /\ IdsIn(task.upperIDs) \subseteq IdsIn(TierOf(task.upperLevel))
    BY ControllerAssumption DEF TaskFits
  <2> QED
    BY <2>1, TableIdsOf
<1>4. IdsIn(task.lowerIDs) \subseteq TableIds
  <2>1. CASE strategy = "full"
    BY <2>1 DEF TaskFits, TableIds
  <2>2. CASE strategy # "full"
    BY <2>2 DEF TaskFits, TableIds
  <2> QED
    BY <2>1, <2>2
<1>5. inputs # {} /\ inputs \subseteq Nat
  <2>1. InputIDs(task) \in Seq(Table) /\ InputIDs(task) # <<>>
    BY <1>1 DEF InputIDs, TaskFits
  <2>2. Len(InputIDs(task)) \in Nat \ {0}
    BY <2>1
  <2>3. 1 \in DOMAIN InputIDs(task)
    BY <2>1, <2>2
  <2>4. inputs # {}
    BY <2>3 DEF IdsIn
  <2> QED
    BY <1>2, <1>3, <1>4, <2>4, TableIdsOf, LoopAssumption
<1>6. Min(inputs) \in inputs
  <2> HIDE DEF inputs
  <2>1. \E n \in inputs : \A m \in inputs : n <= m
    BY <1>5, LeastNat
  <2> QED
    BY <2>1 DEF Min
<1> QED
  BY <1>1, <1>2, <1>3, <1>4, <1>6

\* A tier of the layout that installing a merge gives.
ResultTier(n, new) ==
    LET result == ApplyResult(strategy, l0, levels, task, new) IN
    IF n = 0 THEN result.l0 ELSE result.levels[n]

(***************************************************************************)
(* After a merge the lower level holds its output, and every other tier    *)
(* what it held but for the inputs.                                        *)
(***************************************************************************)
LEMMA TiersAfter ==
    ASSUME LoopTypes, Placed, TaskFits, loop = "merge", NEW new \in Seq(Table), IsInjective(new),
           NEW n \in 0 .. MaxLevels
    PROVE  /\ IsInjective(ResultTier(n, new))
           /\ IdsIn(ResultTier(n, new)) = IF n = task.lowerLevel THEN IdsIn(new)
                                         ELSE IdsIn(TierOf(n)) \ IdsIn(InputIDs(task))
<1> DEFINE result == ApplyResult(strategy, l0, levels, task, new)
           after  == IF n = 0 THEN result.l0 ELSE result.levels[n]
<1> SUFFICES /\ IsInjective(after)
             /\ IdsIn(after) = IF n = task.lowerLevel THEN IdsIn(new)
                               ELSE IdsIn(TierOf(n)) \ IdsIn(InputIDs(task))
  BY DEF ResultTier
<1> DEFINE u == task.upperLevel
           l == task.lowerLevel
           inputs == IdsIn(InputIDs(task))
<1>0. MaxLevels \in Nat \ {0} /\ (n # 0 => n \in 1 .. MaxLevels)
  BY ControllerAssumption
<1>1. /\ u \in 0 .. MaxLevels - 1 /\ l \in 1 .. MaxLevels /\ u < l
      /\ IdsIn(task.upperIDs) \subseteq IdsIn(TierOf(u))
      /\ u > 0 => task.upperIDs = levels[u]
  BY DEF TaskFits
<1>2. /\ inputs = IdsIn(task.upperIDs) \cup IdsIn(task.lowerIDs)
      /\ task.upperIDs \in Seq(Table)
  BY InputsOf
<1>3. /\ l0 \in Seq(Table) /\ IsInjective(l0) /\ TierOf(0) = l0
      /\ \A i \in 1 .. MaxLevels :
           levels[i] \in Seq(Table) /\ IsInjective(levels[i]) /\ TierOf(i) = levels[i]
  <2>1. 0 \in 0 .. MaxLevels /\ TierOf(0) = l0
    BY <1>0 DEF TierOf
  <2>2. \A i \in 1 .. MaxLevels : i \in 0 .. MaxLevels /\ TierOf(i) = levels[i]
    BY <1>0 DEF TierOf
  <2> QED
    BY <2>1, <2>2 DEF LoopTypes, Placed
<1>4. IsInjective(<<>>) /\ IdsIn(<<>>) = {}
  BY DEF IsInjective, IdsIn
<1>5. \A i \in 0 .. MaxLevels : i # n => IdsIn(TierOf(i)) \cap IdsIn(TierOf(n)) = {}
  BY DEF Placed
<1>6. CASE strategy = "full"
  <2>1. /\ u = 0 /\ l = MaxLevels
        /\ IdsIn(task.lowerIDs) = UNION {IdsIn(levels[i]) : i \in 1 .. MaxLevels}
    BY <1>6 DEF TaskFits
  <2>2. /\ result.l0 = RemoveIDs(l0, task.upperIDs)
        /\ \A i \in 1 .. MaxLevels : result.levels[i] = IF i = MaxLevels THEN new ELSE <<>>
    BY <1>6 DEF ApplyResult, FullResult
  <2>3. CASE n = 0
    <3>1. after = RemoveIDs(l0, task.upperIDs) /\ n # l
      BY <1>0, <2>1, <2>2, <2>3
    <3>2. IsInjective(after) /\ IdsIn(after) = IdsIn(l0) \ IdsIn(task.upperIDs)
      BY <1>3, <3>1, InjectiveRemove, RemoveIDsResult
    <3>3. IdsIn(l0) \cap IdsIn(task.lowerIDs) = {}
      BY <1>0, <1>3, <1>5, <2>1, <2>3
    <3> QED
      BY <1>2, <1>3, <2>3, <3>1, <3>2, <3>3
  <2>4. CASE n # 0 /\ n # l
    <3>1. after = <<>>
      BY <1>0, <2>1, <2>2, <2>4
    <3>2. IdsIn(TierOf(n)) \subseteq inputs
      BY <1>0, <1>2, <1>3, <2>1, <2>4
    <3> QED
      BY <1>4, <2>4, <3>1, <3>2
  <2>5. CASE n # 0 /\ n = l
    BY <1>0, <2>1, <2>2, <2>5
  <2> QED
    BY <2>3, <2>4, <2>5
<1>7. CASE strategy # "full"
  <2>1. l = u + 1 /\ task.lowerIDs = levels[l]
    BY <1>7 DEF TaskFits
  <2>2. /\ result.l0 = IF u = 0 THEN RemoveIDs(l0, task.upperIDs) ELSE l0
        /\ \A i \in 1 .. MaxLevels :
             result.levels[i] = IF i = l THEN new
                                ELSE IF i = u THEN RemoveIDs(levels[i], task.upperIDs)
                                ELSE levels[i]
    BY <1>7 DEF ApplyResult, LeveledResult
  <2>3. TierOf(l) = levels[l] /\ l \in 0 .. MaxLevels /\ u \in 0 .. MaxLevels
    BY <1>0, <1>1, <1>3
  <2>4. CASE n = l
    BY <1>0, <1>1, <2>2, <2>4
  <2>5. CASE n # l /\ n = u
    <3>1. after = RemoveIDs(TierOf(n), task.upperIDs)
      BY <1>0, <1>3, <2>2, <2>5
    <3>2. TierOf(n) \in Seq(Table) /\ IsInjective(TierOf(n))
      BY <1>0, <1>3
    <3>3. IsInjective(after) /\ IdsIn(after) = IdsIn(TierOf(n)) \ IdsIn(task.upperIDs)
      BY <3>1, <3>2, InjectiveRemove, RemoveIDsResult
    <3>4. IdsIn(TierOf(n)) \cap IdsIn(task.lowerIDs) = {}
      BY <1>5, <2>1, <2>3, <2>5
    <3> QED
      BY <1>2, <2>5, <3>3, <3>4
  <2>6. CASE n # l /\ n # u
    <3>1. after = TierOf(n)
      BY <1>0, <1>3, <2>2, <2>6
    <3>2. IsInjective(after)
      BY <1>0, <1>3, <3>1
    <3>3. IdsIn(TierOf(n)) \cap inputs = {}
      BY <1>1, <1>2, <1>5, <2>1, <2>3, <2>6
    <3> QED
      BY <2>6, <3>1, <3>2, <3>3
  <2> QED
    BY <2>4, <2>5, <2>6
<1> QED
  BY <1>6, <1>7

\* A merge ends with at most one new table, which has an id of its inputs and
\* is no larger than they are together.
LEMMA InstallEffect ==
    ASSUME LoopTypes, Placed, TaskFits, Install
    PROVE  LET inputs == IdsIn(InputIDs(task)) IN
           \E n \in Nat, new \in Seq(Table) :
             /\ loop = "merge" /\ task' = NoTask /\ UNCHANGED <<strategy, tick, close>>
             /\ n <= SumOf(size, inputs)
             /\ IsInjective(new) /\ IdsIn(new) = IF n = 0 THEN {} ELSE {Min(inputs)}
             /\ size' = [t \in Table |-> IF t \in IdsIn(new) THEN n
                                         ELSE IF t \in inputs THEN 0 ELSE size[t]]
             /\ l0' = ApplyResult(strategy, l0, levels, task, new).l0
             /\ levels' = ApplyResult(strategy, l0, levels, task, new).levels
<1> DEFINE inputs == IdsIn(InputIDs(task))
<1>1. loop = "merge"
  BY DEF Install
<1>2. inputs \subseteq TableIds /\ Min(inputs) \in inputs
  BY <1>1, InputsOf
<1>3. IsFiniteSet(inputs) /\ inputs \subseteq Table
  BY <1>2, TableIdsOf, FS_Subset
<1>4. SumOf(size, inputs) \in Nat
  <2>1. \A x \in inputs : size[x] \in Nat
    BY <1>3 DEF LoopTypes
  <2> HIDE DEF inputs
  <2> QED
    BY <1>3, <2>1, SumOfSteps
<1>5. Total(inputs) = SumOf(size, inputs)
  BY DEF Total, SumOf
<1> DEFINE made(n) == IF n = 0 THEN <<>> ELSE <<Min(inputs)>>
<1>6. PICK n \in 0 .. Total(inputs) :
        /\ size' = [t \in Table |-> IF t \in IdsIn(made(n)) THEN n
                                    ELSE IF t \in inputs THEN 0 ELSE size[t]]
        /\ l0' = ApplyResult(strategy, l0, levels, task, made(n)).l0
        /\ levels' = ApplyResult(strategy, l0, levels, task, made(n)).levels
  BY DEF Install
<1>7. n \in Nat /\ n <= SumOf(size, inputs)
  BY <1>4, <1>5
<1>8. made(n) \in Seq(Table)
  BY <1>2, <1>3
<1>9. IsInjective(made(n)) /\ IdsIn(made(n)) = IF n = 0 THEN {} ELSE {Min(inputs)}
  <2> HIDE DEF inputs
  <2>1. PICK m : m = Min(inputs)
    OBVIOUS
  <2>2. IsInjective(<<>>) /\ IdsIn(<<>>) = {} /\ IsInjective(<<m>>) /\ IdsIn(<<m>>) = {m}
    BY DEF IsInjective, IdsIn
  <2> QED
    BY <2>1, <2>2
<1>10. task' = NoTask /\ UNCHANGED <<strategy, tick, close>>
  BY DEF Install
<1> HIDE DEF made, inputs
<1>11. PICK new : new = made(n)
  OBVIOUS
<1> QED
  BY <1>1, <1>6, <1>7, <1>8, <1>9, <1>10, <1>11 DEF inputs

\* TableIdsOf as a formula, to be primed.
LEMMA TableIdsAre ==
    LoopTypes => /\ TableIds = UNION {IdsIn(TierOf(n)) : n \in 0 .. MaxLevels}
                 /\ IsFiniteSet(TableIds)
  BY TableIdsOf

\* TableIdsOf, after a step.
LEMMA TableIdsNext ==
    LoopTypes' => /\ TableIds' = UNION {IdsIn(TierOf(n)') : n \in 0 .. MaxLevels}
                  /\ IsFiniteSet(TableIds')
<1>1. (LoopTypes => /\ TableIds = UNION {IdsIn(TierOf(n)) : n \in 0 .. MaxLevels}
                    /\ IsFiniteSet(TableIds))'
  BY TableIdsAre, PTL
<1> QED
  BY <1>1

\* A merge keeps what the tiers promise.
LEMMA InstallKeeps ==
    ASSUME LoopTypes, Placed, TaskFits, Bounded, Install, loop' \in {"wait", "drain"}
    PROVE  LoopTypes' /\ Placed' /\ Bounded'
<1> DEFINE inputs == IdsIn(InputIDs(task))
<1>1. PICK n \in Nat, new \in Seq(Table) :
        /\ loop = "merge" /\ task' = NoTask /\ UNCHANGED <<strategy, tick, close>>
        /\ n <= SumOf(size, inputs)
        /\ IsInjective(new) /\ IdsIn(new) = IF n = 0 THEN {} ELSE {Min(inputs)}
        /\ size' = [t \in Table |-> IF t \in IdsIn(new) THEN n
                                    ELSE IF t \in inputs THEN 0 ELSE size[t]]
        /\ l0' = ApplyResult(strategy, l0, levels, task, new).l0
        /\ levels' = ApplyResult(strategy, l0, levels, task, new).levels
  BY InstallEffect
<1>2. inputs \subseteq TableIds /\ Min(inputs) \in inputs /\ TableIds \subseteq Table
      /\ IsFiniteSet(TableIds)
  BY <1>1, InputsOf, TableIdsOf
<1>3. LoopTypes'
  <2>1. l0' \in Seq(Table) /\ levels' \in [1 .. MaxLevels -> Seq(Table)]
    BY <1>1, ResultTypes DEF LoopTypes
  <2>2. size' \in [Table -> Nat]
    BY <1>1 DEF LoopTypes
  <2> QED
    BY <1>1, <2>1, <2>2 DEF LoopTypes
<1>4. ASSUME NEW k \in 0 .. MaxLevels
      PROVE  /\ IsInjective(TierOf(k)')
             /\ IdsIn(TierOf(k)') = IF k = task.lowerLevel THEN IdsIn(new)
                                    ELSE IdsIn(TierOf(k)) \ inputs
  <2>1. TierOf(k)' = ResultTier(k, new)
    BY <1>1 DEF TierOf, ResultTier
  <2>2. loop = "merge" /\ IsInjective(new)
    BY <1>1
  <2>3. /\ IsInjective(ResultTier(k, new))
        /\ IdsIn(ResultTier(k, new)) = IF k = task.lowerLevel THEN IdsIn(new)
                                      ELSE IdsIn(TierOf(k)) \ inputs
    BY <2>2, TiersAfter
  <2> QED
    BY <2>1, <2>3
<1>5. task.lowerLevel \in 0 .. MaxLevels
  BY <1>1, ControllerAssumption DEF TaskFits
<1>6. IdsIn(new) \subseteq inputs
  BY <1>1, <1>2
<1>7. IdsIn(TierOf(task.lowerLevel)) \subseteq inputs
  <2>1. /\ task.lowerLevel \in 1 .. MaxLevels
        /\ IdsIn(levels[task.lowerLevel]) \subseteq IdsIn(task.lowerIDs)
    BY <1>1 DEF TaskFits
  <2>2. IdsIn(task.lowerIDs) \subseteq inputs
    BY <1>1, InputsOf
  <2> QED
    BY <2>1, <2>2 DEF TierOf
<1>8. TableIds' = (TableIds \ inputs) \cup IdsIn(new)
  <2>1. TableIds = UNION {IdsIn(TierOf(k)) : k \in 0 .. MaxLevels}
    BY TableIdsOf
  <2>2. TableIds' = UNION {IdsIn(TierOf(k)') : k \in 0 .. MaxLevels}
    BY <1>3, TableIdsNext
  <2> HIDE DEF inputs
  <2>3. ASSUME NEW t \in TableIds'
        PROVE  t \in (TableIds \ inputs) \cup IdsIn(new)
    BY <1>4, <2>1, <2>2
  <2>4. ASSUME NEW t \in TableIds \ inputs
        PROVE  t \in TableIds'
    <3>1. PICK k \in 0 .. MaxLevels : t \in IdsIn(TierOf(k))
      BY <2>1
    <3> QED
      BY <1>4, <1>7, <2>2, <3>1
  <2>5. ASSUME NEW t \in IdsIn(new)
        PROVE  t \in TableIds'
    BY <1>4, <1>5, <2>2
  <2> QED
    BY <2>3, <2>4, <2>5
<1>9. Placed'
  <2>1. \A k \in 0 .. MaxLevels : IsInjective(TierOf(k)')
    BY <1>4
  <2>2. ASSUME NEW j \in 0 .. MaxLevels, NEW k \in 0 .. MaxLevels, j # k
        PROVE  IdsIn(TierOf(j)') \cap IdsIn(TierOf(k)') = {}
    <3>1. IdsIn(TierOf(j)) \cap IdsIn(TierOf(k)) = {}
      BY <2>2 DEF Placed
    <3> HIDE DEF inputs
    <3> QED
      BY <1>4, <1>6, <2>2, <3>1
  <2>3. TableIds' = {t \in Table : size'[t] > 0}
    <3>1. TableIds = {t \in Table : size[t] > 0}
      BY DEF Placed
    <3>2. IdsIn(new) \subseteq Table
      BY <1>2, <1>6
    <3>3. ASSUME NEW t \in Table
          PROVE  t \in TableIds' <=> size'[t] > 0
      <4>1. size[t] \in Nat
        BY DEF LoopTypes
      <4>2. size'[t] = IF t \in IdsIn(new) THEN n ELSE IF t \in inputs THEN 0 ELSE size[t]
        BY <1>1
      <4>3. t \in IdsIn(new) => n > 0
        BY <1>1
      <4> HIDE DEF inputs
      <4> QED
        BY <1>8, <3>1, <4>1, <4>2, <4>3
    <3>4. TableIds' \subseteq Table
      BY <1>2, <1>8, <3>2
    <3> QED
      BY <3>3, <3>4
  <2> QED
    BY <2>1, <2>2, <2>3 DEF Placed
<1>10. Bounded'
  <2> DEFINE rest == TableIds \ inputs
             ids  == TableIds \cup {}
  <2>0. IsFiniteSet(rest) /\ rest \subseteq Table /\ IsFiniteSet(inputs) /\ inputs \subseteq Table
    BY <1>2, FS_Subset
  <2>1. \A x \in TableIds : size[x] \in Nat
    BY <1>2 DEF LoopTypes
  <2>2. SumOf(size, TableIds) = SumOf(size, rest) + SumOf(size, inputs)
    <3> HIDE DEF inputs
    <3> QED
      BY <1>2, <2>1, SumOfSplit
  <2>3. \A x \in rest : size[x] \in Nat /\ size'[x] = size[x]
    BY <1>1, <1>2, <1>6, <2>1
  <2>4. SumOf(size', rest) = SumOf(size, rest)
    <3> HIDE DEF rest
    <3> QED
      BY <2>0, <2>3, SumOfEqual
  <2>5. SumOf(size', TableIds') <= SumOf(size', rest) + n
    <3>1. SumOf(size', rest) \in Nat
      <4>1. \A x \in rest : size'[x] \in Nat
        BY <2>3
      <4> HIDE DEF rest
      <4> QED
        BY <2>0, <4>1, SumOfSteps
    <3>2. CASE n = 0
      <4>1. TableIds' = rest
        BY <1>1, <1>8, <3>2
      <4> QED
        BY <3>1, <3>2, <4>1
    <3>3. CASE n # 0
      <4> DEFINE m == Min(inputs)
      <4>1. TableIds' = rest \cup {m} /\ m \notin rest /\ m \in Table
        BY <1>1, <1>2, <1>8, <3>3
      <4>2. size'[m] = n
        BY <1>1, <3>3, <4>1
      <4> HIDE DEF m, rest
      <4>3. /\ IsFiniteSet(rest \cup {m}) /\ (rest \cup {m}) \ {m} = rest
            /\ \A x \in rest \cup {m} : size'[x] \in Nat
        BY <2>0, <2>3, <4>1, <4>2, FS_AddElement
      <4>4. m \in rest \cup {m}
        OBVIOUS
      <4>5. SumOf(size', rest \cup {m}) = SumOf(size', (rest \cup {m}) \ {m}) + size'[m]
        BY <4>3, <4>4, SumOfRemove
      <4>6. SumOf(size', TableIds') = SumOf(size', rest) + n
        BY <4>1, <4>2, <4>3, <4>5
      <4> QED
        BY <3>1, <4>6
    <3> QED
      BY <3>2, <3>3
  <2>6. Total(TableIds) = SumOf(size, TableIds) /\ Total(TableIds)' = SumOf(size', TableIds')
    BY DEF Total, SumOf, FoldSet, MapThenFoldSet
  <2>7. /\ SumOf(size, rest) \in Nat /\ SumOf(size, inputs) \in Nat
        /\ SumOf(size', TableIds') \in Nat
    <3>1. \A x \in TableIds' : size'[x] \in Nat
      BY <1>3, <1>9 DEF LoopTypes, Placed
    <3>2. IsFiniteSet(TableIds')
      BY <1>3, TableIdsNext
    <3>3. \A x \in rest : size[x] \in Nat
      BY <2>1
    <3>4. \A x \in inputs : size[x] \in Nat
      BY <1>2, <2>1
    <3> HIDE DEF rest, inputs
    <3> QED
      BY <2>0, <3>1, <3>2, <3>3, <3>4, SumOfSteps
  <2> QED
    BY <1>1, <2>2, <2>4, <2>5, <2>6, <2>7, LoopAssumption DEF Bounded
<1> QED
  BY <1>3, <1>9, <1>10

\* A flush puts a table that was not there on top of L0.
LEMMA FlushKeeps ==
    ASSUME LoopTypes, Placed, Bounded, TaskFits, Flush
    PROVE  LoopTypes' /\ Placed' /\ Bounded' /\ TaskFits'
<1>1. PICK t \in Table :
        /\ size[t] = 0 /\ l0' = <<t>> \o l0
        /\ size' = [size EXCEPT ![t] = 1]
        /\ Total(TableIds) < MaxSize
        /\ UNCHANGED <<strategy, levels, tick, loop, task, close>>
  BY DEF Flush
<1>2. l0 \in Seq(Table) /\ <<t>> \in Seq(Table) /\ <<t>> \o l0 \in Seq(Table)
  BY DEF LoopTypes
<1>3. LoopTypes'
  BY <1>1, <1>2 DEF LoopTypes
<1>4. IdsIn(l0') = {t} \cup IdsIn(l0)
  BY <1>1, <1>2, IdsInSmall
<1>5. t \notin TableIds
  BY <1>1 DEF Placed
<1>6. TableIds' = TableIds \cup {t}
  BY <1>1, <1>4 DEF TableIds
<1>7. \A n \in 0 .. MaxLevels :
        TierOf(n)' = IF n = 0 THEN <<t>> \o l0 ELSE TierOf(n)
  BY <1>1 DEF TierOf
<1>8. 0 \in 0 .. MaxLevels /\ TierOf(0) = l0
  BY ControllerAssumption DEF TierOf
<1>9. \A n \in 0 .. MaxLevels : t \notin IdsIn(TierOf(n))
  BY <1>5, TableIdsOf
<1>10. Placed'
  <2>1. IsInjective(<<t>> \o l0)
    <3>1. IsInjective(<<t>>) /\ IdsIn(<<t>>) = {t}
      BY DEF IsInjective, IdsIn
    <3>2. IsInjective(l0) /\ t \notin IdsIn(l0)
      BY <1>8, <1>9 DEF Placed
    <3> QED
      BY <1>2, <3>1, <3>2, InjectiveConcat
  <2>2. \A n \in 0 .. MaxLevels : IsInjective(TierOf(n)')
    BY <1>7, <2>1 DEF Placed
  <2>3. \A n \in 0 .. MaxLevels : IdsIn(TierOf(n)') = IF n = 0 THEN {t} \cup IdsIn(TierOf(n))
                                                    ELSE IdsIn(TierOf(n))
    BY <1>1, <1>4, <1>7, <1>8
  <2>4. \A m, n \in 0 .. MaxLevels : m # n => IdsIn(TierOf(m)') \cap IdsIn(TierOf(n)') = {}
    BY <1>9, <2>3 DEF Placed
  <2>5. TableIds' = {x \in Table : size'[x] > 0}
    <3>1. TableIds = {x \in Table : size[x] > 0} /\ size \in [Table -> Nat]
      BY DEF Placed, LoopTypes
    <3>2. \A x \in Table : size'[x] = IF x = t THEN 1 ELSE size[x]
      BY <1>1, <3>1
    <3> QED
      BY <1>6, <3>1, <3>2
  <2> QED
    BY <2>2, <2>4, <2>5 DEF Placed
<1>11. Bounded'
  <2>1. IsFiniteSet(TableIds) /\ TableIds \subseteq Table
    BY TableIdsOf
  <2>2. /\ \A x \in TableIds : size[x] \in Nat /\ size'[x] = size[x]
        /\ size'[t] = 1
    BY <1>1, <1>5, <2>1 DEF LoopTypes
  <2>3. SumOf(size', TableIds) = SumOf(size, TableIds)
    BY <2>1, <2>2, SumOfEqual
  <2>4. SumOf(size, TableIds) \in Nat
    BY <2>1, <2>2, SumOfSteps
  <2>5. /\ IsFiniteSet(TableIds \cup {t}) /\ (TableIds \cup {t}) \ {t} = TableIds
        /\ \A x \in TableIds \cup {t} : size'[x] \in Nat
        /\ t \in TableIds \cup {t}
    BY <1>5, <2>1, <2>2, FS_AddElement
  <2>6. SumOf(size', TableIds \cup {t})
          = SumOf(size', (TableIds \cup {t}) \ {t}) + size'[t]
    BY <2>5, SumOfRemove
  <2>7. SumOf(size', TableIds') = SumOf(size, TableIds) + 1
    BY <1>6, <2>2, <2>3, <2>5, <2>6
  <2>8. Total(TableIds) = SumOf(size, TableIds) /\ Total(TableIds)' = SumOf(size', TableIds')
    BY DEF Total, SumOf, FoldSet, MapThenFoldSet
  <2> QED
    BY <1>1, <2>4, <2>7, <2>8, LoopAssumption DEF Bounded
<1>12. TaskFits'
  <2> SUFFICES ASSUME loop = "merge"
               PROVE  TaskFits'
    BY <1>1 DEF TaskFits
  <2>1. task.upperLevel \in 0 .. MaxLevels
    BY ControllerAssumption DEF TaskFits
  <2>2. PICK u \in 0 .. MaxLevels : u = task.upperLevel
    BY <2>1
  <2>3. IdsIn(TierOf(u)) \subseteq IdsIn(TierOf(u)')
    BY <1>1, <1>4, <1>7, <1>8
  <2>4. IdsIn(task.upperIDs) \subseteq IdsIn(TierOf(u)')
    BY <2>2, <2>3 DEF TaskFits
  <2>5. (IdsIn(task.upperIDs) \subseteq IdsIn(TierOf(task.upperLevel)))'
    BY <1>1, <2>2, <2>4 DEF TierOf
  <2> QED
    BY <1>1, <2>5 DEF TaskFits
<1> QED
  BY <1>3, <1>10, <1>11, <1>12

\* A task is picked from the present layout.
LEMMA PickKeeps ==
    ASSUME LoopTypes, PickTask
    PROVE  LoopTypes' /\ TaskFits'
<1>1. /\ Work # NoTask /\ task' = Work /\ loop' = "merge"
      /\ UNCHANGED <<strategy, l0, levels, size, tick, close>>
  BY DEF PickTask
<1>2. /\ l0 \in Seq(Table) /\ levels \in [1 .. MaxLevels -> Seq(Table)]
      /\ size \in [Table -> Nat]
  BY DEF LoopTypes
<1>3. Work \in Task(Table) /\ PickShape(Work, strategy, l0, levels)
  BY <1>1, <1>2, TaskShape DEF Work
<1>4. LoopTypes'
  BY <1>1, <1>3 DEF LoopTypes
<1>5. PickShape(task', strategy, l0, levels)
  BY <1>1, <1>3
<1>6. (IdsIn(task.upperIDs) \subseteq IdsIn(TierOf(task.upperLevel)))'
  BY <1>1, <1>5 DEF PickShape, WholeTier, TierOf
<1>7. /\ InputIDs(task') # <<>>
      /\ task'.upperLevel \in 0 .. MaxLevels - 1 /\ task'.lowerLevel \in 1 .. MaxLevels
      /\ task'.upperLevel < task'.lowerLevel
      /\ task'.upperLevel > 0 => task'.upperIDs = levels[task'.upperLevel]
  BY <1>5 DEF PickShape, WholeTier
<1>8. /\ strategy = "full" =>
           /\ task'.upperLevel = 0 /\ task'.lowerLevel = MaxLevels
           /\ IdsIn(task'.lowerIDs) = UNION {IdsIn(levels[i]) : i \in 1 .. MaxLevels}
      /\ strategy # "full" => /\ task'.lowerLevel = task'.upperLevel + 1
                              /\ task'.lowerIDs = levels[task'.lowerLevel]
  BY <1>5 DEF PickShape
<1>9. TaskFits'
  BY <1>1, <1>6, <1>7, <1>8 DEF TaskFits, InputIDs
<1> QED
  BY <1>4, <1>9

LoopInv == LoopTypes /\ Placed /\ TaskFits /\ Bounded /\ Quiet

\* It holds at first, with no table.
LEMMA LoopInvInit == Init => LoopInv
<1> SUFFICES ASSUME Init
             PROVE  LoopInv
  OBVIOUS
<1>1. IdsIn(<<>>) = {} /\ IsInjective(<<>>)
  BY DEF IdsIn, IsInjective
<1>2. LoopTypes
  <2>1. l0 \in Seq(Table) /\ levels \in [1 .. MaxLevels -> Seq(Table)]
    BY DEF Init
  <2>2. loop \in {"off", "wait"} /\ task = NoTask
    BY DEF Init
  <2> QED
    BY <2>1, <2>2 DEF Init, LoopTypes
<1>3. \A n \in 0 .. MaxLevels : TierOf(n) = <<>>
  BY ControllerAssumption DEF Init, TierOf
<1>4. TableIds = {}
  BY <1>1, <1>2, <1>3, TableIdsOf
<1>5. Placed
  <2>1. \A t \in Table : ~ (size[t] > 0)
    BY DEF Init
  <2> QED
    BY <1>1, <1>3, <1>4, <2>1 DEF Placed
<1>6. Bounded
  <2>1. SumOf(size, {}) = 0
    BY SumOfSteps, FS_EmptySet
  <2>2. Total(TableIds) = SumOf(size, {})
    BY <1>4 DEF Total, SumOf
  <2> QED
    BY <2>1, <2>2, LoopAssumption DEF Bounded
<1> QED
  BY <1>2, <1>5, <1>6 DEF LoopInv, TaskFits, Quiet, Init

\* A step that leaves the tables alone leaves their places alone.
LEMMA PlacesStay ==
    ASSUME Placed, Bounded, UNCHANGED <<l0, levels, size>>
    PROVE  Placed' /\ Bounded'
<1>1. \A n \in 0 .. MaxLevels : TierOf(n)' = TierOf(n)
  BY DEF TierOf
<1>2. TableIds' = TableIds
  BY DEF TableIds
<1>3. Total(TableIds)' = Total(TableIds)
  BY <1>2 DEF Total, FoldSet, MapThenFoldSet
<1>4. Placed'
  BY <1>1, <1>2 DEF Placed
<1> QED
  BY <1>3, <1>4 DEF Bounded

\* Each step keeps it.
LEMMA LoopInvStep == LoopInv /\ [Next]_vars => LoopInv'
<1> SUFFICES ASSUME LoopInv, [Next]_vars
             PROVE  LoopInv'
  OBVIOUS
<1>0. LoopTypes /\ Placed /\ TaskFits /\ Bounded /\ Quiet
  BY DEF LoopInv
<1>1. CASE Flush
  <2>1. LoopTypes' /\ Placed' /\ TaskFits' /\ Bounded'
    BY <1>0, <1>1, FlushKeeps
  <2>2. Quiet'
    BY <1>0, <1>1 DEF Flush, Quiet
  <2> QED
    BY <2>1, <2>2 DEF LoopInv
<1>2. CASE Tick \/ TakeTick \/ TakeStop \/ Drained \/ TaskFails \/ CloseCall \/ CloseFiles
  <2>1. UNCHANGED <<l0, levels, size, strategy>>
    BY <1>2 DEF Tick, TakeTick, TakeStop, Drained, TaskFails, CloseCall, CloseFiles
  <2>2. Placed' /\ Bounded'
    BY <1>0, <2>1, PlacesStay
  <2>3. loop' = "merge" => loop = "merge" /\ task' = task
    BY <1>2 DEF Tick, TakeTick, TakeStop, Drained, TaskFails, CloseCall, CloseFiles
  <2>4. LoopTypes'
    BY <1>0, <1>2 DEF LoopTypes, Tick, TakeTick, TakeStop, Drained, TaskFails, CloseCall,
                      CloseFiles
  <2>5. TaskFits'
    BY <1>0, <2>1, <2>3 DEF TaskFits, TierOf
  <2>6. Quiet'
    BY <1>0, <1>2 DEF Quiet, Tick, TakeTick, TakeStop, Drained, TaskFails, CloseCall, CloseFiles
  <2> QED
    BY <2>2, <2>4, <2>5, <2>6 DEF LoopInv
<1>3. CASE PickTask
  <2>1. LoopTypes' /\ TaskFits'
    BY <1>0, <1>3, PickKeeps
  <2>2. Placed' /\ Bounded'
    BY <1>0, <1>3, PlacesStay DEF PickTask
  <2>3. Quiet'
    BY <1>0, <1>3 DEF Quiet, PickTask
  <2> QED
    BY <2>1, <2>2, <2>3 DEF LoopInv
<1>4. CASE FinishTask \/ RecordFails
  <2>1. Install /\ loop' \in {"wait", "drain"}
    BY <1>4 DEF FinishTask, RecordFails
  <2>2. LoopTypes' /\ Placed' /\ Bounded'
    BY <1>0, <2>1, InstallKeeps
  <2>3. TaskFits'
    BY <2>1 DEF TaskFits
  <2>4. Quiet'
    BY <1>0, <2>1 DEF Quiet, Install
  <2> QED
    BY <2>2, <2>3, <2>4 DEF LoopInv
<1>5. CASE UNCHANGED vars
  <2>1. UNCHANGED <<strategy, l0, levels, size, tick, loop, task, close>>
    BY <1>5 DEF vars
  <2>2. Placed' /\ Bounded'
    BY <1>0, <2>1, PlacesStay
  <2>3. LoopTypes' /\ TaskFits' /\ Quiet'
    BY <1>0, <2>1 DEF LoopTypes, TaskFits, Quiet, TierOf
  <2> QED
    BY <2>2, <2>3 DEF LoopInv
<1> QED
  BY <1>1, <1>2, <1>3, <1>4, <1>5 DEF Next, Loop

\* So it always holds.
LEMMA LoopInvAlways == Spec => []LoopInv
  BY LoopInvInit, LoopInvStep, PTL DEF Spec

(***************************************************************************)
(* The loop, its task and the tables are well typed, and the tables are    *)
(* together no larger than what was let in: merges never make data larger  *)
(* (compact.go:106-221).                                                   *)
(***************************************************************************)
THEOREM LoopTypeOK == Spec => []TypeOK
<1>1. LoopInv => TypeOK
  <2> SUFFICES ASSUME LoopInv
               PROVE  TypeOK
    OBVIOUS
  <2>1. LoopTypes /\ Placed /\ Bounded
    BY DEF LoopInv
  <2>2. ASSUME NEW t \in Table
        PROVE  size[t] \in 0 .. MaxSize
    <3>1. size[t] \in Nat
      BY <2>1 DEF LoopTypes
    <3>2. CASE t \notin TableIds
      BY <2>1, <3>1, <3>2, LoopAssumption DEF Placed
    <3>3. CASE t \in TableIds
      <4>1. IsFiniteSet(TableIds) /\ \A x \in TableIds : size[x] \in Nat
        BY <2>1, TableIdsOf DEF LoopTypes
      <4>2. SumOf(size, TableIds) = SumOf(size, TableIds \ {t}) + size[t]
        BY <3>3, <4>1, SumOfRemove
      <4>3. TableIds \ {t} \in SUBSET TableIds /\ SumOf(size, TableIds \ {t}) \in Nat
        BY <4>1, SumOfSteps
      <4>4. Total(TableIds) = SumOf(size, TableIds)
        BY DEF Total, SumOf
      <4> QED
        BY <2>1, <3>1, <4>2, <4>3, <4>4, LoopAssumption DEF Bounded
    <3> QED
      BY <3>2, <3>3
  <2>3. size \in [Table -> 0 .. MaxSize]
    BY <2>1, <2>2 DEF LoopTypes
  <2> QED
    BY <2>1, <2>3 DEF TypeOK, LoopTypes
<1> QED
  BY <1>1, LoopInvAlways, PTL

(***************************************************************************)
(* The tiers hold exactly the tables there are, each once: flushes that    *)
(* arrive while a merge runs keep their table, inputs go, outputs come     *)
(* (full.go:38, leveled.go; runOnceCompaction swaps under the lock).       *)
(***************************************************************************)
THEOREM LoopTablesPlacedOnce == Spec => []TablesPlacedOnce
<1>1. LoopInv => TablesPlacedOnce
  <2> SUFFICES ASSUME LoopInv
               PROVE  TablesPlacedOnce
    OBVIOUS
  <2>1. LoopTypes /\ Placed
    BY DEF LoopInv
  <2>2. MaxLevels \in Nat \ {0} /\ levels \in Seq(Seq(Table)) /\ Len(levels) = MaxLevels
    BY <2>1, ControllerAssumption DEF LoopTypes
  <2>3. /\ TierOf(0) = l0 /\ 0 \in 0 .. MaxLevels
        /\ \A n \in 1 .. MaxLevels : n \in 0 .. MaxLevels /\ n # 0 /\ TierOf(n) = levels[n]
    BY <2>2 DEF TierOf
  <2>4. IsInjective(FlattenSeq(levels))
    BY <2>1, <2>2, <2>3, InjectiveFlatten DEF Placed
  <2>5. /\ FlattenSeq(levels) \in Seq(Table) /\ l0 \in Seq(Table)
        /\ IdsIn(FlattenSeq(levels)) = UNION {IdsIn(levels[i]) : i \in 1 .. MaxLevels}
    BY <2>1, <2>2, FlattenSeqResult DEF LoopTypes
  <2>6. IdsIn(l0) \cap IdsIn(FlattenSeq(levels)) = {}
    BY <2>1, <2>3, <2>5 DEF Placed
  <2>7. IsInjective(l0 \o FlattenSeq(levels))
    BY <2>1, <2>3, <2>4, <2>5, <2>6, InjectiveConcat DEF Placed
  <2>8. l0 \o FlattenSeq(levels) \in Seq(Table)
    BY <2>5
  <2>9. Cardinality(TableIds) = Len(l0 \o FlattenSeq(levels))
    BY <2>1, <2>7, <2>8, InjectiveCount, TableIdsOf
  <2>10. Len(l0 \o FlattenSeq(levels)) = Len(l0) + Len(FlattenSeq(levels))
    BY <2>5
  <2> QED
    BY <2>1, <2>9, <2>10 DEF TablesPlacedOnce, Placed
<1> QED
  BY <1>1, LoopInvAlways, PTL

(***************************************************************************)
(* When Close closes the files, nothing is being compacted, and nothing    *)
(* will be: closed files are not read or replaced (storage.go:441-446).    *)
(***************************************************************************)
THEOREM LoopQuietWhenClosed == Spec => []QuietWhenClosed
<1>1. LoopInv => QuietWhenClosed
  BY DEF LoopInv, LoopTypes, Quiet, QuietWhenClosed
<1> QED
  BY <1>1, LoopInvAlways, PTL
=============================================================================
