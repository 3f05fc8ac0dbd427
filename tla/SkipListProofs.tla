--------------------------- MODULE SkipListProofs ---------------------------
(***************************************************************************)
(* Proofs about SkipList: as long as stores become visible in the order in *)
(* which they were made, searches through the levels find what was put,    *)
(* and an iterator that walks beside the writer misses nothing.            *)
(***************************************************************************)
EXTENDS SkipListProps, Inductions

-----------------------------------------------------------------------------
(* The inductive invariant.  on[i] is the set of keys on level i: each     *)
(* level is a list of them, a level holds a part of the one below, and the *)
(* stores under way extend the lists one after the other, from the bottom. *)

SkipListTypes ==
    /\ next \in [Node -> [Level -> Key \cup {Nil}]]
    /\ level \in Level
    /\ batch \in Seq(Key)
    /\ locked \in BOOLEAN
    /\ stored \in SUBSET Key
    /\ iter \in [Reader -> [cur : Key \cup {Nil}, upper : Key \cup {Nil}, open : BOOLEAN,
                            first : SUBSET Key, seen : Seq(Key)]]

\* m is the first of the keys T behind n, or Nil.
IsSucc(T, n, m) == m \in T \cup {Nil} /\ n < m /\ \A s \in T : n < s => m <= s

\* k belongs on the list T between p and m.
Between(T, p, k, m) == p \in T \cup {First} /\ p < k /\ k < m /\ IsSucc(T, p, m)

Chains(on) ==
    \A i \in Level, n \in Node :
      n \in on[i] \cup {First} => IsSucc(on[i], n, next[n][i])

Nested(on) ==
    /\ \A i, j \in Level : j <= i => on[i] \subseteq on[j]
    /\ \A i \in Level : i > level => on[i] = {}

\* The put under way has linked k below level at, has set k's own pointer
\* there if half = 1, and goes on up to level top.
Underway(on, k, pred, to, at, half, top) ==
    /\ at <= top /\ top <= level
    /\ DOMAIN stores = 1 .. 2 * (top - at) + 2 - half
    /\ Len(stores) = 2 * (top - at) + 2 - half
    /\ \A i \in Level : at <= i /\ i <= top
          =>
          /\ i > at \/ half = 0 => stores[2 * (i - at) + 1 - half] = Store(k, i, to[i])
          /\ stores[2 * (i - at) + 2 - half] = Store(pred[i], i, k)
          /\ Between(on[i], pred[i], k, to[i])
    /\ \A i \in Level : i < at => k \in on[i]
    /\ half = 1 => next[k][at] = to[at]
    /\ \A i \in Level : \A n \in Key \ on[i] :
         next[n][i] = Nil \/ (n = k /\ i = at /\ half = 1)
    /\ stored = on[1] \cup {k}

Linked(on) ==
    /\ stores = <<>> =>
         /\ stored = on[1]
         /\ \A i \in Level : \A n \in Key \ on[i] : next[n][i] = Nil
    /\ stores # <<>> =>
         \E k \in Key, pred \in [Level -> Node], to \in [Level -> Key \cup {Nil}],
            at \in Level, half \in {0, 1}, top \in Level :
           Underway(on, k, pred, to, at, half, top)

\* What iterator `it` has met, and what it goes on from.
Walks(it, S) ==
    it.open =>
      /\ it.cur \in S \cup {Nil} /\ it.first \subseteq S
      /\ \A i, j \in DOMAIN it.seen : i < j => it.seen[i] < it.seen[j]
      /\ \A i \in DOMAIN it.seen :
           it.seen[i] \in S /\ it.seen[i] < it.cur /\ it.seen[i] < it.upper
      /\ \A k \in it.first : k < it.cur => \E i \in DOMAIN it.seen : it.seen[i] = k

Levels(on) ==
    /\ Chains(on) /\ Nested(on) /\ Linked(on)
    /\ ~ locked => stores = <<>>
    /\ \A r \in Reader : Walks(iter[r], on[1])

SkipListInv == SkipListTypes /\ \E on \in [Level -> SUBSET Key] : Levels(on)

-----------------------------------------------------------------------------
(* Searching. *)

\* The nil pointer sorts behind every key.
LEMMA NilBehind ==
    /\ Nil \in Nat /\ First \in Nat /\ Nil \notin Key /\ First \notin Key
    /\ First < Nil
    /\ \A k \in Key : k \in Nat /\ First < k /\ k < Nil
<1> DEFINE K == Key \cup {0}
<1>1. K \in SUBSET Nat /\ IsFiniteSet(K) /\ K # {}
  BY SkipListAssumption, FS_AddElement
<1> HIDE DEF K
<1>2. Max(K) \in K /\ \A x \in K : x <= Max(K)
  BY <1>1, FiniteMax
<1>3. Max(K) \in Nat /\ \A k \in Key : k \in K /\ k <= Max(K)
  <2>1. \A k \in Key : k \in K
    BY DEF K
  <2> QED
    BY <1>1, <1>2, <2>1
<1>4. Nil = 1 + Max(K)
  BY DEF Nil, K
<1> HIDE DEF Nil
<1>5. \A k \in Key : k \in Nat /\ 0 < k
  BY SkipListAssumption
<1> QED
  BY <1>3, <1>4, <1>5 DEF First

\* The last of the keys T below k, or First.
Before(T, k) == Max({n \in T \cup {First} : n < k})

LEMMA BeforeIs ==
    ASSUME NEW T \in SUBSET Key, NEW k \in Key
    PROVE  /\ Before(T, k) \in T \cup {First}
           /\ Before(T, k) < k
           /\ \A n \in T \cup {First} : n < k => n <= Before(T, k)
<1> DEFINE B == {n \in T \cup {First} : n < k}
<1>1. B \in SUBSET Nat /\ First \in B /\ B \subseteq T \cup {First}
  BY NilBehind
<1>2. IsFiniteSet(B)
  <2>1. IsFiniteSet(Key \cup {First}) /\ B \subseteq Key \cup {First}
    BY SkipListAssumption, FS_AddElement
  <2> HIDE DEF B
  <2> QED
    BY <2>1, FS_Subset
<1>3. Max(B) \in B /\ \A x \in B : x <= Max(B)
  <2> HIDE DEF B
  <2> QED
    BY <1>1, <1>2, FiniteMax
<1> QED
  BY <1>3 DEF Before

\* The chain of level i, and no pointer but those of the chain.
Settled(T, i) ==
    /\ \A n \in T \cup {First} : IsSucc(T, n, next[n][i])
    /\ \A n \in Key \ T : next[n][i] = Nil

\* Along the chain, the pointer of a node below k goes to another one, or is
\* the last step.
LEMMA ChainBelow ==
    ASSUME NEW T \in SUBSET Key, NEW i, Settled(T, i), NEW k \in Key,
           NEW n \in Node
    PROVE  /\ next[n][i] < k => n \in T \cup {First} /\ next[n][i] \in T /\ n < next[n][i]
           /\ n \in T \cup {First} /\ n < k /\ ~ (next[n][i] < k) => n = Before(T, k)
<1>0. /\ Before(T, k) \in T \cup {First}
      /\ Before(T, k) < k
      /\ \A m \in T \cup {First} : m < k => m <= Before(T, k)
  BY BeforeIs
<1>1. ASSUME next[n][i] < k
      PROVE  n \in T \cup {First} /\ next[n][i] \in T /\ n < next[n][i]
  <2>1. n \in T \cup {First}
    BY <1>1, NilBehind DEF Settled, Node
  <2>2. IsSucc(T, n, next[n][i])
    BY <2>1 DEF Settled
  <2> QED
    BY <1>1, <2>1, <2>2, NilBehind DEF IsSucc
<1>2. ASSUME n \in T \cup {First}, n < k, ~ (next[n][i] < k)
      PROVE  n = Before(T, k)
  <2>1. IsSucc(T, n, next[n][i])
    BY <1>2 DEF Settled
  <2> DEFINE b == Before(T, k)
  <2>2. n <= b /\ b \in T \cup {First} /\ b < k
    BY <1>0, <1>2
  <2> HIDE DEF b
  <2>3. n \in Nat /\ b \in Nat /\ k \in Nat /\ next[n][i] \in Nat
    BY <1>2, <2>1, <2>2, NilBehind DEF IsSucc
  <2>4. ~ (n < b)
    BY <1>2, <2>1, <2>2, <2>3, NilBehind DEF IsSucc
  <2> QED
    BY <2>2, <2>3, <2>4 DEF b
<1> QED
  BY <1>1, <1>2

\* Along is defined, and from any node of the chain below k it returns the
\* last one.
LEMMA AlongIs ==
    ASSUME NEW T \in SUBSET Key, NEW i, Settled(T, i), NEW k \in Key,
           NEW n \in T \cup {First}, n < k
    PROVE  Along(i, k)[n] = Before(T, k)
<1> DEFINE b == Before(T, k)
           Run(f) == f = [m \in Node |-> IF next[m][i] < k THEN f[next[m][i]] ELSE m]
           g == [m \in Node |-> IF next[m][i] < k THEN b ELSE m]
           f == Along(i, k)
<1>0. /\ b \in T \cup {First} /\ b < k
      /\ \A m \in T \cup {First} : m < k => m <= b
  BY BeforeIs
<1>1. \A m \in Node : /\ next[m][i] < k => m \in T \cup {First} /\ next[m][i] \in T /\ m < next[m][i]
                      /\ m \in T \cup {First} /\ m < k /\ ~ (next[m][i] < k) => m = b
  BY ChainBelow
<1>2. T \subseteq Node /\ T \cup {First} \subseteq Node
  BY DEF Node
<1> HIDE DEF b
<1>3. Run(g)
  <2> SUFFICES ASSUME NEW m \in Node
               PROVE  g[m] = IF next[m][i] < k THEN g[next[m][i]] ELSE m
    OBVIOUS
  <2>1. CASE next[m][i] < k
    <3>1. next[m][i] \in T /\ next[m][i] \in Node
      BY <1>1, <1>2, <2>1
    <3>2. ~ (next[next[m][i]][i] < k) => next[m][i] = b
      BY <1>1, <2>1, <3>1
    <3>3. g[m] = b /\ g[next[m][i]] = b
      BY <2>1, <3>1, <3>2
    <3> QED
      BY <2>1, <3>3
  <2>2. CASE ~ (next[m][i] < k)
    BY <2>2
  <2> QED
    BY <2>1, <2>2
<1>4. Run(f)
  <2>1. f = CHOOSE h : Run(h)
    BY DEF Along
  <2> HIDE DEF f, g, Run
  <2>2. \E h : Run(h)
    BY <1>3
  <2> QED
    BY <2>1, <2>2
<1>5. \A m \in Node : f[m] = IF next[m][i] < k THEN f[next[m][i]] ELSE m
  <2> HIDE DEF f
  <2> QED
    BY <1>4
<1> HIDE DEF f, g, Run
<1> DEFINE Bad == {m \in T \cup {First} : m < k /\ f[m] # b}
<1>6. ASSUME Bad # {}
      PROVE  FALSE
  <2>1. k \in Nat /\ Bad \in SUBSET (0 .. k)
    BY NilBehind
  <2>2. PICK m \in Bad : \A x \in Bad : x <= m
    <3> HIDE DEF Bad
    <3> QED
      BY <1>6, <2>1, GreatestNat
  <2>3. m \in Node /\ m \in Nat
    BY <1>2, <2>1
  <2>4. CASE next[m][i] < k
    <3>1. next[m][i] \in T /\ m < next[m][i] /\ next[m][i] \in Nat
      BY <1>1, <2>3, <2>4, NilBehind
    <3>2. next[m][i] \notin Bad
      <4> HIDE DEF Bad
      <4> QED
        BY <2>2, <2>3, <3>1
    <3>3. f[next[m][i]] = b
      BY <2>4, <3>1, <3>2
    <3> QED
      BY <1>5, <2>3, <2>4, <3>3
  <2>5. CASE ~ (next[m][i] < k)
    BY <1>1, <1>5, <2>3, <2>5
  <2> QED
    BY <2>4, <2>5
<1> QED
  BY <1>6 DEF b, f

\* Between puts, every level is settled.
Searchable(on) ==
    /\ on \in [Level -> SUBSET Key] /\ level \in Level
    /\ \A i \in Level : Settled(on[i], i)
    /\ Nested(on)

\* The descent ends, on each level, at the last node below k.
LEMMA PredsAre ==
    ASSUME NEW on, Searchable(on), NEW k \in Key
    PROVE  /\ Preds(k) = [i \in 1 .. level |-> Before(on[i], k)]
           /\ level \in 1 .. MaxLevel
<1> DEFINE At(f, i) == Along(i, k)[IF i = level THEN First ELSE f[i + 1]]
           Run(f) == f = [i \in 1 .. level |-> At(f, i)]
           g == [i \in 1 .. level |-> Before(on[i], k)]
           f == Preds(k)
<1>0. /\ level \in Nat /\ level \in 1 .. MaxLevel /\ Level = 1 .. MaxLevel
      /\ \A i \in 1 .. level : i \in Level /\ i \in Nat
  BY SkipListAssumption DEF Searchable, Level
<1>1. ASSUME NEW i \in 1 .. level
      PROVE  /\ i \in Level /\ on[i] \in SUBSET Key /\ Settled(on[i], i)
             /\ Before(on[i], k) \in on[i] \cup {First} /\ Before(on[i], k) < k
  BY <1>0, BeforeIs DEF Searchable
<1>2. ASSUME NEW h, NEW i \in 1 .. level, i # level => h[i + 1] = Before(on[i + 1], k)
      PROVE  At(h, i) = Before(on[i], k)
  <2>1. CASE i = level
    <3>1. First < k
      BY NilBehind
    <3>2. Along(i, k)[First] = Before(on[i], k)
      BY <1>1, <3>1, AlongIs
    <3> QED
      BY <2>1, <3>2
  <2>2. CASE i # level
    <3>1. i + 1 \in 1 .. level /\ i + 1 \in Level
      BY <1>0, <2>2
    <3>2. on[i + 1] \subseteq on[i]
      BY <1>1, <3>1 DEF Searchable, Nested
    <3> DEFINE n == Before(on[i + 1], k)
    <3>3. n \in on[i] \cup {First} /\ n < k
      BY <1>1, <3>1, <3>2
    <3> HIDE DEF n
    <3>4. Along(i, k)[n] = Before(on[i], k)
      BY <1>1, <3>3, AlongIs
    <3>5. At(h, i) = Along(i, k)[n]
      BY <1>2, <2>2 DEF n
    <3> QED
      BY <3>4, <3>5
  <2> QED
    BY <2>1, <2>2
<1> HIDE DEF At
<1>3. Run(g)
  <2>1. ASSUME NEW i \in 1 .. level
        PROVE  At(g, i) = Before(on[i], k)
    <3>1. i # level => i + 1 \in 1 .. level
      BY <1>0
    <3>2. i # level => g[i + 1] = Before(on[i + 1], k)
      BY <3>1
    <3> HIDE DEF g
    <3> QED
      BY <1>2, <3>2
  <2> QED
    BY <2>1
<1>4. Run(f)
  <2>1. f = CHOOSE h : Run(h)
    BY DEF Preds, At
  <2> HIDE DEF f, g, Run
  <2>2. \E h : Run(h)
    BY <1>3
  <2> QED
    BY <2>1, <2>2
<1>5. f = [i \in 1 .. level |-> At(f, i)]
  <2> HIDE DEF f
  <2> QED
    BY <1>4
<1> HIDE DEF f, g, Run
<1> DEFINE Bad == {i \in 1 .. level : f[i] # Before(on[i], k)}
<1>6. ASSUME Bad # {}
      PROVE  FALSE
  <2>1. Bad \in SUBSET (0 .. level)
    BY <1>0
  <2>2. PICK i \in Bad : \A x \in Bad : x <= i
    <3> HIDE DEF Bad
    <3> QED
      BY <1>0, <1>6, <2>1, GreatestNat
  <2>3. i \in 1 .. level
    OBVIOUS
  <2>4. i # level => i + 1 \in 1 .. level /\ ~ (i + 1 <= i)
    BY <1>0, <2>3
  <2>5. i # level => f[i + 1] = Before(on[i + 1], k)
    BY <2>2, <2>4
  <2>6. At(f, i) = Before(on[i], k)
    BY <1>2, <2>3, <2>5
  <2>7. f[i] = At(f, i)
    BY <1>5, <2>3
  <2> QED
    BY <2>2, <2>6, <2>7
<1>7. f = g
  BY <1>5, <1>6 DEF g
<1> QED
  BY <1>0, <1>7 DEF f, g

\* seek returns the first key at or above k.
LEMMA SeekIs ==
    ASSUME NEW on, Searchable(on), NEW k \in Key
    PROVE  /\ Seek(k) \in on[1] \cup {Nil} /\ k <= Seek(k)
           /\ \A s \in on[1] : k <= s => Seek(k) <= s
<1> DEFINE b == Before(on[1], k)
<1>1. 1 \in Level /\ on[1] \in SUBSET Key /\ Settled(on[1], 1) /\ 1 \in 1 .. level
  BY SkipListAssumption DEF Level, Searchable
<1>2. Seek(k) = next[b][1]
  BY <1>1, PredsAre DEF Seek
<1>3. b \in on[1] \cup {First} /\ b < k /\ \A n \in on[1] \cup {First} : n < k => n <= b
  BY <1>1, BeforeIs
<1> HIDE DEF b
<1>4. IsSucc(on[1], b, next[b][1])
  BY <1>1, <1>3 DEF Settled
<1> DEFINE m == next[b][1]
<1>5. m \in on[1] \cup {Nil} /\ b < m /\ \A s \in on[1] : b < s => m <= s
  BY <1>4 DEF IsSucc
<1> HIDE DEF m
<1>6. /\ b \in Nat /\ m \in Nat /\ k \in Nat /\ k < Nil
      /\ \A s \in on[1] : s \in Nat
  BY <1>1, <1>3, <1>5, NilBehind
<1>7. k <= m
  BY <1>3, <1>5, <1>6
<1>8. \A s \in on[1] : k <= s => m <= s
  BY <1>3, <1>5, <1>6
<1> QED
  BY <1>2, <1>5, <1>7, <1>8 DEF m

-----------------------------------------------------------------------------
(* The invariant holds initially and is kept by every step. *)

LEMMA SkipListInvInit == Init => SkipListInv
<1> SUFFICES ASSUME Init
             PROVE  SkipListInv
  OBVIOUS
<1>1. SkipListTypes
  <2>1. 1 \in Level /\ <<>> \in Seq(Key)
    BY SkipListAssumption DEF Level
  <2>2. NoIter \in [cur : Key \cup {Nil}, upper : Key \cup {Nil}, open : BOOLEAN,
                    first : SUBSET Key, seen : Seq(Key)]
    BY <2>1 DEF NoIter
  <2> QED
    BY <2>1, <2>2 DEF Init, SkipListTypes
<1>2. PICK on \in [Level -> SUBSET Key] : on = [i \in Level |-> {}]
  OBVIOUS
<1>3. 1 \in Level /\ on[1] = {}
  BY <1>2, SkipListAssumption DEF Level
<1>4. Chains(on)
  BY <1>2, NilBehind DEF Init, Chains, IsSucc
<1>5. Nested(on)
  BY <1>2 DEF Init, Nested
<1>6. Linked(on)
  <2>1. \A i \in Level : \A n \in Key : next[n][i] = Nil
    BY DEF Init, Node
  <2> QED
    BY <1>3, <2>1 DEF Init, Linked
<1>7. \A r \in Reader : Walks(iter[r], on[1])
  BY DEF Init, Walks, NoIter
<1> QED
  BY <1>1, <1>4, <1>5, <1>6, <1>7 DEF SkipListInv, Levels, Init

\* What an iterator met stays met when keys are linked.
LEMMA WalksMore ==
    ASSUME NEW it, NEW S, NEW R, Walks(it, S), S \subseteq R
    PROVE  Walks(it, R)
  BY DEF Walks

\* Steps that leave the links alone.
LEMMA SameLinks ==
    ASSUME NEW on, UNCHANGED <<next, level, stores, stored>>,
           Chains(on), Nested(on), Linked(on)
    PROVE  Chains(on)' /\ Nested(on)' /\ Linked(on)'
<1>1. Chains(on)' /\ Nested(on)'
  BY DEF Chains, Nested
<1>2. ASSUME NEW k, NEW pred, NEW to, NEW at, NEW half, NEW top,
             Underway(on, k, pred, to, at, half, top)
      PROVE  Underway(on, k, pred, to, at, half, top)'
  BY <1>2 DEF Underway
<1>3. Linked(on)'
  BY <1>2 DEF Linked
<1> QED
  BY <1>1, <1>3

\* The writer, outside Insert and Perform, leaves the links alone.
LEMMA WriterSteps ==
    ASSUME SkipListInv, Lock \/ Overwrite \/ Unlock
    PROVE  SkipListInv'
<1>1. PICK on \in [Level -> SUBSET Key] : Levels(on)
  BY DEF SkipListInv
<1>2. UNCHANGED <<next, level, stores, stored, iter>>
  BY DEF Lock, Overwrite, Unlock
<1>3. Chains(on)' /\ Nested(on)' /\ Linked(on)'
  BY <1>1, <1>2, SameLinks DEF Levels
<1>4. (~ locked => stores = <<>>)'
  BY <1>1 DEF Lock, Overwrite, Unlock, Levels
<1>5. (\A r \in Reader : Walks(iter[r], on[1]))'
  BY <1>1, <1>2 DEF Levels
<1>6. batch' \in Seq(Key) /\ locked' \in BOOLEAN
  <2>1. CASE Lock
    BY <2>1 DEF Lock
  <2>2. CASE Overwrite
    BY <2>2 DEF Overwrite, SkipListInv, SkipListTypes
  <2>3. CASE Unlock
    BY <2>3 DEF Unlock, SkipListInv, SkipListTypes
  <2> QED
    BY <2>1, <2>2, <2>3
<1>7. SkipListTypes'
  BY <1>2, <1>6 DEF SkipListInv, SkipListTypes
<1>8. Levels(on)'
  BY <1>3, <1>4, <1>5 DEF Levels
<1> QED
  BY <1>7, <1>8 DEF SkipListInv

\* Between puts a search may begin.
LEMMA QuietSearch ==
    ASSUME SkipListTypes, NEW on \in [Level -> SUBSET Key], Levels(on), stores = <<>>
    PROVE  Searchable(on) /\ stored = on[1]
<1>1. ASSUME NEW i \in Level
      PROVE  Settled(on[i], i)
  <2>1. on[i] \in SUBSET Key /\ on[i] \cup {First} \subseteq Node
    BY DEF Node
  <2>2. \A n \in on[i] \cup {First} : IsSucc(on[i], n, next[n][i])
    BY <2>1 DEF Levels, Chains
  <2>3. \A n \in Key \ on[i] : next[n][i] = Nil
    BY DEF Levels, Linked
  <2> QED
    BY <2>2, <2>3 DEF Settled
<1> QED
  BY <1>1 DEF Searchable, SkipListTypes, Levels, Linked

\* An iterator begins at the first key within its bounds.
LEMMA IterWalks ==
    ASSUME SkipListTypes, NEW on \in [Level -> SUBSET Key], Levels(on),
           NEW r \in Reader, NEW lower \in Node, NEW upper \in Key \cup {Nil},
           Iter(r, lower, upper)
    PROVE  /\ iter'[r] \in [cur : Key \cup {Nil}, upper : Key \cup {Nil}, open : BOOLEAN,
                            first : SUBSET Key, seen : Seq(Key)]
           /\ Walks(iter'[r], on[1])
<1>1. Searchable(on) /\ stored = on[1]
  BY QuietSearch DEF Iter, Levels
<1>2. 1 \in Level /\ on[1] \in SUBSET Key /\ First \in Node
  BY SkipListAssumption DEF Level, Node
<1> DEFINE c == IF lower = First THEN next[First][1] ELSE Seek(lower)
           first == {k \in stored : lower <= k /\ k < upper}
<1>3. c \in on[1] \cup {Nil} /\ \A s \in on[1] : lower <= s => c <= s
  <2>1. CASE lower = First
    <3>1. IsSucc(on[1], First, next[First][1])
      BY <1>2 DEF Levels, Chains
    <3> QED
      BY <1>2, <2>1, <3>1, NilBehind DEF IsSucc
  <2>2. CASE lower # First
    <3>1. lower \in Key
      BY <2>2 DEF Node
    <3> QED
      BY <1>1, <2>2, <3>1, SeekIs
  <2> QED
    BY <2>1, <2>2
<1>4. iter'[r] = [cur |-> c, upper |-> upper, open |-> TRUE, first |-> first, seen |-> <<>>]
  BY DEF Iter, SkipListTypes
<1>5. first \subseteq on[1] /\ \A k \in first : ~ (k < c)
  <2>1. \A k \in first : k \in on[1] /\ lower <= k
    BY <1>1
  <2>2. c \in Nat /\ \A k \in on[1] : k \in Nat
    <3> HIDE DEF c
    <3> QED
      BY <1>2, <1>3, NilBehind
  <2> HIDE DEF c, first
  <2>3. ASSUME NEW k \in first
        PROVE  ~ (k < c)
    <3>1. k \in on[1] /\ lower <= k
      BY <2>1
    <3>2. c <= k /\ k \in Nat
      BY <1>3, <2>2, <3>1
    <3> QED
      BY <2>2, <3>2
  <2> QED
    BY <2>1, <2>3
<1>6. c \in Key \cup {Nil} /\ first \in SUBSET Key /\ <<>> \in Seq(Key)
  BY <1>1, <1>2, <1>3
<1> HIDE DEF c, first
<1>7. Walks(iter'[r], on[1])
  BY <1>3, <1>4, <1>5 DEF Walks
<1> QED
  BY <1>4, <1>6, <1>7

\* It goes on to the next key, and misses none.
LEMMA NextWalks ==
    ASSUME SkipListTypes, NEW on \in [Level -> SUBSET Key], Levels(on),
           NEW r \in Reader, Next1(r)
    PROVE  /\ iter'[r] \in [cur : Key \cup {Nil}, upper : Key \cup {Nil}, open : BOOLEAN,
                            first : SUBSET Key, seen : Seq(Key)]
           /\ Walks(iter'[r], on[1])
<1> DEFINE it == iter[r]
           c  == it.cur
           m  == next[c][1]
           s  == Append(it.seen, c)
<1>1. 1 \in Level /\ on[1] \in SUBSET Key
  BY SkipListAssumption DEF Level
<1>2. it \in [cur : Key \cup {Nil}, upper : Key \cup {Nil}, open : BOOLEAN,
              first : SUBSET Key, seen : Seq(Key)]
  BY DEF SkipListTypes
<1>3. Walks(it, on[1])
  BY DEF Levels
<1>4. it.open /\ c # Nil /\ c < it.upper
  BY DEF Next1, IsValid
<1>5. c \in on[1] /\ c \in Key
  BY <1>1, <1>3, <1>4 DEF Walks
<1>6. m \in on[1] \cup {Nil} /\ c < m /\ \A k \in on[1] : c < k => m <= k
  BY <1>1, <1>5 DEF Levels, Chains, IsSucc, Node
<1>7. iter'[r] = [it EXCEPT !.cur = m, !.seen = s]
  BY <1>2 DEF Next1, SkipListTypes
<1> HIDE DEF it, m
<1>8. /\ it.seen \in Seq(Key) /\ Len(it.seen) \in Nat
      /\ DOMAIN it.seen = 1 .. Len(it.seen)
      /\ s \in Seq(Key) /\ Len(s) = Len(it.seen) + 1
      /\ DOMAIN s = 1 .. Len(it.seen) + 1
      /\ \A i \in DOMAIN it.seen : s[i] = it.seen[i] /\ s[i] \in Key
      /\ s[Len(it.seen) + 1] = c
  BY <1>2, <1>5
<1>9. /\ iter'[r].cur = m /\ iter'[r].seen = s /\ iter'[r].open
      /\ iter'[r].upper = it.upper /\ iter'[r].first = it.first
  BY <1>2, <1>4, <1>7
<1>10. /\ iter'[r] \in [cur : Key \cup {Nil}, upper : Key \cup {Nil}, open : BOOLEAN,
                        first : SUBSET Key, seen : Seq(Key)]
  BY <1>1, <1>2, <1>6, <1>7, <1>8
<1>11. Walks(iter'[r], on[1])
  <2> DEFINE n == Len(it.seen) + 1
  <2>1. /\ \A i, j \in DOMAIN it.seen : i < j => it.seen[i] < it.seen[j]
        /\ \A i \in DOMAIN it.seen :
             it.seen[i] \in on[1] /\ it.seen[i] < c /\ it.seen[i] < it.upper
        /\ \A k \in it.first : k < c => \E i \in DOMAIN it.seen : it.seen[i] = k
        /\ it.first \subseteq on[1]
    BY <1>3, <1>4 DEF Walks
  <2>2. c \in Nat /\ m \in Nat /\ \A k \in on[1] : k \in Nat
    BY <1>1, <1>5, <1>6, NilBehind
  <2> HIDE DEF c, s
  <2>3. \A i \in DOMAIN s : i = n \/ (i \in DOMAIN it.seen /\ i < n)
    BY <1>8
  <2>4. ASSUME NEW i \in DOMAIN s
        PROVE  s[i] \in on[1] /\ s[i] < m /\ s[i] < it.upper
    <3>1. CASE i = n
      <4>1. s[i] = c
        BY <1>8, <3>1
      <4> QED
        BY <1>4, <1>5, <1>6, <4>1
    <3>2. CASE i \in DOMAIN it.seen
      <4>1. s[i] = it.seen[i] /\ s[i] \in on[1] /\ s[i] < c /\ s[i] < it.upper
        BY <1>8, <2>1, <3>2
      <4>2. s[i] \in Nat
        BY <2>2, <4>1
      <4>3. s[i] < m
        BY <1>6, <2>2, <4>1, <4>2
      <4> QED
        BY <4>1, <4>3
    <3> QED
      BY <2>3, <3>1, <3>2
  <2>5. ASSUME NEW i \in DOMAIN s, NEW j \in DOMAIN s, i < j
        PROVE  s[i] < s[j]
    <3>1. i \in DOMAIN it.seen
      BY <1>8, <2>3, <2>5
    <3>2. CASE j = n
      BY <1>8, <2>1, <3>1, <3>2
    <3>3. CASE j \in DOMAIN it.seen
      BY <1>8, <2>1, <2>5, <3>1, <3>3
    <3> QED
      BY <2>3, <3>2, <3>3
  <2>6. ASSUME NEW k \in it.first, k < m
        PROVE  \E i \in DOMAIN s : s[i] = k
    <3>1. k \in on[1] /\ k \in Nat
      BY <2>1, <2>2
    <3>4. ~ (c < k)
      <4>1. c < k => m <= k
        BY <1>6, <3>1
      <4> QED
        BY <2>2, <2>6, <3>1, <4>1
    <3>2. CASE k = c
      <4>1. n \in DOMAIN s /\ s[n] = k
        BY <1>8, <3>2
      <4> QED
        BY <4>1
    <3>3. CASE k < c
      <4>1. PICK i \in DOMAIN it.seen : it.seen[i] = k
        BY <2>1, <3>3
      <4>2. i \in DOMAIN s /\ s[i] = k
        BY <1>8, <4>1
      <4> QED
        BY <4>2
    <3> QED
      BY <2>2, <3>1, <3>2, <3>3, <3>4
  <2> HIDE DEF n
  <2> QED
    BY <1>6, <1>9, <2>1, <2>4, <2>5, <2>6 DEF Walks
<1> QED
  BY <1>10, <1>11

\* What readers do keeps the invariant.
LEMMA ReaderSteps ==
    ASSUME SkipListInv, Read
    PROVE  SkipListInv'
<1> USE DEF SkipListInv
<1>1. PICK on \in [Level -> SUBSET Key] : Levels(on)
  OBVIOUS
<1>2. UNCHANGED <<next, level, batch, locked, stores, stored>>
  BY DEF Read, Iter, Next1, Done
<1>3. Chains(on)' /\ Nested(on)' /\ Linked(on)'
  BY <1>1, <1>2, SameLinks DEF Levels
<1>4. PICK r \in Reader : \/ \E lower \in Node, upper \in Key \cup {Nil} : Iter(r, lower, upper)
                          \/ Next1(r) \/ Done(r)
  BY DEF Read
<1>5. /\ iter'[r] \in [cur : Key \cup {Nil}, upper : Key \cup {Nil}, open : BOOLEAN,
                       first : SUBSET Key, seen : Seq(Key)]
      /\ Walks(iter'[r], on[1])
  <2>1. CASE \E lower \in Node, upper \in Key \cup {Nil} : Iter(r, lower, upper)
    BY <1>1, <2>1, IterWalks
  <2>2. CASE Next1(r)
    BY <1>1, <2>2, NextWalks
  <2>3. CASE Done(r)
    <3>1. iter'[r] = NoIter
      BY <2>3 DEF Done, SkipListTypes
    <3>2. <<>> \in Seq(Key) /\ ~ NoIter.open
      BY DEF NoIter
    <3> QED
      BY <3>1, <3>2 DEF NoIter, Walks
  <2> QED
    BY <1>4, <2>1, <2>2, <2>3
<1>6. /\ DOMAIN iter' = Reader
      /\ \A q \in Reader \ {r} : iter'[q] = iter[q]
      /\ iter' = [q \in Reader |-> iter'[q]]
  BY <1>4 DEF SkipListTypes, Iter, Next1, Done
<1>7. (\A q \in Reader : Walks(iter[q], on[1]))'
  <2>1. ASSUME NEW q \in Reader
        PROVE  Walks(iter'[q], on[1])
    <3>1. Walks(iter[q], on[1])
      BY <1>1 DEF Levels
    <3> QED
      BY <1>5, <1>6, <3>1
  <2> QED
    BY <2>1
<1>8. SkipListTypes'
  BY <1>2, <1>5, <1>6 DEF SkipListTypes
<1>9. (~ locked => stores = <<>>)'
  BY <1>1, <1>2 DEF Levels
<1>10. Levels(on)'
  BY <1>3, <1>7, <1>9 DEF Levels
<1> QED
  BY <1>8, <1>10

-----------------------------------------------------------------------------
(* Linking a key. *)

\* The stores that link k, two for each level.
LEMMA LinkingIs ==
    ASSUME NEW k, NEW pred, NEW top \in Nat
    PROVE  /\ DOMAIN Linking(k, pred, top) = 1 .. 2 * top
           /\ Len(Linking(k, pred, top)) = 2 * top
           /\ \A i \in 1 .. top :
                /\ Linking(k, pred, top)[2 * (i - 1) + 1] = Store(k, i, next[pred[i]][i])
                /\ Linking(k, pred, top)[2 * (i - 1) + 2] = Store(pred[i], i, k)
<1> DEFINE At(j) == LET i == (j + 1) \div 2 IN
                    IF j % 2 = 1 THEN Store(k, i, next[pred[i]][i]) ELSE Store(pred[i], i, k)
           s == Linking(k, pred, top)
<1>1. s = [j \in 1 .. 2 * top |-> At(j)]
  BY DEF Linking
<1>2. 2 * top \in Nat
  OBVIOUS
<1>3. ASSUME NEW i \in 1 .. top
      PROVE  s[2 * (i - 1) + 1] = Store(k, i, next[pred[i]][i]) /\ s[2 * (i - 1) + 2] = Store(pred[i], i, k)
  <2> DEFINE a == 2 * (i - 1) + 1
             b == 2 * (i - 1) + 2
  <2>1. a \in 1 .. 2 * top /\ b \in 1 .. 2 * top
    OBVIOUS
  <2>2. /\ (a + 1) \div 2 = i /\ a % 2 = 1
        /\ (b + 1) \div 2 = i /\ b % 2 = 0
    OBVIOUS
  <2> HIDE DEF a, b
  <2>3. At(a) = Store(k, i, next[pred[i]][i]) /\ At(b) = Store(pred[i], i, k)
    BY <2>2
  <2> HIDE DEF At, s
  <2>4. s[a] = At(a) /\ s[b] = At(b)
    BY <1>1, <2>1
  <2> QED
    BY <2>3, <2>4 DEF a, b
<1> HIDE DEF At, s
<1>4. DOMAIN s = 1 .. 2 * top /\ Len(s) = 2 * top
  BY <1>1, <1>2
<1> QED
  BY <1>3, <1>4 DEF s

\* A key is linked between its neighbours on each level.
LEMMA InsertBetween ==
    ASSUME SkipListTypes, NEW on \in [Level -> SUBSET Key], Levels(on), stores = <<>>,
           NEW k \in Key, Seek(k) # k, NEW i \in Level, NEW p,
           p = IF i <= level THEN Preds(k)[i] ELSE First
    PROVE  Between(on[i], p, k, next[p][i])
<1>1. Searchable(on) /\ on[i] \in SUBSET Key /\ 1 \in Level /\ on[1] \in SUBSET Key
  BY QuietSearch, SkipListAssumption DEF Level
<1>2. k \notin on[1]
  <2> DEFINE m == Seek(k)
  <2>1. m \in on[1] \cup {Nil} /\ k <= m /\ (k \in on[1] => m <= k)
    <3>1. k <= k
      BY NilBehind
    <3> QED
      BY <1>1, <3>1, SeekIs
  <2>2. m # k
    OBVIOUS
  <2> HIDE DEF m
  <2>3. m \in Nat /\ k \in Nat
    BY <1>1, <2>1, NilBehind
  <2> QED
    BY <2>1, <2>2, <2>3
<1>3. k \notin on[i]
  <2>1. 1 <= i
    BY SkipListAssumption DEF Level
  <2>2. on[i] \subseteq on[1]
    BY <1>1, <2>1 DEF Searchable, Nested
  <2> QED
    BY <1>2, <2>2
<1>4. /\ p \in on[i] \cup {First} /\ p < k
      /\ \A n \in on[i] \cup {First} : n < k => n <= p
  <2>1. CASE i <= level
    <3>1. Preds(k) = [j \in 1 .. level |-> Before(on[j], k)] /\ level \in 1 .. MaxLevel
      BY <1>1, PredsAre
    <3>2. i \in 1 .. level
      BY <2>1, <3>1, SkipListAssumption DEF Level
    <3>3. p = Before(on[i], k)
      BY <2>1, <3>1, <3>2
    <3> QED
      BY <1>1, <3>3, BeforeIs
  <2>2. CASE ~ (i <= level)
    <3>1. i > level
      BY <2>2, SkipListAssumption DEF SkipListTypes, Level
    <3>2. on[i] = {} /\ p = First
      BY <1>1, <2>2, <3>1 DEF Searchable, Nested
    <3> QED
      BY <3>2, NilBehind
  <2> QED
    BY <2>1, <2>2
<1>5. IsSucc(on[i], p, next[p][i])
  BY <1>1, <1>4 DEF Searchable, Settled
<1>6. k < next[p][i]
  <2> DEFINE m == next[p][i]
  <2>1. m \in on[i] \cup {Nil} /\ p < m
    BY <1>5 DEF IsSucc
  <2> HIDE DEF m
  <2>2. m \in Nat /\ k \in Nat /\ p \in Nat /\ k < Nil
    BY <1>1, <1>4, <2>1, NilBehind
  <2>3. m \in on[i] => ~ (m < k) /\ m # k
    BY <1>3, <1>4, <2>1, <2>2
  <2> QED
    BY <2>1, <2>2, <2>3 DEF m
<1> QED
  BY <1>4, <1>5, <1>6 DEF Between

\* Insert finds the places of the new key and prepares its stores.
LEMMA InsertSteps ==
    ASSUME SkipListInv, NEW top \in Level, Insert(top)
    PROVE  SkipListInv'
<1> USE DEF SkipListInv
<1>1. PICK on \in [Level -> SUBSET Key] : Levels(on)
  OBVIOUS
<1>2. PICK k \in Key : k = batch[1] /\ Tail(batch) \in Seq(Key)
  BY DEF Insert, SkipListTypes
<1>3. /\ locked /\ stores = <<>> /\ Seek(k) # k
      /\ level' = Max({level, top}) /\ stored' = stored \cup {k} /\ batch' = Tail(batch)
      /\ UNCHANGED <<next, locked, iter>>
  BY <1>2 DEF Insert
<1> DEFINE Pred(i) == IF i <= level THEN Preds(k)[i] ELSE First
<1>4. ASSUME NEW i \in Level
      PROVE  Between(on[i], Pred(i), k, next[Pred(i)][i])
  BY <1>1, <1>3, InsertBetween
<1>5. \A i \in Level : Pred(i) \in Node /\ next[Pred(i)][i] \in Key \cup {Nil}
  <2> SUFFICES ASSUME NEW i \in Level
               PROVE  Pred(i) \in Node /\ next[Pred(i)][i] \in Key \cup {Nil}
    OBVIOUS
  <2>1. Pred(i) \in on[i] \cup {First} /\ on[i] \in SUBSET Key
    BY <1>4 DEF Between
  <2> HIDE DEF Pred
  <2>2. Pred(i) \in Node
    BY <2>1 DEF Node
  <2> QED
    BY <2>2 DEF SkipListTypes
<1>6. PICK pred \in [Level -> Node] : pred = [i \in Level |-> Pred(i)]
  BY <1>5
<1>7. PICK to \in [Level -> Key \cup {Nil}] : to = [i \in Level |-> next[pred[i]][i]]
  BY <1>5, <1>6
<1>8. /\ DOMAIN stores' = 1 .. 2 * top /\ Len(stores') = 2 * top
      /\ \A i \in 1 .. top : /\ stores'[2 * (i - 1) + 1] = Store(k, i, next[pred[i]][i])
                             /\ stores'[2 * (i - 1) + 2] = Store(pred[i], i, k)
  <2>1. stores' = Linking(k, pred, top)
    BY <1>2, <1>6 DEF Insert
  <2>2. top \in Nat
    BY SkipListAssumption DEF Level
  <2> DEFINE s == Linking(k, pred, top)
  <2>3. /\ DOMAIN s = 1 .. 2 * top /\ Len(s) = 2 * top
        /\ \A i \in 1 .. top : /\ s[2 * (i - 1) + 1] = Store(k, i, next[pred[i]][i])
                               /\ s[2 * (i - 1) + 2] = Store(pred[i], i, k)
    BY <2>2, LinkingIs, Zenon
  <2>4. stores' = s
    BY <2>1
  <2> HIDE DEF s
  <2> QED
    BY <2>3, <2>4
<1>9. \A i \in Level : /\ Between(on[i], pred[i], k, to[i]) /\ to[i] = next[pred[i]][i]
  BY <1>4, <1>6, <1>7
<1>10. level' \in Level /\ level <= level' /\ top <= level'
  <2> DEFINE m == IF level < top THEN top ELSE level
  <2>1. /\ level \in Int /\ top \in Int /\ level \in Level
    BY SkipListAssumption DEF SkipListTypes, Level
  <2>2. m \in {level, top} /\ \A x \in {level, top} : x <= m
    BY <2>1
  <2>3. Max({level, top}) \in {level, top} /\ \A x \in {level, top} : x <= Max({level, top})
    BY <2>2 DEF Max
  <2> QED
    BY <1>3, <2>1, <2>3
<1>11. 1 \in Level /\ top \in Nat /\ 1 <= top /\ Level \subseteq Nat
       /\ \A i \in Level : ~ (i < 1)
  BY SkipListAssumption DEF Level
<1>12. stored = on[1] /\ \A i \in Level : \A n \in Key \ on[i] : next[n][i] = Nil
  BY <1>1, <1>3 DEF Levels, Linked
<1>13. Underway(on, k, pred, to, 1, 0, top)'
  <2>1. /\ 1 <= top /\ top <= level'
        /\ DOMAIN stores' = 1 .. 2 * (top - 1) + 2 - 0
        /\ Len(stores') = 2 * (top - 1) + 2 - 0
    <3>1. 2 * (top - 1) + 2 - 0 = 2 * top
      BY <1>11
    <3> QED
      BY <1>8, <1>10, <1>11, <3>1
  <2>2. ASSUME NEW i \in Level, 1 <= i, i <= top
        PROVE  /\ stores'[2 * (i - 1) + 1 - 0] = Store(k, i, to[i])
               /\ stores'[2 * (i - 1) + 2 - 0] = Store(pred[i], i, k)
    <3>1. i \in 1 .. top
      BY <1>11, <2>2
    <3>2. to[i] = next[pred[i]][i]
      BY <1>9
    <3>3. 2 * (i - 1) + 1 - 0 = 2 * (i - 1) + 1 /\ 2 * (i - 1) + 2 - 0 = 2 * (i - 1) + 2
      BY <1>11
    <3> QED
      BY <1>8, <3>1, <3>2, <3>3
  <2>3. stored' = on[1] \cup {k}
    BY <1>3, <1>12
  <2>4. next' = next
    BY <1>3
  <2> QED
    BY <1>9, <1>11, <1>12, <2>1, <2>2, <2>3, <2>4 DEF Underway
<1>14. stores' # <<>>
  BY <1>8, <1>11
<1>15. Linked(on)'
  <2>1. \E q \in Key, p \in [Level -> Node], t \in [Level -> Key \cup {Nil}],
           at \in Level, half \in {0, 1}, up \in Level :
             Underway(on, q, p, t, at, half, up)'
    BY <1>11, <1>13
  <2> QED
    BY <1>14, <2>1 DEF Linked
<1>16. Chains(on)'
  BY <1>1, <1>3 DEF Levels, Chains
<1>17. Nested(on)'
  <2>1. \A i \in Level : i > level' => i > level
    BY <1>10, <1>11 DEF SkipListTypes
  <2> QED
    BY <1>1, <2>1 DEF Levels, Nested
<1>18. Levels(on)'
  <2>1. (\A r \in Reader : Walks(iter[r], on[1]))'
    BY <1>1, <1>3 DEF Levels
  <2> QED
    BY <1>3, <1>15, <1>16, <1>17, <2>1 DEF Levels
<1>19. SkipListTypes'
  BY <1>2, <1>3, <1>10 DEF SkipListTypes
<1> QED
  BY <1>18, <1>19

\* One store becomes visible.
Written(n, i, to) == next' = [next EXCEPT ![n][i] = to]

\* In the order in which they were made, stores become visible one by one.
LEMMA PerformIs ==
    ASSUME ~ Reordered, Perform, NEW n \in Nat,
           DOMAIN stores = 1 .. n, Len(stores) = n
    PROVE  /\ n # 0
           /\ Written(stores[1].node, stores[1].level, stores[1].to)
           /\ DOMAIN stores' = 1 .. n - 1 /\ Len(stores') = n - 1
           /\ \A i \in 1 .. n - 1 : stores'[i] = stores[i + 1]
           /\ n = 1 <=> stores' = <<>>
<1>1. PICK j \in DOMAIN stores :
        /\ j = 1
        /\ next' = [next EXCEPT ![stores[j].node][stores[j].level] = stores[j].to]
        /\ stores' = [i \in 1 .. Len(stores) - 1 |-> stores[IF i < j THEN i ELSE i + 1]]
  BY DEF Perform
<1>2. n # 0 /\ n - 1 \in Nat
  BY <1>1
<1>3. stores' = [i \in 1 .. n - 1 |-> stores[i + 1]]
  BY <1>1
<1>4. DOMAIN stores' = 1 .. n - 1 /\ Len(stores') = n - 1
  BY <1>2, <1>3
<1>5. n = 1 <=> stores' = <<>>
  <2>1. CASE n = 1
    <3>1. stores' = [i \in 1 .. 0 |-> stores[i + 1]]
      BY <1>3, <2>1
    <3> QED
      BY <2>1, <3>1
  <2>2. CASE n # 1
    BY <1>2, <1>4, <2>2
  <2> QED
    BY <2>1, <2>2
<1> QED
  BY <1>1, <1>2, <1>3, <1>4, <1>5 DEF Written

\* The new node's own pointer changes no chain.
LEMMA OwnPointer ==
    ASSUME SkipListTypes, NEW on \in [Level -> SUBSET Key], Chains(on),
           NEW k \in Key, NEW at \in Level, NEW p, NEW m \in Key \cup {Nil},
           Between(on[at], p, k, m),
           Written(k, at, m)
    PROVE  Chains(on)' /\ next' \in [Node -> [Level -> Key \cup {Nil}]]
<1>1. k \in Node
  BY DEF Node
<1>2. /\ next'[k][at] = m
      /\ \A i \in Level, n \in Node : n # k \/ i # at => next'[n][i] = next[n][i]
      /\ next' \in [Node -> [Level -> Key \cup {Nil}]]
  BY <1>1 DEF SkipListTypes, Written
<1>3. k \notin on[at]
  BY NilBehind DEF Between, IsSucc
<1>4. Chains(on)'
  <2> SUFFICES ASSUME NEW i \in Level, NEW n \in Node, n \in on[i] \cup {First}
               PROVE  IsSucc(on[i], n, next'[n][i])
    BY DEF Chains
  <2>1. n # k \/ i # at
    BY <1>3, NilBehind
  <2> QED
    BY <1>2, <2>1 DEF Chains
<1> QED
  BY <1>2, <1>4

\* With the pointer to it, the new node is in the chain of the level.
LEMMA PointerToIt ==
    ASSUME SkipListTypes, NEW on \in [Level -> SUBSET Key], Chains(on),
           NEW k \in Key, NEW at \in Level, NEW p, NEW m \in Key \cup {Nil},
           Between(on[at], p, k, m),
           next[k][at] = m, Written(p, at, k),
           NEW now \in [Level -> SUBSET Key], now = [on EXCEPT ![at] = @ \cup {k}]
    PROVE  Chains(now)' /\ next' \in [Node -> [Level -> Key \cup {Nil}]]
<1> USE DEF Between
<1>1. /\ p \in Node /\ k \in Node /\ p # k /\ on[at] \in SUBSET Key
      /\ p \in Nat /\ k \in Nat /\ m \in Nat /\ First < k
      /\ \A s \in on[at] \cup {First, k} : s \in Nat
  <2>1. on[at] \in SUBSET Key
    OBVIOUS
  <2>2. p \in Nat /\ k \in Nat /\ m \in Nat /\ \A s \in on[at] \cup {First, k} : s \in Nat
    BY <2>1, NilBehind
  <2> QED
    BY <2>1, <2>2, NilBehind DEF Node
<1>2. /\ next'[p][at] = k
      /\ \A i \in Level, n \in Node : n # p \/ i # at => next'[n][i] = next[n][i]
      /\ next' \in [Node -> [Level -> Key \cup {Nil}]]
  BY <1>1 DEF SkipListTypes, Written
<1>3. now[at] = on[at] \cup {k} /\ \A i \in Level \ {at} : now[i] = on[i]
  OBVIOUS
<1>4. ASSUME NEW i \in Level, NEW n \in Node, n \in now[i] \cup {First}
      PROVE  IsSucc(now[i], n, next'[n][i])
  <2>1. CASE i # at
    <3>1. now[i] = on[i] /\ next'[n][i] = next[n][i]
      BY <1>2, <1>3, <2>1
    <3> QED
      BY <1>4, <3>1 DEF Chains
  <2>2. CASE i = at /\ n = p
    <3>1. \A s \in on[at] : p < s => k <= s
      BY <1>1 DEF IsSucc
    <3>2. IsSucc(on[at] \cup {k}, p, k)
      BY <1>1, <3>1 DEF IsSucc
    <3> QED
      BY <1>2, <1>3, <2>2, <3>2
  <2>3. CASE i = at /\ n = k
    <3>1. next'[n][i] = m
      BY <1>1, <1>2, <2>3
    <3>2. m \in on[at] \cup {Nil} /\ \A s \in on[at] : k < s => m <= s
      BY <1>1 DEF IsSucc
    <3>3. IsSucc(on[at] \cup {k}, k, m)
      BY <1>1, <3>2 DEF IsSucc
    <3> QED
      BY <1>3, <2>3, <3>1, <3>3
  <2>4. CASE i = at /\ n # p /\ n # k
    <3>1. n \in on[at] \cup {First} /\ next'[n][i] = next[n][at]
      BY <1>2, <1>3, <1>4, <2>4
    <3> DEFINE q == next[n][at]
    <3>2. q \in on[at] \cup {Nil} /\ n < q /\ \A s \in on[at] : n < s => q <= s
      BY <3>1 DEF Chains, IsSucc
    <3> HIDE DEF q
    <3>3. n \in Nat /\ q \in Nat
      BY <1>1, <3>1, <3>2, NilBehind
    <3>4. CASE n < p
      <4>1. p \in on[at]
        BY <1>1, <3>1, <3>4, NilBehind
      <4>2. q <= p
        BY <3>2, <3>4, <4>1
      <4>3. q <= k
        BY <1>1, <3>3, <4>2
      <4> QED
        BY <1>3, <2>4, <3>1, <3>2, <4>3 DEF IsSucc, q
    <3>5. CASE p < n
      <4>1. n \in on[at]
        BY <1>1, <3>1, <3>5, NilBehind
      <4>2. m <= n
        BY <3>5, <4>1 DEF IsSucc
      <4>3. ~ (n < k)
        BY <1>1, <3>3, <4>2
      <4> QED
        BY <1>3, <2>4, <3>1, <3>2, <4>3 DEF IsSucc, q
    <3> QED
      BY <1>1, <2>4, <3>3, <3>4, <3>5
  <2> QED
    BY <2>1, <2>2, <2>3, <2>4
<1>5. Chains(now)'
  BY <1>4 DEF Chains
<1> QED
  BY <1>2, <1>5

\* What Perform does to the put under way, k's own pointer first.
LEMMA PerformOwn ==
    ASSUME SkipListTypes, ~ Reordered, Perform,
           NEW on \in [Level -> SUBSET Key], Chains(on), stores # <<>>,
           NEW k \in Key, NEW pred \in [Level -> Node], NEW to \in [Level -> Key \cup {Nil}],
           NEW at \in Level, NEW top \in Level, Underway(on, k, pred, to, at, 0, top)
    PROVE  /\ Chains(on)' /\ Linked(on)'
           /\ next' \in [Node -> [Level -> Key \cup {Nil}]]
<1>0. /\ at \in Nat /\ top \in Nat /\ level \in Nat /\ at <= top /\ Level \subseteq Nat
      /\ at <= at
  BY SkipListAssumption DEF Underway, SkipListTypes, Level
<1> DEFINE n == 2 * (top - at) + 2
<1>1. n \in Nat /\ n - 0 = n /\ n >= 2 /\ DOMAIN stores = 1 .. n /\ Len(stores) = n
  BY <1>0 DEF Underway
<1>2. /\ stores[1] = Store(k, at, to[at])
      /\ Between(on[at], pred[at], k, to[at])
  <2>1. 2 * (at - at) + 1 - 0 = 1
    BY <1>0
  <2> QED
    BY <1>0, <2>1 DEF Underway
<1>3. stores[1].node = k /\ stores[1].level = at /\ stores[1].to = to[at]
  BY <1>2 DEF Store
<1> HIDE DEF n
<1>4. /\ Written(k, at, to[at])
      /\ DOMAIN stores' = 1 .. n - 1 /\ Len(stores') = n - 1
      /\ \A i \in 1 .. n - 1 : stores'[i] = stores[i + 1]
      /\ n = 1 <=> stores' = <<>>
  BY <1>1, <1>3, PerformIs
<1>5. /\ Chains(on)'
      /\ next' \in [Node -> [Level -> Key \cup {Nil}]]
      /\ next'[k][at] = to[at]
      /\ \A i \in Level, q \in Node : q # k \/ i # at => next'[q][i] = next[q][i]
  <2>1. PICK p \in Node, m \in Key \cup {Nil} : p = pred[at] /\ m = to[at]
    OBVIOUS
  <2>2. /\ Between(on[at], p, k, m)
        /\ Written(k, at, m)
    BY <1>2, <1>4, <2>1
  <2>3. Chains(on)' /\ next' \in [Node -> [Level -> Key \cup {Nil}]]
    BY <2>2, OwnPointer, Zenon
  <2>4. /\ next'[k][at] = m
        /\ \A i \in Level, q \in Node : q # k \/ i # at => next'[q][i] = next[q][i]
    BY <2>2 DEF SkipListTypes, Written, Node
  <2> QED
    BY <2>1, <2>3, <2>4
<1>6. UNCHANGED <<level, batch, locked, iter, stored>>
  BY DEF Perform
<1>7. Underway(on, k, pred, to, at, 1, top)'
  <2>1. /\ at <= top /\ top <= level'
        /\ DOMAIN stores' = 1 .. 2 * (top - at) + 2 - 1
        /\ Len(stores') = 2 * (top - at) + 2 - 1
    BY <1>0, <1>4, <1>6 DEF Underway, n
  <2>2. ASSUME NEW i \in Level, at <= i, i <= top
        PROVE  /\ i > at => stores'[2 * (i - at) + 1 - 1] = Store(k, i, to[i])
               /\ stores'[2 * (i - at) + 2 - 1] = Store(pred[i], i, k)
    <3>1. /\ stores[2 * (i - at) + 1 - 0] = Store(k, i, to[i])
          /\ stores[2 * (i - at) + 2 - 0] = Store(pred[i], i, k)
      BY <2>2 DEF Underway
    <3> DEFINE a == 2 * (i - at)
    <3>2. i \in Nat /\ a \in Nat /\ a + 1 \in 1 .. n - 1 /\ (i > at => a \in 1 .. n - 1)
      BY <1>0, <2>2 DEF n
    <3>3. a + 1 - 0 = a + 1 /\ a + 2 - 0 = (a + 1) + 1 /\ a + 1 - 1 = a /\ a + 2 - 1 = a + 1
      BY <3>2
    <3> HIDE DEF a
    <3>4. i > at => stores'[a] = stores[a + 1]
      BY <1>4, <3>2
    <3>5. stores'[a + 1] = stores[(a + 1) + 1]
      BY <1>4, <3>2
    <3> QED
      BY <3>1, <3>3, <3>4, <3>5 DEF a
  <2>3. \A i \in Level : at <= i /\ i <= top =>
           /\ Between(on[i], pred[i], k, to[i])
    BY DEF Underway
  <2>4. \A i \in Level : i < at => k \in on[i]
    BY DEF Underway
  <2>5. \A i \in Level : \A q \in Key \ on[i] : next'[q][i] = Nil \/ (q = k /\ i = at)
    <3>1. \A i \in Level : \A q \in Key \ on[i] : next[q][i] = Nil
      BY DEF Underway
    <3> QED
      BY <1>5, <3>1 DEF Node
  <2>6. stored' = on[1] \cup {k}
    BY <1>6 DEF Underway
  <2> QED
    BY <1>5, <2>1, <2>2, <2>3, <2>4, <2>5, <2>6 DEF Underway
<1>8. Linked(on)'
  <2>1. stores' # <<>>
    BY <1>1, <1>4
  <2> QED
    BY <1>7, <2>1 DEF Linked
<1> QED
  BY <1>5, <1>8

\* Then the pointer to it, which puts k on the level.
LEMMA PerformLink ==
    ASSUME SkipListTypes, ~ Reordered, Perform,
           NEW on \in [Level -> SUBSET Key], Chains(on), Nested(on), stores # <<>>,
           NEW k \in Key, NEW pred \in [Level -> Node], NEW to \in [Level -> Key \cup {Nil}],
           NEW at \in Level, NEW top \in Level, Underway(on, k, pred, to, at, 1, top),
           NEW now \in [Level -> SUBSET Key], now = [on EXCEPT ![at] = @ \cup {k}]
    PROVE  /\ Chains(now)' /\ Nested(now)' /\ Linked(now)'
           /\ next' \in [Node -> [Level -> Key \cup {Nil}]]
<1>0. /\ at \in Nat /\ top \in Nat /\ level \in Nat /\ at <= top /\ top <= level
      /\ Level \subseteq Nat /\ at <= at /\ Level = 1 .. MaxLevel /\ MaxLevel \in Nat
  BY SkipListAssumption DEF Underway, SkipListTypes, Level
<1> DEFINE n == 2 * (top - at) + 1
<1>1. n \in Nat /\ 2 * (top - at) + 2 - 1 = n /\ DOMAIN stores = 1 .. n /\ Len(stores) = n
  <2>1. n \in Nat /\ 2 * (top - at) + 2 - 1 = n
    BY <1>0
  <2> QED
    BY <2>1 DEF Underway
<1>2. /\ stores[1] = Store(pred[at], at, k)
      /\ Between(on[at], pred[at], k, to[at])
      /\ next[k][at] = to[at]
  <2>1. 2 * (at - at) + 2 - 1 = 1
    BY <1>0
  <2> QED
    BY <1>0, <2>1 DEF Underway
<1>3. stores[1].node = pred[at] /\ stores[1].level = at /\ stores[1].to = k
  BY <1>2 DEF Store
<1> HIDE DEF n
<1>4. /\ Written(pred[at], at, k)
      /\ DOMAIN stores' = 1 .. n - 1 /\ Len(stores') = n - 1
      /\ \A i \in 1 .. n - 1 : stores'[i] = stores[i + 1]
      /\ n = 1 <=> stores' = <<>>
  BY <1>1, <1>3, PerformIs
<1>5. /\ Chains(now)'
      /\ next' \in [Node -> [Level -> Key \cup {Nil}]]
      /\ \A i \in Level, q \in Node : q # pred[at] \/ i # at => next'[q][i] = next[q][i]
  <2>1. PICK p \in Node, m \in Key \cup {Nil} : p = pred[at] /\ m = to[at]
    OBVIOUS
  <2>2. /\ Between(on[at], p, k, m)
        /\ next[k][at] = m /\ Written(p, at, k)
    BY <1>2, <1>4, <2>1
  <2>3. Chains(now)' /\ next' \in [Node -> [Level -> Key \cup {Nil}]]
    BY <2>2, PointerToIt, Zenon
  <2>4. \A i \in Level, q \in Node : q # p \/ i # at => next'[q][i] = next[q][i]
    BY <2>2 DEF SkipListTypes, Written
  <2> QED
    BY <2>1, <2>3, <2>4
<1>6. UNCHANGED <<level, batch, locked, iter, stored>>
  BY DEF Perform
<1>7. now[at] = on[at] \cup {k} /\ \A i \in Level \ {at} : now[i] = on[i]
  OBVIOUS
<1>8. Nested(now)'
  <2>1. ASSUME NEW i \in Level, NEW j \in Level, j <= i
        PROVE  now[i] \subseteq now[j]
    <3>1. on[i] \subseteq on[j]
      BY <2>1 DEF Nested
    <3>2. CASE i = at /\ j # at
      <4>1. j < at
        BY <1>0, <2>1, <3>2
      <4>2. k \in on[j]
        BY <4>1 DEF Underway
      <4> QED
        BY <1>7, <3>1, <3>2, <4>2
    <3>3. CASE i # at \/ j = at
      BY <1>7, <3>1, <3>3
    <3> QED
      BY <3>2, <3>3
  <2>2. ASSUME NEW i \in Level, i > level
        PROVE  now[i] = {}
    <3>1. i # at
      BY <1>0, <2>2
    <3> QED
      BY <1>7, <2>2, <3>1 DEF Nested
  <2> QED
    BY <1>6, <2>1, <2>2 DEF Nested
<1>9. stored' = now[1] \cup {k} /\ \A i \in Level : i < at + 1 => k \in now[i]
  <2>1. stored = on[1] \cup {k} /\ \A i \in Level : i < at => k \in on[i]
    BY DEF Underway
  <2>2. 1 \in Level
    BY SkipListAssumption DEF Level
  <2>3. \A i \in Level : i < at + 1 => i < at \/ i = at
    BY <1>0
  <2> QED
    BY <1>6, <1>7, <2>1, <2>2, <2>3
<1>10. \A i \in Level : \A q \in Key \ now[i] : next'[q][i] = Nil
  <2> SUFFICES ASSUME NEW i \in Level, NEW q \in Key \ now[i]
               PROVE  next'[q][i] = Nil
    OBVIOUS
  <2>1. q \notin on[i] /\ (i = at => q # k)
    BY <1>7
  <2>2. next[q][i] = Nil
    BY <2>1 DEF Underway
  <2>3. q # pred[at] \/ i # at
    BY <1>2, <2>1, NilBehind DEF Between
  <2> QED
    BY <1>5, <2>2, <2>3 DEF Node
<1>11. CASE at = top
  <2>1. stores' = <<>>
    BY <1>0, <1>4, <1>11 DEF n
  <2>2. stored' = now[1]
    <3>1. 1 \in Level /\ 1 < at + 1
      BY <1>0
    <3> QED
      BY <1>9, <3>1
  <2> QED
    BY <1>5, <1>8, <1>10, <2>1, <2>2 DEF Linked
<1>12. CASE at # top
  <2>1. at + 1 \in Level /\ at + 1 \in Nat /\ at + 1 <= top
    BY <1>0, <1>12
  <2>2. /\ DOMAIN stores' = 1 .. 2 * (top - (at + 1)) + 2 - 0
        /\ Len(stores') = 2 * (top - (at + 1)) + 2 - 0
        /\ stores' # <<>>
    <3>1. n - 1 = 2 * (top - (at + 1)) + 2 - 0 /\ n # 1
      BY <1>0, <1>12 DEF n
    <3> QED
      BY <1>4, <3>1
  <2>3. ASSUME NEW i \in Level, at + 1 <= i, i <= top
        PROVE  /\ stores'[2 * (i - (at + 1)) + 1 - 0] = Store(k, i, to[i])
               /\ stores'[2 * (i - (at + 1)) + 2 - 0] = Store(pred[i], i, k)
               /\ Between(now[i], pred[i], k, to[i])
    <3>1. i > at /\ at <= i /\ i # at
      BY <1>0, <2>3
    <3>2. /\ stores[2 * (i - at) + 1 - 1] = Store(k, i, to[i])
          /\ stores[2 * (i - at) + 2 - 1] = Store(pred[i], i, k)
          /\ Between(on[i], pred[i], k, to[i])
      BY <2>3, <3>1 DEF Underway
    <3>3. now[i] = on[i]
      BY <1>7, <3>1
    <3> DEFINE a == 2 * (i - (at + 1)) + 1
    <3>4. i \in Nat /\ a \in 1 .. n - 1 /\ a + 1 \in 1 .. n - 1
      BY <1>0, <2>3 DEF n
    <3>5. /\ 2 * (i - at) + 1 - 1 = a + 1
          /\ 2 * (i - at) + 2 - 1 = (a + 1) + 1
          /\ 2 * (i - (at + 1)) + 1 - 0 = a
          /\ 2 * (i - (at + 1)) + 2 - 0 = a + 1
      BY <1>0, <3>4
    <3> HIDE DEF a
    <3>6. stores'[a] = stores[a + 1] /\ stores'[a + 1] = stores[(a + 1) + 1]
      BY <1>4, <3>4
    <3> QED
      BY <3>2, <3>3, <3>5, <3>6
  <2>4. Underway(now, k, pred, to, at + 1, 0, top)'
    <3>1. at + 1 <= top /\ top <= level'
      BY <1>0, <1>6, <2>1
    <3>2. ~ (0 = 1) /\ 0 = 0
      OBVIOUS
    <3> DEFINE up == at + 1
    <3>3. \A i \in Level : up <= i /\ i <= top
            =>
            /\ i > up \/ 0 = 0 => stores'[2 * (i - up) + 1 - 0] = Store(k, i, to[i])
            /\ stores'[2 * (i - up) + 2 - 0] = Store(pred[i], i, k)
            /\ Between(now[i], pred[i], k, to[i])
      BY <2>3
    <3>4. \A i \in Level : \A q \in Key \ now[i] :
            next'[q][i] = Nil \/ (q = k /\ i = up /\ 0 = 1)
      BY <1>10
    <3>5. /\ DOMAIN stores' = 1 .. 2 * (top - up) + 2 - 0
          /\ Len(stores') = 2 * (top - up) + 2 - 0
      BY <2>2
    <3>6. up <= top /\ \A i \in Level : i < up => k \in now[i]
      BY <1>9, <3>1
    <3> HIDE DEF up
    <3>7. Underway(now, k, pred, to, up, 0, top)'
      BY <1>9, <3>1, <3>2, <3>3, <3>4, <3>5, <3>6 DEF Underway
    <3> QED
      BY <3>7 DEF up
  <2>5. Linked(now)'
    BY <2>1, <2>2, <2>4 DEF Linked
  <2> QED
    BY <1>5, <1>8, <2>5
<1> QED
  BY <1>11, <1>12

\* Each store keeps the invariant, with k on one level more every other time.
LEMMA PerformSteps ==
    ASSUME SkipListInv, ~ Reordered, Perform
    PROVE  SkipListInv'
<1> USE DEF SkipListInv
<1>1. PICK on \in [Level -> SUBSET Key] : Levels(on)
  OBVIOUS
<1>2. stores # <<>>
  BY DEF Perform
<1>3. PICK k \in Key, pred \in [Level -> Node], to \in [Level -> Key \cup {Nil}],
           at \in Level, half \in {0, 1}, top \in Level :
        Underway(on, k, pred, to, at, half, top)
  BY <1>1, <1>2 DEF Levels, Linked
<1>4. PICK now \in [Level -> SUBSET Key] :
        /\ Chains(now)' /\ Nested(now)' /\ Linked(now)'
        /\ next' \in [Node -> [Level -> Key \cup {Nil}]]
        /\ on[1] \subseteq now[1]
  <2>1. CASE half = 0
    <3>1. Chains(on)' /\ Linked(on)' /\ next' \in [Node -> [Level -> Key \cup {Nil}]]
      BY <1>1, <1>2, <1>3, <2>1, PerformOwn DEF Levels
    <3>2. Nested(on)'
      BY <1>1 DEF Levels, Nested, Perform
    <3> QED
      BY <3>1, <3>2
  <2>2. CASE half = 1
    <3>1. PICK now \in [Level -> SUBSET Key] : now = [on EXCEPT ![at] = @ \cup {k}]
      <4>1. on[at] \cup {k} \in SUBSET Key
        OBVIOUS
      <4> QED
        BY <4>1
    <3>2. /\ Chains(now)' /\ Nested(now)' /\ Linked(now)'
          /\ next' \in [Node -> [Level -> Key \cup {Nil}]]
      BY <1>1, <1>2, <1>3, <2>2, <3>1, PerformLink DEF Levels
    <3>3. on[1] \subseteq now[1]
      BY <3>1, SkipListAssumption DEF Level
    <3> QED
      BY <3>2, <3>3
  <2> QED
    BY <2>1, <2>2
<1>5. UNCHANGED <<level, batch, locked, iter, stored>>
  BY DEF Perform
<1>6. SkipListTypes'
  BY <1>4, <1>5 DEF SkipListTypes
<1>7. (\A r \in Reader : Walks(iter[r], now[1]))'
  <2>1. ASSUME NEW r \in Reader
        PROVE  Walks(iter'[r], now[1])
    BY <1>1, <1>4, <1>5, WalksMore DEF Levels
  <2> QED
    BY <2>1
<1>8. (~ locked => stores = <<>>)'
  BY <1>1, <1>2, <1>5 DEF Levels
<1>9. Levels(now)'
  BY <1>4, <1>7, <1>8 DEF Levels
<1> QED
  BY <1>6, <1>9

\* So the invariant holds throughout.
LEMMA SkipListInvStep == ~ Reordered /\ SkipListInv /\ [Next]_vars => SkipListInv'
<1> SUFFICES ASSUME ~ Reordered, SkipListInv, [Next]_vars
             PROVE  SkipListInv'
  OBVIOUS
<1>1. CASE Lock \/ Overwrite \/ Unlock
  BY <1>1, WriterSteps
<1>2. CASE \E top \in Level : Insert(top)
  BY <1>2, InsertSteps
<1>3. CASE Perform
  BY <1>3, PerformSteps
<1>4. CASE Read
  BY <1>4, ReaderSteps
<1>5. CASE UNCHANGED vars
  <2>1. PICK on \in [Level -> SUBSET Key] : Levels(on)
    BY DEF SkipListInv
  <2>2. Chains(on)' /\ Nested(on)' /\ Linked(on)'
    BY <1>5, <2>1, SameLinks DEF Levels, vars
  <2>3. (~ locked => stores = <<>>)' /\ (\A r \in Reader : Walks(iter[r], on[1]))'
    BY <1>5, <2>1 DEF Levels, vars
  <2>4. Levels(on)'
    BY <2>2, <2>3 DEF Levels
  <2> QED
    BY <1>5, <2>4 DEF SkipListInv, SkipListTypes, vars
<1> QED
  BY <1>1, <1>2, <1>3, <1>4, <1>5 DEF Next, PutBatch

LEMMA SkipListInvAlways == ~ Reordered => (Spec => []SkipListInv)
<1> SUFFICES ASSUME ~ Reordered
             PROVE  Spec => []SkipListInv
  OBVIOUS
<1>1. SkipListInv /\ [Next]_vars => SkipListInv'
  BY SkipListInvStep
<1> QED
  BY <1>1, SkipListInvInit, PTL DEF Spec

(***************************************************************************)
(* Whenever the mutex is free, get and seek find the least key at or above *)
(* the one looked for, whatever heights the nodes have and whatever was    *)
(* put (skiplist.go:76-102).                                               *)
(***************************************************************************)
THEOREM SkipListSearchExact == ~ Reordered => (Spec => []SearchExact)
<1>1. SkipListInv => SearchExact
  <2> SUFFICES ASSUME SkipListInv, ~ locked, NEW k \in Key
               PROVE  Seek(k) = Min({s \in stored : s >= k} \cup {Nil})
    BY DEF SearchExact
  <2>1. PICK on \in [Level -> SUBSET Key] : Levels(on)
    BY DEF SkipListInv
  <2>2. Searchable(on) /\ stored = on[1]
    BY <2>1, QuietSearch DEF Levels, SkipListInv
  <2> DEFINE m == Seek(k)
             S == {s \in stored : s >= k} \cup {Nil}
  <2>3. m \in stored \cup {Nil} /\ k <= m /\ \A s \in stored : k <= s => m <= s
    BY <2>2, SeekIs
  <2>4. stored \in SUBSET Key
    BY DEF SkipListInv, SkipListTypes
  <2> HIDE DEF m
  <2>5. m \in Nat /\ k \in Nat /\ \A s \in stored : s \in Nat /\ s < Nil
    BY <2>3, <2>4, NilBehind
  <2>6. m \in S
    BY <2>3, <2>5
  <2>7. \A s \in S : s \in Nat /\ m <= s
    <3>1. Nil \in Nat /\ m <= Nil
      BY <2>3, <2>5, NilBehind
    <3> QED
      BY <2>3, <2>5, <3>1
  <2>8. S \subseteq Nat
    BY <2>7
  <2> HIDE DEF S
  <2>9. Min(S) \in S /\ \A s \in S : Min(S) <= s
    BY <2>6, <2>7 DEF Min
  <2>10. Min(S) = m
    <3>1. m <= Min(S) /\ Min(S) <= m /\ Min(S) \in Nat
      BY <2>6, <2>7, <2>8, <2>9
    <3> QED
      BY <2>5, <3>1
  <2> QED
    BY <2>10 DEF S, m
<1> QED
  BY <1>1, SkipListInvAlways, PTL

(***************************************************************************)
(* An iterator that follows next[0] without the mutex, while batches are   *)
(* linked, meets its keys in ascending order, none that was not put, and   *)
(* every one that was there when it began (memtable.go:133-163).           *)
(***************************************************************************)
THEOREM SkipListIterationExact == ~ Reordered => (Spec => []IterationExact)
<1>1. SkipListInv => IterationExact
  <2> SUFFICES ASSUME SkipListInv, NEW r \in Reader, iter[r].open
               PROVE  LET it   == iter[r]
                          seen == {it.seen[j] : j \in DOMAIN it.seen} IN
                      /\ \A i, j \in DOMAIN it.seen : i < j => it.seen[i] < it.seen[j]
                      /\ \A k \in seen : k < it.cur /\ k < it.upper
                      /\ seen \subseteq stored
                      /\ {k \in it.first : k < it.cur} \subseteq seen
    BY DEF IterationExact
  <2>1. PICK on \in [Level -> SUBSET Key] : Levels(on)
    BY DEF SkipListInv
  <2>2. on[1] \subseteq stored
    BY <2>1 DEF Levels, Linked, Underway
  <2>3. Walks(iter[r], on[1])
    BY <2>1 DEF Levels
  <2> QED
    BY <2>2, <2>3 DEF Walks
<1> QED
  BY <1>1, SkipListInvAlways, PTL
=============================================================================
