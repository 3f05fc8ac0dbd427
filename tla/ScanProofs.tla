------------------------------ MODULE ScanProofs ------------------------------
(***************************************************************************)
(* A scan hands out its snapshot, for every set of keys and versions, any  *)
(* number of sources and every interleaving of the commits with it.        *)
(*                                                                         *)
(* The invariant has two halves.  The merge is at one place in the order   *)
(* of keys, and what it has passed of the snapshot is exactly what lies    *)
(* before that place: whatever a commit inserts is no part of the          *)
(* snapshot.  The reader is at a frontier c: the keys below c are decided  *)
(* (handed out, pending or without an answer), and of the keys above it    *)
(* the merge has passed only deleted ones.                                 *)
(***************************************************************************)
EXTENDS ScanProps, OperatorProofs, SequenceTheorems

-----------------------------------------------------------------------------
(* The inductive invariant. *)

Stamped == [key : Key, ts : 1 .. MaxTs, val : Stored]

Heads == [1 .. Tiers -> Stamped \cup {End}]

Everything == UNION {source[i] : i \in 1 .. Tiers}

\* The versions a reader of the snapshot may see, and what it gets for a key.
Snap == {v \in start.versions : v.ts <= ReadTs}
Engine(k) == ReadAt(start.versions, k, ReadTs)

\* The merge has passed v; keys of the range with a version it has passed.
Behind(v) == Valid => Before(v, Merged)
Seen == {v.key : v \in {w \in Snap : InRange(w.key) /\ Behind(w)}}

TypeInv ==
    /\ source \in [1 .. Tiers -> SUBSET Stamped] /\ head \in Heads
    /\ \A i \in 1 .. Tiers : head[i] = End \/ head[i] \in source[i]
    /\ step \in {"find", "skip", "stand"} /\ user \in Key \cup {NoKey}
    /\ cur \in [key : Key \cup {NoKey}, val : Stored]
    /\ pending \in [key : Key \cup {NoKey}, val : Stored]
    /\ pending # NoPending => pending.key \in Key
    /\ out \in Seq([key : Key, val : Stored])
    /\ local \in [Key -> Stored \cup {Unset}]
    /\ lower \in Key \cup {NoKey} /\ upper \in Key \cup {NoKey}
    /\ start.versions \in SUBSET Stamped
    /\ start.local \in [Key -> Stored \cup {Unset}]
    /\ status \in {"running", "done", "failed", "silent"}

SourceInv ==
    /\ OneVersionPerTs(Everything) /\ OneVersionPerTs(start.versions)
    /\ Snap = {v \in Everything : v.ts <= ReadTs}
    /\ \A k \in Key : start.local[k] # Unset => InRange(k)

MergeInv ==
    /\ current = Pick(head)
    /\ \A i \in 1 .. Tiers : head[i] # End /\ lower # NoKey => head[i].key >= lower
    /\ \A i \in 1 .. Tiers : \A v \in source[i] :
          v.ts <= ReadTs /\ InRange(v.key) /\ ~ Behind(v) =>
             head[i] # End /\ ~ Before(v, head[i])

\* The transaction's own writes below c have been chosen.
LocalAt(c) ==
    \A k \in Key : local[k] = IF k < c THEN Unset ELSE start.local[k]

\* What has been handed out, with what is pending, is the answer below c.
OutAt(c) ==
    /\ \A i \in DOMAIN out :
          out[i].key < c /\ out[i].key \in KeysFound /\ out[i].val = Answer(out[i].key)
    /\ \A i, j \in DOMAIN out : i < j => out[i].key < out[j].key
    /\ pending # NoPending =>
          /\ pending.key < c /\ InRange(pending.key)
          /\ pending.val = Answer(pending.key)
          /\ \A i \in DOMAIN out : out[i].key < pending.key
    /\ \A k \in KeysFound : k < c => k \in Handed \/ k = pending.key
    /\ access = Handed

\* A key the merge has met is deleted, unless it is decided or the current one.
FindAt(c) ==
    /\ \A k \in Seen : k >= c => Engine(k) = Tombstone
    /\ Valid => Merged.key >= c /\ Merged.key \notin Seen

SkipAt(c) ==
    /\ \A k \in Seen : k >= c => Engine(k) = Tombstone
    /\ user \in Key /\ c <= user + 1
    /\ user >= c => Engine(user) = Tombstone
    /\ Valid => Merged.key >= user /\ (Merged.key # user => Merged.key \notin Seen)

StandAt(c) ==
    IF cur = Nothing THEN \A k \in Key : InRange(k) /\ k >= c => Engine(k) = Tombstone
    ELSE /\ \A k \in Seen : k >= c => Engine(k) = Tombstone
         /\ cur.key \in Key /\ InRange(cur.key) /\ c <= cur.key
         /\ cur.val = Engine(cur.key)
         /\ Valid /\ Merged.key = cur.key

Progress(c) ==
    /\ LocalAt(c) /\ OutAt(c)
    /\ step = "find" => FindAt(c)
    /\ step = "skip" => SkipAt(c)
    /\ step = "stand" => StandAt(c)
    /\ status = "done" => pending = NoPending /\ \A k \in KeysFound : k < c

BaseInv == TypeInv /\ SourceInv /\ MergeInv

ScanInv ==
    /\ BaseInv
    /\ \E c \in Nat : Progress(c)

-----------------------------------------------------------------------------
(* The order of keys. *)

\* Keys and timestamps are numbers, and End is no version.
LEMMA StampedFacts ==
    /\ Stamped \subseteq Version /\ End \notin Stamped
    /\ \A v \in Stamped : v.key \in Key /\ v.key \in Nat /\ v.ts \in Nat /\ v.ts <= MaxTs
                          /\ v.ts \in 1 .. MaxTs /\ v.val \in Stored
    /\ Key \subseteq Nat /\ NoKey \notin Key
    /\ MaxTs \in Nat /\ ReadTs \in Nat /\ Tiers \in Nat \ {0}
<1>1. Stamped \subseteq Version
  BY ScanAssumption DEF Stamped, Version
<1>2. \A v \in Stamped : v.key \in Key /\ v.ts \in 1 .. MaxTs /\ v.val \in Stored
  BY DEF Stamped
<1>3. /\ Key \subseteq Nat /\ NoKey \notin Key /\ End \notin Version
      /\ MaxTs \in Nat /\ ReadTs \in Nat /\ Tiers \in Nat \ {0}
  BY ScanAssumption
<1>4. End \notin Stamped
  BY <1>1, <1>3
<1>5. \A n \in 1 .. MaxTs : n \in Nat /\ n <= MaxTs
  BY <1>3
<1> QED
  BY <1>1, <1>2, <1>3, <1>4, <1>5

\* Any versions have a first one in the order of keys.
LEMMA LeastVersion ==
    ASSUME NEW vs \in SUBSET Stamped, vs # {}
    PROVE  \E v \in vs : \A w \in vs : ~ Before(w, v)
<1> USE StampedFacts
<1> DEFINE keys == {v.key : v \in vs}
<1>1. keys \in SUBSET Nat /\ keys # {}
  OBVIOUS
<1>2. PICK k \in keys : \A j \in keys : k <= j
  <2> HIDE DEF keys
  <2> QED
    BY <1>1, LeastNat
<1> DEFINE stamps == {v.ts : v \in {w \in vs : w.key = k}}
<1>3. stamps \in SUBSET (0 .. MaxTs) /\ stamps # {}
  <2>1. \A v \in vs : v.ts \in 0 .. MaxTs
    OBVIOUS
  <2> QED
    BY <2>1, <1>2
<1>4. PICK t \in stamps : \A u \in stamps : u <= t
  <2> HIDE DEF stamps
  <2> QED
    BY <1>3, GreatestNat
<1>5. PICK v \in vs : v.key = k /\ v.ts = t
  BY <1>4
<1>6. ASSUME NEW w \in vs
      PROVE  ~ Before(w, v)
  <2>1. k <= w.key /\ (w.key = k => w.ts <= t)
    BY <1>2, <1>4
  <2> QED
    BY <2>1, <1>5 DEF Before
<1> QED
  BY <1>6

\* What FirstOf returns: where an iterator goes next.
LEMMA FirstSpec ==
    ASSUME NEW vs \in SUBSET Stamped, OneVersionPerTs(vs)
    PROVE  /\ vs = {} => FirstOf(vs) = End
           /\ vs # {} => FirstOf(vs) \in vs /\ \A w \in vs : ~ Before(w, FirstOf(vs))
<1> USE StampedFacts
<1>1. ASSUME vs # {}
      PROVE  FirstOf(vs) \in vs /\ \A w \in vs : ~ Before(w, FirstOf(vs))
  <2>1. PICK v \in vs : \A w \in vs : ~ Before(w, v)
    BY <1>1, LeastVersion
  <2>2. \A w \in vs \ {v} : Before(v, w)
    BY <2>1 DEF OneVersionPerTs, Before
  <2>3. FirstOf(vs) \in vs /\ \A w \in vs \ {FirstOf(vs)} : Before(FirstOf(vs), w)
    BY <2>2 DEF FirstOf
  <2> QED
    BY <2>3 DEF Before
<1> QED
  BY <1>1 DEF FirstOf

\* What Pick returns: where the merge stands.
LEMMA PickSpec ==
    ASSUME NEW h \in Heads
    PROVE  /\ Pick(h) \in 0 .. Tiers
           /\ Pick(h) = 0 => \A i \in 1 .. Tiers : h[i] = End
           /\ Pick(h) # 0 => /\ Pick(h) \in 1 .. Tiers /\ h[Pick(h)] \in Stamped
                             /\ \A j \in 1 .. Tiers : h[j] # End => ~ Before(h[j], h[Pick(h)])
<1> USE StampedFacts
<1> DEFINE valid == {i \in DOMAIN h : h[i] # End}
           least(i) == \A j \in valid : \/ Before(h[i], h[j])
                                        \/ SameKey(h[i], h[j]) /\ i <= j
<1>1. /\ valid = {i \in 1 .. Tiers : h[i] # End}
      /\ \A i \in valid : h[i] \in Stamped
      /\ Pick(h) = IF valid = {} THEN 0 ELSE CHOOSE i \in valid : least(i)
  BY DEF Heads, Pick
<1>2. ASSUME valid # {}
      PROVE  \E i \in valid : least(i)
  <2> DEFINE vs == {h[i] : i \in valid}
  <2>1. vs \in SUBSET Stamped /\ vs # {}
    BY <1>1, <1>2
  <2>2. PICK v \in vs : \A w \in vs : ~ Before(w, v)
    <3> HIDE DEF vs
    <3> QED
      BY <2>1, LeastVersion
  <2> DEFINE same == {i \in valid : SameKey(h[i], v)}
  <2>3. same \in SUBSET Nat /\ same # {}
    <3>1. PICK i \in valid : h[i] = v
      BY <2>2
    <3>2. SameKey(v, v)
      BY <2>1, <2>2 DEF SameKey, Before
    <3> QED
      BY <3>1, <3>2, <1>1
  <2>4. PICK i \in same : \A j \in same : i <= j
    <3> HIDE DEF same
    <3> QED
      BY <2>3, LeastNat
  <2>5. ASSUME NEW j \in valid
        PROVE  Before(h[i], h[j]) \/ (SameKey(h[i], h[j]) /\ i <= j)
    <3>1. h[i] \in Stamped /\ h[j] \in Stamped /\ v \in Stamped
      BY <1>1, <2>1, <2>2, <2>4
    <3>2. SameKey(h[i], v) /\ ~ Before(h[j], v)
      BY <2>2, <2>4
    <3>3. Before(h[i], h[j]) \/ SameKey(h[j], v)
      BY <3>1, <3>2 DEF SameKey, Before
    <3>4. SameKey(h[j], v) => SameKey(h[i], h[j]) /\ i <= j
      BY <3>1, <3>2, <2>4 DEF SameKey, Before
    <3> QED
      BY <3>3, <3>4
  <2> QED
    BY <2>4, <2>5
<1>3. ASSUME valid # {}
      PROVE  Pick(h) \in valid /\ least(Pick(h))
  <2>1. Pick(h) = CHOOSE i \in valid : least(i)
    BY <1>1, <1>3
  <2> HIDE DEF least, valid
  <2> QED
    BY <1>2, <1>3, <2>1, Zenon
<1>4. CASE valid = {}
  BY <1>1, <1>4
<1>5. CASE valid # {}
  <2>1. Pick(h) \in 1 .. Tiers /\ Pick(h) # 0 /\ h[Pick(h)] \in Stamped
    BY <1>1, <1>3, <1>5
  <2>2. ASSUME NEW j \in 1 .. Tiers, h[j] # End
        PROVE  ~ Before(h[j], h[Pick(h)])
    <3>1. j \in valid /\ h[j] \in Stamped
      BY <1>1, <2>2
    <3> QED
      BY <3>1, <2>1, <1>3, <1>5 DEF Before, SameKey
  <2> QED
    BY <2>1, <2>2
<1> QED
  BY <1>4, <1>5

-----------------------------------------------------------------------------
(* The merge. *)

\* Where the next of a source's iterator is: behind v, and past nothing in the
\* range.
LEMMA AfterSpec ==
    ASSUME TypeInv, SourceInv, NEW i \in 1 .. Tiers, NEW v \in Stamped
    PROVE  /\ \/ After(i, v) = End
              \/ After(i, v) \in source[i] /\ Before(v, After(i, v))
           /\ \A w \in source[i] : InRange(w.key) /\ Before(v, w) =>
                 After(i, v) # End /\ ~ Before(w, After(i, v))
<1> USE StampedFacts
<1> DEFINE vs == Bounded(i, {w \in source[i] : Before(v, w)})
<1>1. vs \subseteq source[i] /\ \A w \in vs : Before(v, w)
  BY DEF Bounded
<1>2. source[i] \in SUBSET Stamped /\ source[i] \subseteq Everything
  BY DEF TypeInv, Everything
<1>3. vs \in SUBSET Stamped /\ OneVersionPerTs(vs)
  BY <1>1, <1>2 DEF SourceInv, OneVersionPerTs
<1>4. /\ vs = {} => FirstOf(vs) = End
      /\ vs # {} => FirstOf(vs) \in vs /\ \A w \in vs : ~ Before(w, FirstOf(vs))
  <2> HIDE DEF vs
  <2> QED
    BY <1>3, FirstSpec
<1>5. After(i, v) = FirstOf(vs)
  BY DEF After
<1>6. ASSUME NEW w \in source[i], InRange(w.key), Before(v, w)
      PROVE  w \in vs
  BY <1>6 DEF Bounded, InRange
<1> HIDE DEF vs
<1>7. FirstOf(vs) = End \/ (FirstOf(vs) \in source[i] /\ Before(v, FirstOf(vs)))
  BY <1>1, <1>4
<1>8. ASSUME NEW w \in source[i], InRange(w.key), Before(v, w)
      PROVE  FirstOf(vs) # End /\ ~ Before(w, FirstOf(vs))
  <2>1. w \in vs
    BY <1>6, <1>8
  <2>2. FirstOf(vs) \in vs /\ \A u \in vs : ~ Before(u, FirstOf(vs))
    BY <1>4, <2>1
  <2> QED
    BY <1>3, <2>1, <2>2
<1> QED
  BY <1>5, <1>7, <1>8

\* Where the merge stands is a version of a source, and no head is before it.
LEMMA AtMerge ==
    ASSUME TypeInv, current = Pick(head)
    PROVE  /\ Valid => /\ current \in 1 .. Tiers /\ Merged \in Stamped
                       /\ Merged \in Everything
           /\ \A i \in 1 .. Tiers : head[i] # End => Valid /\ ~ Before(head[i], Merged)
<1>1. head \in Heads /\ \A i \in 1 .. Tiers : head[i] # End => head[i] \in source[i]
  BY DEF TypeInv
<1>2. /\ current = 0 => \A i \in 1 .. Tiers : head[i] = End
      /\ current # 0 => /\ current \in 1 .. Tiers /\ head[current] \in Stamped
                        /\ \A j \in 1 .. Tiers : head[j] # End => ~ Before(head[j], head[current])
  BY <1>1, PickSpec, Zenon
<1>3. current # 0 => head[current] \in source[current]
  BY <1>1, <1>2, StampedFacts
<1> QED
  BY <1>2, <1>3 DEF Valid, Merged, Everything

(***************************************************************************)
(* A movement of the merge: it passes the version it stood on and nothing  *)
(* else of the snapshot in the range (merge.go:60-90).                     *)
(***************************************************************************)
LEMMA MergeStep ==
    ASSUME BaseInv, Valid, MergeNext, UNCHANGED <<source, fixed>>
    PROVE  /\ head' \in Heads /\ MergeInv'
           /\ \A i \in 1 .. Tiers : head'[i] = End \/ head'[i] \in source[i]
           /\ Valid' => Merged' \in Stamped /\ Before(Merged, Merged')
           /\ \A v \in Snap : InRange(v.key) => (Behind(v)' <=> Behind(v) \/ v = Merged)
<1> USE StampedFacts
<1> DEFINE p == Merged
<1>0. /\ TypeInv /\ SourceInv /\ MergeInv
      /\ p \in Stamped /\ p \in Everything
      /\ \A i \in 1 .. Tiers : head[i] # End => ~ Before(head[i], p)
      /\ \A i \in 1 .. Tiers : source[i] \subseteq Stamped
      /\ \A i \in 1 .. Tiers : head[i] = End \/ (head[i] \in source[i] /\ head[i] \in Stamped)
  BY AtMerge DEF BaseInv, MergeInv, TypeInv
<1> DEFINE moved == [i \in 1 .. Tiers |->
                       IF head[i] # End /\ SameKey(head[i], p) THEN After(i, head[i])
                       ELSE head[i]]
<1>1. head' = moved /\ current' = Pick(moved)
  BY DEF MergeNext, Merged
<1>2. ASSUME NEW i \in 1 .. Tiers
      PROVE  /\ moved[i] = End \/ (moved[i] \in source[i] /\ moved[i] \in Stamped)
             /\ moved[i] # End => Before(p, moved[i])
             /\ \A v \in source[i] :
                  v.ts <= ReadTs /\ InRange(v.key) /\ Before(p, v) =>
                     moved[i] # End /\ ~ Before(v, moved[i])
  <2>1. CASE head[i] # End /\ SameKey(head[i], p)
    <3>1. moved[i] = After(i, head[i]) /\ head[i] \in Stamped
      BY <1>0, <2>1
    <3>2. \A w \in Stamped : Before(head[i], w) <=> Before(p, w)
      BY <1>0, <2>1, <3>1 DEF SameKey, Before
    <3>3. /\ \/ After(i, head[i]) = End
             \/ After(i, head[i]) \in source[i] /\ Before(head[i], After(i, head[i]))
          /\ \A w \in source[i] : InRange(w.key) /\ Before(head[i], w) =>
                After(i, head[i]) # End /\ ~ Before(w, After(i, head[i]))
      BY <1>0, <3>1, AfterSpec
    <3> HIDE DEF p, moved
    <3> QED
      BY <1>0, <3>1, <3>2, <3>3
  <2>2. CASE ~ (head[i] # End /\ SameKey(head[i], p))
    <3>1. moved[i] = head[i]
      BY <2>2
    <3>2. head[i] # End => Before(p, head[i])
      BY <1>0, <2>2 DEF SameKey
    <3>3. \A v \in source[i] :
             v.ts <= ReadTs /\ InRange(v.key) /\ Before(p, v) =>
                head[i] # End /\ ~ Before(v, head[i])
      <4>1. \A v \in source[i] : Before(p, v) => ~ Behind(v)
        <5>1. \A v \in Stamped : Before(p, v) => ~ Before(v, p)
          BY <1>0 DEF Before
        <5> QED
          BY <1>0, <5>1 DEF Behind
      <4> QED
        BY <1>0, <4>1 DEF MergeInv
    <3> HIDE DEF p, moved
    <3> QED
      BY <1>0, <3>1, <3>2, <3>3
  <2> QED
    BY <2>1, <2>2
<1>3. head' \in Heads /\ \A i \in 1 .. Tiers : head'[i] = End \/ head'[i] \in source[i]
  <2>1. moved \in Heads
    BY <1>2 DEF Heads
  <2> HIDE DEF moved
  <2> QED
    BY <1>1, <1>2, <2>1
<1>4. head'[current'] = Merged' /\ (Valid' <=> current' # 0)
  BY DEF Merged, Valid
<1>5. /\ current' = 0 => \A i \in 1 .. Tiers : head'[i] = End
      /\ current' # 0 => /\ current' \in 1 .. Tiers /\ Merged' \in Stamped
                         /\ \A j \in 1 .. Tiers : head'[j] # End => ~ Before(head'[j], Merged')
  BY <1>1, <1>3, <1>4, PickSpec
<1> HIDE DEF p, moved
<1>6. Valid' => Merged' \in Stamped /\ Before(p, Merged')
  BY <1>1, <1>2, <1>4, <1>5
<1>7. ASSUME NEW v \in Stamped
      PROVE  /\ Behind(v)' <=> (current' # 0 => Before(v, Merged'))
             /\ Behind(v) <=> Before(v, p)
             /\ InRange(v.key)' <=> InRange(v.key)
  BY <1>4 DEF Behind, InRange, fixed, p
<1>8. ASSUME NEW i \in 1 .. Tiers, NEW v \in source[i], v.ts <= ReadTs, InRange(v.key),
             Before(p, v)
      PROVE  head'[i] # End /\ ~ Before(v, head'[i]) /\ ~ Behind(v)'
  <2>1. head'[i] # End /\ ~ Before(v, head'[i]) /\ head'[i] \in Stamped /\ v \in Stamped
    BY <1>0, <1>1, <1>2, <1>8
  <2>2. current' # 0 /\ Merged' \in Stamped /\ ~ Before(head'[i], Merged')
    BY <1>5, <2>1
  <2>3. ~ Before(v, Merged')
    BY <2>1, <2>2 DEF Before
  <2> QED
    BY <1>7, <2>1, <2>2, <2>3
<1>9. \A v \in Stamped : ~ Before(p, v) => Behind(v)'
  <2>1. SUFFICES ASSUME NEW v \in Stamped, ~ Before(p, v), current' # 0
                 PROVE  Before(v, Merged')
    BY <1>7
  <2>2. Before(p, Merged') /\ Merged' \in Stamped /\ p \in Stamped
    BY <1>0, <1>4, <1>6, <2>1
  <2> QED
    BY <2>1, <2>2 DEF Before
<1>10. MergeInv'
  <2>1. current' = Pick(head')
    BY <1>1
  <2>2. ASSUME NEW i \in 1 .. Tiers, head'[i] # End, lower # NoKey
        PROVE  head'[i].key >= lower
    <3>1. p.key >= lower
      BY <1>0, <2>2, AtMerge DEF MergeInv, p, Merged, Valid
    <3>2. Before(p, head'[i]) /\ head'[i] \in Stamped /\ p \in Stamped
      BY <1>0, <1>1, <1>2, <2>2
    <3>3. lower \in Nat
      BY <1>0, <2>2 DEF TypeInv
    <3> QED
      BY <3>1, <3>2, <3>3 DEF Before
  <2>3. ASSUME NEW i \in 1 .. Tiers, NEW v \in source[i],
               v.ts <= ReadTs, InRange(v.key), ~ Behind(v)'
        PROVE  head'[i] # End /\ ~ Before(v, head'[i])
    <3>1. v \in Stamped
      BY <1>0
    <3> QED
      BY <1>8, <1>9, <2>3, <3>1
  <2>4. source' = source /\ lower' = lower /\ \A k : InRange(k)' <=> InRange(k)
    BY DEF fixed, InRange
  <2> QED
    BY <2>1, <2>2, <2>3, <2>4 DEF MergeInv
<1>11. ASSUME NEW v \in Snap, InRange(v.key)
       PROVE  Behind(v)' <=> Behind(v) \/ v = p
  <2>1. PICK i \in 1 .. Tiers : v \in source[i]
    BY <1>0 DEF SourceInv, Everything
  <2>2. v \in Stamped /\ v \in Everything /\ v.ts <= ReadTs
    BY <1>0, <2>1 DEF Snap, Everything
  <2>3. CASE Before(p, v)
    BY <1>0, <1>7, <1>8, <1>11, <2>1, <2>2, <2>3 DEF Before
  <2>4. CASE ~ Before(p, v)
    <3>1. Before(v, p) \/ v = p
      <4>1. v.key = p.key /\ v.ts = p.ts => v = p
        BY <1>0, <2>2 DEF SourceInv, OneVersionPerTs
      <4> QED
        BY <1>0, <2>2, <2>4, <4>1 DEF Before
    <3> QED
      BY <1>7, <1>9, <2>2, <2>4, <3>1
  <2> QED
    BY <2>3, <2>4
<1> QED
  BY <1>3, <1>6, <1>10, <1>11 DEF p

-----------------------------------------------------------------------------
(* The first half of the invariant holds whatever the keys are. *)

\* What a layout places in the sources is one version per coordinate.
LEMMA HoldsSpec ==
    ASSUME NEW f \in Layouts
    PROVE  /\ \A i \in 1 .. Tiers : Holds(f, i) \in SUBSET Stamped
           /\ OneVersionPerTs(UNION {Holds(f, i) : i \in 1 .. Tiers})
<1>1. f \in [Coordinate -> Place]
  BY DEF Layouts
<1>2. ASSUME NEW i \in 1 .. Tiers, NEW v \in Holds(f, i)
      PROVE  v \in Stamped /\ v.val = f[<<v.key, v.ts>>].val
  <2>1. PICK d \in Coordinate : /\ f[d] # Unset /\ f[d].tier = i
                                /\ v = [key |-> d[1], ts |-> d[2], val |-> f[d].val]
    BY <1>2, <1>1 DEF Holds
  <2>2. f[d].val \in Stored
    BY <1>1, <2>1 DEF Place
  <2>3. d[1] \in Key /\ d[2] \in 1 .. MaxTs /\ d = <<d[1], d[2]>>
    BY DEF Coordinate
  <2> QED
    BY <2>1, <2>2, <2>3 DEF Stamped
<1>3. ASSUME NEW v \in UNION {Holds(f, i) : i \in 1 .. Tiers},
             NEW w \in UNION {Holds(f, i) : i \in 1 .. Tiers},
             v.key = w.key, v.ts = w.ts
      PROVE  v = w
  <2>1. /\ v \in Stamped /\ v.val = f[<<v.key, v.ts>>].val
        /\ w \in Stamped /\ w.val = f[<<w.key, w.ts>>].val
    BY <1>2
  <2> QED
    BY <1>3, <2>1 DEF Stamped
<1> QED
  BY <1>2, <1>3 DEF OneVersionPerTs

\* Where a scan starts: the merge has passed nothing of the range.
LEMMA InitBase == Init => BaseInv /\ Seen = {}
<1> USE StampedFacts
<1> SUFFICES ASSUME Init
             PROVE  BaseInv /\ Seen = {}
  OBVIOUS
<1>1. lower \in Key \cup {NoKey} /\ upper \in Key \cup {NoKey}
  BY ScanAssumption DEF Init
<1>2. PICK f \in Layouts : source = [i \in 1 .. Tiers |-> Holds(f, i)]
  BY DEF Init
<1>3. /\ source \in [1 .. Tiers -> SUBSET Stamped] /\ OneVersionPerTs(Everything)
      /\ start.versions = Everything /\ start.local = local
  <2>1. /\ \A i \in 1 .. Tiers : Holds(f, i) \in SUBSET Stamped
        /\ OneVersionPerTs(UNION {Holds(f, i) : i \in 1 .. Tiers})
    BY HoldsSpec
  <2>2. Everything = UNION {Holds(f, i) : i \in 1 .. Tiers}
    BY <1>2 DEF Everything
  <2>3. start.versions = Everything /\ start.local = local
    BY DEF Init, Everything
  <2> QED
    BY <1>2, <2>1, <2>2, <2>3
<1>4. /\ local \in [Key -> Stored \cup {Unset}]
      /\ \A k \in Key : local[k] # Unset => InRange(k)
  BY DEF Init
<1> DEFINE at(i) == {v \in Bounded(i, source[i]) : lower # NoKey => v.key >= lower}
<1>5. head = [i \in 1 .. Tiers |-> FirstOf(at(i))]
  BY DEF Init
<1>6. ASSUME NEW i \in 1 .. Tiers
      PROVE  /\ at(i) \subseteq source[i]
             /\ at(i) = {} => head[i] = End
             /\ at(i) # {} => head[i] \in at(i) /\ \A w \in at(i) : ~ Before(w, head[i])
  <2>1. at(i) \subseteq source[i]
    BY DEF Bounded
  <2>2. at(i) \in SUBSET Stamped /\ OneVersionPerTs(at(i))
    BY <1>3, <2>1 DEF Everything, OneVersionPerTs
  <2>3. head[i] = FirstOf(at(i))
    BY <1>5
  <2> HIDE DEF at
  <2> QED
    BY <2>1, <2>2, <2>3, FirstSpec
<1>7. ASSUME NEW i \in 1 .. Tiers, NEW v \in source[i]
      PROVE  /\ InRange(v.key) => v \in at(i)
             /\ v \in at(i) /\ lower # NoKey => v.key >= lower
  BY DEF Bounded, InRange
<1> HIDE DEF at
<1>8. head \in Heads /\ \A i \in 1 .. Tiers : head[i] = End \/ head[i] \in source[i]
  <2>1. \A i \in 1 .. Tiers : head[i] = End \/ (head[i] \in source[i] /\ head[i] \in Stamped)
    BY <1>3, <1>6
  <2>2. head = [i \in 1 .. Tiers |-> head[i]]
    BY <1>5
  <2> QED
    BY <2>1, <2>2 DEF Heads
<1>9. TypeInv
  <2>1. /\ step = "find" /\ user = NoKey /\ cur = Nothing /\ pending = Nothing
        /\ out = <<>> /\ status = "running"
    BY DEF Init, NoPending
  <2>2. Nothing \in [key : Key \cup {NoKey}, val : Stored]
    BY DEF Nothing, Stored
  <2>3. out \in Seq([key : Key, val : Stored])
    BY <2>1
  <2>4. start.versions \in SUBSET Stamped
    BY <1>3 DEF Everything
  <2> QED
    BY <1>1, <1>3, <1>4, <1>8, <2>1, <2>2, <2>3, <2>4 DEF TypeInv, NoPending
<1>10. SourceInv
  BY <1>3, <1>4 DEF SourceInv, Snap
<1>11. ASSUME NEW i \in 1 .. Tiers, NEW v \in source[i], InRange(v.key)
       PROVE  head[i] # End /\ ~ Before(v, head[i])
  BY <1>3, <1>6, <1>7, <1>11
<1>12. current = Pick(head)
  BY DEF Init
<1>13. MergeInv
  <2>1. ASSUME NEW i \in 1 .. Tiers, head[i] # End, lower # NoKey
        PROVE  head[i].key >= lower
    BY <1>6, <1>7, <2>1
  <2> QED
    BY <1>11, <1>12, <2>1 DEF MergeInv
<1>14. Seen = {}
  <2>1. SUFFICES ASSUME NEW v \in Snap, InRange(v.key)
                 PROVE  ~ Behind(v)
    BY DEF Seen
  <2>2. PICK i \in 1 .. Tiers : v \in source[i]
    BY <1>3, <2>1 DEF Snap, Everything
  <2>3. head[i] # End /\ ~ Before(v, head[i])
    BY <1>11, <2>1, <2>2
  <2>4. Valid /\ Merged \in Stamped /\ ~ Before(head[i], Merged)
    BY <1>9, <1>12, <2>3, AtMerge
  <2>5. v \in Stamped /\ head[i] \in Stamped
    BY <1>3, <1>8, <2>2, <2>3
  <2> QED
    BY <2>3, <2>4, <2>5 DEF Behind, Before
<1> QED
  BY <1>9, <1>10, <1>13, <1>14 DEF BaseInv

\* Steps that leave the merge where it is and the sources as they are.
LEMMA MergeRests ==
    ASSUME BaseInv, UNCHANGED <<source, merging, fixed>>
    PROVE  SourceInv' /\ MergeInv'
<1>1. /\ source' = source /\ head' = head /\ current' = current
      /\ lower' = lower /\ upper' = upper /\ start' = start
  BY DEF merging, fixed
<1> QED
  BY <1>1 DEF BaseInv, SourceInv, MergeInv, Everything, Snap, InRange, Behind, Valid, Merged

\* Steps that leave the sources as they are.
LEMMA SourcesRest ==
    ASSUME SourceInv, UNCHANGED <<source, fixed>>
    PROVE  SourceInv'
  BY DEF fixed, SourceInv, Everything, Snap, InRange

\* A commit adds a version to the active memtable that is newer than the snapshot.
LEMMA InsertBase ==
    ASSUME BaseInv, Insert
    PROVE  BaseInv'
<1> USE StampedFacts
<1>1. PICK k \in Key, t \in ReadTs + 1 .. MaxTs, x \in Commits :
         /\ \A i \in 1 .. Tiers : \A v \in source[i] : v.key = k => v.ts < t
         /\ source' = [source EXCEPT ![1] = @ \cup {[key |-> k, ts |-> t, val |-> x]}]
  BY DEF Insert
<1> DEFINE new == [key |-> k, ts |-> t, val |-> x]
<1>2. /\ new \in Stamped /\ new.key = k /\ new.ts = t /\ t > ReadTs
  BY ScanAssumption DEF Stamped
<1> HIDE DEF new
<1>3. /\ UNCHANGED <<head, current, step, user, cur, local, pending, out, access,
                     lower, upper, start, status>>
  BY DEF Insert, merging, fixed
<1>4. /\ source \in [1 .. Tiers -> SUBSET Stamped] /\ 1 \in 1 .. Tiers
      /\ TypeInv /\ SourceInv /\ MergeInv
  BY DEF BaseInv, TypeInv
<1>5. \A i \in 1 .. Tiers : source'[i] = IF i = 1 THEN source[1] \cup {new} ELSE source[i]
  BY <1>1, <1>4 DEF new
<1>6. source' \in [1 .. Tiers -> SUBSET Stamped]
  BY <1>1, <1>2, <1>4 DEF new
<1>7. Everything' = Everything \cup {new}
  BY <1>4, <1>5 DEF Everything
<1>8. TypeInv'
  <2>1. \A i \in 1 .. Tiers : head[i] = End \/ head[i] \in source'[i]
    BY <1>4, <1>5 DEF TypeInv
  <2> QED
    BY <1>3, <1>4, <1>6, <2>1 DEF TypeInv, NoPending
<1>9. SourceInv'
  <2>1. OneVersionPerTs(Everything')
    <3>1. \A v \in Everything : v.key = new.key => v.ts # new.ts
      BY <1>1, <1>2, <1>4 DEF Everything
    <3> QED
      BY <1>4, <1>7, <3>1 DEF SourceInv, OneVersionPerTs
  <2>2. Snap' = {v \in Everything' : v.ts <= ReadTs}
    BY <1>2, <1>3, <1>4, <1>7 DEF SourceInv, Snap
  <2> QED
    BY <1>3, <1>4, <2>1, <2>2 DEF SourceInv, InRange
<1>10. MergeInv'
  <2>1. ASSUME NEW i \in 1 .. Tiers, NEW v \in source'[i], v.ts <= ReadTs
        PROVE  v \in source[i]
    BY <1>2, <1>5, <2>1
  <2> QED
    BY <1>3, <1>4, <2>1 DEF MergeInv, InRange, Behind, Valid, Merged
<1> QED
  BY <1>8, <1>9, <1>10 DEF BaseInv

\* The least of the transaction's writes that are left.
LEMMA LeastLocal ==
    ASSUME TypeInv, Written # {}
    PROVE  /\ LocalKey \in Key /\ LocalKey \in Written /\ local[LocalKey] \in Stored
           /\ \A k \in Written : LocalKey <= k
<1> USE StampedFacts
<1>1. Written \in SUBSET Nat /\ Written \subseteq Key
  BY DEF Written
<1>2. PICK m \in Written : \A k \in Written : m <= k
  BY <1>1, LeastNat
<1>3. LocalKey = CHOOSE n \in Written : \A k \in Written : n <= k
  BY DEF LocalKey, Min
<1>4. LocalKey \in Written /\ \A k \in Written : LocalKey <= k
  BY <1>2, <1>3
<1> QED
  BY <1>1, <1>4 DEF TypeInv, Written

\* What TakeLocal leaves.
LEMMA TakenLocal ==
    ASSUME TypeInv, Written # {}, TakeLocal
    PROVE  /\ pending' = [key |-> LocalKey, val |-> local[LocalKey]]
           /\ pending' \in [key : Key \cup {NoKey}, val : Stored] /\ pending'.key \in Key
           /\ local' \in [Key -> Stored \cup {Unset}]
           /\ \A k \in Key : local'[k] = IF k = LocalKey THEN Unset ELSE local[k]
<1>1. LocalKey \in Key /\ local[LocalKey] \in Stored
  BY LeastLocal
<1>2. local \in [Key -> Stored \cup {Unset}]
  BY DEF TypeInv
<1> QED
  BY <1>1, <1>2 DEF TakeLocal

(***************************************************************************)
(* Every step keeps the first half of the invariant.                       *)
(***************************************************************************)
LEMMA BaseStep == BaseInv /\ [Next]_vars => BaseInv'
<1> USE StampedFacts
<1> SUFFICES ASSUME BaseInv, [Next]_vars
             PROVE  BaseInv'
  OBVIOUS
<1>0. TypeInv /\ SourceInv /\ MergeInv
  BY DEF BaseInv
<1>1. ASSUME UNCHANGED <<source, merging, fixed>>, TypeInv'
      PROVE  BaseInv'
  BY <1>1, MergeRests DEF BaseInv
<1>2. ASSUME Valid, MergeNext, UNCHANGED <<source, fixed>>, step' \in {"find", "skip", "stand"},
             UNCHANGED <<user, cur, local, pending, out, status>>
      PROVE  BaseInv'
  <2>1. /\ head' \in Heads /\ MergeInv'
        /\ \A i \in 1 .. Tiers : head'[i] = End \/ head'[i] \in source[i]
    BY <1>2, MergeStep
  <2>2. SourceInv'
    BY <1>0, <1>2, SourcesRest
  <2>3. TypeInv'
    BY <1>0, <1>2, <2>1 DEF TypeInv, fixed, NoPending
  <2> QED
    BY <2>1, <2>2, <2>3 DEF BaseInv
<1>3. Valid => Merged \in Stamped
  BY <1>0, AtMerge DEF MergeInv
<1>4. Nothing \in [key : Key \cup {NoKey}, val : Stored]
  BY DEF Nothing, Stored
<1>5. CASE FindEnds
  <2>1. TypeInv'
    BY <1>0, <1>4, <1>5 DEF FindEnds, TypeInv, fixed, merging, NoPending
  <2> QED
    BY <1>1, <1>5, <2>1 DEF FindEnds
<1>6. CASE FindSkipsNewer
  <2>1. step' \in {"find", "skip", "stand"}
    BY <1>0, <1>6 DEF FindSkipsNewer, TypeInv
  <2> QED
    BY <1>2, <1>6, <2>1 DEF FindSkipsNewer
<1>7. CASE FindSkipsTombstone
  <2>1. TypeInv'
    BY <1>0, <1>3, <1>7 DEF FindSkipsTombstone, TypeInv, fixed, merging, NoPending
  <2> QED
    BY <1>1, <1>7, <2>1 DEF FindSkipsTombstone
<1>8. CASE FindStands
  <2>1. Found(Merged) \in [key : Key \cup {NoKey}, val : Stored]
    BY <1>3, <1>8 DEF FindStands, Found
  <2>2. TypeInv'
    BY <1>0, <1>8, <2>1 DEF FindStands, TypeInv, fixed, merging, NoPending
  <2> QED
    BY <1>1, <1>8, <2>2 DEF FindStands
<1>9. CASE SkipUser
  <2>1. CASE Valid /\ Merged.key = user
    <3>1. step' \in {"find", "skip", "stand"}
      BY <1>0, <1>9, <2>1 DEF SkipUser, TypeInv
    <3> QED
      BY <1>2, <1>9, <2>1, <3>1 DEF SkipUser
  <2>2. CASE ~ (Valid /\ Merged.key = user)
    <3>1. UNCHANGED <<source, merging, fixed>> /\ step' = "find"
      BY <1>9, <2>2 DEF SkipUser
    <3>2. TypeInv'
      BY <1>0, <1>9, <3>1 DEF SkipUser, TypeInv, fixed, merging, NoPending
    <3> QED
      BY <1>1, <3>1, <3>2
  <2> QED
    BY <2>1, <2>2
<1>10. CASE ChooseLocal
  <2>1. Written # {} /\ TakeLocal
    BY <1>10 DEF ChooseLocal
  <2>2. TypeInv'
    BY <1>0, <1>10, <2>1, TakenLocal DEF ChooseLocal, TypeInv, fixed, merging
  <2> QED
    BY <1>1, <1>10, <2>2 DEF ChooseLocal
<1>11. CASE ChooseBoth
  <2>1. Written # {} /\ TakeLocal
    BY <1>11 DEF ChooseBoth
  <2>2. user' \in Key \cup {NoKey} /\ step' = "skip" /\ cur' = Nothing
    BY <1>0, <1>11 DEF ChooseBoth, EngineNext, TypeInv
  <2>3. TypeInv'
    BY <1>0, <1>4, <1>11, <2>1, <2>2, TakenLocal DEF ChooseBoth, TypeInv, fixed, merging
  <2> QED
    BY <1>1, <1>11, <2>3 DEF ChooseBoth
<1>12. CASE ChooseEngine
  <2>1. user' \in Key \cup {NoKey} /\ step' = "skip" /\ cur' = Nothing /\ pending' = cur
    BY <1>0, <1>12 DEF ChooseEngine, EngineNext, TypeInv
  <2>2. cur.key \in Key
    BY <1>0, <1>12 DEF ChooseEngine, TypeInv
  <2>3. TypeInv'
    BY <1>0, <1>4, <1>12, <2>1, <2>2 DEF ChooseEngine, TypeInv, fixed, merging
  <2> QED
    BY <1>1, <1>12, <2>3 DEF ChooseEngine
<1>13. CASE Yield
  <2>1. pending \in [key : Key, val : Stored]
    BY <1>0, <1>13 DEF Yield, TypeInv
  <2>2. out' \in Seq([key : Key, val : Stored])
    <3> DEFINE entries == [key : Key, val : Stored]
    <3>1. out' = out \/ out' = Append(out, pending)
      BY <1>13 DEF Yield
    <3>2. out \in Seq(entries) /\ pending \in entries
      BY <1>0, <2>1 DEF TypeInv
    <3> HIDE DEF entries
    <3>3. out' \in Seq(entries)
      BY <3>1, <3>2
    <3> QED
      BY <3>3 DEF entries
  <2>3. TypeInv'
    BY <1>0, <1>4, <1>13, <2>2 DEF Yield, TypeInv, fixed, merging, NoPending
  <2> QED
    BY <1>1, <1>13, <2>3 DEF Yield
<1>14. CASE Exhausted
  <2>1. TypeInv'
    BY <1>0, <1>14 DEF Exhausted, TypeInv, fixed, merging, NoPending
  <2> QED
    BY <1>1, <1>14, <2>1 DEF Exhausted
<1>15. CASE ReadFails
  <2>1. TypeInv'
    BY <1>0, <1>15 DEF ReadFails, TypeInv, fixed, merging, NoPending
  <2> QED
    BY <1>1, <1>15, <2>1 DEF ReadFails
<1>16. CASE Insert
  BY <1>16, InsertBase
<1>17. CASE UNCHANGED vars
  <2>1. UNCHANGED <<source, merging, fixed>>
    BY <1>17 DEF vars, merging, fixed
  <2>2. TypeInv'
    BY <1>0, <1>17 DEF vars, TypeInv, NoPending
  <2> QED
    BY <1>1, <2>1, <2>2
<1> QED
  BY <1>5, <1>6, <1>7, <1>8, <1>9, <1>10, <1>11, <1>12, <1>13, <1>14, <1>15, <1>16, <1>17
     DEF Next, Reader, Find, Advance

-----------------------------------------------------------------------------
(* The second half: what the reader has made of what the merge has passed. *)

\* A key without a version in the snapshot reads as deleted; the version the
\* merge stands on is the newest of its key unless it has passed one.
LEMMA EngineIs ==
    ASSUME BaseInv
    PROVE  /\ \A k : (\A v \in Snap : v.key # k) => Engine(k) = Tombstone
           /\ Valid /\ Merged.ts <= ReadTs /\ InRange(Merged.key) /\ Merged.key \notin Seen
                 => Engine(Merged.key) = Merged.val
<1> USE StampedFacts
<1>0. /\ TypeInv /\ SourceInv /\ current = Pick(head)
      /\ start.versions \in SUBSET Version /\ start.versions \subseteq Stamped
  BY DEF BaseInv, TypeInv, MergeInv
<1>1. ASSUME NEW k, \A v \in Snap : v.key # k
      PROVE  Engine(k) = Tombstone
  <2>1. \A v \in start.versions : v.key = k => ~ (v.ts <= ReadTs)
    BY <1>1 DEF Snap
  <2> QED
    BY <2>1, ReadNone DEF Engine
<1>2. ASSUME Valid, Merged.ts <= ReadTs, InRange(Merged.key), Merged.key \notin Seen
      PROVE  Engine(Merged.key) = Merged.val
  <2>1. Merged \in Stamped /\ Merged \in Everything
    BY <1>0, <1>2, AtMerge
  <2>2. Merged \in Snap /\ Merged \in start.versions
    BY <1>0, <1>2, <2>1 DEF SourceInv, Snap
  <2>3. ASSUME NEW w \in start.versions, w.key = Merged.key, w.ts <= ReadTs
        PROVE  w.ts <= Merged.ts
    <3>1. w \in Snap /\ w \in Stamped
      BY <1>0, <2>3 DEF Snap
    <3>2. ~ Before(w, Merged)
      BY <1>2, <2>3, <3>1 DEF Seen, Behind
    <3> QED
      BY <2>1, <2>3, <3>1, <3>2 DEF Before
  <2>4. IsNewest(Merged, start.versions, Merged.key, ReadTs)
    BY <1>2, <2>2, <2>3 DEF IsNewest
  <2>5. OneVersionPerTs(start.versions)
    BY <1>0 DEF SourceInv
  <2> QED
    BY <1>0, <2>4, <2>5, ReadNewest DEF Engine
<1> QED
  BY <1>1, <1>2

\* The keys of the range that the merge has passed lie at or before its place.
LEMMA SeenBefore ==
    ASSUME BaseInv
    PROVE  /\ Seen \subseteq Key
           /\ Valid => Merged.key \in Key /\ \A k \in Seen : k <= Merged.key
           /\ \A v \in Snap : InRange(v.key) /\ (Valid => v.key < Merged.key) => v.key \in Seen
<1> USE StampedFacts
<1>1. Snap \subseteq Stamped /\ (Valid => Merged \in Stamped)
  BY AtMerge DEF BaseInv, TypeInv, MergeInv, Snap
<1> QED
  BY <1>1 DEF Seen, Behind, Before

\* What a movement of the merge adds to them.
LEMMA SeenStep ==
    ASSUME BaseInv, Valid, MergeNext, UNCHANGED <<source, fixed>>
    PROVE  /\ Seen' \subseteq Seen \cup {Merged.key}
           /\ Merged.ts > ReadTs => Seen' \subseteq Seen
           /\ Merged.key \in Key /\ Merged.ts \in Nat
           /\ Valid' => /\ Merged'.key \in Key /\ Merged'.key >= Merged.key
                        /\ Merged'.key # Merged.key => Merged'.key \notin Seen'
<1> USE StampedFacts
<1>1. /\ Valid' => Merged' \in Stamped /\ Before(Merged, Merged')
      /\ \A v \in Snap : InRange(v.key) => (Behind(v)' <=> Behind(v) \/ v = Merged)
  BY MergeStep
<1>2. Merged \in Stamped
  BY AtMerge DEF BaseInv, MergeInv
<1>3. Snap' = Snap /\ \A k : InRange(k)' <=> InRange(k)
  BY DEF fixed, Snap, InRange
<1>4. Seen' = {v.key : v \in {w \in Snap : InRange(w.key) /\ (Behind(w) \/ w = Merged)}}
  <2>1. Seen' = {v.key : v \in {w \in Snap : InRange(w.key) /\ Behind(w)'}}
    BY <1>3 DEF Seen
  <2> QED
    BY <1>1, <2>1
<1>5. Seen' \subseteq Seen \cup {Merged.key}
  BY <1>4 DEF Seen
<1>6. Merged.ts > ReadTs => Seen' \subseteq Seen
  BY <1>2, <1>4 DEF Seen, Snap
<1>7. \A k \in Seen : k <= Merged.key
  BY SeenBefore
<1>8. Valid' => Merged'.key >= Merged.key
  BY <1>1, <1>2 DEF Before
<1>9. Seen \subseteq Key
  BY SeenBefore
<1>10. ASSUME Valid', Merged'.key # Merged.key
       PROVE  Merged'.key \notin Seen'
  <2>1. Merged'.key \in Nat /\ Merged.key \in Nat /\ Merged'.key >= Merged.key
    BY <1>1, <1>2, <1>8, <1>10
  <2> QED
    BY <2>1, <1>5, <1>7, <1>10
<1> QED
  BY <1>1, <1>2, <1>5, <1>6, <1>8, <1>10

\* A key above the frontier reads as deleted when all that the merge has passed
\* there is, and the merge is behind it.
LEMMA PassedOver ==
    ASSUME BaseInv, NEW c \in Nat, \A k \in Seen : k >= c => Engine(k) = Tombstone,
           NEW j \in Key, InRange(j), j >= c, Valid => j < Merged.key
    PROVE  Engine(j) = Tombstone
<1>1. CASE \E v \in Snap : v.key = j
  BY <1>1, SeenBefore
<1>2. CASE \A v \in Snap : v.key # j
  BY <1>2, EngineIs
<1> QED
  BY <1>1, <1>2

\* The answer and the range are those of the start.
LEMMA AnswerRests ==
    ASSUME UNCHANGED fixed
    PROVE  /\ KeysFound' = KeysFound
           /\ \A k : Answer(k)' = Answer(k) /\ Engine(k)' = Engine(k)
           /\ \A k : InRange(k)' <=> InRange(k)
<1>1. \A k : Answer(k)' = Answer(k) /\ Engine(k)' = Engine(k) /\ (InRange(k)' <=> InRange(k))
  BY DEF fixed, Answer, Engine, InRange
<1> QED
  BY <1>1 DEF KeysFound

\* What was handed out stays the answer while nothing of it changes.
LEMMA OutRests ==
    ASSUME NEW c \in Nat, OutAt(c), UNCHANGED <<out, pending, access, fixed>>
    PROVE  OutAt(c)'
<1>1. /\ KeysFound' = KeysFound
      /\ \A k : Answer(k)' = Answer(k)
      /\ \A k : InRange(k)' <=> InRange(k)
  BY AnswerRests
<1>2. Handed' = Handed /\ NoPending' = NoPending
  BY DEF Handed, NoPending, Nothing
<1> QED
  BY <1>1, <1>2 DEF OutAt

\* So do the local writes.
LEMMA LocalRests ==
    ASSUME NEW c \in Nat, LocalAt(c), UNCHANGED <<local, fixed>>
    PROVE  LocalAt(c)'
  BY DEF LocalAt, fixed

\* What the merge has passed does not change while it stands still.
LEMMA SeenRests ==
    ASSUME UNCHANGED <<merging, fixed>>
    PROVE  /\ Seen' = Seen /\ Merged' = Merged /\ (Valid' <=> Valid)
  BY DEF merging, fixed, Seen, Snap, InRange, Behind, Valid, Merged

\* The merge's place is in the range when the reader looks at it.
LEMMA MergedInRange ==
    ASSUME BaseInv, Valid, ~ PastUpper
    PROVE  InRange(Merged.key) /\ Merged.key \in Key
<1>1. /\ Merged \in Stamped /\ current \in 1 .. Tiers
      /\ (lower # NoKey => Merged.key >= lower)
  BY AtMerge, StampedFacts DEF BaseInv, MergeInv, Merged
<1>2. upper # NoKey => Merged.key < upper
  <2>1. Merged.key \in Nat
    BY <1>1, StampedFacts
  <2>2. upper # NoKey => upper \in Nat
    BY StampedFacts DEF BaseInv, TypeInv
  <2> QED
    BY <2>1, <2>2 DEF PastUpper
<1> QED
  BY <1>1, <1>2, StampedFacts DEF InRange

\* Steps of mvccIterator: what is decided and what is handed out stays.
LEMMA EngineMoves ==
    ASSUME NEW c \in Nat, Progress(c), Running,
           UNCHANGED <<local, pending, out, access, fixed, status>>,
           step' = "find" => FindAt(c)', step' = "skip" => SkipAt(c)',
           step' = "stand" => StandAt(c)'
    PROVE  Progress(c)'
<1>1. OutAt(c)' /\ LocalAt(c)'
  BY OutRests, LocalRests DEF Progress
<1>2. status' = "running"
  BY DEF Running
<1> QED
  BY <1>1, <1>2 DEF Progress

\* The engine is exhausted, or the merge has left the range: what is left is deleted.
LEMMA FindEndsProgress ==
    ASSUME BaseInv, NEW c \in Nat, Progress(c), FindEnds
    PROVE  Progress(c)'
<1> USE StampedFacts
<1>1. /\ \A k \in Seen : k >= c => Engine(k) = Tombstone
  BY DEF Progress, FindEnds, FindAt
<1>2. ASSUME NEW j \in Key, InRange(j), j >= c
      PROVE  Engine(j) = Tombstone
  <2>1. ASSUME Valid
        PROVE  j < Merged.key
    <3>1. upper # NoKey /\ Merged.key >= upper /\ j < upper
      BY <1>2, <2>1 DEF FindEnds, PastUpper, InRange
    <3>2. Merged.key \in Nat /\ upper \in Nat
      BY <2>1, <3>1, SeenBefore DEF BaseInv, TypeInv
    <3> QED
      BY <3>1, <3>2
  <2> QED
    BY <1>1, <1>2, <2>1, PassedOver
<1>3. \A k : Engine(k)' = Engine(k) /\ (InRange(k)' <=> InRange(k))
  BY AnswerRests DEF FindEnds
<1>4. step' = "stand" /\ cur' = Nothing'
  BY DEF FindEnds, Nothing
<1>5. StandAt(c)'
  BY <1>2, <1>3, <1>4 DEF StandAt
<1> QED
  BY <1>4, <1>5, EngineMoves DEF FindEnds

\* A version above the snapshot is passed: no key of the snapshot is met by it.
LEMMA FindSkipsNewerProgress ==
    ASSUME BaseInv, NEW c \in Nat, Progress(c), FindSkipsNewer
    PROVE  Progress(c)'
<1> USE StampedFacts
<1>1. FindAt(c) /\ Valid /\ Merged.ts > ReadTs /\ MergeNext /\ UNCHANGED <<source, fixed>>
  BY DEF FindSkipsNewer, Progress
<1>2. /\ Seen' \subseteq Seen /\ Merged.key \in Key
      /\ Valid' => /\ Merged'.key \in Key /\ Merged'.key >= Merged.key
                   /\ Merged'.key # Merged.key => Merged'.key \notin Seen'
  BY <1>1, SeenStep
<1>3. \A k : Engine(k)' = Engine(k)
  BY <1>1, AnswerRests
<1>4. FindAt(c)'
  <2>1. \A k \in Seen' : k >= c => Engine(k)' = Tombstone
    BY <1>1, <1>2, <1>3 DEF FindAt
  <2>2. Valid' => Merged'.key >= c
    <3>1. Merged.key >= c /\ Merged.key \in Nat
      BY <1>1, <1>2 DEF FindAt
    <3>2. Valid' => Merged'.key \in Nat /\ Merged'.key >= Merged.key
      BY <1>2
    <3> QED
      BY <3>1, <3>2
  <2>3. Valid' => Merged'.key \notin Seen'
    BY <1>1, <1>2 DEF FindAt
  <2> QED
    BY <2>1, <2>2, <2>3 DEF FindAt
<1>5. step' = "find"
  BY DEF FindSkipsNewer
<1> QED
  BY <1>4, <1>5, EngineMoves DEF FindSkipsNewer

\* A tombstone that comes first is its key's newest version: the key is deleted.
LEMMA FindSkipsTombstoneProgress ==
    ASSUME BaseInv, NEW c \in Nat, Progress(c), FindSkipsTombstone
    PROVE  Progress(c)'
<1> USE StampedFacts
<1>1. FindAt(c) /\ Valid /\ ~ PastUpper /\ Merged.ts <= ReadTs /\ Merged.val = Tombstone
  BY DEF FindSkipsTombstone, Progress
<1>2. InRange(Merged.key) /\ Merged.key \in Key
  BY <1>1, MergedInRange
<1>3. Engine(Merged.key) = Tombstone
  BY <1>1, <1>2, EngineIs DEF FindAt
<1>4. /\ Seen' = Seen /\ Merged' = Merged /\ (Valid' <=> Valid)
      /\ \A k : Engine(k)' = Engine(k)
  BY SeenRests, AnswerRests DEF FindSkipsTombstone
<1>5. step' = "skip" /\ user' = Merged.key
  BY DEF FindSkipsTombstone
<1>6. SkipAt(c)'
  <2>1. Merged.key >= c /\ Merged.key \in Nat
    BY <1>1, <1>2 DEF FindAt
  <2>2. c <= Merged.key + 1 /\ Merged.key >= Merged.key
    BY <2>1
  <2>3. \A k \in Seen' : k >= c => Engine(k)' = Tombstone
    BY <1>1, <1>4 DEF FindAt
  <2>4. Merged'.key = user' /\ user' = Merged.key
    BY <1>4, <1>5
  <2>5. Engine(user)' = Tombstone
    BY <1>3, <1>5 DEF Engine, FindSkipsTombstone, fixed
  <2> QED
    BY <1>2, <2>2, <2>3, <2>4, <2>5 DEF SkipAt
<1> QED
  BY <1>5, <1>6, EngineMoves DEF FindSkipsTombstone

\* Another version that comes first is what its key reads as.
LEMMA FindStandsProgress ==
    ASSUME EmptyKey \notin Key, BaseInv, NEW c \in Nat, Progress(c), FindStands
    PROVE  Progress(c)'
<1> USE StampedFacts
<1>1. FindAt(c) /\ Valid /\ ~ PastUpper /\ Merged.ts <= ReadTs /\ Merged.val # Tombstone
  BY DEF FindStands, Progress
<1>2. InRange(Merged.key) /\ Merged.key \in Key
  BY <1>1, MergedInRange
<1>3. Engine(Merged.key) = Merged.val
  BY <1>1, <1>2, EngineIs DEF FindAt
<1>4. /\ Seen' = Seen /\ Merged' = Merged /\ (Valid' <=> Valid)
      /\ \A k : Engine(k)' = Engine(k) /\ (InRange(k)' <=> InRange(k))
  BY SeenRests, AnswerRests DEF FindStands
<1>5. step' = "stand" /\ cur' = [key |-> Merged.key, val |-> Merged.val]
  BY <1>2 DEF FindStands, Found
<1>6. StandAt(c)'
  <2>1. cur'.key = Merged.key /\ cur'.val = Merged.val
    BY <1>5
  <2>2. cur' # Nothing'
    BY <1>2, <2>1 DEF Nothing
  <2> QED
    BY <1>1, <1>2, <1>3, <1>4, <2>1, <2>2 DEF StandAt, FindAt
<1> QED
  BY <1>5, <1>6, EngineMoves DEF FindStands

\* The rest of a decided or deleted user key is passed.
LEMMA SkipUserProgress ==
    ASSUME BaseInv, NEW c \in Nat, Progress(c), SkipUser
    PROVE  Progress(c)'
<1> USE StampedFacts
<1>1. SkipAt(c) /\ UNCHANGED <<source, fixed>> /\ user' = user
  BY DEF SkipUser, Progress
<1>2. \A k : Engine(k)' = Engine(k)
  BY <1>1, AnswerRests
<1>3. CASE Valid /\ Merged.key = user
  <2>1. MergeNext /\ step' = "skip"
    BY <1>3 DEF SkipUser
  <2>2. /\ Seen' \subseteq Seen \cup {Merged.key}
        /\ Valid' => /\ Merged'.key \in Key /\ Merged'.key >= Merged.key
                     /\ Merged'.key # Merged.key => Merged'.key \notin Seen'
    BY <1>1, <1>3, <2>1, SeenStep
  <2>3. SkipAt(c)'
    BY <1>1, <1>2, <1>3, <2>2 DEF SkipAt
  <2> QED
    BY <2>1, <2>3, EngineMoves DEF SkipUser
<1>4. CASE ~ (Valid /\ Merged.key = user)
  <2>1. UNCHANGED merging /\ step' = "find"
    BY <1>4 DEF SkipUser
  <2>2. /\ Seen' = Seen /\ Merged' = Merged /\ (Valid' <=> Valid)
    BY <1>1, <2>1, SeenRests
  <2>3. ASSUME Valid
        PROVE  Merged.key >= c /\ Merged.key \notin Seen
    <3>1. Merged.key \in Nat /\ user \in Nat /\ Merged.key >= user /\ c <= user + 1
      BY <1>1, <2>3, SeenBefore DEF SkipAt
    <3>2. Merged.key # user
      BY <1>4, <2>3
    <3> QED
      BY <1>1, <2>3, <3>1, <3>2 DEF SkipAt
  <2>4. FindAt(c)'
    BY <1>1, <1>2, <2>2, <2>3 DEF SkipAt, FindAt
  <2> QED
    BY <2>1, <2>4, EngineMoves DEF SkipUser
<1> QED
  BY <1>3, <1>4

\* Standing, the engine has nothing between the frontier and its key.
LEMMA StandEngine ==
    ASSUME BaseInv, NEW c \in Nat, StandAt(c), NEW j \in Key, InRange(j), j >= c,
           cur # Nothing => j < cur.key
    PROVE  Engine(j) = Tombstone
<1>1. CASE cur = Nothing
  BY <1>1 DEF StandAt
<1>2. CASE cur # Nothing
  <2>1. Valid /\ Merged.key = cur.key /\ \A k \in Seen : k >= c => Engine(k) = Tombstone
    BY <1>2 DEF StandAt
  <2> QED
    BY <1>2, <2>1, PassedOver
<1> QED
  BY <1>1, <1>2

\* What is left of the local writes are those at or above the frontier.
LEMMA LocalFacts ==
    ASSUME BaseInv, NEW c \in Nat, LocalAt(c)
    PROVE  /\ \A k \in Key : k \in Written <=> k >= c /\ start.local[k] # Unset
           /\ \A k \in Written : start.local[k] = local[k] /\ InRange(k)
                                 /\ Answer(k) = local[k]
           /\ \A k \in Key : k >= c /\ k \notin Written => Answer(k) = Engine(k)
<1> USE StampedFacts
<1>1. \A k \in Key : k \in Nat /\ (k < c \/ k >= c) /\ ~ (k < c /\ k >= c)
  OBVIOUS
<1>2. \A k \in Key : k \in Written <=> k >= c /\ start.local[k] # Unset
  BY <1>1 DEF Written, LocalAt
<1>3. \A k \in Written : k \in Key /\ k >= c
  BY <1>2 DEF Written
<1>4. \A k \in Written : start.local[k] = local[k] /\ start.local[k] # Unset
  BY <1>1, <1>2, <1>3 DEF LocalAt
<1>5. \A k \in Written : InRange(k) /\ Answer(k) = local[k]
  BY <1>3, <1>4 DEF BaseInv, SourceInv, Answer
<1>6. \A k \in Key : k >= c /\ k \notin Written => Answer(k) = Engine(k)
  BY <1>2 DEF Answer, Engine
<1> QED
  BY <1>2, <1>4, <1>5, <1>6

(***************************************************************************)
(* A decision: the next key with an answer becomes the pending entry, and  *)
(* the frontier moves past it (txn.go:213-271).                            *)
(***************************************************************************)
LEMMA Decided ==
    ASSUME NEW c \in Nat, OutAt(c), pending = NoPending, NEW m \in Key, c <= m,
           pending'.key = m, pending'.val = Answer(m), InRange(m),
           UNCHANGED <<out, access, fixed>>,
           \A k \in KeysFound : k >= c => k >= m
    PROVE  OutAt(m + 1)'
<1> USE StampedFacts
<1>1. /\ KeysFound' = KeysFound /\ KeysFound \subseteq Key
      /\ \A k : Answer(k)' = Answer(k)
      /\ \A k : InRange(k)' <=> InRange(k)
  BY AnswerRests DEF KeysFound
<1>2. Handed' = Handed /\ m \in Nat /\ m + 1 \in Nat /\ m < m + 1
  BY DEF Handed
<1>3. /\ \A i \in DOMAIN out : /\ out[i].key < c /\ out[i].key \in KeysFound
                               /\ out[i].val = Answer(out[i].key)
      /\ \A i, j \in DOMAIN out : i < j => out[i].key < out[j].key
      /\ \A k \in KeysFound : k < c => k \in Handed
      /\ access = Handed
  BY <1>1 DEF OutAt, NoPending, Nothing
<1>4. \A i \in DOMAIN out : out[i].key < m /\ out[i].key < m + 1
  <2>1. \A k \in Key : k < c => k < m /\ k < m + 1
    BY <1>2
  <2> QED
    BY <1>1, <1>3, <2>1
<1>5. \A k \in KeysFound : k < m + 1 => k < c \/ k = m
  <2>1. \A k \in KeysFound : k \in Nat /\ (k < c \/ k >= m)
    BY <1>1
  <2> QED
    BY <2>1, <1>2
<1>6. \A k \in KeysFound : k < m + 1 => k \in Handed \/ k = pending'.key
  BY <1>3, <1>5
<1> QED
  BY <1>1, <1>2, <1>3, <1>4, <1>6 DEF OutAt

\* A local write below the engine's key is decided.
LEMMA ChooseLocalProgress ==
    ASSUME BaseInv, NEW c \in Nat, Progress(c), ChooseLocal
    PROVE  \E d \in Nat : Progress(d)'
<1> USE StampedFacts
<1>0. PICK m \in Key : m = LocalKey
  BY LeastLocal DEF ChooseLocal, BaseInv
<1>1. /\ OutAt(c) /\ LocalAt(c) /\ StandAt(c) /\ pending = NoPending /\ step = "stand"
      /\ Written # {} /\ TakeLocal /\ (cur.key # NoKey => m < cur.key)
      /\ TypeInv /\ status = "running"
  BY <1>0 DEF ChooseLocal, Standing, Running, Progress, BaseInv
<1>2. /\ m \in Key /\ m \in Written /\ \A k \in Written : m <= k
      /\ pending' = [key |-> m, val |-> local[m]]
      /\ \A k \in Key : local'[k] = IF k = m THEN Unset ELSE local[k]
  BY <1>0, <1>1, LeastLocal, TakenLocal
<1>3. m >= c /\ InRange(m) /\ Answer(m) = local[m]
  BY <1>1, <1>2, LocalFacts
<1>4. UNCHANGED <<merging, fixed, out, access, cur, step, status>>
  BY DEF ChooseLocal
<1>5. cur # Nothing => cur.key \in Key /\ m < cur.key
  BY <1>1 DEF StandAt
<1>6. ASSUME NEW k \in KeysFound, k >= c
      PROVE  k >= m
  <2>1. k \in Key /\ InRange(k) /\ Answer(k) # Tombstone
    BY DEF KeysFound
  <2>2. CASE k \in Written
    BY <1>2, <2>1, <2>2
  <2>3. CASE k \notin Written
    <3>1. Engine(k) # Tombstone
      BY <1>1, <1>6, <2>1, <2>3, LocalFacts
    <3>2. cur # Nothing /\ ~ (k < cur.key)
      BY <1>1, <1>6, <2>1, <3>1, StandEngine
    <3>3. k \in Nat /\ m \in Nat /\ cur.key \in Nat /\ m < cur.key
      BY <1>2, <1>5, <2>1, <3>2
    <3> QED
      BY <3>2, <3>3
  <2> QED
    BY <2>2, <2>3
<1>7. OutAt(m + 1)'
  <2>1. pending'.key = m /\ pending'.val = Answer(m)
    BY <1>2, <1>3
  <2>2. c <= m
    BY <1>2, <1>3
  <2> QED
    BY <1>1, <1>2, <1>3, <1>4, <1>6, <2>1, <2>2, Decided
<1>8. LocalAt(m + 1)'
  <2>1. ASSUME NEW k \in Key
        PROVE  local'[k] = IF k < m + 1 THEN Unset ELSE start.local[k]
    <3>1. k \in Nat /\ m \in Nat
      BY <1>2
    <3>2. CASE k < m
      <4>1. k \notin Written /\ local[k] = Unset /\ k # m
        BY <1>2, <3>1, <3>2 DEF Written
      <4> QED
        BY <1>2, <3>1, <3>2, <4>1
    <3>3. CASE k = m
      BY <1>2, <3>1, <3>3
    <3>4. CASE k > m
      <4>1. local'[k] = start.local[k]
        BY <1>1, <1>2, <1>3, <3>1, <3>4 DEF LocalAt
      <4> QED
        BY <3>1, <3>4, <4>1
    <3> QED
      BY <3>1, <3>2, <3>3, <3>4
  <2> QED
    BY <1>4, <2>1 DEF LocalAt, fixed
<1>9. StandAt(m + 1)'
  <2>1. /\ Seen' = Seen /\ Merged' = Merged /\ (Valid' <=> Valid)
        /\ \A k : Engine(k)' = Engine(k) /\ (InRange(k)' <=> InRange(k))
    BY <1>4, SeenRests, AnswerRests
  <2>2. \A k \in Key : k >= m + 1 => k >= c
    BY <1>2, <1>3
  <2>3. cur # Nothing => m + 1 <= cur.key
    <3>1. cur # Nothing => cur.key \in Nat /\ m \in Nat /\ m < cur.key
      BY <1>2, <1>5
    <3> QED
      BY <3>1
  <2>4. cur' = cur /\ Nothing' = Nothing /\ Seen \subseteq Key
    BY <1>4, SeenBefore DEF Nothing
  <2> QED
    BY <1>1, <2>1, <2>2, <2>3, <2>4 DEF StandAt
<1>10. Progress(m + 1)'
  BY <1>1, <1>4, <1>7, <1>8, <1>9 DEF Progress
<1>11. m + 1 \in Nat
  <2>1. m \in Nat
    BY Zenon
  <2> QED
    BY <2>1
<1> QED
  BY <1>10, <1>11

\* A local write shadows the engine's entry of the same key.
LEMMA ChooseBothProgress ==
    ASSUME BaseInv, NEW c \in Nat, Progress(c), ChooseBoth
    PROVE  \E d \in Nat : Progress(d)'
<1> USE StampedFacts
<1>0. PICK m \in Key : m = LocalKey
  BY LeastLocal DEF ChooseBoth, BaseInv
<1>1. /\ OutAt(c) /\ LocalAt(c) /\ StandAt(c) /\ pending = NoPending
      /\ Written # {} /\ TakeLocal /\ cur.key = m
      /\ TypeInv /\ status = "running"
  BY <1>0 DEF ChooseBoth, Standing, Running, Progress, BaseInv
<1>2. /\ m \in Written /\ \A k \in Written : m <= k
      /\ pending' = [key |-> m, val |-> local[m]]
      /\ \A k \in Key : local'[k] = IF k = m THEN Unset ELSE local[k]
  BY <1>0, <1>1, LeastLocal, TakenLocal
<1>3. m >= c /\ InRange(m) /\ Answer(m) = local[m]
  BY <1>1, <1>2, LocalFacts
<1>4. UNCHANGED <<merging, fixed, out, access, status>>
  BY DEF ChooseBoth
<1>5. /\ cur # Nothing /\ Valid /\ Merged.key = m
      /\ \A k \in Seen : k >= c => Engine(k) = Tombstone
  BY <1>1 DEF StandAt, Nothing
<1>6. ASSUME NEW k \in KeysFound, k >= c
      PROVE  k >= m
  <2>1. k \in Key /\ InRange(k) /\ Answer(k) # Tombstone
    BY DEF KeysFound
  <2>2. CASE k \in Written
    BY <1>2, <2>1, <2>2
  <2>3. CASE k \notin Written
    <3>1. Engine(k) # Tombstone
      BY <1>1, <1>6, <2>1, <2>3, LocalFacts
    <3>2. ~ (k < m)
      BY <1>1, <1>6, <2>1, <3>1, StandEngine
    <3> QED
      BY <2>1, <3>2
  <2> QED
    BY <2>2, <2>3
<1>7. OutAt(m + 1)'
  <2>1. pending'.key = m /\ pending'.val = Answer(m) /\ c <= m
    BY <1>2, <1>3
  <2> QED
    BY <1>1, <1>3, <1>4, <1>6, <2>1, Decided
<1>8. LocalAt(m + 1)'
  <2>1. ASSUME NEW k \in Key
        PROVE  local'[k] = IF k < m + 1 THEN Unset ELSE start.local[k]
    <3>1. k \in Nat /\ m \in Nat
      OBVIOUS
    <3>2. CASE k < m
      <4>1. k \notin Written /\ local[k] = Unset /\ k # m
        BY <1>2, <3>1, <3>2 DEF Written
      <4> QED
        BY <1>2, <3>1, <3>2, <4>1
    <3>3. CASE k = m
      BY <1>2, <3>1, <3>3
    <3>4. CASE k > m
      <4>1. local'[k] = start.local[k]
        BY <1>1, <1>2, <1>3, <3>1, <3>4 DEF LocalAt
      <4> QED
        BY <3>1, <3>4, <4>1
    <3> QED
      BY <3>1, <3>2, <3>3, <3>4
  <2> QED
    BY <1>4, <2>1 DEF LocalAt, fixed
<1>9. m \in Nat /\ m + 1 \in Nat /\ m <= m + 1 /\ ~ (m >= m + 1)
  <2>1. m \in Nat
    BY Zenon
  <2> QED
    BY <2>1
<1>10. step' = "skip" /\ user' = m
  BY <1>1 DEF ChooseBoth, EngineNext
<1>11. SkipAt(m + 1)'
  <2>1. /\ Seen' = Seen /\ Merged' = Merged /\ (Valid' <=> Valid)
        /\ \A k : Engine(k)' = Engine(k)
    BY <1>4, SeenRests, AnswerRests
  <2>2. \A k \in Seen' : k >= m + 1 => Engine(k)' = Tombstone
    <3>1. \A k \in Seen : k >= m + 1 => k >= c
      <4>1. \A k \in Seen : k \in Nat
        BY SeenBefore
      <4>2. m \in Nat /\ c <= m
        BY <1>3, <1>9
      <4> QED
        BY <4>1, <4>2
    <3> QED
      BY <1>5, <2>1, <3>1
  <2>3. Merged'.key = m /\ m >= m
    BY <1>5, <1>9, <2>1
  <2>4. ~ (user' >= m + 1) /\ m + 1 <= user' + 1
    BY <1>9, <1>10
  <2> QED
    BY <1>10, <2>2, <2>3, <2>4 DEF SkipAt
<1>12. Progress(m + 1)'
  BY <1>1, <1>4, <1>7, <1>8, <1>10, <1>11 DEF Progress
<1> QED
  BY <1>9, <1>12

\* The engine's entry is decided, where there is no local write.
LEMMA ChooseEngineProgress ==
    ASSUME BaseInv, NEW c \in Nat, Progress(c), ChooseEngine
    PROVE  \E d \in Nat : Progress(d)'
<1> USE StampedFacts
<1>1. /\ OutAt(c) /\ LocalAt(c) /\ StandAt(c) /\ pending = NoPending
      /\ cur.key # NoKey /\ (Written # {} => cur.key < LocalKey)
      /\ TypeInv /\ status = "running"
  BY DEF ChooseEngine, Standing, Running, Progress, BaseInv
<1>2. cur # Nothing
  BY <1>1 DEF Nothing
<1>3. PICK m \in Key : m = cur.key
  BY <1>1, <1>2 DEF StandAt
<1>4. /\ InRange(m) /\ c <= m /\ cur.val = Engine(m) /\ Valid /\ Merged.key = m
      /\ \A k \in Seen : k >= c => Engine(k) = Tombstone
  BY <1>1, <1>2, <1>3 DEF StandAt
<1>5. /\ UNCHANGED <<merging, fixed, out, access, status, local>>
      /\ pending' = cur /\ step' = "skip" /\ user' = m
  BY <1>3 DEF ChooseEngine, EngineNext
<1>6. m \in Nat /\ m + 1 \in Nat /\ m <= m + 1 /\ ~ (m >= m + 1)
  <2>1. m \in Nat
    BY Zenon
  <2> QED
    BY <2>1
<1>7. \A k \in Key : k <= m => k \notin Written
  <2>1. \A k \in Written : LocalKey <= k /\ LocalKey \in Nat /\ m < LocalKey
    BY <1>1, <1>3, LeastLocal
  <2>2. \A k \in Key : k \in Nat
    OBVIOUS
  <2> QED
    BY <1>6, <2>1, <2>2
<1>8. Answer(m) = Engine(m)
  BY <1>1, <1>4, <1>6, <1>7, LocalFacts
<1>9. ASSUME NEW k \in KeysFound, k >= c
      PROVE  k >= m
  <2>1. k \in Key /\ InRange(k) /\ Answer(k) # Tombstone /\ k \in Nat
    BY DEF KeysFound
  <2>2. ASSUME k < m
        PROVE  FALSE
    <3>1. k \notin Written
      BY <1>6, <1>7, <2>1, <2>2
    <3>2. Engine(k) # Tombstone
      BY <1>1, <1>9, <2>1, <3>1, LocalFacts
    <3> QED
      BY <1>1, <1>3, <1>9, <2>1, <2>2, <3>2, StandEngine
  <2> QED
    BY <1>6, <2>1, <2>2
<1>10. OutAt(m + 1)'
  <2>1. pending'.key = m /\ pending'.val = Answer(m)
    BY <1>3, <1>4, <1>5, <1>8
  <2> QED
    BY <1>1, <1>4, <1>5, <1>9, <2>1, Decided
<1>11. LocalAt(m + 1)'
  <2>1. ASSUME NEW k \in Key
        PROVE  local[k] = IF k < m + 1 THEN Unset ELSE start.local[k]
    <3>1. CASE k <= m
      <4>1. local[k] = Unset
        BY <1>7, <3>1 DEF Written
      <4>2. k < m + 1
        BY <1>6, <3>1
      <4> QED
        BY <4>1, <4>2
    <3>2. CASE ~ (k <= m)
      <4>1. ~ (k < m + 1) /\ ~ (k < c)
        BY <1>4, <1>6, <3>2
      <4> QED
        BY <1>1, <4>1 DEF LocalAt
    <3> QED
      BY <3>1, <3>2
  <2> QED
    BY <1>5, <2>1 DEF LocalAt, fixed
<1>12. SkipAt(m + 1)'
  <2>1. /\ Seen' = Seen /\ Merged' = Merged /\ (Valid' <=> Valid)
        /\ \A k : Engine(k)' = Engine(k)
    BY <1>5, SeenRests, AnswerRests
  <2>2. \A k \in Seen' : k >= m + 1 => Engine(k)' = Tombstone
    <3>1. \A k \in Seen : k >= m + 1 => k >= c
      <4>1. \A k \in Seen : k \in Nat
        BY SeenBefore
      <4>2. m \in Nat /\ c <= m
        BY <1>4, <1>6
      <4> QED
        BY <4>1, <4>2
    <3> QED
      BY <1>4, <2>1, <3>1
  <2>3. Merged'.key = m /\ m >= m
    BY <1>4, <1>6, <2>1
  <2>4. ~ (user' >= m + 1) /\ m + 1 <= user' + 1
    BY <1>5, <1>6
  <2> QED
    BY <1>5, <2>2, <2>3, <2>4 DEF SkipAt
<1>13. Progress(m + 1)'
  BY <1>1, <1>5, <1>10, <1>11, <1>12 DEF Progress
<1> QED
  BY <1>6, <1>13

\* The pending entry, unless it is a local delete, is handed out and recorded.
LEMMA YieldProgress ==
    ASSUME BaseInv, NEW c \in Nat, Progress(c), Yield
    PROVE  Progress(c)'
<1> USE StampedFacts
<1>1. /\ OutAt(c) /\ LocalAt(c) /\ StandAt(c) /\ pending # NoPending
      /\ status = "running" /\ step = "stand" /\ TypeInv
      /\ UNCHANGED <<merging, fixed, step, user, cur, local, status>>
      /\ pending' = Nothing
  BY DEF Yield, Running, Progress, BaseInv, NoPending
<1>2. /\ KeysFound' = KeysFound /\ \A k : Answer(k)' = Answer(k) /\ Engine(k)' = Engine(k)
      /\ \A k : InRange(k)' <=> InRange(k)
  BY <1>1, AnswerRests
<1>3. /\ pending.key \in Key /\ pending.key < c /\ InRange(pending.key)
      /\ pending.val = Answer(pending.key)
      /\ \A i \in DOMAIN out : out[i].key < pending.key
      /\ \A i \in DOMAIN out : out[i].key < c /\ out[i].key \in KeysFound
                               /\ out[i].val = Answer(out[i].key)
      /\ \A i, j \in DOMAIN out : i < j => out[i].key < out[j].key
      /\ \A k \in KeysFound : k < c => k \in Handed \/ k = pending.key
      /\ access = Handed
  BY <1>1 DEF OutAt, TypeInv
<1>4. NoPending' = Nothing
  BY DEF NoPending, Nothing
<1>5. OutAt(c)'
  <2>1. CASE pending.val = Tombstone
    <3>1. out' = out /\ access' = access
      BY <2>1 DEF Yield
    <3>2. Handed' = Handed
      BY <3>1 DEF Handed
    <3>3. pending.key \notin KeysFound
      BY <1>3, <2>1 DEF KeysFound
    <3> QED
      BY <1>1, <1>2, <1>3, <1>4, <3>1, <3>2, <3>3 DEF OutAt
  <2>2. CASE pending.val # Tombstone
    <3> DEFINE n == Len(out) + 1
    <3>1. out' = Append(out, pending) /\ access' = access \cup {pending.key}
      BY <2>2 DEF Yield
    <3>2. Len(out) \in Nat /\ DOMAIN out = 1 .. Len(out)
      BY <1>1 DEF TypeInv
    <3>3. /\ DOMAIN out' = 1 .. n /\ out'[n] = pending
          /\ \A i \in 1 .. Len(out) : out'[i] = out[i]
      <4> DEFINE entries == [key : Key \cup {NoKey}, val : Stored]
                 given   == [key : Key, val : Stored]
      <4>1. out \in Seq(given) /\ pending \in entries
        BY <1>1 DEF TypeInv
      <4>2. given \subseteq entries
        OBVIOUS
      <4>3. pending \in given
        BY <1>3, <4>1
      <4> HIDE DEF entries, given
      <4>4. Append(out, pending) \in Seq(given) /\ Len(Append(out, pending)) = Len(out) + 1
        BY <4>1, <4>3
      <4>5. /\ Append(out, pending)[Len(out) + 1] = pending
            /\ \A i \in 1 .. Len(out) : Append(out, pending)[i] = out[i]
        BY <4>1, <4>3
      <4> QED
        BY <3>1, <4>4, <4>5
    <3>4. pending.key \in KeysFound
      BY <1>3, <2>2 DEF KeysFound
    <3>5. \A i \in 1 .. n : (i \in 1 .. Len(out)) \/ i = n
      BY <3>2
    <3> HIDE DEF n
    <3>6. \A i \in DOMAIN out' : /\ out'[i].key < c /\ out'[i].key \in KeysFound
                                 /\ out'[i].val = Answer(out'[i].key)
      BY <1>3, <3>2, <3>3, <3>4, <3>5
    <3>7. ASSUME NEW i \in DOMAIN out', NEW j \in DOMAIN out', i < j
          PROVE  out'[i].key < out'[j].key
      <4>1. i \in 1 .. Len(out) /\ (j \in 1 .. Len(out) \/ j = n)
        BY <3>2, <3>3, <3>5, <3>7 DEF n
      <4> QED
        BY <1>3, <3>2, <3>3, <3>7, <4>1
    <3>8. Handed' = Handed \cup {pending.key}
      <4>1. Handed' = {out'[i].key : i \in 1 .. n}
        BY <3>3 DEF Handed
      <4>2. \A i \in 1 .. Len(out) : i \in 1 .. n
        BY <3>2 DEF n
      <4>3. n \in 1 .. n
        BY <3>2 DEF n
      <4> QED
        BY <3>2, <3>3, <3>5, <4>1, <4>2, <4>3 DEF Handed
    <3>9. access' = Handed' /\ \A k \in KeysFound : k < c => k \in Handed'
      BY <1>3, <3>1, <3>8
    <3> QED
      BY <1>1, <1>2, <1>4, <3>6, <3>7, <3>9 DEF OutAt
  <2> QED
    BY <2>1, <2>2
<1>6. LocalAt(c)'
  BY <1>1, LocalRests
<1>7. StandAt(c)'
  <2>1. /\ Seen' = Seen /\ Merged' = Merged /\ (Valid' <=> Valid) /\ Nothing' = Nothing
    BY <1>1, SeenRests DEF Nothing
  <2> QED
    BY <1>1, <1>2, <2>1 DEF StandAt
<1> QED
  BY <1>1, <1>5, <1>6, <1>7 DEF Progress

\* The end: nothing is left at or above the frontier.
LEMMA ExhaustedProgress ==
    ASSUME BaseInv, NEW c \in Nat, Progress(c), Exhausted
    PROVE  Progress(c)'
<1> USE StampedFacts
<1>1. /\ OutAt(c) /\ LocalAt(c) /\ StandAt(c) /\ pending = NoPending /\ step = "stand"
      /\ cur.key = NoKey /\ Written = {}
      /\ UNCHANGED <<merging, fixed, step, user, cur, local, pending, out, access>>
  BY DEF Exhausted, Standing, Running, Progress
<1>2. cur = Nothing
  BY <1>1 DEF StandAt
<1>3. ASSUME NEW k \in KeysFound
      PROVE  k < c
  <2>1. k \in Key /\ InRange(k) /\ Answer(k) # Tombstone /\ k \in Nat
    BY DEF KeysFound
  <2>2. k >= c => Answer(k) = Engine(k)
    BY <1>1, <2>1, LocalFacts
  <2>3. k >= c => Engine(k) = Tombstone
    BY <1>1, <1>2, <2>1 DEF StandAt
  <2> QED
    BY <2>1, <2>2, <2>3
<1>4. OutAt(c)' /\ LocalAt(c)' /\ KeysFound' = KeysFound
  BY <1>1, OutRests, LocalRests, AnswerRests
<1>5. StandAt(c)'
  <2>1. /\ Seen' = Seen /\ Merged' = Merged /\ (Valid' <=> Valid) /\ Nothing' = Nothing
        /\ \A k : Engine(k)' = Engine(k) /\ (InRange(k)' <=> InRange(k))
    BY <1>1, SeenRests, AnswerRests DEF Nothing
  <2> QED
    BY <1>1, <2>1 DEF StandAt
<1>6. NoPending' = NoPending
  BY DEF NoPending, Nothing
<1> QED
  BY <1>1, <1>3, <1>4, <1>5, <1>6 DEF Progress

\* A failed read, a commit and a stutter leave the reader where it is.
LEMMA ReaderRests ==
    ASSUME BaseInv, NEW c \in Nat, Progress(c),
           UNCHANGED <<merging, fixed, step, user, cur, local, pending, out, access>>,
           status' = "done" => status = "done"
    PROVE  Progress(c)'
<1>1. OutAt(c)' /\ LocalAt(c)' /\ KeysFound' = KeysFound /\ NoPending' = NoPending
  BY OutRests, LocalRests, AnswerRests DEF Progress, NoPending, Nothing
<1>2. /\ Seen' = Seen /\ Merged' = Merged /\ (Valid' <=> Valid) /\ Nothing' = Nothing
      /\ \A k : Engine(k)' = Engine(k) /\ (InRange(k)' <=> InRange(k))
  BY SeenRests, AnswerRests DEF Nothing
<1>3. step = "find" => FindAt(c)'
  BY <1>2 DEF Progress, FindAt
<1>4. step = "skip" => SkipAt(c)'
  <2>1. Engine(user)' = Engine(user)
    BY DEF fixed, Engine
  <2> QED
    BY <1>2, <2>1 DEF Progress, SkipAt
<1>5. step = "stand" => StandAt(c)'
  BY <1>2 DEF Progress, StandAt
<1> QED
  BY <1>1, <1>3, <1>4, <1>5 DEF Progress

(***************************************************************************)
(* The second half is kept by every step, if no user key is empty.         *)
(***************************************************************************)
LEMMA ProgressStep ==
    ASSUME EmptyKey \notin Key, BaseInv, NEW c \in Nat, Progress(c), [Next]_vars
    PROVE  \E d \in Nat : Progress(d)'
<1>1. CASE FindEnds
  BY <1>1, FindEndsProgress
<1>2. CASE FindSkipsNewer
  BY <1>2, FindSkipsNewerProgress
<1>3. CASE FindSkipsTombstone
  BY <1>3, FindSkipsTombstoneProgress
<1>4. CASE FindStands
  BY <1>4, FindStandsProgress
<1>5. CASE SkipUser
  BY <1>5, SkipUserProgress
<1>6. CASE ChooseLocal
  BY <1>6, ChooseLocalProgress
<1>7. CASE ChooseBoth
  BY <1>7, ChooseBothProgress
<1>8. CASE ChooseEngine
  BY <1>8, ChooseEngineProgress
<1>9. CASE Yield
  BY <1>9, YieldProgress
<1>10. CASE Exhausted
  BY <1>10, ExhaustedProgress
<1>11. CASE ReadFails
  <2>1. /\ UNCHANGED <<merging, fixed, step, user, cur, local, pending, out, access>>
        /\ status' # "done"
    BY <1>11 DEF ReadFails
  <2> QED
    BY <2>1, ReaderRests
<1>12. CASE Insert
  <2>1. UNCHANGED <<merging, fixed, step, user, cur, local, pending, out, access, status>>
    BY <1>12 DEF Insert
  <2> QED
    BY <2>1, ReaderRests
<1>13. CASE UNCHANGED vars
  <2>1. UNCHANGED <<merging, fixed, step, user, cur, local, pending, out, access, status>>
    BY <1>13 DEF vars, merging, fixed
  <2> QED
    BY <2>1, ReaderRests
<1> QED
  BY <1>1, <1>2, <1>3, <1>4, <1>5, <1>6, <1>7, <1>8, <1>9, <1>10, <1>11, <1>12, <1>13
     DEF Next, Reader, Find, Advance

\* Nothing is decided when a scan starts.
LEMMA InitProgress == Init => Progress(0)
<1> USE StampedFacts
<1> SUFFICES ASSUME Init
             PROVE  Progress(0)
  OBVIOUS
<1>1. BaseInv /\ Seen = {}
  BY InitBase
<1>2. /\ step = "find" /\ pending = NoPending /\ out = <<>> /\ access = {}
      /\ status = "running" /\ start.local = local
  BY DEF Init
<1>3. \A k \in Key : k \in Nat /\ ~ (k < 0) /\ k >= 0
  OBVIOUS
<1>4. LocalAt(0)
  BY <1>2, <1>3 DEF LocalAt
<1>5. OutAt(0)
  <2>1. DOMAIN out = {} /\ Handed = {}
    BY <1>2 DEF Handed
  <2>2. \A k \in KeysFound : ~ (k < 0)
    BY <1>3 DEF KeysFound
  <2> QED
    BY <1>2, <2>1, <2>2 DEF OutAt
<1>6. FindAt(0)
  BY <1>1, <1>3, SeenBefore DEF FindAt
<1> QED
  BY <1>2, <1>4, <1>5, <1>6 DEF Progress

-----------------------------------------------------------------------------
(* The theorems. *)

\* The first half of the invariant, for any keys.
LEMMA BaseHolds == Spec => []BaseInv
<1>1. Init => BaseInv
  BY InitBase
<1> QED
  BY <1>1, BaseStep, PTL DEF Spec

\* The whole invariant, when the user keys are not empty.
LEMMA ScanHolds ==
    ASSUME EmptyKey \notin Key
    PROVE  Spec => []ScanInv
<1>1. Init => ScanInv
  BY InitBase, InitProgress DEF ScanInv
<1>2. ScanInv /\ [Next]_vars => ScanInv'
  <2> SUFFICES ASSUME ScanInv, [Next]_vars
               PROVE  ScanInv'
    OBVIOUS
  <2>1. PICK c \in Nat : Progress(c)
    BY DEF ScanInv
  <2>2. \E d \in Nat : Progress(d)'
    BY <2>1, ProgressStep DEF ScanInv
  <2> QED
    BY <2>2, BaseStep DEF ScanInv
<1> QED
  BY <1>1, <1>2, PTL DEF Spec

(***************************************************************************)
(* The variables of a scan have their types; an iterator stands on a       *)
(* version of its source or is exhausted.                                  *)
(***************************************************************************)
THEOREM ScanTypeOK == Spec => []TypeOK
<1>1. BaseInv => TypeOK
  <2> SUFFICES ASSUME BaseInv
               PROVE  TypeOK
    OBVIOUS
  <2>1. TypeInv /\ current = Pick(head)
    BY DEF BaseInv, MergeInv
  <2>2. current \in 0 .. Tiers
    BY <2>1, PickSpec DEF TypeInv
  <2>3. DOMAIN source = 1 .. Tiers /\ DOMAIN head = 1 .. Tiers
    BY <2>1 DEF TypeInv, Heads
  <2> QED
    BY <2>1, <2>2, <2>3 DEF TypeInv, TypeOK
<1> QED
  BY <1>1, BaseHolds, PTL

(***************************************************************************)
(* A scan hands out its snapshot with the local writes over it, in order,  *)
(* and all of it when it ends without an error, for any number of sources, *)
(* any placement of the versions and any commits meanwhile, as long as no  *)
(* user key is the empty one, which mvccIterator takes for exhaustion      *)
(* (mvcc_iterator.go:58; storage.go:281, txn.go:178-283).                  *)
(***************************************************************************)
THEOREM ScanHandsOutSnapshot ==
    ASSUME EmptyKey \notin Key
    PROVE  Spec => []ScanExact
<1>1. ScanInv => ScanExact
  <2> SUFFICES ASSUME ScanInv
               PROVE  ScanExact
    OBVIOUS
  <2>1. PICK c \in Nat : Progress(c)
    BY DEF ScanInv
  <2>2. OutAt(c) /\ TypeInv
    BY <2>1 DEF Progress, ScanInv, BaseInv
  <2>3. \A j \in Handed : j \in Nat /\ j < c
    BY <2>2, StampedFacts DEF OutAt, Handed, KeysFound
  <2>4. ASSUME NEW k \in KeysFound \ Handed
        PROVE  status # "done" /\ \A j \in Handed : j < k
    <3>1. k \in Nat
      BY StampedFacts DEF KeysFound
    <3>2. CASE k < c
      <4>1. k = pending.key /\ k \in Key
        BY <2>2, <2>4, <3>2 DEF OutAt, KeysFound
      <4>2. pending # NoPending
        BY <4>1, StampedFacts DEF NoPending, Nothing
      <4> QED
        BY <2>1, <2>2, <4>1, <4>2 DEF OutAt, Handed, Progress
    <3>3. CASE k >= c
      <4>1. status # "done"
        BY <2>1, <3>1, <3>3 DEF Progress
      <4> QED
        BY <2>3, <3>1, <3>3, <4>1
    <3> QED
      BY <3>1, <3>2, <3>3
  <2> QED
    BY <2>2, <2>4 DEF OutAt, ScanExact
<1> QED
  BY <1>1, ScanHolds, PTL
=============================================================================
