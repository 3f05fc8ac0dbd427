--------------------------- MODULE OperatorProofs ----------------------------
(***************************************************************************)
(* Facts about the operators the specifications are built from.            *)
(*                                                                         *)
(* Versions: reads and compaction, for every set of versions, finite or    *)
(* not: what garbage collection may drop, and what the layout of the tiers *)
(* has to guarantee for it.                                                *)
(*                                                                         *)
(* Controller: what the operators on sequences of table ids return, for    *)
(* every layout: RemoveIDs drops exactly the ids it is given and keeps the *)
(* others in order, and a task takes whole tiers and moves them down.      *)
(* These are recursive functions, so the facts rest on the inductions of   *)
(* Inductions.                                                             *)
(***************************************************************************)
EXTENDS Versions, Controller, Inductions

-----------------------------------------------------------------------------
(* Versions. *)

(***************************************************************************)
(* A read finds a newest version as soon as the key has one at or below    *)
(* the timestamp.                                                          *)
(***************************************************************************)
LEMMA NewestExists ==
    ASSUME NEW vs \in SUBSET Version, NEW k, NEW t \in Nat,
           NEW w \in vs, w.key = k, w.ts <= t
    PROVE  \E v \in vs : IsNewest(v, vs, k, t)
<1> DEFINE S == {v.ts : v \in {u \in vs : u.key = k /\ u.ts <= t}}
<1>1. S \in SUBSET (0 .. t) /\ S # {}
  BY DEF Version
<1>2. PICK m \in S : \A n \in S : n <= m
  BY <1>1, GreatestNat
<1> QED
  BY <1>2 DEF IsNewest

(***************************************************************************)
(* What ReadAt returns when the newest version is known, and when there is *)
(* none.                                                                   *)
(***************************************************************************)
LEMMA ReadNewest ==
    ASSUME NEW vs \in SUBSET Version, OneVersionPerTs(vs),
           NEW k, NEW t \in Nat, NEW v, IsNewest(v, vs, k, t)
    PROVE  ReadAt(vs, k, t) = v.val
<1>1. \A u \in vs : IsNewest(u, vs, k, t) => u = v
  BY DEF IsNewest, OneVersionPerTs, Version
<1> QED
  BY <1>1 DEF ReadAt, IsNewest

\* A key without a visible version reads as deleted.
LEMMA ReadNone ==
    ASSUME NEW vs, NEW k, NEW t,
           \A v \in vs : v.key = k => ~ (v.ts <= t)
    PROVE  ReadAt(vs, k, t) = Tombstone
  BY DEF ReadAt, IsNewest

(***************************************************************************)
(* A read depends on nothing but the versions of its key at or below its   *)
(* timestamp: sets and timestamps that agree on those give one answer.     *)
(***************************************************************************)
LEMMA ReadSame ==
    ASSUME NEW vs \in SUBSET Version, OneVersionPerTs(vs), NEW t \in Nat,
           NEW ws \in SUBSET Version, OneVersionPerTs(ws), NEW u \in Nat,
           NEW k,
           \A v \in vs : v.key = k /\ v.ts <= t => v \in ws /\ v.ts <= u,
           \A w \in ws : w.key = k /\ w.ts <= u => w \in vs /\ w.ts <= t
    PROVE  ReadAt(vs, k, t) = ReadAt(ws, k, u)
<1>1. CASE \E v \in vs : v.key = k /\ v.ts <= t
  <2>1. PICK v \in vs : IsNewest(v, vs, k, t)
    BY <1>1, NewestExists
  <2>2. IsNewest(v, ws, k, u)
    BY <2>1 DEF IsNewest
  <2> QED
    BY <2>1, <2>2, ReadNewest
<1>2. CASE \A v \in vs : v.key = k => ~ (v.ts <= t)
  BY <1>2, ReadNone
<1> QED
  BY <1>1, <1>2

-----------------------------------------------------------------------------
(***************************************************************************)
(* The version a reader at or above the watermark sees is one compaction   *)
(* keeps, and stays the newest; if it is a tombstone, nothing of the key   *)
(* at or below the reader's timestamp survives with it.                    *)
(***************************************************************************)
LEMMA KeptNewest ==
    ASSUME NEW vs \in SUBSET Version, OneVersionPerTs(vs), NEW wm \in Nat,
           NEW k, NEW t \in Nat, wm <= t, NEW v, IsNewest(v, vs, k, t)
    PROVE  \/ IsNewest(v, Kept(vs, wm), k, t)
           \/ /\ v.val = Tombstone
              /\ v.ts <= wm
              /\ \A u \in Kept(vs, wm) : u.key = k => ~ (u.ts <= t)
<1>1. v \in vs /\ v.ts \in Nat /\ Kept(vs, wm) \subseteq vs
  BY DEF IsNewest, Version, Kept
<1>2. \A u \in vs : u.ts \in Nat
  BY DEF Version
<1>3. CASE v \in Kept(vs, wm)
  BY <1>1, <1>2, <1>3 DEF IsNewest
<1>4. CASE v \notin Kept(vs, wm)
  <2>1. v.ts <= wm /\ ~ (IsNewest(v, vs, v.key, wm) /\ v.val # Tombstone)
    BY <1>1, <1>4 DEF Kept
  <2>2. IsNewest(v, vs, v.key, wm)
    BY <1>1, <1>2, <2>1 DEF IsNewest
  <2>3. ASSUME NEW u \in Kept(vs, wm), u.key = k, u.ts <= t
        PROVE  FALSE
    <3>1. u.ts <= v.ts
      BY <1>1, <2>3 DEF IsNewest
    <3>2. IsNewest(u, vs, k, wm) /\ u.val # Tombstone
      BY <1>1, <1>2, <2>1, <2>3, <3>1 DEF Kept
    <3> QED
      BY <1>1, <1>2, <2>1, <2>2, <2>3, <3>2 DEF IsNewest, OneVersionPerTs
  <2> QED
    BY <2>1, <2>2, <2>3
<1> QED
  BY <1>3, <1>4

(***************************************************************************)
(* Garbage collection is invisible to every reader at or above the         *)
(* watermark, whatever lies in the tiers above, provided those hold only   *)
(* younger versions of the keys they share with the compacted ones         *)
(* (compact.go:16-21, "nothing below the bottom level needs it").          *)
(***************************************************************************)
THEOREM GcBelowPreservesReads ==
    ASSUME NEW newer \in SUBSET Version, NEW older \in SUBSET Version,
           OneVersionPerTs(newer \cup older), TierAbove(newer, older),
           NEW wm \in Nat, NEW k, NEW t \in Nat, wm <= t
    PROVE  ReadAt(newer \cup Kept(older, wm), k, t)
             = ReadAt(newer \cup older, k, t)
<1> DEFINE all  == newer \cup older
           left == newer \cup Kept(older, wm)
<1>1. /\ all \in SUBSET Version /\ left \in SUBSET Version
      /\ left \subseteq all
      /\ Kept(older, wm) \subseteq older
  BY DEF Kept
<1>2. OneVersionPerTs(left) /\ OneVersionPerTs(older)
  BY <1>1 DEF OneVersionPerTs
<1>3. \A u \in all : u.ts \in Nat
  BY <1>1 DEF Version
<1>4. CASE \A u \in all : u.key = k => ~ (u.ts <= t)
  <2>1. ReadAt(all, k, t) = Tombstone
    BY <1>4, ReadNone
  <2>2. ReadAt(left, k, t) = Tombstone
    BY <1>1, <1>4, ReadNone
  <2> QED
    BY <2>1, <2>2
<1>5. CASE \E u \in all : u.key = k /\ u.ts <= t
  <2>1. PICK v \in all : IsNewest(v, all, k, t)
    BY <1>1, <1>5, NewestExists
  <2>2. ReadAt(all, k, t) = v.val
    BY <1>1, <2>1, ReadNewest
  <2>3. CASE v \in left
    <3>1. IsNewest(v, left, k, t)
      BY <1>1, <2>1, <2>3 DEF IsNewest
    <3>2. ReadAt(left, k, t) = v.val
      BY <1>1, <1>2, <3>1, ReadNewest
    <3> QED
      BY <2>2, <3>2
  <2>4. CASE v \notin left
    <3>1. v \in older /\ IsNewest(v, older, k, t)
      BY <2>1, <2>4 DEF IsNewest
    <3>2. v \notin Kept(older, wm)
      BY <2>4
    <3>3. /\ v.val = Tombstone
          /\ \A u \in Kept(older, wm) : u.key = k => ~ (u.ts <= t)
      BY <1>2, <3>1, <3>2, KeptNewest DEF IsNewest
    <3>4. \A u \in newer : u.key = k => ~ (u.ts <= t)
      BY <1>3, <2>1, <3>1 DEF IsNewest, TierAbove
    <3>5. ReadAt(left, k, t) = Tombstone
      BY <3>3, <3>4, ReadNone
    <3> QED
      BY <2>2, <3>3, <3>5
  <2> QED
    BY <2>3, <2>4
<1> QED
  BY <1>4, <1>5

(***************************************************************************)
(* The same for a compaction of everything there is.                       *)
(***************************************************************************)
THEOREM GcPreservesReads ==
    ASSUME NEW vs \in SUBSET Version, OneVersionPerTs(vs),
           NEW wm \in Nat, NEW k, NEW t \in Nat, wm <= t
    PROVE  ReadAt(Kept(vs, wm), k, t) = ReadAt(vs, k, t)
<1>1. TierAbove({}, vs) /\ {} \in SUBSET Version
  BY DEF TierAbove
<1>2. {} \cup vs = vs /\ {} \cup Kept(vs, wm) = Kept(vs, wm)
  OBVIOUS
<1>3. ReadAt({} \cup Kept(vs, wm), k, t) = ReadAt({} \cup vs, k, t)
  BY <1>1, <1>2, GcBelowPreservesReads
<1> QED
  BY <1>2, <1>3

(***************************************************************************)
(* A compaction that does not reach the bottom level drops nothing, given  *)
(* that commit timestamps start at 1 (mvcc.go:36-41).                      *)
(***************************************************************************)
THEOREM UpperCompactionKeepsAll ==
    ASSUME NEW vs \in SUBSET Version, \A v \in vs : v.ts > 0, NEW wm
    PROVE  Compacted(vs, FALSE, wm) = vs
  BY DEF Compacted, Kept

-----------------------------------------------------------------------------
\* Whatever is in the one set is newer than whatever is in the other.
Newer(vs, ws) == \A v \in vs, w \in ws : v.ts > w.ts

\* Being kept, spelled out.
LEMMA KeptIs ==
    ASSUME NEW vs, NEW w, NEW v
    PROVE  v \in Kept(vs, w) <=>
             /\ v \in vs
             /\ \/ v.ts > w
                \/ /\ v.ts <= w /\ v.val # Tombstone
                   /\ \A u \in vs : u.key = v.key /\ u.ts <= w => u.ts <= v.ts
  BY DEF Kept, IsNewest

(***************************************************************************)
(* Two stores of which one was collected, and which are alike from f on,   *)
(* stay alike when both get the same versions, all of them younger than    *)
(* what was collected.                                                     *)
(***************************************************************************)
LEMMA KeptGrow ==
    ASSUME NEW vs \in SUBSET Version, NEW ws \in SUBSET Version, NEW xs \in SUBSET Version,
           NEW f \in Nat, vs \subseteq ws, Kept(vs, f) = Kept(ws, f), Newer(xs, ws \ vs)
    PROVE  Kept(vs \cup xs, f) = Kept(ws \cup xs, f)
<1>0. /\ \A v \in ws \cup xs : v.ts \in Nat
      /\ \A w \in ws \ vs, x \in xs : x.ts > w.ts
  BY DEF Version, Newer
<1>1. ASSUME NEW v \in Kept(vs \cup xs, f)
      PROVE  v \in Kept(ws \cup xs, f)
  <2>1. CASE v.ts > f
    BY <1>1, <2>1, KeptIs
  <2>2. CASE ~ (v.ts > f)
    <3>1. /\ v \in vs \cup xs /\ v.ts <= f /\ v.val # Tombstone
          /\ \A u \in vs \cup xs : u.key = v.key /\ u.ts <= f => u.ts <= v.ts
      BY <1>1, <2>2, KeptIs
    <3>2. ASSUME NEW u \in ws \ vs, u.key = v.key, u.ts <= f
          PROVE  u.ts <= v.ts
      <4>1. CASE v \in xs
        BY <1>0, <3>2, <4>1
      <4>2. CASE v \in vs
        <5>1. v \in Kept(vs, f)
          BY <3>1, <4>2, KeptIs
        <5> QED
          BY <2>2, <3>2, <5>1, KeptIs
      <4> QED
        BY <3>1, <4>1, <4>2
    <3> QED
      BY <3>1, <3>2, KeptIs
  <2> QED
    BY <2>1, <2>2
<1>2. ASSUME NEW v \in Kept(ws \cup xs, f)
      PROVE  v \in Kept(vs \cup xs, f)
  <2>1. v \in ws => v \in Kept(ws, f)
    BY <1>2, KeptIs
  <2>2. v \in vs \cup xs
    BY <1>2, <2>1, KeptIs
  <2> QED
    BY <1>2, <2>2, KeptIs
<1> QED
  BY <1>1, <1>2

(***************************************************************************)
(* Stores that are alike from f on are alike from any later timestamp on.  *)
(***************************************************************************)
LEMMA KeptLater ==
    ASSUME NEW vs \in SUBSET Version, NEW ws \in SUBSET Version,
           NEW f \in Nat, NEW g \in Nat, f <= g,
           vs \subseteq ws, Kept(vs, f) = Kept(ws, f)
    PROVE  Kept(vs, g) = Kept(ws, g)
<1>0. \A v \in ws : v.ts \in Nat
  BY DEF Version
<1>1. ASSUME NEW v \in Kept(vs, g)
      PROVE  v \in Kept(ws, g)
  <2>1. CASE v.ts > g
    BY <1>1, <2>1, KeptIs
  <2>2. CASE ~ (v.ts > g)
    <3>1. /\ v \in vs /\ v.ts <= g /\ v.val # Tombstone /\ v.ts \in Nat
          /\ \A u \in vs : u.key = v.key /\ u.ts <= g => u.ts <= v.ts
      BY <1>0, <1>1, <2>2, KeptIs
    <3>2. ASSUME NEW u \in ws, u.key = v.key, u.ts <= g, ~ (u.ts <= v.ts)
          PROVE  FALSE
      <4>1. CASE u.ts > f
        <5>1. u \in vs
          BY <4>1, KeptIs
        <5> QED
          BY <3>1, <3>2, <5>1
      <4>2. CASE ~ (u.ts > f)
        <5>1. v.ts <= f /\ \A x \in vs : x.key = v.key /\ x.ts <= f => x.ts <= v.ts
          BY <1>0, <3>1, <3>2, <4>2
        <5>2. v \in Kept(ws, f)
          BY <3>1, <5>1, KeptIs
        <5> QED
          BY <1>0, <3>1, <3>2, <4>2, <5>1, <5>2, KeptIs
      <4> QED
        BY <4>1, <4>2
    <3> QED
      BY <3>1, <3>2, KeptIs
  <2> QED
    BY <2>1, <2>2
<1>2. ASSUME NEW v \in Kept(ws, g)
      PROVE  v \in Kept(vs, g)
  <2>1. v \in ws /\ v.ts \in Nat
    BY <1>0, <1>2, KeptIs
  <2>2. v \in Kept(ws, f)
    <3>1. CASE v.ts > f
      BY <2>1, <3>1, KeptIs
    <3>2. CASE ~ (v.ts > f)
      <4>1. /\ v.ts <= f /\ v.val # Tombstone
            /\ \A u \in ws : u.key = v.key /\ u.ts <= f => u.ts <= v.ts
        BY <1>0, <1>2, <2>1, <3>2, KeptIs
      <4> QED
        BY <2>1, <4>1, KeptIs
    <3> QED
      BY <3>1, <3>2
  <2>3. v \in vs
    BY <2>2, KeptIs
  <2> QED
    BY <1>2, <2>3, KeptIs
<1> QED
  BY <1>1, <1>2

(***************************************************************************)
(* Collecting the oldest part of a store at w leaves a store that is like  *)
(* the old one from w on.                                                  *)
(***************************************************************************)
LEMMA KeptBelow ==
    ASSUME NEW newer \in SUBSET Version, NEW older \in SUBSET Version,
           TierAbove(newer, older), NEW w \in Nat
    PROVE  Kept(newer \cup Kept(older, w), w) = Kept(newer \cup older, w)
<1>0. \A v \in newer \cup older : v.ts \in Nat
  BY DEF Version
<1>1. Kept(older, w) \subseteq older
  BY KeptIs
<1>2. ASSUME NEW v \in Kept(newer \cup Kept(older, w), w)
      PROVE  v \in Kept(newer \cup older, w)
  <2>1. v \in newer \cup older
    BY <1>1, <1>2, KeptIs
  <2>2. CASE v.ts > w
    BY <2>1, <2>2, KeptIs
  <2>3. CASE ~ (v.ts > w)
    <3>1. /\ v \in newer \cup Kept(older, w) /\ v.ts <= w /\ v.val # Tombstone
          /\ \A u \in newer \cup Kept(older, w) : u.key = v.key /\ u.ts <= w => u.ts <= v.ts
      BY <1>2, <2>3, KeptIs
    <3>2. \A u \in older : u.key = v.key /\ u.ts <= w => u.ts <= v.ts
      <4>1. CASE v \in newer
        BY <1>0, <4>1 DEF TierAbove
      <4>2. CASE v \in Kept(older, w)
        BY <2>3, <4>2, KeptIs
      <4> QED
        BY <3>1, <4>1, <4>2
    <3> QED
      BY <2>1, <3>1, <3>2, KeptIs
  <2> QED
    BY <2>2, <2>3
<1>3. ASSUME NEW v \in Kept(newer \cup older, w)
      PROVE  v \in Kept(newer \cup Kept(older, w), w)
  <2>1. v \in older => v \in Kept(older, w)
    BY <1>3, KeptIs
  <2>2. v \in newer \cup Kept(older, w)
    BY <1>3, <2>1, KeptIs
  <2> QED
    BY <1>1, <1>3, <2>2, KeptIs
<1> QED
  BY <1>2, <1>3

(***************************************************************************)
(* Stores that are alike from f on give the same answers from f on.        *)
(***************************************************************************)
LEMMA KeptReads ==
    ASSUME NEW vs \in SUBSET Version, NEW ws \in SUBSET Version,
           OneVersionPerTs(vs), OneVersionPerTs(ws),
           NEW f \in Nat, Kept(vs, f) = Kept(ws, f), NEW k, NEW t \in Nat, f <= t
    PROVE  ReadAt(vs, k, t) = ReadAt(ws, k, t)
<1>1. ReadAt(Kept(vs, f), k, t) = ReadAt(vs, k, t)
  BY GcPreservesReads
<1>2. ReadAt(Kept(ws, f), k, t) = ReadAt(ws, k, t)
  BY GcPreservesReads
<1> QED
  BY <1>1, <1>2

\* Timestamps start at 1, so a collection at 0 drops nothing.
LEMMA KeptAll ==
    ASSUME NEW vs \in SUBSET Version, \A v \in vs : v.ts > 0
    PROVE  Kept(vs, 0) = vs
  BY DEF Kept

-----------------------------------------------------------------------------
(* Controller: the ids in a sequence. *)

\* The ids in a sequence are values of its type.
LEMMA IdsInOf ==
    ASSUME NEW S, NEW s \in Seq(S)
    PROVE  /\ IdsIn(s) = {s[i] : i \in 1 .. Len(s)}
           /\ IdsIn(s) \subseteq S
           /\ Len(s) \in Nat
  BY DEF IdsIn

\* The ids of a concatenation.
LEMMA IdsInConcat ==
    ASSUME NEW S, NEW s \in Seq(S), NEW t \in Seq(S)
    PROVE  IdsIn(s \o t) = IdsIn(s) \cup IdsIn(t)
<1> DEFINE u == s \o t
<1>1. /\ u \in Seq(S) /\ Len(u) = Len(s) + Len(t)
      /\ Len(s) \in Nat /\ Len(t) \in Nat
      /\ \A i \in 1 .. Len(u) : u[i] = IF i <= Len(s) THEN s[i] ELSE t[i - Len(s)]
  OBVIOUS
<1> HIDE DEF u
<1>2. ASSUME NEW i \in 1 .. Len(u)
      PROVE  u[i] \in IdsIn(s) \cup IdsIn(t)
  <2>1. CASE i <= Len(s)
    BY <1>1, <2>1, IdsInOf
  <2>2. CASE ~ (i <= Len(s))
    <3>1. i - Len(s) \in 1 .. Len(t)
      BY <1>1, <2>2
    <3> QED
      BY <1>1, <2>2, <3>1, IdsInOf
  <2> QED
    BY <2>1, <2>2
<1>3. ASSUME NEW i \in 1 .. Len(s)
      PROVE  s[i] \in IdsIn(u)
  <2>1. i \in 1 .. Len(u) /\ u[i] = s[i]
    BY <1>1
  <2> QED
    BY <1>1, <2>1, IdsInOf
<1>4. ASSUME NEW i \in 1 .. Len(t)
      PROVE  t[i] \in IdsIn(u)
  <2> DEFINE j == Len(s) + i
  <2>1. j \in 1 .. Len(u) /\ ~ (j <= Len(s)) /\ j - Len(s) = i
    BY <1>1
  <2> HIDE DEF j
  <2>2. u[j] = t[i]
    BY <1>1, <2>1
  <2> QED
    <3>1. IdsIn(u) = {u[k] : k \in 1 .. Len(u)}
      BY <1>1, IdsInOf
    <3> QED
      BY <2>1, <2>2, <3>1
<1>5. /\ IdsIn(u) = {u[i] : i \in 1 .. Len(u)}
      /\ IdsIn(s) = {s[i] : i \in 1 .. Len(s)}
      /\ IdsIn(t) = {t[i] : i \in 1 .. Len(t)}
  BY <1>1, IdsInOf
<1>6. IdsIn(u) = IdsIn(s) \cup IdsIn(t)
  BY <1>2, <1>3, <1>4, <1>5
<1> QED
  BY <1>6 DEF u

\* The ids of short sequences, and with one id more at either end.
LEMMA IdsInSmall ==
    ASSUME NEW S, NEW s \in Seq(S), NEW x \in S
    PROVE  /\ IdsIn(<<>>) = {}
           /\ IdsIn(<<x>>) = {x}
           /\ IdsIn(<<x>> \o s) = {x} \cup IdsIn(s)
           /\ IdsIn(Append(s, x)) = IdsIn(s) \cup {x}
<1>1. IdsIn(<<>>) = {}
  BY DEF IdsIn
<1>2. IdsIn(<<x>>) = {x}
  BY DEF IdsIn
<1>3. <<x>> \in Seq(S) /\ Append(s, x) = s \o <<x>>
  OBVIOUS
<1>4. /\ IdsIn(<<x>> \o s) = IdsIn(<<x>>) \cup IdsIn(s)
      /\ IdsIn(s \o <<x>>) = IdsIn(s) \cup IdsIn(<<x>>)
  <2> DEFINE one == <<x>>
  <2>1. one \in Seq(S)
    BY <1>3
  <2> HIDE DEF one
  <2>2. IdsIn(one \o s) = IdsIn(one) \cup IdsIn(s) /\ IdsIn(s \o one) = IdsIn(s) \cup IdsIn(one)
    BY <2>1, IdsInConcat, ZenonT(30)
  <2> QED
    BY <2>2 DEF one
<1> QED
  BY <1>1, <1>2, <1>3, <1>4

\* The ids of a sequence with one more at its end.
LEMMA AppendIds ==
    ASSUME NEW S, NEW s \in Seq(S), NEW x \in S
    PROVE  IdsIn(Append(s, x)) = IdsIn(s) \cup {x}
<1>1. Append(s, x) = s \o <<x>> /\ <<x>> \in Seq(S)
  OBVIOUS
<1>2. IdsIn(s \o <<x>>) = IdsIn(s) \cup IdsIn(<<x>>)
  BY <1>1, IdsInConcat, ZenonT(30)
<1>3. IdsIn(<<x>>) = {x}
  BY DEF IdsIn
<1> QED
  BY <1>1, <1>2, <1>3

-----------------------------------------------------------------------------
(* RemoveIDs. *)

KeepsSoFar(kept, src, drop) ==
    /\ RemoveIDs(src, drop) = kept[Len(src)]
    /\ kept[0] = <<>>
    /\ \A i \in 1 .. Len(src) :
         kept[i] = IF src[i] \in IdsIn(drop) THEN kept[i - 1]
                   ELSE Append(kept[i - 1], src[i])

\* RemoveIDs is the last of a row of prefixes, each built from the one before.
LEMMA RemoveIDsUnfolds ==
    ASSUME NEW S, NEW src \in Seq(S), NEW drop
    PROVE  \E kept \in [0 .. Len(src) -> Seq(S)] : KeepsSoFar(kept, src, drop)
<1> DEFINE step == [p \in Seq(S) \X Nat |->
                      IF p[2] \in 1 .. Len(src) /\ src[p[2]] \notin IdsIn(drop)
                      THEN Append(p[1], src[p[2]]) ELSE p[1]]
           IsKept(f) == f = [i \in 0 .. Len(src) |->
                               IF i = 0 THEN <<>>
                               ELSE IF src[i] \in IdsIn(drop) THEN f[i - 1]
                               ELSE Append(f[i - 1], src[i])]
<1>1. step \in [Seq(S) \X Nat -> Seq(S)] /\ <<>> \in Seq(S) /\ Len(src) \in Nat
  OBVIOUS
<1>2. PICK f \in [0 .. Len(src) -> Seq(S)] :
        f[0] = <<>> /\ \A i \in 1 .. Len(src) : f[i] = step[<<f[i - 1], i>>]
  <2> DEFINE D == Seq(S)
             base == <<>>
  <2>1. base \in D /\ step \in [D \X Nat -> D] /\ Len(src) \in Nat
    BY <1>1
  <2> HIDE DEF step, D, base
  <2>2. \E f \in [0 .. Len(src) -> D] : Iterates(f, base, step, Len(src))
    BY <2>1, Iterate, Zenon
  <2> QED
    BY <2>2 DEF D, base, Iterates
<1>3. \A i \in 1 .. Len(src) :
        f[i] = IF src[i] \in IdsIn(drop) THEN f[i - 1] ELSE Append(f[i - 1], src[i])
  <2> TAKE i \in 1 .. Len(src)
  <2>1. f[i - 1] \in Seq(S)
    <3>1. i - 1 \in 0 .. Len(src)
      BY <1>1
    <3> QED
      BY <1>2, <3>1
  <2>2. f[i] = step[<<f[i - 1], i>>]
    BY <1>2
  <2> QED
    BY <2>1, <2>2
<1>4. IsKept(f)
  <2>1. \A i \in 0 .. Len(src) :
          f[i] = IF i = 0 THEN <<>>
                 ELSE IF src[i] \in IdsIn(drop) THEN f[i - 1]
                 ELSE Append(f[i - 1], src[i])
    <3> TAKE i \in 0 .. Len(src)
    <3>1. CASE i = 0
      BY <1>2, <3>1
    <3>2. CASE i # 0
      <4>1. i \in 1 .. Len(src)
        BY <1>1, <3>2
      <4> QED
        BY <1>3, <3>2, <4>1
    <3> QED
      BY <3>1, <3>2
  <2> QED
    BY <1>2, <2>1
<1> DEFINE kept == CHOOSE g : IsKept(g)
<1>5. IsKept(kept)
  <2> HIDE DEF IsKept
  <2> QED
    BY <1>4
<1>6. RemoveIDs(src, drop) = kept[Len(src)]
  BY DEF RemoveIDs
<1>7. kept = f
  <2> HIDE DEF kept
  <2> DEFINE T == {i \in Nat : i <= Len(src) => kept[i] = f[i]}
  <2>1. 0 \in T
    BY <1>2, <1>5
  <2>2. ASSUME NEW i \in T
        PROVE  i + 1 \in T
    <3> SUFFICES ASSUME i + 1 <= Len(src)
                 PROVE  kept[i + 1] = f[i + 1]
      OBVIOUS
    <3>1. i + 1 \in 1 .. Len(src) /\ (i + 1) - 1 = i /\ kept[i] = f[i]
      BY <1>1
    <3>2. kept[i + 1] = IF src[i + 1] \in IdsIn(drop) THEN kept[i]
                        ELSE Append(kept[i], src[i + 1])
      <4>1. i + 1 \in 0 .. Len(src) /\ i + 1 # 0
        BY <3>1
      <4> QED
        BY <1>5, <3>1, <4>1
    <3> QED
      BY <1>3, <3>1, <3>2
  <2>3. T = Nat
    <3>1. T \in SUBSET Nat
      OBVIOUS
    <3> HIDE DEF T
    <3> QED
      BY <2>1, <2>2, <3>1, SetInduction
  <2>4. \A i \in 0 .. Len(src) : kept[i] = f[i]
    BY <1>1, <2>3
  <2>5. kept = [i \in 0 .. Len(src) |-> kept[i]]
    BY <1>5
  <2>6. f = [i \in 0 .. Len(src) |-> f[i]]
    BY <1>2
  <2> HIDE DEF IsKept, T
  <2> QED
    BY <2>4, <2>5, <2>6
<1> HIDE DEF kept
<1> QED
  BY <1>2, <1>3, <1>6, <1>7 DEF KeepsSoFar

(***************************************************************************)
(* What is left are the ids not dropped, in the order they were in.        *)
(***************************************************************************)
InOrder(r, s) ==
    \A i, j \in 1 .. Len(r) : i < j =>
      \E p, q \in 1 .. Len(s) : p < q /\ r[i] = s[p] /\ r[j] = s[q]

\* r is what RemoveIDs leaves of the first n ids of src.
Leaves(r, n, src, drop) ==
    /\ \A i \in 1 .. Len(r) :
         r[i] \notin IdsIn(drop) /\ \E p \in 1 .. n : r[i] = src[p]
    /\ \A p \in 1 .. n : src[p] \notin IdsIn(drop) =>
         \E i \in 1 .. Len(r) : r[i] = src[p]
    /\ \A i, j \in 1 .. Len(r) : i < j =>
         \E p, q \in 1 .. n : p < q /\ r[i] = src[p] /\ r[j] = src[q]

\* RemoveIDs keeps what it was not told to drop, in its order
\* (compaction.go:52-64): a table that was flushed while a task ran stays.
LEMMA RemoveIDsResult ==
    ASSUME NEW S, NEW src \in Seq(S), NEW drop
    PROVE  /\ RemoveIDs(src, drop) \in Seq(S)
           /\ IdsIn(RemoveIDs(src, drop)) = IdsIn(src) \ IdsIn(drop)
           /\ InOrder(RemoveIDs(src, drop), src)
<1>0. PICK kept \in [0 .. Len(src) -> Seq(S)] : KeepsSoFar(kept, src, drop)
  BY RemoveIDsUnfolds, Zenon
<1>1. /\ kept \in [0 .. Len(src) -> Seq(S)]
      /\ RemoveIDs(src, drop) = kept[Len(src)]
      /\ kept[0] = <<>>
      /\ \A i \in 1 .. Len(src) :
           kept[i] = IF src[i] \in IdsIn(drop) THEN kept[i - 1]
                     ELSE Append(kept[i - 1], src[i])
  BY <1>0 DEF KeepsSoFar
<1>2. Len(src) \in Nat
  OBVIOUS
<1> DEFINE Good(n) == Leaves(kept[n], n, src, drop)
<1>3. Good(0)
  BY <1>1 DEF Leaves
<1>4. ASSUME NEW n \in Nat, n + 1 <= Len(src), Good(n)
      PROVE  Good(n + 1)
  <2>1. /\ kept[n] \in Seq(S)
        /\ n + 1 \in 1 .. Len(src) /\ (n + 1) - 1 = n
        /\ src[n + 1] \in S
    <3>1. n \in 0 .. Len(src) /\ n + 1 \in 1 .. Len(src)
      BY <1>2, <1>4
    <3> QED
      BY <1>1, <3>1
  <2>2. CASE src[n + 1] \in IdsIn(drop)
    <3>1. kept[n + 1] = kept[n]
      BY <1>1, <2>1, <2>2
    <3>2. 1 .. n \subseteq 1 .. n + 1
      OBVIOUS
    <3>3. \A p \in 1 .. n + 1 : p \in 1 .. n \/ p = n + 1
      OBVIOUS
    <3> DEFINE r == kept[n]
    <3>4. Leaves(r, n, src, drop)
      BY <1>4
    <3> HIDE DEF r
    <3>5. \A i \in 1 .. Len(r) :
            r[i] \notin IdsIn(drop) /\ \E p \in 1 .. n + 1 : r[i] = src[p]
      BY <3>2, <3>4 DEF Leaves
    <3>6. \A p \in 1 .. n + 1 : src[p] \notin IdsIn(drop) =>
            \E i \in 1 .. Len(r) : r[i] = src[p]
      BY <2>2, <3>3, <3>4 DEF Leaves
    <3>7. ASSUME NEW i \in 1 .. Len(r), NEW j \in 1 .. Len(r), i < j
          PROVE  \E p, q \in 1 .. n + 1 : p < q /\ r[i] = src[p] /\ r[j] = src[q]
      <4>1. PICK p \in 1 .. n, q \in 1 .. n : p < q /\ r[i] = src[p] /\ r[j] = src[q]
        BY <3>4, <3>7 DEF Leaves
      <4> QED
        BY <3>2, <4>1
    <3>8. Leaves(r, n + 1, src, drop)
      BY <3>5, <3>6, <3>7 DEF Leaves
    <3> QED
      BY <3>1, <3>8 DEF r
  <2>3. CASE src[n + 1] \notin IdsIn(drop)
    <3> DEFINE old == kept[n]
               new == kept[n + 1]
    <3>1. new = Append(old, src[n + 1])
      BY <1>1, <2>1, <2>3
    <3>2. /\ old \in Seq(S) /\ Len(new) = Len(old) + 1 /\ Len(old) \in Nat
          /\ new[Len(old) + 1] = src[n + 1]
          /\ \A i \in 1 .. Len(old) : new[i] = old[i]
      <4> HIDE DEF new
      <4> QED
        BY <2>1, <3>1
    <3>3. /\ \A i \in 1 .. Len(new) : i \in 1 .. Len(old) \/ i = Len(old) + 1
          /\ \A p \in 1 .. n + 1 : p \in 1 .. n \/ p = n + 1
          /\ 1 .. n \subseteq 1 .. n + 1 /\ n + 1 \in 1 .. n + 1
          /\ 1 .. Len(old) \subseteq 1 .. Len(new) /\ Len(old) + 1 \in 1 .. Len(new)
      BY <3>2
    <3>4. /\ \A i \in 1 .. Len(old) :
               old[i] \notin IdsIn(drop) /\ \E p \in 1 .. n : old[i] = src[p]
          /\ \A p \in 1 .. n : src[p] \notin IdsIn(drop) =>
               \E i \in 1 .. Len(old) : old[i] = src[p]
          /\ \A i, j \in 1 .. Len(old) : i < j =>
               \E p, q \in 1 .. n : p < q /\ old[i] = src[p] /\ old[j] = src[q]
      BY <1>4 DEF Leaves
    <3> HIDE DEF old, new
    <3>5. \A i \in 1 .. Len(new) :
            new[i] \notin IdsIn(drop) /\ \E p \in 1 .. n + 1 : new[i] = src[p]
      <4> TAKE i \in 1 .. Len(new)
      <4>1. CASE i \in 1 .. Len(old)
        <5>1. PICK p \in 1 .. n : old[i] = src[p] /\ old[i] \notin IdsIn(drop)
          BY <3>4, <4>1
        <5> QED
          BY <3>2, <3>3, <4>1, <5>1
      <4>2. CASE i = Len(old) + 1
        BY <2>3, <3>2, <3>3, <4>2
      <4> QED
        BY <3>3, <4>1, <4>2
    <3>6. \A p \in 1 .. n + 1 : src[p] \notin IdsIn(drop) =>
            \E i \in 1 .. Len(new) : new[i] = src[p]
      BY <3>2, <3>3, <3>4, ZenonT(30)
    <3>7. ASSUME NEW i \in 1 .. Len(new), NEW j \in 1 .. Len(new), i < j
          PROVE  \E p, q \in 1 .. n + 1 : p < q /\ new[i] = src[p] /\ new[j] = src[q]
      <4>1. i \in 1 .. Len(old)
        BY <3>2, <3>7
      <4>2. CASE j \in 1 .. Len(old)
        <5>1. PICK p \in 1 .. n, q \in 1 .. n : p < q /\ old[i] = src[p] /\ old[j] = src[q]
          BY <3>4, <3>7, <4>1, <4>2
        <5> QED
          BY <3>2, <3>3, <4>1, <4>2, <5>1
      <4>3. CASE j = Len(old) + 1
        <5>1. PICK p \in 1 .. n : old[i] = src[p]
          BY <3>4, <4>1
        <5>2. p < n + 1 /\ p \in 1 .. n + 1 /\ n + 1 \in 1 .. n + 1
          OBVIOUS
        <5> QED
          BY <3>2, <4>1, <4>3, <5>1, <5>2
      <4> QED
        BY <3>3, <4>2, <4>3
    <3> QED
      BY <3>5, <3>6, <3>7 DEF new, Leaves
  <2> QED
    BY <2>2, <2>3
<1>5. Good(Len(src))
  <2> DEFINE T == {n \in Nat : n <= Len(src) => Good(n)}
  <2>1. T \in SUBSET Nat /\ 0 \in T
    BY <1>3
  <2>2. ASSUME NEW n \in T
        PROVE  n + 1 \in T
    <3> HIDE DEF Good
    <3> QED
      BY <1>2, <1>4
  <2>3. T = Nat
    <3> HIDE DEF T
    <3> QED
      BY <2>1, <2>2, SetInduction
  <2> HIDE DEF Good
  <2> QED
    BY <1>2, <2>3
<1> DEFINE r == RemoveIDs(src, drop)
<1>6. r \in Seq(S) /\ r = kept[Len(src)]
  BY <1>1, <1>2
<1>7. Leaves(r, Len(src), src, drop)
  <2> HIDE DEF r
  <2> QED
    BY <1>5, <1>6
<1>8. DOMAIN r = 1 .. Len(r) /\ DOMAIN src = 1 .. Len(src)
  <2> HIDE DEF r
  <2> QED
    BY <1>6
<1>9. IdsIn(r) = IdsIn(src) \ IdsIn(drop)
  <2>1. IdsIn(r) = {r[i] : i \in 1 .. Len(r)} /\ IdsIn(src) = {src[i] : i \in 1 .. Len(src)}
    BY <1>8 DEF IdsIn
  <2> HIDE DEF r
  <2> QED
    <3>1. \A x \in IdsIn(r) : x \in IdsIn(src) /\ x \notin IdsIn(drop)
      BY <1>7, <2>1 DEF Leaves
    <3>2. \A x \in IdsIn(src) : x \notin IdsIn(drop) => x \in IdsIn(r)
      BY <1>7, <2>1 DEF Leaves
    <3> QED
      BY <3>1, <3>2
<1>10. InOrder(r, src)
  <2> HIDE DEF r
  <2> QED
    BY <1>7 DEF Leaves, InOrder
<1> QED
  BY <1>6, <1>9, <1>10

-----------------------------------------------------------------------------
(* FlattenSeq: nothing but the ids of the sequences, all of them.          *)

Joins(flat, seqs) ==
    /\ FlattenSeq(seqs) = flat[Len(seqs)]
    /\ flat[1] = seqs[1]
    /\ \A i \in 2 .. Len(seqs) : flat[i] = flat[i - 1] \o seqs[i]

\* FlattenSeq joins one sequence after the other.
LEMMA FlattenSeqUnfolds ==
    ASSUME NEW S, NEW seqs \in Seq(Seq(S)), Len(seqs) > 0
    PROVE  \E flat \in [1 .. Len(seqs) -> Seq(S)] : Joins(flat, seqs)
<1> DEFINE n == Len(seqs) - 1
           step == [p \in Seq(S) \X Nat |->
                      IF p[2] + 1 \in 1 .. Len(seqs) THEN p[1] \o seqs[p[2] + 1] ELSE p[1]]
           IsFlat(g) == g = [i \in 1 .. Len(seqs) |->
                               IF i = 1 THEN seqs[i] ELSE g[i - 1] \o seqs[i]]
<1>1. /\ step \in [Seq(S) \X Nat -> Seq(S)]
      /\ seqs[1] \in Seq(S) /\ Len(seqs) \in Nat /\ n \in Nat
  OBVIOUS
<1>2. PICK f \in [0 .. n -> Seq(S)] :
        f[0] = seqs[1] /\ \A i \in 1 .. n : f[i] = step[<<f[i - 1], i>>]
  <2> DEFINE D == Seq(S)
             base == seqs[1]
  <2>1. base \in D /\ step \in [D \X Nat -> D] /\ n \in Nat
    BY <1>1
  <2> HIDE DEF step, D, base, n
  <2>2. \E f \in [0 .. n -> D] : Iterates(f, base, step, n)
    BY <2>1, Iterate, Zenon
  <2> QED
    BY <2>2 DEF D, base, Iterates
<1>3. ASSUME NEW i \in 1 .. n
      PROVE  f[i] = f[i - 1] \o seqs[i + 1]
  <2>1. f[i - 1] \in Seq(S)
    <3>1. i - 1 \in 0 .. n
      BY <1>1
    <3> QED
      BY <1>2, <3>1
  <2>2. f[i] = step[<<f[i - 1], i>>]
    <3> HIDE DEF step
    <3> QED
      BY <1>2
  <2>3. i + 1 \in 1 .. Len(seqs) /\ i \in Nat
    BY <1>1
  <2>4. step[<<f[i - 1], i>>] = f[i - 1] \o seqs[i + 1]
    BY <2>1, <2>3
  <2> QED
    BY <2>2, <2>4
<1> DEFINE h == [i \in 1 .. Len(seqs) |-> f[i - 1]]
<1>4. h \in [1 .. Len(seqs) -> Seq(S)]
  <2>1. \A i \in 1 .. Len(seqs) : i - 1 \in 0 .. n
    BY <1>1
  <2> QED
    BY <1>2, <2>1
<1>5. h[1] = seqs[1]
  BY <1>1, <1>2
<1>6. ASSUME NEW i \in 2 .. Len(seqs)
      PROVE  h[i] = h[i - 1] \o seqs[i]
  <2>1. /\ i - 1 \in 1 .. n /\ (i - 1) + 1 = i
        /\ h[i] = f[i - 1] /\ h[i - 1] = f[(i - 1) - 1]
    BY <1>1
  <2> HIDE DEF h
  <2> QED
    BY <1>3, <2>1
<1>7. IsFlat(h)
  <2>1. \A i \in 1 .. Len(seqs) : h[i] = IF i = 1 THEN seqs[i] ELSE h[i - 1] \o seqs[i]
    <3> TAKE i \in 1 .. Len(seqs)
    <3>1. i = 1 \/ i \in 2 .. Len(seqs)
      BY <1>1
    <3> HIDE DEF h
    <3> QED
      BY <1>5, <1>6, <3>1
  <2> HIDE DEF h
  <2> QED
    BY <1>4, <2>1
<1> HIDE DEF h
<1> DEFINE flat == CHOOSE g : IsFlat(g)
<1>8. IsFlat(flat)
  <2> HIDE DEF IsFlat
  <2> QED
    BY <1>7
<1>9. FlattenSeq(seqs) = flat[Len(seqs)]
  BY DEF FlattenSeq
<1>10. flat = h
  <2> HIDE DEF flat
  <2> DEFINE T == {i \in Nat : i \in 1 .. Len(seqs) => flat[i] = h[i]}
  <2>1. 0 \in T
    OBVIOUS
  <2>2. ASSUME NEW i \in T
        PROVE  i + 1 \in T
    <3> SUFFICES ASSUME i + 1 \in 1 .. Len(seqs)
                 PROVE  flat[i + 1] = h[i + 1]
      OBVIOUS
    <3>1. CASE i = 0
      BY <1>5, <1>8, <3>1
    <3>2. CASE i # 0
      <4>1. /\ i + 1 \in 2 .. Len(seqs) /\ i + 1 # 1 /\ (i + 1) - 1 = i
            /\ flat[i] = h[i]
        BY <1>1, <3>2
      <4>2. flat[i + 1] = flat[i] \o seqs[i + 1]
        BY <1>8, <4>1
      <4> QED
        BY <1>6, <4>1, <4>2
    <3> QED
      BY <3>1, <3>2
  <2>3. T = Nat
    <3>1. T \in SUBSET Nat
      OBVIOUS
    <3> HIDE DEF T
    <3> QED
      BY <2>1, <2>2, <3>1, SetInduction
  <2>4. ASSUME NEW i \in 1 .. Len(seqs)
        PROVE  flat[i] = h[i]
    <3>1. i \in T
      <4>1. i \in Nat
        OBVIOUS
      <4> HIDE DEF T
      <4> QED
        BY <2>3, <4>1
    <3> HIDE DEF IsFlat
    <3> QED
      BY <3>1
  <2>5. flat = [i \in 1 .. Len(seqs) |-> flat[i]]
    BY <1>8
  <2>6. h = [i \in 1 .. Len(seqs) |-> h[i]]
    BY <1>4
  <2> HIDE DEF IsFlat, T
  <2> QED
    BY <2>4, <2>5, <2>6
<1> HIDE DEF flat
<1> QED
  BY <1>4, <1>5, <1>6, <1>9, <1>10 DEF Joins

\* FlattenSeq yields the ids of all its sequences and no other.
LEMMA FlattenSeqResult ==
    ASSUME NEW S, NEW seqs \in Seq(Seq(S))
    PROVE  /\ FlattenSeq(seqs) \in Seq(S)
           /\ IdsIn(FlattenSeq(seqs)) = UNION {IdsIn(seqs[i]) : i \in 1 .. Len(seqs)}
<1>1. CASE Len(seqs) = 0
  <2>1. FlattenSeq(seqs) = seqs /\ seqs = <<>>
    BY <1>1 DEF FlattenSeq
  <2> QED
    BY <1>1, <2>1 DEF IdsIn
<1>2. CASE Len(seqs) # 0
  <2>1. Len(seqs) \in Nat /\ Len(seqs) > 0
    BY <1>2
  <2>2. PICK flat \in [1 .. Len(seqs) -> Seq(S)] : Joins(flat, seqs)
    BY <2>1, FlattenSeqUnfolds, Zenon
  <2> DEFINE T == {n \in Nat : n \in 1 .. Len(seqs) =>
                     IdsIn(flat[n]) = UNION {IdsIn(seqs[i]) : i \in 1 .. n}}
  <2>3. 0 \in T
    OBVIOUS
  <2>4. ASSUME NEW n \in T
        PROVE  n + 1 \in T
    <3> SUFFICES ASSUME n + 1 \in 1 .. Len(seqs)
                 PROVE  IdsIn(flat[n + 1]) = UNION {IdsIn(seqs[i]) : i \in 1 .. n + 1}
      OBVIOUS
    <3>1. CASE n = 0
      <4>1. 1 .. n + 1 = {1}
        BY <3>1
      <4> QED
        BY <2>2, <3>1, <4>1 DEF Joins
    <3>2. CASE n # 0
      <4>1. n \in 1 .. Len(seqs) /\ n + 1 \in 2 .. Len(seqs) /\ (n + 1) - 1 = n
        BY <2>1, <3>2
      <4>2. flat[n + 1] = flat[n] \o seqs[n + 1]
        BY <2>2, <4>1 DEF Joins
      <4>3. flat[n] \in Seq(S) /\ seqs[n + 1] \in Seq(S)
        BY <4>1
      <4>4. IdsIn(flat[n + 1]) = IdsIn(flat[n]) \cup IdsIn(seqs[n + 1])
        BY <4>2, <4>3, IdsInConcat
      <4>5. 1 .. n + 1 = (1 .. n) \cup {n + 1}
        OBVIOUS
      <4> QED
        BY <4>1, <4>4, <4>5
    <3> QED
      BY <3>1, <3>2
  <2>5. T = Nat
    <3>1. T \in SUBSET Nat
      OBVIOUS
    <3> HIDE DEF T
    <3> QED
      BY <2>3, <2>4, <3>1, SetInduction
  <2>6. Len(seqs) \in 1 .. Len(seqs)
    BY <2>1
  <2> QED
    BY <2>1, <2>2, <2>5, <2>6 DEF Joins
<1> QED
  BY <1>1, <1>2

-----------------------------------------------------------------------------
(* Sizes and targets are naturals. *)

\* The size of a level is a number.
LEMMA LevelSizeNat ==
    ASSUME NEW S, NEW level \in Seq(S), NEW sizes \in [S -> Nat]
    PROVE  LevelSize(level, sizes) \in Nat
<1> DEFINE step == [p \in Nat \X Nat |->
                      IF p[2] \in 1 .. Len(level) THEN p[1] + sizes[level[p[2]]] ELSE p[1]]
           IsSum(g) == g = [i \in 0 .. Len(level) |->
                              IF i = 0 THEN 0 ELSE g[i - 1] + sizes[level[i]]]
<1>1. step \in [Nat \X Nat -> Nat] /\ Len(level) \in Nat
  OBVIOUS
<1>2. PICK f \in [0 .. Len(level) -> Nat] : Iterates(f, 0, step, Len(level))
  <2> HIDE DEF step
  <2> QED
    BY <1>1, Iterate, Zenon
<1>3. ASSUME NEW i \in 1 .. Len(level)
      PROVE  f[i] = f[i - 1] + sizes[level[i]]
  <2>1. i - 1 \in 0 .. Len(level)
    BY <1>1
  <2>2. f[i] = step[<<f[i - 1], i>>]
    <3> HIDE DEF step
    <3> QED
      BY <1>2 DEF Iterates
  <2> QED
    BY <2>1, <2>2, SMTT(30)
<1>4. IsSum(f)
  <2>1. \A i \in 0 .. Len(level) : f[i] = IF i = 0 THEN 0 ELSE f[i - 1] + sizes[level[i]]
    <3> TAKE i \in 0 .. Len(level)
    <3>1. i = 0 \/ i \in 1 .. Len(level)
      BY <1>1
    <3> QED
      BY <1>2, <1>3, <3>1 DEF Iterates
  <2> QED
    BY <2>1
<1> DEFINE sum == CHOOSE g : IsSum(g)
<1>5. IsSum(sum)
  <2> HIDE DEF IsSum
  <2> QED
    BY <1>4
<1>6. LevelSize(level, sizes) = sum[Len(level)]
  BY DEF LevelSize
<1> HIDE DEF sum
<1> DEFINE T == {i \in Nat : i <= Len(level) => sum[i] \in Nat}
<1>7. 0 \in T
  BY <1>1, <1>5
<1>8. ASSUME NEW i \in T
      PROVE  i + 1 \in T
  <2> SUFFICES ASSUME i + 1 <= Len(level)
               PROVE  sum[i + 1] \in Nat
    OBVIOUS
  <2>1. i + 1 \in 1 .. Len(level) /\ i + 1 # 0 /\ (i + 1) - 1 = i /\ sum[i] \in Nat
    BY <1>1
  <2>2. sum[i + 1] = sum[i] + sizes[level[i + 1]]
    BY <1>5, <2>1
  <2> QED
    BY <2>1, <2>2
<1>9. T = Nat
  <2>1. T \in SUBSET Nat
    OBVIOUS
  <2> HIDE DEF T
  <2> QED
    BY <1>7, <1>8, <2>1, SetInduction
<1> QED
  BY <1>1, <1>6, <1>9

\* Integer division stays among the naturals.
LEMMA DivNat ==
    ASSUME NEW x \in Nat, NEW m \in Nat \ {0}
    PROVE  x \div m \in Nat
  OBVIOUS

\* Every level has a target size (leveled.go:37-44).
LEMMA TargetSizesNat ==
    ASSUME NEW S, NEW levels \in [1 .. MaxLevels -> Seq(S)], NEW sizes \in [S -> Nat]
    PROVE  \A i \in 1 .. MaxLevels : TargetSizes(levels, sizes)[i] \in Nat
<1> DEFINE bottom == LevelSize(levels[MaxLevels], sizes)
           goal   == IF bottom < BaseSize THEN BaseSize ELSE bottom
           step   == [p \in Nat \X Nat |-> p[1] \div Multiplier]
           n      == MaxLevels - 1
           IsTarget(g) == g = [i \in 1 .. MaxLevels |->
                                 IF i = MaxLevels THEN goal ELSE g[i + 1] \div Multiplier]
<1> USE ControllerAssumption
<1>1. goal \in Nat /\ step \in [Nat \X Nat -> Nat] /\ n \in Nat
  <2>1. bottom \in Nat
    BY LevelSizeNat
  <2> HIDE DEF bottom
  <2>2. goal \in Nat /\ n \in Nat
    BY <2>1
  <2>3. \A p \in Nat \X Nat : p[1] \div Multiplier \in Nat
    BY DivNat
  <2> QED
    BY <2>2, <2>3
<1> HIDE DEF goal
<1>2. PICK f \in [0 .. n -> Nat] : Iterates(f, goal, step, n)
  <2> HIDE DEF step, n
  <2> QED
    BY <1>1, Iterate, Zenon
<1> DEFINE h == [i \in 1 .. MaxLevels |-> f[MaxLevels - i]]
<1>3. IsTarget(h)
  <2>1. \A i \in 1 .. MaxLevels :
          h[i] = IF i = MaxLevels THEN goal ELSE h[i + 1] \div Multiplier
    <3> TAKE i \in 1 .. MaxLevels
    <3>1. CASE i = MaxLevels
      BY <1>2, <3>1 DEF Iterates
    <3>2. CASE i # MaxLevels
      <4> DEFINE j == MaxLevels - i
      <4>1. /\ i + 1 \in 1 .. MaxLevels /\ j \in 1 .. n /\ j - 1 \in 0 .. n
            /\ MaxLevels - (i + 1) = j - 1
        BY <3>2
      <4>2. f[j] = step[<<f[j - 1], j>>]
        <5> HIDE DEF step, j
        <5> QED
          BY <1>2, <4>1 DEF Iterates
      <4>3. f[j] = f[j - 1] \div Multiplier
        BY <1>2, <4>1, <4>2, SMTT(30)
      <4>4. h[i] = f[j] /\ h[i + 1] = f[j - 1]
        BY <4>1
      <4> QED
        BY <3>2, <4>3, <4>4
    <3> QED
      BY <3>1, <3>2
  <2> QED
    BY <2>1
<1> HIDE DEF h
<1> DEFINE target == CHOOSE g : IsTarget(g)
<1>4. IsTarget(target)
  <2> HIDE DEF IsTarget
  <2> QED
    BY <1>3
<1>5. TargetSizes(levels, sizes) = target
  BY DEF TargetSizes, goal
<1> HIDE DEF target
<1> DEFINE T == {i \in Nat : i <= n => target[MaxLevels - i] \in Nat}
<1>6. 0 \in T
  BY <1>1, <1>4
<1>7. ASSUME NEW i \in T
      PROVE  i + 1 \in T
  <2> SUFFICES ASSUME i + 1 <= n
               PROVE  target[MaxLevels - (i + 1)] \in Nat
    OBVIOUS
  <2> DEFINE j == MaxLevels - (i + 1)
  <2>1. /\ j \in 1 .. MaxLevels /\ j # MaxLevels /\ j + 1 = MaxLevels - i
        /\ target[j + 1] \in Nat
    OBVIOUS
  <2>2. target[j] = target[j + 1] \div Multiplier
    <3> HIDE DEF j
    <3> QED
      BY <1>4, <2>1
  <2> HIDE DEF j
  <2>3. target[j] \in Nat
    BY <2>1, <2>2, DivNat
  <2> QED
    BY <2>3 DEF j
<1>8. T = Nat
  <2>1. T \in SUBSET Nat
    OBVIOUS
  <2> HIDE DEF T
  <2> QED
    BY <1>6, <1>7, <2>1, SetInduction
<1>9. ASSUME NEW i \in 1 .. MaxLevels
      PROVE  target[i] \in Nat
  <2>1. MaxLevels - i \in T
    <3>1. MaxLevels - i \in Nat
      OBVIOUS
    <3> HIDE DEF T
    <3> QED
      BY <1>8, <3>1
  <2>2. MaxLevels - i <= n /\ MaxLevels - (MaxLevels - i) = i
    OBVIOUS
  <2> QED
    BY <2>1, <2>2
<1> QED
  BY <1>5, <1>9

-----------------------------------------------------------------------------
(* Tasks. *)

(***************************************************************************)
(* Of finitely many levels above their target one is furthest above it.    *)
(***************************************************************************)
FurthestOf(i, over, cur, target) ==
    /\ i \in over
    /\ \A j \in over : \/ cur[i] * target[j] > cur[j] * target[i]
                       \/ cur[i] * target[j] = cur[j] * target[i] /\ i <= j

\* Comparing ratios by cross multiplication is transitive.
LEMMA RatioTransitive ==
    ASSUME NEW a \in Nat, NEW x \in Nat, NEW b \in Nat, NEW y \in Nat,
           NEW c \in Nat, NEW z \in Nat, x > 0, y > 0, z > 0,
           a * y > b * x, b * z >= c * y
    PROVE  a * z > c * x
  BY SMTT(60)

\* Among the levels above their target one is furthest above it: the CHOOSE of
\* LeveledTask has something to choose.
LEMMA FurthestExists ==
    ASSUME NEW n \in Nat, NEW over \in SUBSET (1 .. n), over # {},
           NEW cur, NEW target,
           \A i \in over : cur[i] \in Nat /\ target[i] \in Nat /\ target[i] > 0
    PROVE  \E i \in over : FurthestOf(i, over, cur, target)
<1> DEFINE First(m) == over \cap (1 .. m)
           T == {m \in Nat : First(m) # {} =>
                   \E i \in First(m) : FurthestOf(i, First(m), cur, target)}
<1>1. 0 \in T
  OBVIOUS
<1>2. ASSUME NEW m \in T
      PROVE  m + 1 \in T
  <2>1. 1 .. m + 1 = (1 .. m) \cup {m + 1}
    OBVIOUS
  <2>2. CASE m + 1 \notin over
    <3>1. First(m + 1) = First(m)
      BY <2>1, <2>2
    <3> QED
      BY <3>1
  <2>3. CASE m + 1 \in over
    <3>1. First(m + 1) = First(m) \cup {m + 1}
      BY <2>1, <2>3
    <3>2. CASE First(m) = {}
      BY <2>3, <3>1, <3>2 DEF FurthestOf
    <3>3. CASE First(m) # {}
      <4>1. PICK i \in First(m) : FurthestOf(i, First(m), cur, target)
        BY <3>3
      <4>2. i \in over /\ i \in Nat /\ i <= m
        OBVIOUS
      <4> HIDE DEF First
      <4>3. CASE cur[i] * target[m + 1] >= cur[m + 1] * target[i]
        <5>1. \/ cur[i] * target[m + 1] > cur[m + 1] * target[i]
              \/ cur[i] * target[m + 1] = cur[m + 1] * target[i] /\ i <= m + 1
          BY <2>3, <4>2, <4>3
        <5>2. FurthestOf(i, First(m + 1), cur, target)
          BY <3>1, <4>1, <5>1 DEF FurthestOf
        <5> QED
          BY <5>2 DEF FurthestOf
      <4>4. CASE cur[m + 1] * target[i] > cur[i] * target[m + 1]
        <5>1. ASSUME NEW j \in First(m)
              PROVE  cur[m + 1] * target[j] > cur[j] * target[m + 1]
          <6>1. /\ cur[j] \in Nat /\ target[j] \in Nat /\ target[j] > 0
                /\ cur[i] \in Nat /\ target[i] \in Nat /\ target[i] > 0
                /\ cur[m + 1] \in Nat /\ target[m + 1] \in Nat /\ target[m + 1] > 0
            BY <2>3, <4>2 DEF First
          <6>2. cur[i] * target[j] >= cur[j] * target[i]
            BY <4>1, <6>1 DEF FurthestOf
          <6> QED
            BY <4>4, <6>1, <6>2, RatioTransitive
        <5>2. cur[m + 1] * target[m + 1] = cur[m + 1] * target[m + 1] /\ m + 1 <= m + 1
          OBVIOUS
        <5>3. FurthestOf(m + 1, First(m + 1), cur, target)
          BY <3>1, <5>1, <5>2 DEF FurthestOf
        <5> QED
          BY <5>3 DEF FurthestOf
      <4>5. /\ cur[i] * target[m + 1] \in Nat
            /\ cur[m + 1] * target[i] \in Nat
        BY <2>3, <4>2
      <4> QED
        BY <4>3, <4>4, <4>5
    <3> QED
      BY <3>2, <3>3
  <2> QED
    BY <2>2, <2>3
<1>3. T = Nat
  <2>1. T \in SUBSET Nat
    OBVIOUS
  <2> HIDE DEF T
  <2> QED
    BY <1>1, <1>2, <2>1, SetInduction
<1>4. First(n) = over
  OBVIOUS
<1>5. n \in T
  BY <1>3
<1> QED
  BY <1>4, <1>5

(***************************************************************************)
(* A task takes a whole tier, L0 or a level, and merges it down: with the  *)
(* next level under the leveled strategy, with all levels into the last    *)
(* under the full one.                                                     *)
(***************************************************************************)
WholeTier(task, l0, levels) ==
    /\ task.upperLevel \in 0 .. MaxLevels - 1
    /\ task.upperIDs = IF task.upperLevel = 0 THEN l0 ELSE levels[task.upperLevel]
    /\ task.lowerLevel \in 1 .. MaxLevels /\ task.upperLevel < task.lowerLevel
    /\ task.toBottom <=> task.lowerLevel = MaxLevels

Task(S) == [upperLevel : 0 .. MaxLevels, upperIDs : Seq(S), lowerLevel : 0 .. MaxLevels,
            lowerIDs : Seq(S), toBottom : BOOLEAN]

FullShape(task, l0, levels) ==
    /\ WholeTier(task, l0, levels)
    /\ task.upperLevel = 0 /\ task.lowerLevel = MaxLevels
    /\ task.lowerIDs = FlattenSeq(levels)

LeveledShape(task, l0, levels) ==
    /\ WholeTier(task, l0, levels)
    /\ task.lowerLevel = task.upperLevel + 1
    /\ task.lowerIDs = levels[task.lowerLevel]

\* A task of whole tiers has an input unless both of its tiers are empty.
LEMMA InputsNotEmpty ==
    ASSUME NEW S, NEW task \in Task(S),
           task.upperIDs # <<>> \/ IdsIn(task.lowerIDs) # {}
    PROVE  InputIDs(task) # <<>>
<1>1. task.upperIDs \in Seq(S) /\ task.lowerIDs \in Seq(S)
  BY DEF Task
<1>2. CASE task.upperIDs # <<>>
  BY <1>1, <1>2 DEF InputIDs
<1>3. CASE IdsIn(task.lowerIDs) # {}
  <2>1. task.lowerIDs # <<>>
    BY <1>1, <1>3 DEF IdsIn
  <2> QED
    BY <1>1, <2>1 DEF InputIDs
<1> QED
  BY <1>2, <1>3

\* A full compaction takes all of L0 and of every level, and never nothing
\* (full.go:12-33).
LEMMA FullTaskShape ==
    ASSUME NEW S, NEW l0 \in Seq(S), NEW levels \in [1 .. MaxLevels -> Seq(S)],
           FullTask(l0, levels) # NoTask
    PROVE  /\ FullTask(l0, levels) \in Task(S)
           /\ FullShape(FullTask(l0, levels), l0, levels)
           /\ InputIDs(FullTask(l0, levels)) # <<>>
           /\ IdsIn(FlattenSeq(levels)) = UNION {IdsIn(levels[i]) : i \in 1 .. MaxLevels}
<1> DEFINE lower == FlattenSeq(levels)
           r == [upperLevel |-> 0, upperIDs |-> l0,
                 lowerLevel |-> MaxLevels, lowerIDs |-> lower, toBottom |-> TRUE]
<1>1. FullTask(l0, levels) = r
  BY Zenon DEF FullTask
<1>2. lower \in Seq(S) /\ IdsIn(lower) = UNION {IdsIn(levels[i]) : i \in 1 .. MaxLevels}
  <2>1. levels \in Seq(Seq(S)) /\ Len(levels) = MaxLevels
    BY ControllerAssumption
  <2> QED
    BY <2>1, FlattenSeqResult
<1>3. r \in Task(S) /\ FullShape(r, l0, levels)
  <2> HIDE DEF lower
  <2>1. r \in Task(S)
    BY <1>2, ControllerAssumption DEF Task
  <2>2. /\ r.upperLevel = 0 /\ r.upperIDs = l0 /\ r.lowerLevel = MaxLevels
        /\ r.lowerIDs = lower /\ r.toBottom
    OBVIOUS
  <2> HIDE DEF r
  <2> QED
    BY <2>1, <2>2, ControllerAssumption DEF FullShape, WholeTier, lower
<1>4. l0 # <<>> \/ IdsIn(lower) # {}
  <2> SUFFICES ASSUME l0 = <<>>
               PROVE  IdsIn(lower) # {}
    OBVIOUS
  <2>1. PICK i \in 1 .. MaxLevels - 1 : levels[i] # <<>>
    BY Zenon DEF FullTask
  <2>2. i \in 1 .. MaxLevels
    BY ControllerAssumption
  <2>3. levels[i] \in Seq(S) /\ Len(levels[i]) > 0
    BY <2>1, <2>2
  <2>4. levels[i][1] \in IdsIn(levels[i])
    BY <2>3 DEF IdsIn
  <2> HIDE DEF lower
  <2> QED
    BY <1>2, <2>2, <2>4
<1>5. InputIDs(r) # <<>>
  <2>1. r.upperIDs = l0 /\ r.lowerIDs = lower
    OBVIOUS
  <2> HIDE DEF r, lower
  <2> QED
    BY <1>3, <1>4, <2>1, InputsNotEmpty
<1> QED
  BY <1>1, <1>2, <1>3, <1>5, Zenon

\* A leveled merge takes one tier and the level below it, both whole.
LEMMA LeveledMergeShape ==
    ASSUME NEW S, NEW l0 \in Seq(S), NEW levels \in [1 .. MaxLevels -> Seq(S)],
           NEW u \in 0 .. MaxLevels - 1, NEW upper,
           upper = IF u = 0 THEN l0 ELSE levels[u]
    PROVE  /\ LeveledMerge(upper, levels, u) \in Task(S)
           /\ LeveledShape(LeveledMerge(upper, levels, u), l0, levels)
<1> DEFINE r == LeveledMerge(upper, levels, u)
<1>1. /\ u + 1 \in 1 .. MaxLevels /\ u \in 0 .. MaxLevels /\ u + 1 \in 0 .. MaxLevels
      /\ u < u + 1
  BY ControllerAssumption
<1>2. upper \in Seq(S) /\ levels[u + 1] \in Seq(S)
  <2>1. u # 0 => u \in 1 .. MaxLevels
    BY ControllerAssumption
  <2> QED
    BY <1>1, <2>1
<1>3. r \in Task(S)
  BY <1>1, <1>2 DEF LeveledMerge, Task
<1>4. /\ r.upperLevel = u /\ r.upperIDs = upper /\ r.lowerLevel = u + 1
      /\ r.lowerIDs = levels[u + 1] /\ (r.toBottom <=> u + 1 = MaxLevels)
  BY DEF LeveledMerge
<1> HIDE DEF r
<1>5. LeveledShape(r, l0, levels)
  BY <1>1, <1>4 DEF LeveledShape, WholeTier
<1> QED
  BY <1>3, <1>5 DEF r

\* An empty level has size 0.
LEMMA LevelSizeEmpty ==
    ASSUME NEW sizes
    PROVE  LevelSize(<<>>, sizes) = 0
<1> DEFINE IsSum(g) == g = [i \in 0 .. Len(<<>>) |->
                              IF i = 0 THEN 0 ELSE g[i - 1] + sizes[<<>>[i]]]
           f == [i \in 0 .. Len(<<>>) |-> 0]
           sum == CHOOSE g : IsSum(g)
<1>1. IsSum(f)
  OBVIOUS
<1>2. LevelSize(<<>>, sizes) = sum[Len(<<>>)]
  BY DEF LevelSize
<1>3. IsSum(sum)
  <2> HIDE DEF IsSum, f
  <2> QED
    BY <1>1
<1> HIDE DEF sum
<1> QED
  BY <1>2, <1>3

\* A leveled task takes a tier that has tables and the level below it
\* (leveled.go:46-70).
LEMMA LeveledTaskShape ==
    ASSUME NEW S, NEW l0 \in Seq(S), NEW levels \in [1 .. MaxLevels -> Seq(S)],
           NEW sizes \in [S -> Nat], LeveledTask(l0, levels, sizes) # NoTask
    PROVE  /\ LeveledTask(l0, levels, sizes) \in Task(S)
           /\ LeveledShape(LeveledTask(l0, levels, sizes), l0, levels)
           /\ InputIDs(LeveledTask(l0, levels, sizes)) # <<>>
<1> DEFINE target == TargetSizes(levels, sizes)
           cur    == [i \in 1 .. MaxLevels |-> LevelSize(levels[i], sizes)]
           over   == {i \in 1 .. MaxLevels - 1 : target[i] > 0 /\ cur[i] > target[i]}
           best(i) == \A j \in over : \/ cur[i] * target[j] > cur[j] * target[i]
                                      \/ cur[i] * target[j] = cur[j] * target[i] /\ i <= j
           pick   == CHOOSE i \in over : best(i)
           task   == LeveledTask(l0, levels, sizes)
<1>1. task = IF L0Trigger > 0 /\ Len(l0) >= L0Trigger THEN LeveledMerge(l0, levels, 0)
             ELSE IF over = {} THEN NoTask ELSE LeveledMerge(levels[pick], levels, pick)
  BY Zenon DEF LeveledTask
<1>2. CASE L0Trigger > 0 /\ Len(l0) >= L0Trigger /\ task = LeveledMerge(l0, levels, 0)
  <2>1. 0 \in 0 .. MaxLevels - 1
    BY ControllerAssumption
  <2> HIDE DEF task
  <2>2. task \in Task(S) /\ LeveledShape(task, l0, levels)
    BY <1>2, <2>1, LeveledMergeShape
  <2>3. task.upperIDs = l0 /\ l0 # <<>>
    BY <1>2, ControllerAssumption DEF LeveledMerge
  <2>4. InputIDs(task) # <<>>
    BY <2>2, <2>3, InputsNotEmpty
  <2> QED
    BY <2>2, <2>4 DEF task
<1>3. CASE over # {} /\ task = LeveledMerge(levels[pick], levels, pick)
  <2>1. \A i \in 1 .. MaxLevels : target[i] \in Nat /\ cur[i] \in Nat
    <3>1. \A i \in 1 .. MaxLevels : cur[i] \in Nat
      BY LevelSizeNat
    <3> QED
      BY <3>1, TargetSizesNat
  <2>2. over \in SUBSET (1 .. MaxLevels - 1)
    OBVIOUS
  <2>3. \A i \in over : cur[i] \in Nat /\ target[i] \in Nat /\ target[i] > 0
    <3> HIDE DEF cur, target
    <3> QED
      BY <2>1, ControllerAssumption
  <2>4. \E i \in over : best(i)
    <3>1. MaxLevels - 1 \in Nat
      BY ControllerAssumption
    <3>2. over # {}
      BY <1>3
    <3> HIDE DEF over, cur, target
    <3>3. \E i \in over : FurthestOf(i, over, cur, target)
      BY <2>2, <2>3, <3>1, <3>2, FurthestExists, Zenon
    <3> QED
      BY <3>3 DEF FurthestOf
  <2>5. pick \in over
    <3> HIDE DEF best, over
    <3> QED
      BY <2>4
  <2>6. pick \in 0 .. MaxLevels - 1 /\ pick # 0
    <3>1. pick \in 1 .. MaxLevels - 1
      BY <2>2, <2>5, Zenon
    <3> HIDE DEF pick
    <3> QED
      BY <3>1
  <2> HIDE DEF task, pick
  <2>7. levels[pick] = IF pick = 0 THEN l0 ELSE levels[pick]
    BY <2>6
  <2>8. /\ LeveledMerge(levels[pick], levels, pick) \in Task(S)
        /\ LeveledShape(LeveledMerge(levels[pick], levels, pick), l0, levels)
    BY <2>6, <2>7, LeveledMergeShape, Zenon
  <2>9. levels[pick] # <<>>
    <3>1. LevelSize(levels[pick], sizes) # 0
      <4>1. /\ target[pick] > 0 /\ cur[pick] > target[pick] /\ target[pick] \in Nat
            /\ cur[pick] = LevelSize(levels[pick], sizes) /\ cur[pick] \in Nat
        <5> HIDE DEF target
        <5>1. pick \in 1 .. MaxLevels
          BY <2>5, ControllerAssumption
        <5>2. cur[pick] = LevelSize(levels[pick], sizes)
          BY <5>1
        <5>3. target[pick] > 0 /\ cur[pick] > target[pick]
          BY <2>5
        <5> QED
          BY <2>3, <2>5, <5>2, <5>3
      <4> HIDE DEF cur, target
      <4> QED
        BY <4>1
    <3> QED
      BY <3>1, LevelSizeEmpty
  <2>10. InputIDs(LeveledMerge(levels[pick], levels, pick)) # <<>>
    <3>1. LeveledMerge(levels[pick], levels, pick).upperIDs = levels[pick]
      BY DEF LeveledMerge
    <3> QED
      BY <2>8, <2>9, <3>1, InputsNotEmpty
  <2> QED
    BY <1>3, <2>8, <2>10, Zenon DEF task
<1>4. task # NoTask
  OBVIOUS
<1> HIDE DEF task, over, pick
<1>5. \/ L0Trigger > 0 /\ Len(l0) >= L0Trigger /\ task = LeveledMerge(l0, levels, 0)
      \/ over # {} /\ task = LeveledMerge(levels[pick], levels, pick)
  BY <1>1, <1>4
<1> QED
  BY <1>2, <1>3, <1>5 DEF task

(***************************************************************************)
(* Whatever the strategy, a task names whole tiers, has something to       *)
(* merge, and moves it down.                                               *)
(***************************************************************************)
PickShape(task, strategy, l0, levels) ==
    /\ InputIDs(task) # <<>>
    /\ WholeTier(task, l0, levels)
    /\ strategy = "full" =>
         /\ task.upperLevel = 0 /\ task.lowerLevel = MaxLevels
         /\ IdsIn(task.lowerIDs) = UNION {IdsIn(levels[i]) : i \in 1 .. MaxLevels}
    /\ strategy # "full" =>
         /\ task.lowerLevel = task.upperLevel + 1
         /\ task.lowerIDs = levels[task.lowerLevel]

\* Whatever the strategy, a task names whole tiers of the layout it was picked
\* from, and at least one table (storage.go:122-161).
LEMMA TaskShape ==
    ASSUME NEW S, NEW l0 \in Seq(S), NEW levels \in [1 .. MaxLevels -> Seq(S)],
           NEW sizes \in [S -> Nat], NEW strategy,
           GenerateTask(strategy, l0, levels, sizes) # NoTask
    PROVE  /\ GenerateTask(strategy, l0, levels, sizes) \in Task(S)
           /\ PickShape(GenerateTask(strategy, l0, levels, sizes), strategy, l0, levels)
<1> DEFINE task == GenerateTask(strategy, l0, levels, sizes)
<1>1. CASE strategy = "full"
  <2>1. task = FullTask(l0, levels)
    BY <1>1 DEF GenerateTask
  <2> HIDE DEF task
  <2>2. FullTask(l0, levels) # NoTask
    BY <2>1 DEF task
  <2>3. /\ FullTask(l0, levels) \in Task(S) /\ FullShape(FullTask(l0, levels), l0, levels)
        /\ InputIDs(FullTask(l0, levels)) # <<>>
        /\ IdsIn(FlattenSeq(levels)) = UNION {IdsIn(levels[i]) : i \in 1 .. MaxLevels}
    BY <2>2, FullTaskShape, Zenon
  <2> QED
    BY <1>1, <2>1, <2>3, Zenon DEF FullShape, task, PickShape
<1>2. CASE strategy # "full"
  <2>1. task = LeveledTask(l0, levels, sizes)
    BY <1>2 DEF GenerateTask
  <2> HIDE DEF task
  <2>2. task \in Task(S) /\ LeveledShape(task, l0, levels) /\ InputIDs(task) # <<>>
    BY <2>1, LeveledTaskShape DEF task
  <2> QED
    BY <1>2, <2>2, Zenon DEF LeveledShape, task, PickShape
<1> QED
  BY <1>1, <1>2

(***************************************************************************)
(* Applying a task gives a layout again.                                   *)
(***************************************************************************)
LEMMA ResultTypes ==
    ASSUME NEW S, NEW l0 \in Seq(S), NEW levels \in [1 .. MaxLevels -> Seq(S)],
           NEW task, NEW new \in Seq(S), NEW strategy
    PROVE  /\ ApplyResult(strategy, l0, levels, task, new).l0 \in Seq(S)
           /\ ApplyResult(strategy, l0, levels, task, new).levels
                \in [1 .. MaxLevels -> Seq(S)]
<1>1. /\ RemoveIDs(l0, task.upperIDs) \in Seq(S)
      /\ \A i \in 1 .. MaxLevels : RemoveIDs(levels[i], task.upperIDs) \in Seq(S)
  BY RemoveIDsResult
<1>2. CASE strategy = "full"
  BY <1>1, <1>2 DEF ApplyResult, FullResult
<1>3. CASE strategy # "full"
  BY <1>1, <1>3 DEF ApplyResult, LeveledResult
<1> QED
  BY <1>2, <1>3
=============================================================================
