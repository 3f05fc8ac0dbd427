---------------------------- MODULE LogFileProofs ----------------------------
(***************************************************************************)
(* Proofs about LogFile: whatever is cut where, the file parses to what    *)
(* was acknowledged and at most what a crash has left in doubt, and        *)
(* recovery does not refuse it.                                            *)
(***************************************************************************)
EXTENDS LogFileProps, Inductions, SequenceTheorems

-----------------------------------------------------------------------------
(* The inductive invariant.  rs is what the file parses to, and at[j] the  *)
(* cell its j-th record begins at.                                         *)

\* A record in a file, whole or not, keeps to its size.
Cells == {c \in [rec : Record, part : Nat \ {0}] : c.part <= c.rec.size}

LogTypes ==
    /\ kind \in Kinds /\ file \in Seq(Cells) /\ synced \in 0 .. Len(file)
    /\ state \in {"up", "down"} /\ pos \in 1 .. Len(file) + 1
    /\ \/ writing = Idle
       \/ /\ writing \in [rec : Record, done : Nat] /\ writing.done <= writing.rec.size
          /\ writing.rec.id = written /\ state = "up"
    /\ written \in 0 .. MaxRecords /\ tears \in 0 .. MaxTears[kind]
    /\ short \in BOOLEAN
    /\ acked \in Seq(Record) /\ safe \in 0 .. Len(acked) /\ doubt \in Seq(Record)
    /\ state = "up" => doubt = <<>>

\* Where the record that is being written begins, or the next one would.
StartPos == pos - writing.done

\* The record being written is nowhere else in the file.
Fresh ==
    \A p \in DOMAIN file :
      /\ file[p].rec.id <= written
      /\ writing # Idle /\ (p < StartPos \/ pos <= p) => file[p].rec # writing.rec

\* The records rs lie one behind the other from the first cell on.
Laid(f, rs, at) ==
    /\ at[1] = 1
    /\ \A j \in 1 .. Len(rs) :
         /\ at[j + 1] = at[j] + rs[j].size
         /\ at[j + 1] <= Len(f) + 1
         /\ \A i \in 1 .. rs[j].size : f[at[j] + i - 1] = Cell(rs[j], i)

EndOf(rs, at) == at[Len(rs) + 1]

Parsed(f, rs, at) == Laid(f, rs, at) /\ ~ Intact(f, EndOf(rs, at))

\* Behind cell e there is no first cell of a record.
NoFirstBehind(f, e) == \A p \in DOMAIN f : p > e => f[p].part > 1

\* Since a short write left the record at e without its end, what follows is lost.
Broken(e) ==
    /\ e \in DOMAIN file /\ e < StartPos /\ file[e].part = 1
    /\ \E q \in e + 1 .. e + file[e].rec.size - 1 :
         q = Len(file) + 1 \/ (q <= Len(file) /\ file[q].rec # file[e].rec)

\* While the process lives and no write was short.
Going(rs, at) ==
    LET e == EndOf(acked, at) IN
    /\ e = StartPos
    /\ \A i \in 1 .. writing.done : file[e + i - 1] = Cell(writing.rec, i)
    /\ rs = IF writing # Idle /\ writing.done = writing.rec.size
            THEN Append(acked, writing.rec) ELSE acked
    /\ kind = "manifest" => \A p \in DOMAIN file : pos <= p /\ e < p => file[p].part > 1
    /\ writing.done = 0 => ~ Corrupt(file, pos)
    /\ kind = "manifest" /\ tears = 0 => Len(file) = pos - 1

\* While the process is dead.
Dead(rs, at) ==
    LET e == EndOf(rs, at) IN
    /\ IsPrefix(acked, rs) /\ IsPrefix(rs, acked \o doubt)
    /\ kind = "manifest" => NoFirstBehind(file, e)
    /\ kind = "manifest" /\ tears = 0 => e = Len(file) + 1
    /\ ~ short /\ (kind = "manifest" => tears <= 1) => ~ Corrupt(file, e)

Accounts(rs, at) ==
    /\ Parsed(file, rs, at)
    /\ at[safe + 1] <= synced + 1
    /\ state = "up" /\ kind # "manifest" => Len(file) = pos - 1
    /\ state = "up" /\ ~ short => Going(rs, at)
    /\ state = "up" /\ short => rs = acked /\ Broken(EndOf(acked, at))
    /\ state = "down" => Dead(rs, at)

LogInv ==
    /\ LogTypes /\ Fresh /\ (kind = "manifest" => ~ short)
    /\ \E rs \in Seq(Record), at \in [Nat -> Nat] : Accounts(rs, at)

-----------------------------------------------------------------------------
(* What a file parses to. *)

Pos == Nat \ {0}

Follows(g, A, jump, op, base) ==
    \A p \in Pos : g[p] = IF p \in A THEN op[<<p, g[jump[p]]>>] ELSE base[p]

(***************************************************************************)
(* A function of the cells up to the L-th, which at each of the cells A    *)
(* looks at a later one, is well defined.                                  *)
(***************************************************************************)
LEMMA Downward ==
    ASSUME NEW L \in Nat, NEW A \in SUBSET (1 .. L), NEW jump \in [A -> Pos],
           \A p \in A : jump[p] > p, NEW D, NEW base \in [Pos -> D], NEW op \in [Pos \X D -> D]
    PROVE  \E g \in [Pos -> D] : Follows(g, A, jump, op, base)
<1> DEFINE At(g, p) == IF p \in A THEN op[<<p, g[jump[p]]>>] ELSE base[p]
           Upto(g, n) == \A p \in Pos : p > L - n => g[p] = At(g, p)
           T == {n \in 0 .. L : \E g \in [Pos -> D] : Upto(g, n)}
           U == T \cup {n \in Nat : n > L}
<1>1. 0 \in U
  <2>1. Upto(base, 0)
    BY DEF Pos
  <2> QED
    BY <2>1
<1>2. ASSUME NEW n \in U
      PROVE  n + 1 \in U
  <2>1. CASE n >= L
    BY <2>1
  <2>2. CASE n < L
    <3>1. PICK g \in [Pos -> D] : Upto(g, n)
      BY <2>2
    <3> DEFINE q == L - n
    <3>2. q \in Pos /\ n \in Nat
      BY <2>2 DEF Pos
    <3>3. At(g, q) \in D
      <4>1. CASE q \in A
        <5>1. jump[q] \in Pos
          BY <4>1
        <5>2. g[jump[q]] \in D
          BY <5>1
        <5>3. <<q, g[jump[q]]>> \in Pos \X D
          BY <3>2, <5>2
        <5> HIDE DEF q
        <5> QED
          BY <4>1, <5>3
      <4>2. CASE q \notin A
        BY <3>2, <4>2
      <4> QED
        BY <4>1, <4>2
    <3> DEFINE v == At(g, q)
               h == [g EXCEPT ![q] = v]
    <3>4. v \in D
      BY <3>3
    <3> HIDE DEF v
    <3>5. h \in [Pos -> D]
      BY <3>4
    <3>6. \A p \in Pos : p > q => h[p] = g[p] /\ At(h, p) = At(g, p)
      <4> SUFFICES ASSUME NEW p \in Pos, p > q
                   PROVE  h[p] = g[p] /\ At(h, p) = At(g, p)
        OBVIOUS
      <4>1. p # q
        BY <3>2 DEF Pos
      <4>2. h[p] = g[p]
        BY <4>1
      <4>3. p \in A => h[jump[p]] = g[jump[p]]
        <5> SUFFICES ASSUME p \in A
                     PROVE  h[jump[p]] = g[jump[p]]
          OBVIOUS
        <5>1. jump[p] \in Pos /\ jump[p] > p
          OBVIOUS
        <5>2. jump[p] # q
          BY <3>2, <5>1 DEF Pos
        <5> QED
          BY <5>1, <5>2
      <4> QED
        BY <4>2, <4>3
    <3>7. h[q] = At(h, q)
      <4>1. h[q] = v
        BY <3>2
      <4>2. q \in A => h[jump[q]] = g[jump[q]]
        <5> SUFFICES ASSUME q \in A
                     PROVE  h[jump[q]] = g[jump[q]]
          OBVIOUS
        <5>1. jump[q] \in Pos /\ jump[q] > q
          OBVIOUS
        <5>2. jump[q] # q
          BY <3>2, <5>1 DEF Pos
        <5> QED
          BY <5>1, <5>2
      <4> QED
        BY <4>1, <4>2 DEF v
    <3>8. Upto(h, n + 1)
      <4> SUFFICES ASSUME NEW p \in Pos, p > L - (n + 1)
                   PROVE  h[p] = At(h, p)
        OBVIOUS
      <4>1. p = q \/ p > q
        BY <3>2 DEF Pos
      <4>2. p > q => g[p] = At(g, p)
        BY <3>1
      <4> HIDE DEF h, q, At
      <4> QED
        BY <3>6, <3>7, <4>1, <4>2
    <3> HIDE DEF Upto, h, q
    <3> QED
      BY <2>2, <3>2, <3>5, <3>8
  <2>3. n \in Nat
    OBVIOUS
  <2> HIDE DEF T
  <2> QED
    BY <2>1, <2>2, <2>3
<1>3. U = Nat
  <2>1. U \in SUBSET Nat
    OBVIOUS
  <2> HIDE DEF U
  <2> QED
    BY <1>1, <1>2, <2>1, SetInduction
<1>4. L \in T
  <2>1. L \in U /\ ~ (L > L)
    BY <1>3
  <2> HIDE DEF T
  <2> QED
    BY <2>1
<1>5. PICK g \in [Pos -> D] : Upto(g, L)
  BY <1>4
<1> QED
  BY <1>5 DEF Pos, Follows

\* The sizes of the records are numbers, and so is every cell's.
LEMMA RecordSizes ==
    /\ \A r \in Record : r.size \in Pos /\ r.size \in Nat /\ r.size > 0 /\ r.size \in Sizes /\ r.id \in 1 .. MaxRecords /\ r # NoRecord
    /\ \A c \in Cells : c.rec \in Record /\ c.part \in 1 .. c.rec.size
<1>1. ASSUME NEW r \in Record
      PROVE  r.size \in Pos /\ r.size \in Nat /\ r.size > 0 /\ r.size \in Sizes /\ r.id \in 1 .. MaxRecords /\ r # NoRecord
  <2>1. r.size \in Sizes /\ r.id \in 1 .. MaxRecords /\ r \in [id : Nat, size : Sizes]
    BY LogFileAssumption DEF Record
  <2>2. \A s \in Sizes : s \in Nat \ {0} /\ s > 0
    BY LogFileAssumption
  <2> QED
    BY <2>1, <2>2, LogFileAssumption DEF Pos
<1>2. ASSUME NEW c \in Cells
      PROVE  c.rec \in Record /\ c.part \in 1 .. c.rec.size
  <2>1. c.rec \in Record /\ c.part \in Nat \ {0} /\ c.part <= c.rec.size
    BY DEF Cells
  <2>2. c.rec.size \in Nat
    BY <1>1, <2>1 DEF Pos
  <2> QED
    BY <2>1, <2>2
<1> QED
  BY <1>1, <1>2

File(f) == f \in Seq(Cells)

\* Records laid out begin one behind the other.
LEMMA LaidGrows ==
    ASSUME NEW f, File(f), NEW rs \in Seq(Record), NEW at \in [Nat -> Nat], Laid(f, rs, at)
    PROVE  /\ \A j \in 1 .. Len(rs) : at[j + 1] > at[j]
           /\ \A j \in 1 .. Len(rs) + 1 : at[j] \in Pos /\ at[j] <= Len(f) + 1
           /\ \A j \in 1 .. Len(rs) + 1 : \A i \in 1 .. j : at[i] <= at[j]
<1>0. Len(rs) \in Nat /\ Len(f) \in Nat
  <2>1. f \in Seq(Cells)
    BY DEF File
  <2> QED
    BY <2>1, LenProperties, Zenon
<1>1. \A j \in 1 .. Len(rs) : at[j + 1] > at[j]
  <2> SUFFICES ASSUME NEW j \in 1 .. Len(rs)
               PROVE  at[j + 1] > at[j]
    OBVIOUS
  <2>1. rs[j] \in Record
    OBVIOUS
  <2>2. rs[j].size \in Nat /\ rs[j].size > 0
    BY <2>1, RecordSizes
  <2>3. at[j] \in Nat
    OBVIOUS
  <2>4. at[j + 1] = at[j] + rs[j].size
    BY DEF Laid
  <2>5. \A a, s \in Nat : s > 0 => a + s > a
    OBVIOUS
  <2>6. at[j] + rs[j].size > at[j]
    BY <2>2, <2>3, <2>5
  <2> QED
    BY <2>4, <2>6
<1> DEFINE Good(k) == /\ at[k] \in Pos /\ at[k] <= Len(f) + 1
                      /\ \A i \in 1 .. k : at[i] <= at[k]
           T == {n \in Nat : n + 1 <= Len(rs) + 1 => Good(n + 1)}
<1>2. 0 \in T
  <2>1. at[1] = 1 /\ 1 .. 1 = {1}
    BY DEF Laid
  <2> QED
    BY <1>0, <2>1 DEF Pos
<1>3. ASSUME NEW n \in T
      PROVE  n + 1 \in T
  <2> SUFFICES ASSUME n + 2 <= Len(rs) + 1
               PROVE  Good(n + 2)
    <3>1. n \in Nat /\ n + 1 + 1 = n + 2
      OBVIOUS
    <3> HIDE DEF Good
    <3> QED
      BY <3>1
  <2>1. n + 1 \in 1 .. Len(rs) /\ n \in Nat
    BY <1>0
  <2>2. Good(n + 1)
    BY <1>0, <2>1
  <2>3. at[n + 1 + 1] > at[n + 1] /\ at[n + 1 + 1] <= Len(f) + 1
    BY <1>1, <2>1 DEF Laid
  <2>4. n + 1 + 1 = n + 2 /\ n + 1 \in Nat /\ n + 2 \in Nat
    BY <2>1
  <2>5. at[n + 1] \in Nat /\ at[n + 2] \in Nat
    BY <2>4
  <2>6. \A i \in 1 .. n + 2 : at[i] <= at[n + 2]
    <3> TAKE i \in 1 .. n + 2
    <3>1. i \in 1 .. n + 1 \/ i = n + 2
      BY <2>1
    <3>2. i \in Nat /\ at[i] \in Nat
      <4>1. i \in Nat
        BY <2>4
      <4> QED
        BY <4>1
    <3>3. i \in 1 .. n + 1 => at[i] <= at[n + 1]
      BY <2>2
    <3>4. CASE i = n + 2
      BY <2>5, <3>4
    <3>5. CASE i \in 1 .. n + 1
      <4>1. at[i] <= at[n + 1] /\ at[n + 2] > at[n + 1]
        BY <2>3, <2>4, <3>3, <3>5
      <4> QED
        BY <2>5, <3>2, <4>1
    <3> QED
      BY <3>1, <3>4, <3>5
  <2>7. at[n + 2] \in Pos
    BY <2>2, <2>3, <2>4, <2>5 DEF Pos
  <2> QED
    BY <2>3, <2>4, <2>6, <2>7
<1> HIDE DEF Good
<1>4. T = Nat
  <2>1. T \in SUBSET Nat
    OBVIOUS
  <2> HIDE DEF T
  <2> QED
    BY <1>2, <1>3, <2>1, SetInduction
<1>5. \A k \in 1 .. Len(rs) + 1 : Good(k)
  <2> TAKE k \in 1 .. Len(rs) + 1
  <2>1. k - 1 \in Nat /\ k - 1 + 1 = k
    BY <1>0
  <2>2. k - 1 \in T
    BY <1>4, <2>1
  <2> QED
    BY <1>0, <2>1, <2>2
<1> QED
  BY <1>1, <1>5 DEF Good

Walks(f, recs, stop) ==
    /\ Records(f) = recs[1] /\ StopAt(f) = stop[1]
    /\ \A p \in Pos :
         /\ Intact(f, p) => recs[p] = <<f[p].rec>> \o recs[p + f[p].rec.size]
         /\ Intact(f, p) => stop[p] = stop[p + f[p].rec.size]
         /\ ~ Intact(f, p) => recs[p] = <<>> /\ stop[p] = p

\* The parser's two recursive functions are well defined.
LEMMA ParserDefined ==
    ASSUME NEW f, File(f)
    PROVE  \E recs, stop : Walks(f, recs, stop)
<1> DEFINE L == Len(f)
           A == {p \in 1 .. L : Intact(f, p)}
           jump == [p \in A |-> p + f[p].rec.size]
<1>1. L \in Nat /\ A \in SUBSET (1 .. L)
  <2>1. f \in Seq(Cells)
    BY DEF File
  <2>2. L \in Nat
    BY <2>1, LenProperties, Zenon
  <2> QED
    BY <2>2
<1>2. \A p \in Pos : Intact(f, p) <=> p \in A
  <2> TAKE p \in Pos
  <2>1. p \in Nat /\ p >= 1
    BY DEF Pos
  <2>2. Intact(f, p) => p <= L
    BY DEF Intact
  <2> HIDE DEF L
  <2>3. Intact(f, p) => p \in 1 .. L
    BY <1>1, <2>1, <2>2
  <2> QED
    BY <2>3
<1>3. \A p \in A : f[p].rec \in Record /\ jump[p] \in Pos /\ jump[p] > p
  <2> SUFFICES ASSUME NEW p \in A
               PROVE  f[p].rec \in Record /\ jump[p] \in Pos /\ jump[p] > p
    OBVIOUS
  <2>1. f[p] \in Cells /\ p \in Nat /\ p > 0
    BY <1>1 DEF File
  <2>2. f[p].rec \in Record
    BY <2>1, RecordSizes
  <2>3. f[p].rec.size \in Nat /\ f[p].rec.size > 0
    BY <2>2, RecordSizes
  <2>4. \A a, s \in Nat : s > 0 => a + s > a /\ a + s \in Nat \ {0}
    OBVIOUS
  <2>5. p + f[p].rec.size > p /\ p + f[p].rec.size \in Nat \ {0}
    BY <2>1, <2>3, <2>4
  <2> QED
    BY <2>2, <2>5 DEF Pos
<1>4. jump \in [A -> Pos]
  BY <1>3
<1> HIDE DEF A
<1>5. \E recs : /\ Records(f) = recs[1]
                /\ \A p \in Pos : recs[p] = IF Intact(f, p) THEN <<f[p].rec>> \o recs[p + f[p].rec.size]
                                            ELSE <<>>
  <2> DEFINE D == Seq(Record)
             base == [p \in Pos |-> <<>>]
             op == [x \in Pos \X D |-> IF x[1] \in A THEN <<f[x[1]].rec>> \o x[2] ELSE <<>>]
             IsRecs(g) == g = [p \in Pos |-> IF Intact(f, p) THEN <<f[p].rec>> \o g[p + f[p].rec.size]
                                             ELSE <<>>]
  <2>1. base \in [Pos -> D]
    OBVIOUS
  <2>2. op \in [Pos \X D -> D]
    <3>1. ASSUME NEW p \in Pos, NEW s \in D, p \in A
          PROVE  <<f[p].rec>> \o s \in D
      <4>1. f[p].rec \in Record
        BY <1>3, <3>1
      <4>2. <<f[p].rec>> \in Seq(Record)
        BY <4>1
      <4> QED
        BY <4>2
    <3> QED
      BY <3>1
  <2>3. \E g \in [Pos -> D] : Follows(g, A, jump, op, base)
    <3> HIDE DEF op, base, D, jump, L
    <3>1. \A p \in A : jump[p] > p
      BY <1>3
    <3> QED
      BY <1>1, <1>4, <2>1, <2>2, <3>1, Downward
  <2>4. PICK g \in [Pos -> D] : Follows(g, A, jump, op, base)
    BY <2>3, Zenon
  <2>5. ASSUME NEW p \in Pos
        PROVE  g[p] = IF Intact(f, p) THEN <<f[p].rec>> \o g[p + f[p].rec.size] ELSE <<>>
    <3>1. g[p] = IF p \in A THEN op[<<p, g[jump[p]]>>] ELSE base[p]
      BY <2>4, Zenon DEF Follows
    <3>2. CASE p \in A
      <4>1. jump[p] \in Pos /\ jump[p] = p + f[p].rec.size
        BY <1>3, <3>2
      <4> HIDE DEF jump
      <4>2. g[jump[p]] \in D
        BY <4>1
      <4> HIDE DEF D
      <4>3. op[<<p, g[jump[p]]>>] = <<f[p].rec>> \o g[jump[p]]
        BY <3>2, <4>2
      <4> HIDE DEF op
      <4> QED
        BY <1>2, <3>1, <3>2, <4>1, <4>3
    <3>3. CASE p \notin A
      BY <1>2, <3>1, <3>3
    <3> QED
      BY <3>2, <3>3
  <2>6. IsRecs(g)
    <3> HIDE DEF D
    <3>1. g = [p \in Pos |-> g[p]]
      OBVIOUS
    <3> QED
      BY <2>5, <3>1
  <2> DEFINE recs == CHOOSE h : IsRecs(h)
  <2>7. IsRecs(recs)
    <3> HIDE DEF IsRecs
    <3> QED
      BY <2>6
  <2>8. Records(f) = recs[1]
    BY Zenon DEF Records, Pos
  <2> HIDE DEF recs
  <2> QED
    BY <2>7, <2>8
<1>6. \E stop : /\ StopAt(f) = stop[1]
                /\ \A p \in Pos : stop[p] = IF Intact(f, p) THEN stop[p + f[p].rec.size] ELSE p
  <2> DEFINE base == [p \in Pos |-> p]
             op == [x \in Pos \X Pos |-> x[2]]
             IsStop(g) == g = [p \in Pos |-> IF Intact(f, p) THEN g[p + f[p].rec.size] ELSE p]
  <2>1. base \in [Pos -> Pos] /\ op \in [Pos \X Pos -> Pos]
    OBVIOUS
  <2>3. \E g \in [Pos -> Pos] : Follows(g, A, jump, op, base)
    <3> HIDE DEF op, base, jump, L
    <3>1. \A p \in A : jump[p] > p
      BY <1>3
    <3> QED
      BY <1>1, <1>4, <2>1, <3>1, Downward
  <2>4. PICK g \in [Pos -> Pos] : Follows(g, A, jump, op, base)
    BY <2>3, Zenon
  <2>5. ASSUME NEW p \in Pos
        PROVE  g[p] = IF Intact(f, p) THEN g[p + f[p].rec.size] ELSE p
    <3>1. g[p] = IF p \in A THEN op[<<p, g[jump[p]]>>] ELSE base[p]
      BY <2>4, Zenon DEF Follows
    <3>2. CASE p \in A
      <4>1. jump[p] \in Pos /\ jump[p] = p + f[p].rec.size
        BY <1>3, <3>2
      <4> HIDE DEF jump
      <4>2. g[jump[p]] \in Pos
        BY <4>1
      <4>3. op[<<p, g[jump[p]]>>] = g[jump[p]]
        BY <3>2, <4>2
      <4> HIDE DEF op
      <4> QED
        BY <1>2, <3>1, <3>2, <4>1, <4>3
    <3>3. CASE p \notin A
      BY <1>2, <3>1, <3>3
    <3> QED
      BY <3>2, <3>3
  <2>6. IsStop(g)
    <3>1. g = [p \in Pos |-> g[p]]
      OBVIOUS
    <3> QED
      BY <2>5, <3>1
  <2> DEFINE stop == CHOOSE h : IsStop(h)
  <2>7. IsStop(stop)
    <3> HIDE DEF IsStop
    <3> QED
      BY <2>6
  <2>8. StopAt(f) = stop[1]
    BY ZenonT(30) DEF StopAt, Pos
  <2>9. \A p \in Pos : stop[p] = IF Intact(f, p) THEN stop[p + f[p].rec.size] ELSE p
    <3> HIDE DEF stop
    <3> QED
      BY <2>7
  <2> HIDE DEF stop
  <2> QED
    BY <2>8, <2>9, Zenon
<1>7. PICK recs : /\ Records(f) = recs[1]
                  /\ \A p \in Pos : recs[p] = IF Intact(f, p) THEN <<f[p].rec>> \o recs[p + f[p].rec.size]
                                              ELSE <<>>
  BY <1>5
<1>8. PICK stop : /\ StopAt(f) = stop[1]
                  /\ \A p \in Pos : stop[p] = IF Intact(f, p) THEN stop[p + f[p].rec.size] ELSE p
  BY <1>6
<1>9. Walks(f, recs, stop)
  BY <1>7, <1>8 DEF Walks
<1> QED
  BY <1>9

\* The records of a file are those laid out in it, and the parser stops behind
\* them.
LEMMA RecordsOf ==
    ASSUME NEW f, File(f), NEW rs \in Seq(Record), NEW at \in [Nat -> Nat], Parsed(f, rs, at)
    PROVE  Records(f) = rs /\ StopAt(f) = EndOf(rs, at)
<1> DEFINE n == Len(rs)
           e == EndOf(rs, at)
<1>0. n \in Nat /\ Laid(f, rs, at) /\ ~ Intact(f, e) /\ e = at[n + 1]
  BY DEF Parsed, EndOf
<1>1. \A j \in 1 .. n + 1 : at[j] \in Pos /\ at[j] <= Len(f) + 1
  BY <1>0, LaidGrows, Zenon
<1>2. ASSUME NEW j \in 1 .. n
      PROVE  /\ Intact(f, at[j]) /\ f[at[j]].rec = rs[j] /\ at[j] + rs[j].size = at[j + 1]
             /\ rs[j] \in Record
  <2>1. /\ at[j + 1] = at[j] + rs[j].size /\ at[j + 1] <= Len(f) + 1
        /\ \A i \in 1 .. rs[j].size : f[at[j] + i - 1] = Cell(rs[j], i)
    BY <1>0 DEF Laid
  <2>2. rs[j] \in Record
    OBVIOUS
  <2>3. rs[j].size \in Nat /\ rs[j].size > 0
    BY <2>2, RecordSizes
  <2>4. at[j] \in Nat /\ at[j] > 0 /\ j \in Nat /\ Len(f) \in Nat
    <3>0. Len(f) \in Nat
      BY DEF File
    <3>1. j \in 1 .. n + 1 /\ j \in Nat
      BY <1>0
    <3>2. at[j] \in Pos
      BY <1>1, <3>1
    <3>3. \A x \in Pos : x \in Nat /\ x > 0
      BY DEF Pos
    <3> QED
      BY <3>0, <3>1, <3>2, <3>3
  <2>5. \A a, s, l \in Nat : s > 0 /\ a + s <= l + 1 => a <= l /\ a + s - 1 <= l /\ 1 \in 1 .. s /\ a + 1 - 1 = a
    OBVIOUS
  <2>6. at[j] <= Len(f) /\ at[j] + rs[j].size - 1 <= Len(f) /\ 1 \in 1 .. rs[j].size /\ at[j] + 1 - 1 = at[j]
    <3>1. at[j] + rs[j].size <= Len(f) + 1
      BY <2>1, Zenon
    <3> QED
      BY <2>3, <2>4, <2>5, <3>1, Zenon
  <2>7. f[at[j]] = Cell(rs[j], 1)
    BY <2>1, <2>6
  <2>8. f[at[j]].rec = rs[j] /\ f[at[j]].part = 1
    BY <2>7 DEF Cell
  <2>9. Intact(f, at[j])
    BY <2>1, <2>6, <2>8, Zenon DEF Intact
  <2> QED
    BY <2>1, <2>2, <2>8, <2>9
<1>3. PICK recs, stop : Walks(f, recs, stop)
  BY ParserDefined
<1>4. ASSUME NEW j \in 1 .. n
      PROVE  recs[at[j]] = <<rs[j]>> \o recs[at[j + 1]] /\ stop[at[j]] = stop[at[j + 1]]
  <2>1. j \in 1 .. n + 1
    BY <1>0
  <2>2. at[j] \in Pos
    BY <1>1, <2>1
  <2>3. Intact(f, at[j]) /\ f[at[j]].rec = rs[j] /\ at[j] + rs[j].size = at[j + 1]
    BY <1>2
  <2>4. Intact(f, at[j]) => recs[at[j]] = <<f[at[j]].rec>> \o recs[at[j] + f[at[j]].rec.size]
    BY <1>3, <2>2, Zenon DEF Walks
  <2>5. Intact(f, at[j]) => stop[at[j]] = stop[at[j] + f[at[j]].rec.size]
    BY <1>3, <2>2, Zenon DEF Walks
  <2> QED
    BY <2>3, <2>4, <2>5, Zenon
<1>5. recs[at[n + 1]] = <<>> /\ stop[at[n + 1]] = e
  <2>1. n + 1 \in 1 .. n + 1
    BY <1>0
  <2> QED
    BY <1>0, <1>1, <1>3, <2>1 DEF Walks
<1> DEFINE P(k) == recs[at[n + 1 - k]] = SubSeq(rs, n + 1 - k, n) /\ stop[at[n + 1 - k]] = e
           T == {k \in Nat : k <= n => P(k)}
<1>6. 0 \in T
  <2>1. n + 1 - 0 = n + 1 /\ SubSeq(rs, n + 1, n) = <<>>
    BY <1>0
  <2> QED
    BY <1>5, <2>1
<1>7. ASSUME NEW k \in T
      PROVE  k + 1 \in T
  <2>0. k \in Nat /\ (k <= n => P(k))
    <3> HIDE DEF P
    <3> QED
      OBVIOUS
  <2> SUFFICES ASSUME k + 1 <= n
               PROVE  P(k + 1)
    <3>1. k + 1 \in Nat
      BY <2>0
    <3> HIDE DEF P
    <3> QED
      BY <3>1
  <2> HIDE DEF T
  <2> DEFINE j == n - k
  <2>1. j \in 1 .. n
    <3>1. k \in Nat /\ n \in Nat /\ k + 1 <= n
      BY <1>0, <2>0
    <3> HIDE DEF n, P
    <3> QED
      BY <3>1
  <2>7. n + 1 - (k + 1) = j /\ n + 1 - k = j + 1 /\ k <= n
    <3>1. k \in Nat /\ n \in Nat /\ k + 1 <= n
      BY <1>0, <2>0
    <3> HIDE DEF n, P
    <3> QED
      BY <3>1
  <2>2. recs[at[j + 1]] = SubSeq(rs, j + 1, n) /\ stop[at[j + 1]] = e
    BY <2>0, <2>7
  <2> HIDE DEF j
  <2>3. recs[at[j]] = <<rs[j]>> \o SubSeq(rs, j + 1, n) /\ stop[at[j]] = e
    BY <1>4, <2>1, <2>2
  <2>4. <<rs[j]>> \o SubSeq(rs, j + 1, n) = SubSeq(rs, j, n)
    <3>1. n \in j .. n /\ n = Len(rs)
      BY <1>0, <2>1
    <3> HIDE DEF n
    <3> QED
      BY <2>1, <3>1, SubSeqRecursiveFirst
  <2>5. recs[at[j]] = SubSeq(rs, j, n) /\ stop[at[j]] = e
    BY <2>3, <2>4
  <2> QED
    BY <2>5, <2>7
<1>8. T = Nat
  <2>1. T \in SUBSET Nat
    OBVIOUS
  <2> HIDE DEF T
  <2> QED
    BY <1>6, <1>7, <2>1, SetInduction
<1>9. recs[at[1]] = SubSeq(rs, 1, n) /\ stop[at[1]] = e
  <2>1. n + 1 - n = 1
    BY <1>0
  <2>2. P(n)
    <3>1. n <= n
      BY <1>0
    <3> HIDE DEF P, n
    <3> QED
      BY <1>0, <1>8, <3>1
  <2> HIDE DEF n
  <2> QED
    BY <2>1, <2>2
<1>10. SubSeq(rs, 1, n) = rs
  OBVIOUS
<1>11. at[1] = 1 /\ Records(f) = recs[1] /\ StopAt(f) = stop[1]
  BY <1>0, <1>3 DEF Laid, Walks
<1> QED
  BY <1>9, <1>10, <1>11

Starts(s, t) == Len(s) <= Len(t) /\ \A i \in 1 .. Len(s) : s[i] = t[i]

\* A prefix, element by element.
LEMMA PrefixIs ==
    ASSUME NEW S, NEW s \in Seq(S), NEW t \in Seq(S)
    PROVE  IsPrefix(s, t) <=> Starts(s, t)
<1>1. Len(s) \in Nat /\ Len(t) \in Nat
  BY LenProperties
<1>2. SubSeq(s, 1, Len(s)) = s
  BY SubSeqFull
<1>3. ASSUME Len(s) <= Len(t)
      PROVE  /\ SubSeq(t, 1, Len(s)) \in Seq(S)
             /\ Len(SubSeq(t, 1, Len(s))) = Len(s)
             /\ \A i \in 1 .. Len(s) : SubSeq(t, 1, Len(s))[i] = t[i]
  <2> DEFINE n == Len(s)
  <2>1. \A i \in 1 .. n : t[i] \in S
    BY <1>1, <1>3
  <2>2. 1 \in Int /\ n \in Int /\ n - 1 + 1 = n /\ (1 <= n \/ n = 0)
    BY <1>1
  <2> HIDE DEF n
  <2>3. /\ SubSeq(t, 1, n) \in Seq(S)
        /\ Len(SubSeq(t, 1, n)) = IF 1 <= n THEN n - 1 + 1 ELSE 0
        /\ \A i \in 1 .. n - 1 + 1 : SubSeq(t, 1, n)[i] = t[1 + i - 1]
    BY <2>1, <2>2, SubSeqProperties
  <2>4. Len(SubSeq(t, 1, n)) = n
    BY <2>2, <2>3
  <2>5. \A i \in 1 .. n : SubSeq(t, 1, n)[i] = t[i]
    <3> TAKE i \in 1 .. n
    <3>1. 1 + i - 1 = i /\ i \in 1 .. n - 1 + 1
      BY <2>2
    <3> QED
      BY <2>3, <3>1
  <2> QED
    BY <2>3, <2>4, <2>5 DEF n
<1>4. ASSUME IsPrefix(s, t)
      PROVE  Starts(s, t)
  <2>1. Len(s) <= Len(t) /\ SubSeq(t, 1, Len(s)) = s
    BY <1>2, <1>4 DEF IsPrefix
  <2> QED
    BY <1>3, <2>1 DEF Starts
<1>5. ASSUME Starts(s, t)
      PROVE  IsPrefix(s, t)
  <2> DEFINE u == SubSeq(t, 1, Len(s))
  <2>1. Len(s) <= Len(t) /\ \A i \in 1 .. Len(s) : s[i] = t[i]
    BY <1>5 DEF Starts
  <2>2. u \in Seq(S) /\ Len(u) = Len(s) /\ \A i \in 1 .. Len(s) : u[i] = t[i]
    BY <1>3, <2>1
  <2> HIDE DEF u
  <2>3. u = s
    BY <2>1, <2>2, SeqEqual
  <2> QED
    BY <1>2, <2>1, <2>3 DEF IsPrefix, u
<1> QED
  BY <1>4, <1>5

\* Records stay laid out where the cells they lie in stay.
LEMMA LaidKept ==
    ASSUME NEW f, File(f), NEW g, File(g), NEW rs \in Seq(Record), NEW at \in [Nat -> Nat],
           Laid(f, rs, at), EndOf(rs, at) <= Len(g) + 1,
           \A p \in 1 .. EndOf(rs, at) - 1 : g[p] = f[p]
    PROVE  Laid(g, rs, at)
<1>0. Len(rs) \in Nat /\ Len(f) \in Nat /\ Len(g) \in Nat
  BY LenProperties DEF File
<1>1. ASSUME NEW j \in 1 .. Len(rs)
      PROVE  at[j] \in Pos /\ at[j + 1] \in Pos /\ at[j + 1] <= EndOf(rs, at) /\ EndOf(rs, at) \in Pos
  <2>1. j \in 1 .. Len(rs) + 1 /\ j + 1 \in 1 .. Len(rs) + 1
    BY <1>0
  <2>2. Len(rs) + 1 \in 1 .. Len(rs) + 1 /\ j + 1 \in 1 .. (Len(rs) + 1)
    BY <1>0
  <2> QED
    BY <2>1, <2>2, LaidGrows, Zenon DEF EndOf
<1>2. ASSUME NEW j \in 1 .. Len(rs)
      PROVE  /\ at[j + 1] = at[j] + rs[j].size
             /\ at[j + 1] <= Len(g) + 1
             /\ \A i \in 1 .. rs[j].size : g[at[j] + i - 1] = Cell(rs[j], i)
  <2>1. /\ at[j + 1] = at[j] + rs[j].size /\ at[j + 1] <= Len(f) + 1
        /\ \A i \in 1 .. rs[j].size : f[at[j] + i - 1] = Cell(rs[j], i)
    BY DEF Laid
  <2>2. at[j] \in Nat /\ at[j] > 0 /\ EndOf(rs, at) \in Nat /\ at[j + 1] \in Nat /\ at[j + 1] <= EndOf(rs, at)
    BY <1>1 DEF Pos
  <2>3. rs[j] \in Record
    OBVIOUS
  <2>4. rs[j].size \in Nat
    BY <2>3, RecordSizes
  <2>5. at[j + 1] <= Len(g) + 1
    BY <1>0, <2>2
  <2>6. \A a, s, b, e \in Nat : b = a + s /\ a > 0 /\ b <= e => \A i \in 1 .. s : a + i - 1 \in 1 .. e - 1
    <3> TAKE a, s, b, e \in Nat
    <3> HAVE b = a + s /\ a > 0 /\ b <= e
    <3> TAKE i \in 1 .. s
    <3>1. i \in Nat /\ i >= 1 /\ i <= s
      OBVIOUS
    <3>2. a + i - 1 >= 1 /\ a + i - 1 <= e - 1 /\ a + i - 1 \in Int
      BY <3>1
    <3> QED
      BY <3>2
  <2>7. \A i \in 1 .. rs[j].size : at[j] + i - 1 \in 1 .. EndOf(rs, at) - 1
    BY <2>1, <2>2, <2>4, <2>6
  <2> QED
    BY <2>1, <2>5, <2>7
<1> QED
  BY <1>2, at[1] = 1 DEF Laid

\* It does not matter in which order records are put together.
LEMMA Regrouped ==
    ASSUME NEW s \in Seq(Record), NEW t \in Seq(Record), NEW u \in Seq(Record)
    PROVE  (s \o t) \o u = s \o (t \o u)
<1> DEFINE l == (s \o t) \o u
           r == s \o (t \o u)
<1>1. l \in Seq(Record) /\ r \in Seq(Record)
  OBVIOUS
<1>2. Len(l) = Len(r)
  OBVIOUS
<1>3. \A i \in 1 .. Len(l) : l[i] = r[i]
  OBVIOUS
<1> QED
  BY <1>1, <1>2, <1>3, SeqEqual, Zenon

\* A sequence is its first k elements followed by the others.
LEMMA SplitAt ==
    ASSUME NEW S, NEW q \in Seq(S), NEW k \in 0 .. Len(q)
    PROVE  /\ SubSeq(q, 1, k) \in Seq(S) /\ SubSeq(q, k + 1, Len(q)) \in Seq(S)
           /\ Len(SubSeq(q, 1, k)) = k /\ \A i \in 1 .. k : SubSeq(q, 1, k)[i] = q[i]
           /\ SubSeq(q, 1, k) \o SubSeq(q, k + 1, Len(q)) = q
<1> DEFINE L == Len(q)
           s == SubSeq(q, 1, k)
           t == SubSeq(q, k + 1, L)
<1>1. L \in Nat /\ k \in Nat /\ k <= L /\ \A i \in 1 .. L : q[i] \in S
  BY LenProperties
<1>2. s \in Seq(S) /\ Len(s) = k /\ \A i \in 1 .. k : s[i] = q[i]
  <2>1. \A i \in 1 .. k : q[i] \in S
    BY <1>1
  <2>2. 1 \in Int /\ k \in Int /\ k - 1 + 1 = k /\ (1 <= k \/ k = 0)
    BY <1>1
  <2>3. /\ s \in Seq(S)
        /\ Len(s) = IF 1 <= k THEN k - 1 + 1 ELSE 0
        /\ \A i \in 1 .. k - 1 + 1 : s[i] = q[1 + i - 1]
    BY <2>1, <2>2, SubSeqProperties
  <2> HIDE DEF s
  <2>4. Len(s) = k
    BY <2>2, <2>3
  <2>5. \A i \in 1 .. k : s[i] = q[i]
    <3> TAKE i \in 1 .. k
    <3>1. 1 + i - 1 = i /\ i \in 1 .. k - 1 + 1
      BY <1>1
    <3> QED
      BY <2>3, <3>1
  <2> QED
    BY <2>3, <2>4, <2>5
<1>3. t \in Seq(S)
  <2> HIDE DEF L
  <2>1. k + 1 \in Int /\ L \in Int
    BY <1>1
  <2>2. \A i \in k + 1 .. L : q[i] \in S
    BY <1>1
  <2> QED
    BY <2>1, <2>2, SubSeqProperties
<1>4. s \o t = q
  <2>1. 1 \in 1 .. L + 1 /\ k \in 1 - 1 .. L /\ L \in k .. L
    BY <1>1
  <2>2. s \o t = SubSeq(q, 1, L)
    BY <2>1, ConcatAdjacentSubSeq
  <2> QED
    BY <2>2, SubSeqFull
<1> QED
  BY <1>2, <1>3, <1>4

\* The first of the records laid out.
LEMMA LaidFirst ==
    ASSUME NEW f, NEW rs \in Seq(Record), NEW at \in [Nat -> Nat], Laid(f, rs, at),
           NEW k \in 0 .. Len(rs)
    PROVE  /\ SubSeq(rs, 1, k) \in Seq(Record) /\ Len(SubSeq(rs, 1, k)) = k
           /\ \A j \in 1 .. k : SubSeq(rs, 1, k)[j] = rs[j]
           /\ Laid(f, SubSeq(rs, 1, k), at)
           /\ EndOf(SubSeq(rs, 1, k), at) = at[k + 1]
<1> DEFINE s == SubSeq(rs, 1, k)
<1>0. Len(rs) \in Nat /\ k \in Nat /\ k <= Len(rs)
  OBVIOUS
<1>1. s \in Seq(Record) /\ Len(s) = k /\ \A j \in 1 .. k : s[j] = rs[j]
  BY SplitAt
<1>2. \A j \in 1 .. k : j \in 1 .. Len(rs)
  BY <1>0
<1>3. Laid(f, s, at)
  BY <1>1, <1>2 DEF Laid
<1> QED
  BY <1>1, <1>3 DEF s, EndOf

\* Only an intact record of the larger file is one of what is left of it.
LEMMA CutIntact ==
    ASSUME NEW f, File(f), NEW n \in 0 .. Len(f), NEW p \in Pos
    PROVE  /\ File(SubSeq(f, 1, n)) /\ Len(SubSeq(f, 1, n)) = n
           /\ \A q \in 1 .. n : SubSeq(f, 1, n)[q] = f[q]
           /\ Intact(SubSeq(f, 1, n), p) <=> p <= n /\ p + f[p].rec.size - 1 <= n /\ Intact(f, p)
           /\ Corrupt(SubSeq(f, 1, n), p) <=> p <= n /\ p + f[p].rec.size - 1 <= n /\ Corrupt(f, p)
<1> DEFINE g == SubSeq(f, 1, n)
<1>0. Len(f) \in Nat /\ n \in Nat /\ n <= Len(f) /\ p \in Nat /\ p > 0
  BY LenProperties DEF File, Pos
<1>1. File(g) /\ Len(g) = n /\ \A q \in 1 .. n : g[q] = f[q]
  <2>1. \A q \in 1 .. n : f[q] \in Cells
    BY <1>0 DEF File
  <2>2. 1 \in Int /\ n \in Int /\ n - 1 + 1 = n /\ (1 <= n \/ n = 0)
    BY <1>0
  <2>3. /\ g \in Seq(Cells)
        /\ Len(g) = IF 1 <= n THEN n - 1 + 1 ELSE 0
        /\ \A q \in 1 .. n - 1 + 1 : g[q] = f[1 + q - 1]
    BY <2>1, <2>2, SubSeqProperties
  <2> HIDE DEF g
  <2>4. \A q \in 1 .. n : g[q] = f[q]
    <3> TAKE q \in 1 .. n
    <3>1. 1 + q - 1 = q /\ q \in 1 .. n - 1 + 1
      BY <1>0
    <3> QED
      BY <2>3, <3>1
  <2>5. Len(g) = n
    BY <2>2, <2>3
  <2> QED
    BY <2>3, <2>4, <2>5 DEF File
<1> HIDE DEF g
<1>2. CASE p <= n
  <2>1. g[p] = f[p] /\ f[p] \in Cells
    BY <1>0, <1>1, <1>2 DEF File
  <2>2. f[p].rec \in Record
    BY <2>1, RecordSizes
  <2>3. f[p].rec.size \in Nat /\ f[p].rec.size > 0
    BY <2>2, RecordSizes
  <2>4. p + f[p].rec.size - 1 <= n => p + f[p].rec.size - 1 <= Len(f)
    <3>1. \A a, s, l, m \in Nat : m <= l /\ a + s - 1 <= m => a + s - 1 <= l
      OBVIOUS
    <3> QED
      BY <1>0, <2>3, <3>1
  <2>5. p + f[p].rec.size - 1 <= n => \A i \in 1 .. f[p].rec.size : g[p + i - 1] = f[p + i - 1]
    <3>1. \A a, s, m \in Nat : a > 0 /\ a + s - 1 <= m => \A i \in 1 .. s : a + i - 1 \in 1 .. m
      OBVIOUS
    <3>2. p + f[p].rec.size - 1 <= n => \A i \in 1 .. f[p].rec.size : p + i - 1 \in 1 .. n
      BY <1>0, <2>3, <3>1
    <3> QED
      BY <1>1, <3>2
  <2>6. p <= Len(f)
    BY <1>0, <1>2
  <2>7. Intact(g, p) <=> p + f[p].rec.size - 1 <= n /\ Intact(f, p)
    BY <1>1, <1>2, <2>1, <2>4, <2>5, <2>6, Zenon DEF Intact
  <2>8. Corrupt(g, p) <=> p + f[p].rec.size - 1 <= n /\ Corrupt(f, p)
    BY <1>1, <1>2, <2>1, <2>4, <2>6, <2>7, Zenon DEF Corrupt
  <2> QED
    BY <1>1, <1>2, <2>7, <2>8 DEF g
<1>3. CASE ~ (p <= n)
  <2>1. ~ Intact(g, p) /\ ~ Corrupt(g, p)
    BY <1>1, <1>3 DEF Intact, Corrupt
  <2> QED
    BY <1>1, <1>3, <2>1 DEF g
<1> QED
  BY <1>2, <1>3

CutAt(f, rs, at, n, k) ==
    /\ k \in 0 .. Len(rs)
    /\ Parsed(SubSeq(f, 1, n), SubSeq(rs, 1, k), at)
    /\ at[k + 1] <= n + 1
    /\ k < Len(rs) => n + 1 < at[k + 2]
    /\ \A j \in 0 .. Len(rs) : at[j + 1] <= n + 1 => j <= k

\* What is left of a file parses to the records that lie in it whole.
LEMMA CutParses ==
    ASSUME NEW f, File(f), NEW rs \in Seq(Record), NEW at \in [Nat -> Nat], Parsed(f, rs, at),
           NEW n \in 0 .. Len(f)
    PROVE  \E k \in 0 .. Len(rs) : CutAt(f, rs, at, n, k)
<1> DEFINE S == {j \in 0 .. Len(rs) : at[j + 1] <= n + 1}
           g == SubSeq(f, 1, n)
<1>0. Len(f) \in Nat /\ n \in Nat /\ n <= Len(f) /\ Len(rs) \in Nat
  BY LenProperties DEF File
<1>1. Laid(f, rs, at) /\ ~ Intact(f, at[Len(rs) + 1]) /\ at[1] = 1
  BY DEF Parsed, Laid, EndOf
<1>2. S # {} /\ S \in SUBSET (0 .. Len(rs))
  <2>1. 0 \in S
    BY <1>0, <1>1
  <2> QED
    BY <2>1
<1>3. PICK k \in S : \A j \in S : j <= k
  <2> HIDE DEF S
  <2> QED
    BY <1>0, <1>2, GreatestNat
<1>4. k \in 0 .. Len(rs) /\ at[k + 1] <= n + 1
  OBVIOUS
<1>5. \A j \in 0 .. Len(rs) : at[j + 1] <= n + 1 => j <= k
  BY <1>3
<1> HIDE DEF S
<1>6. k + 1 \in 1 .. Len(rs) + 1 /\ k \in Nat
  BY <1>0, <1>4
<1>7. at[k + 1] \in Pos
  BY <1>1, <1>6, LaidGrows, Zenon
<1>8. k < Len(rs) => n + 1 < at[k + 2]
  <2> SUFFICES ASSUME k < Len(rs), ~ (n + 1 < at[k + 2])
               PROVE  FALSE
    OBVIOUS
  <2>1. k + 1 \in 0 .. Len(rs) /\ k + 1 + 1 = k + 2 /\ at[k + 2] \in Nat /\ ~ (k + 1 <= k)
    BY <1>0, <1>6
  <2>2. at[k + 2] <= n + 1
    <3>1. \A a \in Nat : ~ (n + 1 < a) => a <= n + 1
      BY <1>0
    <3> QED
      BY <2>1, <3>1
  <2>3. at[k + 1 + 1] <= n + 1
    BY <2>1, <2>2
  <2> QED
    BY <1>5, <2>1, <2>3
<1>9. /\ File(g) /\ Len(g) = n /\ \A q \in 1 .. n : g[q] = f[q]
      /\ Intact(g, at[k + 1]) => at[k + 1] <= n /\ at[k + 1] + f[at[k + 1]].rec.size - 1 <= n /\ Intact(f, at[k + 1])
  BY <1>7, CutIntact, Zenon
<1>10. Laid(f, SubSeq(rs, 1, k), at) /\ EndOf(SubSeq(rs, 1, k), at) = at[k + 1] /\ SubSeq(rs, 1, k) \in Seq(Record)
  BY <1>1, <1>4, LaidFirst, Zenon
<1>11. Laid(g, SubSeq(rs, 1, k), at)
  <2> DEFINE s == SubSeq(rs, 1, k)
  <2>1. at[k + 1] <= Len(g) + 1
    BY <1>4, <1>9
  <2>2. \A p \in 1 .. at[k + 1] - 1 : g[p] = f[p]
    <3>1. \A p \in 1 .. at[k + 1] - 1 : p \in 1 .. n
      BY <1>0, <1>4, <1>7, SMTT(30) DEF Pos
    <3> QED
      BY <1>9, <3>1
  <2> HIDE DEF s, g
  <2> QED
    BY <1>9, <1>10, <2>1, <2>2, LaidKept DEF s
<1>12. ~ Intact(g, at[k + 1])
  <2> SUFFICES ASSUME Intact(g, at[k + 1])
               PROVE  FALSE
    OBVIOUS
  <2>1. at[k + 1] + f[at[k + 1]].rec.size - 1 <= n /\ Intact(f, at[k + 1])
    BY <1>9
  <2>2. k # Len(rs)
    BY <1>1, <2>1
  <2>3. k < Len(rs) /\ k + 1 \in 1 .. Len(rs)
    <3>1. \A a, b \in Nat : a \in 0 .. b /\ a # b => a < b /\ a + 1 \in 1 .. b
      OBVIOUS
    <3> QED
      BY <1>0, <1>4, <1>6, <2>2, <3>1
  <2>4. at[k + 1 + 1] = at[k + 1] + rs[k + 1].size /\ \A i \in 1 .. rs[k + 1].size : f[at[k + 1] + i - 1] = Cell(rs[k + 1], i)
    BY <1>1, <2>3 DEF Laid
  <2>5. rs[k + 1] \in Record
    BY <2>3
  <2>12. k + 1 \in Nat
    BY <1>6
  <2>6. rs[k + 1].size \in Nat /\ rs[k + 1].size > 0 /\ at[k + 1] \in Nat
    <3>1. at[k + 1] \in Nat
      BY <2>12
    <3> QED
      BY <2>5, <3>1, RecordSizes
  <2>7. 1 \in 1 .. rs[k + 1].size /\ at[k + 1] + 1 - 1 = at[k + 1]
    <3>1. \A a, s \in Nat : s > 0 => 1 \in 1 .. s /\ a + 1 - 1 = a
      OBVIOUS
    <3> QED
      BY <2>6, <3>1
  <2>8. f[at[k + 1]].rec = rs[k + 1]
    <3>1. f[at[k + 1] + 1 - 1] = Cell(rs[k + 1], 1)
      BY <2>4, <2>7
    <3>2. f[at[k + 1]] = Cell(rs[k + 1], 1)
      BY <2>7, <3>1, Zenon
    <3>3. Cell(rs[k + 1], 1).rec = rs[k + 1]
      BY DEF Cell
    <3> QED
      BY <3>2, <3>3, Zenon
  <2>9. at[k + 1] + rs[k + 1].size - 1 <= n
    BY <2>1, <2>8
  <2>10. \A a, s, b, m \in Nat : b = a + s /\ a + s - 1 <= m => ~ (m + 1 < b)
    OBVIOUS
  <2>11. k + 1 + 1 = k + 2 /\ at[k + 2] \in Nat
    <3>1. k + 1 + 1 = k + 2 /\ k + 2 \in Nat
      BY <1>6
    <3> QED
      BY <3>1
  <2> QED
    BY <1>0, <1>8, <2>3, <2>4, <2>6, <2>9, <2>10, <2>11
<1>13. CutAt(f, rs, at, n, k)
  BY <1>4, <1>5, <1>8, <1>10, <1>11, <1>12 DEF CutAt, Parsed
<1> QED
  BY <1>4, <1>13

\* Record r lies behind the records rs.
Behind(f, rs, at, r) ==
    /\ EndOf(rs, at) + r.size <= Len(f) + 1
    /\ \A i \in 1 .. r.size : f[EndOf(rs, at) + i - 1] = Cell(r, i)

Longer(f, rs, at, r, at2) ==
    /\ Laid(f, Append(rs, r), at2)
    /\ EndOf(Append(rs, r), at2) = EndOf(rs, at) + r.size
    /\ \A j \in 1 .. Len(rs) + 1 : at2[j] = at[j]

\* One more record laid out behind the others.
LEMMA LaidLonger ==
    ASSUME NEW f, File(f), NEW rs \in Seq(Record), NEW at \in [Nat -> Nat], Laid(f, rs, at),
           NEW r \in Record, Behind(f, rs, at, r)
    PROVE  \E at2 \in [Nat -> Nat] : Longer(f, rs, at, r, at2)
<1> DEFINE n == Len(rs)
           e == EndOf(rs, at)
           at2 == [at EXCEPT ![n + 2] = e + r.size]
           s == Append(rs, r)
<1>0. n \in Nat /\ Len(f) \in Nat /\ r.size \in Nat
  BY LenProperties, RecordSizes DEF File
<1>1. e \in Nat /\ e = at[n + 1]
  BY <1>0 DEF EndOf
<1>2. e + r.size \in Nat
  <2>1. \A a, b \in Nat : a + b \in Nat
    OBVIOUS
  <2> HIDE DEF e
  <2> QED
    BY <1>0, <1>1, <2>1
<1>3. at2 \in [Nat -> Nat] /\ at2[n + 2] = e + r.size /\ \A j \in 1 .. n + 1 : at2[j] = at[j]
  <2>1. \A m \in Nat : m + 2 \in Nat /\ \A j \in 1 .. m + 1 : j # m + 2 /\ j \in Nat
    OBVIOUS
  <2> HIDE DEF e, n
  <2> QED
    BY <1>0, <1>2, <2>1
<1>4. s \in Seq(Record) /\ Len(s) = n + 1 /\ s[n + 1] = r /\ \A j \in 1 .. n : s[j] = rs[j]
  OBVIOUS
<1> HIDE DEF at2, s, n, e
<1>5. at2[1] = 1
  <2>1. 1 \in 1 .. n + 1
    BY <1>0
  <2> QED
    BY <1>3, <2>1 DEF Laid
<1>6. ASSUME NEW j \in 1 .. n + 1
      PROVE  /\ at2[j + 1] = at2[j] + s[j].size
             /\ at2[j + 1] <= Len(f) + 1
             /\ \A i \in 1 .. s[j].size : f[at2[j] + i - 1] = Cell(s[j], i)
  <2>1. CASE j \in 1 .. n
    <3>1. j + 1 \in 1 .. n + 1
      BY <1>0, <2>1
    <3>2. at2[j] = at[j] /\ at2[j + 1] = at[j + 1] /\ s[j] = rs[j]
      BY <1>3, <1>4, <2>1, <3>1
    <3>3. /\ at[j + 1] = at[j] + rs[j].size
          /\ at[j + 1] <= Len(f) + 1
          /\ \A i \in 1 .. rs[j].size : f[at[j] + i - 1] = Cell(rs[j], i)
      BY <2>1 DEF Laid, n
    <3> QED
      BY <3>2, <3>3
  <2>2. CASE j = n + 1
    <3>1. j + 1 = n + 2 /\ n + 1 \in 1 .. n + 1
      BY <1>0, <2>2
    <3>2. at2[j] = e /\ at2[j + 1] = e + r.size /\ s[j] = r
      BY <1>1, <1>3, <1>4, <2>2, <3>1
    <3> QED
      BY <3>2 DEF e, Behind
  <2> QED
    BY <1>0, <2>1, <2>2
<1>7. Laid(f, s, at2)
  BY <1>4, <1>5, <1>6 DEF Laid
<1>8. EndOf(s, at2) = e + r.size
  <2>1. Len(s) + 1 = n + 2
    BY <1>0, <1>4
  <2> QED
    BY <1>3, <2>1 DEF EndOf
<1> QED
  BY <1>3, <1>7, <1>8 DEF s, n, e, Longer

\* The cells of a record that is laid out.
LEMMA LaidInside ==
    ASSUME NEW f, NEW rs \in Seq(Record), NEW at \in [Nat -> Nat], Laid(f, rs, at),
           NEW j \in 1 .. Len(rs)
    PROVE  /\ f[at[j]].rec = rs[j]
           /\ \A p \in Nat : at[j] < p /\ p < at[j + 1] => f[p].rec = rs[j] /\ f[p].part > 1
<1>1. at[j + 1] = at[j] + rs[j].size /\ \A i \in 1 .. rs[j].size : f[at[j] + i - 1] = Cell(rs[j], i)
  BY DEF Laid
<1>2. rs[j] \in Record /\ j \in Nat
  OBVIOUS
<1>3. rs[j].size \in Nat /\ rs[j].size > 0 /\ at[j] \in Nat
  BY <1>2, RecordSizes
<1>4. f[at[j]].rec = rs[j]
  <2>1. \A a, s \in Nat : s > 0 => 1 \in 1 .. s /\ a + 1 - 1 = a
    OBVIOUS
  <2>2. 1 \in 1 .. rs[j].size /\ at[j] + 1 - 1 = at[j]
    BY <1>3, <2>1
  <2>3. f[at[j] + 1 - 1] = Cell(rs[j], 1)
    BY <1>1, <2>2
  <2>4. f[at[j]] = Cell(rs[j], 1)
    BY <2>2, <2>3, Zenon
  <2>5. Cell(rs[j], 1).rec = rs[j]
    BY DEF Cell
  <2> QED
    BY <2>4, <2>5, Zenon
<1>5. ASSUME NEW p \in Nat, at[j] < p, p < at[j + 1]
      PROVE  f[p].rec = rs[j] /\ f[p].part > 1
  <2>1. PICK i \in Nat : i = p - at[j] + 1 /\ i > 1
    BY <1>3, <1>5, SMTT(30)
  <2>2. at[j + 1] \in Nat
    BY <1>2, SMTT(30)
  <2> DEFINE a == at[j]
             s == rs[j].size
             b == at[j + 1]
  <2>3. b = a + s /\ a \in Nat /\ s \in Nat /\ b \in Nat /\ a < p /\ p < b /\ i = p - a + 1
    BY <1>1, <1>3, <1>5, <2>1, <2>2
  <2>4. i \in 1 .. rs[j].size /\ at[j] + i - 1 = p
    <3> HIDE DEF a, s, b
    <3>1. i <= s /\ a + i - 1 = p
      BY <2>3
    <3>2. i \in 1 .. s
      BY <2>1, <2>3, <3>1
    <3> QED
      BY <3>1, <3>2 DEF a, s
  <2>5. f[at[j] + i - 1] = Cell(rs[j], i)
    BY <1>1, <2>4
  <2>6. f[p] = Cell(rs[j], i)
    BY <2>4, <2>5, Zenon
  <2>7. Cell(rs[j], i).rec = rs[j] /\ Cell(rs[j], i).part = i
    BY DEF Cell
  <2>8. f[p].rec = rs[j] /\ f[p].part = i
    BY <2>6, <2>7, Zenon
  <2> QED
    BY <2>1, <2>8
<1> QED
  BY <1>4, <1>5

-----------------------------------------------------------------------------
(* The invariant holds at the start and is kept by each action. *)

\* An empty file parses to nothing.
LEMMA LogStarts == Init => LogInv
<1> SUFFICES ASSUME Init
             PROVE  LogInv
  OBVIOUS
<1> DEFINE at == [n \in Nat |-> 1]
<1>1. at \in [Nat -> Nat] /\ <<>> \in Seq(Record) /\ Len(<<>>) = 0 /\ EndOf(<<>>, at) = 1
  BY DEF EndOf
<1>2. file = <<>> /\ state = "up" /\ writing = Idle /\ pos = 1 /\ acked = <<>> /\ safe = 0 /\ synced = 0
  BY DEF Init
<1>3. Laid(<<>>, <<>>, at)
  BY DEF Laid
<1>4. ~ Intact(<<>>, 1) /\ ~ Corrupt(<<>>, 1)
  BY DEF Intact, Corrupt
<1>5. writing.done = 0 /\ StartPos = 1
  BY <1>2 DEF Idle, StartPos
<1>6. 1 .. 0 = {} /\ DOMAIN <<>> = {} /\ at[0 + 1] = 1
  OBVIOUS
<1> HIDE DEF at
<1>7. Going(<<>>, at)
  BY <1>1, <1>2, <1>4, <1>5, <1>6 DEF Going
<1>8. Accounts(<<>>, at)
  BY <1>1, <1>2, <1>3, <1>4, <1>6, <1>7, short = FALSE DEF Accounts, Parsed, Init
<1>9. LogTypes
  <2>1. kind \in Kinds /\ written = 0 /\ tears = 0 /\ short = FALSE /\ doubt = <<>>
    BY DEF Init
  <2>2. MaxTears[kind] \in Nat /\ MaxRecords \in Nat
    BY <2>1, LogFileAssumption
  <2>3. 0 \in 0 .. MaxRecords /\ 0 \in 0 .. MaxTears[kind] /\ 0 \in 0 .. 0 /\ 1 \in 1 .. 0 + 1
    BY <2>2
  <2>4. Len(<<>>) = 0 /\ <<>> \in Seq(Cells) /\ <<>> \in Seq(Record)
    OBVIOUS
  <2> QED
    BY <1>2, <2>1, <2>3, <2>4, Zenon DEF LogTypes
<1>10. Fresh /\ (kind = "manifest" => ~ short)
  BY <1>2, <1>6 DEF Fresh, Init
<1> QED
  BY <1>1, <1>8, <1>9, <1>10 DEF LogInv

\* A new record is nowhere in the file yet.
LEMMA PutStartKeeps == LogInv /\ PutStart => LogInv'
<1> SUFFICES ASSUME LogInv, PutStart
             PROVE  LogInv'
  OBVIOUS
<1>1. PICK n \in Sizes : writing' = [rec |-> [id |-> written + 1, size |-> n], done |-> 0]
  BY DEF PutStart
<1>2. /\ kind' = kind /\ file' = file /\ synced' = synced /\ state' = state /\ pos' = pos
      /\ tears' = tears /\ short' = short /\ acked' = acked /\ safe' = safe /\ doubt' = doubt
      /\ written' = written + 1 /\ written < MaxRecords /\ writing = Idle /\ state = "up"
  BY DEF PutStart, history
<1> DEFINE r == [id |-> written + 1, size |-> n]
<1>3. LogTypes /\ Fresh /\ (kind = "manifest" => ~ short)
  BY DEF LogInv
<1>4. written \in Nat /\ MaxRecords \in Nat /\ written + 1 \in 1 .. MaxRecords /\ written + 1 \in 0 .. MaxRecords
  BY <1>2, <1>3, LogFileAssumption DEF LogTypes
<1>5. r \in Record /\ r.id = written + 1 /\ r.size = n
  BY <1>4 DEF Record
<1> HIDE DEF r
<1>6. writing' = [rec |-> r, done |-> 0] /\ r # NoRecord /\ n \in Nat /\ n > 0
  BY <1>1, <1>5, RecordSizes DEF r
<1>7. writing'.rec = r /\ writing'.done = 0 /\ writing' # Idle /\ writing.done = 0
  BY <1>2, <1>6 DEF Idle
<1>8. LogTypes'
  <2>1. writing' \in [rec : Record, done : Nat] /\ writing'.done <= writing'.rec.size /\ writing'.rec.id = written'
    BY <1>2, <1>5, <1>6, <1>7
  <2> QED
    BY <1>2, <1>3, <1>4, <2>1 DEF LogTypes
<1>9. Fresh'
  <2>1. ASSUME NEW p \in DOMAIN file
        PROVE  file[p].rec.id <= written + 1 /\ file[p].rec # r
    <3>1. file[p] \in Cells
      BY <1>3 DEF LogTypes
    <3>2. file[p].rec \in Record
      BY <3>1, RecordSizes
    <3>3. file[p].rec.id \in Nat
      BY <3>2, <1>4, RecordSizes
    <3>4. file[p].rec.id <= written
      BY <1>3 DEF Fresh
    <3>5. \A i \in Nat : i <= written => i <= written + 1 /\ i # written + 1
      BY <1>4
    <3>6. file[p].rec.id <= written + 1 /\ file[p].rec.id # written + 1
      BY <3>3, <3>4, <3>5
    <3> QED
      BY <3>6, <1>5
  <2> QED
    BY <1>2, <1>7, <2>1 DEF Fresh
<1>10. PICK rs \in Seq(Record), at \in [Nat -> Nat] : Accounts(rs, at)
  BY DEF LogInv
<1>11. StartPos = pos /\ StartPos' = pos
  BY <1>2, <1>3, <1>7 DEF StartPos, LogTypes
<1>12. Going(rs, at) => Going(rs, at)'
  <2> SUFFICES ASSUME Going(rs, at)
               PROVE  Going(rs, at)'
    OBVIOUS
  <2>1. 1 .. 0 = {} /\ ~ (writing' # Idle /\ writing'.done = writing'.rec.size) /\ ~ (writing # Idle)
    BY <1>2, <1>5, <1>6, <1>7, SMTT(30)
  <2> QED
    BY <1>2, <1>7, <1>11, <2>1 DEF Going
<1>13. Broken(EndOf(acked, at)) => Broken(EndOf(acked, at))'
  BY <1>2, <1>11 DEF Broken
<1>14. Accounts(rs, at)'
  BY <1>2, <1>10, <1>12, <1>13 DEF Accounts
<1> QED
  BY <1>2, <1>3, <1>8, <1>9, <1>10, <1>14 DEF LogInv

\* A cell of the record being written is written where the last one ended.
Written1 ==
    /\ kind' = kind /\ synced' = synced /\ state' = state /\ written' = written
    /\ tears' = tears /\ short' = short /\ acked' = acked /\ safe' = safe /\ doubt' = doubt
    /\ pos' = pos + 1 /\ writing'.rec = writing.rec /\ writing'.done = writing.done + 1
    /\ writing # Idle /\ writing' # Idle /\ state = "up" /\ doubt = <<>>
    /\ writing.rec \in Record /\ writing.done \in Nat /\ writing.done < writing.rec.size
    /\ writing' \in [rec : Record, done : Nat] /\ writing.rec.id = written
    /\ File(file) /\ File(file') /\ Len(file) <= Len(file') /\ pos \in 1 .. Len(file')
    /\ pos \in Nat /\ Len(file) \in Nat /\ Len(file') \in Nat /\ pos <= Len(file) + 1
    /\ file'[pos] = Cell(writing.rec, writing.done + 1)
    /\ \A p \in 1 .. Len(file') : p # pos => p \in 1 .. Len(file) /\ file'[p] = file[p]
    /\ Len(file) = pos - 1 => Len(file') = pos

\* A cell goes behind the file's, or over an older one, and touches no other.
LEMMA WriteCellWrites ==
    LogInv /\ WriteCell => Written1
<1> SUFFICES ASSUME LogInv, WriteCell
             PROVE  Written1
  OBVIOUS
<1> DEFINE r == writing.rec
           d == writing.done
           cell == Cell(r, d + 1)
<1>1. LogTypes
  BY DEF LogInv
<1>2. /\ kind' = kind /\ synced' = synced /\ state' = state /\ written' = written
      /\ tears' = tears /\ short' = short /\ acked' = acked /\ safe' = safe /\ doubt' = doubt
      /\ pos' = pos + 1 /\ writing' = [writing EXCEPT !.done = @ + 1]
      /\ writing # Idle /\ d < r.size
  BY DEF WriteCell, history
<1>3. file' = IF pos <= Len(file) THEN [file EXCEPT ![pos] = cell] ELSE Append(file, cell)
  BY DEF WriteCell
<1>4. writing \in [rec : Record, done : Nat] /\ state = "up" /\ writing.rec.id = written
  BY <1>1, <1>2 DEF LogTypes
<1>5. r \in Record /\ d \in Nat /\ doubt = <<>>
  BY <1>1, <1>4 DEF LogTypes
<1>6. r.size \in Nat /\ r # NoRecord /\ d + 1 \in Nat \ {0} /\ d + 1 <= r.size
  BY <1>2, <1>5, RecordSizes
<1>7. cell \in Cells /\ cell.rec = r
  BY <1>5, <1>6 DEF Cell, Cells
<1>8. writing' \in [rec : Record, done : Nat] /\ writing'.rec = r /\ writing'.done = d + 1 /\ writing' # Idle
  <2>1. writing' \in [rec : Record, done : Nat] /\ writing'.rec = r /\ writing'.done = d + 1
    BY <1>2, <1>4, <1>6
  <2> QED
    BY <1>6, <2>1 DEF Idle
<1>9. file \in Seq(Cells) /\ Len(file) \in Nat /\ pos \in 1 .. Len(file) + 1 /\ pos \in Nat
  BY <1>1 DEF LogTypes
<1> HIDE DEF cell
<1>10. CASE pos <= Len(file)
  <2>1. file' = [file EXCEPT ![pos] = cell] /\ pos \in 1 .. Len(file)
    BY <1>3, <1>9, <1>10
  <2>2. /\ file' \in Seq(Cells) /\ Len(file') = Len(file)
        /\ \A p \in 1 .. Len(file) : file'[p] = IF p = pos THEN cell ELSE file[p]
    BY <1>7, <1>9, <2>1, ExceptSeq
  <2>3. Len(file) # pos - 1
    BY <1>9, <1>10
  <2> QED
    BY <1>2, <1>4, <1>5, <1>8, <1>9, <2>1, <2>2, <2>3 DEF Written1, cell, File
<1>11. CASE ~ (pos <= Len(file))
  <2>1. file' = Append(file, cell) /\ pos = Len(file) + 1
    BY <1>3, <1>9, <1>11
  <2>2. /\ file' \in Seq(Cells) /\ Len(file') = Len(file) + 1 /\ file'[Len(file) + 1] = cell
        /\ \A p \in 1 .. Len(file) : file'[p] = file[p]
    BY <1>7, <1>9, <2>1
  <2>3. \A p \in 1 .. Len(file') : p # pos => p \in 1 .. Len(file)
    BY <1>9, <2>1, <2>2
  <2>4. pos \in 1 .. Len(file') /\ Len(file) <= Len(file') /\ Len(file') = pos /\ Len(file') \in Nat
    BY <1>9, <2>1, <2>2
  <2> QED
    BY <1>2, <1>4, <1>5, <1>8, <1>9, <2>1, <2>2, <2>3, <2>4 DEF Written1, cell, File
<1> QED
  BY <1>10, <1>11

\* It keeps the types, and where its record begins.
LEMMA WriteCellTypes ==
    LogInv /\ Written1 => LogTypes' /\ Fresh' /\ StartPos' = StartPos /\ StartPos <= pos /\ StartPos \in Int
<1> SUFFICES ASSUME LogInv, Written1
             PROVE  LogTypes' /\ Fresh' /\ StartPos' = StartPos /\ StartPos <= pos /\ StartPos \in Int
  OBVIOUS
<1>1. LogTypes /\ Fresh
  BY DEF LogInv
<1>2. StartPos' = StartPos /\ StartPos <= pos /\ StartPos \in Int
  BY DEF StartPos, Written1
<1>3. LogTypes'
  <2>1. writing.rec.size \in Nat
    BY RecordSizes DEF Written1
  <2>2. writing'.done <= writing'.rec.size /\ pos' \in 1 .. Len(file') + 1
    BY <2>1 DEF Written1
  <2>3. synced \in 0 .. Len(file')
    <3>1. synced \in 0 .. Len(file) /\ Len(file) \in Nat /\ Len(file') \in Nat /\ Len(file) <= Len(file')
      BY <1>1 DEF LogTypes, Written1
    <3> QED
      BY <3>1
  <2>4. file' \in Seq(Cells)
    BY DEF Written1, File
  <2> QED
    BY <1>1, <2>2, <2>3, <2>4 DEF LogTypes, Written1
<1>4. Fresh'
  <2> SUFFICES ASSUME NEW p \in DOMAIN file'
               PROVE  /\ file'[p].rec.id <= written
                      /\ p < StartPos \/ pos + 1 <= p => file'[p].rec # writing.rec
    BY <1>2 DEF Fresh, Written1
  <2>1. p \in 1 .. Len(file')
    BY DEF Written1, File
  <2>2. CASE p = pos
    <3>1. file'[p].rec = writing.rec
      BY <2>2 DEF Written1, Cell
    <3>2. written \in Nat /\ writing.rec.id = written
      BY <1>1 DEF LogTypes, Written1
    <3>3. ~ (p < StartPos \/ pos + 1 <= p)
      BY <1>2, <2>2 DEF Written1
    <3> QED
      BY <3>1, <3>2, <3>3
  <2>3. CASE p # pos
    <3>1. p \in DOMAIN file /\ file'[p] = file[p] /\ p \in Nat /\ pos \in Nat /\ writing # Idle
      BY <2>1, <2>3 DEF Written1, File
    <3>2. pos + 1 <= p => pos <= p
      BY <3>1
    <3> QED
      BY <1>1, <3>1, <3>2 DEF Fresh
  <2> QED
    BY <2>2, <2>3
<1> QED
  BY <1>2, <1>3, <1>4

\* While no write was short, the cell belongs to the record behind the
\* acknowledged ones; with its last cell the file parses to one record more.
LEMMA WriteCellGoing ==
    ASSUME LogInv, Written1, ~ short,
           NEW rs \in Seq(Record), NEW at \in [Nat -> Nat], Accounts(rs, at)
    PROVE  \E rs2 \in Seq(Record), at2 \in [Nat -> Nat] : Accounts(rs2, at2)'
<1> DEFINE r == writing.rec
           d == writing.done
           sz == r.size
           e == EndOf(acked, at)
           n == Len(acked)
<1>1. LogTypes /\ Fresh
  BY DEF LogInv
<1>2. acked \in Seq(Record) /\ n \in Nat /\ safe \in 0 .. n /\ e = at[n + 1]
  BY <1>1, LenProperties DEF LogTypes, EndOf
<1>3. /\ r \in Record /\ d \in Nat /\ d < sz /\ sz \in Nat /\ state = "up" /\ state' = "up"
      /\ ~ short' /\ acked' = acked /\ writing' # Idle /\ writing # Idle
  BY RecordSizes DEF Written1
<1>4. Going(rs, at) /\ Parsed(file, rs, at) /\ at[safe + 1] <= synced + 1
  BY <1>3 DEF Accounts
<1>5. rs = acked
  <2>1. d # sz
    BY <1>3
  <2> QED
    BY <1>3, <1>4, <2>1 DEF Going
<1>6. Laid(file, acked, at) /\ StartPos' = StartPos /\ StartPos = e
  BY <1>3, <1>4, <1>5, WriteCellTypes DEF Parsed, Going
<1>7. e \in Nat /\ e > 0 /\ pos = e + d /\ pos \in Nat
  <2>1. n + 1 \in 1 .. n + 1 /\ File(file)
    BY <1>2 DEF Written1
  <2>2. at[n + 1] \in Pos
    BY <1>2, <1>6, <2>1, LaidGrows, Zenon
  <2>3. e \in Nat /\ e > 0 /\ pos \in Nat
    BY <1>2, <2>2, SMTT(30) DEF Pos, Written1
  <2> HIDE DEF e
  <2>4. d \in Nat /\ e = pos - d
    BY <1>3, <1>6 DEF StartPos
  <2> HIDE DEF d
  <2> QED
    BY <2>3, <2>4
<1>16. writing.rec = r /\ writing.done = d /\ r.size = sz
  OBVIOUS
<1> HIDE DEF e, n, d, r, sz
<1>8. /\ File(file) /\ File(file') /\ pos \in 1 .. Len(file') /\ Len(file') \in Nat /\ DOMAIN file' = 1 .. Len(file')
      /\ DOMAIN file = 1 .. Len(file)
      /\ file'[pos] = Cell(r, d + 1)
      /\ \A p \in 1 .. Len(file') : p # pos => p \in 1 .. Len(file) /\ file'[p] = file[p]
  BY DEF Written1, File, r, d
<1>9. Laid(file', acked, at)
  <2>1. e <= Len(file') + 1
    BY <1>3, <1>7, <1>8
  <2>2. \A p \in 1 .. e - 1 : p \in 1 .. Len(file') /\ p # pos
    <3> TAKE p \in 1 .. e - 1
    <3>1. p \in Nat /\ p >= 1 /\ p < pos /\ pos <= Len(file')
      BY <1>3, <1>7, <1>8
    <3>4. \A a, b, l \in Nat : a < b /\ b <= l => a # b /\ a <= l
      OBVIOUS
    <3>2. p # pos /\ p <= Len(file') /\ Len(file') \in Nat
      BY <1>7, <1>8, <3>1, <3>4, Zenon
    <3>3. p \in 1 .. Len(file')
      BY <3>1, <3>2
    <3> QED
      BY <3>2, <3>3
  <2>3. \A p \in 1 .. e - 1 : file'[p] = file[p]
    BY <1>8, <2>2
  <2> QED
    BY <1>2, <1>6, <1>8, <2>1, <2>3, LaidKept DEF e
<1>10. \A i \in 1 .. d + 1 : file'[e + i - 1] = Cell(r, i)
  <2> TAKE i \in 1 .. d + 1
  <2>1. CASE i = d + 1
    <3>1. e + i - 1 = pos
      BY <1>3, <1>7, <2>1
    <3>2. file'[e + i - 1] = file'[pos]
      BY <3>1, Zenon
    <3> QED
      BY <1>8, <2>1, <3>2, Zenon
  <2>2. CASE i \in 1 .. d
    <3>1. e + i - 1 \in 1 .. Len(file') /\ e + i - 1 # pos
      BY <1>3, <1>7, <1>8, <2>2
    <3>2. file[e + i - 1] = Cell(r, i)
      BY <1>4, <1>16, <2>2 DEF Going, e
    <3> QED
      BY <1>8, <3>1, <3>2
  <2> QED
    BY <1>3, <2>1, <2>2
<1>11. kind = "manifest" => \A p \in DOMAIN file' : pos + 1 <= p /\ e < p => file'[p].part > 1
  <2> SUFFICES ASSUME kind = "manifest", NEW p \in DOMAIN file', pos + 1 <= p
               PROVE  file'[p].part > 1
    OBVIOUS
  <2>0. p \in 1 .. Len(file')
    BY <1>8
  <2>1. p # pos /\ pos <= p /\ e < p
    <3>1. p \in Nat
      BY <1>8, <2>0
    <3>4. \A a, b \in Nat : a + 1 <= b => b # a /\ a <= b
      OBVIOUS
    <3>2. p # pos /\ pos <= p
      BY <1>7, <3>1, <3>4, Zenon
    <3>3. e < p
      BY <1>3, <1>7, <3>1
    <3> QED
      BY <3>2, <3>3
  <2>2. p \in DOMAIN file /\ file'[p] = file[p]
    BY <1>8, <2>0, <2>1
  <2> QED
    BY <1>4, <2>1, <2>2 DEF Going, e
<1>12. /\ kind' = kind /\ tears' = tears /\ pos' = pos + 1 /\ writing'.rec = r /\ writing'.done = d + 1
       /\ Len(file) = pos - 1 => Len(file') = pos' - 1
       /\ safe' = safe /\ synced' = synced
  <2>1. pos + 1 - 1 = pos
    BY <1>7
  <2> QED
    BY <2>1 DEF Written1, r, d
<1>13. /\ kind' # "manifest" => Len(file') = pos' - 1
       /\ kind' = "manifest" /\ tears' = 0 => Len(file') = pos' - 1
  BY <1>3, <1>4, <1>12 DEF Accounts, Going
<1>14. ASSUME NEW rs2 \in Seq(Record), NEW at2 \in [Nat -> Nat],
              Parsed(file', rs2, at2), \A j \in 1 .. n + 1 : at2[j] = at[j],
              rs2 = IF d + 1 = sz THEN Append(acked, r) ELSE acked
       PROVE  Accounts(rs2, at2)'
  <2>1. EndOf(acked, at2) = e
    <3>1. n + 1 \in 1 .. n + 1
      BY <1>2
    <3> QED
      BY <1>14, <3>1 DEF EndOf, e, n
  <2>2. at2[safe + 1] = at[safe + 1]
    <3>1. safe + 1 \in 1 .. n + 1
      BY <1>2
    <3> QED
      BY <1>14, <3>1
  <2>3. writing'.done # 0
    BY <1>3, <1>12
  <2>4. Going(rs2, at2)'
    <3>1. EndOf(acked', at2) = StartPos'
      BY <1>3, <1>6, <2>1
    <3>2. \A i \in 1 .. writing'.done : file'[EndOf(acked', at2) + i - 1] = Cell(writing'.rec, i)
      BY <1>3, <1>10, <1>12, <2>1
    <3>3. rs2 = IF writing' # Idle /\ writing'.done = writing'.rec.size
                THEN Append(acked', writing'.rec) ELSE acked'
      BY <1>3, <1>12, <1>14, <1>16
    <3>4. kind' = "manifest" => \A p \in DOMAIN file' : pos' <= p /\ EndOf(acked', at2) < p => file'[p].part > 1
      BY <1>3, <1>11, <1>12, <2>1
    <3> QED
      BY <1>13, <2>3, <3>1, <3>2, <3>3, <3>4 DEF Going
  <2> QED
    BY <1>3, <1>4, <1>12, <1>13, <1>14, <2>2, <2>4 DEF Accounts
<1>15. CASE d + 1 = sz
  <2>1. e + sz = pos + 1
    BY <1>3, <1>7, <1>15
  <2>8. EndOf(acked, at) + r.size <= Len(file') + 1
    <3>1. e + sz <= Len(file') + 1
      BY <1>7, <1>8, <2>1
    <3> QED
      BY <1>16, <3>1 DEF e
  <2>2. \A i \in 1 .. r.size : file'[EndOf(acked, at) + i - 1] = Cell(r, i)
    BY <1>10, <1>15, <1>16 DEF e
  <2>3. PICK at2 \in [Nat -> Nat] : Longer(file', acked, at, r, at2)
    <3>1. acked \in Seq(Record) /\ r \in Record /\ File(file') /\ Laid(file', acked, at)
      BY <1>2, <1>3, <1>8, <1>9, Zenon
    <3>2. Behind(file', acked, at, r)
      BY <2>8, <2>2 DEF Behind
    <3> QED
      BY <3>1, <3>2, LaidLonger, Zenon
  <2>4. EndOf(Append(acked, r), at2) = pos + 1
    BY <1>16, <2>1, <2>3 DEF e, Longer
  <2>5. ~ Intact(file', pos + 1)
    <3> SUFFICES ASSUME Intact(file', pos + 1)
                 PROVE  FALSE
      OBVIOUS
    <3>1. pos + 1 <= Len(file') /\ file'[pos + 1].part = 1
      BY DEF Intact
    <3>2. pos + 1 \in DOMAIN file' /\ e < pos + 1 /\ pos + 1 <= pos + 1
      <4> HIDE DEF e
      <4>1. pos + 1 \in 1 .. Len(file')
        <5>1. \A a, l \in Nat : a + 1 <= l => a + 1 \in 1 .. l
          OBVIOUS
        <5> QED
          BY <1>7, <1>8, <3>1, <5>1, Zenon
      <4>2. \A x, y, z \in Nat : x + y = z => x < z + 1 /\ z + 1 <= z + 1
        OBVIOUS
      <4>3. e < pos + 1 /\ pos + 1 <= pos + 1
        BY <1>3, <1>7, <4>2, Zenon
      <4> QED
        BY <1>8, <4>1, <4>3, Zenon
    <3>3. kind # "manifest"
      <4>1. ~ (file'[pos + 1].part > 1)
        BY <3>1
      <4> QED
        BY <1>11, <3>2, <4>1
    <3> QED
      BY <1>7, <1>8, <1>12, <1>13, <3>1, <3>3
  <2>6. Append(acked, r) \in Seq(Record) /\ Parsed(file', Append(acked, r), at2)
    <3>1. Append(acked, r) \in Seq(Record)
      BY <1>2, <1>3
    <3>2. Parsed(file', Append(acked, r), at2)
      BY <2>3, <2>4, <2>5, Zenon DEF Parsed, Longer
    <3> QED
      BY <3>1, <3>2
  <2>9. PICK s \in Seq(Record) : s = Append(acked, r)
    BY <2>6
  <2>7. Accounts(s, at2)'
    <3>1. Parsed(file', s, at2) /\ \A j \in 1 .. n + 1 : at2[j] = at[j]
      BY <2>3, <2>6, <2>9 DEF n, Longer
    <3> QED
      BY <1>14, <1>15, <2>9, <3>1
  <2> QED
    BY <2>7
<1>17. CASE d + 1 # sz
  <2>1. ~ Intact(file', e)
    <3> SUFFICES ASSUME Intact(file', e)
                 PROVE  FALSE
      OBVIOUS
    <3>1. file'[e] = Cell(r, 1)
      <4>1. 1 \in 1 .. d + 1 /\ e + 1 - 1 = e
        BY <1>3, <1>7
      <4>2. file'[e + 1 - 1] = Cell(r, 1)
        BY <1>10, <4>1
      <4> QED
        BY <4>1, <4>2, Zenon
    <3>2. file'[e].rec = r
      BY <3>1 DEF Cell
    <3>3. e + sz - 1 <= Len(file') /\ \A i \in 1 .. sz : file'[e + i - 1] = Cell(r, i)
      BY <1>16, <3>2 DEF Intact
    <3>4. /\ d + 2 \in 1 .. sz /\ e + (d + 2) - 1 = pos + 1 /\ pos + 1 # pos
          /\ pos + 1 \in 1 .. Len(file')
      BY <1>3, <1>7, <1>8, <1>17, <3>3
    <3>5. file'[e + (d + 2) - 1] = Cell(r, d + 2)
      BY <3>3, <3>4
    <3>6. file'[pos + 1] = Cell(r, d + 2)
      BY <3>4, <3>5, Zenon
    <3>7. pos + 1 \in DOMAIN file /\ file'[pos + 1] = file[pos + 1] /\ pos <= pos + 1
      <4>1. pos + 1 \in 1 .. Len(file) /\ file'[pos + 1] = file[pos + 1]
        BY <1>8, <3>4
      <4>2. pos <= pos + 1
        BY <1>7
      <4> QED
        BY <1>8, <4>1, <4>2
    <3>8. file[pos + 1].rec = r
      BY <3>6, <3>7, SMTT(30) DEF Cell
    <3> QED
      BY <1>1, <1>3, <1>16, <3>7, <3>8 DEF Fresh
  <2>2. Parsed(file', acked, at)
    BY <1>9, <2>1 DEF Parsed, e
  <2>3. PICK s \in Seq(Record) : s = acked
    BY <1>2
  <2>4. Accounts(s, at)'
    BY <1>14, <1>17, <2>2, <2>3
  <2> QED
    BY <2>4
<1> QED
  BY <1>15, <1>17

\* Behind a record that a short write has left without its end, the file parses
\* no further.
LEMMA BrokenStops ==
    ASSUME NEW f, File(f), NEW e \in Nat, e \in DOMAIN f, NEW q \in e + 1 .. e + f[e].rec.size - 1,
           q = Len(f) + 1 \/ (q <= Len(f) /\ f[q].rec # f[e].rec)
    PROVE  ~ Intact(f, e)
<1> DEFINE s == f[e].rec.size
<1>1. f[e] \in Cells /\ Len(f) \in Nat
  BY LenProperties DEF File
<1>2. f[e].rec \in Record
  BY <1>1, RecordSizes
<1>3. s \in Nat
  BY <1>2, RecordSizes
<1>4. q \in e + 1 .. e + s - 1
  OBVIOUS
<1>5. Intact(f, e) => e + s - 1 <= Len(f) /\ \A i \in 1 .. s : f[e + i - 1] = Cell(f[e].rec, i)
  BY DEF Intact
<1> HIDE DEF s
<1>6. q \in Nat /\ q - e + 1 \in 1 .. s /\ e + (q - e + 1) - 1 = q /\ q <= e + s - 1
  BY <1>3, <1>4
<1>7. SUFFICES ASSUME Intact(f, e)
               PROVE  FALSE
  OBVIOUS
<1>8. q # Len(f) + 1
  BY <1>1, <1>3, <1>5, <1>6, <1>7
<1>9. f[e + (q - e + 1) - 1] = Cell(f[e].rec, q - e + 1)
  BY <1>5, <1>6, <1>7
<1>10. f[q] = Cell(f[e].rec, q - e + 1)
  BY <1>6, <1>9, Zenon
<1>11. f[q].rec = f[e].rec
  BY <1>10 DEF Cell
<1> QED
  BY <1>8, <1>11

\* After a short write the cells fall behind the record that lacks its end.
LEMMA WriteCellShort ==
    ASSUME LogInv, Written1, short,
           NEW rs \in Seq(Record), NEW at \in [Nat -> Nat], Accounts(rs, at)
    PROVE  Accounts(rs, at)'
<1> DEFINE r == writing.rec
<1>1. LogTypes /\ Fresh /\ kind # "manifest"
  BY DEF LogInv
<1>2. /\ state = "up" /\ state' = "up" /\ short' /\ acked' = acked /\ kind' = kind /\ safe' = safe
      /\ synced' = synced /\ pos' = pos + 1 /\ pos \in Nat /\ writing # Idle
      /\ File(file) /\ File(file') /\ Len(file) \in Nat
      /\ \A p \in 1 .. Len(file') : p # pos => p \in 1 .. Len(file) /\ file'[p] = file[p]
  BY DEF Written1
<1>0. PICK e \in Nat : e = EndOf(acked, at)
  <2>1. acked \in Seq(Record) /\ Len(acked) + 1 \in Nat
    BY <1>1, LenProperties DEF LogTypes
  <2> QED
    BY <2>1 DEF EndOf
<1>3. rs = acked /\ Broken(e) /\ Len(file) = pos - 1 /\ Parsed(file, rs, at) /\ at[safe + 1] <= synced + 1
  BY <1>0, <1>1, <1>2 DEF Accounts
<1>4. Len(file') = pos /\ file'[pos].rec = r /\ acked \in Seq(Record)
  BY <1>1, <1>3 DEF Written1, Cell, LogTypes
<1>5. StartPos' = StartPos /\ StartPos <= pos /\ StartPos \in Int
  BY WriteCellTypes
<1>6. PICK q : /\ q \in e + 1 .. e + file[e].rec.size - 1
               /\ q = Len(file) + 1 \/ (q <= Len(file) /\ file[q].rec # file[e].rec)
  BY <1>3 DEF Broken
<1>7. e \in DOMAIN file /\ e < StartPos /\ file[e].part = 1
  BY <1>3 DEF Broken
<1>8. DOMAIN file = 1 .. Len(file) /\ DOMAIN file' = 1 .. Len(file')
  BY <1>2 DEF File
<1>9. e \in Nat /\ e >= 1 /\ e < pos
  <2>1. e \in 1 .. Len(file)
    BY <1>7, <1>8
  <2> QED
    BY <1>2, <1>3, <2>1
<1>10. e \in 1 .. Len(file')
  BY <1>2, <1>4, <1>9
<1>11. file'[e] = file[e] /\ file[e].rec # r
  <2>1. file'[e] = file[e]
    BY <1>2, <1>9, <1>10
  <2> QED
    BY <1>1, <1>2, <1>7, <2>1 DEF Fresh
<1>12. file[e].rec.size \in Nat
  <2>1. file[e] \in Cells
    BY <1>2, <1>7 DEF File
  <2>2. file[e].rec \in Record
    BY <2>1, RecordSizes
  <2> QED
    BY <2>2, RecordSizes
<1>13. q \in Nat /\ q > e
  <2> DEFINE s == file[e].rec.size
  <2>1. q \in e + 1 .. e + s - 1 /\ s \in Nat
    BY <1>6, <1>12
  <2> HIDE DEF s
  <2>2. \A l, h \in Int : \A b \in l .. h : b \in Int /\ b >= l
    OBVIOUS
  <2>3. e + 1 \in Int /\ e + s - 1 \in Int
    BY <1>9, <2>1
  <2>4. q \in Int /\ q >= e + 1
    BY <2>1, <2>2, <2>3, Zenon
  <2>5. \A a \in Nat, b \in Int : b >= a + 1 => b \in Nat /\ b > a
    OBVIOUS
  <2> QED
    BY <1>9, <2>4, <2>5, Zenon
<1>14. q <= Len(file') /\ file'[q].rec # file'[e].rec
  <2>1. CASE q = Len(file) + 1
    <3>1. q = pos
      BY <1>2, <1>3, <2>1
    <3>2. file'[q].rec = r /\ file'[e].rec # r
      BY <1>4, <1>11, <3>1
    <3>3. q <= Len(file')
      BY <1>2, <1>4, <3>1
    <3> QED
      BY <3>2, <3>3
  <2>2. CASE q # Len(file) + 1
    <3>1. q <= Len(file) /\ file[q].rec # file[e].rec
      BY <1>6, <2>2
    <3>2. q \in 1 .. Len(file') /\ q # pos
      BY <1>2, <1>3, <1>4, <1>9, <1>13, <3>1
    <3>3. file'[q] = file[q]
      BY <1>2, <3>2
    <3>4. q <= Len(file')
      BY <3>2
    <3> QED
      BY <1>11, <3>1, <3>3, <3>4
  <2> QED
    BY <2>1, <2>2
<1>15. Broken(e)'
  <2>1. q \in e + 1 .. e + file'[e].rec.size - 1
    BY <1>6, <1>11
  <2> QED
    BY <1>5, <1>7, <1>8, <1>10, <1>11, <1>14, <2>1 DEF Broken
<1>16. Parsed(file', rs, at)
  <2>1. Laid(file, rs, at) /\ EndOf(rs, at) = e
    BY <1>0, <1>3 DEF Parsed
  <2>2. \A p \in 1 .. e - 1 : file'[p] = file[p]
    <3> TAKE p \in 1 .. e - 1
    <3>1. p \in Nat /\ p >= 1 /\ p < e
      BY <1>9
    <3>2. p \in 1 .. Len(file') /\ p # pos
      BY <1>2, <1>4, <1>9, <3>1
    <3> QED
      BY <1>2, <3>2
  <2>3. e <= Len(file') + 1
    BY <1>2, <1>4, <1>9
  <2>4. Laid(file', rs, at)
    BY <1>2, <2>1, <2>2, <2>3, LaidKept
  <2>5. ~ Intact(file', e)
    <3>1. q \in e + 1 .. e + file'[e].rec.size - 1
      BY <1>6, <1>11
    <3>2. q = Len(file') + 1 \/ (q <= Len(file') /\ file'[q].rec # file'[e].rec)
      BY <1>14
    <3> QED
      BY <1>2, <1>8, <1>9, <1>10, <3>1, <3>2, BrokenStops
  <2> QED
    BY <2>1, <2>4, <2>5 DEF Parsed
<1>17. rs = acked' /\ Broken(EndOf(acked, at))'
  <2>1. e = EndOf(acked', at)
    BY <1>0, <1>2
  <2> QED
    BY <1>2, <1>3, <1>15, <2>1 DEF Broken
<1>18. Len(file') = pos' - 1
  BY <1>2, <1>4
<1> QED
  BY <1>2, <1>3, <1>16, <1>17, <1>18 DEF Accounts

\* Writing a cell keeps the invariant, after a short write too.
LEMMA WriteCellKeeps == LogInv /\ WriteCell => LogInv'
<1> SUFFICES ASSUME LogInv, WriteCell
             PROVE  LogInv'
  OBVIOUS
<1>1. Written1
  BY WriteCellWrites
<1>2. LogTypes' /\ Fresh'
  BY <1>1, WriteCellTypes
<1>3. kind' = "manifest" => ~ short'
  BY <1>1 DEF LogInv, Written1
<1>4. PICK rs \in Seq(Record), at \in [Nat -> Nat] : Accounts(rs, at)
  BY DEF LogInv
<1>5. \E rs2 \in Seq(Record), at2 \in [Nat -> Nat] : Accounts(rs2, at2)'
  <2>1. CASE short
    BY <1>1, <1>4, <2>1, WriteCellShort
  <2>2. CASE ~ short
    BY <1>1, <1>4, <2>2, WriteCellGoing
  <2> QED
    BY <2>1, <2>2
<1> QED
  BY <1>2, <1>3, <1>5 DEF LogInv

\* The record written is the one behind the acknowledged ones.
LEMMA PutReturnsKeeps == LogInv /\ PutReturns => LogInv'
<1> SUFFICES ASSUME LogInv, PutReturns
             PROVE  LogInv'
  OBVIOUS
<1>1. LogTypes /\ Fresh /\ (kind = "manifest" => ~ short)
  BY DEF LogInv
<1> DEFINE r == writing.rec
           n == Len(acked)
           s == r.size
<1>2. /\ kind' = kind /\ file' = file /\ state' = state /\ pos' = pos /\ written' = written
      /\ tears' = tears /\ short' = short /\ doubt' = doubt
      /\ writing # Idle /\ writing' = Idle /\ writing.done = s
      /\ acked' = IF short THEN acked ELSE Append(acked, r)
      /\ \/ Syncs /\ synced' = Len(file) /\ safe' = Len(acked')
         \/ ~ Syncs /\ synced' = synced /\ safe' = safe
  BY DEF PutReturns
<1>3. state = "up" /\ r \in Record /\ acked \in Seq(Record) /\ n \in Nat /\ safe \in 0 .. n /\ pos \in Nat
  BY <1>1, <1>2 DEF LogTypes
<1>4. s \in Nat /\ s > 0 /\ writing'.done = 0 /\ StartPos = pos - s /\ StartPos' = pos
  BY <1>2, <1>3, RecordSizes DEF Idle, StartPos
<1>5. file \in Seq(Cells) /\ File(file) /\ Len(file) \in Nat
  BY <1>1, LenProperties DEF LogTypes, File
<1>6. acked' \in Seq(Record) /\ safe' \in 0 .. Len(acked') /\ synced' \in 0 .. Len(file) /\ n <= Len(acked')
  <2>1. acked' \in Seq(Record) /\ n <= Len(acked') /\ Len(acked') \in Nat
    BY <1>2, <1>3
  <2>2. synced \in 0 .. Len(file)
    BY <1>1 DEF LogTypes
  <2>3. safe \in 0 .. Len(acked')
    BY <1>3, <2>1
  <2>4. Len(acked') \in 0 .. Len(acked') /\ Len(file) \in 0 .. Len(file)
    BY <1>5, <2>1
  <2> QED
    BY <1>2, <2>1, <2>2, <2>3, <2>4
<1>7. LogTypes'
  BY <1>1, <1>2, <1>3, <1>6 DEF LogTypes
<1>8. Fresh'
  BY <1>1, <1>2 DEF Fresh
<1> HIDE DEF s, n
<1>9. PICK rs \in Seq(Record), at \in [Nat -> Nat] : Accounts(rs, at)
  BY DEF LogInv
<1>10. /\ Parsed(file, rs, at) /\ at[safe + 1] <= synced + 1
       /\ kind # "manifest" => Len(file) = pos - 1
  BY <1>3, <1>9 DEF Accounts
<1>11. Laid(file, rs, at)
  BY <1>10 DEF Parsed
<1>12. acked' = rs
  <2>1. CASE short
    BY <1>2, <1>3, <1>9, <2>1 DEF Accounts
  <2>2. CASE ~ short
    <3>1. Going(rs, at)
      BY <1>3, <1>9, <2>2 DEF Accounts
    <3>2. rs = Append(acked, r)
      BY <1>2, <3>1 DEF Going, s
    <3> QED
      BY <1>2, <2>2, <3>2
  <2> QED
    BY <2>1, <2>2
<1>13. EndOf(rs, at) <= Len(file) + 1 /\ EndOf(rs, at) \in Nat
  <2>1. Len(rs) + 1 \in 1 .. Len(rs) + 1
    BY LenProperties
  <2>2. at[Len(rs) + 1] \in Pos /\ at[Len(rs) + 1] <= Len(file) + 1
    BY <1>5, <1>11, <2>1, LaidGrows, Zenon
  <2> QED
    BY <2>2 DEF EndOf, Pos
<1>14. at[safe' + 1] <= synced' + 1
  BY <1>2, <1>10, <1>12, <1>13 DEF EndOf
<1>15. ASSUME ~ short
       PROVE  Going(rs, at)'
  <2>1. Going(rs, at)
    BY <1>3, <1>9, <1>15 DEF Accounts
  <2>2. rs = Append(acked, r) /\ EndOf(acked, at) = StartPos
    BY <1>2, <2>1 DEF Going, s
  <2>3. EndOf(rs, at) = pos
    <3>1. n + 1 \in 1 .. Len(rs) /\ rs[n + 1] = r /\ Len(rs) + 1 = n + 1 + 1
      BY <1>3, <2>2 DEF n
    <3>2. at[n + 1 + 1] = at[n + 1] + s
      BY <1>11, <3>1 DEF Laid, s
    <3>3. at[n + 1] = pos - s
      BY <1>4, <2>2 DEF EndOf, n
    <3>4. at[n + 1 + 1] = pos
      BY <1>3, <1>4, <3>2, <3>3
    <3> QED
      BY <3>1, <3>4 DEF EndOf
  <2>4. kind = "manifest" => \A p \in DOMAIN file : pos <= p => file[p].part > 1
    <3>1. StartPos < pos
      BY <1>3, <1>4
    <3>2. \A p \in DOMAIN file : pos <= p => StartPos < p
      <4>1. DOMAIN file = 1 .. Len(file) /\ \A p \in DOMAIN file : p \in Int
        BY <1>5 DEF File
      <4>2. StartPos \in Int
        BY <1>3, <1>4
      <4> QED
        BY <1>3, <3>1, <4>1, <4>2
    <3> QED
      BY <2>1, <2>2, <3>2 DEF Going
  <2>5. ~ Corrupt(file, pos)
    <3> SUFFICES ASSUME Corrupt(file, pos)
                 PROVE  FALSE
      OBVIOUS
    <3>1. pos <= Len(file) /\ file[pos].part = 1
      BY DEF Corrupt
    <3>2. kind = "manifest"
      BY <1>3, <1>5, <1>10, <3>1
    <3>3. pos \in DOMAIN file /\ pos <= pos
      <4>1. pos \in 1 .. Len(file) + 1
        BY <1>1 DEF LogTypes
      <4>2. pos \in 1 .. Len(file)
        BY <1>3, <1>5, <3>1, <4>1
      <4> QED
        BY <1>3, <1>5, <4>2
    <3>4. ~ (file[pos].part > 1)
      BY <3>1
    <3> QED
      BY <2>4, <3>2, <3>3, <3>4
  <2>6. kind = "manifest" /\ tears = 0 => Len(file) = pos - 1
    BY <2>1 DEF Going
  <2>7. EndOf(acked', at) = pos /\ 1 .. 0 = {}
    BY <1>12, <2>3
  <2>8. ~ (writing' # Idle)
    BY <1>2
  <2> QED
    BY <1>2, <1>4, <1>12, <2>4, <2>5, <2>6, <2>7, <2>8 DEF Going
<1>16. ASSUME short
       PROVE  Broken(EndOf(acked, at))'
  <2>1. Broken(EndOf(acked, at)) /\ acked' = acked
    BY <1>2, <1>3, <1>9, <1>16 DEF Accounts
  <2>2. EndOf(acked, at) \in Nat
    BY <1>12, <1>13, <2>1
  <2>3. EndOf(acked, at) < StartPos => EndOf(acked, at) < StartPos'
    BY <1>3, <1>4, <2>2
  <2> QED
    BY <1>2, <2>1, <2>3 DEF Broken
<1>17. Accounts(rs, at)'
  BY <1>2, <1>3, <1>10, <1>12, <1>14, <1>15, <1>16 DEF Accounts
<1> QED
  BY <1>1, <1>2, <1>7, <1>8, <1>9, <1>17 DEF LogInv

\* A write that falls short leaves its record without its end.
LEMMA PutShortKeeps ==
    ASSUME "manifest" \notin ShortWrites
    PROVE  LogInv /\ PutShort => LogInv'
<1> SUFFICES ASSUME LogInv, PutShort
             PROVE  LogInv'
  OBVIOUS
<1>1. LogTypes /\ Fresh /\ (kind = "manifest" => ~ short)
  BY DEF LogInv
<1> DEFINE r == writing.rec
           d == writing.done
           s == r.size
<1>2. /\ kind' = kind /\ file' = file /\ synced' = synced /\ state' = state /\ pos' = pos
      /\ written' = written /\ tears' = tears /\ acked' = acked /\ safe' = safe /\ doubt' = doubt
      /\ writing # Idle /\ writing' = Idle /\ short' = TRUE /\ d \in 1 .. s - 1
  BY DEF PutShort, Cut
<1>3. kind # "manifest"
  BY DEF PutShort
<1>4. state = "up" /\ r \in Record /\ acked \in Seq(Record) /\ pos \in Nat /\ writing \in [rec : Record, done : Nat]
  BY <1>1, <1>2 DEF LogTypes
<1>5. s \in Nat /\ d \in Nat /\ writing'.done = 0 /\ StartPos = pos - d /\ StartPos' = pos
  BY <1>2, <1>4, RecordSizes DEF Idle, StartPos
<1>6. LogTypes' /\ Fresh'
  BY <1>1, <1>2, <1>4 DEF LogTypes, Fresh
<1> HIDE DEF s, d
<1>7. PICK rs \in Seq(Record), at \in [Nat -> Nat] : Accounts(rs, at)
  BY DEF LogInv
<1>8. Parsed(file, rs, at) /\ at[safe + 1] <= synced + 1 /\ Len(file) = pos - 1
  BY <1>3, <1>4, <1>7 DEF Accounts
<1>9. PICK e \in Nat : e = EndOf(acked, at)
  <2>1. Len(acked) + 1 \in Nat
    BY <1>4, LenProperties
  <2> QED
    BY <2>1 DEF EndOf
<1>10. rs = acked /\ Broken(e)'
  <2>1. CASE short
    <3>1. rs = acked /\ Broken(e)
      BY <1>4, <1>7, <1>9, <2>1 DEF Accounts
    <3>2. e < StartPos => e < StartPos'
      BY <1>4, <1>5, <1>9
    <3> QED
      BY <1>2, <3>1, <3>2 DEF Broken
  <2>2. CASE ~ short
    <3>1. Going(rs, at)
      BY <1>4, <1>7, <2>2 DEF Accounts
    <3>2. d # s /\ d >= 1 /\ d <= s - 1
      BY <1>2, <1>5
    <3>3. rs = acked /\ e = StartPos /\ \A i \in 1 .. d : file[e + i - 1] = Cell(r, i)
      BY <1>9, <3>1, <3>2 DEF Going, d, s
    <3>4. file[e] = Cell(r, 1)
      <4>1. 1 \in 1 .. d /\ e + 1 - 1 = e
        BY <1>5, <1>9, <3>2
      <4>2. file[e + 1 - 1] = Cell(r, 1)
        BY <3>3, <4>1
      <4> QED
        BY <4>1, <4>2, Zenon
    <3>5. file[e].rec = r /\ file[e].part = 1
      BY <3>4 DEF Cell
    <3>6. e < pos /\ Len(file) \in Nat /\ pos \in 1 .. Len(file) + 1 /\ file \in Seq(Cells)
      BY <1>1, <1>4, <1>5, <1>9, <3>2, <3>3 DEF LogTypes
    <3>7. e \in DOMAIN file
      <4>1. e # 0
        <5>1. Len(acked) + 1 \in 1 .. Len(acked) + 1 /\ Laid(file, acked, at) /\ File(file)
          BY <1>4, <1>8, <3>3, <3>6, LenProperties DEF Parsed, File
        <5>2. at[Len(acked) + 1] \in Pos
          BY <1>4, <5>1, LaidGrows, Zenon
        <5> QED
          BY <1>9, <5>2 DEF EndOf, Pos
      <4> QED
        BY <1>4, <1>8, <1>9, <3>6, <4>1
    <3>8. pos \in e + 1 .. e + s - 1 /\ pos = Len(file) + 1
      <4>1. pos = e + d /\ pos = Len(file) + 1
        BY <1>4, <1>5, <1>8, <1>9, <3>3, <3>6
      <4>3. \A a, b, c \in Nat : b >= 1 /\ b <= c - 1 => a + b >= a + 1 /\ a + b <= a + c - 1
        OBVIOUS
      <4>2. e + d >= e + 1 /\ e + d <= e + s - 1
        BY <1>5, <1>9, <3>2, <4>3
      <4> QED
        BY <1>4, <1>5, <1>9, <4>1, <4>2
    <3>9. pos \in e + 1 .. e + file[e].rec.size - 1
      BY <3>5, <3>8 DEF s
    <3> QED
      BY <1>2, <1>5, <3>3, <3>5, <3>6, <3>7, <3>8, <3>9 DEF Broken
  <2> QED
    BY <2>1, <2>2
<1>11. Broken(EndOf(acked, at))'
  <2>1. e = EndOf(acked', at)
    BY <1>2, <1>9
  <2> QED
    BY <1>10, <2>1 DEF Broken
<1>12. Accounts(rs, at)'
  BY <1>2, <1>3, <1>4, <1>8, <1>10, <1>11 DEF Accounts
<1> QED
  BY <1>2, <1>3, <1>6, <1>7, <1>12 DEF LogInv

\* Everything acknowledged lies in the file, which is synced.
LEMMA SyncKeeps == LogInv /\ Sync => LogInv'
<1> SUFFICES ASSUME LogInv, Sync
             PROVE  LogInv'
  OBVIOUS
<1>1. LogTypes /\ Fresh /\ (kind = "manifest" => ~ short)
  BY DEF LogInv
<1>2. /\ kind' = kind /\ file' = file /\ state' = state /\ pos' = pos /\ writing' = writing
      /\ written' = written /\ tears' = tears /\ short' = short /\ acked' = acked /\ doubt' = doubt
      /\ synced' = Len(file) /\ safe' = Len(acked) /\ state = "up" /\ writing = Idle
  BY DEF Sync
<1>3. acked \in Seq(Record) /\ file \in Seq(Cells) /\ Len(file) \in Nat /\ Len(acked) \in Nat
  BY <1>1, LenProperties DEF LogTypes
<1>4. LogTypes'
  <2>1. synced' \in 0 .. Len(file) /\ safe' \in 0 .. Len(acked)
    BY <1>2, <1>3
  <2> QED
    BY <1>1, <1>2, <2>1 DEF LogTypes
<1>5. Fresh'
  BY <1>1, <1>2 DEF Fresh, StartPos
<1>6. PICK rs \in Seq(Record), at \in [Nat -> Nat] : Accounts(rs, at)
  BY DEF LogInv
<1>7. Parsed(file, rs, at)
  BY <1>6 DEF Accounts
<1>8. rs = acked
  BY <1>2, <1>6 DEF Accounts, Going
<1>9. at[safe' + 1] <= synced' + 1
  <2>1. File(file) /\ Laid(file, acked, at) /\ Len(acked) + 1 \in 1 .. Len(acked) + 1
    BY <1>3, <1>7, <1>8 DEF File, Parsed
  <2>2. at[Len(acked) + 1] <= Len(file) + 1
    BY <1>3, <2>1, LaidGrows, Zenon
  <2> QED
    BY <1>2, <2>2
<1>10. Accounts(rs, at)'
  BY <1>2, <1>6, <1>9 DEF Accounts, Going, Broken, StartPos
<1> QED
  BY <1>1, <1>2, <1>4, <1>5, <1>6, <1>10 DEF LogInv

-----------------------------------------------------------------------------
(* The process dies. *)

\* Where the records end while the process lives: there, or inside the record
\* being written.
LEMMA EndWhileUp ==
    ASSUME LogInv, state = "up", ~ short,
           NEW rs \in Seq(Record), NEW at \in [Nat -> Nat], Accounts(rs, at)
    PROVE  /\ EndOf(rs, at) \in Pos /\ EndOf(rs, at) <= pos
           /\ kind = "manifest" => NoFirstBehind(file, EndOf(rs, at))
           /\ ~ Cut => EndOf(rs, at) = pos
           /\ Cut => /\ EndOf(rs, at) < pos /\ EndOf(rs, at) + writing.rec.size > pos
                     /\ file[EndOf(rs, at)].rec = writing.rec
           /\ ~ Cut => ~ Corrupt(file, pos)
<1> DEFINE e == EndOf(rs, at)
           b == EndOf(acked, at)
           r == writing.rec
           d == writing.done
           s == r.size
           n == Len(acked)
<1>1. LogTypes /\ Going(rs, at) /\ Parsed(file, rs, at)
  BY DEF LogInv, Accounts
<1>2. /\ acked \in Seq(Record) /\ n \in Nat /\ pos \in Nat /\ pos \in 1 .. Len(file) + 1
      /\ file \in Seq(Cells) /\ File(file) /\ Len(file) \in Nat /\ DOMAIN file = 1 .. Len(file)
      /\ d \in Nat
  <2>1. acked \in Seq(Record) /\ pos \in 1 .. Len(file) + 1 /\ file \in Seq(Cells)
    BY <1>1 DEF LogTypes
  <2>2. n \in Nat /\ Len(file) \in Nat /\ DOMAIN file = 1 .. Len(file)
    BY <2>1, LenProperties
  <2>3. pos \in Nat
    BY <2>1, <2>2
  <2>4. d \in Nat
    <3>1. writing = Idle \/ writing \in [rec : Record, done : Nat]
      BY <1>1 DEF LogTypes
    <3>2. writing = Idle => d = 0
      BY DEF Idle
    <3> QED
      BY <3>1, <3>2
  <2> QED
    BY <2>1, <2>2, <2>3, <2>4 DEF File
<1>3. Laid(file, rs, at) /\ b = StartPos
  BY <1>1 DEF Parsed, Going
<1>4. e \in Pos /\ e \in Nat /\ e > 0
  <2>1. Len(rs) + 1 \in 1 .. Len(rs) + 1
    BY LenProperties
  <2>2. at[Len(rs) + 1] \in Pos
    BY <1>2, <1>3, <2>1, LaidGrows, Zenon
  <2> QED
    BY <2>2 DEF EndOf, Pos
<1>5. b \in Nat /\ b + d = pos
  <2>1. n + 1 \in Nat
    BY <1>2
  <2>2. b \in Nat
    BY <2>1 DEF EndOf
  <2>3. b = pos - d
    BY <1>3 DEF StartPos
  <2> HIDE DEF b, d
  <2> QED
    BY <1>2, <2>2, <2>3
<1>6. writing # Idle => r \in Record /\ s \in Nat /\ s > 0 /\ d <= s
  BY <1>1, RecordSizes DEF LogTypes
<1>7. writing = Idle => d = 0
  BY DEF Idle
<1>8. kind = "manifest" => \A p \in DOMAIN file : pos <= p /\ b < p => file[p].part > 1
  BY <1>1 DEF Going
<1>9. \A i \in 1 .. d : file[b + i - 1] = Cell(r, i)
  BY <1>1 DEF Going
<1>10. rs = IF writing # Idle /\ d = s THEN Append(acked, r) ELSE acked
  BY <1>1 DEF Going
<1>11. d = 0 => ~ Corrupt(file, pos)
  BY <1>1 DEF Going
<1>12. Cut <=> writing # Idle /\ d \in 1 .. s - 1
  BY DEF Cut
<1>13. writing # Idle /\ d = s => e = pos
  <2> SUFFICES ASSUME writing # Idle, d = s
               PROVE  e = pos
    OBVIOUS
  <2>1. rs = Append(acked, r) /\ r \in Record
    BY <1>6, <1>10
  <2>2. n + 1 \in 1 .. Len(rs) /\ rs[n + 1] = r /\ Len(rs) + 1 = n + 1 + 1
    BY <1>2, <2>1
  <2>3. at[n + 1 + 1] = at[n + 1] + s
    BY <1>3, <2>2 DEF Laid
  <2>4. e = b + s
    BY <2>2, <2>3 DEF EndOf
  <2> QED
    BY <1>5, <2>4
<1>14. ~ (writing # Idle /\ d = s) => e = b
  BY <1>10
<1> HIDE DEF e, b, d, s, n
<1>15. ~ Cut => e = pos
  <2> SUFFICES ASSUME ~ Cut
               PROVE  e = pos
    OBVIOUS
  <2>1. CASE writing # Idle /\ d = s
    BY <1>13, <2>1
  <2>2. CASE ~ (writing # Idle /\ d = s)
    <3>1. d = 0
      BY <1>2, <1>6, <1>7, <1>12, <2>2, SMTT(30)
    <3> QED
      BY <1>2, <1>5, <1>14, <2>2, <3>1
  <2> QED
    BY <2>1, <2>2
<1>16. ASSUME Cut
       PROVE  /\ e = b /\ e < pos /\ e + s > pos /\ file[e].rec = r
              /\ \A p \in DOMAIN file : e < p /\ p < pos => file[p].part > 1
  <2>1. writing # Idle /\ d \in 1 .. s - 1 /\ s \in Nat
    BY <1>6, <1>12, <1>16
  <2>2. d # s /\ d >= 1 /\ d < s
    BY <2>1
  <2>3. e = b
    BY <1>14, <2>2
  <2>4. e < pos /\ e + s > pos
    <3>1. \A x, y, z, w \in Nat : x + y = w /\ y >= 1 /\ y < z => x < w /\ x + z > w
      OBVIOUS
    <3> QED
      BY <1>2, <1>5, <2>1, <2>2, <2>3, <3>1
  <2>5. file[e].rec = r
    <3>1. 1 \in 1 .. d /\ b + 1 - 1 = b
      BY <1>2, <1>5, <2>2
    <3>2. file[b + 1 - 1] = Cell(r, 1)
      BY <1>9, <3>1
    <3>3. file[e] = Cell(r, 1)
      BY <2>3, <3>1, <3>2, Zenon
    <3> QED
      BY <3>3 DEF Cell
  <2>6. ASSUME NEW p \in DOMAIN file, e < p, p < pos
        PROVE  file[p].part > 1
    <3>1. p \in Nat
      BY <1>2
    <3>2. PICK i \in Nat : i = p - e + 1 /\ i > 1
      BY <1>4, <2>6, <3>1
    <3>3. i \in 1 .. d /\ b + i - 1 = p
      <4>1. b + i - 1 = p
        BY <1>5, <2>3, <3>1, <3>2, SMTT(30)
      <4>2. i <= d
        BY <1>2, <1>5, <2>6, <3>1, <3>2, <4>1, SMTT(30)
      <4> QED
        BY <1>2, <3>2, <4>1, <4>2
    <3>4. file[b + i - 1] = Cell(r, i)
      BY <1>9, <3>3
    <3>5. file[p] = Cell(r, i)
      BY <3>3, <3>4, Zenon
    <3>6. file[p].part = i
      BY <3>5 DEF Cell
    <3> QED
      BY <3>2, <3>6
  <2> QED
    BY <2>3, <2>4, <2>5, <2>6
<1>17. ASSUME kind = "manifest"
       PROVE  NoFirstBehind(file, e)
  <2> SUFFICES ASSUME NEW p \in DOMAIN file, p > e
               PROVE  file[p].part > 1
    BY DEF NoFirstBehind
  <2>1. p \in Nat /\ (p < pos \/ pos <= p)
    <3>1. p \in Nat
      BY <1>2
    <3> QED
      BY <1>2, <3>1
  <2>2. CASE Cut
    BY <1>8, <1>16, <1>17, <2>1, <2>2
  <2>3. CASE ~ Cut
    <3>1. e = pos /\ pos <= p
      BY <1>2, <1>15, <2>1, <2>3
    <3>2. b < p
      BY <1>2, <1>5, <2>1, <3>1
    <3> QED
      BY <1>8, <1>17, <3>1, <3>2
  <2> QED
    BY <2>2, <2>3
<1>18. ASSUME ~ Cut
       PROVE  ~ Corrupt(file, pos)
  <2>1. CASE d = 0
    BY <1>11, <2>1
  <2>2. CASE d # 0
    <3> SUFFICES ASSUME Corrupt(file, pos)
                 PROVE  FALSE
      OBVIOUS
    <3>1. pos <= Len(file) /\ file[pos].part = 1
      BY DEF Corrupt
    <3>2. kind = "manifest"
      <4>1. kind # "manifest" => Len(file) = pos - 1
        BY DEF Accounts
      <4> QED
        BY <1>2, <3>1, <4>1
    <3>3. pos \in DOMAIN file /\ pos <= pos /\ b < pos
      BY <1>2, <1>5, <2>2, <3>1
    <3>4. file[pos].part > 1
      BY <1>8, <3>2, <3>3
    <3> QED
      BY <3>1, <3>4
  <2> QED
    BY <2>1, <2>2
<1>19. e <= pos
  BY <1>2, <1>4, <1>15, <1>16
<1> QED
  BY <1>4, <1>15, <1>16, <1>17, <1>18, <1>19 DEF e, s

\* The file ends after n cells, k records lie in it whole.
Ends(rs, at, n, k) ==
    /\ LogInv /\ state = "up" /\ Accounts(rs, at) /\ rs \in Seq(Record) /\ at \in [Nat -> Nat]
    /\ n \in synced .. Len(file) /\ CutAt(file, rs, at, n, k)

\* The numbers a file that ends there has.
LEMMA EndsNumbers ==
    ASSUME NEW rs, NEW at, NEW n, NEW k, Ends(rs, at, n, k)
    PROVE  /\ LogTypes /\ Laid(file, rs, at) /\ File(file) /\ Len(file) \in Nat /\ Len(rs) \in Nat
           /\ DOMAIN file = 1 .. Len(file) /\ pos \in Nat
           /\ n \in Nat /\ n \in 0 .. Len(file) /\ k \in Nat /\ k <= Len(rs) /\ k \in 0 .. Len(rs)
           /\ at[k + 1] \in Pos /\ at[k + 1] \in Nat /\ at[k + 1] <= n + 1 /\ at[k + 2] \in Nat
           /\ k < Len(rs) => n + 1 < at[k + 2]
           /\ k = Len(rs) => at[k + 1] = EndOf(rs, at)
           /\ n = Len(file) => k = Len(rs)
<1>1. LogTypes /\ rs \in Seq(Record) /\ at \in [Nat -> Nat] /\ n \in synced .. Len(file)
  BY DEF Ends, LogInv
<1>2. Laid(file, rs, at)
  BY DEF Ends, Accounts, Parsed
<1>3. file \in Seq(Cells) /\ synced \in 0 .. Len(file) /\ pos \in 1 .. Len(file) + 1
  BY <1>1 DEF LogTypes
<1>4. Len(file) \in Nat /\ DOMAIN file = 1 .. Len(file) /\ File(file) /\ Len(rs) \in Nat
  BY <1>1, <1>3, LenProperties DEF File
<1>5. n \in Nat /\ n \in 0 .. Len(file) /\ pos \in Nat
  BY <1>1, <1>3, <1>4
<1>7. k \in 0 .. Len(rs) /\ at[k + 1] <= n + 1 /\ (k < Len(rs) => n + 1 < at[k + 2])
  BY DEF Ends, CutAt
<1>8. k \in Nat /\ k <= Len(rs)
  BY <1>4, <1>7
<1>9. k + 1 \in 1 .. Len(rs) + 1 /\ k + 1 \in Nat /\ k + 2 \in Nat
  BY <1>4, <1>8
<1>10. at[k + 1] \in Pos
  BY <1>1, <1>2, <1>4, <1>9, LaidGrows, Zenon
<1>11. at[k + 1] \in Nat /\ at[k + 2] \in Nat
  BY <1>1, <1>9
<1>12. n = Len(file) => k = Len(rs)
  <2> SUFFICES ASSUME n = Len(file)
               PROVE  k = Len(rs)
    OBVIOUS
  <2>1. \A j \in 0 .. Len(rs) : at[j + 1] <= n + 1 => j <= k
    BY DEF Ends, CutAt
  <2>2. Len(rs) \in 0 .. Len(rs) /\ Len(rs) + 1 \in 1 .. Len(rs) + 1
    BY <1>4
  <2>3. at[Len(rs) + 1] <= Len(file) + 1
    BY <1>1, <1>2, <1>4, <2>2, LaidGrows, Zenon
  <2>4. Len(rs) <= k
    BY <2>1, <2>2, <2>3
  <2> QED
    BY <1>4, <1>8, <2>4
<1> QED
  BY <1>1, <1>2, <1>4, <1>5, <1>7, <1>8, <1>10, <1>11, <1>12 DEF EndOf

\* Where the file was cut in MANIFEST no record begins behind those that are
\* whole; and if nothing was torn, they fill the file.
LEMMA EndsManifest ==
    ASSUME NEW rs, NEW at, NEW n, NEW k, Ends(rs, at, n, k), kind = "manifest"
    PROVE  /\ \A p \in 1 .. n + 1 : at[k + 1] < p /\ p <= Len(file) => file[p].part > 1
           /\ tears = 0 /\ ~ Tears(n) => at[k + 1] = n + 1
<1> DEFINE e == at[k + 1]
           b == at[k + 2]
           L == Len(file)
           R == Len(rs)
<1>1. L \in Nat /\ R \in Nat /\ n \in Nat /\ n <= L /\ k \in Nat /\ k <= R /\ pos \in Nat
  BY EndsNumbers
<1>2. e \in Nat /\ e <= n + 1 /\ b \in Nat
  BY EndsNumbers
<1>3. (k < R => n + 1 < b) /\ (n = L => k = R)
  BY EndsNumbers
<1>4. k = R => e = EndOf(rs, at)
  BY EndsNumbers
<1>5. LogTypes /\ Laid(file, rs, at) /\ DOMAIN file = 1 .. L
  BY EndsNumbers
<1>6. LogInv /\ state = "up" /\ ~ short /\ Accounts(rs, at) /\ rs \in Seq(Record) /\ at \in [Nat -> Nat]
  BY DEF Ends, LogInv
<1>7. NoFirstBehind(file, EndOf(rs, at)) /\ (~ Cut => EndOf(rs, at) = pos)
  BY <1>6, EndWhileUp
<1>8. ASSUME NEW p \in 1 .. n + 1, e < p, p <= L
      PROVE  file[p].part > 1
  <2> HIDE DEF e, b, L, R
  <2>1. p \in Nat /\ p >= 1 /\ p <= n + 1
    BY <1>1
  <2>2. p \in DOMAIN file
    BY <1>1, <1>5, <1>8, <2>1
  <2>3. CASE k < R
    <3>1. k + 1 \in 1 .. R /\ k + 1 + 1 = k + 2
      BY <1>1, <2>3
    <3>2. p < b
      BY <1>1, <1>2, <1>3, <2>1, <2>3
    <3>3. k + 1 \in 1 .. Len(rs) /\ p < at[k + 1 + 1] /\ at[k + 1] < p
      BY <1>8, <3>1, <3>2 DEF b, e, R
    <3>4. \A q \in Nat : at[k + 1] < q /\ q < at[k + 1 + 1] => file[q].part > 1
      BY <1>5, <1>6, <3>3, LaidInside, Zenon
    <3> QED
      BY <2>1, <3>3, <3>4
  <2>4. CASE k = R
    BY <1>4, <1>7, <1>8, <2>2, <2>4 DEF NoFirstBehind
  <2> QED
    BY <1>1, <2>3, <2>4
<1>9. ASSUME tears = 0, ~ Tears(n)
      PROVE  e = n + 1
  <2> HIDE DEF e, b, R
  <2>1. L = pos - 1
    BY <1>6, <1>9 DEF Accounts, Going
  <2>2. CASE n < L
    <3>1. ~ (file[n + 1].part > 1)
      BY <1>9, <2>2 DEF Tears
    <3> HIDE DEF L
    <3>2. n + 1 \in 1 .. n + 1 /\ n + 1 <= L
      BY <1>1, <2>2
    <3>3. ~ (e < n + 1)
      BY <1>8, <3>1, <3>2
    <3> QED
      BY <1>1, <1>2, <3>3
  <2>3. CASE ~ (n < L)
    <3>1. ~ Cut
      BY <1>9, <2>3 DEF Tears
    <3> HIDE DEF L
    <3>2. n = L
      BY <1>1, <2>3
    <3>3. e = pos
      BY <1>3, <1>4, <1>7, <3>1, <3>2
    <3> QED
      BY <1>1, <2>1, <3>2, <3>3
  <2> QED
    BY <2>2, <2>3
<1> HIDE DEF Tears
<1> QED
  BY <1>8, <1>9

\* A record that is not whole is not taken for a corrupt one, except in MANIFEST
\* when a record was torn over the rest of one torn before.
LEMMA EndsCorrupt ==
    ASSUME NEW rs, NEW at, NEW n, NEW k, Ends(rs, at, n, k), ~ short,
           Corrupt(SubSeq(file, 1, n), at[k + 1])
    PROVE  kind = "manifest" /\ tears # 0 /\ Tears(n)
<1> DEFINE e == at[k + 1]
           b == at[k + 2]
           s == file[e].rec.size
           L == Len(file)
           R == Len(rs)
<1>1. L \in Nat /\ R \in Nat /\ n \in Nat /\ n <= L /\ k \in Nat /\ k <= R /\ pos \in Nat
  BY EndsNumbers
<1>2. e \in Nat /\ e \in Pos /\ e <= n + 1 /\ b \in Nat
  BY EndsNumbers
<1>3. (k < R => n + 1 < b) /\ (n = L => k = R)
  BY EndsNumbers
<1>4. k = R => e = EndOf(rs, at)
  BY EndsNumbers
<1>5. LogTypes /\ Laid(file, rs, at) /\ DOMAIN file = 1 .. L /\ File(file)
  BY EndsNumbers
<1>6. LogInv /\ state = "up" /\ Accounts(rs, at) /\ rs \in Seq(Record) /\ at \in [Nat -> Nat]
  BY DEF Ends, LogInv
<1>7. e <= n /\ e + s - 1 <= n /\ Corrupt(file, e)
  <2>1. n \in 0 .. Len(file) /\ Len(file) \in Nat /\ DOMAIN file = 1 .. Len(file)
    BY EndsNumbers
  <2> QED
    BY <1>2, <1>5, <2>1, CutIntact, Zenon
<1>8. e > 0 /\ s \in Nat /\ e \in DOMAIN file
  <2>1. e > 0 /\ e \in DOMAIN file
    <3> HIDE DEF e, s, L
    <3> QED
      BY <1>1, <1>2, <1>5, <1>7 DEF Pos
  <2>2. file[e] \in Cells
    BY <1>5, <2>1 DEF File
  <2>3. file[e].rec \in Record
    BY <2>2, RecordSizes
  <2>4. s \in Nat
    BY <2>3, RecordSizes
  <2> QED
    BY <2>1, <2>4
<1>9. k = R
  <2> SUFFICES ASSUME k < R
               PROVE  FALSE
    <3> HIDE DEF R
    <3> QED
      BY <1>1
  <2>1. k + 1 \in 1 .. R /\ k + 1 + 1 = k + 2
    <3> HIDE DEF R
    <3> QED
      BY <1>1
  <2>2. at[k + 1 + 1] = at[k + 1] + rs[k + 1].size
    BY <1>5, <2>1 DEF Laid
  <2>3. file[at[k + 1]].rec = rs[k + 1]
    BY <1>5, <1>6, <2>1, LaidInside
  <2>4. b = e + s
    BY <2>1, <2>2, <2>3
  <2> HIDE DEF e, s, b, R
  <2> QED
    BY <1>1, <1>2, <1>3, <1>7, <1>8, <2>4
<1>10. e = EndOf(rs, at)
  BY <1>4, <1>9
<1>11. /\ ~ Cut => e = pos /\ ~ Corrupt(file, pos)
       /\ Cut => e + writing.rec.size > pos /\ file[e].rec = writing.rec /\ e < pos
  BY <1>6, <1>10, EndWhileUp
<1>12. Cut /\ e + s > pos /\ e < pos
  BY <1>7, <1>11
<1>13. n >= pos /\ L # pos - 1
  <2> HIDE DEF e, s, L
  <2> QED
    BY <1>1, <1>2, <1>7, <1>8, <1>12
<1>14. kind = "manifest"
  BY <1>6, <1>13 DEF Accounts
<1>15. tears # 0
  BY <1>6, <1>13, <1>14 DEF Accounts, Going
<1>16. Tears(n)
  <2>1. CASE n < L
    <3>1. n + 1 \in 1 .. n + 1 /\ n + 1 <= L /\ e < n + 1
      <4> HIDE DEF e, s, L
      <4> QED
        BY <1>1, <1>2, <1>7, <2>1
    <3>2. file[n + 1].part > 1
      BY <1>14, <3>1, EndsManifest
    <3> QED
      BY <2>1, <3>2 DEF Tears
  <2>2. CASE ~ (n < L)
    BY <1>12, <2>2 DEF Tears
  <2> QED
    BY <2>1, <2>2
<1> QED
  BY <1>14, <1>15, <1>16

\* What the process has acknowledged is what the file parses to while it lives,
\* but for a record that has all its cells and is not acknowledged yet.
LEMMA UpParses ==
    ASSUME LogInv, state = "up", NEW rs \in Seq(Record), NEW at \in [Nat -> Nat], Accounts(rs, at)
    PROVE  /\ acked \in Seq(Record) /\ InFlight \in Seq(Record)
           /\ Starts(acked, rs) /\ Starts(rs, acked \o InFlight)
<1>1. LogTypes
  BY DEF LogInv
<1>2. acked \in Seq(Record) /\ (writing = Idle \/ writing.rec \in Record)
  BY <1>1 DEF LogTypes
<1>3. InFlight \in Seq(Record)
  BY <1>2 DEF InFlight
<1>4. rs = acked \/ (writing # Idle /\ rs = Append(acked, writing.rec))
  BY DEF Accounts, Going
<1> DEFINE M == acked \o InFlight
<1>5. Len(acked) \in Nat /\ Len(InFlight) \in Nat
  BY <1>2, <1>3, LenProperties
<1>6. Len(M) = Len(acked) + Len(InFlight) /\ \A i \in 1 .. Len(acked) : M[i] = acked[i]
  BY <1>2, <1>3, <1>5
<1>7. CASE rs = acked
  <2>1. Starts(acked, rs)
    BY <1>5, <1>7 DEF Starts
  <2>2. Starts(rs, M)
    BY <1>5, <1>6, <1>7 DEF Starts
  <2> QED
    BY <1>2, <1>3, <2>1, <2>2
<1>8. CASE writing # Idle /\ rs = Append(acked, writing.rec)
  <2>1. Starts(acked, rs)
    BY <1>2, <1>5, <1>8 DEF Starts
  <2>2. M = acked \o <<writing.rec>>
    BY <1>8 DEF InFlight
  <2>3. acked \o <<writing.rec>> = Append(acked, writing.rec)
    BY <1>2, <1>8
  <2>4. M = rs
    BY <1>8, <2>2, <2>3
  <2>5. Starts(rs, rs)
    BY LenProperties DEF Starts
  <2> QED
    BY <1>2, <1>3, <2>1, <2>4, <2>5
<1> QED
  BY <1>4, <1>7, <1>8

\* What is left to rely on, and what in doubt, when the file ends after n cells.
Left(n) ==
    /\ acked' \in Seq(Record) /\ doubt' \in Seq(Record)
    /\ Starts(acked', acked) /\ acked' \o doubt' = acked \o InFlight
    /\ safe <= Len(acked') /\ (Len(acked') = safe \/ n = Len(file))

\* Wherever the file ends, its records start with those to rely on.
LEMMA DiesKeeps ==
    ASSUME NEW n, LogInv, n \in synced .. Len(file), Dies(n), Left(n)
    PROVE  LogInv'
<1>1. LogTypes /\ Fresh /\ (kind = "manifest" => ~ short)
  BY DEF LogInv
<1>2. /\ state = "up" /\ state' = "down" /\ file' = SubSeq(file, 1, n)
      /\ Tears(n) => tears < MaxTears[kind]
      /\ tears' = IF Tears(n) THEN tears + 1 ELSE tears
      /\ writing' = Idle /\ pos' = 1
      /\ kind' = kind /\ synced' = synced /\ written' = written /\ short' = short /\ safe' = safe
  BY DEF Dies
<1>3. /\ file \in Seq(Cells) /\ File(file) /\ synced \in 0 .. Len(file) /\ Len(file) \in Nat
      /\ safe \in 0 .. Len(acked) /\ acked \in Seq(Record) /\ Len(acked) \in Nat
  BY <1>1, LenProperties DEF LogTypes, File
<1>4. n \in 0 .. Len(file) /\ n \in Nat /\ synced \in Nat /\ synced <= n /\ safe \in Nat
  BY <1>3
<1>5. PICK rs \in Seq(Record), at \in [Nat -> Nat] : Accounts(rs, at)
  BY DEF LogInv
<1>6. Parsed(file, rs, at) /\ at[safe + 1] <= synced + 1
  BY <1>5 DEF Accounts
<1>7. PICK k \in 0 .. Len(rs) : CutAt(file, rs, at, n, k)
  BY <1>3, <1>4, <1>6, CutParses
<1>8. Ends(rs, at, n, k)
  BY <1>2, <1>5, <1>7 DEF Ends
<1>9. Len(rs) \in Nat /\ k \in Nat /\ k <= Len(rs) /\ (n = Len(file) => k = Len(rs))
  BY <1>8, EndsNumbers
<1>10. PICK s \in Seq(Record) : s = SubSeq(rs, 1, k)
  BY <1>6, LaidFirst DEF Parsed
<1>11. Len(s) = k /\ (\A j \in 1 .. k : s[j] = rs[j]) /\ EndOf(s, at) = at[k + 1]
  BY <1>6, <1>10, LaidFirst, ZenonT(30) DEF Parsed
<1>12. File(file') /\ Len(file') = n /\ \A q \in 1 .. n : file'[q] = file[q]
  <2>1. 1 \in Pos
    BY DEF Pos
  <2> QED
    BY <1>2, <1>3, <1>4, <2>1, CutIntact
<1>13. Parsed(file', s, at)
  BY <1>2, <1>7, <1>10 DEF CutAt
<1>14. /\ InFlight \in Seq(Record) /\ Starts(acked, rs) /\ Starts(rs, acked \o InFlight)
  BY <1>2, <1>5, UpParses
<1>15. /\ acked' \in Seq(Record) /\ doubt' \in Seq(Record)
       /\ Starts(acked', acked) /\ acked' \o doubt' = acked \o InFlight
       /\ safe <= Len(acked') /\ (Len(acked') = safe \/ n = Len(file)) /\ Len(acked') \in Nat
  BY LenProperties DEF Left
<1>16. Len(acked') <= Len(acked) /\ Len(acked) <= Len(rs)
  BY <1>14, <1>15 DEF Starts
<1>17. Len(acked') <= k
  <2>1. CASE Len(acked') = safe
    <3>1. safe \in 0 .. Len(rs)
      BY <1>3, <1>4, <1>9, <1>16
    <3>2. at[safe + 1] <= n + 1
      <4>1. safe + 1 \in Nat
        BY <1>4
      <4>2. at[safe + 1] \in Nat
        BY <4>1
      <4> QED
        BY <1>4, <1>6, <4>2, SMTT(30)
    <3>3. \A j \in 0 .. Len(rs) : at[j + 1] <= n + 1 => j <= k
      BY <1>7 DEF CutAt
    <3> QED
      BY <2>1, <3>1, <3>2, <3>3
  <2>2. CASE n = Len(file)
    BY <1>3, <1>9, <1>15, <1>16, <2>2
  <2> QED
    BY <1>15, <2>1, <2>2
<1>18. Starts(acked', s)
  <2> SUFFICES ASSUME NEW i \in 1 .. Len(acked')
               PROVE  acked'[i] = s[i]
    BY <1>11, <1>17 DEF Starts
  <2>1. i \in 1 .. k /\ i \in 1 .. Len(acked)
    BY <1>3, <1>9, <1>15, <1>16, <1>17
  <2>2. acked'[i] = acked[i]
    BY <1>15 DEF Starts
  <2>3. acked[i] = rs[i]
    BY <1>14, <2>1 DEF Starts
  <2>4. s[i] = rs[i]
    BY <1>11, <2>1
  <2> QED
    BY <2>2, <2>3, <2>4
<1>19. Starts(s, acked' \o doubt') /\ acked' \o doubt' \in Seq(Record)
  <2> DEFINE M == acked \o InFlight
  <2>1. M \in Seq(Record)
    BY <1>3, <1>14
  <2>2. Len(M) \in Nat
    BY <2>1, LenProperties
  <2> HIDE DEF M
  <2>3. Len(rs) <= Len(M) /\ \A i \in 1 .. Len(rs) : rs[i] = M[i]
    BY <1>14 DEF Starts, M
  <2>4. Len(s) <= Len(M)
    BY <1>9, <1>11, <2>2, <2>3
  <2>5. \A i \in 1 .. Len(s) : s[i] = M[i]
    <3> TAKE i \in 1 .. Len(s)
    <3>1. i \in 1 .. k /\ i \in 1 .. Len(rs)
      BY <1>9, <1>11
    <3> QED
      BY <1>11, <2>3, <3>1
  <2>6. Starts(s, M)
    BY <2>4, <2>5 DEF Starts
  <2> QED
    BY <1>15, <2>1, <2>6 DEF M

<1>20. IsPrefix(acked', s) /\ IsPrefix(s, acked' \o doubt')
  BY <1>10, <1>15, <1>18, <1>19, PrefixIs
<1> DEFINE e == at[k + 1]
<1>21. e \in Nat /\ k \in Nat /\ pos \in Nat
  BY <1>8, EndsNumbers
<1>22. kind = "manifest" => NoFirstBehind(file', e)
  <2> SUFFICES ASSUME kind = "manifest", NEW p \in DOMAIN file', p > e
               PROVE  file'[p].part > 1
    BY DEF NoFirstBehind
  <2> HIDE DEF e
  <2>1. DOMAIN file' = 1 .. n
    BY <1>4, <1>12, LenProperties DEF File
  <2>2. p \in Nat /\ p \in 1 .. n + 1 /\ p \in 1 .. n /\ p <= Len(file) /\ e < p
    <3>1. p \in 1 .. n
      BY <2>1
    <3>2. p \in Nat /\ p \in 1 .. n + 1 /\ p <= Len(file)
      <4>1. \A a, b \in Nat : \A q \in 1 .. a : a <= b => q \in Nat /\ q \in 1 .. a + 1 /\ q <= b
        OBVIOUS
      <4>2. n <= Len(file)
        BY <1>3, <1>4
      <4> QED
        BY <1>3, <1>4, <3>1, <4>1, <4>2, Zenon
    <3> QED
      BY <1>21, <3>1, <3>2
  <2>3. file[p].part > 1
    BY <1>8, <2>2, EndsManifest DEF e
  <2> QED
    BY <1>12, <2>2, <2>3
<1>23. kind = "manifest" /\ tears' = 0 => e = Len(file') + 1
  <2> SUFFICES ASSUME kind = "manifest", tears' = 0
               PROVE  e = n + 1
    BY <1>12
  <2>1. tears \in Nat
    <3>1. kind \in Kinds /\ tears \in 0 .. MaxTears[kind]
      BY <1>1 DEF LogTypes
    <3>2. MaxTears[kind] \in Nat
      BY <3>1, LogFileAssumption
    <3>3. \A m \in Nat : \A t \in 0 .. m : t \in Nat
      OBVIOUS
    <3> QED
      BY <3>1, <3>2, <3>3, Zenon
  <2>2. tears = 0 /\ ~ Tears(n)
    <3>1. Tears(n) => tears + 1 = 0
      BY <1>2
    <3>2. tears + 1 # 0
      BY <2>1
    <3> QED
      BY <1>2, <3>1, <3>2
  <2> HIDE DEF Tears
  <2>3. at[k + 1] = n + 1
    BY <1>8, <2>2, EndsManifest, SMTT(30), ZenonT(30)
  <2> QED
    BY <2>3
<1>24. ~ short /\ (kind = "manifest" => tears' <= 1) => ~ Corrupt(file', e)
  <2> SUFFICES ASSUME ~ short, kind = "manifest" => tears' <= 1, Corrupt(SubSeq(file, 1, n), at[k + 1])
               PROVE  FALSE
    BY <1>2
  <2>1. kind = "manifest" /\ tears # 0 /\ Tears(n)
    BY <1>8, EndsCorrupt
  <2>2. tears \in Nat
    BY <1>1, LogFileAssumption DEF LogTypes
  <2>3. tears' = tears + 1 /\ tears' <= 1
    BY <1>2, <2>1
  <2> QED
    BY <2>1, <2>2, <2>3
<1>25. Dead(s, at)'
  BY <1>2, <1>11, <1>20, <1>22, <1>23, <1>24 DEF Dead
<1>26. Accounts(s, at)'
  BY <1>2, <1>6, <1>13, <1>25 DEF Accounts
<1>27. Fresh'
  <2> SUFFICES ASSUME NEW p \in DOMAIN file'
               PROVE  file'[p].rec.id <= written
    BY <1>2 DEF Fresh
  <2>1. DOMAIN file' = 1 .. n /\ DOMAIN file = 1 .. Len(file)
    BY <1>3, <1>4, <1>12, LenProperties DEF File
  <2>2. p \in 1 .. n /\ p \in DOMAIN file
    BY <1>3, <1>4, <2>1
  <2>3. file'[p] = file[p]
    BY <1>12, <2>2
  <2> QED
    BY <1>1, <2>2, <2>3 DEF Fresh
<1>28. LogTypes'
  <2>1. file' \in Seq(Cells) /\ synced' \in 0 .. Len(file')
    <3>1. synced \in 0 .. n
      BY <1>3, <1>4
    <3> QED
      BY <1>2, <1>12, <3>1 DEF File
  <2>2. tears' \in 0 .. MaxTears[kind]
    <3>1. kind \in Kinds /\ tears \in 0 .. MaxTears[kind]
      BY <1>1 DEF LogTypes
    <3>2. MaxTears[kind] \in Nat
      BY <3>1, LogFileAssumption
    <3>3. CASE Tears(n)
      <4>1. tears < MaxTears[kind] /\ tears' = tears + 1
        BY <1>2, <3>3
      <4>2. \A m \in Nat : \A t \in 0 .. m : t < m => t + 1 \in 0 .. m
        OBVIOUS
      <4>3. tears + 1 \in 0 .. MaxTears[kind]
        BY <3>1, <3>2, <4>1, <4>2, Zenon
      <4> QED
        BY <4>1, <4>3, Zenon
    <3>4. CASE ~ Tears(n)
      <4>1. tears' = tears
        BY <1>2, <3>4
      <4> QED
        BY <3>1, <4>1, Zenon
    <3> QED
      BY <3>3, <3>4
  <2>3. pos' \in 1 .. Len(file') + 1 /\ safe' \in 0 .. Len(acked')
    BY <1>2, <1>4, <1>12, <1>15
  <2> QED
    BY <1>1, <1>2, <1>15, <2>1, <2>2, <2>3 DEF LogTypes
<1> QED
  BY <1>1, <1>2, <1>26, <1>27, <1>28 DEF LogInv

\* The process alone dies: what it was writing is in doubt.
LEMMA CrashKeeps == LogInv /\ Crash => LogInv'
<1> SUFFICES ASSUME LogInv, Crash
             PROVE  LogInv'
  OBVIOUS
<1>1. LogTypes
  BY DEF LogInv
<1>2. Dies(Len(file)) /\ doubt' = InFlight /\ acked' = acked /\ state = "up"
  BY DEF Crash, Dies
<1>3. PICK rs \in Seq(Record), at \in [Nat -> Nat] : Accounts(rs, at)
  BY DEF LogInv
<1>4. InFlight \in Seq(Record)
  BY <1>2, <1>3, UpParses
<1>5. /\ acked \in Seq(Record) /\ Len(acked) \in Nat /\ safe \in 0 .. Len(acked)
      /\ Len(file) \in Nat /\ synced \in 0 .. Len(file)
  BY <1>1, LenProperties DEF LogTypes
<1>6. Starts(acked, acked) /\ safe <= Len(acked)
  BY <1>5 DEF Starts
<1>7. Left(Len(file))
  BY <1>2, <1>4, <1>5, <1>6 DEF Left
<1>8. Len(file) \in synced .. Len(file)
  BY <1>5
<1> QED
  BY <1>2, <1>7, <1>8, DiesKeeps

\* The machine loses power: what was acknowledged since the last sync is in doubt.
LEMMA PowerLossKeeps == LogInv /\ PowerLoss => LogInv'
<1> SUFFICES ASSUME LogInv, PowerLoss
             PROVE  LogInv'
  OBVIOUS
<1>1. LogTypes
  BY DEF LogInv
<1>2. PICK n \in synced .. Len(file) : Dies(n)
  BY DEF PowerLoss
<1> DEFINE L == Len(acked)
<1>3. /\ acked' = SubSeq(acked, 1, safe) /\ doubt' = SubSeq(acked, safe + 1, L) \o InFlight
      /\ state = "up"
  BY <1>2 DEF PowerLoss, Dies
<1>4. PICK rs \in Seq(Record), at \in [Nat -> Nat] : Accounts(rs, at)
  BY DEF LogInv
<1>5. InFlight \in Seq(Record)
  BY <1>3, <1>4, UpParses
<1>6. acked \in Seq(Record) /\ L \in Nat /\ safe \in 0 .. L /\ safe \in Nat
  <2>1. acked \in Seq(Record) /\ L \in Nat /\ safe \in 0 .. L
    BY <1>1, LenProperties DEF LogTypes
  <2> HIDE DEF L
  <2> QED
    BY <2>1
<1>7. /\ SubSeq(acked, 1, safe) \in Seq(Record) /\ Len(SubSeq(acked, 1, safe)) = safe
      /\ \A i \in 1 .. safe : SubSeq(acked, 1, safe)[i] = acked[i]
  BY <1>6, SplitAt
<1>8. SubSeq(acked, safe + 1, L) \in Seq(Record)
  BY <1>6, SplitAt
<1>9. SubSeq(acked, 1, safe) \o SubSeq(acked, safe + 1, L) = acked
  BY <1>6, SplitAt
<1>10. acked' \o doubt' = acked \o InFlight
  <2>1. PICK a \in Seq(Record), b \in Seq(Record), c \in Seq(Record) :
             a = SubSeq(acked, 1, safe) /\ b = SubSeq(acked, safe + 1, L) /\ c = InFlight
    BY <1>5, <1>7, <1>8
  <2>2. a \o b = acked
    BY <1>9, <2>1, Zenon
  <2>3. (a \o b) \o c = a \o (b \o c)
    BY <2>1, Regrouped, ZenonT(30)
  <2>4. acked' \o doubt' = a \o (b \o c)
    BY <1>3, <2>1, Zenon
  <2> QED
    BY <2>1, <2>2, <2>3, <2>4, Zenon
<1>11. doubt' \in Seq(Record)
  BY <1>3, <1>5, <1>8, ConcatProperties
<1>12. Starts(acked', acked) /\ safe <= Len(acked') /\ Len(acked') = safe
  <2> HIDE DEF L
  <2>1. safe <= L /\ safe <= safe
    BY <1>6
  <2> QED
    BY <1>3, <1>7, <2>1 DEF Starts, L
<1>13. Left(n)
  BY <1>3, <1>7, <1>10, <1>11, <1>12 DEF Left
<1> QED
  BY <1>2, <1>13, DiesKeeps

\* Recovery goes on where the records end, and in a log cuts off what is behind.
LEMMA RecoverKeeps == LogInv /\ Recover => LogInv'
<1> SUFFICES ASSUME LogInv, Recover
             PROVE  LogInv'
  OBVIOUS
<1>1. LogTypes /\ Fresh
  BY DEF LogInv
<1>2. PICK rs \in Seq(Record), at \in [Nat -> Nat] : Accounts(rs, at)
  BY DEF LogInv
<1>3. /\ file \in Seq(Cells) /\ File(file) /\ Len(file) \in Nat /\ synced \in 0 .. Len(file)
      /\ acked \in Seq(Record) /\ safe \in 0 .. Len(acked) /\ doubt \in Seq(Record) /\ Len(acked) \in Nat
      /\ DOMAIN file = 1 .. Len(file)
  BY <1>1, LenProperties DEF LogTypes, File
<1>4. Parsed(file, rs, at) /\ at[safe + 1] <= synced + 1 /\ Laid(file, rs, at)
  BY <1>2 DEF Accounts, Parsed
<1>5. Records(file) = rs /\ StopAt(file) = EndOf(rs, at)
  BY <1>3, <1>4, RecordsOf
<1>6. PICK e \in Pos : e = EndOf(rs, at) /\ e <= Len(file) + 1 /\ e \in Nat /\ e > 0
  <2>1. Len(rs) + 1 \in 1 .. Len(rs) + 1
    BY LenProperties
  <2>2. at[Len(rs) + 1] \in Pos /\ at[Len(rs) + 1] <= Len(file) + 1
    BY <1>3, <1>4, <2>1, LaidGrows, Zenon
  <2>3. at[Len(rs) + 1] \in Nat /\ at[Len(rs) + 1] > 0
    <3>1. \A m \in Pos : m \in Nat /\ m > 0
      BY DEF Pos
    <3> QED
      BY <2>2, <3>1, Zenon
  <2> QED
    BY <2>2, <2>3 DEF EndOf
<1>7. /\ state = "down" /\ ~ Corrupt(file, e) /\ state' = "up" /\ pos' = e
      /\ \/ kind = "manifest" /\ file' = file /\ synced' = synced
         \/ /\ kind # "manifest" /\ file' = SubSeq(file, 1, e - 1)
            /\ synced' = IF synced < e THEN synced ELSE e - 1
      /\ acked' = rs /\ short' = FALSE /\ doubt' = <<>>
      /\ kind' = kind /\ writing' = writing /\ written' = written /\ tears' = tears /\ safe' = safe
  BY <1>5, <1>6 DEF Recover
<1>8. writing = Idle /\ writing.done = 0 /\ pos' \in Nat /\ StartPos' = pos'
  <2>1. writing = Idle /\ writing.done = 0
    BY <1>1, <1>7 DEF LogTypes, Idle
  <2>2. e - 0 = e
    BY <1>6
  <2> QED
    BY <1>6, <1>7, <2>1, <2>2 DEF StartPos
<1>9. Dead(rs, at)
  BY <1>2, <1>7 DEF Accounts
<1>10. safe \in 0 .. Len(rs) /\ Len(rs) \in Nat
  <2>1. Starts(acked, rs)
    BY <1>3, <1>9, PrefixIs DEF Dead
  <2>2. Len(acked) <= Len(rs) /\ Len(rs) \in Nat
    BY <2>1, LenProperties DEF Starts
  <2> QED
    BY <1>3, <2>2
<1>11. ASSUME kind = "manifest"
       PROVE  LogInv'
  <2>1. file' = file /\ synced' = synced
    BY <1>7, <1>11
  <2>2. /\ NoFirstBehind(file, e) /\ (tears = 0 => e = Len(file) + 1)
    BY <1>6, <1>9, <1>11 DEF Dead
  <2>3. Going(rs, at)'
    <3>1. EndOf(acked', at) = pos' /\ writing'.done = 0 /\ 1 .. 0 = {} /\ ~ (writing' # Idle)
      BY <1>6, <1>7, <1>8
    <3>2. \A p \in DOMAIN file : e < p => file[p].part > 1
      <4>1. \A p \in DOMAIN file : e < p => p > e
        BY <1>3, <1>6
      <4> QED
        BY <2>2, <4>1 DEF NoFirstBehind
    <3>3. tears = 0 => Len(file) = e - 1
      BY <1>3, <1>6, <2>2
    <3> QED
      BY <1>7, <1>8, <2>1, <3>1, <3>2, <3>3 DEF Going
  <2>4. Accounts(rs, at)'
    BY <1>4, <1>7, <1>11, <2>1, <2>3 DEF Accounts
  <2>5. LogTypes'
    <3>1. pos' \in 1 .. Len(file) + 1
      BY <1>3, <1>6, <1>7 DEF Pos
    <3>2. doubt' \in Seq(Record)
      BY <1>7
    <3> QED
      BY <1>1, <1>7, <1>8, <1>10, <2>1, <3>1, <3>2 DEF LogTypes
  <2>6. Fresh'
    BY <1>1, <1>7, <1>8, <2>1 DEF Fresh
  <2> QED
    BY <1>7, <2>4, <2>5, <2>6 DEF LogInv
<1>12. ASSUME kind # "manifest"
       PROVE  LogInv'
  <2>1. PICK n \in 0 .. Len(file) : n = e - 1 /\ n + 1 = e /\ n \in Nat
    <3>1. \A m, l \in Nat : m > 0 /\ m <= l + 1 => m - 1 \in 0 .. l /\ m - 1 + 1 = m /\ m - 1 \in Nat
      OBVIOUS
    <3>2. e - 1 \in 0 .. Len(file) /\ e - 1 + 1 = e /\ e - 1 \in Nat
      BY <1>3, <1>6, <3>1, Zenon
    <3> QED
      BY <3>2, Zenon
  <2>2. file' = SubSeq(file, 1, n) /\ synced' = IF synced < e THEN synced ELSE n
    BY <1>7, <1>12, <2>1
  <2>3. PICK k \in 0 .. Len(rs) : CutAt(file, rs, at, n, k)
    BY <1>3, <1>4, CutParses
  <2>4. k = Len(rs)
    <3>1. \A j \in 0 .. Len(rs) : at[j + 1] <= n + 1 => j <= k
      BY <2>3 DEF CutAt
    <3>2. Len(rs) \in 0 .. Len(rs) /\ at[Len(rs) + 1] <= n + 1
      BY <1>6, <1>10, <2>1 DEF EndOf
    <3>3. Len(rs) <= k
      BY <3>1, <3>2
    <3> QED
      BY <1>10, <3>3
  <2>5. Parsed(file', rs, at)
    <3>1. SubSeq(rs, 1, k) = rs
      BY <2>4, SubSeqFull
    <3> QED
      BY <2>2, <2>3, <3>1 DEF CutAt
  <2>6. File(file') /\ Len(file') = n /\ \A q \in 1 .. n : file'[q] = file[q]
    <3>1. 1 \in Pos
      BY DEF Pos
    <3> QED
      BY <1>3, <2>2, <3>1, CutIntact
  <2>7. at[safe + 1] <= e /\ at[safe + 1] \in Nat
    <3>1. safe + 1 \in 1 .. Len(rs) + 1 /\ Len(rs) + 1 \in 1 .. Len(rs) + 1 /\ safe + 1 \in 1 .. Len(rs) + 1
      BY <1>10
    <3>2. safe + 1 \in 1 .. Len(rs) + 1 /\ safe + 1 \in Nat
      BY <1>10
    <3>3. at[safe + 1] <= at[Len(rs) + 1]
      BY <1>3, <1>4, <3>1, LaidGrows, Zenon
    <3> QED
      BY <1>6, <3>2, <3>3 DEF EndOf
  <2>8. at[safe + 1] <= synced' + 1 /\ synced' \in 0 .. n
    <3>1. CASE synced < e
      <4>1. synced' = synced /\ synced \in 0 .. n
        BY <1>3, <2>1, <2>2, <3>1
      <4> QED
        BY <1>4, <4>1
    <3>2. CASE ~ (synced < e)
      <4>1. synced' = n /\ n \in 0 .. n
        BY <2>1, <2>2, <3>2
      <4> QED
        BY <2>1, <2>7, <4>1
    <3> QED
      BY <3>1, <3>2
  <2>9. Len(file') = pos' - 1 /\ ~ Corrupt(file', pos')
    <3>1. ~ (e <= n)
      BY <2>1
    <3> QED
      BY <1>7, <2>1, <2>6, <3>1 DEF Corrupt
  <2>10. Going(rs, at)'
    <3>1. EndOf(acked', at) = pos' /\ writing'.done = 0 /\ 1 .. 0 = {} /\ ~ (writing' # Idle)
      BY <1>6, <1>7, <1>8
    <3> QED
      BY <1>7, <1>8, <1>12, <2>9, <3>1 DEF Going
  <2>11. Accounts(rs, at)'
    BY <1>7, <1>12, <2>5, <2>8, <2>9, <2>10 DEF Accounts
  <2>12. LogTypes'
    <3>1. pos' \in 1 .. Len(file') + 1 /\ synced' \in 0 .. Len(file')
      <4>1. e \in 1 .. n + 1
        <5>1. \A m \in Nat : m > 0 => m \in 1 .. m
          OBVIOUS
        <5> QED
          BY <1>6, <2>1, <5>1, Zenon
      <4> QED
        BY <1>7, <2>6, <2>8, <4>1
    <3>2. doubt' \in Seq(Record) /\ file' \in Seq(Cells)
      BY <1>7, <2>6 DEF File
    <3> QED
      BY <1>1, <1>7, <1>8, <1>10, <3>1, <3>2 DEF LogTypes
  <2>13. Fresh'
    <3> SUFFICES ASSUME NEW p \in DOMAIN file'
                 PROVE  file'[p].rec.id <= written
      BY <1>7, <1>8 DEF Fresh
    <3>1. DOMAIN file' = 1 .. n
      BY <2>1, <2>6, LenProperties DEF File
    <3>2. p \in 1 .. n
      BY <3>1
    <3>3. p \in DOMAIN file
      BY <1>3, <2>1, <3>2
    <3>4. file'[p] = file[p]
      BY <2>6, <3>2
    <3> QED
      BY <1>1, <3>3, <3>4 DEF Fresh
  <2> QED
    BY <1>7, <1>12, <2>11, <2>12, <2>13 DEF LogInv
<1> QED
  BY <1>11, <1>12

-----------------------------------------------------------------------------
\* No step breaks the invariant, where a write of MANIFEST fails whole or not at all.
LEMMA LogInvStep ==
    ASSUME "manifest" \notin ShortWrites
    PROVE  LogInv /\ [Next]_vars => LogInv'
<1> SUFFICES ASSUME LogInv, [Next]_vars
             PROVE  LogInv'
  OBVIOUS
<1>1. CASE PutStart
  BY <1>1, PutStartKeeps
<1>2. CASE WriteCell
  BY <1>2, WriteCellKeeps
<1>3. CASE PutReturns
  BY <1>3, PutReturnsKeeps
<1>4. CASE PutShort
  BY <1>4, PutShortKeeps
<1>5. CASE Sync
  BY <1>5, SyncKeeps
<1>6. CASE Crash
  BY <1>6, CrashKeeps
<1>7. CASE PowerLoss
  BY <1>7, PowerLossKeeps
<1>8. CASE Recover
  BY <1>8, RecoverKeeps
<1>9. CASE UNCHANGED vars
  <2> USE <1>9 DEF vars
  <2>1. LogTypes' /\ Fresh'
    BY DEF LogInv, LogTypes, Fresh, StartPos
  <2>2. PICK rs \in Seq(Record), at \in [Nat -> Nat] : Accounts(rs, at)
    BY DEF LogInv
  <2>3. Accounts(rs, at)'
    BY <2>2 DEF Accounts, Going, Dead, Broken, StartPos
  <2> QED
    BY <2>1, <2>2, <2>3 DEF LogInv
<1> QED
  BY <1>1, <1>2, <1>3, <1>4, <1>5, <1>6, <1>7, <1>8, <1>9 DEF Next, Put

\* LogInv always holds.
LEMMA LogInvHolds ==
    ASSUME "manifest" \notin ShortWrites
    PROVE  Spec => []LogInv
BY LogStarts, LogInvStep, PTL DEF Spec

\* What the theorems below state follows from the invariant.
LEMMA TypeFollows == LogInv => TypeOK
<1> SUFFICES ASSUME LogInv
             PROVE  TypeOK
  OBVIOUS
<1>1. LogTypes
  BY DEF LogInv
<1>2. \A i \in DOMAIN file : file[i].rec \in Record /\ file[i].part \in 1 .. file[i].rec.size
  <2> TAKE i \in DOMAIN file
  <2>1. file[i] \in Cells
    BY <1>1, LenProperties DEF LogTypes
  <2> QED
    BY <2>1, RecordSizes
<1>3. writing.rec \in Record \cup {NoRecord}
  BY <1>1 DEF LogTypes, Idle
<1> QED
  BY <1>1, <1>2, <1>3 DEF LogTypes, TypeOK

\* What the file parses to, dead or alive.
LEMMA ExactFollows == LogInv => LogExact
<1> SUFFICES ASSUME LogInv
             PROVE  LogExact
  OBVIOUS
<1>1. LogTypes
  BY DEF LogInv
<1>2. PICK rs \in Seq(Record), at \in [Nat -> Nat] : Accounts(rs, at)
  BY DEF LogInv
<1>3. Records(file) = rs
  <2>1. File(file) /\ Parsed(file, rs, at)
    BY <1>1, <1>2 DEF LogTypes, File, Accounts
  <2> QED
    BY <2>1, RecordsOf
<1>4. acked \in Seq(Record) /\ doubt \in Seq(Record) /\ state \in {"up", "down"}
  BY <1>1 DEF LogTypes
<1>5. CASE state = "up"
  <2>1. InFlight \in Seq(Record) /\ Starts(acked, rs) /\ Starts(rs, acked \o InFlight)
    BY <1>2, <1>5, UpParses
  <2>2. acked \o doubt = acked
    <3>1. doubt = <<>>
      BY <1>1, <1>5 DEF LogTypes
    <3>2. acked \o <<>> = acked
      BY <1>4, ConcatEmptySeq, Zenon
    <3> QED
      BY <3>1, <3>2, Zenon
  <2>3. acked \o InFlight \in Seq(Record)
    BY <1>4, <2>1
  <2>4. IsPrefix(acked, rs) /\ IsPrefix(rs, acked \o InFlight)
    BY <1>4, <2>1, <2>3, PrefixIs
  <2> QED
    BY <1>3, <2>2, <2>4 DEF LogExact
<1>6. CASE state = "down"
  <2>1. Dead(rs, at)
    BY <1>2, <1>6 DEF Accounts
  <2>2. InFlight = <<>>
    BY <1>1, <1>6 DEF LogTypes, InFlight
  <2>3. acked \o doubt \in Seq(Record)
    BY <1>4
  <2>4. acked \o doubt \o InFlight = acked \o doubt
    BY <2>2, <2>3
  <2> QED
    BY <1>3, <2>1, <2>4 DEF LogExact, Dead
<1> QED
  BY <1>4, <1>5, <1>6

\* What lies behind the records is not corrupt, after one torn record.
LEMMA RecoveryFollows ==
    ASSUME "manifest" \in Kinds => MaxTears["manifest"] <= 1
    PROVE  LogInv => RecoverySucceeds
<1> SUFFICES ASSUME LogInv, state = "down", ~ short
             PROVE  ~ Corrupt(file, StopAt(file))
  BY DEF RecoverySucceeds
<1>1. LogTypes
  BY DEF LogInv
<1>2. PICK rs \in Seq(Record), at \in [Nat -> Nat] : Accounts(rs, at)
  BY DEF LogInv
<1>3. StopAt(file) = EndOf(rs, at)
  <2>1. File(file) /\ Parsed(file, rs, at)
    BY <1>1, <1>2 DEF LogTypes, File, Accounts
  <2> QED
    BY <2>1, RecordsOf
<1>4. Dead(rs, at)
  BY <1>2 DEF Accounts
<1>5. kind = "manifest" => tears <= 1
  <2> SUFFICES ASSUME kind = "manifest"
               PROVE  tears <= 1
    OBVIOUS
  <2>1. tears \in 0 .. MaxTears["manifest"] /\ "manifest" \in Kinds
    BY <1>1 DEF LogTypes
  <2>2. MaxTears["manifest"] \in Nat /\ MaxTears["manifest"] <= 1
    BY <2>1, LogFileAssumption
  <2>3. \A m \in Nat : \A t \in 0 .. m : m <= 1 => t <= 1
    OBVIOUS
  <2> QED
    BY <2>1, <2>2, <2>3, Zenon
<1> QED
  BY <1>3, <1>4, <1>5 DEF Dead

(***************************************************************************)
(* The cells of the file are those of records written, and the counters    *)
(* keep within it (wal.go, manifest.go).                                   *)
(***************************************************************************)
THEOREM LogTypeOK ==
    ASSUME "manifest" \notin ShortWrites
    PROVE  Spec => []TypeOK
BY LogInvHolds, TypeFollows, PTL

(***************************************************************************)
(* Whatever the process or the machine dies of, and however often, the log *)
(* and MANIFEST parse to the records acknowledged, in order, and after     *)
(* them at most some a crash has left in doubt.                            *)
(***************************************************************************)
THEOREM LogLogExact ==
    ASSUME "manifest" \notin ShortWrites
    PROVE  Spec => []LogExact
BY LogInvHolds, ExactFollows, PTL

(***************************************************************************)
(* What a crash leaves of a record is not taken for a corrupt one, as long *)
(* as a crash tears at most one record of MANIFEST; the logs it may tear   *)
(* any number of times.                                                    *)
(***************************************************************************)
THEOREM LogRecoverySucceeds ==
    ASSUME "manifest" \notin ShortWrites,
           "manifest" \in Kinds => MaxTears["manifest"] <= 1
    PROVE  Spec => []RecoverySucceeds
BY LogInvHolds, RecoveryFollows, PTL
=============================================================================
