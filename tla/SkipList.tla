------------------------------ MODULE SkipList ------------------------------
(***************************************************************************)
(* The skiplist of a memtable (internal/memtable).  PutBatch and Get take  *)
(* the mutex of the memtable; an iterator takes it to find its first node  *)
(* and then follows next[0] without it, while later batches link nodes.    *)
(* Keys are encoded keys, and their order is key.Compare's; values are     *)
(* left out.                                                               *)
(***************************************************************************)
EXTENDS Integers, Sequences, FiniteSetsExt

CONSTANTS
    Key,        \* encoded keys
    MaxLevel,   \* maxLevel: levels of next pointers
    MaxBatch,   \* bound: entries of a batch
    Reader,     \* goroutines with an iterator
    Reordered   \* may a reader see stores in another order than they were made?

ASSUME SkipListAssumption ==
    /\ Key \subseteq Nat \ {0} /\ IsFiniteSet(Key)
    /\ MaxLevel \in Nat \ {0} /\ MaxBatch \in Nat /\ Reordered \in BOOLEAN

First == 0                        \* the head, as if it sorted before every key
Nil  == 1 + Max(Key \cup {0})    \* the nil pointer, as if it sorted behind

Node  == Key \cup {First}
Level == 1 .. MaxLevel

VARIABLES
    next,      \* node -> level -> node or Nil
    level,     \* levels in use
    batch,     \* entries the writer has yet to put; it holds the mutex
    locked,
    stores,    \* stores of the put under way that are not visible yet
    iter,      \* reader -> its iterator
    stored     \* history: keys put, the one being linked included

vars == <<next, level, batch, locked, stores, iter, stored>>

NoIter == [cur |-> Nil, upper |-> Nil, open |-> FALSE, first |-> {}, seen |-> <<>>]

Init ==
    /\ next = [n \in Node |-> [i \in Level |-> Nil]]
    /\ level = 1
    /\ batch = <<>> /\ locked = FALSE /\ stores = <<>>
    /\ iter = [r \in Reader |-> NoIter]
    /\ stored = {}

-----------------------------------------------------------------------------
(* The search that put, get and seek begin with: along each level while    *)
(* the next key is below k, then down.                                     *)

\* Faulty: goes on to a node with key k itself.
AlongPast(i, k) ==
    LET run[n \in Node] == IF next[n][i] <= k THEN run[next[n][i]] ELSE n IN run

\* The last node at or after n, on level i, whose key is below k.
Along(i, k) ==
    LET run[n \in Node] == IF next[n][i] < k THEN run[next[n][i]] ELSE n IN run

\* update[i] for the levels in use.
Preds(k) ==
    LET pred[i \in 1 .. level] == Along(i, k)[IF i = level THEN First ELSE pred[i + 1]]
    IN  pred

\* seek(k), the first node with a key at or above k; get(k) compares its key.
Seek(k) == next[Preds(k)[1]][1]

-----------------------------------------------------------------------------
(* Memtable.PutBatch. *)

Lock ==
    /\ ~ locked /\ locked' = TRUE
    /\ \E n \in 1 .. MaxBatch : batch' \in [1 .. n -> Key]
    /\ UNCHANGED <<next, level, stores, iter, stored>>

Store(node, i, to) == [node |-> node, level |-> i, to |-> to]

\* Faulty: the node is linked before its own pointer is set.
LinkingFirst(k, pred, top) ==
    [j \in 1 .. 2 * top |->
        LET i == (j + 1) \div 2 IN
        IF j % 2 = 1 THEN Store(pred[i], i, k) ELSE Store(k, i, next[pred[i]][i])]

\* The stores that link node k, level by level: its own pointer, then the one to it.
Linking(k, pred, top) ==
    [j \in 1 .. 2 * top |->
        LET i == (j + 1) \div 2 IN
        IF j % 2 = 1 THEN Store(k, i, next[pred[i]][i]) ELSE Store(pred[i], i, k)]

\* put of a new key, on the first `top` levels, drawn by randomLevel.
Insert(top) ==
    LET k == batch[1] IN
    /\ locked /\ batch # <<>> /\ stores = <<>>
    /\ Seek(k) # k
    /\ stores' = Linking(k, [i \in Level |-> IF i <= level THEN Preds(k)[i] ELSE First], top)
    /\ level' = Max({level, top})
    /\ stored' = stored \cup {k}
    /\ batch' = Tail(batch)
    /\ UNCHANGED <<next, locked, iter>>

\* put of a key that is there: only its value changes.
Overwrite ==
    /\ locked /\ batch # <<>> /\ stores = <<>>
    /\ Seek(batch[1]) = batch[1]
    /\ batch' = Tail(batch)
    /\ UNCHANGED <<next, level, locked, stores, iter, stored>>

\* A store becomes visible: the oldest, unless the machine reorders them.
Perform ==
    \E j \in DOMAIN stores :
      LET s == stores[j] IN
      /\ Reordered \/ j = 1
      /\ next' = [next EXCEPT ![s.node][s.level] = s.to]
      /\ stores' = [i \in 1 .. Len(stores) - 1 |-> stores[IF i < j THEN i ELSE i + 1]]
      /\ UNCHANGED <<level, batch, locked, iter, stored>>

Unlock ==
    /\ locked /\ batch = <<>> /\ stores = <<>>
    /\ locked' = FALSE
    /\ UNCHANGED <<next, level, batch, stores, iter, stored>>

-----------------------------------------------------------------------------
(* Memtable.Iter, Iterator. *)

\* Iter(lower, upper); a nil bound is First, or Nil.  `first` is what it has to find.
Iter(r, lower, upper) ==
    /\ ~ locked /\ ~ iter[r].open
    /\ iter' = [iter EXCEPT ![r] =
         [cur   |-> IF lower = First THEN next[First][1] ELSE Seek(lower),
          upper |-> upper, open |-> TRUE,
          first |-> {k \in stored : lower <= k /\ k < upper}, seen |-> <<>>]]
    /\ UNCHANGED <<next, level, batch, locked, stores, stored>>

IsValid(it) == it.open /\ it.cur # Nil /\ it.cur < it.upper

Next1(r) ==
    /\ IsValid(iter[r])
    /\ iter' = [iter EXCEPT ![r].cur = next[@][1], ![r].seen = Append(@, iter[r].cur)]
    /\ UNCHANGED <<next, level, batch, locked, stores, stored>>

\* The reader is done, at the end or earlier.
Done(r) ==
    /\ iter[r].open
    /\ iter' = [iter EXCEPT ![r] = NoIter]
    /\ UNCHANGED <<next, level, batch, locked, stores, stored>>

-----------------------------------------------------------------------------
PutBatch == Lock \/ (\E top \in Level : Insert(top)) \/ Overwrite \/ Perform \/ Unlock

Read == \E r \in Reader :
          \/ \E lower \in Node, upper \in Key \cup {Nil} : Iter(r, lower, upper)
          \/ Next1(r) \/ Done(r)

Next == PutBatch \/ Read

Spec == Init /\ [][Next]_vars
=============================================================================
