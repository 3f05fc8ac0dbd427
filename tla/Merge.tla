-------------------------------- MODULE Merge --------------------------------
(***************************************************************************)
(* MergeIterator (iterator/merge.go): several sorted iterators become one. *)
(* The iterators that have an entry left stand in a binary heap, kept in   *)
(* an array by container/heap, all but the one whose entry is handed out.  *)
(*                                                                         *)
(* Sources are numbered from the newest; source 1 is the active memtable,  *)
(* which grows while it is walked.  An entry's value is the number of its  *)
(* source, so that it shows which of several equal keys came out.          *)
(***************************************************************************)
EXTENDS Versions, Sequences, SequencesExt

CONSTANTS
    Sources,     \* how many iterators are merged
    Failing,     \* those whose Next may fail: tables
    MaxTs,       \* bound: timestamps of the entries
    End          \* where an exhausted iterator stands

\* What the constants may be.
MergeInputs ==
    /\ Sources \in Nat \ {0} /\ Value = 1 .. Sources
    /\ Failing \subseteq 2 .. Sources
    /\ Key \subseteq Nat /\ MaxTs \in Nat /\ End \notin Version

VARIABLES
    source,      \* entries of each source
    pos,         \* where its iterator stands: an entry or End
    h,           \* MergeIterator.h: the heap, as an array of source numbers
    current,     \* MergeIterator.current: a source number, 0 for nil
    phase        \* "new", "stand", "next" (a call of Next runs), "failed"

vars == <<source, pos, h, current, phase>>

-----------------------------------------------------------------------------
(* The order of the heap, for iterators that stand at p.                   *)

SameKey(v, w) == ~ Before(v, w) /\ ~ Before(w, v)

\* On equal keys the newer source comes first.
Less(p, i, j) == Before(p[i], p[j]) \/ (SameKey(p[i], p[j]) /\ i < j)

-----------------------------------------------------------------------------
(* container/heap.  The children of slot n are the slots 2n and 2n + 1.    *)

Swap(g, m, n) == [g EXCEPT ![m] = g[n], ![n] = g[m]]

RECURSIVE Down(_, _, _), Up(_, _, _)

Down(p, g, n) ==
    LET left  == 2 * n
        least == IF left < Len(g) /\ Less(p, g[left + 1], g[left]) THEN left + 1 ELSE left
    IN  IF left <= Len(g) /\ Less(p, g[least], g[n])
        THEN Down(p, Swap(g, n, least), least) ELSE g

Up(p, g, n) ==
    IF n > 1 /\ Less(p, g[n], g[n \div 2])
    THEN Up(p, Swap(g, n, n \div 2), n \div 2) ELSE g

\* heap.Init: the inner slots sink, from the last to the first.
Heapified(p, g) ==
    FoldLeft(LAMBDA f, n : Down(p, f, n), g, Reverse([n \in 1 .. Len(g) \div 2 |-> n]))

Pushed(p, g, i) == Up(p, Append(g, i), Len(g) + 1)

Popped(p, g) == Down(p, Front(Swap(g, 1, Len(g))), 1)

-----------------------------------------------------------------------------
FirstOf(vs) ==
    IF vs = {} THEN End ELSE CHOOSE v \in vs : \A w \in vs \ {v} : Before(v, w)

\* Next of the iterator of source i, which may have grown since it last moved.
Moved(i) == [pos EXCEPT ![i] = FirstOf({w \in source[i] : Before(pos[i], w)})]

\* An iterator goes back into the heap unless it is exhausted.
PutBack(p, g, i) == IF p[i] = End THEN g ELSE Pushed(p, g, i)

\* The least iterator leaves the heap and becomes current.
Settle(p, g) ==
    /\ pos' = p
    /\ current' = IF g = <<>> THEN 0 ELSE g[1]
    /\ h' = IF g = <<>> THEN g ELSE Popped(p, g)
    /\ phase' = "stand"

\* The iterators stand on their first entries.
NewMergeIterator ==
    LET first == [i \in 1 .. Sources |-> FirstOf(source[i])] IN
    /\ phase = "new"
    /\ Settle(first, Heapified(first, SelectSeq([i \in 1 .. Sources |-> i],
                                                LAMBDA i : first[i] # End)))
    /\ UNCHANGED source

CallNext ==
    /\ phase = "stand" /\ current # 0
    /\ phase' = "next"
    /\ UNCHANGED <<source, pos, h, current>>

\* curKey is the key of the current iterator, which moves last.
Tie == h # <<>> /\ SameKey(pos[h[1]], pos[current])

SkipTie ==
    /\ phase = "next" /\ Tie
    /\ pos' = Moved(h[1])
    /\ h' = PutBack(pos', Popped(pos, h), h[1])
    /\ UNCHANGED <<source, current, phase>>

\* Faulty: the next one is chosen before the current one is back in the heap.
AdvanceLate ==
    /\ phase = "next" /\ ~ Tie
    /\ LET p == Moved(current) IN
       /\ pos' = p /\ phase' = "stand"
       /\ current' = IF h = <<>> THEN 0 ELSE h[1]
       /\ h' = IF h = <<>> THEN h ELSE PutBack(p, Popped(p, h), current)
    /\ UNCHANGED source

AdvanceCurrent ==
    /\ phase = "next" /\ ~ Tie
    /\ LET p == Moved(current) IN Settle(p, PutBack(p, h, current))
    /\ UNCHANGED source

\* Next returns the error; an older iterator has already left the heap.
TieFails ==
    /\ phase = "next" /\ Tie /\ h[1] \in Failing
    /\ h' = Popped(pos, h)
    /\ phase' = "failed"
    /\ UNCHANGED <<source, pos, current>>

CurrentFails ==
    /\ phase = "next" /\ ~ Tie /\ current \in Failing
    /\ phase' = "failed"
    /\ UNCHANGED <<source, pos, h, current>>

-----------------------------------------------------------------------------
\* A commit inserts into the memtable, at a timestamp above all of the key's.
Insert ==
    /\ phase \in {"stand", "next"}
    /\ \E k \in Key, t \in 1 .. MaxTs :
         /\ \A i \in 1 .. Sources : \A v \in source[i] : v.key = k => v.ts < t
         /\ source' = [source EXCEPT ![1] = @ \cup {[key |-> k, ts |-> t, val |-> 1]}]
    /\ UNCHANGED <<pos, h, current, phase>>

\* Any entries in any sources.  The tiers of the engine share no key and timestamp
\* (TierOrder), but the iterator promises to cope with duplicates.
Init ==
    /\ \E f \in [1 .. Sources -> SUBSET (Key \X (1 .. MaxTs))] :
         source = [i \in 1 .. Sources |->
                     {[key |-> c[1], ts |-> c[2], val |-> i] : c \in f[i]}]
    /\ pos = [i \in 1 .. Sources |-> End]
    /\ h = <<>> /\ current = 0 /\ phase = "new"

Next == \/ NewMergeIterator \/ CallNext \/ SkipTie \/ AdvanceCurrent
        \/ TieFails \/ CurrentFails \/ Insert

Spec == Init /\ [][Next]_vars
=============================================================================
