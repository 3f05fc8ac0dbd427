------------------------------- MODULE KvStore -------------------------------
(***************************************************************************)
(* What the engine promises as a store, however it lays out its data: a    *)
(* set of versions that grows by whole batches in timestamp order, that    *)
(* forgets what no reader can ask for, and that a crash does not shrink.   *)
(***************************************************************************)
EXTENDS Versions

VARIABLES
    running,
    writes,     \* versions of the acknowledged batches
    doubtful,   \* versions of batches that failed, or that a crash cut
    horizon,    \* nobody reads below this timestamp
    content     \* versions that reads at or above the horizon can tell from others

vars == <<running, writes, doubtful, horizon, content>>

\* Stores with the same Kept give the same answers from w on (OperatorProofs).
Init ==
    /\ running = TRUE
    /\ writes = {} /\ doubtful = {} /\ horizon = 0 /\ content = {}

\* A batch is acknowledged: it has one timestamp, above all others.
Commit ==
    LET new == writes' \ writes IN
    /\ running /\ running' /\ new # {} /\ writes \subseteq writes'
    /\ \A v, w \in new : v.ts = w.ts
    /\ \A v \in new, w \in writes : w.ts < v.ts
    /\ content' = Kept(writes', horizon)
    /\ UNCHANGED <<doubtful, horizon>>

\* A batch is refused.  None of it is visible while the store is running.
Fail ==
    /\ running /\ running'
    /\ doubtful \subseteq doubtful' /\ doubtful # doubtful'
    /\ UNCHANGED <<writes, horizon, content>>

Collect ==
    /\ running /\ running' /\ horizon' > horizon
    /\ content' = Kept(writes, horizon')
    /\ UNCHANGED <<writes, doubtful>>

\* All acknowledged batches stay, and any part of the doubtful ones.
Crash ==
    /\ running /\ ~ running'
    /\ doubtful \subseteq doubtful'
    /\ \E S \in SUBSET doubtful' : content' = Kept(writes \cup S, horizon)
    /\ UNCHANGED <<writes, horizon>>

\* The store starts again with what it had.  No reader is left.
Recover ==
    /\ ~ running /\ running'
    /\ Kept(writes', horizon) = content
    /\ content' = writes'
    /\ doubtful' = {} /\ horizon' = 0

Next == Commit \/ Fail \/ Collect \/ Crash \/ Recover

Spec == Init /\ [][Next]_vars
=============================================================================
