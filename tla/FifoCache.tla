------------------------------ MODULE FifoCache ------------------------------
(***************************************************************************)
(* What the plan cache of a StreamEvaluator promises its callers, without  *)
(* the mutex, the ring buffer and the published snapshots that implement   *)
(* it (module BoundedCache): a map from keys to plans that holds at most   *)
(* Capacity entries, in the order they were inserted.  A key that is       *)
(* present keeps its plan; inserting into a full cache drops the oldest    *)
(* entry; clearing drops them all.  (bounded_cache.go:31-35, 95-131)       *)
(***************************************************************************)
EXTENDS Naturals, Sequences

CONSTANTS
    Keys,      \* cache keys: a schema key with the expression indices
    Plans,     \* the *GroupPlan values
    Capacity   \* entries held at most, a positive number

VARIABLE queue  \* the entries, oldest first

Entry == [key : Keys, plan : Plans]

Holds(q, k) == \E i \in DOMAIN q : q[i].key = k

\* What a lookup of k finds in q: a set of at most one plan.
Found(q, k) == {q[i].plan : i \in {j \in DOMAIN q : q[j].key = k}}

\* A bug: the oldest entry goes one insertion too late.
PushedLate(q, e) ==
    Append(IF Len(q) > Capacity THEN Tail(q) ELSE q, e)

\* q with a new youngest entry e, the oldest one dropped when q is full.
Pushed(q, e) ==
    Append(IF Len(q) = Capacity THEN Tail(q) ELSE q, e)

-----------------------------------------------------------------------------

Init == queue = << >>

Insert(k, p) ==
    /\ ~Holds(queue, k)
    /\ queue' = Pushed(queue, [key |-> k, plan |-> p])

Clear == queue' = << >>

Next == Clear \/ \E k \in Keys, p \in Plans : Insert(k, p)

Spec == Init /\ [][Next]_queue
=============================================================================
