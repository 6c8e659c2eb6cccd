---------------------------- MODULE BoundedCache ----------------------------
(***************************************************************************)
(* The plan cache of bounded_cache.go, used by several goroutines at once. *)
(*                                                                         *)
(* Writers (Set, Invalidate) hold the mutex, change the ring buffer        *)
(* (entries, head, count) and then publish a fresh snapshot with one       *)
(* atomic store.  Readers (Get, getBytes) never lock: they load the        *)
(* snapshot pointer once and look the key up in what they loaded.  Stats   *)
(* locks to read count and then loads the three counters one by one.       *)
(*                                                                         *)
(* A step is one access to shared state: what a goroutine does between two *)
(* of them is local and belongs to the step that follows it.               *)
(***************************************************************************)
EXTENDS Integers, Sequences

CONSTANTS
    Goroutines,  \* the goroutines that call the cache
    Keys, Plans,
    Requested,   \* the capacity NewBoundedCache is called with
    MaxCalls,    \* bound: calls made in one behaviour
    NoOne        \* the mutex's holder when it is free, and an empty slot

ASSUME RequestedAssumption == Requested \in Int
ASSUME CallsAssumption == MaxCalls \in Nat
ASSUME NoOneAssumption == NoOne \notin Goroutines \cup [key : Keys, plan : Plans]

\* NewBoundedCache clamps a capacity below 1 to 1.
Capacity == IF Requested <= 0 THEN 1 ELSE Requested

VARIABLES
    mu,        \* the goroutine holding the mutex, or NoOne
    entries,   \* the ring: slot -> entry, or NoOne for a zero cacheEntry
    head,      \* the slot the next insertion fills
    count,     \* slots in use
    snapshot,  \* the published [entries, index]
    evictions, \* the counter of that name
    hits, misses,
    pc,        \* where each goroutine is in its call
    arg,       \* the entry (key, plan) a goroutine's call is about
    local,     \* the snapshot a reader loaded
    seen,      \* what a Stats call has read so far
    calls,     \* calls begun, up to MaxCalls
    inserted,  \* history: entries published by Set
    dropped    \* history: entries Invalidate removed

ring == <<entries, head, count>>
counters == <<evictions, hits, misses>>
history == <<inserted, dropped>>
vars == <<mu, ring, snapshot, counters, pc, arg, local, seen, calls, history>>

Fifo == INSTANCE FifoCache WITH queue <- snapshot.entries

Slots == 0 .. Capacity - 1

\* A bug: the loop walks back from head, youngest first.
RingOfBackwards(es, h, c) == [i \in 1 .. c |-> es[(h - i + Capacity) % Capacity]]

\* The c entries of a ring es whose next slot is h, oldest first: the loop of
\* Set that fills newEntries.
RingOf(es, h, c) ==
    [i \in 1 .. c |-> es[(h - c + (i - 1) + Capacity) % Capacity]]

RingContents == RingOf(entries, head, count)

\* The index Set builds for es: a key's last position.
IndexOf(es) ==
    [k \in {es[i].key : i \in DOMAIN es} |->
        CHOOSE i \in DOMAIN es :
            /\ es[i].key = k
            /\ \A j \in DOMAIN es : es[j].key = k => j <= i]

Snapshot(es) == [entries |-> es, index |-> IndexOf(es)]

Present(snap, k) == k \in DOMAIN snap.index

NothingSeen == [entries |-> 0, hits |-> 0, misses |-> 0, evictions |-> 0]

-----------------------------------------------------------------------------

\* NewBoundedCache.
Init ==
    /\ mu = NoOne
    /\ entries = [s \in Slots |-> NoOne]
    /\ head = 0
    /\ count = 0
    /\ snapshot = Snapshot(<< >>)
    /\ evictions = 0 /\ hits = 0 /\ misses = 0
    /\ pc = [g \in Goroutines |-> "idle"]
    /\ arg \in [Goroutines -> Fifo!Entry]
    /\ \A g, h \in Goroutines : arg[g] = arg[h]
    /\ local = [g \in Goroutines |-> Snapshot(<< >>)]
    /\ seen = [g \in Goroutines |-> NothingSeen]
    /\ calls = 0
    /\ inserted = 0 /\ dropped = 0

\* Goroutine g's call moves from one place to another.
Goes(g, from, to) == pc[g] = from /\ pc' = [pc EXCEPT ![g] = to]

\* A call of g begins, with e as its arguments.
Begins(g, e, to) ==
    /\ calls < MaxCalls
    /\ calls' = calls + 1
    /\ arg' = [arg EXCEPT ![g] = e]
    /\ Goes(g, "idle", to)

Lock(g, from, to) ==
    /\ mu = NoOne
    /\ mu' = g
    /\ Goes(g, from, to)
    /\ UNCHANGED <<ring, snapshot, counters, arg, local, seen, calls, history>>

\* Get, getBytes: load the snapshot ...
GetLoad(g) ==
    /\ \E e \in Fifo!Entry : Begins(g, e, "lookup")
    /\ local' = [local EXCEPT ![g] = snapshot]
    /\ UNCHANGED <<mu, ring, snapshot, counters, seen, history>>

\* A bug: a reader that misses waits for another goroutine's Set.
GetLookupWaits(g) ==
    /\ Goes(g, "lookup", IF Present(local[g], arg[g].key) THEN "idle" ELSE "lookup")
    /\ hits' = IF pc'[g] = "idle" THEN hits + 1 ELSE hits
    /\ UNCHANGED <<mu, ring, snapshot, evictions, misses, arg, local, seen, calls,
                   history>>

\* ... and look the key up in it.
GetLookup(g) ==
    /\ Goes(g, "lookup", "idle")
    /\ IF Present(local[g], arg[g].key)
       THEN hits' = hits + 1 /\ UNCHANGED misses
       ELSE misses' = misses + 1 /\ UNCHANGED hits
    /\ UNCHANGED <<mu, ring, snapshot, evictions, arg, local, seen, calls, history>>

SetCall(g) ==
    /\ \E e \in Fifo!Entry : Begins(g, e, "setWait")
    /\ UNCHANGED <<mu, ring, snapshot, counters, local, seen, history>>

SetLock(g) == Lock(g, "setWait", "setCheck")

\* The key is present already: Set returns and leaves its plan alone.
SetPresent(g) ==
    /\ Present(snapshot, arg[g].key)
    /\ Goes(g, "setCheck", "unlock")
    /\ UNCHANGED <<mu, ring, snapshot, counters, arg, local, seen, calls, history>>

\* A bug: an eviction is counted when the last slot is filled.
SetAbsentEarly(g) ==
    /\ ~Present(snapshot, arg[g].key)
    /\ Goes(g, "setCheck", "setRing")
    /\ evictions' = IF count >= Capacity - 1 THEN evictions + 1 ELSE evictions
    /\ UNCHANGED <<mu, ring, snapshot, hits, misses, arg, local, seen, calls, history>>

\* The key is absent: count an eviction when the ring is full.
SetAbsent(g) ==
    /\ ~Present(snapshot, arg[g].key)
    /\ Goes(g, "setCheck", "setRing")
    /\ evictions' = IF count >= Capacity THEN evictions + 1 ELSE evictions
    /\ UNCHANGED <<mu, ring, snapshot, hits, misses, arg, local, seen, calls, history>>

\* A bug: head is not wrapped.
SetRingUnwrapped(g) ==
    /\ Goes(g, "setRing", "setPublish")
    /\ entries' = [entries EXCEPT ![head] = arg[g]]
    /\ head' = head + 1
    /\ count' = IF count < Capacity THEN count + 1 ELSE count
    /\ UNCHANGED <<mu, snapshot, counters, arg, local, seen, calls, history>>

\* Overwrite the slot at head, which holds the oldest entry of a full ring.
SetRing(g) ==
    /\ Goes(g, "setRing", "setPublish")
    /\ entries' = [entries EXCEPT ![head] = arg[g]]
    /\ head' = (head + 1) % Capacity
    /\ count' = IF count < Capacity THEN count + 1 ELSE count
    /\ UNCHANGED <<mu, snapshot, counters, arg, local, seen, calls, history>>

SetPublish(g) ==
    /\ Goes(g, "setPublish", "unlock")
    /\ snapshot' = Snapshot(RingContents)
    /\ inserted' = inserted + 1
    /\ UNCHANGED <<mu, ring, counters, arg, local, seen, calls, dropped>>

InvalidateCall(g) ==
    /\ Begins(g, arg[g], "invWait")
    /\ UNCHANGED <<mu, ring, snapshot, counters, local, seen, history>>

InvalidateLock(g) == Lock(g, "invWait", "invRing")

\* A bug: Invalidate forgets to reset count.
InvalidateRingKeepsCount(g) ==
    /\ Goes(g, "invRing", "invPublish")
    /\ entries' = [s \in Slots |-> NoOne]
    /\ head' = 0
    /\ UNCHANGED <<mu, count, snapshot, counters, arg, local, seen, calls, history>>

InvalidateRing(g) ==
    /\ Goes(g, "invRing", "invPublish")
    /\ entries' = [s \in Slots |-> NoOne]
    /\ count' = 0
    /\ head' = 0
    /\ UNCHANGED <<mu, snapshot, counters, arg, local, seen, calls, history>>

InvalidatePublish(g) ==
    /\ Goes(g, "invPublish", "unlock")
    /\ snapshot' = Snapshot(<< >>)
    /\ dropped' = dropped + Len(snapshot.entries)
    /\ UNCHANGED <<mu, ring, counters, arg, local, seen, calls, inserted>>

\* The deferred Unlock of Set and Invalidate.
Unlock(g) ==
    /\ Goes(g, "unlock", "idle")
    /\ mu' = NoOne
    /\ UNCHANGED <<ring, snapshot, counters, arg, local, seen, calls, history>>

StatsCall(g) ==
    /\ Begins(g, arg[g], "statsCount")
    /\ UNCHANGED <<mu, ring, snapshot, counters, local, seen, history>>

\* Lock, read count, unlock: no other goroutine sees the mutex held.
StatsCount(g) ==
    /\ mu = NoOne
    /\ Goes(g, "statsCount", "statsHits")
    /\ seen' = [seen EXCEPT ![g] = [NothingSeen EXCEPT !.entries = count]]
    /\ UNCHANGED <<mu, ring, snapshot, counters, arg, local, calls, history>>

StatsHits(g) ==
    /\ Goes(g, "statsHits", "statsMisses")
    /\ seen' = [seen EXCEPT ![g].hits = hits]
    /\ UNCHANGED <<mu, ring, snapshot, counters, arg, local, calls, history>>

StatsMisses(g) ==
    /\ Goes(g, "statsMisses", "statsEvictions")
    /\ seen' = [seen EXCEPT ![g].misses = misses]
    /\ UNCHANGED <<mu, ring, snapshot, counters, arg, local, calls, history>>

StatsEvictions(g) ==
    /\ Goes(g, "statsEvictions", "idle")
    /\ seen' = [seen EXCEPT ![g].evictions = evictions]
    /\ UNCHANGED <<mu, ring, snapshot, counters, arg, local, calls, history>>

-----------------------------------------------------------------------------

\* What the goroutine does on its own once its call has begun.
Proceed(g) ==
    \/ GetLookup(g)
    \/ SetPresent(g) \/ SetAbsent(g) \/ SetRing(g) \/ SetPublish(g)
    \/ InvalidateRing(g) \/ InvalidatePublish(g)
    \/ Unlock(g)
    \/ StatsHits(g) \/ StatsMisses(g) \/ StatsEvictions(g)

\* The steps that wait for the mutex.
Acquire(g) == SetLock(g) \/ InvalidateLock(g) \/ StatsCount(g)

Call(g) == GetLoad(g) \/ SetCall(g) \/ InvalidateCall(g) \/ StatsCall(g)

\* Every goroutine has returned and the bound allows no further call.
Finished ==
    /\ calls = MaxCalls
    /\ \A g \in Goroutines : pc[g] = "idle"
    /\ UNCHANGED vars

Next ==
    \/ \E g \in Goroutines : Call(g) \/ Acquire(g) \/ Proceed(g)
    \/ Finished

Spec == Init /\ [][Next]_vars

\* A running goroutine is scheduled again, and sync.Mutex hands the lock to a
\* waiter that has waited long (its starvation mode), so a waiter to which
\* the mutex is free infinitely often acquires it.
Fairness ==
    \A g \in Goroutines : WF_vars(Proceed(g)) /\ SF_vars(Acquire(g))

FairSpec == Spec /\ Fairness

-----------------------------------------------------------------------------

Places ==
    {"idle", "lookup", "setWait", "setCheck", "setRing", "setPublish", "invWait",
     "invRing", "invPublish", "unlock", "statsCount", "statsHits", "statsMisses",
     "statsEvictions"}

Locked == {"setCheck", "setRing", "setPublish", "invRing", "invPublish", "unlock"}

IsSnapshot(s) ==
    /\ s = Snapshot(s.entries)
    /\ s.entries \in Seq(Fifo!Entry)

TypeOK ==
    /\ mu \in Goroutines \cup {NoOne}
    /\ entries \in [Slots -> Fifo!Entry \cup {NoOne}]
    /\ head \in Slots
    /\ count \in 0 .. Capacity
    /\ IsSnapshot(snapshot)
    /\ evictions \in Nat /\ hits \in Nat /\ misses \in Nat
    /\ pc \in [Goroutines -> Places]
    /\ arg \in [Goroutines -> Fifo!Entry]
    /\ DOMAIN local = Goroutines
    /\ \A g \in Goroutines : IsSnapshot(local[g])
    /\ seen \in [Goroutines ->
                    [entries : Nat, hits : Nat, misses : Nat, evictions : Nat]]
    /\ calls \in 0 .. MaxCalls
    /\ inserted \in Nat /\ dropped \in Nat

\* The goroutines between Lock and Unlock are the mutex's holder and no other:
\* Set and Invalidate change the ring one at a time.
MutualExclusion == \A g \in Goroutines : pc[g] \in Locked <=> mu = g

\* While nobody holds the mutex, the snapshot readers use holds exactly what
\* the ring holds, oldest first, whatever slot the ring's head has reached.
SnapshotIsRing == mu = NoOne => snapshot.entries = RingContents

\* Every entry a Set ever published is in the snapshot, was evicted, or was
\* removed by Invalidate: while the mutex is free the eviction counter that
\* Stats reports accounts for each lost entry exactly once.
EvictionsAccounted ==
    mu = NoOne => inserted = Len(snapshot.entries) + evictions + dropped

\* The snapshots readers see go through the states of a FIFO cache: each
\* publication is one insertion that evicts the oldest entry of a full cache
\* and nothing else, or one clearing.
FifoSpec == Fifo!Spec

\* Every call returns: no reader waits for anything, and no writer waits for
\* the mutex forever.
CallsReturn == \A g \in Goroutines : pc[g] # "idle" ~> pc[g] = "idle"
=============================================================================
