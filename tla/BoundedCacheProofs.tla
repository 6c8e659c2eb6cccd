------------------------- MODULE BoundedCacheProofs -------------------------
(***************************************************************************)
(* Proofs about BoundedCache for every number of goroutines, keys, plans   *)
(* and every capacity: the ring and the published snapshot agree whenever  *)
(* the mutex is free, the published snapshots go through the states of a   *)
(* FIFO cache, and the eviction counter accounts for every lost entry.     *)
(*                                                                         *)
(* SnapshotIsRing is not inductive: while Set or Invalidate is between its *)
(* ring update and its publication the two differ.  RingInv says by how    *)
(* much at each place of the mutex's holder.                               *)
(***************************************************************************)
EXTENDS BoundedCache, TLAPS

\* A number below 2c modulo c.
LEMMA ModSmall ==
    ASSUME NEW c \in Nat \ {0}, NEW a \in 0 .. c - 1
    PROVE  a % c = a
  OBVIOUS

LEMMA ModWrap ==
    ASSUME NEW c \in Nat \ {0}, NEW a \in c .. 2 * c - 1
    PROVE  a % c = a - c
  OBVIOUS

\* NewBoundedCache always makes room for one entry.
LEMMA CapacityPositive == Capacity \in Nat \ {0}
  BY RequestedAssumption DEF Capacity

\* Where the i-th oldest of c entries sits: modular arithmetic made plain.
SlotOf(h, c, i) ==
    IF h - c + (i - 1) >= 0 THEN h - c + (i - 1) ELSE h - c + (i - 1) + Capacity

LEMMA SlotPlain ==
    ASSUME NEW h \in Slots, NEW c \in 0 .. Capacity, NEW i \in 1 .. c
    PROVE  /\ (h - c + (i - 1) + Capacity) % Capacity = SlotOf(h, c, i)
           /\ SlotOf(h, c, i) \in Slots
  <1>1. Capacity \in Nat \ {0}
    BY CapacityPositive
  <1>2. h \in 0 .. Capacity - 1
    BY DEF Slots
  <1> DEFINE a == h - c + (i - 1) + Capacity
  <1>3. a \in 0 .. 2 * Capacity - 1
    BY <1>1, <1>2
  <1>4. CASE a < Capacity
    <2>1. a \in 0 .. Capacity - 1
      BY <1>1, <1>3, <1>4
    <2>2. a % Capacity = a
      BY <1>1, <2>1, ModSmall
    <2> QED
      BY <1>1, <1>2, <1>4, <2>1, <2>2 DEF SlotOf, Slots
  <1>5. CASE a >= Capacity
    <2>1. a \in Capacity .. 2 * Capacity - 1
      BY <1>1, <1>3, <1>5
    <2>2. a % Capacity = a - Capacity
      BY <1>1, <2>1, ModWrap
    <2> QED
      BY <1>1, <1>2, <1>5, <2>1, <2>2 DEF SlotOf, Slots
  <1> QED
    BY <1>1, <1>3, <1>4, <1>5

\* The slot after head.
NextSlot(h) == IF h + 1 = Capacity THEN 0 ELSE h + 1

LEMMA NextSlotPlain ==
    ASSUME NEW h \in Slots
    PROVE  (h + 1) % Capacity = NextSlot(h) /\ NextSlot(h) \in Slots
  <1>1. Capacity \in Nat \ {0} /\ h \in 0 .. Capacity - 1
    BY CapacityPositive DEF Slots
  <1>2. CASE h + 1 = Capacity
    <2>1. (h + 1) % Capacity = (h + 1) - Capacity
      BY <1>1, <1>2, ModWrap
    <2> QED
      BY <1>1, <1>2, <2>1 DEF NextSlot, Slots
  <1>3. CASE h + 1 # Capacity
    <2>1. (h + 1) % Capacity = h + 1
      BY <1>1, <1>3, ModSmall
    <2> QED
      BY <1>1, <1>3, <2>1 DEF NextSlot, Slots
  <1> QED
    BY <1>2, <1>3

\* The ring and its count after SetRing.
Overwritten(es, h, e) == [es EXCEPT ![h] = e]
Grown(c) == IF c < Capacity THEN c + 1 ELSE c

\* Overwriting the slot at head pushes the new entry: it becomes the youngest
\* and, in a full ring, takes the place of the oldest.
LEMMA OverwritePushes ==
    ASSUME NEW es \in [Slots -> Fifo!Entry \cup {NoOne}],
           NEW h \in Slots, NEW c \in 0 .. Capacity, NEW e \in Fifo!Entry
    PROVE  RingOf(Overwritten(es, h, e), NextSlot(h), Grown(c))
             = Fifo!Pushed(RingOf(es, h, c), e)
  <1>1. Capacity \in Nat \ {0} /\ h \in 0 .. Capacity - 1 /\ c \in Nat
    BY CapacityPositive DEF Slots
  <1> DEFINE n == NextSlot(h)
             d == IF c < Capacity THEN c + 1 ELSE c
             fs == [es EXCEPT ![h] = e]
             q == RingOf(es, h, c)
             r == RingOf(fs, n, d)
             p == Fifo!Pushed(q, e)
             old == IF c = Capacity THEN Tail(q) ELSE q
  <1>2. n \in Slots
    BY NextSlotPlain
  <1>3. d \in 1 .. Capacity
    BY <1>1
  <1>4. q = [i \in 1 .. c |-> es[SlotOf(h, c, i)]]
    BY SlotPlain DEF RingOf
  <1>5. \A i \in 1 .. c : SlotOf(h, c, i) \in Slots
    BY SlotPlain
  <1>6. r = [i \in 1 .. d |-> fs[SlotOf(n, d, i)]]
    <2>1. d \in 0 .. Capacity
      BY <1>3, <1>1
    <2> HIDE DEF n, d, fs
    <2> QED
      BY <1>2, <2>1, SlotPlain DEF RingOf
  <1>7. \A i \in 1 .. c : es[SlotOf(h, c, i)] \in Fifo!Entry \cup {NoOne}
    BY <1>5
  <1>8. q \in Seq(Fifo!Entry \cup {NoOne}) /\ Len(q) = c
    BY <1>1, <1>4, <1>7
  <1>9. old \in Seq(Fifo!Entry \cup {NoOne}) /\ Len(old) = d - 1
    BY <1>1, <1>3, <1>8
  <1>10. p = Append(old, e)
    BY <1>8 DEF Fifo!Pushed
  <1>11. p = [i \in 1 .. d |-> IF i = d THEN e ELSE old[i]]
    BY <1>3, <1>9, <1>10
  <1>12. ASSUME NEW i \in 1 .. d
         PROVE  fs[SlotOf(n, d, i)] = IF i = d THEN e ELSE old[i]
    <2>1. CASE i = d
      <3>1. SlotOf(n, d, i) = h
        BY <1>1, <1>3, <2>1 DEF SlotOf, NextSlot
      <3> QED
        BY <2>1, <3>1
    <2>2. CASE i # d /\ c < Capacity
      <3>1. i \in 1 .. c /\ d = c + 1
        BY <1>1, <1>3, <2>2
      <3>2. SlotOf(n, d, i) = SlotOf(h, c, i) /\ SlotOf(h, c, i) # h
        BY <1>1, <2>2, <3>1 DEF SlotOf, NextSlot
      <3>3. old[i] = es[SlotOf(h, c, i)]
        BY <1>1, <1>4, <2>2, <3>1
      <3> QED
        BY <1>5, <2>2, <3>1, <3>2, <3>3
    <2>3. CASE i # d /\ c = Capacity
      <3>1. d = c /\ i + 1 \in 1 .. c
        BY <1>1, <1>3, <2>3
      <3>2. SlotOf(n, d, i) = SlotOf(h, c, i + 1) /\ SlotOf(h, c, i + 1) # h
        BY <1>1, <1>3, <2>3, <3>1 DEF SlotOf, NextSlot
      <3>3. old[i] = q[i + 1]
        BY <1>1, <1>8, <2>3, <3>1
      <3>4. old[i] = es[SlotOf(h, c, i + 1)]
        BY <1>4, <3>1, <3>3
      <3> QED
        BY <1>5, <2>3, <3>1, <3>2, <3>4
    <2>4. c < Capacity \/ c = Capacity
      BY <1>1
    <2> QED
      BY <2>1, <2>2, <2>3, <2>4
  <1>13. r = p
    <2> HIDE DEF n, d, fs, q, r, p, old
    <2> QED
      BY <1>6, <1>11, <1>12
  <1> QED
    BY <1>13 DEF Overwritten, Grown

LEMMA ContentsOfAnEmptyRing == \A es, h : RingOf(es, h, 0) = << >>
  BY DEF RingOf

LEMMA ContentsType ==
    ASSUME NEW es \in [Slots -> Fifo!Entry \cup {NoOne}],
           NEW h \in Slots, NEW c \in 0 .. Capacity
    PROVE  /\ RingOf(es, h, c) \in Seq(Fifo!Entry \cup {NoOne})
           /\ Len(RingOf(es, h, c)) = c
  <1>1. Capacity \in Nat \ {0} /\ c \in Nat
    BY CapacityPositive
  <1>2. RingOf(es, h, c) = [i \in 1 .. c |-> es[SlotOf(h, c, i)]]
    BY SlotPlain DEF RingOf
  <1>3. \A i \in 1 .. c : es[SlotOf(h, c, i)] \in Fifo!Entry \cup {NoOne}
    BY SlotPlain
  <1> QED
    BY <1>1, <1>2, <1>3

-----------------------------------------------------------------------------

\* How the ring and the snapshot differ while g holds the mutex at place p.
Between(p, g) ==
    CASE p = "setRing"    -> /\ snapshot.entries = RingContents
                             /\ ~Present(snapshot, arg[g].key)
      [] p = "setPublish" -> /\ RingContents = Fifo!Pushed(snapshot.entries, arg[g])
                             /\ ~Present(snapshot, arg[g].key)
      [] p = "invPublish" -> RingContents = << >>
      [] OTHER            -> snapshot.entries = RingContents

RingInv ==
    /\ mu = NoOne => snapshot.entries = RingContents
    /\ \A g \in Goroutines : mu = g => Between(pc[g], g)

Inv == TypeOK /\ MutualExclusion /\ RingInv

LEMMA NoOneIsNobody == NoOne \notin Goroutines /\ NoOne \notin Fifo!Entry
  BY NoOneAssumption DEF Fifo!Entry

LEMMA PresentIsHeld ==
    ASSUME NEW s, IsSnapshot(s), NEW k
    PROVE  Present(s, k) <=> Fifo!Holds(s.entries, k)
  <1>1. s = Snapshot(s.entries)
    BY DEF IsSnapshot
  <1>2. s.index = IndexOf(s.entries)
    <2> DEFINE es == s.entries
    <2>1. Snapshot(es).index = IndexOf(es)
      BY DEF Snapshot
    <2> QED
      BY <1>1, <2>1
  <1>3. DOMAIN s.index = {s.entries[i].key : i \in DOMAIN s.entries}
    BY <1>2 DEF IndexOf
  <1> QED
    BY <1>3 DEF Present, Fifo!Holds

LEMMA SnapshotType ==
    ASSUME NEW es \in Seq(Fifo!Entry)
    PROVE  IsSnapshot(Snapshot(es)) /\ Snapshot(es).entries = es
  BY DEF IsSnapshot, Snapshot

LEMMA EmptySnapshot ==
    IsSnapshot(Snapshot(<< >>)) /\ Snapshot(<< >>).entries = << >>
  <1>1. << >> \in Seq(Fifo!Entry)
    OBVIOUS
  <1> QED
    BY <1>1, SnapshotType

-----------------------------------------------------------------------------

\* Every step is a step of one goroutine or leaves everything alone.
LEMMA Steps ==
    ASSUME Next
    PROVE  \/ \E g \in Goroutines : Call(g) \/ Acquire(g) \/ Proceed(g)
           \/ UNCHANGED vars
  BY DEF Next, Finished

\* The initial state.
LEMMA InitInv == Init => Inv
  <1> SUFFICES ASSUME Init PROVE Inv
    OBVIOUS
  <1> USE DEF Init
  <1>1. Capacity \in Nat \ {0}
    BY CapacityPositive
  <1>2. IsSnapshot(snapshot) /\ snapshot.entries = << >>
    BY EmptySnapshot
  <1>3. TypeOK
    <2>1. \A g \in Goroutines : IsSnapshot(local[g])
      BY EmptySnapshot
    <2>2. seen \in [Goroutines ->
                       [entries : Nat, hits : Nat, misses : Nat, evictions : Nat]]
      BY DEF NothingSeen
    <2>3. head \in Slots /\ count \in 0 .. Capacity /\ calls \in 0 .. MaxCalls
      BY <1>1, CallsAssumption DEF Slots
    <2> QED
      BY <1>2, <2>1, <2>2, <2>3 DEF TypeOK, Places
  <1>4. MutualExclusion
    BY NoOneIsNobody DEF MutualExclusion, Locked
  <1>5. RingInv
    BY <1>2, NoOneIsNobody, ContentsOfAnEmptyRing DEF RingInv, RingContents
  <1> QED
    BY <1>3, <1>4, <1>5 DEF Inv

\* Only the holder of the mutex is inside its critical section.
LEMMA MutexStep ==
    ASSUME TypeOK, MutualExclusion, [Next]_vars
    PROVE  MutualExclusion'
  <1> USE DEF TypeOK, MutualExclusion, Goes, Locked, Places
  <1>1. CASE UNCHANGED vars
    BY <1>1 DEF vars
  <1>2. ASSUME NEW g \in Goroutines, Call(g)
        PROVE  MutualExclusion'
    BY <1>2 DEF Call, GetLoad, SetCall, InvalidateCall, StatsCall, Begins
  <1>3. ASSUME NEW g \in Goroutines, Acquire(g)
        PROVE  MutualExclusion'
    BY <1>3, NoOneIsNobody DEF Acquire, SetLock, InvalidateLock, StatsCount, Lock
  <1>4. ASSUME NEW g \in Goroutines, Proceed(g)
        PROVE  MutualExclusion'
    <2>1. CASE Unlock(g)
      BY <2>1, NoOneIsNobody DEF Unlock
    <2>2. CASE GetLookup(g) \/ StatsHits(g) \/ StatsMisses(g) \/ StatsEvictions(g)
      BY <2>2 DEF GetLookup, StatsHits, StatsMisses, StatsEvictions
    <2>3. CASE SetPresent(g) \/ SetAbsent(g) \/ SetRing(g) \/ SetPublish(g)
      BY <2>3 DEF SetPresent, SetAbsent, SetRing, SetPublish
    <2>4. CASE InvalidateRing(g) \/ InvalidatePublish(g)
      BY <2>4 DEF InvalidateRing, InvalidatePublish
    <2> QED
      BY <1>4, <2>1, <2>2, <2>3, <2>4 DEF Proceed
  <1> QED
    BY <1>1, <1>2, <1>3, <1>4, Steps

LEMMA TypeStep ==
    ASSUME Inv, [Next]_vars
    PROVE  TypeOK'
  <1> USE DEF Inv, TypeOK, Goes, Places
  <1>1. CASE UNCHANGED vars
    BY <1>1 DEF vars, ring, counters, history
  <1>2. ASSUME NEW g \in Goroutines, Call(g)
        PROVE  TypeOK'
    <2>1. PICK e \in Fifo!Entry, p \in Places : Begins(g, e, p)
      BY <1>2 DEF Call, GetLoad, SetCall, InvalidateCall, StatsCall
    <2>2. calls' \in 0 .. MaxCalls /\ arg' \in [Goroutines -> Fifo!Entry]
          /\ pc' \in [Goroutines -> Places]
      BY <2>1, CallsAssumption DEF Begins
    <2>3. UNCHANGED <<mu, ring, snapshot, counters, seen, history>>
      BY <1>2 DEF Call, GetLoad, SetCall, InvalidateCall, StatsCall
    <2>4. local' = local \/ local' = [local EXCEPT ![g] = snapshot]
      BY <1>2 DEF Call, GetLoad, SetCall, InvalidateCall, StatsCall
    <2>5. /\ DOMAIN local' = Goroutines
          /\ \A h \in Goroutines : local'[h] = local[h] \/ local'[h] = snapshot
      BY <2>4
    <2>6. \A h \in Goroutines : IsSnapshot(local'[h])
      BY <2>5
    <2> QED
      BY <2>2, <2>3, <2>5, <2>6 DEF ring, counters, history
  <1>3. ASSUME NEW g \in Goroutines, Acquire(g)
        PROVE  TypeOK'
    <2>1. CASE SetLock(g) \/ InvalidateLock(g)
      BY <2>1 DEF SetLock, InvalidateLock, Lock, ring, counters, history
    <2>2. CASE StatsCount(g)
      <3>1. count \in Nat
        BY CapacityPositive
      <3> QED
        BY <2>2, <3>1 DEF StatsCount, NothingSeen, ring, counters, history
    <2> QED
      BY <1>3, <2>1, <2>2 DEF Acquire
  <1>4. ASSUME NEW g \in Goroutines, Proceed(g)
        PROVE  TypeOK'
    <2> USE DEF ring, counters, history
    <2>1. CASE GetLookup(g)
      BY <2>1 DEF GetLookup
    <2>2. CASE SetPresent(g) \/ SetAbsent(g) \/ Unlock(g)
      BY <2>2 DEF SetPresent, SetAbsent, Unlock
    <2>3. CASE SetRing(g)
      <3>1. head' \in Slots
        BY <2>3, NextSlotPlain DEF SetRing
      <3>2. count' \in 0 .. Capacity
        BY <2>3, CapacityPositive DEF SetRing
      <3>3. entries' \in [Slots -> Fifo!Entry \cup {NoOne}]
        BY <2>3 DEF SetRing
      <3> QED
        BY <2>3, <3>1, <3>2, <3>3 DEF SetRing
    <2>4. CASE SetPublish(g)
      <3>1. mu = g /\ pc[g] = "setPublish"
        BY <2>4 DEF SetPublish, MutualExclusion, Locked
      <3>2. RingContents = Fifo!Pushed(snapshot.entries, arg[g])
        BY <3>1 DEF RingInv, Between
      <3>3. RingContents \in Seq(Fifo!Entry)
        BY <3>2, CapacityPositive DEF Fifo!Pushed, IsSnapshot
      <3>4. IsSnapshot(snapshot)'
        BY <2>4, <3>3, SnapshotType DEF SetPublish
      <3> QED
        BY <2>4, <3>4 DEF SetPublish
    <2>5. CASE InvalidateRing(g)
      <3>1. 0 \in Slots /\ 0 \in 0 .. Capacity
        BY CapacityPositive DEF Slots
      <3> QED
        BY <2>5, <3>1 DEF InvalidateRing
    <2>6. CASE InvalidatePublish(g)
      <3>1. IsSnapshot(snapshot)'
        BY <2>6, EmptySnapshot DEF InvalidatePublish
      <3>2. Len(snapshot.entries) \in Nat
        BY DEF IsSnapshot
      <3> QED
        BY <2>6, <3>1, <3>2 DEF InvalidatePublish
    <2>7. CASE StatsHits(g) \/ StatsMisses(g) \/ StatsEvictions(g)
      BY <2>7 DEF StatsHits, StatsMisses, StatsEvictions
    <2> QED
      BY <1>4, <2>1, <2>2, <2>3, <2>4, <2>5, <2>6, <2>7 DEF Proceed
  <1> QED
    BY <1>1, <1>2, <1>3, <1>4, Steps

\* How each step moves the ring relative to the snapshot.
LEMMA RingStep ==
    ASSUME Inv, [Next]_vars
    PROVE  RingInv'
  <1> USE DEF Inv, TypeOK, MutualExclusion, RingInv, Goes, Locked, Places
  <1>1. CASE UNCHANGED vars
    BY <1>1 DEF vars, ring, Between, RingContents
  <1>2. ASSUME NEW g \in Goroutines, Call(g)
        PROVE  RingInv'
    <2>1. /\ UNCHANGED <<mu, ring, snapshot>>
          /\ g # mu
          /\ \A h \in Goroutines \ {g} : pc'[h] = pc[h] /\ arg'[h] = arg[h]
      BY <1>2 DEF Call, GetLoad, SetCall, InvalidateCall, StatsCall, Begins
    <2> QED
      BY <2>1 DEF ring, Between, RingContents
  <1>3. ASSUME NEW g \in Goroutines, Acquire(g)
        PROVE  RingInv'
    <2>1. /\ UNCHANGED <<ring, snapshot, arg>>
          /\ mu = NoOne /\ mu' \in {g, NoOne}
          /\ pc'[g] \in {"setCheck", "invRing", "statsHits"}
      BY <1>3 DEF Acquire, SetLock, InvalidateLock, StatsCount, Lock
    <2>2. snapshot'.entries = RingContents'
      BY <2>1 DEF ring, RingContents
    <2> QED
      BY <2>1, <2>2, NoOneIsNobody DEF Between
  <1>4. ASSUME NEW g \in Goroutines, Proceed(g)
        PROVE  RingInv'
    <2>1. CASE GetLookup(g) \/ StatsHits(g) \/ StatsMisses(g) \/ StatsEvictions(g)
      <3>1. /\ UNCHANGED <<mu, ring, snapshot, arg>>
            /\ g # mu
            /\ \A h \in Goroutines \ {g} : pc'[h] = pc[h]
        BY <2>1 DEF GetLookup, StatsHits, StatsMisses, StatsEvictions
      <3> QED
        BY <3>1 DEF ring, Between, RingContents
    <2>2. ASSUME pc[g] \in Locked
          PROVE  mu = g /\ Between(pc[g], g)
      BY <2>2
    <2>3. CASE SetPresent(g)
      BY <2>2, <2>3, NoOneIsNobody DEF SetPresent, Between, RingContents, ring
    <2>4. CASE SetAbsent(g)
      BY <2>2, <2>4, NoOneIsNobody DEF SetAbsent, Between, RingContents, ring
    <2>5. CASE SetRing(g)
      <3>1. mu = g /\ Between("setRing", g)
        BY <2>2, <2>5 DEF SetRing
      <3>2. RingContents' = Fifo!Pushed(RingContents, arg[g])
        <4>1. /\ entries' = Overwritten(entries, head, arg[g])
              /\ head' = NextSlot(head)
              /\ count' = Grown(count)
          BY <2>5, NextSlotPlain DEF SetRing, Overwritten, Grown
        <4>2. /\ entries \in [Slots -> Fifo!Entry \cup {NoOne}]
              /\ head \in Slots /\ count \in 0 .. Capacity
              /\ arg[g] \in Fifo!Entry
          OBVIOUS
        <4>3. RingOf(Overwritten(entries, head, arg[g]), NextSlot(head), Grown(count))
                = Fifo!Pushed(RingOf(entries, head, count), arg[g])
          <5> HIDE DEF Inv, TypeOK, MutualExclusion, RingInv, Goes, Places, Locked
          <5> QED
            BY <4>2, OverwritePushes
        <4>4. RingContents' = RingOf(entries', head', count')
          BY DEF RingContents
        <4> QED
          BY <4>1, <4>3, <4>4 DEF RingContents
      <3>3. UNCHANGED <<mu, snapshot, arg>> /\ pc'[g] = "setPublish"
        BY <2>5 DEF SetRing
      <3> QED
        BY <3>1, <3>2, <3>3, NoOneIsNobody DEF Between
    <2>6. CASE SetPublish(g)
      <3>1. mu = g /\ mu' = g /\ pc'[g] = "unlock"
        BY <2>2, <2>6 DEF SetPublish
      <3>2. snapshot'.entries = RingContents
        BY <2>6 DEF SetPublish, Snapshot
      <3>3. RingContents' = RingContents
        BY <2>6 DEF SetPublish, ring, RingContents
      <3> QED
        BY <3>1, <3>2, <3>3, NoOneIsNobody DEF Between
    <2>7. CASE InvalidateRing(g)
      <3>1. mu = g /\ mu' = g /\ pc'[g] = "invPublish"
        BY <2>2, <2>7 DEF InvalidateRing
      <3>2. RingContents' = << >>
        BY <2>7, ContentsOfAnEmptyRing DEF InvalidateRing, RingContents
      <3> QED
        BY <3>1, <3>2, NoOneIsNobody DEF Between
    <2>8. CASE InvalidatePublish(g)
      <3>1. mu = g /\ mu' = g /\ pc'[g] = "unlock"
        BY <2>2, <2>8 DEF InvalidatePublish
      <3>2. RingContents = << >>
        BY <2>2, <2>8 DEF InvalidatePublish, Between
      <3>3. snapshot'.entries = << >> /\ RingContents' = RingContents
        BY <2>8, EmptySnapshot DEF InvalidatePublish, ring, RingContents
      <3> QED
        BY <3>1, <3>2, <3>3, NoOneIsNobody DEF Between
    <2>9. CASE Unlock(g)
      BY <2>2, <2>9, NoOneIsNobody DEF Unlock, Between, RingContents, ring
    <2> QED
      BY <1>4, <2>1, <2>3, <2>4, <2>5, <2>6, <2>7, <2>8, <2>9 DEF Proceed
  <1> QED
    BY <1>1, <1>2, <1>3, <1>4, Steps

-----------------------------------------------------------------------------

\* Inv holds in every reachable state.
THEOREM Invariance == Spec => []Inv
  <1>1. Inv /\ [Next]_vars => Inv'
    BY TypeStep, MutexStep, RingStep DEF Inv
  <1> QED
    BY <1>1, InitInv, PTL DEF Spec

\* Every variable keeps its type: head stays in the ring, count stays within
\* the capacity, and every snapshot's index is the one of its entries.
THEOREM TypeCorrect == Spec => []TypeOK
  BY Invariance, PTL DEF Inv

\* One goroutine at a time is between Lock and Unlock.
THEOREM Exclusion == Spec => []MutualExclusion
  BY Invariance, PTL DEF Inv

\* While the mutex is free readers see exactly the ring, oldest entry first.
THEOREM SnapshotCorrect == Spec => []SnapshotIsRing
  <1>1. Inv => SnapshotIsRing
    BY DEF Inv, RingInv, SnapshotIsRing
  <1> QED
    BY <1>1, Invariance, PTL

\* The published snapshots implement the FIFO cache.
THEOREM Implements == Spec => FifoSpec
  <1>1. Init => Fifo!Init
    BY EmptySnapshot DEF Init, Fifo!Init
  <1>2. ASSUME Inv, [Next]_vars
        PROVE  [Fifo!Next]_(snapshot.entries)
    <2> USE DEF Inv, TypeOK, MutualExclusion, RingInv, Goes, Locked
    <2>1. CASE UNCHANGED snapshot
      BY <2>1
    <2>2. ASSUME NEW g \in Goroutines, SetPublish(g)
          PROVE  Fifo!Next
      <3>0. mu = g /\ pc[g] = "setPublish"
        BY <1>2, <2>2 DEF SetPublish
      <3>1. /\ RingContents = Fifo!Pushed(snapshot.entries, arg[g])
            /\ ~Present(snapshot, arg[g].key)
        BY <1>2, <3>0 DEF Between
      <3>2. snapshot'.entries = Fifo!Pushed(snapshot.entries, arg[g])
        BY <2>2, <3>1 DEF SetPublish, Snapshot
      <3>3. ~Fifo!Holds(snapshot.entries, arg[g].key)
        <4>1. IsSnapshot(snapshot)
          BY <1>2
        <4> QED
          BY <3>1, <4>1, PresentIsHeld
      <3>4. /\ arg[g].key \in Keys /\ arg[g].plan \in Plans
            /\ arg[g] = [key |-> arg[g].key, plan |-> arg[g].plan]
        <4>1. arg[g] \in [key : Keys, plan : Plans]
          BY <1>2 DEF Fifo!Entry
        <4> QED
          BY <4>1
      <3>5. Fifo!Insert(arg[g].key, arg[g].plan)
        BY <3>2, <3>3, <3>4 DEF Fifo!Insert
      <3> QED
        BY <3>4, <3>5 DEF Fifo!Next
    <2>3. ASSUME NEW g \in Goroutines, InvalidatePublish(g)
          PROVE  Fifo!Next
      BY <2>3, EmptySnapshot DEF InvalidatePublish, Fifo!Next, Fifo!Clear
    <2>4. ASSUME NEW g \in Goroutines, Call(g) \/ Acquire(g)
          PROVE  UNCHANGED snapshot
      BY <2>4 DEF Call, GetLoad, SetCall, InvalidateCall, StatsCall,
                  Acquire, SetLock, InvalidateLock, Lock, StatsCount
    <2>5. ASSUME NEW g \in Goroutines, Proceed(g),
                 ~SetPublish(g), ~InvalidatePublish(g)
          PROVE  UNCHANGED snapshot
      BY <2>5 DEF Proceed, GetLookup, SetPresent, SetAbsent, SetRing,
                  InvalidateRing, Unlock, StatsHits, StatsMisses, StatsEvictions
    <2>6. CASE UNCHANGED vars
      BY <2>6 DEF vars
    <2> QED
      BY <1>2, <2>1, <2>2, <2>3, <2>4, <2>5, <2>6, Steps
  <1> QED
    BY <1>1, <1>2, Invariance, PTL DEF Spec, FifoSpec, Fifo!Spec
-----------------------------------------------------------------------------

\* What the history and the counters say at place p of the mutex's holder: an
\* eviction is counted before the entry that causes it is published, and the
\* ring is emptied before the entries it held are dropped.
Accounted(p) ==
    CASE p = "setRing"    ->
            inserted + (IF count < Capacity THEN 0 ELSE 1) = count + evictions + dropped
      [] p = "setPublish" -> inserted + 1 = count + evictions + dropped
      [] p = "invPublish" -> inserted = Len(snapshot.entries) + evictions + dropped
      [] OTHER            -> inserted = count + evictions + dropped

EvictionInv ==
    /\ mu = NoOne => inserted = count + evictions + dropped
    /\ \A g \in Goroutines : mu = g => Accounted(pc[g])

\* The ring holds count entries, and so does the snapshot that agrees with it.
LEMMA RingHoldsCount ==
    ASSUME TypeOK
    PROVE  Len(RingContents) = count
  BY ContentsType DEF TypeOK, RingContents

\* How each step moves the counters relative to the ring.
LEMMA EvictionStep ==
    ASSUME Inv, EvictionInv, [Next]_vars
    PROVE  EvictionInv'
  <1> USE DEF EvictionInv, Accounted, Goes, Locked
  <1>0. /\ count \in Nat /\ evictions \in Nat /\ inserted \in Nat /\ dropped \in Nat
        /\ count <= Capacity /\ Capacity \in Nat
        /\ pc \in [Goroutines -> Places]
    BY CapacityPositive DEF Inv, TypeOK
  <1>1. \A g \in Goroutines : pc[g] \in Locked <=> mu = g
    BY DEF Inv, MutualExclusion
  <1>2. CASE UNCHANGED vars
    BY <1>2 DEF vars, ring, counters, history
  <1>3. ASSUME NEW g \in Goroutines, Call(g)
        PROVE  EvictionInv'
    <2>1. /\ UNCHANGED <<mu, ring, snapshot, evictions, history>>
          /\ pc[g] = "idle"
          /\ \A h \in Goroutines \ {g} : pc'[h] = pc[h]
      BY <1>0, <1>3 DEF Call, GetLoad, SetCall, InvalidateCall, StatsCall, Begins, counters
    <2> QED
      BY <1>1, <2>1 DEF ring, history
  <1>4. ASSUME NEW g \in Goroutines, Acquire(g)
        PROVE  EvictionInv'
    <2>1. /\ UNCHANGED <<ring, snapshot, evictions, history>>
          /\ mu = NoOne /\ mu' \in {g, NoOne}
          /\ pc'[g] \in {"setCheck", "invRing", "statsHits"}
      BY <1>0, <1>4 DEF Acquire, SetLock, InvalidateLock, StatsCount, Lock, counters
    <2> QED
      BY <2>1, NoOneIsNobody DEF ring, history
  <1>5. ASSUME NEW g \in Goroutines, Proceed(g)
        PROVE  EvictionInv'
    <2>0. pc[g] \in Locked => mu = g /\ mu # NoOne /\ Accounted(pc[g])
      BY <1>1, NoOneIsNobody
    <2>1. CASE GetLookup(g) \/ StatsHits(g) \/ StatsMisses(g) \/ StatsEvictions(g)
      <3>1. /\ UNCHANGED <<mu, ring, snapshot, evictions, history>>
            /\ pc[g] \notin Locked
            /\ \A h \in Goroutines \ {g} : pc'[h] = pc[h]
        BY <1>0, <2>1 DEF GetLookup, StatsHits, StatsMisses, StatsEvictions, counters
      <3> QED
        BY <1>1, <3>1 DEF ring, history
    <2>2. CASE SetPresent(g)
      BY <1>0, <2>0, <2>2 DEF SetPresent, ring, counters, history
    <2>3. CASE SetAbsent(g)
      BY <1>0, <2>0, <2>3 DEF SetAbsent, ring, history
    <2>4. CASE SetRing(g)
      BY <1>0, <2>0, <2>4 DEF SetRing, counters, history
    <2>5. CASE SetPublish(g)
      BY <1>0, <2>0, <2>5 DEF SetPublish, ring, counters
    <2>6. CASE InvalidateRing(g)
      <3>1. mu = g /\ pc[g] = "invRing"
        BY <2>0, <2>6 DEF InvalidateRing
      <3>2. Len(snapshot.entries) = count
        BY <3>1, RingHoldsCount DEF Inv, RingInv, Between
      <3> QED
        BY <1>0, <2>0, <2>6, <3>1, <3>2 DEF InvalidateRing, counters, history
    <2>7. CASE InvalidatePublish(g)
      <3>1. mu = g /\ pc[g] = "invPublish"
        BY <2>0, <2>7 DEF InvalidatePublish
      <3>2. count = 0
        <4>1. RingContents = << >>
          BY <3>1 DEF Inv, RingInv, Between
        <4> QED
          BY <4>1, RingHoldsCount DEF Inv
      <3>3. Len(snapshot.entries) \in Nat
        BY DEF Inv, TypeOK, IsSnapshot
      <3> QED
        BY <1>0, <2>0, <2>7, <3>1, <3>2, <3>3 DEF InvalidatePublish, ring, counters
    <2>8. CASE Unlock(g)
      BY <1>0, <1>1, <2>0, <2>8, NoOneIsNobody DEF Unlock, ring, counters, history
    <2> QED
      BY <1>5, <2>1, <2>2, <2>3, <2>4, <2>5, <2>6, <2>7, <2>8 DEF Proceed
  <1> QED
    BY <1>2, <1>3, <1>4, <1>5, Steps

\* While the mutex is free every entry a Set published is in the snapshot, was
\* evicted and counted once, or was removed by Invalidate.
THEOREM EvictionsCounted == Spec => []EvictionsAccounted
  <1>1. Init => EvictionInv
    BY NoOneIsNobody DEF Init, EvictionInv
  <1>2. Inv /\ EvictionInv => EvictionsAccounted
    BY RingHoldsCount DEF Inv, RingInv, EvictionInv, EvictionsAccounted
  <1>3. Inv /\ EvictionInv /\ [Next]_vars => EvictionInv'
    BY EvictionStep
  <1> QED
    BY <1>1, <1>2, <1>3, Invariance, PTL DEF Spec
=============================================================================
