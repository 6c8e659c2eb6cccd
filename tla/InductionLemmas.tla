--------------------------- MODULE InductionLemmas ---------------------------
(***************************************************************************)
(* Induction and recursive definitions over sets, functions and numbers    *)
(* given as data: no fact takes an operator as a parameter, so each can be *)
(* cited by a proof about the functions a module defines recursively.      *)
(***************************************************************************)
EXTENDS Integers, FiniteSets, FiniteSetTheorems, WellFoundedInduction, TLAPS

\* A set of naturals that holds a number whenever it holds all the smaller ones
\* holds every natural.
THEOREM NatSetInduction ==
    ASSUME NEW S, \A n \in Nat : (0 .. n - 1 \subseteq S) => n \in S
    PROVE  Nat \subseteq S
  <1> DEFINE R == OpToRel(<, Nat)
             T == Nat \ S
  <1> SUFFICES ASSUME T # {} PROVE FALSE
    OBVIOUS
  <1>1. IsWellFoundedOn(R, Nat)
    BY NatLessThanWellFounded
  <1>2. \A x, y \in Nat : x < y => <<x, y>> \in R
    BY DEF OpToRel
  <1>3. T \subseteq Nat
    OBVIOUS
  <1> HIDE DEF R, T
  <1>4. PICK x \in T : \A y \in T : ~(<<y, x>> \in R)
    BY <1>1, <1>3, WFMin
  <1>5. 0 .. x - 1 \subseteq S
    <2> SUFFICES ASSUME NEW y \in 0 .. x - 1, y \notin S PROVE FALSE
      OBVIOUS
    <2>1. x \in Nat /\ y \in T /\ y < x
      BY DEF T
    <2>2. <<y, x>> \in R
      BY <1>2, <2>1 DEF T
    <2> QED
      BY <1>4, <2>1, <2>2
  <1> QED
    BY <1>4, <1>5 DEF T

\* Induction along a rank: what holds of an element whenever it holds of every
\* element of a smaller rank holds of all.
THEOREM RankInduction ==
    ASSUME NEW I, NEW rank \in [I -> Nat], NEW P,
           \A i \in I : (\A j \in I : rank[j] < rank[i] => j \in P) => i \in P
    PROVE  I \subseteq P
  <1> DEFINE S == {n \in Nat : \A i \in I : rank[i] = n => i \in P}
  <1>1. ASSUME NEW n \in Nat, 0 .. n - 1 \subseteq S
        PROVE  n \in S
    <2>1. ASSUME NEW i \in I, rank[i] = n, NEW j \in I, rank[j] < rank[i]
          PROVE  j \in P
      <3>1. rank[j] \in 0 .. n - 1
        BY <2>1
      <3> QED
        BY <1>1, <3>1
    <2> QED
      BY <2>1
  <1> HIDE DEF S
  <1>2. Nat \subseteq S
    BY <1>1, NatSetInduction
  <1> QED
    BY <1>2 DEF S

\* The same on an interval from 0.
THEOREM IntervalInduction ==
    ASSUME NEW e \in Nat, NEW P,
           \A i \in 0 .. e : (\A j \in 0 .. e : j < i => j \in P) => i \in P
    PROVE  0 .. e \subseteq P
  <1> DEFINE I == 0 .. e
             rank == [i \in I |-> i]
  <1>1. rank \in [I -> Nat]
    OBVIOUS
  <1>2. \A i \in I : (\A j \in I : rank[j] < rank[i] => j \in P) => i \in P
    OBVIOUS
  <1> HIDE DEF rank, I
  <1>3. I \subseteq P
    BY <1>1, <1>2, RankInduction
  <1> QED
    BY <1>3 DEF I

\* What holds at 0 and of a number when it holds of the one before holds up to the end.
THEOREM UpwardInduction ==
    ASSUME NEW e \in Nat, NEW P, 0 \in P, \A i \in 0 .. e - 1 : i \in P => i + 1 \in P
    PROVE  0 .. e \subseteq P
  <1>1. ASSUME NEW i \in 0 .. e, \A j \in 0 .. e : j < i => j \in P
        PROVE  i \in P
    <2>1. CASE i = 0
      BY <2>1
    <2>2. CASE i # 0
      <3>1. i - 1 \in 0 .. e - 1 /\ i - 1 \in 0 .. e /\ i - 1 < i /\ i = (i - 1) + 1
        BY <2>2
      <3> QED
        BY <1>1, <3>1
    <2> QED
      BY <2>1, <2>2
  <1> QED
    BY <1>1, IntervalInduction

\* The same from the end down.
THEOREM DownwardInduction ==
    ASSUME NEW e \in Nat, NEW P, e \in P, \A i \in 0 .. e - 1 : i + 1 \in P => i \in P
    PROVE  0 .. e \subseteq P
  <1> DEFINE Q == {i \in 0 .. e : e - i \in P}
  <1>1. 0 \in Q
    OBVIOUS
  <1>2. ASSUME NEW i \in 0 .. e - 1, i \in Q
        PROVE  i + 1 \in Q
    <2>1. e - (i + 1) \in 0 .. e - 1 /\ (e - (i + 1)) + 1 = e - i
      OBVIOUS
    <2> QED
      BY <1>2, <2>1
  <1> HIDE DEF Q
  <1>3. 0 .. e \subseteq Q
    BY <1>1, <1>2, UpwardInduction
  <1>4. ASSUME NEW i \in 0 .. e
        PROVE  i \in P
    <2>1. e - i \in Q /\ e - (e - i) = i
      BY <1>3
    <2> QED
      BY <2>1 DEF Q
  <1> QED
    BY <1>4

\* A set of naturals that is not empty has a smallest one, and if it ends a
\* largest one.
THEOREM SmallestExists ==
    ASSUME NEW s \in SUBSET Nat, s # {}
    PROVE  \E x \in s : \A y \in s : x <= y
  <1> SUFFICES ASSUME \A x \in s : \E y \in s : y < x
               PROVE  FALSE
    OBVIOUS
  <1> DEFINE S == Nat \ s
  <1>1. ASSUME NEW n \in Nat, 0 .. n - 1 \subseteq S
        PROVE  n \in S
    <2>1. ASSUME n \in s PROVE FALSE
      <3>1. PICK y \in s : y < n
        BY <2>1
      <3>2. y \in 0 .. n - 1
        BY <3>1
      <3> QED
        BY <1>1, <3>2
    <2> QED
      BY <2>1
  <1> HIDE DEF S
  <1>2. Nat \subseteq S
    BY <1>1, NatSetInduction
  <1> QED
    BY <1>2 DEF S

THEOREM LargestExists ==
    ASSUME NEW n \in Nat, NEW s \in SUBSET (0 .. n), s # {}
    PROVE  \E x \in s : \A y \in s : x >= y
  <1> DEFINE t == {n - x : x \in s}
  <1>1. t \in SUBSET Nat /\ t # {}
    <2>1. \A x \in s : n - x \in Nat
      OBVIOUS
    <2> QED
      BY <2>1
  <1> HIDE DEF t
  <1>2. PICK d \in t : \A y \in t : d <= y
    BY <1>1, SmallestExists
  <1>3. PICK x \in s : d = n - x
    BY DEF t
  <1>4. ASSUME NEW y \in s
        PROVE  x >= y
    <2>1. n - y \in t /\ x \in 0 .. n /\ y \in 0 .. n
      BY DEF t
    <2>2. n - x <= n - y
      BY <1>2, <1>3, <2>1
    <2> QED
      BY <2>1, <2>2
  <1> QED
    BY <1>4

\* A recursive definition that goes from an element to one of a smaller rank,
\* and ends at the elements of ends, with values in D.
Recursion(I, m, rank, D, ends, own, prev, step) ==
    /\ m \in Nat /\ rank \in [I -> 0 .. m] /\ own \in [I -> D]
    /\ \A i \in I \ ends : prev[i] \in I /\ rank[prev[i]] < rank[i] /\ step[i] \in [D -> D]

Solves(f, I, ends, own, prev, step) ==
    \A i \in I : f[i] = IF i \in ends THEN own[i] ELSE step[i][f[prev[i]]]

\* Such a definition has a solution.
THEOREM RankRecursion ==
    ASSUME NEW I, NEW m, NEW rank, NEW D, NEW ends, NEW own, NEW prev, NEW step,
           Recursion(I, m, rank, D, ends, own, prev, step)
    PROVE  \E f \in [I -> D] : Solves(f, I, ends, own, prev, step)
  <1>0. /\ m \in Nat /\ rank \in [I -> 0 .. m] /\ own \in [I -> D]
        /\ \A i \in I \ ends : prev[i] \in I /\ rank[prev[i]] < rank[i] /\ step[i] \in [D -> D]
    BY DEF Recursion
  <1> DEFINE Next(g) == [i \in I |-> IF i \in ends THEN own[i] ELSE step[i][g[prev[i]]]]
             S == {n \in Nat : \E g \in [I -> D] : \A i \in I : rank[i] < n => g[i] = Next(g)[i]}
  <1>1. ASSUME NEW g \in [I -> D]
        PROVE  Next(g) \in [I -> D]
    BY <1>0
  <1>2. ASSUME NEW n \in Nat, n \in S
        PROVE  n + 1 \in S
    <2>1. PICK g \in [I -> D] : \A i \in I : rank[i] < n => g[i] = Next(g)[i]
      BY <1>2
    <2> DEFINE h == Next(g)
    <2>2. h \in [I -> D]
      BY <1>1
    <2>3. ASSUME NEW i \in I, rank[i] < n + 1
          PROVE  h[i] = Next(h)[i]
      <3>1. CASE i \in ends
        BY <3>1
      <3>2. CASE i \notin ends
        <4>1. prev[i] \in I /\ rank[prev[i]] < n
          BY <1>0, <2>3, <3>2
        <4>2. g[prev[i]] = h[prev[i]]
          BY <2>1, <4>1
        <4>3. h[i] = step[i][g[prev[i]]] /\ Next(h)[i] = step[i][h[prev[i]]]
          BY <3>2
        <4> QED
          BY <4>2, <4>3
      <3> QED
        BY <3>1, <3>2
    <2> HIDE DEF h, Next
    <2> QED
      BY <2>2, <2>3
  <1>3. 0 \in S
    <2>1. own \in [I -> D] /\ \A i \in I : ~(rank[i] < 0)
      BY <1>0
    <2> QED
      BY <2>1
  <1>4. m + 1 \in S
    <2> HIDE DEF S
    <2>1. ASSUME NEW n \in Nat, 0 .. n - 1 \subseteq S
          PROVE  n \in S
      <3>1. CASE n = 0
        BY <1>3, <3>1
      <3>2. CASE n # 0
        <4>1. n - 1 \in Nat /\ n - 1 \in S /\ n = (n - 1) + 1
          BY <2>1, <3>2
        <4> QED
          BY <1>2, <4>1
      <3> QED
        BY <3>1, <3>2
    <2>2. Nat \subseteq S
      BY <2>1, NatSetInduction
    <2> QED
      BY <1>0, <2>2
  <1>5. PICK f \in [I -> D] : \A i \in I : rank[i] < m + 1 => f[i] = Next(f)[i]
    BY <1>4
  <1>6. \A i \in I : rank[i] < m + 1
    BY <1>0
  <1> QED
    BY <1>5, <1>6 DEF Solves

\* A recursive definition whose value at an element is decided by its values at
\* elements of a smaller rank, however many they are: phi is what the definition
\* makes of a function.
Decided(phi, I, rank, D) ==
    /\ rank \in [I -> Nat] /\ phi \in [[I -> D] -> [I -> D]]
    /\ \A g, h \in [I -> D], i \in I :
          (\A j \in I : rank[j] < rank[i] => g[j] = h[j]) => phi[g][i] = phi[h][i]

\* Such a definition has a solution.
THEOREM DecidedRecursion ==
    ASSUME NEW I, NEW rank, NEW D, NEW d \in D, NEW phi, Decided(phi, I, rank, D)
    PROVE  \E f \in [I -> D] : f = phi[f]
  <1> DEFINE Upto(g, n) == \A i \in I : rank[i] < n => g[i] = phi[g][i]
             S == {n \in Nat : \E g \in [I -> D] : Upto(g, n)}
             At(n) == CHOOSE g \in [I -> D] : Upto(g, n)
             f == [i \in I |-> At(rank[i] + 1)[i]]
  <1>1. /\ rank \in [I -> Nat] /\ phi \in [[I -> D] -> [I -> D]]
        /\ \A g, h \in [I -> D], i \in I :
              (\A j \in I : rank[j] < rank[i] => g[j] = h[j]) => phi[g][i] = phi[h][i]
    BY DEF Decided
  <1>2. Nat \subseteq S
    <2>1. 0 \in S
      <3>1. [i \in I |-> d] \in [I -> D] /\ \A i \in I : ~(rank[i] < 0)
        BY <1>1
      <3> QED
        BY <3>1
    <2>2. ASSUME NEW n \in Nat, n \in S
          PROVE  n + 1 \in S
      <3>1. PICK g \in [I -> D] : Upto(g, n)
        BY <2>2
      <3> DEFINE h == phi[g]
      <3>2. h \in [I -> D]
        BY <1>1
      <3>3. ASSUME NEW i \in I, rank[i] < n + 1
            PROVE  h[i] = phi[h][i]
        <4>1. ASSUME NEW j \in I, rank[j] < rank[i]
              PROVE  g[j] = h[j]
          <5>1. rank[j] < n
            BY <1>1, <3>3, <4>1
          <5> QED
            BY <3>1, <5>1
        <4> HIDE DEF h
        <4>2. phi[g][i] = phi[h][i]
          BY <1>1, <3>2, <4>1
        <4> QED
          BY <4>2 DEF h
      <3> HIDE DEF h
      <3> QED
        BY <3>2, <3>3
    <2> HIDE DEF S
    <2>3. ASSUME NEW n \in Nat, 0 .. n - 1 \subseteq S
          PROVE  n \in S
      <3>1. CASE n = 0
        BY <2>1, <3>1
      <3>2. CASE n # 0
        <4>1. n - 1 \in Nat /\ n - 1 \in S /\ n = (n - 1) + 1
          BY <2>3, <3>2
        <4> QED
          BY <2>2, <4>1
      <3> QED
        BY <3>1, <3>2
    <2> QED
      BY <2>3, NatSetInduction
  <1>3. ASSUME NEW n \in Nat
        PROVE  At(n) \in [I -> D] /\ Upto(At(n), n)
    <2>1. \E g \in [I -> D] : Upto(g, n)
      BY <1>2
    <2> QED
      BY <2>1
  <1>4. ASSUME NEW n \in Nat, NEW g \in [I -> D], NEW h \in [I -> D], Upto(g, n), Upto(h, n)
        PROVE  \A i \in I : rank[i] < n => g[i] = h[i]
    <2> DEFINE P == {i \in I : rank[i] < n => g[i] = h[i]}
    <2>1. ASSUME NEW i \in I, \A j \in I : rank[j] < rank[i] => j \in P
          PROVE  i \in P
      <3> SUFFICES ASSUME rank[i] < n PROVE g[i] = h[i]
        OBVIOUS
      <3>1. \A j \in I : rank[j] < rank[i] => g[j] = h[j]
        BY <1>1, <2>1
      <3>2. phi[g][i] = phi[h][i]
        BY <1>1, <3>1
      <3> QED
        BY <1>4, <3>2
    <2> HIDE DEF P
    <2>2. I \subseteq P
      BY <1>1, <2>1, RankInduction
    <2> QED
      BY <2>2 DEF P
  <1>5. f \in [I -> D]
    <2> HIDE DEF At
    <2> QED
      BY <1>1, <1>3
  <1>6. ASSUME NEW i \in I
        PROVE  f[i] = phi[f][i]
    <2> DEFINE g == At(rank[i] + 1)
    <2>1. rank[i] \in Nat /\ rank[i] + 1 \in Nat
      BY <1>1
    <2>2. g \in [I -> D] /\ Upto(g, rank[i] + 1)
      BY <1>3, <2>1
    <2>3. ASSUME NEW j \in I, rank[j] < rank[i]
          PROVE  f[j] = g[j]
      <3>1. rank[j] \in Nat /\ rank[j] + 1 \in Nat
        BY <1>1
      <3>2. At(rank[j] + 1) \in [I -> D] /\ Upto(At(rank[j] + 1), rank[j] + 1)
        BY <1>3, <3>1
      <3>3. Upto(g, rank[j] + 1)
        BY <1>1, <2>2, <2>3
      <3> HIDE DEF At, g, Upto
      <3>4. At(rank[j] + 1)[j] = g[j]
        BY <1>4, <2>2, <3>1, <3>2, <3>3
      <3> QED
        BY <3>4
    <2>4. f[i] = g[i]
      OBVIOUS
    <2>5. g[i] = phi[g][i]
      BY <2>1, <2>2
    <2> HIDE DEF g, f, At
    <2>6. phi[f][i] = phi[g][i]
      BY <1>1, <1>5, <2>2, <2>3
    <2> QED
      BY <2>4, <2>5, <2>6
  <1>7. phi[f] \in [I -> D]
    BY <1>1, <1>5
  <1> HIDE DEF f
  <1>8. f = phi[f]
    BY <1>5, <1>6, <1>7
  <1> QED
    BY <1>5, <1>8

\* The walk from a number to its parent, a smaller one, up to 0 or to a number
\* of stops.
Climb(f, e, z, stops, own, parent) ==
    f = [i \in 0 .. e |-> IF i = 0 THEN z ELSE IF i \in stops THEN own[i] ELSE f[parent[i]]]

THEOREM ClimbEnds ==
    ASSUME NEW e \in Nat, NEW D, NEW z \in D, NEW stops, NEW own, NEW parent,
           \A i \in 1 .. e : IF i \in stops THEN own[i] \in D ELSE parent[i] \in 0 .. i - 1
    PROVE  \E f \in [0 .. e -> D] : Climb(f, e, z, stops, own, parent)
  <1> DEFINE I == 0 .. e
             rank == [i \in I |-> i]
             ends == {i \in I : i = 0 \/ i \in stops}
             start == [i \in I |-> IF i = 0 \/ i \notin stops THEN z ELSE own[i]]
             step == [i \in I |-> [d \in D |-> d]]
  <1>1. Recursion(I, e, rank, D, ends, start, parent, step)
    <2>1. rank \in [I -> 0 .. e] /\ start \in [I -> D]
      OBVIOUS
    <2>2. \A i \in I \ ends : parent[i] \in I /\ rank[parent[i]] < rank[i] /\ step[i] \in [D -> D]
      OBVIOUS
    <2> HIDE DEF I, rank, ends, start, step
    <2> QED
      BY <2>1, <2>2 DEF Recursion
  <1>2. PICK f \in [I -> D] : Solves(f, I, ends, start, parent, step)
    <2> HIDE DEF I, rank, ends, start, step
    <2> QED
      BY <1>1, RankRecursion
  <1>3. ASSUME NEW i \in I
        PROVE  f[i] = IF i = 0 THEN z ELSE IF i \in stops THEN own[i] ELSE f[parent[i]]
    <2>1. f[i] = IF i \in ends THEN start[i] ELSE step[i][f[parent[i]]]
      BY <1>2 DEF Solves
    <2>2. CASE i \in ends
      BY <2>1, <2>2
    <2>3. CASE i \notin ends
      <3>1. f[parent[i]] \in D
        BY <1>2, <2>3
      <3> QED
        BY <2>1, <2>3, <3>1
    <2> QED
      BY <2>2, <2>3
  <1>4. Climb(f, e, z, stops, own, parent)
    BY <1>2, <1>3 DEF Climb
  <1> QED
    BY <1>2, <1>4
=============================================================================
