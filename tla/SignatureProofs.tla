---------------------------- MODULE SignatureProofs ----------------------------
(***************************************************************************)
(* Proofs that the matcher of signatures is the regular expression         *)
(* jsonata-js makes of one, for every signature and call; that what skips  *)
(* it answers as it would; and that a call keeps its arguments.            *)
(***************************************************************************)
EXTENDS SignatureCalls, InductionLemmas

\* The letters of signatures, and what an array may be said to hold.
Letters == UNION {a.symbols : a \in {b \in Alphabets : b.kind = "signature"}}
Contents == Letters \cup {"none"}

\* A compiled parameter.
Params ==
    [symbols : SUBSET AllSymbols, optional : BOOLEAN, variadic : BOOLEAN, lazy : BOOLEAN,
     context : BOOLEAN, anyFocus : BOOLEAN, array : BOOLEAN, subtype : Contents]

LEMMA LeastIn ==
    ASSUME NEW s \in SUBSET Nat, s # {}
    PROVE  Min(s) \in s /\ \A x \in s : Min(s) <= x
  <1>1. \E x \in s : \A y \in s : x <= y
    BY SmallestExists
  <1> QED
    BY <1>1 DEF Min

LEMMA MostIn ==
    ASSUME NEW n \in Nat, NEW s \in SUBSET (0 .. n), s # {}
    PROVE  Max(s) \in s /\ \A x \in s : Max(s) >= x
  <1>1. \E x \in s : \A y \in s : x >= y
    BY LargestExists
  <1> QED
    BY <1>1 DEF Max

-----------------------------------------------------------------------------
(* Tables: from which places the parameters from p on match the symbols    *)
(* after the first a.                                                      *)

\* The numbers of symbols parameter p may take after the first a, so that the rest
\* match.
Works(params, symbols, T, p, a) == {k \in Fitting(params[p], symbols, a) : T[<<p + 1, a + k>>]}

\* A table over the first n parameters, if anchored for all the symbols.
Table(T, params, symbols, n, anchored) ==
    /\ T \in [(1 .. n + 1) \X (0 .. Len(symbols)) -> BOOLEAN]
    /\ \A a \in 0 .. Len(symbols) : T[<<n + 1, a>>] <=> (~anchored \/ a = Len(symbols))
    /\ \A p \in 1 .. n : \A a \in 0 .. Len(symbols) :
            T[<<p, a>>] <=> Works(params, symbols, T, p, a) # {}

\* A parameter takes no more symbols than are left.
LEMMA FittingRange ==
    ASSUME NEW param, NEW symbols \in Seq(AllSymbols), NEW a \in 0 .. Len(symbols),
           NEW k \in Fitting(param, symbols, a)
    PROVE  k \in Nat /\ a + k \in 0 .. Len(symbols) /\ a + k >= a
  BY DEF Fitting

\* There is one table for some parameters and symbols.
LEMMA OneTable ==
    ASSUME NEW params, NEW symbols \in Seq(AllSymbols), NEW n \in Nat, NEW anchored \in BOOLEAN,
           NEW T, Table(T, params, symbols, n, anchored),
           NEW U, Table(U, params, symbols, n, anchored)
    PROVE  T = U
  <1> DEFINE m == Len(symbols)
             P == {i \in 0 .. n : \A a \in 0 .. m : T[<<i + 1, a>>] = U[<<i + 1, a>>]}
  <1>0. m \in Nat
    OBVIOUS
  <1>1. n \in P
    BY DEF Table
  <1>2. ASSUME NEW i \in 0 .. n - 1, i + 1 \in P
        PROVE  i \in P
    <2>1. ASSUME NEW a \in 0 .. m
          PROVE  T[<<i + 1, a>>] = U[<<i + 1, a>>]
      <3>1. i + 1 \in 1 .. n
        OBVIOUS
      <3>2. Works(params, symbols, T, i + 1, a) = Works(params, symbols, U, i + 1, a)
        <4>1. ASSUME NEW k \in Fitting(params[i + 1], symbols, a)
              PROVE  T[<<i + 1 + 1, a + k>>] = U[<<i + 1 + 1, a + k>>]
          <5>1. a + k \in 0 .. m
            BY FittingRange
          <5> QED
            BY <1>2, <5>1
        <4> QED
          BY <4>1 DEF Works
      <3>3. T[<<i + 1, a>>] \in BOOLEAN /\ U[<<i + 1, a>>] \in BOOLEAN
        BY <3>1 DEF Table
      <3> QED
        BY <3>1, <3>2, <3>3 DEF Table
    <2> QED
      BY <2>1
  <1> HIDE DEF P
  <1>3. 0 .. n \subseteq P
    BY <1>1, <1>2, DownwardInduction
  <1>4. ASSUME NEW p \in 1 .. n + 1, NEW a \in 0 .. m
        PROVE  T[<<p, a>>] = U[<<p, a>>]
    <2>1. p - 1 \in P /\ p - 1 + 1 = p
      BY <1>3
    <2> QED
      BY <2>1 DEF P
  <1> QED
    BY <1>4 DEF Table

\* What the table of Reaches is made of.
ReachUnfolded(f, params, symbols, n, anchored) ==
    f = [cell \in (1 .. n + 1) \X (0 .. Len(symbols)) |->
            IF cell[1] = n + 1 THEN ~anchored \/ cell[2] = Len(symbols)
            ELSE \/ params[cell[1]].optional /\ f[<<cell[1] + 1, cell[2]>>]
                 \/ /\ Accepts(params, symbols, cell[1], cell[2])
                    /\ \/ f[<<cell[1] + 1, cell[2] + 1>>]
                       \/ params[cell[1]].variadic /\ f[<<cell[1], cell[2] + 1>>]]

LEMMA ReachUnfolds ==
    ASSUME NEW params \in Seq(Params), NEW symbols \in Seq(AllSymbols), NEW n \in 0 .. Len(params),
           NEW anchored \in BOOLEAN
    PROVE  LET f == Reaches(params, symbols, n, anchored)
           IN  /\ f \in [(1 .. n + 1) \X (0 .. Len(symbols)) -> BOOLEAN]
               /\ ReachUnfolded(f, params, symbols, n, anchored)
  <1> DEFINE m == Len(symbols)
             I == (1 .. n + 1) \X (0 .. m)
             rank == [c \in I |-> (n + 1 - c[1]) + (m - c[2])]
             Body(f) == [c \in I |->
                IF c[1] = n + 1 THEN ~anchored \/ c[2] = m
                ELSE \/ params[c[1]].optional /\ f[<<c[1] + 1, c[2]>>]
                     \/ /\ Accepts(params, symbols, c[1], c[2])
                        /\ \/ f[<<c[1] + 1, c[2] + 1>>]
                           \/ params[c[1]].variadic /\ f[<<c[1], c[2] + 1>>]]
             phi == [f \in [I -> BOOLEAN] |-> Body(f)]
  <1>1. m \in Nat /\ n \in Nat
    OBVIOUS
  <1>2. ASSUME NEW c \in I, c[1] # n + 1
        PROVE  /\ c[1] \in 1 .. n /\ c[2] \in 0 .. m
               /\ <<c[1] + 1, c[2]>> \in I /\ rank[<<c[1] + 1, c[2]>>] < rank[c]
               /\ Accepts(params, symbols, c[1], c[2]) =>
                    /\ <<c[1] + 1, c[2] + 1>> \in I /\ rank[<<c[1] + 1, c[2] + 1>>] < rank[c]
                    /\ <<c[1], c[2] + 1>> \in I /\ rank[<<c[1], c[2] + 1>>] < rank[c]
    <2>1. c[1] \in 1 .. n /\ c[2] \in 0 .. m
      BY <1>2
    <2>2. \A p \in 1 .. n + 1, a \in 0 .. m :
            <<p, a>> \in I /\ rank[<<p, a>>] = (n + 1 - p) + (m - a)
      OBVIOUS
    <2>3. rank[c] = (n + 1 - c[1]) + (m - c[2])
      OBVIOUS
    <2>4. Accepts(params, symbols, c[1], c[2]) => c[2] + 1 \in 0 .. m
      BY <2>1 DEF Accepts
    <2> HIDE DEF I, rank
    <2>5. <<c[1] + 1, c[2]>> \in I /\ rank[<<c[1] + 1, c[2]>>] < rank[c]
      <3>1. c[1] + 1 \in 1 .. n + 1
        BY <2>1
      <3>2. rank[<<c[1] + 1, c[2]>>] = (n + 1 - (c[1] + 1)) + (m - c[2])
        BY <2>1, <2>2, <3>1
      <3>3. (n + 1 - (c[1] + 1)) + (m - c[2]) < (n + 1 - c[1]) + (m - c[2])
        <4>1. \A x \in 1 .. n, y \in 0 .. m : (n + 1 - (x + 1)) + (m - y) < (n + 1 - x) + (m - y)
          BY <1>1
        <4> QED
          BY <2>1, <4>1
      <3>4. <<c[1] + 1, c[2]>> \in I
        BY <2>1, <2>2, <3>1
      <3> QED
        BY <2>3, <3>2, <3>3, <3>4
    <2>6. ASSUME c[2] + 1 \in 0 .. m, NEW p \in 1 .. n + 1, p >= c[1]
          PROVE  <<p, c[2] + 1>> \in I /\ rank[<<p, c[2] + 1>>] < rank[c]
      <3>1. <<p, c[2] + 1>> \in I /\ rank[<<p, c[2] + 1>>] = (n + 1 - p) + (m - (c[2] + 1))
        BY <2>2, <2>6
      <3>2. (n + 1 - p) + (m - (c[2] + 1)) < (n + 1 - c[1]) + (m - c[2])
        <4>1. \A x \in 1 .. n, y \in 0 .. m : p >= x => (n + 1 - p) + (m - (y + 1)) < (n + 1 - x) + (m - y)
          BY <1>1
        <4> QED
          BY <2>1, <2>6, <4>1
      <3> QED
        BY <2>3, <3>1, <3>2
    <2>7. c[1] \in 1 .. n + 1 /\ c[1] + 1 \in 1 .. n + 1 /\ c[1] >= c[1] /\ c[1] + 1 >= c[1]
      BY <2>1
    <2> QED
      BY <2>1, <2>4, <2>5, <2>6, <2>7
  <1>3. \A f \in [I -> BOOLEAN] : Body(f) \in [I -> BOOLEAN]
    OBVIOUS
  <1>4. Decided(phi, I, rank, BOOLEAN)
    <2>1. rank \in [I -> Nat]
      BY <1>1
    <2>2. phi \in [[I -> BOOLEAN] -> [I -> BOOLEAN]]
      BY <1>3
    <2>3. ASSUME NEW g \in [I -> BOOLEAN], NEW h \in [I -> BOOLEAN], NEW c \in I,
                 \A d \in I : rank[d] < rank[c] => g[d] = h[d]
          PROVE  phi[g][c] = phi[h][c]
      <3>1. CASE c[1] = n + 1
        BY <3>1
      <3>2. CASE c[1] # n + 1
        <4> HIDE DEF rank, I
        <4>1. g[<<c[1] + 1, c[2]>>] = h[<<c[1] + 1, c[2]>>]
          BY <1>2, <2>3, <3>2
        <4>2. Accepts(params, symbols, c[1], c[2]) =>
                /\ g[<<c[1] + 1, c[2] + 1>>] = h[<<c[1] + 1, c[2] + 1>>]
                /\ g[<<c[1], c[2] + 1>>] = h[<<c[1], c[2] + 1>>]
          BY <1>2, <2>3, <3>2
        <4> QED
          BY <3>2, <4>1, <4>2
      <3> QED
        BY <3>1, <3>2
    <2> HIDE DEF I, rank, phi
    <2> QED
      BY <2>1, <2>2, <2>3 DEF Decided
  <1>5. PICK f \in [I -> BOOLEAN] : f = phi[f]
    <2> HIDE DEF I, rank, phi
    <2> DEFINE D == BOOLEAN
    <2>1. Decided(phi, I, rank, D) /\ TRUE \in D
      BY <1>4
    <2> HIDE DEF D
    <2>2. \E f \in [I -> D] : f = phi[f]
      <3>1. PICK d \in D : TRUE
        BY <2>1
      <3>2. Decided(phi, I, rank, D)
        BY <2>1
      <3> QED
        BY <3>2, DecidedRecursion
    <2> QED
      BY <2>2 DEF D
  <1>6. f = Body(f)
    BY <1>5
  <1>7. ReachUnfolded(f, params, symbols, n, anchored)
    BY <1>6 DEF ReachUnfolded
  <1> DEFINE R == CHOOSE g : ReachUnfolded(g, params, symbols, n, anchored)
  <1>8. Reaches(params, symbols, n, anchored) = R
    BY DEF Reaches, ReachUnfolded
  <1>9. ReachUnfolded(R, params, symbols, n, anchored)
    BY <1>7
  <1>10. R \in [I -> BOOLEAN]
    <2> HIDE DEF R
    <2> QED
      BY <1>9 DEF ReachUnfolded
  <1> QED
    BY <1>8, <1>9, <1>10

\* Solve's table.
LEMMA ReachIsTable ==
    ASSUME NEW params \in Seq(Params), NEW symbols \in Seq(AllSymbols), NEW n \in 0 .. Len(params),
           NEW anchored \in BOOLEAN
    PROVE  Table(Reaches(params, symbols, n, anchored), params, symbols, n, anchored)
  <1> DEFINE m == Len(symbols)
             T == Reaches(params, symbols, n, anchored)
             Ways(p, a) == Works(params, symbols, T, p, a)
  <1>0. m \in Nat /\ n \in Nat
    OBVIOUS
  <1> HIDE DEF T
  <1>1. T \in [(1 .. n + 1) \X (0 .. m) -> BOOLEAN] /\ ReachUnfolded(T, params, symbols, n, anchored)
    BY ReachUnfolds DEF T
  <1>2. ASSUME NEW a \in 0 .. m
        PROVE  T[<<n + 1, a>>] <=> (~anchored \/ a = m)
    <2>1. <<n + 1, a>> \in (1 .. n + 1) \X (0 .. m)
      BY <1>0
    <2> QED
      BY <1>1, <2>1 DEF ReachUnfolded
  <1>3. ASSUME NEW p \in 1 .. n, NEW a \in 0 .. m
        PROVE  T[<<p, a>>] <=> \/ params[p].optional /\ T[<<p + 1, a>>]
                               \/ /\ Accepts(params, symbols, p, a)
                                  /\ T[<<p + 1, a + 1>>] \/ (params[p].variadic /\ T[<<p, a + 1>>])
    <2>1. <<p, a>> \in (1 .. n + 1) \X (0 .. m) /\ p # n + 1
      OBVIOUS
    <2> QED
      BY <1>1, <2>1 DEF ReachUnfolded
  <1>4. ASSUME NEW p \in 1 .. n, NEW a \in 0 .. m
        PROVE  /\ 0 \in Ways(p, a) <=> params[p].optional /\ T[<<p + 1, a>>]
               /\ 1 \in Ways(p, a) <=> Accepts(params, symbols, p, a) /\ T[<<p + 1, a + 1>>]
    <2>1. 0 \in Fitting(params[p], symbols, a) <=> params[p].optional
      BY <1>0 DEF Fitting
    <2>2. 1 \in Fitting(params[p], symbols, a) <=> Accepts(params, symbols, p, a)
      BY <1>0 DEF Fitting, Accepts
    <2>3. a + 0 = a
      OBVIOUS
    <2> QED
      BY <2>1, <2>2, <2>3 DEF Works
  <1>5. ASSUME NEW p \in 1 .. n, NEW a \in 0 .. m, params[p].variadic, Accepts(params, symbols, p, a)
        PROVE  \A k \in Nat : k \in Ways(p, a + 1) => k + 1 \in Ways(p, a)
    <2>1. a + 1 \in 0 .. m /\ symbols[a + 1] \in params[p].symbols
      BY <1>5 DEF Accepts
    <2>2. ASSUME NEW k \in Nat, k \in Fitting(params[p], symbols, a + 1)
          PROVE  k + 1 \in Fitting(params[p], symbols, a)
      BY <1>5, <2>1, <2>2 DEF Fitting
    <2>3. \A k \in Nat : a + 1 + k = a + (k + 1)
      OBVIOUS
    <2> QED
      BY <2>2, <2>3 DEF Works
  <1>6. ASSUME NEW p \in 1 .. n, NEW a \in 0 .. m
        PROVE  \A k \in Nat : k + 2 \in Ways(p, a) =>
                    /\ params[p].variadic /\ Accepts(params, symbols, p, a)
                    /\ a + 1 \in 0 .. m /\ k + 1 \in Ways(p, a + 1)
    <2>1. ASSUME NEW k \in Nat, k + 2 \in Fitting(params[p], symbols, a)
          PROVE  /\ params[p].variadic /\ Accepts(params, symbols, p, a)
                 /\ a + 1 \in 0 .. m /\ k + 1 \in Fitting(params[p], symbols, a + 1)
      <3>1. /\ k + 2 \in 0 .. m - a /\ params[p].variadic
            /\ \A j \in a + 1 .. a + (k + 2) : symbols[j] \in params[p].symbols
        BY <2>1 DEF Fitting
      <3>2. a < m /\ a + 1 \in 0 .. m /\ k + 1 \in 0 .. m - (a + 1)
        BY <1>0, <3>1
      <3>3. Accepts(params, symbols, p, a)
        BY <3>1, <3>2 DEF Accepts
      <3>4. \A j \in (a + 1) + 1 .. (a + 1) + (k + 1) : symbols[j] \in params[p].symbols
        BY <3>1
      <3> QED
        BY <3>1, <3>2, <3>3, <3>4 DEF Fitting
    <2>2. \A k \in Nat : a + 1 + (k + 1) = a + (k + 2)
      OBVIOUS
    <2> QED
      BY <2>1, <2>2 DEF Works
  <1>7. ASSUME NEW p \in 1 .. n
        PROVE  \A a \in 0 .. m : T[<<p, a>>] <=> Ways(p, a) # {}
    <2> DEFINE P == {a \in 0 .. m : T[<<p, a>>] <=> Ways(p, a) # {}}
    <2>1. ASSUME NEW a \in 0 .. m, a < m => a + 1 \in P
          PROVE  a \in P
      <3>1. ASSUME T[<<p, a>>], Ways(p, a) = {}
            PROVE  FALSE
        <4>1. params[p].variadic /\ Accepts(params, symbols, p, a) /\ T[<<p, a + 1>>]
          BY <1>3, <1>4, <3>1
        <4>2. Ways(p, a + 1) # {}
          BY <2>1, <4>1 DEF Accepts
        <4>3. \A k \in Ways(p, a + 1) : k \in Nat
          BY DEF Works, Fitting
        <4> QED
          BY <1>5, <3>1, <4>1, <4>2, <4>3
      <3>2. ASSUME ~T[<<p, a>>], NEW k \in Ways(p, a)
            PROVE  FALSE
        <4>1. k \in Nat
          BY <3>2 DEF Works, Fitting
        <4>2. k # 0 /\ k # 1
          <5> HIDE DEF Ways
          <5>1. CASE k = 0
            BY <1>3, <1>4, <3>2, <5>1
          <5>2. CASE k = 1
            BY <1>3, <1>4, <3>2, <5>2
          <5> QED
            BY <5>1, <5>2
        <4>3. k - 2 \in Nat /\ (k - 2) + 2 = k
          BY <4>1, <4>2
        <4>4. /\ params[p].variadic /\ Accepts(params, symbols, p, a)
              /\ a + 1 \in 0 .. m /\ Ways(p, a + 1) # {}
          BY <1>6, <3>2, <4>3
        <4>5. T[<<p, a + 1>>]
          BY <2>1, <4>4
        <4> QED
          BY <1>3, <3>2, <4>4, <4>5
      <3> QED
        BY <3>1, <3>2
    <2> HIDE DEF P
    <2>2. m \in P
      <3>1. m \in 0 .. m /\ ~(m < m)
        BY <1>0
      <3> QED
        BY <2>1, <3>1
    <2>3. \A a \in 0 .. m - 1 : a + 1 \in P => a \in P
      BY <2>1
    <2>4. 0 .. m \subseteq P
      BY <2>2, <2>3, DownwardInduction
    <2> QED
      BY <2>4 DEF P
  <1> QED
    BY <1>1, <1>2, <1>7 DEF Table, T

-----------------------------------------------------------------------------
(* Walks: how many symbols have been taken after each parameter, when each *)
(* takes the number it tries first.                                        *)

\* It is the least of them if it is lazy, and otherwise the most.
LEMMA FirstIs ==
    ASSUME NEW param, NEW m \in Nat, NEW works \in SUBSET (0 .. m), works # {}
    PROVE  /\ First(param, works) = IF param.lazy THEN Min(works) ELSE Max(works)
           /\ First(param, works) \in works
  <1> DEFINE Best(k) == \A j \in works \ {k} : IF param.lazy THEN k < j ELSE k > j
             least == Min(works)
             most == Max(works)
  <1>1. \A k \in works : k \in Nat
    OBVIOUS
  <1>2. least \in works /\ \A j \in works : least <= j
    <2>1. works \in SUBSET Nat
      BY <1>1
    <2> QED
      BY <2>1, LeastIn
  <1>3. most \in works /\ \A j \in works : most >= j
    BY MostIn
  <1> HIDE DEF least, most
  <1>4. CASE param.lazy
    <2>1. Best(least)
      BY <1>1, <1>2, <1>4
    <2>2. \A k \in works : Best(k) => k = least
      BY <1>1, <1>2, <1>4
    <2>3. First(param, works) = CHOOSE k \in works : Best(k)
      BY DEF First
    <2> HIDE DEF Best
    <2> QED
      BY <1>2, <1>4, <2>1, <2>2, <2>3 DEF least
  <1>5. CASE ~param.lazy
    <2>1. Best(most)
      BY <1>1, <1>3, <1>5
    <2>2. \A k \in works : Best(k) => k = most
      BY <1>1, <1>3, <1>5
    <2>3. First(param, works) = CHOOSE k \in works : Best(k)
      BY DEF First
    <2> HIDE DEF Best
    <2> QED
      BY <1>3, <1>5, <2>1, <2>2, <2>3 DEF most
  <1> QED
    BY <1>4, <1>5

\* What Backtrack's function is made of.
Matches == [ok : BOOLEAN, counts : Seq(Nat), taken : Nat]

Working(f, params, symbols, p, a) == {k \in Fitting(params[p], symbols, a) : f[<<p + 1, a + k>>].ok}

Joined(take, rest) == [ok |-> TRUE, counts |-> <<take>> \o rest.counts, taken |-> take + rest.taken]

Tried(f, params, symbols, p, a) ==
    Joined(First(params[p], Working(f, params, symbols, p, a)),
           f[<<p + 1, a + First(params[p], Working(f, params, symbols, p, a))>>])

MatchUnfolded(f, params, symbols, anchored) ==
    f = [state \in (1 .. Len(params) + 1) \X (0 .. Len(symbols)) |->
            CASE state[1] > Len(params) -> [Failed EXCEPT !.ok = ~anchored \/ state[2] = Len(symbols)]
              [] state[1] <= Len(params) /\ Working(f, params, symbols, state[1], state[2]) = {} -> Failed
              [] OTHER -> Tried(f, params, symbols, state[1], state[2])]

LEMMA BacktrackUnfolds ==
    ASSUME NEW params \in Seq(Params), NEW symbols \in Seq(AllSymbols), NEW anchored \in BOOLEAN
    PROVE  \E f \in [(1 .. Len(params) + 1) \X (0 .. Len(symbols)) -> Matches] :
                /\ MatchUnfolded(f, params, symbols, anchored)
                /\ Backtrack(params, symbols, anchored) = f[<<1, 0>>]
  <1> DEFINE n == Len(params)
             m == Len(symbols)
             I == (1 .. n + 1) \X (0 .. m)
             rank == [c \in I |-> n + 1 - c[1]]
             Value(f, c) ==
                CASE c[1] > n -> [Failed EXCEPT !.ok = ~anchored \/ c[2] = m]
                  [] c[1] <= n /\ Working(f, params, symbols, c[1], c[2]) = {} -> Failed
                  [] OTHER -> Tried(f, params, symbols, c[1], c[2])
             phi == [f \in [I -> Matches] |-> [c \in I |-> Value(f, c)]]
  <1>1. m \in Nat /\ n \in Nat
    OBVIOUS
  <1>2. ASSUME NEW c \in I, c[1] <= n, NEW k \in Fitting(params[c[1]], symbols, c[2])
        PROVE  /\ k \in 0 .. m /\ <<c[1] + 1, c[2] + k>> \in I
               /\ rank[<<c[1] + 1, c[2] + k>>] < rank[c]
    <2>1. c[1] \in 1 .. n /\ c[1] + 1 \in 1 .. n + 1 /\ c[2] \in 0 .. m
      BY <1>2
    <2>2. k \in 0 .. m /\ c[2] + k \in 0 .. m
      BY <2>1, FittingRange
    <2>3. \A p \in 1 .. n + 1, a \in 0 .. m : <<p, a>> \in I /\ rank[<<p, a>>] = n + 1 - p
      OBVIOUS
    <2>4. rank[c] = n + 1 - c[1]
      OBVIOUS
    <2> HIDE DEF I, rank
    <2>5. n + 1 - (c[1] + 1) < n + 1 - c[1]
      <3>1. \A x \in 1 .. n : n + 1 - (x + 1) < n + 1 - x
        BY <1>1
      <3> QED
        BY <2>1, <3>1
    <2> QED
      BY <2>1, <2>2, <2>3, <2>4, <2>5
  <1>3. ASSUME NEW f, NEW c \in I, \A d \in I : rank[d] < rank[c] => f[d] \in Matches
        PROVE  Value(f, c) \in Matches
    <2> DEFINE works == Working(f, params, symbols, c[1], c[2])
               take == First(params[c[1]], works)
    <2>0. Failed \in Matches /\ \A ok \in BOOLEAN : [Failed EXCEPT !.ok = ok] \in Matches
      <3>1. Failed \in Matches
        BY DEF Failed, Matches
      <3> QED
        BY <3>1 DEF Matches
    <2>1. CASE c[1] > n
      <3>1. ~(c[1] <= n)
        BY <1>1, <2>1
      <3>2. Value(f, c) = [Failed EXCEPT !.ok = ~anchored \/ c[2] = m]
        BY <2>1, <3>1
      <3> QED
        BY <2>0, <3>2
    <2>2. CASE c[1] <= n /\ works = {}
      <3>1. Value(f, c) = Failed
        BY <1>1, <2>2
      <3> QED
        BY <2>0, <3>1
    <2>3. CASE c[1] <= n /\ works # {}
      <3>1. works \in SUBSET (0 .. m)
        BY <1>2, <2>3 DEF Working
      <3> HIDE DEF works
      <3>2. take \in works
        BY <1>1, <2>3, <3>1, FirstIs
      <3>3. take \in Fitting(params[c[1]], symbols, c[2])
        BY <3>2 DEF works, Working
      <3> HIDE DEF take
      <3> DEFINE rest == f[<<c[1] + 1, c[2] + take>>]
      <3>4. take \in 0 .. m /\ rest \in Matches
        <4> HIDE DEF I, rank
        <4> QED
          BY <1>2, <1>3, <2>3, <3>3
      <3>6. Value(f, c) = Joined(take, rest)
        BY <1>1, <2>3 DEF take, works, Tried
      <3> HIDE DEF rest
      <3>7. <<take>> \o rest.counts \in Seq(Nat) /\ take + rest.taken \in Nat
        BY <1>1, <3>4 DEF Matches
      <3>8. Joined(take, rest) \in Matches
        BY <3>7 DEF Matches, Joined
      <3> QED
        BY <3>6, <3>8
    <2> QED
      BY <1>1, <2>1, <2>2, <2>3
  <1>4. ASSUME NEW g \in [I -> Matches], NEW h \in [I -> Matches], NEW c \in I,
               \A d \in I : rank[d] < rank[c] => g[d] = h[d]
        PROVE  Value(g, c) = Value(h, c)
    <2>1. CASE c[1] > n
      BY <2>1
    <2>2. CASE c[1] <= n
      <3> DEFINE works == Working(g, params, symbols, c[1], c[2])
                 take == First(params[c[1]], works)
      <3>1. \A k \in Fitting(params[c[1]], symbols, c[2]) :
                g[<<c[1] + 1, c[2] + k>>] = h[<<c[1] + 1, c[2] + k>>]
        <4> HIDE DEF I, rank
        <4> QED
          BY <1>2, <1>4, <2>2
      <3>2. works = Working(h, params, symbols, c[1], c[2])
        BY <3>1 DEF Working
      <3>3. CASE works = {}
        BY <1>1, <2>2, <3>2, <3>3
      <3>4. CASE works # {}
        <4>1. works \in SUBSET (0 .. m)
          BY <1>2, <2>2 DEF Working
        <4> HIDE DEF works
        <4>2. take \in works
          BY <1>1, <3>4, <4>1, FirstIs
        <4>3. take \in Fitting(params[c[1]], symbols, c[2])
          BY <4>2 DEF works, Working
        <4> HIDE DEF take
        <4>4. g[<<c[1] + 1, c[2] + take>>] = h[<<c[1] + 1, c[2] + take>>]
          BY <3>1, <4>3
        <4>5. Tried(g, params, symbols, c[1], c[2]) = Tried(h, params, symbols, c[1], c[2])
          BY <3>2, <4>4 DEF Tried, take, works
        <4>6. Value(g, c) = Tried(g, params, symbols, c[1], c[2])
          BY <1>1, <2>2, <3>4 DEF works
        <4>7. Value(h, c) = Tried(h, params, symbols, c[1], c[2])
          BY <1>1, <2>2, <3>2, <3>4 DEF works
        <4> QED
          BY <4>5, <4>6, <4>7
      <3> QED
        BY <3>3, <3>4
    <2> QED
      BY <1>1, <2>1, <2>2
  <1>5. Decided(phi, I, rank, Matches)
    <2>1. rank \in [I -> Nat]
      <3>1. \A c \in I : n + 1 - c[1] \in Nat
        BY <1>1
      <3> QED
        BY <3>1
    <2> HIDE DEF Value
    <2>2. phi \in [[I -> Matches] -> [I -> Matches]]
      <3>1. \A f \in [I -> Matches], c \in I : Value(f, c) \in Matches
        BY <1>3
      <3> QED
        BY <3>1
    <2>3. ASSUME NEW g \in [I -> Matches], NEW h \in [I -> Matches], NEW c \in I,
                 \A d \in I : rank[d] < rank[c] => g[d] = h[d]
          PROVE  phi[g][c] = phi[h][c]
      <3>1. phi[g][c] = Value(g, c) /\ phi[h][c] = Value(h, c)
        OBVIOUS
      <3> QED
        BY <1>4, <2>3, <3>1
    <2> HIDE DEF I, rank, phi
    <2> QED
      BY <2>1, <2>2, <2>3 DEF Decided
  <1>6. PICK f \in [I -> Matches] : f = phi[f]
    <2> HIDE DEF I, rank, phi
    <2>1. PICK d \in Matches : TRUE
      <3>1. Failed \in Matches
        BY DEF Failed, Matches
      <3> QED
        BY <3>1
    <2> QED
      BY <1>5, DecidedRecursion
  <1>7. MatchUnfolded(f, params, symbols, anchored)
    BY <1>6 DEF MatchUnfolded
  <1> DEFINE R == CHOOSE g : MatchUnfolded(g, params, symbols, anchored)
  <1>8. Backtrack(params, symbols, anchored) = R[<<1, 0>>]
    BY DEF Backtrack, MatchUnfolded, Working, Tried, Joined
  <1>9. MatchUnfolded(R, params, symbols, anchored)
    BY <1>7
  <1>10. R \in [I -> Matches]
    <2> HIDE DEF R
    <2>1. R = [c \in I |-> Value(R, c)]
      BY <1>9 DEF MatchUnfolded
    <2>2. rank \in [I -> Nat]
      BY <1>1
    <2> DEFINE P == {c \in I : R[c] \in Matches}
    <2>3. ASSUME NEW c \in I, \A d \in I : rank[d] < rank[c] => d \in P
          PROVE  c \in P
      <3>1. R[c] = Value(R, c)
        BY <2>1
      <3> HIDE DEF Value, I, rank
      <3> QED
        BY <1>3, <2>3, <3>1
    <2> HIDE DEF P, Value, I, rank
    <2>4. I \subseteq P
      BY <2>2, <2>3, RankInduction
    <2> QED
      BY <2>1, <2>4 DEF P
  <1> QED
    BY <1>8, <1>9, <1>10

\* How many symbols have been taken after each of the first n parameters.
Walk(t, params, symbols, T, n) ==
    /\ t \in [0 .. n -> 0 .. Len(symbols)]
    /\ t[0] = 0
    /\ \A p \in 1 .. n :
        /\ Works(params, symbols, T, p, t[p - 1]) # {}
        /\ t[p] = t[p - 1] + First(params[p], Works(params, symbols, T, p, t[p - 1]))

\* How many each takes.
Counts(t, n) == [p \in 1 .. n |-> t[p] - t[p - 1]]

LEMMA WorksRange ==
    ASSUME NEW params, NEW symbols \in Seq(AllSymbols), NEW T, NEW p, NEW a \in 0 .. Len(symbols)
    PROVE  /\ Works(params, symbols, T, p, a) \in SUBSET (0 .. Len(symbols))
           /\ Works(params, symbols, T, p, a) # {} =>
                /\ First(params[p], Works(params, symbols, T, p, a)) \in Works(params, symbols, T, p, a)
                /\ a + First(params[p], Works(params, symbols, T, p, a)) \in 0 .. Len(symbols)
  <1> DEFINE works == Works(params, symbols, T, p, a)
  <1>1. Len(symbols) \in Nat
    OBVIOUS
  <1>2. \A k \in works : k \in 0 .. Len(symbols) /\ a + k \in 0 .. Len(symbols)
    BY FittingRange DEF Works
  <1>3. works \in SUBSET (0 .. Len(symbols))
    BY <1>2
  <1> HIDE DEF works
  <1>4. works # {} => First(params[p], works) \in works
    BY <1>1, <1>3, FirstIs
  <1>5. works # {} => a + First(params[p], works) \in 0 .. Len(symbols)
    BY <1>2, <1>4
  <1> QED
    BY <1>3, <1>4, <1>5 DEF works

\* A parameter on a walk takes what it may, and the rest match after it.
LEMMA WalkTakes ==
    ASSUME NEW params, NEW symbols \in Seq(AllSymbols), NEW T, NEW n \in Nat,
           NEW t, Walk(t, params, symbols, T, n), NEW p \in 1 .. n
    PROVE  /\ t[p - 1] \in 0 .. Len(symbols) /\ t[p] \in 0 .. Len(symbols)
           /\ t[p] - t[p - 1] \in Fitting(params[p], symbols, t[p - 1])
           /\ t[p] - t[p - 1] \in Nat /\ t[p - 1] <= t[p]
           /\ T[<<p + 1, t[p]>>]
  <1> DEFINE a == t[p - 1]
             k == First(params[p], Works(params, symbols, T, p, a))
  <1>1. p - 1 \in 0 .. n /\ p \in 0 .. n
    OBVIOUS
  <1>2. a \in 0 .. Len(symbols) /\ t[p] \in 0 .. Len(symbols)
    BY <1>1 DEF Walk
  <1>3. t[p] = a + k /\ Works(params, symbols, T, p, a) # {}
    BY DEF Walk
  <1> HIDE DEF a
  <1>4. k \in Works(params, symbols, T, p, a)
    BY <1>2, <1>3, WorksRange
  <1> HIDE DEF k
  <1>5. k \in Fitting(params[p], symbols, a) /\ T[<<p + 1, a + k>>]
    BY <1>4 DEF Works
  <1>6. k \in Nat /\ a \in Nat
    BY <1>2, <1>5 DEF Fitting
  <1>7. t[p] - a = k
    BY <1>3, <1>6
  <1>8. T[<<p + 1, t[p]>>]
    BY <1>3, <1>5
  <1>9. t[p] - a \in Nat /\ a <= t[p]
    BY <1>3, <1>6
  <1> QED
    BY <1>2, <1>5, <1>7, <1>8, <1>9 DEF a

\* A table that matches from the start has a walk.
LEMMA WalkExists ==
    ASSUME NEW params, NEW symbols \in Seq(AllSymbols), NEW n \in Nat, NEW anchored \in BOOLEAN,
           NEW T, Table(T, params, symbols, n, anchored), T[<<1, 0>>]
    PROVE  \E t : Walk(t, params, symbols, T, n)
  <1> DEFINE D == 0 .. Len(symbols)
             I == 0 .. n
             Next(p, a) == IF Works(params, symbols, T, p, a) = {} THEN 0
                           ELSE a + First(params[p], Works(params, symbols, T, p, a))
             rank == [p \in I |-> p]
             own == [p \in I |-> 0]
             prev == [p \in I |-> p - 1]
             step == [p \in I |-> [a \in D |-> Next(p, a)]]
  <1>1. ASSUME NEW p, NEW a \in D
        PROVE  Next(p, a) \in D
    BY WorksRange
  <1>2. Recursion(I, n, rank, D, {0}, own, prev, step)
    <2>1. n \in Nat /\ rank \in [I -> 0 .. n] /\ own \in [I -> D]
      OBVIOUS
    <2>2. ASSUME NEW p \in I \ {0}
          PROVE  prev[p] \in I /\ rank[prev[p]] < rank[p] /\ step[p] \in [D -> D]
      <3> HIDE DEF Next
      <3> QED
        BY <1>1
    <2> HIDE DEF I, rank, own, prev, step, D
    <2> QED
      BY <2>1, <2>2 DEF Recursion
  <1>3. PICK t \in [I -> D] : Solves(t, I, {0}, own, prev, step)
    <2> HIDE DEF I, rank, own, prev, step, D
    <2> QED
      BY <1>2, RankRecursion
  <1>4. t[0] = 0
    BY <1>3 DEF Solves
  <1>5. ASSUME NEW p \in 1 .. n
        PROVE  p - 1 \in I /\ t[p - 1] \in D /\ t[p] = Next(p, t[p - 1])
    <2>1. p \in I /\ p # 0 /\ p - 1 \in I /\ prev[p] = p - 1 /\ step[p] = [a \in D |-> Next(p, a)]
      OBVIOUS
    <2>2. t[p] = step[p][t[prev[p]]]
      <3> HIDE DEF step, prev, I, own
      <3> QED
        BY <1>3, <2>1 DEF Solves
    <2>3. t[p - 1] \in D
      BY <1>3, <2>1
    <2> HIDE DEF step, prev, D, Next
    <2> QED
      BY <2>1, <2>2, <2>3
  <1> DEFINE P == {p \in 0 .. n : T[<<p + 1, t[p]>>]}
  <1>6. 0 \in P
    <2>1. 0 + 1 = 1 /\ 0 \in 0 .. n
      OBVIOUS
    <2> QED
      BY <1>4, <2>1
  <1>7. ASSUME NEW i \in 0 .. n - 1, i \in P
        PROVE  /\ i + 1 \in P
               /\ Works(params, symbols, T, i + 1, t[i]) # {}
    <2> DEFINE p == i + 1
    <2>1. p \in 1 .. n /\ p - 1 = i
      OBVIOUS
    <2>2. t[i] \in D /\ t[p] = Next(p, t[i])
      BY <1>5, <2>1
    <2>3. Works(params, symbols, T, p, t[i]) # {}
      BY <1>7, <2>1, <2>2 DEF Table
    <2>4. t[p] = t[i] + First(params[p], Works(params, symbols, T, p, t[i]))
      BY <2>2, <2>3
    <2>5. First(params[p], Works(params, symbols, T, p, t[i])) \in Works(params, symbols, T, p, t[i])
      BY <2>2, <2>3, WorksRange
    <2>6. T[<<p + 1, t[p]>>]
      BY <2>4, <2>5 DEF Works
    <2> QED
      BY <2>1, <2>3, <2>6
  <1> HIDE DEF P
  <1>8. 0 .. n \subseteq P
    BY <1>6, <1>7, UpwardInduction
  <1>9. ASSUME NEW p \in 1 .. n
        PROVE  /\ Works(params, symbols, T, p, t[p - 1]) # {}
               /\ t[p] = t[p - 1] + First(params[p], Works(params, symbols, T, p, t[p - 1]))
    <2>1. p - 1 \in 0 .. n - 1 /\ p - 1 \in P /\ p - 1 + 1 = p
      BY <1>8
    <2>2. Works(params, symbols, T, p, t[p - 1]) # {}
      BY <1>7, <2>1
    <2> QED
      BY <1>5, <2>2
  <1> QED
    BY <1>3, <1>4, <1>9 DEF Walk

\* Two loops of the same steps are the same.
LEMMA SameLoop ==
    ASSUME NEW n \in Nat, NEW f, NEW g, DOMAIN f = 0 .. n, DOMAIN g = 0 .. n,
           f = [i \in 0 .. n |-> f[i]], g = [i \in 0 .. n |-> g[i]],
           f[0] = g[0], \A i \in 1 .. n : f[i - 1] = g[i - 1] => f[i] = g[i]
    PROVE  f = g
  <1> DEFINE P == {i \in 0 .. n : f[i] = g[i]}
  <1>1. 0 \in P
    OBVIOUS
  <1>2. ASSUME NEW i \in 0 .. n - 1, i \in P
        PROVE  i + 1 \in P
    <2>1. i + 1 \in 1 .. n /\ i + 1 \in 0 .. n /\ (i + 1) - 1 = i
      OBVIOUS
    <2>2. f[(i + 1) - 1] = g[(i + 1) - 1]
      BY <1>2, <2>1
    <2>3. f[i + 1] = g[i + 1]
      BY <2>1, <2>2
    <2> QED
      BY <2>1, <2>3
  <1> HIDE DEF P
  <1>3. 0 .. n \subseteq P
    BY <1>1, <1>2, UpwardInduction
  <1>4. \A i \in 0 .. n : f[i] = g[i]
    BY <1>3 DEF P
  <1> QED
    BY <1>4

LEMMA OneWalk ==
    ASSUME NEW params, NEW symbols \in Seq(AllSymbols), NEW n \in Nat, NEW T,
           NEW t, Walk(t, params, symbols, T, n), NEW u, Walk(u, params, symbols, T, n)
    PROVE  t = u
  <1>1. \A i \in 1 .. n : t[i - 1] = u[i - 1] => t[i] = u[i]
    BY DEF Walk
  <1>2. t[0] = u[0] /\ DOMAIN t = 0 .. n /\ DOMAIN u = 0 .. n
    BY DEF Walk
  <1>3. t = [i \in 0 .. n |-> t[i]] /\ u = [i \in 0 .. n |-> u[i]]
    BY DEF Walk
  <1> QED
    BY <1>1, <1>2, <1>3, SameLoop

\* A sequence with one more in front.
LEMMA InFront ==
    ASSUME NEW x \in Nat, NEW rest \in Seq(Nat)
    PROVE  /\ <<x>> \o rest \in Seq(Nat) /\ Len(<<x>> \o rest) = 1 + Len(rest)
           /\ (<<x>> \o rest)[1] = x
           /\ \A j \in 2 .. 1 + Len(rest) : (<<x>> \o rest)[j] = rest[j - 1]
  OBVIOUS

\* Backtracking follows the walk of the table.
LEMMA BacktrackWalks ==
    ASSUME NEW params \in Seq(Params), NEW symbols \in Seq(AllSymbols), NEW anchored \in BOOLEAN,
           NEW T, Table(T, params, symbols, Len(params), anchored)
    PROVE  LET r == Backtrack(params, symbols, anchored)
           IN  /\ ~T[<<1, 0>>] => r = Failed
               /\ \A t : T[<<1, 0>>] /\ Walk(t, params, symbols, T, Len(params)) =>
                    r = [ok |-> TRUE, counts |-> Counts(t, Len(params)), taken |-> t[Len(params)]]
  <1> DEFINE n == Len(params)
             m == Len(symbols)
             I == (1 .. n + 1) \X (0 .. m)
  <1>1. m \in Nat /\ n \in Nat
    OBVIOUS
  <1>2. PICK f \in [I -> Matches] :
            /\ MatchUnfolded(f, params, symbols, anchored)
            /\ Backtrack(params, symbols, anchored) = f[<<1, 0>>]
    BY BacktrackUnfolds
  <1>3. ASSUME NEW a \in 0 .. m
        PROVE  /\ f[<<n + 1, a>>] = [Failed EXCEPT !.ok = ~anchored \/ a = m]
               /\ f[<<n + 1, a>>].ok <=> (~anchored \/ a = m)
               /\ f[<<n + 1, a>>].counts = <<>> /\ f[<<n + 1, a>>].taken = 0
    <2>1. <<n + 1, a>> \in I /\ n + 1 > n
      BY <1>1
    <2>2. f[<<n + 1, a>>] = [Failed EXCEPT !.ok = ~anchored \/ a = m]
      <3>1. f[<<n + 1, a>>] =
              CASE n + 1 > n -> [Failed EXCEPT !.ok = ~anchored \/ a = m]
                [] n + 1 <= n /\ Working(f, params, symbols, n + 1, a) = {} -> Failed
                [] OTHER -> Tried(f, params, symbols, n + 1, a)
        BY <1>2, <2>1 DEF MatchUnfolded
      <3> QED
        BY <1>1, <3>1
    <2> QED
      BY <2>2 DEF Failed
  <1>4. ASSUME NEW p \in 1 .. n, NEW a \in 0 .. m
        PROVE  f[<<p, a>>] = IF Working(f, params, symbols, p, a) = {} THEN Failed
                             ELSE Tried(f, params, symbols, p, a)
    <2>1. <<p, a>> \in I /\ ~(p > n) /\ p <= n
      BY <1>1
    <2>2. f[<<p, a>>] =
            CASE p > n -> [Failed EXCEPT !.ok = ~anchored \/ a = m]
              [] p <= n /\ Working(f, params, symbols, p, a) = {} -> Failed
              [] OTHER -> Tried(f, params, symbols, p, a)
      BY <1>2, <2>1 DEF MatchUnfolded
    <2> QED
      BY <2>1, <2>2
  <1> DEFINE U == [c \in I |-> f[c].ok]
  <1>5. \A p \in 1 .. n + 1, a \in 0 .. m : U[<<p, a>>] = f[<<p, a>>].ok /\ U[<<p, a>>] \in BOOLEAN
    BY DEF Matches
  <1>6. \A p \in 1 .. n, a \in 0 .. m : Working(f, params, symbols, p, a) = Works(params, symbols, U, p, a)
    <2> SUFFICES ASSUME NEW p \in 1 .. n, NEW a \in 0 .. m, NEW k \in Fitting(params[p], symbols, a)
                 PROVE  U[<<p + 1, a + k>>] = f[<<p + 1, a + k>>].ok
      BY DEF Working, Works
    <2>1. p + 1 \in 1 .. n + 1 /\ a + k \in 0 .. m
      BY FittingRange
    <2> HIDE DEF U
    <2> QED
      BY <1>5, <2>1
  <1>7. U \in [I -> BOOLEAN]
    BY DEF Matches
  <1> HIDE DEF U
  <1>8. ASSUME NEW p \in 1 .. n, NEW a \in 0 .. m
        PROVE  U[<<p, a>>] <=> Works(params, symbols, U, p, a) # {}
    <2>1. p \in 1 .. n + 1
      OBVIOUS
    <2>2. U[<<p, a>>] = f[<<p, a>>].ok /\ U[<<p, a>>] \in BOOLEAN
      BY <1>5, <2>1
    <2>3. Working(f, params, symbols, p, a) = Works(params, symbols, U, p, a)
      BY <1>6
    <2>4. Failed.ok = FALSE /\ Tried(f, params, symbols, p, a).ok = TRUE
      BY DEF Failed, Tried, Joined
    <2> QED
      BY <1>4, <2>2, <2>3, <2>4
  <1>9. \A a \in 0 .. m : U[<<n + 1, a>>] <=> (~anchored \/ a = m)
    <2>1. n + 1 \in 1 .. n + 1
      BY <1>1
    <2>2. \A a \in 0 .. m : U[<<n + 1, a>>] = f[<<n + 1, a>>].ok
      BY <1>5, <2>1
    <2> QED
      BY <1>3, <2>2
  <1>10. Table(U, params, symbols, n, anchored)
    BY <1>7, <1>8, <1>9 DEF Table
  <1>11. U = T
    BY <1>1, <1>10, OneTable
  <1>12. ASSUME ~T[<<1, 0>>]
         PROVE  f[<<1, 0>>] = Failed
    <2>1. 1 \in 1 .. n + 1 /\ 0 \in 0 .. m
      BY <1>1
    <2>2. f[<<1, 0>>].ok = FALSE
      BY <1>5, <1>11, <1>12, <2>1
    <2>3. CASE n = 0
      <3>1. n + 1 = 1
        BY <2>3
      <3>2. f[<<1, 0>>] = [Failed EXCEPT !.ok = ~anchored \/ 0 = m] /\ ~(~anchored \/ 0 = m)
        BY <1>3, <2>1, <2>2, <3>1
      <3> QED
        BY <3>2 DEF Failed
    <2>4. CASE n # 0
      <3>1. 1 \in 1 .. n
        BY <1>1, <2>4
      <3>2. Tried(f, params, symbols, 1, 0).ok = TRUE
        BY DEF Tried, Joined
      <3> QED
        BY <1>4, <2>1, <2>2, <3>1, <3>2
    <2> QED
      BY <2>3, <2>4
  <1>13. ASSUME NEW t, T[<<1, 0>>], Walk(t, params, symbols, T, n)
         PROVE  f[<<1, 0>>] = [ok |-> TRUE, counts |-> Counts(t, n), taken |-> t[n]]
    <2>1. \A p \in 0 .. n : t[p] \in 0 .. m
      BY <1>13 DEF Walk
    <2>2. t[0] = 0
      BY <1>13 DEF Walk
    <2> DEFINE Told(i) ==
                 LET r == f[<<i + 1, t[i]>>]
                 IN  /\ r.ok = TRUE /\ r.taken = t[n] - t[i]
                     /\ r.counts \in Seq(Nat) /\ Len(r.counts) = n - i
                     /\ \A j \in 1 .. n - i : r.counts[j] = t[i + j] - t[i + j - 1]
               P == {i \in 0 .. n : Told(i)}
    <2>3. n \in P
      <3>1. T[<<n + 1, t[n]>>]
        <4>1. CASE n = 0
          BY <1>13, <2>2, <4>1
        <4>2. CASE n # 0
          <5>1. n \in 1 .. n
            BY <1>1, <4>2
          <5> QED
            BY <1>1, <1>13, <5>1, WalkTakes
        <4> QED
          BY <4>1, <4>2
      <3>2. n \in 0 .. n /\ n + 1 \in 1 .. n + 1 /\ t[n] \in 0 .. m /\ t[n] \in Nat
        BY <1>1, <2>1
      <3>3. f[<<n + 1, t[n]>>].ok = TRUE
        BY <1>5, <1>11, <3>1, <3>2
      <3>4. f[<<n + 1, t[n]>>].counts = <<>> /\ f[<<n + 1, t[n]>>].taken = 0
        BY <1>3, <3>2
      <3>5. n - n = 0 /\ t[n] - t[n] = 0 /\ 1 .. n - n = {} /\ <<>> \in Seq(Nat) /\ Len(<<>>) = 0
        BY <1>1, <3>2
      <3> QED
        BY <3>2, <3>3, <3>4, <3>5
    <2>4. ASSUME NEW i \in 0 .. n - 1, i + 1 \in P
          PROVE  i \in P
      <3> DEFINE p == i + 1
                 a == t[i]
                 take == First(params[p], Works(params, symbols, T, p, a))
                 rest == f[<<p + 1, t[p]>>]
      <3>1. p \in 1 .. n /\ p - 1 = i /\ i \in 0 .. n /\ p \in 0 .. n
        OBVIOUS
      <3>2. /\ Works(params, symbols, T, p, a) # {} /\ t[p] = a + take
            /\ a \in 0 .. m /\ t[p] \in 0 .. m /\ t[p] - a \in Nat
        <4>1. t[p - 1] = a
          BY <3>1
        <4>2. Works(params, symbols, T, p, a) # {} /\ t[p] = a + take
          BY <1>13, <3>1, <4>1 DEF Walk
        <4>3. t[p - 1] \in 0 .. m /\ t[p] \in 0 .. m /\ t[p] - t[p - 1] \in Nat
          BY <1>1, <1>13, <3>1, WalkTakes
        <4> QED
          BY <4>1, <4>2, <4>3
      <3>3. take \in Nat /\ take = t[p] - a
        <4>1. take \in Works(params, symbols, T, p, a)
          BY <3>2, WorksRange
        <4>2. take \in Nat
          BY <4>1 DEF Works, Fitting
        <4> HIDE DEF take
        <4> QED
          BY <3>2, <4>2
      <3>4. Told(p)
        BY <2>4
      <3>5. Working(f, params, symbols, p, a) = Works(params, symbols, T, p, a)
        BY <1>6, <1>11, <3>1, <3>2
      <3>6. f[<<p, a>>] = Joined(take, rest)
        <4>1. f[<<p, a>>] = Tried(f, params, symbols, p, a)
          BY <1>4, <3>1, <3>2, <3>5
        <4>2. Tried(f, params, symbols, p, a) = Joined(take, f[<<p + 1, a + take>>])
          BY <3>5 DEF Tried
        <4> QED
          BY <3>2, <4>1, <4>2
      <3> HIDE DEF take, rest
      <3>7. /\ rest.taken = t[n] - t[p]
            /\ rest.counts \in Seq(Nat) /\ Len(rest.counts) = n - p
            /\ \A j \in 1 .. n - p : rest.counts[j] = t[p + j] - t[p + j - 1]
        BY <3>4 DEF rest
      <3> DEFINE r == f[<<p, a>>]
      <3>8. r.ok = TRUE /\ r.taken = t[n] - a
        <4>1. r.ok = TRUE /\ r.taken = take + rest.taken
          BY <3>6 DEF Joined
        <4>2. t[n] \in Nat /\ t[p] \in Nat /\ a \in Nat
          BY <1>1, <2>1, <3>1
        <4>3. r.taken = (t[p] - a) + (t[n] - t[p])
          BY <3>3, <3>7, <4>1
        <4> HIDE DEF r, a, p
        <4>4. (t[p] - a) + (t[n] - t[p]) = t[n] - a
          BY <4>2
        <4> QED
          BY <4>1, <4>3, <4>4
      <3>9. r.counts = <<take>> \o rest.counts
        BY <3>6 DEF Joined
      <3> HIDE DEF r, a
      <3>10. r.counts \in Seq(Nat) /\ Len(r.counts) = n - i
        <4>1. n - i = 1 + (n - p)
          OBVIOUS
        <4>2. r.counts \in Seq(Nat) /\ Len(r.counts) = 1 + Len(rest.counts)
          BY <3>3, <3>7, <3>9, InFront
        <4>3. Len(r.counts) = 1 + (n - p)
          BY <3>7, <4>2
        <4> QED
          BY <4>1, <4>2, <4>3
      <3>11. ASSUME NEW j \in 1 .. n - i
             PROVE  r.counts[j] = t[i + j] - t[i + j - 1]
        <4>1. CASE j = 1
          <5>1. r.counts[1] = take
            BY <3>3, <3>7, <3>9, InFront
          <5>2. i + 1 = p /\ i + 1 - 1 = i
            OBVIOUS
          <5> QED
            BY <3>3, <4>1, <5>1, <5>2 DEF a
        <4>2. CASE j # 1
          <5>1. j - 1 \in 1 .. n - p /\ p + (j - 1) = i + j /\ p + (j - 1) - 1 = i + j - 1
            BY <4>2
          <5> DEFINE told == rest.counts
                     all == r.counts
          <5>2. j \in 2 .. 1 + Len(told) /\ take \in Nat /\ told \in Seq(Nat) /\ all = <<take>> \o told
            BY <3>3, <3>7, <3>9, <4>2
          <5>3. all[j] = told[j - 1]
            <6> HIDE DEF told, all
            <6>1. \A q \in 2 .. 1 + Len(told) : (<<take>> \o told)[q] = told[q - 1]
              BY <5>2, InFront
            <6> QED
              BY <5>2, <6>1
          <5> QED
            BY <3>7, <5>1, <5>3
        <4> QED
          BY <4>1, <4>2
      <3> HIDE DEF p
      <3>12. Told(i)
        BY <3>8, <3>10, <3>11 DEF a, r, p
      <3> QED
        BY <3>1, <3>12
    <2> HIDE DEF P
    <2>5. 0 .. n \subseteq P
      BY <1>1, <2>3, <2>4, DownwardInduction
    <2>6. Told(0)
      <3>1. 0 \in P
        BY <1>1, <2>5
      <3> HIDE DEF Told
      <3> QED
        BY <3>1 DEF P
    <2> DEFINE r == f[<<1, 0>>]
    <2>7. r.ok = TRUE /\ r.taken = t[n]
      <3>1. 0 + 1 = 1 /\ t[n] - t[0] = t[n]
        BY <1>1, <2>1, <2>2
      <3> QED
        BY <2>2, <2>6, <3>1
    <2>8. /\ r.counts \in Seq(Nat) /\ Len(r.counts) = n
          /\ \A j \in 1 .. n : r.counts[j] = t[j] - t[j - 1]
      <3>1. 0 + 1 = 1 /\ n - 0 = n
        BY <1>1
      <3>2. \A j \in 1 .. n : 0 + j = j
        OBVIOUS
      <3> QED
        BY <2>2, <2>6, <3>1, <3>2
    <2>9. r.counts = Counts(t, n)
      <3> HIDE DEF r
      <3>1. r.counts = [j \in 1 .. n |-> r.counts[j]]
        BY <2>8
      <3> QED
        BY <2>8, <3>1 DEF Counts
    <2>10. r \in Matches
      <3>1. <<1, 0>> \in I
        BY <1>1
      <3> QED
        BY <3>1
    <2> HIDE DEF r
    <2>11. r = [ok |-> TRUE, counts |-> Counts(t, n), taken |-> t[n]]
      BY <2>7, <2>9, <2>10 DEF Matches
    <2> QED
      BY <2>11 DEF r
  <1> QED
    BY <1>2, <1>12, <1>13

-----------------------------------------------------------------------------
(* The matcher walks the same way.                                         *)

\* Most bounds what a parameter may take.
LEMMA MostFits ==
    ASSUME NEW params \in Seq(Params), NEW symbols \in Seq(AllSymbols),
           NEW p \in 1 .. Len(params), NEW a \in 0 .. Len(symbols)
    PROVE  /\ Most(params, symbols, p, a) \in Nat
           /\ \A k \in Nat \ {0} :
                k <= Most(params, symbols, p, a) <=> k \in Fitting(params[p], symbols, a)
  <1> DEFINE m == Len(symbols)
             most == Most(params, symbols, p, a)
             run == {k \in 1 .. m - a : \A j \in 0 .. k - 1 : Accepts(params, symbols, p, a + j)}
  <1>1. m \in Nat /\ a \in Nat
    OBVIOUS
  <1>2. ASSUME NEW k \in Nat \ {0}, k \in Fitting(params[p], symbols, a)
        PROVE  /\ k \in run /\ Accepts(params, symbols, p, a)
               /\ k > 1 => params[p].variadic
    <2>1. /\ k \in 1 .. m - a /\ (k > 1 => params[p].variadic)
          /\ \A j \in a + 1 .. a + k : symbols[j] \in params[p].symbols
      BY <1>2 DEF Fitting
    <2>2. ASSUME NEW j \in 0 .. k - 1
          PROVE  Accepts(params, symbols, p, a + j)
      <3>1. a + j + 1 \in a + 1 .. a + k /\ a + j < m
        BY <1>1, <2>1
      <3> QED
        BY <2>1, <3>1 DEF Accepts
    <2>3. 0 \in 0 .. k - 1 /\ a + 0 = a
      BY <2>1
    <2> QED
      BY <2>1, <2>2, <2>3
  <1>3. ASSUME NEW k \in run, params[p].variadic
        PROVE  \A i \in 1 .. k : i \in Fitting(params[p], symbols, a)
    <2> SUFFICES ASSUME NEW i \in 1 .. k
                 PROVE  i \in Fitting(params[p], symbols, a)
      OBVIOUS
    <2>1. i \in 0 .. m - a /\ i # 0 /\ k \in 1 .. m - a
      BY <1>1
    <2>2. ASSUME NEW j \in a + 1 .. a + i
          PROVE  symbols[j] \in params[p].symbols
      <3>1. j - a - 1 \in 0 .. k - 1 /\ a + (j - a - 1) + 1 = j
        BY <1>1, <2>1
      <3>2. Accepts(params, symbols, p, a + (j - a - 1))
        BY <3>1
      <3> QED
        BY <3>1, <3>2 DEF Accepts
    <2> QED
      BY <1>3, <2>1, <2>2 DEF Fitting
  <1>4. CASE ~Accepts(params, symbols, p, a)
    <2>1. most = 0
      BY <1>4 DEF Most
    <2> HIDE DEF most
    <2> QED
      BY <1>2, <1>4, <2>1 DEF most
  <1>5. CASE Accepts(params, symbols, p, a) /\ ~params[p].variadic
    <2>1. most = 1
      BY <1>5 DEF Most
    <2>2. 1 \in Fitting(params[p], symbols, a)
      BY <1>1, <1>5 DEF Accepts, Fitting
    <2>3. \A k \in Nat \ {0} : k <= 1 <=> k = 1
      OBVIOUS
    <2>4. \A k \in Nat \ {0} : k \in Fitting(params[p], symbols, a) => k <= 1
      BY <1>2, <1>5
    <2> HIDE DEF most
    <2> QED
      BY <2>1, <2>2, <2>3, <2>4 DEF most
  <1>6. CASE Accepts(params, symbols, p, a) /\ params[p].variadic
    <2>1. most = Max(run)
      BY <1>6 DEF Most
    <2>2. run \in SUBSET (0 .. m) /\ 1 \in run
      <3>1. a < m
        BY <1>6 DEF Accepts
      <3>2. 1 \in 1 .. m - a /\ \A j \in 0 .. 1 - 1 : j = 0 /\ a + j = a
        BY <1>1, <3>1
      <3>3. \A k \in 1 .. m - a : k \in 0 .. m
        BY <1>1
      <3> QED
        BY <1>6, <3>2, <3>3
    <2> HIDE DEF run
    <2>3. most \in run /\ \A k \in run : most >= k
      BY <1>1, <2>1, <2>2, MostIn
    <2>4. most \in Nat /\ \A k \in run : k \in Nat
      <3>1. \A k \in run : k \in Nat
        BY <1>1, <2>2
      <3> QED
        BY <2>3, <3>1
    <2>5. \A i \in 1 .. most : i \in Fitting(params[p], symbols, a)
      BY <1>3, <1>6, <2>3
    <2> HIDE DEF most
    <2>6. \A k \in Nat \ {0} : k <= most => k \in 1 .. most
      BY <2>4
    <2>7. \A k \in Nat \ {0} : k \in Fitting(params[p], symbols, a) => k <= most
      BY <1>2, <2>3, <2>4
    <2> QED
      BY <2>4, <2>5, <2>6, <2>7 DEF most
  <1> QED
    BY <1>4, <1>5, <1>6

\* So Take takes what the parameter tries first.
LEMMA TakeIsFirst ==
    ASSUME NEW params \in Seq(Params), NEW symbols \in Seq(AllSymbols), NEW T,
           NEW p \in 1 .. Len(params), NEW a \in 0 .. Len(symbols),
           Works(params, symbols, T, p, a) # {}
    PROVE  Take(params, symbols, T, p, a) = First(params[p], Works(params, symbols, T, p, a))
  <1> DEFINE least == IF params[p].optional THEN 0 ELSE 1
             most == Most(params, symbols, p, a)
             takes == {k \in least .. most : T[<<p + 1, a + k>>]}
             works == Works(params, symbols, T, p, a)
  <1>1. most \in Nat /\ \A k \in Nat \ {0} : k <= most <=> k \in Fitting(params[p], symbols, a)
    BY MostFits
  <1>2. 0 \in Fitting(params[p], symbols, a) <=> params[p].optional
    BY DEF Fitting
  <1> HIDE DEF most
  <1>3. \A k \in Nat : k \in least .. most <=> k \in Fitting(params[p], symbols, a)
    <2>1. ASSUME NEW k \in Nat, k # 0
          PROVE  k \in least .. most <=> k \in Fitting(params[p], symbols, a)
      <3>1. k \in least .. most <=> k <= most
        BY <1>1, <2>1
      <3> QED
        BY <1>1, <2>1, <3>1
    <2>2. 0 \in least .. most <=> params[p].optional
      BY <1>1
    <2> QED
      BY <1>2, <2>1, <2>2
  <1>4. \A k \in Fitting(params[p], symbols, a) : k \in Nat
    BY DEF Fitting
  <1>5. \A k \in least .. most : k \in Nat
    BY <1>1
  <1>6. takes = works
    <2> HIDE DEF least
    <2> QED
      BY <1>3, <1>4, <1>5 DEF Works
  <1>7. Take(params, symbols, T, p, a) = IF params[p].lazy THEN Min(takes) ELSE Max(takes)
    BY DEF Take, most
  <1>8. works \in SUBSET (0 .. Len(symbols)) /\ Len(symbols) \in Nat
    BY WorksRange
  <1> HIDE DEF takes, works, least
  <1>9. First(params[p], works) = IF params[p].lazy THEN Min(works) ELSE Max(works)
    BY <1>8, FirstIs DEF works
  <1> QED
    BY <1>6, <1>7, <1>9 DEF works

\* Solve follows the walk of its table.
LEMMA SolveWalks ==
    ASSUME NEW params \in Seq(Params), NEW symbols \in Seq(AllSymbols), NEW n \in 0 .. Len(params),
           NEW anchored \in BOOLEAN, NEW T, Table(T, params, symbols, n, anchored)
    PROVE  LET cells == (n + 1) * (Len(symbols) + 1)
               r == Solve(params, symbols, n, anchored)
           IN  /\ ~T[<<1, 0>>] => r = NoMatch(cells)
               /\ \A t : T[<<1, 0>>] /\ Walk(t, params, symbols, T, n) =>
                    r = [ok |-> TRUE, cells |-> cells, counts |-> Counts(t, n)]
  <1>1. n \in Nat /\ Reaches(params, symbols, n, anchored) = T
    <2>1. n \in Nat
      OBVIOUS
    <2> QED
      BY <2>1, ReachIsTable, OneTable
  <1> DEFINE Step(f, p) == LET a == f[p - 1] IN a + Take(params, symbols, T, p, a)
             Unfolded(f) == [p \in 0 .. n |-> IF p = 0 THEN 0 ELSE Step(f, p)]
             taken == CHOOSE f : f = Unfolded(f)
             cells == (n + 1) * (Len(symbols) + 1)
  <1>2. Solve(params, symbols, n, anchored) =
            IF ~T[<<1, 0>>] THEN NoMatch(cells)
            ELSE [ok |-> TRUE, cells |-> cells,
                  counts |-> [p \in 1 .. n |-> Take(params, symbols, T, p, taken[p - 1])]]
    BY <1>1 DEF Solve
  <1>3. ASSUME NEW t, T[<<1, 0>>], Walk(t, params, symbols, T, n)
        PROVE  Solve(params, symbols, n, anchored) = [ok |-> TRUE, cells |-> cells, counts |-> Counts(t, n)]
    <2>1. ASSUME NEW p \in 1 .. n
          PROVE  /\ t[p - 1] \in 0 .. Len(symbols)
                 /\ t[p] = t[p - 1] + Take(params, symbols, T, p, t[p - 1])
                 /\ t[p] - t[p - 1] = Take(params, symbols, T, p, t[p - 1])
      <3> DEFINE take == Take(params, symbols, T, p, t[p - 1])
      <3>1. p \in 1 .. Len(params) /\ t[p - 1] \in 0 .. Len(symbols)
        <4>1. p \in 1 .. Len(params)
          OBVIOUS
        <4>2. t[p - 1] \in 0 .. Len(symbols)
          BY <1>1, <1>3, WalkTakes
        <4> QED
          BY <4>1, <4>2
      <3>2. /\ Works(params, symbols, T, p, t[p - 1]) # {}
            /\ t[p] = t[p - 1] + First(params[p], Works(params, symbols, T, p, t[p - 1]))
        BY <1>3 DEF Walk
      <3>3. take = First(params[p], Works(params, symbols, T, p, t[p - 1]))
        BY <3>1, <3>2, TakeIsFirst
      <3>4. take \in Nat
        BY <3>1, <3>2, <3>3, WorksRange
      <3> HIDE DEF take
      <3>5. t[p] = t[p - 1] + take /\ t[p] - t[p - 1] = take
        BY <3>1, <3>2, <3>3, <3>4
      <3> QED
        BY <3>1, <3>5 DEF take
    <2>2. t = Unfolded(t)
      <3>1. t \in [0 .. n -> 0 .. Len(symbols)] /\ t[0] = 0
        BY <1>3 DEF Walk
      <3>2. \A p \in 0 .. n : t[p] = IF p = 0 THEN 0 ELSE Step(t, p)
        BY <2>1, <3>1
      <3> HIDE DEF Step
      <3> QED
        BY <3>1, <3>2
    <2>3. taken = Unfolded(taken)
      <3> HIDE DEF Unfolded
      <3> QED
        BY <2>2
    <2> HIDE DEF taken
    <2>4. \A i \in 1 .. n : taken[i - 1] = t[i - 1] => taken[i] = t[i]
      BY <2>2, <2>3
    <2>5. taken[0] = t[0]
      BY <1>1, <2>2, <2>3
    <2>6. DOMAIN t = 0 .. n /\ DOMAIN taken = 0 .. n
      BY <2>2, <2>3
    <2>7. t = [i \in 0 .. n |-> t[i]] /\ taken = [i \in 0 .. n |-> taken[i]]
      BY <2>2, <2>3
    <2>8. taken = t
      <3> HIDE DEF Unfolded
      <3> QED
        BY <1>1, <2>4, <2>5, <2>6, <2>7, SameLoop
    <2>9. [p \in 1 .. n |-> Take(params, symbols, T, p, taken[p - 1])] = Counts(t, n)
      BY <2>1, <2>8 DEF Counts
    <2> QED
      BY <1>2, <1>3, <2>9
  <1> QED
    BY <1>2, <1>3

\* When no parameter is variadic each takes one symbol or none.
LEMMA OneOrNone ==
    ASSUME NEW params \in Seq(Params), NEW symbols \in Seq(AllSymbols), NEW T,
           NEW p \in 1 .. Len(params), NEW a \in 0 .. Len(symbols)
    PROVE  /\ 0 \in Works(params, symbols, T, p, a) <=> params[p].optional /\ T[<<p + 1, a>>]
           /\ 1 \in Works(params, symbols, T, p, a) <=>
                Accepts(params, symbols, p, a) /\ T[<<p + 1, a + 1>>]
           /\ ~Variadic(params) => Works(params, symbols, T, p, a) \subseteq {0, 1}
  <1>0. Len(symbols) \in Nat
    OBVIOUS
  <1>1. 0 \in Fitting(params[p], symbols, a) <=> params[p].optional
    BY <1>0 DEF Fitting
  <1>2. 1 \in Fitting(params[p], symbols, a) <=> Accepts(params, symbols, p, a)
    BY <1>0 DEF Fitting, Accepts
  <1>3. a + 0 = a
    OBVIOUS
  <1>4. ~Variadic(params) => Works(params, symbols, T, p, a) \subseteq {0, 1}
    <2> SUFFICES ASSUME ~Variadic(params), NEW k \in Fitting(params[p], symbols, a)
                 PROVE  k \in {0, 1}
      BY DEF Works
    <2>1. ~params[p].variadic
      BY DEF Variadic
    <2>2. k \in Nat /\ ~(k > 1)
      BY <2>1 DEF Fitting
    <2> QED
      BY <2>2
  <1> QED
    BY <1>1, <1>2, <1>3, <1>4 DEF Works

LEMMA FewTaken ==
    ASSUME NEW params \in Seq(Params), NEW symbols \in Seq(AllSymbols), NEW T,
           NEW n \in 0 .. Len(params), NEW t, Walk(t, params, symbols, T, n), ~Variadic(params)
    PROVE  /\ \A p \in 1 .. n : t[p] = t[p - 1] \/ t[p] = t[p - 1] + 1
           /\ \A p \in 0 .. n : t[p] <= p
  <1>0. n \in Nat /\ \A p \in 0 .. n : t[p] \in Nat
    BY DEF Walk
  <1>1. ASSUME NEW p \in 1 .. n
        PROVE  t[p] = t[p - 1] \/ t[p] = t[p - 1] + 1
    <2>1. p \in 1 .. Len(params) /\ p - 1 \in 0 .. n /\ p \in 0 .. n
      OBVIOUS
    <2>2. t[p] - t[p - 1] \in Fitting(params[p], symbols, t[p - 1]) /\ t[p] - t[p - 1] \in Nat
      BY <1>0, WalkTakes
    <2>3. ~(t[p] - t[p - 1] > 1)
      BY <2>1, <2>2 DEF Fitting, Variadic
    <2> QED
      BY <1>0, <2>1, <2>2, <2>3
  <1> DEFINE P == {p \in 0 .. n : t[p] <= p}
  <1>2. 0 \in P
    BY <1>0 DEF Walk
  <1>3. ASSUME NEW i \in 0 .. n - 1, i \in P
        PROVE  i + 1 \in P
    <2>1. i + 1 \in 1 .. n /\ i + 1 \in 0 .. n /\ (i + 1) - 1 = i /\ i \in 0 .. n
      OBVIOUS
    <2>2. t[i + 1] = t[i] \/ t[i + 1] = t[i] + 1
      BY <1>1, <2>1
    <2>3. t[i] <= i /\ t[i] \in Nat
      BY <1>0, <1>3, <2>1
    <2>4. t[i + 1] <= i + 1
      BY <2>2, <2>3
    <2> QED
      BY <2>1, <2>4
  <1> HIDE DEF P
  <1>4. 0 .. n \subseteq P
    BY <1>0, <1>2, <1>3, UpwardInduction
  <1> QED
    BY <1>1, <1>4 DEF P

\* Then the symbols that are left are no more than the parameters.
LEMMA FixedBound ==
    ASSUME NEW params \in Seq(Params), NEW symbols \in Seq(AllSymbols), ~Variadic(params),
           NEW T, Table(T, params, symbols, Len(params), TRUE)
    PROVE  \A p \in 1 .. Len(params) + 1, a \in 0 .. Len(symbols) :
                T[<<p, a>>] => Len(symbols) - a <= Len(params) + 1 - p
  <1> DEFINE n == Len(params)
             m == Len(symbols)
             P == {i \in 0 .. n : \A a \in 0 .. m : T[<<i + 1, a>>] => m - a <= n - i}
  <1>0. n \in Nat /\ m \in Nat
    OBVIOUS
  <1>1. n \in P
    <2>1. \A a \in 0 .. m : T[<<n + 1, a>>] => a = m
      BY DEF Table
    <2> QED
      BY <1>0, <2>1
  <1>2. ASSUME NEW i \in 0 .. n - 1, i + 1 \in P
        PROVE  i \in P
    <2>1. ASSUME NEW a \in 0 .. m, T[<<i + 1, a>>]
          PROVE  m - a <= n - i
      <3>1. i + 1 \in 1 .. n
        OBVIOUS
      <3>2. PICK k \in Works(params, symbols, T, i + 1, a) : TRUE
        BY <2>1, <3>1 DEF Table
      <3>3. k \in {0, 1} /\ a + k \in 0 .. m /\ T[<<i + 1 + 1, a + k>>]
        BY <3>1, OneOrNone, FittingRange DEF Works
      <3>4. m - (a + k) <= n - (i + 1)
        BY <1>2, <3>3
      <3> QED
        BY <1>0, <3>3, <3>4
    <2> QED
      BY <2>1
  <1> HIDE DEF P
  <1>3. 0 .. n \subseteq P
    BY <1>0, <1>1, <1>2, DownwardInduction
  <1>4. ASSUME NEW p \in 1 .. n + 1, NEW a \in 0 .. m, T[<<p, a>>]
        PROVE  m - a <= n + 1 - p
    <2>1. p - 1 \in P /\ (p - 1) + 1 = p /\ n - (p - 1) = n + 1 - p
      BY <1>3
    <2> QED
      BY <1>4, <2>1 DEF P
  <1> QED
    BY <1>4

\* What matchFixed's table says: k of the parameters before p are skipped.
SkipsTo(T, symbols, p, k) == p - 1 - k \in 0 .. Len(symbols) /\ T[<<p, p - 1 - k>>]

FixedUnfolded(f, params, symbols) ==
    f = [cell \in (1 .. Len(params) + 1) \X (0 .. Len(params) - Len(symbols)) |->
            IF cell[1] = Len(params) + 1 THEN cell[2] = Len(params) - Len(symbols)
            ELSE /\ cell[1] - 1 - cell[2] \in 0 .. Len(symbols)
                 /\ \/ /\ Accepts(params, symbols, cell[1], cell[1] - 1 - cell[2])
                       /\ f[<<cell[1] + 1, cell[2]>>]
                    \/ /\ params[cell[1]].optional /\ cell[2] < Len(params) - Len(symbols)
                       /\ f[<<cell[1] + 1, cell[2] + 1>>]]

LEMMA FixedTable ==
    ASSUME NEW params \in Seq(Params), NEW symbols \in Seq(AllSymbols), ~Variadic(params),
           Len(symbols) <= Len(params),
           NEW T, Table(T, params, symbols, Len(params), TRUE)
    PROVE  \A p \in 1 .. Len(params) + 1, k \in 0 .. Len(params) - Len(symbols) :
                ReachFixed(params, symbols)[<<p, k>>] <=> SkipsTo(T, symbols, p, k)
  <1> DEFINE n == Len(params)
             m == Len(symbols)
             skips == n - m
             I == (1 .. n + 1) \X (0 .. skips)
             G == [c \in I |-> SkipsTo(T, symbols, c[1], c[2])]
             R == ReachFixed(params, symbols)
             Value(f, p, k) ==
                IF p = n + 1 THEN k = skips
                ELSE /\ p - 1 - k \in 0 .. m
                     /\ \/ Accepts(params, symbols, p, p - 1 - k) /\ f[<<p + 1, k>>]
                        \/ params[p].optional /\ k < skips /\ f[<<p + 1, k + 1>>]
  <1>0. n \in Nat /\ m \in Nat /\ skips \in Nat
    OBVIOUS
  <1>1. \A p \in 1 .. n + 1, k \in 0 .. skips : <<p, k>> \in I /\ G[<<p, k>>] = SkipsTo(T, symbols, p, k)
    OBVIOUS
  <1>2. ASSUME NEW p \in 1 .. n + 1, NEW k \in 0 .. skips
        PROVE  G[<<p, k>>] <=> Value(G, p, k)
    <2> DEFINE a == p - 1 - k
    <2>0. a \in Int /\ p \in Nat /\ k \in Nat
      OBVIOUS
    <2>1. CASE p = n + 1
      <3>1. SkipsTo(T, symbols, p, k) <=> a \in 0 .. m /\ a = m
        BY <2>1 DEF SkipsTo, Table
      <3>2. a = m <=> k = skips
        BY <1>0, <2>1
      <3> QED
        BY <1>0, <1>1, <2>1, <3>1, <3>2
    <2>2. CASE p # n + 1 /\ a \notin 0 .. m
      <3>1. ~SkipsTo(T, symbols, p, k)
        BY <2>2 DEF SkipsTo
      <3> QED
        BY <1>1, <2>2, <3>1
    <2>3. CASE p # n + 1 /\ a \in 0 .. m
      <3>1. p \in 1 .. n /\ p + 1 \in 1 .. n + 1
        BY <1>0, <2>3
      <3>2. SkipsTo(T, symbols, p, k) <=> Works(params, symbols, T, p, a) # {}
        BY <2>3, <3>1 DEF SkipsTo, Table
      <3>3. Works(params, symbols, T, p, a) # {} <=>
                0 \in Works(params, symbols, T, p, a) \/ 1 \in Works(params, symbols, T, p, a)
        BY <2>3, <3>1, OneOrNone
      <3>4. Accepts(params, symbols, p, a) => (T[<<p + 1, a + 1>>] <=> G[<<p + 1, k>>])
        <4>1. p + 1 - 1 - k = a + 1
          BY <2>0
        <4>2. Accepts(params, symbols, p, a) => a + 1 \in 0 .. m
          BY <2>3 DEF Accepts
        <4>3. G[<<p + 1, k>>] = SkipsTo(T, symbols, p + 1, k)
          BY <1>1, <3>1
        <4>4. SkipsTo(T, symbols, p + 1, k) <=> a + 1 \in 0 .. m /\ T[<<p + 1, a + 1>>]
          BY <4>1 DEF SkipsTo
        <4> HIDE DEF G
        <4> QED
          BY <4>2, <4>3, <4>4
      <3>5. T[<<p + 1, a>>] <=> k < skips /\ G[<<p + 1, k + 1>>]
        <4>1. p + 1 - 1 - (k + 1) = a
          BY <2>0
        <4>2. k < skips => k + 1 \in 0 .. skips
          BY <1>0, <2>0
        <4>3. T[<<p + 1, a>>] => k < skips
          <5>1. T[<<p + 1, a>>] => m - a <= n + 1 - (p + 1)
            BY <2>3, <3>1, FixedBound
          <5>2. m - a <= n + 1 - (p + 1) => k < n - m
            BY <1>0, <2>0
          <5> QED
            BY <5>1, <5>2
        <4>4. k < skips => (T[<<p + 1, a>>] <=> G[<<p + 1, k + 1>>])
          <5>1. k < skips => G[<<p + 1, k + 1>>] = SkipsTo(T, symbols, p + 1, k + 1)
            BY <1>1, <3>1, <4>2
          <5>2. SkipsTo(T, symbols, p + 1, k + 1) <=> T[<<p + 1, a>>]
            BY <2>3, <4>1 DEF SkipsTo
          <5> HIDE DEF G
          <5> QED
            BY <5>1, <5>2
        <4> QED
          BY <4>3, <4>4
      <3> HIDE DEF G
      <3>6. /\ 0 \in Works(params, symbols, T, p, a) <=> params[p].optional /\ T[<<p + 1, a>>]
            /\ 1 \in Works(params, symbols, T, p, a) <=>
                    Accepts(params, symbols, p, a) /\ T[<<p + 1, a + 1>>]
        BY <2>3, <3>1, OneOrNone
      <3> QED
        BY <1>1, <2>3, <3>2, <3>3, <3>4, <3>5, <3>6
    <2> QED
      BY <2>1, <2>2, <2>3
  <1>3. FixedUnfolded(G, params, symbols)
    <2>1. \A c \in I : G[c] = Value(G, c[1], c[2])
      <3> SUFFICES ASSUME NEW c \in I
                   PROVE  G[c] = Value(G, c[1], c[2])
        OBVIOUS
      <3>1. c[1] \in 1 .. n + 1 /\ c[2] \in 0 .. skips /\ c = <<c[1], c[2]>>
        OBVIOUS
      <3>2. G[c] \in BOOLEAN /\ Value(G, c[1], c[2]) \in BOOLEAN
        BY DEF SkipsTo
      <3> HIDE DEF G, Value
      <3> QED
        BY <1>2, <3>1, <3>2
    <2>2. G = [c \in I |-> Value(G, c[1], c[2])]
      <3> HIDE DEF Value
      <3> QED
        BY <2>1
    <2> HIDE DEF G
    <2> QED
      BY <2>2 DEF FixedUnfolded
  <1>4. R = CHOOSE g : FixedUnfolded(g, params, symbols)
    BY DEF ReachFixed, FixedUnfolded
  <1>5. FixedUnfolded(R, params, symbols)
    <2> HIDE DEF G, R
    <2> QED
      BY <1>3, <1>4
  <1> HIDE DEF G, R
  <1>6. \A p \in 1 .. n + 1, k \in 0 .. skips : R[<<p, k>>] <=> Value(R, p, k)
    <2> SUFFICES ASSUME NEW p \in 1 .. n + 1, NEW k \in 0 .. skips
                 PROVE  R[<<p, k>>] <=> Value(R, p, k)
      OBVIOUS
    <2>1. <<p, k>> \in I
      OBVIOUS
    <2> QED
      BY <1>5, <2>1 DEF FixedUnfolded
  <1> DEFINE P == {i \in 0 .. n : \A k \in 0 .. skips : R[<<i + 1, k>>] <=> G[<<i + 1, k>>]}
  <1>7. n \in P
    <2>1. \A k \in 0 .. skips : R[<<n + 1, k>>] <=> G[<<n + 1, k>>]
      <3>1. n + 1 \in 1 .. n + 1
        BY <1>0
      <3> QED
        BY <1>2, <1>6, <3>1
    <2> QED
      BY <1>0, <2>1
  <1>8. ASSUME NEW i \in 0 .. n - 1, i + 1 \in P
        PROVE  i \in P
    <2>1. ASSUME NEW k \in 0 .. skips
          PROVE  R[<<i + 1, k>>] <=> G[<<i + 1, k>>]
      <3>1. i + 1 \in 1 .. n + 1 /\ i + 1 # n + 1
        BY <1>0
      <3>2. R[<<i + 1 + 1, k>>] <=> G[<<i + 1 + 1, k>>]
        BY <1>8
      <3>3. k < skips => (R[<<i + 1 + 1, k + 1>>] <=> G[<<i + 1 + 1, k + 1>>])
        <4>1. k < skips => k + 1 \in 0 .. skips
          BY <1>0
        <4> QED
          BY <1>8, <4>1
      <3>4. Value(R, i + 1, k) <=> Value(G, i + 1, k)
        BY <3>1, <3>2, <3>3
      <3> HIDE DEF Value
      <3> QED
        BY <1>2, <1>6, <3>1, <3>4
    <2> QED
      BY <2>1
  <1> HIDE DEF P
  <1>9. 0 .. n \subseteq P
    BY <1>0, <1>7, <1>8, DownwardInduction
  <1>10. ASSUME NEW p \in 1 .. n + 1, NEW k \in 0 .. skips
         PROVE  R[<<p, k>>] <=> SkipsTo(T, symbols, p, k)
    <2>1. p - 1 \in P /\ (p - 1) + 1 = p
      BY <1>9
    <2>2. R[<<p, k>>] <=> G[<<p, k>>]
      BY <2>1 DEF P
    <2> QED
      BY <1>1, <2>2
  <1> QED
    BY <1>10 DEF R

\* A parameter takes a symbol when the walk does.
LEMMA TakesFixedIs ==
    ASSUME NEW params \in Seq(Params), NEW symbols \in Seq(AllSymbols), ~Variadic(params),
           Len(symbols) <= Len(params),
           NEW T, Table(T, params, symbols, Len(params), TRUE),
           NEW t, Walk(t, params, symbols, T, Len(params)), NEW p \in 1 .. Len(params)
    PROVE  LET k == p - 1 - t[p - 1]
           IN  TakesFixed(params, symbols, ReachFixed(params, symbols), p, k) <=> t[p] = t[p - 1] + 1
  <1> DEFINE n == Len(params)
             m == Len(symbols)
             skips == n - m
             R == ReachFixed(params, symbols)
             a == t[p - 1]
             k == p - 1 - a
             works == Works(params, symbols, T, p, a)
  <1>0. n \in Nat /\ m \in Nat /\ skips \in Nat /\ p \in Nat /\ p + 1 \in 1 .. n + 1 /\ p \in 1 .. n + 1
    OBVIOUS
  <1>1. a \in 0 .. m /\ a <= p - 1 /\ a \in Nat /\ T[<<p, a>>]
    <2>1. p - 1 \in 0 .. n
      OBVIOUS
    <2>2. a <= p - 1
      <3>1. n \in 0 .. Len(params)
        BY <1>0
      <3>2. \A q \in 0 .. n : t[q] <= q
        BY <3>1, FewTaken
      <3> QED
        BY <2>1, <3>2
    <2>3. a \in 0 .. m
      BY <2>1 DEF Walk
    <2>4. works # {}
      BY DEF Walk
    <2>5. T[<<p, a>>]
      BY <2>3, <2>4 DEF Table
    <2> HIDE DEF a
    <2> QED
      BY <2>2, <2>3, <2>5
  <1> HIDE DEF a
  <1>2. k \in 0 .. skips /\ p - 1 - k = a /\ k \in Nat
    <2>1. m - a <= n + 1 - p
      BY <1>0, <1>1, FixedBound
    <2> QED
      BY <1>0, <1>1, <2>1
  <1>3. \A q \in 1 .. n + 1, i \in 0 .. skips : R[<<q, i>>] <=> SkipsTo(T, symbols, q, i)
    BY FixedTable
  <1> HIDE DEF R
  <1>4. Accepts(params, symbols, p, a) => (R[<<p + 1, k>>] <=> T[<<p + 1, a + 1>>])
    <2>1. (p + 1) - 1 - k = a + 1
      BY <1>0, <1>1, <1>2
    <2>2. Accepts(params, symbols, p, a) => a + 1 \in 0 .. m
      BY <1>1 DEF Accepts
    <2>3. R[<<p + 1, k>>] <=> SkipsTo(T, symbols, p + 1, k)
      BY <1>0, <1>2, <1>3
    <2>4. SkipsTo(T, symbols, p + 1, k) <=> a + 1 \in 0 .. m /\ T[<<p + 1, a + 1>>]
      <3> HIDE DEF k
      <3> QED
        BY <2>1 DEF SkipsTo
    <2> QED
      BY <2>2, <2>3, <2>4
  <1>5. T[<<p + 1, a>>] <=> k < skips /\ R[<<p + 1, k + 1>>]
    <2>1. p + 1 - 1 - (k + 1) = a
      BY <1>0, <1>1, <1>2
    <2>2. k < skips => k + 1 \in 0 .. skips
      BY <1>0, <1>2
    <2>3. T[<<p + 1, a>>] => k < skips
      <3>1. T[<<p + 1, a>>] => m - a <= n + 1 - (p + 1)
        BY <1>0, <1>1, FixedBound
      <3>2. m - a <= n + 1 - (p + 1) => k < skips
        BY <1>0, <1>1, <1>2
      <3> QED
        BY <3>1, <3>2
    <2>4. k < skips => (R[<<p + 1, k + 1>>] <=> SkipsTo(T, symbols, p + 1, k + 1))
      BY <1>0, <1>3, <2>2
    <2>5. SkipsTo(T, symbols, p + 1, k + 1) <=> T[<<p + 1, a>>]
      BY <1>1, <2>1 DEF SkipsTo
    <2> QED
      BY <2>3, <2>4, <2>5
  <1>6. /\ 0 \in works <=> params[p].optional /\ T[<<p + 1, a>>]
        /\ 1 \in works <=> Accepts(params, symbols, p, a) /\ T[<<p + 1, a + 1>>]
        /\ works \subseteq {0, 1}
    BY <1>1, OneOrNone
  <1>7. works # {} /\ t[p] = a + First(params[p], works)
    BY DEF Walk, a
  <1> HIDE DEF works
  <1>8. /\ params[p].lazy => First(params[p], works) = Min(works)
        /\ ~params[p].lazy => First(params[p], works) = Max(works)
        /\ First(params[p], works) \in works
        /\ \A j \in works : Min(works) <= j /\ j <= Max(works)
    <2>1. works \in SUBSET (0 .. 1) /\ works \in SUBSET Nat
      BY <1>6
    <2>2. First(params[p], works) = IF params[p].lazy THEN Min(works) ELSE Max(works)
      BY <1>7, <2>1, FirstIs
    <2>3. First(params[p], works) \in works
      BY <1>7, <2>1, FirstIs
    <2>4. \A j \in works : Min(works) <= j
      BY <1>7, <2>1, LeastIn
    <2>5. \A j \in works : Max(works) >= j
      BY <1>7, <2>1, MostIn
    <2>6. Min(works) \in works /\ Max(works) \in works
      BY <1>7, <2>1, LeastIn, MostIn
    <2>7. Min(works) \in Nat /\ Max(works) \in Nat /\ \A j \in works : j \in Nat
      BY <2>1, <2>6
    <2>8. \A j \in works : j <= Max(works)
      BY <2>5, <2>7
    <2> QED
      BY <2>2, <2>3, <2>4, <2>8
  <1> DEFINE first == First(params[p], works)
  <1>9. first = 1 <=> 1 \in works /\ (0 \notin works \/ ~params[p].lazy)
    <2> DEFINE min == Min(works)
               max == Max(works)
    <2>1. /\ params[p].lazy => first = min
          /\ ~params[p].lazy => first = max
          /\ first \in works /\ \A j \in works : min <= j /\ j <= max
      BY <1>8
    <2> HIDE DEF first, min, max
    <2>2. ASSUME 1 \in works, 0 \in works, params[p].lazy
          PROVE  first # 1
      BY <2>1, <2>2
    <2>3. ASSUME 1 \in works, ~params[p].lazy
          PROVE  first = 1
      BY <1>6, <2>1, <2>3
    <2> QED
      BY <1>6, <2>1, <2>2, <2>3
  <1>10. t[p] = a + 1 <=> first = 1
    <2>1. t[p] = a + first /\ first \in {0, 1}
      BY <1>6, <1>7, <1>8
    <2> HIDE DEF first
    <2> QED
      BY <1>1, <2>1
  <1>11. TakesFixed(params, symbols, R, p, k) <=>
            /\ Accepts(params, symbols, p, a) /\ R[<<p + 1, k>>]
            /\ ~(params[p].optional /\ k < skips /\ R[<<p + 1, k + 1>>]) \/ ~params[p].lazy
    BY <1>2 DEF TakesFixed
  <1> HIDE DEF first
  <1>12. TakesFixed(params, symbols, R, p, k) <=> 1 \in works /\ (0 \notin works \/ ~params[p].lazy)
    BY <1>4, <1>5, <1>6, <1>11
  <1>13. TakesFixed(params, symbols, R, p, k) <=> t[p] = a + 1
    BY <1>9, <1>10, <1>12
  <1> QED
    BY <1>13 DEF R, a

\* MatchFixed follows the walk of the table.
LEMMA MatchFixedWalks ==
    ASSUME NEW params \in Seq(Params), NEW symbols \in Seq(AllSymbols), ~Variadic(params),
           NEW T, Table(T, params, symbols, Len(params), TRUE)
    PROVE  LET n == Len(params)
               cells == IF Len(symbols) > n THEN 0 ELSE (n + 1) * (n - Len(symbols) + 1)
               r == MatchFixed(params, symbols)
           IN  /\ T[<<1, 0>>] => Len(symbols) <= n
               /\ ~T[<<1, 0>>] => r = NoMatch(cells)
               /\ \A t : T[<<1, 0>>] /\ Walk(t, params, symbols, T, n) =>
                    r = [ok |-> TRUE, cells |-> cells, counts |-> Counts(t, n)]
  <1> DEFINE n == Len(params)
             m == Len(symbols)
             cells == IF m > n THEN 0 ELSE (n + 1) * (n - m + 1)
             R == ReachFixed(params, symbols)
             Step(f, p) == LET k == f[p - 1] IN IF TakesFixed(params, symbols, R, p, k) THEN k ELSE k + 1
             Unfolded(f) == [p \in 0 .. n |-> IF p = 0 THEN 0 ELSE Step(f, p)]
             skipped == CHOOSE f : f = Unfolded(f)
  <1>0. n \in Nat /\ m \in Nat
    OBVIOUS
  <1>1. T[<<1, 0>>] => m <= n
    <2>1. 1 \in 1 .. n + 1 /\ 0 \in 0 .. m
      BY <1>0
    <2>2. T[<<1, 0>>] => m - 0 <= n + 1 - 1
      BY <2>1, FixedBound
    <2> QED
      BY <1>0, <2>2
  <1>2. MatchFixed(params, symbols) =
            IF m > n THEN NoMatch(0)
            ELSE IF ~R[<<1, 0>>] THEN NoMatch((n + 1) * (n - m + 1))
            ELSE [ok |-> TRUE, cells |-> (n + 1) * (n - m + 1),
                  counts |-> [p \in DOMAIN params |->
                                 IF TakesFixed(params, symbols, R, p, skipped[p - 1]) THEN 1 ELSE 0]]
    BY DEF MatchFixed
  <1> HIDE DEF R
  <1>3. m <= n => (R[<<1, 0>>] <=> T[<<1, 0>>])
    <2>1. ASSUME m <= n
          PROVE  R[<<1, 0>>] <=> T[<<1, 0>>]
      <3>1. 1 \in 1 .. n + 1 /\ 0 \in 0 .. n - m /\ 1 - 1 - 0 = 0 /\ 0 \in 0 .. m
        BY <1>0, <2>1
      <3>2. R[<<1, 0>>] <=> SkipsTo(T, symbols, 1, 0)
        BY <2>1, <3>1, FixedTable DEF R
      <3> QED
        BY <3>1, <3>2 DEF SkipsTo
    <2> QED
      BY <2>1
  <1>4. ~T[<<1, 0>>] => MatchFixed(params, symbols) = NoMatch(cells)
    <2>1. m > n <=> ~(m <= n)
      BY <1>0
    <2> QED
      BY <1>2, <1>3, <2>1
  <1>5. ASSUME NEW t, T[<<1, 0>>], Walk(t, params, symbols, T, n)
        PROVE  MatchFixed(params, symbols) = [ok |-> TRUE, cells |-> cells, counts |-> Counts(t, n)]
    <2> DEFINE s == [p \in 0 .. n |-> p - t[p]]
    <2>0. m <= n /\ ~(m > n)
      BY <1>0, <1>1, <1>5
    <2>1. \A p \in 0 .. n : t[p] \in Nat
      BY <1>5 DEF Walk
    <2>2. ASSUME NEW p \in 1 .. n
          PROVE  /\ p \in DOMAIN params /\ p \in 0 .. n /\ p - 1 \in 0 .. n /\ p # 0
                 /\ s[p - 1] = p - 1 - t[p - 1] /\ s[p] = p - t[p]
                 /\ TakesFixed(params, symbols, R, p, s[p - 1]) <=> t[p] = t[p - 1] + 1
                 /\ t[p] - t[p - 1] = IF TakesFixed(params, symbols, R, p, s[p - 1]) THEN 1 ELSE 0
                 /\ s[p] = Step(s, p)
      <3>1. p \in DOMAIN params /\ p \in 0 .. n /\ p - 1 \in 0 .. n /\ p # 0
        OBVIOUS
      <3>2. s[p - 1] = p - 1 - t[p - 1] /\ s[p] = p - t[p]
        BY <3>1
      <3>3. TakesFixed(params, symbols, R, p, p - 1 - t[p - 1]) <=> t[p] = t[p - 1] + 1
        BY <1>5, <2>0, TakesFixedIs DEF R
      <3>4. t[p] = t[p - 1] \/ t[p] = t[p - 1] + 1
        <4>1. n \in 0 .. Len(params)
          BY <1>0
        <4> QED
          BY <1>5, <4>1, FewTaken
      <3>5. t[p] \in Nat /\ t[p - 1] \in Nat
        BY <2>1, <3>1
      <3> HIDE DEF s
      <3>6. t[p] - t[p - 1] = IF TakesFixed(params, symbols, R, p, s[p - 1]) THEN 1 ELSE 0
        BY <3>2, <3>3, <3>4, <3>5
      <3>7. s[p] = Step(s, p)
        <4>1. CASE t[p] = t[p - 1] + 1
          BY <3>2, <3>3, <3>5, <4>1
        <4>2. CASE t[p] # t[p - 1] + 1
          BY <3>2, <3>3, <3>4, <3>5, <4>2
        <4> QED
          BY <4>1, <4>2
      <3> QED
        BY <3>1, <3>2, <3>3, <3>6, <3>7
    <2>3. s[0] = 0
      <3>1. 0 \in 0 .. n /\ t[0] = 0
        BY <1>0, <1>5 DEF Walk
      <3> QED
        BY <3>1
    <2>4. s = Unfolded(s)
      <3>1. \A p \in 1 .. n : s[p] = Step(s, p)
        BY <2>2
      <3>2. \A p \in 0 .. n : p = 0 \/ p \in 1 .. n
        OBVIOUS
      <3>3. DOMAIN s = 0 .. n /\ s = [p \in 0 .. n |-> s[p]]
        OBVIOUS
      <3> HIDE DEF Step, s
      <3>4. \A p \in 0 .. n : s[p] = IF p = 0 THEN 0 ELSE Step(s, p)
        BY <2>3, <3>1, <3>2
      <3> QED
        BY <3>3, <3>4
    <2>5. skipped = Unfolded(skipped)
      <3> HIDE DEF Unfolded, s
      <3> QED
        BY <2>4
    <2> HIDE DEF skipped
    <2>6. \A i \in 1 .. n : skipped[i - 1] = s[i - 1] => skipped[i] = s[i]
      <3> SUFFICES ASSUME NEW i \in 1 .. n, skipped[i - 1] = s[i - 1]
                   PROVE  skipped[i] = s[i]
        OBVIOUS
      <3>1. i \in 0 .. n /\ i # 0
        OBVIOUS
      <3>2. skipped[i] = Step(skipped, i)
        BY <2>5, <3>1
      <3>3. s[i] = Step(s, i)
        BY <2>2
      <3> HIDE DEF s
      <3> QED
        BY <3>2, <3>3
    <2>7. skipped[0] = s[0]
      BY <1>0, <2>3, <2>5
    <2>8. DOMAIN skipped = 0 .. n /\ DOMAIN s = 0 .. n
      BY <2>5
    <2>9. skipped = [i \in 0 .. n |-> skipped[i]] /\ s = [i \in 0 .. n |-> s[i]]
      BY <2>5
    <2>10. skipped = s
      <3> HIDE DEF Unfolded, s
      <3> QED
        BY <1>0, <2>6, <2>7, <2>8, <2>9, SameLoop
    <2>11. [p \in DOMAIN params |-> IF TakesFixed(params, symbols, R, p, skipped[p - 1]) THEN 1 ELSE 0]
              = Counts(t, n)
      <3>1. DOMAIN params = 1 .. n
        OBVIOUS
      <3>2. \A p \in 1 .. n : t[p] - t[p - 1] =
                IF TakesFixed(params, symbols, R, p, skipped[p - 1]) THEN 1 ELSE 0
        BY <2>2, <2>10
      <3> QED
        BY <3>1, <3>2 DEF Counts
    <2> QED
      BY <1>2, <1>3, <1>5, <2>0, <2>11
  <1> QED
    BY <1>1, <1>4, <1>5

\* What the matcher answers is what the walk of the table takes.
LEMMA MatchWalks ==
    ASSUME NEW params \in Seq(Params), NEW symbols \in Seq(AllSymbols),
           NEW T, Table(T, params, symbols, Len(params), TRUE)
    PROVE  LET n == Len(params)
               r == Match(params, symbols)
           IN  /\ ~T[<<1, 0>>] => ~r.ok /\ r.counts = <<>>
               /\ \A t : T[<<1, 0>>] /\ Walk(t, params, symbols, T, n) => r.ok /\ r.counts = Counts(t, n)
               /\ T[<<1, 0>>] /\ ~Variadic(params) => Len(symbols) <= n
               /\ Fits(params, Len(symbols)) => r.cells <= MaxMatchCells
  <1> DEFINE n == Len(params)
             m == Len(symbols)
             r == Match(params, symbols)
  <1>0. n \in Nat /\ m \in Nat /\ n \in 0 .. Len(params) /\ MaxMatchCells \in Nat \ {0}
    BY CellsAssumption
  <1>1. ~Variadic(params) => (T[<<1, 0>>] => m <= n)
    BY MatchFixedWalks
  <1>2. CASE symbols # <<>> /\ Variadic(params)
    <2> DEFINE cells == (n + 1) * (m + 1)
    <2>1. r = Solve(params, symbols, n, TRUE)
      BY <1>2 DEF Match, MatchSymbols
    <2>2. /\ ~T[<<1, 0>>] => r = NoMatch(cells)
          /\ \A t : T[<<1, 0>>] /\ Walk(t, params, symbols, T, n) =>
                r = [ok |-> TRUE, cells |-> cells, counts |-> Counts(t, n)]
      <3> DEFINE solved == Solve(params, symbols, n, TRUE)
      <3>1. /\ ~T[<<1, 0>>] => solved = NoMatch(cells)
            /\ \A t : T[<<1, 0>>] /\ Walk(t, params, symbols, T, n) =>
                  solved = [ok |-> TRUE, cells |-> cells, counts |-> Counts(t, n)]
        BY <1>0, SolveWalks
      <3> HIDE DEF solved, r
      <3> QED
        BY <2>1, <3>1 DEF solved
    <2> HIDE DEF r
    <2>3. r.cells = cells
      <3>1. CASE T[<<1, 0>>]
        <4>1. PICK t : Walk(t, params, symbols, T, n)
          BY <1>0, <3>1, WalkExists
        <4> QED
          BY <2>2, <3>1, <4>1
      <3> QED
        BY <2>2, <3>1 DEF NoMatch
    <2>4. Fits(params, m) => cells <= MaxMatchCells
      BY <1>2 DEF Fits
    <2> QED
      BY <1>1, <1>2, <2>2, <2>3, <2>4 DEF NoMatch, r
  <1>3. CASE symbols # <<>> /\ ~Variadic(params)
    <2> DEFINE cells == IF m > n THEN 0 ELSE (n + 1) * (n - m + 1)
    <2>1. r = MatchFixed(params, symbols)
      BY <1>3 DEF Match, MatchSymbols
    <2>2. /\ ~T[<<1, 0>>] => r = NoMatch(cells)
          /\ \A t : T[<<1, 0>>] /\ Walk(t, params, symbols, T, n) =>
                r = [ok |-> TRUE, cells |-> cells, counts |-> Counts(t, n)]
      BY <1>3, <2>1, MatchFixedWalks
    <2> HIDE DEF r
    <2>3. r.cells = cells
      <3> HIDE DEF cells
      <3>1. CASE T[<<1, 0>>]
        <4>1. PICK t : Walk(t, params, symbols, T, n)
          BY <1>0, <3>1, WalkExists
        <4> QED
          BY <2>2, <3>1, <4>1
      <3> QED
        BY <2>2, <3>1 DEF NoMatch
    <2>4. Fits(params, m) => cells <= MaxMatchCells
      BY <1>0, <1>3 DEF Fits
    <2> HIDE DEF cells
    <2> QED
      BY <1>1, <1>3, <2>2, <2>3, <2>4 DEF NoMatch, r
  <1>4. CASE symbols = <<>>
    <2>0. m = 0
      BY <1>4
    <2>1. \A p \in 1 .. n : Works(params, symbols, T, p, 0) =
                IF params[p].optional /\ T[<<p + 1, 0>>] THEN {0} ELSE {}
      <3> SUFFICES ASSUME NEW p \in 1 .. n
                   PROVE  Works(params, symbols, T, p, 0) =
                                IF params[p].optional /\ T[<<p + 1, 0>>] THEN {0} ELSE {}
        OBVIOUS
      <3>1. 0 \in 0 .. Len(symbols)
        BY <1>0
      <3>2. 0 \in Works(params, symbols, T, p, 0) <=> params[p].optional /\ T[<<p + 1, 0>>]
        BY <3>1, OneOrNone
      <3>3. \A k \in Works(params, symbols, T, p, 0) : k = 0
        BY <2>0 DEF Works, Fitting
      <3> QED
        BY <3>2, <3>3
    <2>2. \A p \in 1 .. n : T[<<p, 0>>] <=> params[p].optional /\ T[<<p + 1, 0>>]
      <3>1. \A p \in 1 .. n : T[<<p, 0>>] <=> Works(params, symbols, T, p, 0) # {}
        <4>1. 0 \in 0 .. Len(symbols)
          BY <1>0
        <4> QED
          BY <4>1 DEF Table
      <3> QED
        BY <2>1, <3>1
    <2>3. T[<<n + 1, 0>>]
      BY <1>0, <2>0 DEF Table
    <2>4. (\E i \in DOMAIN params : ~params[i].optional) => ~T[<<1, 0>>]
      <3> SUFFICES ASSUME NEW i \in 1 .. n, ~params[i].optional, T[<<1, 0>>]
                   PROVE  FALSE
        OBVIOUS
      <3>1. PICK t : Walk(t, params, symbols, T, n)
        BY <1>0, WalkExists
      <3>2. i - 1 \in 0 .. n
        OBVIOUS
      <3>3. t[i - 1] = 0
        <4>1. t[i - 1] \in 0 .. m
          BY <3>1, <3>2 DEF Walk
        <4> QED
          BY <2>0, <4>1
      <3>4. Works(params, symbols, T, i, 0) # {}
        BY <3>1, <3>3 DEF Walk
      <3> QED
        BY <2>1, <3>4
    <2>5. (\A i \in DOMAIN params : params[i].optional) => T[<<1, 0>>]
      <3> SUFFICES ASSUME \A i \in 1 .. n : params[i].optional
                   PROVE  T[<<1, 0>>]
        OBVIOUS
      <3> DEFINE P == {i \in 0 .. n : T[<<i + 1, 0>>]}
      <3>1. n \in P
        BY <1>0, <2>3
      <3>2. ASSUME NEW i \in 0 .. n - 1, i + 1 \in P
            PROVE  i \in P
        BY <2>2, <3>2
      <3> HIDE DEF P
      <3>3. 0 .. n \subseteq P
        BY <1>0, <3>1, <3>2, DownwardInduction
      <3>4. 0 \in P /\ 0 + 1 = 1
        BY <1>0, <3>3
      <3> QED
        BY <3>4 DEF P
    <2>6. ASSUME NEW t, Walk(t, params, symbols, T, n)
          PROVE  Counts(t, n) = [i \in DOMAIN params |-> 0]
      <3>1. \A p \in 0 .. n : t[p] = 0
        <4>1. \A p \in 0 .. n : t[p] \in 0 .. 0
          BY <2>0, <2>6 DEF Walk
        <4> QED
          BY <4>1
      <3>2. \A p \in 1 .. n : t[p] - t[p - 1] = 0
        <4>1. \A p \in 1 .. n : p \in 0 .. n /\ p - 1 \in 0 .. n
          OBVIOUS
        <4> QED
          BY <3>1, <4>1
      <3>3. DOMAIN params = 1 .. n
        OBVIOUS
      <3> QED
        BY <3>2, <3>3 DEF Counts
    <2>7. r = IF \E i \in DOMAIN params : ~params[i].optional THEN NoMatch(0)
              ELSE [ok |-> TRUE, counts |-> [i \in DOMAIN params |-> 0], cells |-> 0]
      BY <1>4 DEF Match
    <2>8. r.cells = 0
      BY <2>7 DEF NoMatch
    <2> HIDE DEF r
    <2>9. 0 <= MaxMatchCells
      BY <1>0
    <2>10. T[<<1, 0>>] => r.ok /\ r.counts = [i \in DOMAIN params |-> 0]
      BY <2>4, <2>7
    <2>11. ~T[<<1, 0>>] => ~r.ok /\ r.counts = <<>>
      BY <2>5, <2>7 DEF NoMatch
    <2> QED
      BY <1>1, <2>6, <2>8, <2>9, <2>10, <2>11 DEF r
  <1> QED
    BY <1>2, <1>3, <1>4

\* A walk that ends at the last symbol passes every parameter that needs one.
LEMMA WalkTakesEnough ==
    ASSUME NEW params \in Seq(Params), NEW symbols \in Seq(AllSymbols),
           NEW T, Table(T, params, symbols, Len(params), TRUE), T[<<1, 0>>]
    PROVE  Takes(params, Len(symbols))
  <1> DEFINE n == Len(params)
             m == Len(symbols)
             Needed(p) == {i \in 1 .. p : ~params[i].optional /\ ~params[i].context}
  <1>0. n \in Nat /\ m \in Nat
    OBVIOUS
  <1>1. PICK t : Walk(t, params, symbols, T, n)
    BY <1>0, WalkExists
  <1>2. \A p \in 0 .. n : t[p] \in Nat
    BY <1>1 DEF Walk
  <1> DEFINE P == {p \in 0 .. n : IsFiniteSet(Needed(p)) /\ Cardinality(Needed(p)) <= t[p]}
  <1>3. 0 \in P
    <2>1. Needed(0) = {} /\ t[0] = 0 /\ 0 \in 0 .. n
      BY <1>0, <1>1 DEF Walk
    <2> QED
      BY <2>1, FS_EmptySet
  <1>4. ASSUME NEW i \in 0 .. n - 1, i \in P
        PROVE  i + 1 \in P
    <2> DEFINE p == i + 1
    <2>1. p \in 1 .. n /\ p - 1 = i /\ p \in 0 .. n
      OBVIOUS
    <2>2. t[i] <= t[p] /\ t[p] - t[i] \in Fitting(params[p], symbols, t[i])
      BY <1>0, <1>1, <2>1, WalkTakes
    <2>3. CASE p \in Needed(p)
      <3>1. Needed(p) = Needed(i) \cup {p} /\ p \notin Needed(i)
        BY <2>3
      <3>2. t[p] - t[i] # 0
        BY <2>2, <2>3 DEF Fitting
      <3>3. t[p] \in Nat /\ t[i] \in Nat
        BY <1>2, <2>1
      <3>4. t[i] + 1 <= t[p]
        <4> HIDE DEF p
        <4> QED
          BY <2>2, <3>2, <3>3
      <3> HIDE DEF p, Needed
      <3>5. IsFiniteSet(Needed(i)) /\ Cardinality(Needed(i)) <= t[i] /\ Cardinality(Needed(i)) \in Nat
        BY <1>4, FS_CardinalityType
      <3>6. IsFiniteSet(Needed(p)) /\ Cardinality(Needed(p)) = Cardinality(Needed(i)) + 1
        BY <3>1, <3>5, FS_AddElement
      <3>7. Cardinality(Needed(p)) <= t[p]
        BY <3>3, <3>4, <3>5, <3>6
      <3> QED
        BY <2>1, <3>6, <3>7 DEF p
    <2>4. CASE p \notin Needed(p)
      <3>1. Needed(p) = Needed(i)
        BY <2>4
      <3>2. t[p] \in Nat /\ t[i] \in Nat
        BY <1>2, <2>1
      <3> HIDE DEF p, Needed
      <3>3. IsFiniteSet(Needed(p)) /\ Cardinality(Needed(p)) <= t[i] /\ Cardinality(Needed(p)) \in Nat
        BY <1>4, <3>1, FS_CardinalityType
      <3>4. Cardinality(Needed(p)) <= t[p]
        BY <2>2, <3>2, <3>3
      <3> QED
        BY <2>1, <3>3, <3>4 DEF p
    <2> QED
      BY <2>3, <2>4
  <1> HIDE DEF P
  <1>5. 0 .. n \subseteq P
    BY <1>0, <1>3, <1>4, UpwardInduction
  <1>6. n \in P
    BY <1>0, <1>5
  <1>7. t[n] = m
    <2>1. T[<<n + 1, t[n]>>] /\ t[n] \in 0 .. m
      <3>1. CASE n = 0
        BY <1>0, <1>1, <3>1 DEF Walk
      <3>2. CASE n # 0
        <4>1. n \in 1 .. n
          BY <1>0, <3>2
        <4> QED
          BY <1>0, <1>1, <4>1, WalkTakes
      <3> QED
        BY <3>1, <3>2
    <2> QED
      BY <2>1 DEF Table
  <1>8. Cardinality(Needed(n)) <= m /\ Cardinality(Needed(n)) \in Nat
    BY <1>6, <1>7, FS_CardinalityType DEF P
  <1>9. Needed(n) = {i \in DOMAIN params : ~params[i].optional /\ ~params[i].context}
    OBVIOUS
  <1>10. ~Variadic(params) => m <= n
    <2>1. 1 \in 1 .. n + 1 /\ 0 \in 0 .. m
      BY <1>0
    <2>2. ~Variadic(params) => m - 0 <= n + 1 - 1
      BY <2>1, FixedBound
    <2> QED
      BY <1>0, <2>2
  <1> HIDE DEF Needed
  <1>11. m >= Cardinality(Needed(n))
    BY <1>0, <1>8
  <1> QED
    BY <1>9, <1>10, <1>11 DEF Takes

\* The matcher is the regular expression: it matches when backtracking does, and
\* gives each parameter as many arguments.
THEOREM MatchIsBacktrack ==
    ASSUME NEW params \in Seq(Params), NEW symbols \in Seq(AllSymbols)
    PROVE  LET r == Match(params, symbols)
               regex == Backtrack(params, symbols, TRUE)
           IN  /\ r.ok = regex.ok /\ r.counts = regex.counts
               /\ r.ok => Takes(params, Len(symbols))
               /\ Fits(params, Len(symbols)) => r.cells <= MaxMatchCells
  <1> DEFINE n == Len(params)
             T == Reaches(params, symbols, n, TRUE)
             r == Match(params, symbols)
             regex == Backtrack(params, symbols, TRUE)
  <1>1. n \in Nat /\ n \in 0 .. Len(params)
    OBVIOUS
  <1>2. Table(T, params, symbols, n, TRUE)
    BY <1>1, ReachIsTable
  <1> HIDE DEF T
  <1>3. /\ ~T[<<1, 0>>] => ~r.ok /\ r.counts = <<>>
        /\ \A t : T[<<1, 0>>] /\ Walk(t, params, symbols, T, n) => r.ok /\ r.counts = Counts(t, n)
        /\ Fits(params, Len(symbols)) => r.cells <= MaxMatchCells
    BY <1>2, MatchWalks
  <1>4. /\ ~T[<<1, 0>>] => regex = Failed
        /\ \A t : T[<<1, 0>>] /\ Walk(t, params, symbols, T, n) =>
                regex = [ok |-> TRUE, counts |-> Counts(t, n), taken |-> t[n]]
    BY <1>2, BacktrackWalks
  <1>5. r.ok \in BOOLEAN
    BY DEF Match, MatchSymbols, Solve, MatchFixed, NoMatch
  <1> HIDE DEF r, regex
  <1>6. CASE T[<<1, 0>>]
    <2>1. PICK t : Walk(t, params, symbols, T, n)
      BY <1>1, <1>2, <1>6, WalkExists
    <2>2. r.ok /\ r.counts = Counts(t, n)
      BY <1>3, <1>6, <2>1
    <2>3. regex.ok = TRUE /\ regex.counts = Counts(t, n)
      BY <1>4, <1>6, <2>1
    <2>4. Takes(params, Len(symbols))
      BY <1>2, <1>6, WalkTakesEnough
    <2> QED
      BY <1>3, <1>5, <2>2, <2>3, <2>4 DEF r, regex
  <1>7. CASE ~T[<<1, 0>>]
    <2>1. ~r.ok /\ r.counts = <<>>
      BY <1>3, <1>7
    <2>2. regex.ok = FALSE /\ regex.counts = <<>>
      BY <1>4, <1>7 DEF Failed
    <2> QED
      BY <1>3, <1>5, <2>1, <2>2 DEF r, regex
  <1> QED
    BY <1>6, <1>7

-----------------------------------------------------------------------------
(* The argument blamed when a call does not match.                         *)

\* Some calls begin with what the first n parameters match.
PrefixMatches(params, symbols, n) == Reaches(params, symbols, n, FALSE)[<<1, 0>>]

PrefixTable(params, symbols, n) == Reaches(params, symbols, n, FALSE)

LEMMA PrefixTableIs ==
    ASSUME NEW params \in Seq(Params), NEW symbols \in Seq(AllSymbols), NEW n \in 0 .. Len(params)
    PROVE  /\ Table(PrefixTable(params, symbols, n), params, symbols, n, FALSE)
           /\ PrefixMatches(params, symbols, n) \in BOOLEAN
           /\ PrefixMatches(params, symbols, n) <=> PrefixTable(params, symbols, n)[<<1, 0>>]
           /\ PrefixMatches(params, symbols, n) =>
                \E t : Walk(t, params, symbols, PrefixTable(params, symbols, n), n)
  <1> DEFINE T == PrefixTable(params, symbols, n)
  <1>1. Table(T, params, symbols, n, FALSE)
    BY ReachIsTable DEF PrefixTable
  <1>2. PrefixMatches(params, symbols, n) = T[<<1, 0>>]
    BY DEF PrefixMatches, PrefixTable
  <1> HIDE DEF T
  <1>3. T[<<1, 0>>] \in BOOLEAN
    <2>1. <<1, 0>> \in (1 .. n + 1) \X (0 .. Len(symbols))
      OBVIOUS
    <2> QED
      BY <1>1, <2>1 DEF Table
  <1>4. T[<<1, 0>>] => \E t : Walk(t, params, symbols, T, n)
    <2>1. n \in Nat
      OBVIOUS
    <2> QED
      BY <1>1, <2>1, WalkExists
  <1> QED
    BY <1>1, <1>2, <1>3, <1>4 DEF T

\* The prefixes that match are those up to the longest.
LEMMA ShorterMatches ==
    ASSUME NEW params \in Seq(Params), NEW symbols \in Seq(AllSymbols)
    PROVE  \E longest \in 0 .. Len(params) : \A n \in 0 .. Len(params) :
                PrefixMatches(params, symbols, n) <=> n <= longest
  <1> DEFINE m == Len(symbols)
             good == {n \in 0 .. Len(params) : PrefixMatches(params, symbols, n)}
  <1>0. m \in Nat /\ Len(params) \in Nat
    OBVIOUS
  <1>1. ASSUME NEW n \in 0 .. Len(params) - 1, PrefixMatches(params, symbols, n + 1)
        PROVE  PrefixMatches(params, symbols, n)
    <2> DEFINE T == PrefixTable(params, symbols, n)
               U == PrefixTable(params, symbols, n + 1)
               P == {i \in 0 .. n : \A a \in 0 .. m : U[<<i + 1, a>>] => T[<<i + 1, a>>]}
    <2>0. n \in Nat /\ n \in 0 .. Len(params) /\ n + 1 \in 0 .. Len(params)
      OBVIOUS
    <2>1. /\ Table(T, params, symbols, n, FALSE) /\ Table(U, params, symbols, n + 1, FALSE)
          /\ PrefixMatches(params, symbols, n) <=> T[<<1, 0>>]
          /\ PrefixMatches(params, symbols, n + 1) <=> U[<<1, 0>>]
      BY <2>0, PrefixTableIs
    <2> HIDE DEF T, U
    <2>2. n \in P
      BY <2>0, <2>1 DEF Table
    <2>3. ASSUME NEW i \in 0 .. n - 1, i + 1 \in P
          PROVE  i \in P
      <3>1. ASSUME NEW a \in 0 .. m, U[<<i + 1, a>>]
            PROVE  T[<<i + 1, a>>]
        <4>1. i + 1 \in 1 .. n /\ i + 1 \in 1 .. n + 1
          OBVIOUS
        <4>2. PICK k \in Works(params, symbols, U, i + 1, a) : TRUE
          BY <2>1, <3>1, <4>1 DEF Table
        <4>3. k \in Fitting(params[i + 1], symbols, a) /\ U[<<i + 1 + 1, a + k>>]
          BY <4>2 DEF Works
        <4>4. a + k \in 0 .. m
          BY <4>3, FittingRange
        <4>5. T[<<i + 1 + 1, a + k>>]
          BY <2>3, <4>3, <4>4
        <4>6. k \in Works(params, symbols, T, i + 1, a)
          BY <4>3, <4>5 DEF Works
        <4> QED
          BY <2>1, <4>1, <4>6 DEF Table
      <3> QED
        BY <3>1
    <2> HIDE DEF P
    <2>4. 0 .. n \subseteq P
      BY <2>0, <2>2, <2>3, DownwardInduction
    <2>5. 0 \in P /\ 0 \in 0 .. m /\ 0 + 1 = 1
      BY <1>0, <2>0, <2>4
    <2>6. U[<<1, 0>>] => T[<<1, 0>>]
      BY <2>5 DEF P
    <2> QED
      BY <1>1, <2>1, <2>6
  <1>2. PrefixMatches(params, symbols, 0)
    <2>1. 0 \in 0 .. Len(params) /\ 0 \in 0 .. m /\ 0 + 1 = 1
      BY <1>0
    <2>2. Table(PrefixTable(params, symbols, 0), params, symbols, 0, FALSE)
      BY <2>1, PrefixTableIs
    <2>3. PrefixTable(params, symbols, 0)[<<1, 0>>]
      BY <2>1, <2>2 DEF Table
    <2> QED
      BY <2>1, <2>3, PrefixTableIs
  <1>3. PICK longest \in good : \A n \in good : longest >= n
    <2>1. good \in SUBSET (0 .. Len(params)) /\ 0 \in good
      BY <1>0, <1>2
    <2> HIDE DEF good
    <2> QED
      BY <1>0, <2>1, LargestExists
  <1>4. longest \in 0 .. Len(params)
    OBVIOUS
  <1> DEFINE Q == {i \in 0 .. longest : PrefixMatches(params, symbols, i)}
  <1>5. longest \in Q
    BY <1>4
  <1>6. ASSUME NEW i \in 0 .. longest - 1, i + 1 \in Q
        PROVE  i \in Q
    BY <1>1, <1>4, <1>6
  <1>7. 0 .. longest \subseteq Q
    <2>1. longest \in Nat
      BY <1>4
    <2> HIDE DEF Q
    <2> QED
      BY <1>5, <1>6, <2>1, DownwardInduction
  <1>8. ASSUME NEW n \in 0 .. Len(params)
        PROVE  PrefixMatches(params, symbols, n) <=> n <= longest
    <2>1. n <= longest => n \in 0 .. longest
      BY <1>4
    <2>2. n \in 0 .. longest => PrefixMatches(params, symbols, n)
      BY <1>7
    <2>3. PrefixMatches(params, symbols, n) => longest >= n
      BY <1>3
    <2> QED
      BY <1>4, <2>1, <2>2, <2>3
  <1> QED
    BY <1>4, <1>8

\* Backtracking over the first parameters is backtracking over a shorter signature.
LEMMA ShorterTable ==
    ASSUME NEW params \in Seq(Params), NEW symbols \in Seq(AllSymbols), NEW n \in 0 .. Len(params),
           NEW T, Table(T, params, symbols, n, FALSE)
    PROVE  LET r == Backtrack(SubSeq(params, 1, n), symbols, FALSE)
           IN  /\ ~T[<<1, 0>>] => r = Failed
               /\ \A t : T[<<1, 0>>] /\ Walk(t, params, symbols, T, n) =>
                    r = [ok |-> TRUE, counts |-> Counts(t, n), taken |-> t[n]]
  <1> DEFINE first == SubSeq(params, 1, n)
  <1>0. n \in Nat
    OBVIOUS
  <1>1. first \in Seq(Params) /\ Len(first) = n /\ \A p \in 1 .. n : first[p] = params[p]
    OBVIOUS
  <1> HIDE DEF first
  <1>2. \A p \in 1 .. n : \A a : Works(first, symbols, T, p, a) = Works(params, symbols, T, p, a)
    BY <1>1 DEF Works
  <1>3. Table(T, first, symbols, Len(first), FALSE)
    BY <1>1, <1>2 DEF Table
  <1>4. \A t : Walk(t, params, symbols, T, n) => Walk(t, first, symbols, T, Len(first))
    BY <1>1, <1>2 DEF Walk
  <1>5. /\ ~T[<<1, 0>>] => Backtrack(first, symbols, FALSE) = Failed
        /\ \A t : T[<<1, 0>>] /\ Walk(t, first, symbols, T, Len(first)) =>
             Backtrack(first, symbols, FALSE) =
                [ok |-> TRUE, counts |-> Counts(t, Len(first)), taken |-> t[Len(first)]]
    BY <1>1, <1>3, BacktrackWalks
  <1> QED
    BY <1>1, <1>4, <1>5 DEF first

\* What the search returns: the longest within its range.
Clamped(longest, low, high) ==
    IF low > high \/ longest < low THEN low - 1 ELSE IF longest > high THEN high ELSE longest

Halved(f, low, high, longest) ==
    IF low > high THEN low - 1
    ELSE IF (low + high) \div 2 <= longest THEN f[<<(low + high) \div 2 + 1, high>>]
    ELSE f[<<low, (low + high) \div 2 - 1>>]

LEMMA LongestPrefixIs ==
    ASSUME NEW params \in Seq(Params), NEW symbols \in Seq(AllSymbols),
           NEW longest \in 0 .. Len(params),
           \A n \in 0 .. Len(params) : PrefixMatches(params, symbols, n) <=> n <= longest,
           Len(params) <= PrefixBound(params, symbols)
    PROVE  LongestPrefix(params, symbols) = longest
  <1> DEFINE n == Len(params)
             I == (1 .. n + 1) \X (-1 .. n)
             Value(f, c) ==
                IF c[1] > c[2] THEN c[1] - 1
                ELSE IF Solve(params, symbols, (c[1] + c[2]) \div 2, FALSE).ok
                     THEN f[<<(c[1] + c[2]) \div 2 + 1, c[2]>>]
                ELSE f[<<c[1], (c[1] + c[2]) \div 2 - 1>>]
             Unfolded(f) == [c \in I |-> Value(f, c)]
             G == [c \in I |-> Clamped(longest, c[1], c[2])]
             R == CHOOSE f : f = Unfolded(f)
  <1>0. n \in Nat
    OBVIOUS
  <1>1. \A mid \in 0 .. n : Solve(params, symbols, mid, FALSE).ok <=> mid <= longest
    <2> SUFFICES ASSUME NEW mid \in 0 .. n
                 PROVE  Solve(params, symbols, mid, FALSE).ok <=> mid <= longest
      OBVIOUS
    <2> DEFINE T == PrefixTable(params, symbols, mid)
               r == Solve(params, symbols, mid, FALSE)
    <2>1. /\ Table(T, params, symbols, mid, FALSE)
          /\ PrefixMatches(params, symbols, mid) <=> T[<<1, 0>>]
          /\ PrefixMatches(params, symbols, mid) => \E t : Walk(t, params, symbols, T, mid)
      BY PrefixTableIs
    <2> HIDE DEF T
    <2>2. /\ ~T[<<1, 0>>] => r = NoMatch((mid + 1) * (Len(symbols) + 1))
          /\ \A t : T[<<1, 0>>] /\ Walk(t, params, symbols, T, mid) =>
                r = [ok |-> TRUE, cells |-> (mid + 1) * (Len(symbols) + 1), counts |-> Counts(t, mid)]
      BY <2>1, SolveWalks
    <2> HIDE DEF r
    <2>3. r.ok <=> T[<<1, 0>>]
      BY <2>1, <2>2 DEF NoMatch
    <2> QED
      BY <2>1, <2>3 DEF r
  <1>2. ASSUME NEW low \in 1 .. n + 1, NEW high \in -1 .. n, low <= high
        PROVE  /\ (low + high) \div 2 \in low .. high /\ (low + high) \div 2 \in 0 .. n
               /\ (low + high) \div 2 + 1 \in 1 .. n + 1 /\ (low + high) \div 2 - 1 \in -1 .. n
    BY <1>0, <1>2
  <1>3. ASSUME NEW f, NEW low \in 1 .. n + 1, NEW high \in -1 .. n
        PROVE  Value(f, <<low, high>>) = Halved(f, low, high, longest)
    <2>1. CASE low > high
      BY <2>1 DEF Halved
    <2>2. CASE low <= high
      <3>1. ~(low > high)
        BY <2>2
      <3>2. Solve(params, symbols, (low + high) \div 2, FALSE).ok <=> (low + high) \div 2 <= longest
        BY <1>1, <1>2, <2>2
      <3> QED
        BY <3>1, <3>2 DEF Halved
    <2>3. low > high \/ low <= high
      OBVIOUS
    <2> HIDE DEF Value
    <2> QED
      BY <2>1, <2>2, <2>3
  <1>4. ASSUME NEW low \in 1 .. n + 1, NEW high \in -1 .. n
        PROVE  Clamped(longest, low, high) = Halved(G, low, high, longest)
    <2> DEFINE mid == (low + high) \div 2
    <2>1. CASE low > high
      BY <2>1 DEF Halved, Clamped
    <2>2. CASE low <= high
      <3>1. mid \in low .. high /\ mid + 1 \in 1 .. n + 1 /\ mid - 1 \in -1 .. n
        BY <1>2, <2>2
      <3> HIDE DEF mid
      <3>2. /\ G[<<mid + 1, high>>] = Clamped(longest, mid + 1, high)
            /\ G[<<low, mid - 1>>] = Clamped(longest, low, mid - 1)
        BY <3>1
      <3> HIDE DEF G
      <3>3. Halved(G, low, high, longest) =
                IF mid <= longest THEN Clamped(longest, mid + 1, high) ELSE Clamped(longest, low, mid - 1)
        BY <2>2, <3>2 DEF Halved, mid
      <3>4. CASE mid <= longest
        BY <2>2, <3>1, <3>3, <3>4 DEF Clamped
      <3>5. CASE ~(mid <= longest)
        BY <2>2, <3>1, <3>3, <3>5 DEF Clamped
      <3> QED
        BY <3>4, <3>5
    <2> QED
      BY <2>1, <2>2
  <1>5. G = Unfolded(G)
    <2>1. \A c \in I : G[c] = Value(G, c)
      <3> SUFFICES ASSUME NEW c \in I
                   PROVE  G[c] = Value(G, c)
        OBVIOUS
      <3>1. c[1] \in 1 .. n + 1 /\ c[2] \in -1 .. n /\ c = <<c[1], c[2]>>
        OBVIOUS
      <3>2. G[c] = Clamped(longest, c[1], c[2])
        OBVIOUS
      <3> HIDE DEF G, Value, I
      <3> QED
        BY <1>3, <1>4, <3>1, <3>2
    <2>2. G = [c \in I |-> G[c]]
      OBVIOUS
    <2> HIDE DEF G, Value, I
    <2> QED
      BY <2>1, <2>2
  <1>6. LongestPrefix(params, symbols) = R[<<1, PrefixBound(params, symbols)>>]
    BY DEF LongestPrefix
  <1>7. R = Unfolded(R)
    <2> HIDE DEF G, Unfolded
    <2> QED
      BY <1>5
  <1> HIDE DEF R, G
  <1> DEFINE rank == [c \in I |-> IF c[1] > c[2] THEN 0 ELSE c[2] - c[1] + 1]
             P == {c \in I : R[c] = G[c]}
  <1>8. ASSUME NEW c \in I, \A d \in I : rank[d] < rank[c] => d \in P
        PROVE  c \in P
    <2> DEFINE low == c[1]
               high == c[2]
               mid == (low + high) \div 2
    <2>1. low \in 1 .. n + 1 /\ high \in -1 .. n /\ c = <<low, high>>
      OBVIOUS
    <2>2. R[c] = Value(R, c) /\ G[c] = Value(G, c)
      <3> HIDE DEF Value
      <3> QED
        BY <1>5, <1>7
    <2> HIDE DEF low, high
    <2>3. R[c] = Halved(R, low, high, longest) /\ G[c] = Halved(G, low, high, longest)
      <3> HIDE DEF Value
      <3> QED
        BY <1>3, <2>1, <2>2
    <2>4. CASE low > high
      BY <2>1, <2>3, <2>4 DEF Halved
    <2>5. CASE low <= high
      <3>1. mid \in low .. high /\ mid + 1 \in 1 .. n + 1 /\ mid - 1 \in -1 .. n
        BY <1>2, <2>1, <2>5
      <3> HIDE DEF mid
      <3>2. \A x \in 1 .. n + 1, y \in -1 .. n :
                <<x, y>> \in I /\ rank[<<x, y>>] = IF x > y THEN 0 ELSE y - x + 1
        OBVIOUS
      <3> HIDE DEF I, rank, P
      <3>3. rank[<<mid + 1, high>>] < rank[c] /\ rank[<<low, mid - 1>>] < rank[c]
        <4>1. rank[c] = high - low + 1
          BY <2>1, <2>5, <3>2
        <4>2. rank[<<mid + 1, high>>] = IF mid + 1 > high THEN 0 ELSE high - (mid + 1) + 1
          BY <2>1, <3>1, <3>2
        <4>3. rank[<<low, mid - 1>>] = IF low > mid - 1 THEN 0 ELSE mid - 1 - low + 1
          BY <2>1, <3>1, <3>2
        <4> QED
          BY <1>0, <2>1, <2>5, <3>1, <4>1, <4>2, <4>3
      <3>4. <<mid + 1, high>> \in P /\ <<low, mid - 1>> \in P
        BY <1>8, <2>1, <3>1, <3>2, <3>3
      <3>5. R[<<mid + 1, high>>] = G[<<mid + 1, high>>] /\ R[<<low, mid - 1>>] = G[<<low, mid - 1>>]
        BY <3>4 DEF P
      <3> QED
        BY <2>3, <3>5 DEF Halved, mid, P
    <2> QED
      BY <2>1, <2>4, <2>5
  <1>9. rank \in [I -> Nat]
    BY <1>0
  <1> HIDE DEF P, rank, I
  <1>10. I \subseteq P
    BY <1>8, <1>9, RankInduction
  <1>11. PrefixBound(params, symbols) = n
    <2> DEFINE other == MaxMatchCells \div (Len(symbols) + 1) - 1
    <2>1. other \in Int
      BY CellsAssumption
    <2>2. PrefixBound(params, symbols) = Min({n, other})
      BY DEF PrefixBound
    <2> HIDE DEF other
    <2>3. \E x \in {n, other} : \A y \in {n, other} : x <= y
      <3>1. n <= other \/ other <= n
        BY <1>0, <2>1
      <3>2. n <= n /\ other <= other
        BY <1>0, <2>1
      <3> QED
        BY <3>1, <3>2
    <2>4. Min({n, other}) \in {n, other} /\ Min({n, other}) <= n
      BY <2>3 DEF Min
    <2> DEFINE min == Min({n, other})
    <2> HIDE DEF min
    <2>5. min \in Int /\ min <= n /\ n <= min
      BY <1>0, <2>1, <2>2, <2>4 DEF min
    <2> QED
      BY <1>0, <2>2, <2>5 DEF min
  <1>12. <<1, n>> \in I
    BY <1>0 DEF I
  <1>13. R[<<1, n>>] = G[<<1, n>>]
    BY <1>10, <1>12 DEF P
  <1>14. G[<<1, n>>] = Clamped(longest, 1, n)
    BY <1>0 DEF G, I
  <1>15. Clamped(longest, 1, n) = longest
    BY <1>0 DEF Clamped
  <1> QED
    BY <1>6, <1>11, <1>13, <1>14, <1>15

\* Without a variadic parameter no prefix looks past as many symbols as there are
\* parameters.
LEMMA LookedMatches ==
    ASSUME NEW params \in Seq(Params), NEW symbols \in Seq(AllSymbols), NEW looked \in Seq(AllSymbols),
           ~Variadic(params), Len(looked) = Len(params), Len(params) <= Len(symbols),
           \A i \in 1 .. Len(params) : looked[i] = symbols[i],
           NEW n \in 0 .. Len(params),
           NEW T, Table(T, params, looked, n, FALSE), NEW U, Table(U, params, symbols, n, FALSE)
    PROVE  /\ T[<<1, 0>>] <=> U[<<1, 0>>]
           /\ \A t : Walk(t, params, looked, T, n) => Walk(t, params, symbols, U, n)
  <1> DEFINE most == Len(params)
             P == {i \in 0 .. n : \A a \in 0 .. i : T[<<i + 1, a>>] <=> U[<<i + 1, a>>]}
  <1>0. n \in Nat /\ most \in Nat /\ Len(symbols) \in Nat
    OBVIOUS
  <1>1. n \in P
    <2>1. \A a \in 0 .. n : a \in 0 .. Len(looked) /\ a \in 0 .. Len(symbols)
      OBVIOUS
    <2> QED
      BY <1>0, <2>1 DEF Table
  <1>2. ASSUME NEW i \in 0 .. n - 1, i + 1 \in P, NEW a \in 0 .. i
        PROVE  /\ Works(params, looked, T, i + 1, a) = Works(params, symbols, U, i + 1, a)
               /\ T[<<i + 1, a>>] <=> U[<<i + 1, a>>]
    <2> DEFINE p == i + 1
    <2>1. /\ p \in 1 .. n /\ p \in 1 .. Len(params) /\ a \in 0 .. Len(looked) /\ a \in 0 .. Len(symbols)
          /\ a < Len(looked) /\ a < Len(symbols) /\ a + 1 \in 1 .. Len(params)
      OBVIOUS
    <2>2. Accepts(params, looked, p, a) <=> Accepts(params, symbols, p, a)
      BY <2>1 DEF Accepts
    <2>3. T[<<p + 1, a>>] <=> U[<<p + 1, a>>]
      <3>1. a \in 0 .. p
        OBVIOUS
      <3> QED
        BY <1>2, <3>1
    <2>4. T[<<p + 1, a + 1>>] <=> U[<<p + 1, a + 1>>]
      <3>1. a + 1 \in 0 .. p
        OBVIOUS
      <3> QED
        BY <1>2, <3>1
    <2>5. /\ 0 \in Works(params, looked, T, p, a) <=> params[p].optional /\ T[<<p + 1, a>>]
          /\ 1 \in Works(params, looked, T, p, a) <=>
                Accepts(params, looked, p, a) /\ T[<<p + 1, a + 1>>]
          /\ Works(params, looked, T, p, a) \subseteq {0, 1}
      BY <2>1, OneOrNone
    <2>6. /\ 0 \in Works(params, symbols, U, p, a) <=> params[p].optional /\ U[<<p + 1, a>>]
          /\ 1 \in Works(params, symbols, U, p, a) <=>
                Accepts(params, symbols, p, a) /\ U[<<p + 1, a + 1>>]
          /\ Works(params, symbols, U, p, a) \subseteq {0, 1}
      BY <2>1, OneOrNone
    <2>7. Works(params, looked, T, p, a) = Works(params, symbols, U, p, a)
      <3> DEFINE here == Works(params, looked, T, p, a)
                 there == Works(params, symbols, U, p, a)
      <3>1. (0 \in here <=> 0 \in there) /\ (1 \in here <=> 1 \in there)
        BY <2>2, <2>3, <2>4, <2>5, <2>6
      <3>2. here \subseteq {0, 1} /\ there \subseteq {0, 1}
        BY <2>5, <2>6
      <3> HIDE DEF here, there
      <3>3. here = there
        <4>1. \A x \in here : x \in there
          BY <3>1, <3>2
        <4>2. \A x \in there : x \in here
          BY <3>1, <3>2
        <4> QED
          BY <4>1, <4>2
      <3> QED
        BY <3>3 DEF here, there
    <2>8. /\ T[<<p, a>>] <=> Works(params, looked, T, p, a) # {}
          /\ U[<<p, a>>] <=> Works(params, symbols, U, p, a) # {}
      BY <2>1 DEF Table
    <2> QED
      BY <2>7, <2>8
  <1>3. ASSUME NEW i \in 0 .. n - 1, i + 1 \in P
        PROVE  i \in P
    BY <1>2, <1>3
  <1>4. 0 .. n \subseteq P
    <2> HIDE DEF P
    <2> QED
      BY <1>0, <1>1, <1>3, DownwardInduction
  <1>5. T[<<1, 0>>] <=> U[<<1, 0>>]
    <2>1. \A a \in 0 .. 0 : T[<<0 + 1, a>>] <=> U[<<0 + 1, a>>]
      <3>1. 0 \in 0 .. n
        BY <1>0
      <3> QED
        BY <1>4, <3>1
    <2> QED
      BY <2>1
  <1>6. ASSUME NEW t, Walk(t, params, looked, T, n)
        PROVE  Walk(t, params, symbols, U, n)
    <2>1. t \in [0 .. n -> 0 .. Len(looked)] /\ t[0] = 0
      BY <1>6 DEF Walk
    <2>2. t \in [0 .. n -> 0 .. Len(symbols)]
      <3>1. \A k \in 0 .. Len(looked) : k \in 0 .. Len(symbols)
        BY <1>0
      <3> QED
        BY <2>1, <3>1
    <2>3. ASSUME NEW p \in 1 .. n
          PROVE  /\ Works(params, symbols, U, p, t[p - 1]) # {}
                 /\ t[p] = t[p - 1] + First(params[p], Works(params, symbols, U, p, t[p - 1]))
      <3>1. p - 1 \in 0 .. n - 1 /\ (p - 1) + 1 = p /\ p \in P /\ p - 1 \in 0 .. n
        BY <1>4
      <3>2. t[p - 1] \in 0 .. p - 1
        <4>1. t[p - 1] <= p - 1
          BY <1>6, <3>1, FewTaken
        <4> QED
          BY <2>1, <3>1, <4>1
      <3>3. Works(params, looked, T, p, t[p - 1]) = Works(params, symbols, U, p, t[p - 1])
        <4> HIDE DEF P
        <4>1. \A i \in 0 .. n - 1 : i + 1 \in P => \A a \in 0 .. i :
                Works(params, looked, T, i + 1, a) = Works(params, symbols, U, i + 1, a)
          BY <1>2
        <4>2. (p - 1) + 1 \in P
          BY <3>1
        <4>3. Works(params, looked, T, (p - 1) + 1, t[p - 1]) =
                Works(params, symbols, U, (p - 1) + 1, t[p - 1])
          BY <3>1, <3>2, <4>1, <4>2
        <4> QED
          BY <3>1, <4>3
      <3>4. /\ Works(params, looked, T, p, t[p - 1]) # {}
            /\ t[p] = t[p - 1] + First(params[p], Works(params, looked, T, p, t[p - 1]))
        BY <1>6 DEF Walk
      <3> QED
        BY <3>3, <3>4
    <2> QED
      BY <2>1, <2>2, <2>3 DEF Walk
  <1> QED
    BY <1>5, <1>6

\* The sums of what the parameters take are the places of the walk.
LEMMA SumsAreTaken ==
    ASSUME NEW n \in Nat, NEW t \in [0 .. n -> Nat], t[0] = 0
    PROVE  Sums(Counts(t, n)) = t
  <1> DEFINE counts == Counts(t, n)
             Unfolded(f) == [i \in 0 .. Len(counts) |-> IF i = 0 THEN 0 ELSE f[i - 1] + counts[i]]
             R == CHOOSE f : f = Unfolded(f)
  <1>1. Len(counts) = n /\ \A i \in 1 .. n : counts[i] = t[i] - t[i - 1]
    BY DEF Counts
  <1> HIDE DEF counts
  <1>2. Sums(counts) = R
    BY DEF Sums
  <1>3. \A i \in 1 .. n : t[i - 1] + counts[i] = t[i]
    <2>1. \A i \in 1 .. n : i - 1 \in 0 .. n /\ i \in 0 .. n
      OBVIOUS
    <2>2. \A i \in 1 .. n : t[i] \in Nat /\ t[i - 1] \in Nat
      BY <2>1
    <2> QED
      BY <1>1, <2>2
  <1>4. t = Unfolded(t)
    <2>1. \A i \in 0 .. n : t[i] = IF i = 0 THEN 0 ELSE t[i - 1] + counts[i]
      BY <1>3
    <2> QED
      BY <1>1, <2>1
  <1>5. R = Unfolded(R)
    <2> HIDE DEF Unfolded
    <2> QED
      BY <1>4
  <1> HIDE DEF R
  <1>6. \A i \in 1 .. n : R[i - 1] = t[i - 1] => R[i] = t[i]
    <2> SUFFICES ASSUME NEW i \in 1 .. n, R[i - 1] = t[i - 1]
                 PROVE  R[i] = t[i]
      OBVIOUS
    <2>1. i \in 0 .. Len(counts) /\ i # 0
      BY <1>1
    <2>2. R[i] = R[i - 1] + counts[i]
      BY <1>5, <2>1
    <2> QED
      BY <1>3, <2>2
  <1>7. R[0] = t[0]
    BY <1>1, <1>5
  <1>8. DOMAIN R = 0 .. n /\ R = [i \in 0 .. n |-> R[i]]
    BY <1>1, <1>5
  <1>9. DOMAIN t = 0 .. n /\ t = [i \in 0 .. n |-> t[i]]
    OBVIOUS
  <1>10. R = t
    <2> HIDE DEF Unfolded
    <2> QED
      BY <1>6, <1>7, <1>8, <1>9, SameLoop
  <1> QED
    BY <1>2, <1>10 DEF counts

\* A call's arguments.
Values == [symbol : AllSymbols, items : Seq(AllSymbols)]

LEMMA SymbolsOfArgs ==
    ASSUME NEW args \in Seq(Values)
    PROVE  /\ ArgSymbols(args) \in Seq(AllSymbols) /\ Len(ArgSymbols(args)) = Len(args)
           /\ \A i \in 1 .. Len(args) : ArgSymbols(args)[i] = args[i].symbol
  <1>1. DOMAIN args = 1 .. Len(args) /\ Len(args) \in Nat
    OBVIOUS
  <1>2. ASSUME NEW i \in 1 .. Len(args)
        PROVE  args[i].symbol \in AllSymbols
    <2>1. args[i] \in Values
      BY <1>1
    <2> QED
      BY <2>1 DEF Values
  <1> QED
    BY <1>1, <1>2 DEF ArgSymbols

\* A mismatch blames the argument after the longest prefix that some calls begin
\* with: the search by halves finds it.
THEOREM MismatchBlamesLongest ==
    ASSUME NEW params \in Seq(Params), NEW args \in Seq(Values),
           Len(params) <= PrefixBound(params, Looked(params, args))
    PROVE  Mismatch(params, args).blames = Blamed(params, ArgSymbols(args))
  <1> DEFINE n == Len(params)
             symbols == ArgSymbols(args)
             looked == Looked(params, args)
  <1>0. n \in Nat /\ symbols \in Seq(AllSymbols) /\ Len(symbols) \in Nat
    BY SymbolsOfArgs
  <1> HIDE DEF symbols
  <1>1. /\ looked \in Seq(AllSymbols)
        /\ \/ looked = symbols
           \/ /\ ~Variadic(params) /\ Len(looked) = n /\ n <= Len(symbols)
              /\ \A i \in 1 .. n : looked[i] = symbols[i]
    <2>1. looked = IF ~Variadic(params) /\ Len(symbols) > n THEN SubSeq(symbols, 1, n) ELSE symbols
      BY DEF Looked, symbols
    <2> HIDE DEF looked
    <2>2. CASE ~Variadic(params) /\ Len(symbols) > n
      <3>1. looked = SubSeq(symbols, 1, n)
        BY <2>1, <2>2
      <3> QED
        BY <1>0, <2>2, <3>1
    <2>3. CASE ~(~Variadic(params) /\ Len(symbols) > n)
      BY <1>0, <2>1, <2>3
    <2> QED
      BY <2>2, <2>3
  <1> HIDE DEF looked
  <1>2. PICK longest \in 0 .. n : \A i \in 0 .. n : PrefixMatches(params, looked, i) <=> i <= longest
    BY <1>1, ShorterMatches
  <1>3. LongestPrefix(params, looked) = longest
    BY <1>1, <1>2, LongestPrefixIs DEF looked
  <1>4. ASSUME NEW i \in 0 .. n
        PROVE  /\ PrefixMatches(params, symbols, i) <=> i <= longest
               /\ \A t : Walk(t, params, looked, PrefixTable(params, looked, i), i) =>
                            Walk(t, params, symbols, PrefixTable(params, symbols, i), i)
    <2>1. CASE looked = symbols
      BY <1>2, <2>1
    <2>2. CASE looked # symbols
      <3> DEFINE T == PrefixTable(params, looked, i)
                 U == PrefixTable(params, symbols, i)
      <3>1. Table(T, params, looked, i, FALSE) /\ (PrefixMatches(params, looked, i) <=> T[<<1, 0>>])
        BY <1>1, PrefixTableIs
      <3>2. Table(U, params, symbols, i, FALSE) /\ (PrefixMatches(params, symbols, i) <=> U[<<1, 0>>])
        BY <1>0, PrefixTableIs
      <3> HIDE DEF T, U
      <3>3. /\ T[<<1, 0>>] <=> U[<<1, 0>>]
            /\ \A t : Walk(t, params, looked, T, i) => Walk(t, params, symbols, U, i)
        BY <1>0, <1>1, <2>2, <3>1, <3>2, LookedMatches
      <3> QED
        BY <1>2, <3>1, <3>2, <3>3 DEF T, U
    <2> QED
      BY <2>1, <2>2
  <1> DEFINE Prefix(i) == Backtrack(SubSeq(params, 1, i), symbols, FALSE)
             T == PrefixTable(params, looked, longest)
  <1>5. \A i \in 0 .. n : Prefix(i).ok <=> i <= longest
    <2> SUFFICES ASSUME NEW i \in 0 .. n
                 PROVE  Prefix(i).ok <=> i <= longest
      OBVIOUS
    <2> DEFINE U == PrefixTable(params, symbols, i)
               r == Prefix(i)
    <2>1. /\ Table(U, params, symbols, i, FALSE)
          /\ PrefixMatches(params, symbols, i) <=> U[<<1, 0>>]
          /\ PrefixMatches(params, symbols, i) => \E t : Walk(t, params, symbols, U, i)
      BY <1>0, PrefixTableIs
    <2> HIDE DEF U
    <2>2. /\ ~U[<<1, 0>>] => r = Failed
          /\ \A t : U[<<1, 0>>] /\ Walk(t, params, symbols, U, i) =>
                r = [ok |-> TRUE, counts |-> Counts(t, i), taken |-> t[i]]
      BY <1>0, <2>1, ShorterTable
    <2> HIDE DEF r
    <2>3. r.ok <=> U[<<1, 0>>]
      BY <2>1, <2>2 DEF Failed
    <2> QED
      BY <1>4, <2>1, <2>3 DEF r
  <1>6. Blamed(params, symbols) = Prefix(longest).taken + 1
    <2> DEFINE Best(i) == Prefix(i).ok /\ \A k \in i + 1 .. n : ~Prefix(k).ok
    <2>1. Blamed(params, symbols) = Prefix(CHOOSE i \in 0 .. n : Best(i)).taken + 1
      BY DEF Blamed
    <2> HIDE DEF Prefix
    <2>2. Best(longest)
      <3>1. \A k \in longest + 1 .. n : k \in 0 .. n /\ ~(k <= longest)
        BY <1>0
      <3> QED
        BY <1>2, <1>5, <3>1
    <2>3. \A i \in 0 .. n : Best(i) => i = longest
      <3> SUFFICES ASSUME NEW i \in 0 .. n, Best(i), i # longest
                   PROVE  FALSE
        OBVIOUS
      <3>1. i <= longest
        BY <1>5
      <3>2. longest \in i + 1 .. n
        BY <1>0, <3>1
      <3> QED
        BY <1>2, <1>5, <3>2
    <2> HIDE DEF Best
    <2> QED
      BY <1>2, <2>1, <2>2, <2>3
  <1>7. longest \in 0 .. n /\ longest \in Nat /\ longest <= longest
    OBVIOUS
  <1>8. /\ Table(T, params, looked, longest, FALSE) /\ T[<<1, 0>>]
        /\ \E t : Walk(t, params, looked, T, longest)
    BY <1>1, <1>2, <1>7, PrefixTableIs
  <1>9. PICK t : Walk(t, params, looked, T, longest)
    BY <1>8
  <1>10. Prefix(longest).taken = t[longest]
    <2> DEFINE U == PrefixTable(params, symbols, longest)
    <2>1. Walk(t, params, symbols, U, longest) /\ PrefixMatches(params, symbols, longest)
      BY <1>4, <1>7, <1>9
    <2>2. Table(U, params, symbols, longest, FALSE) /\ U[<<1, 0>>]
      BY <1>0, <1>7, <2>1, PrefixTableIs
    <2> HIDE DEF U
    <2>3. Prefix(longest) = [ok |-> TRUE, counts |-> Counts(t, longest), taken |-> t[longest]]
      BY <1>0, <2>1, <2>2, ShorterTable
    <2> HIDE DEF Prefix
    <2> QED
      BY <2>3
  <1>11. Mismatch(params, args).blames =
            Sums(Solve(params, looked, longest, FALSE).counts)[longest] + 1
    BY <1>3 DEF Mismatch, Raise, looked
  <1>12. Solve(params, looked, longest, FALSE).counts = Counts(t, longest)
    <2> DEFINE r == Solve(params, looked, longest, FALSE)
    <2> HIDE DEF T
    <2>1. r = [ok |-> TRUE, cells |-> (longest + 1) * (Len(looked) + 1), counts |-> Counts(t, longest)]
      <3>1. \A u : T[<<1, 0>>] /\ Walk(u, params, looked, T, longest) =>
                r = [ok |-> TRUE, cells |-> (longest + 1) * (Len(looked) + 1),
                     counts |-> Counts(u, longest)]
        BY <1>1, <1>8, SolveWalks
      <3> HIDE DEF r
      <3> QED
        BY <1>8, <1>9, <3>1
    <2> HIDE DEF r
    <2>2. r.counts = Counts(t, longest)
      BY <2>1
    <2> QED
      BY <2>2 DEF r
  <1>13. Sums(Counts(t, longest)) = t
    <2>1. t \in [0 .. longest -> 0 .. Len(looked)] /\ t[0] = 0
      BY <1>9 DEF Walk
    <2>2. t \in [0 .. longest -> Nat]
      <3>1. \A k \in 0 .. Len(looked) : k \in Nat
        OBVIOUS
      <3> QED
        BY <2>1, <3>1
    <2> QED
      BY <1>7, <2>1, <2>2, SumsAreTaken
  <1> HIDE DEF Prefix
  <1> QED
    BY <1>6, <1>10, <1>11, <1>12, <1>13 DEF symbols

-----------------------------------------------------------------------------
(* What the loops of a checked call pass.                                  *)

\* A match gives each parameter what it may take, and all the symbols together.
Matching(t, params, symbols) ==
    /\ t \in [0 .. Len(params) -> 0 .. Len(symbols)]
    /\ t[0] = 0 /\ t[Len(params)] = Len(symbols)
    /\ \A p \in 1 .. Len(params) :
        /\ t[p] - t[p - 1] \in Fitting(params[p], symbols, t[p - 1])
        /\ t[p] - t[p - 1] \in Nat

LEMMA MatchTakes ==
    ASSUME NEW params \in Seq(Params), NEW symbols \in Seq(AllSymbols), Match(params, symbols).ok
    PROVE  \E t : /\ Matching(t, params, symbols)
                  /\ Match(params, symbols).counts = Counts(t, Len(params))
                  /\ Sums(Match(params, symbols).counts) = t
                  /\ ~Variadic(params) => \A p \in 0 .. Len(params) : t[p] <= p
  <1> DEFINE n == Len(params)
             m == Len(symbols)
             T == Reaches(params, symbols, n, TRUE)
             r == Match(params, symbols)
  <1>1. n \in Nat /\ n \in 0 .. Len(params) /\ m \in Nat
    OBVIOUS
  <1>2. Table(T, params, symbols, n, TRUE)
    BY <1>1, ReachIsTable
  <1> HIDE DEF T
  <1>3. /\ ~T[<<1, 0>>] => ~r.ok
        /\ \A t : T[<<1, 0>>] /\ Walk(t, params, symbols, T, n) => r.counts = Counts(t, n)
    BY <1>2, MatchWalks
  <1>4. T[<<1, 0>>]
    BY <1>3
  <1>5. PICK t : Walk(t, params, symbols, T, n)
    BY <1>1, <1>2, <1>4, WalkExists
  <1>6. r.counts = Counts(t, n)
    BY <1>3, <1>4, <1>5
  <1> HIDE DEF r
  <1>7. t \in [0 .. n -> 0 .. m] /\ t[0] = 0
    BY <1>5 DEF Walk
  <1>8. t[n] = m
    <2>1. T[<<n + 1, t[n]>>] /\ t[n] \in 0 .. m
      <3>1. CASE n = 0
        BY <1>4, <1>7, <3>1
      <3>2. CASE n # 0
        <4>1. n \in 1 .. n
          BY <1>1, <3>2
        <4> QED
          BY <1>1, <1>5, <4>1, WalkTakes
      <3> QED
        BY <3>1, <3>2
    <2> QED
      BY <1>2, <2>1 DEF Table
  <1>9. \A p \in 1 .. n : t[p] - t[p - 1] \in Fitting(params[p], symbols, t[p - 1]) /\ t[p] - t[p - 1] \in Nat
    BY <1>1, <1>5, WalkTakes
  <1>10. t \in [0 .. n -> Nat]
    <2>1. \A k \in 0 .. m : k \in Nat
      BY <1>1
    <2> QED
      BY <1>7, <2>1
  <1>11. Sums(r.counts) = t
    BY <1>1, <1>6, <1>7, <1>10, SumsAreTaken
  <1>12. ~Variadic(params) => \A p \in 0 .. n : t[p] <= p
    BY <1>1, <1>5, FewTaken
  <1> QED
    BY <1>6, <1>7, <1>8, <1>9, <1>11, <1>12 DEF Matching, r

\* A loop from 1 to n has run.
Steps(step, n, D) == \A i \in 1 .. n : step[i] \in [D -> D]
Ran(f, n, z, step) == f[0] = z /\ \A i \in 1 .. n : f[i] = step[i][f[i - 1]]

LEMMA LoopRuns ==
    ASSUME NEW n \in Nat, NEW D, NEW z \in D, NEW step, Steps(step, n, D)
    PROVE  \E f \in [0 .. n -> D] : Ran(f, n, z, step)
  <1> DEFINE I == 0 .. n
             rank == [i \in I |-> i]
             own == [i \in I |-> z]
             prev == [i \in I |-> i - 1]
  <1>1. Recursion(I, n, rank, D, {0}, own, prev, step)
    <2>1. rank \in [I -> 0 .. n] /\ own \in [I -> D]
      OBVIOUS
    <2>2. \A i \in I \ {0} : prev[i] \in I /\ rank[prev[i]] < rank[i] /\ step[i] \in [D -> D]
      BY DEF Steps
    <2> HIDE DEF I, rank, own, prev
    <2> QED
      BY <2>1, <2>2 DEF Recursion
  <1>2. PICK f \in [I -> D] : Solves(f, I, {0}, own, prev, step)
    <2> HIDE DEF I, rank, own, prev
    <2> QED
      BY <1>1, RankRecursion
  <1>3. \A i \in I : f[i] = IF i = 0 THEN z ELSE step[i][f[i - 1]]
    BY <1>2 DEF Solves
  <1>4. 0 \in I /\ \A i \in 1 .. n : i \in I /\ i # 0
    OBVIOUS
  <1>5. Ran(f, n, z, step)
    BY <1>3, <1>4 DEF Ran
  <1> QED
    BY <1>2, <1>5

\* What has been passed so far.
Codes == {"none", "T0411", "T0412"}
Accs == [out : Seq(Values), by : Nat, same : BOOLEAN, err : Codes, blames : Nat]

LEMMA ArgAtType ==
    ASSUME NEW args \in Seq(Values), NEW i \in Nat \ {0}
    PROVE  ArgAt(args, i) \in Values
  <1>1. Undefined \in Values
    BY DEF Undefined, Values, AllSymbols
  <1>2. i <= Len(args) => args[i] \in Values
    OBVIOUS
  <1> QED
    BY <1>1, <1>2 DEF ArgAt

LEMMA PassIs ==
    ASSUME NEW out
    PROVE  Pass(out).out = out /\ Pass(out).err = "none" /\ Pass(out).blames = 0
  BY DEF Pass

LEMMA OnePassed ==
    ASSUME NEW v
    PROVE  Pass(<<v>>).out[1] = v /\ Pass(<<v>>).err = "none" /\ Pass(<<v>>).blames = 0
  <1>1. \A out : Pass(out).out = out /\ Pass(out).err = "none" /\ Pass(out).blames = 0
    BY PassIs
  <1>2. <<v>>[1] = v
    OBVIOUS
  <1>3. Pass(<<v>>).out = <<v>>
    BY <1>1
  <1>4. Pass(<<v>>).err = "none" /\ Pass(<<v>>).blames = 0
    BY <1>1
  <1>5. Pass(<<v>>).out[1] = v
    BY <1>2, <1>3
  <1> QED
    BY <1>4, <1>5

LEMMA RaiseIs ==
    ASSUME NEW code, NEW i
    PROVE  Raise(code, i).err = code /\ Raise(code, i).blames = i
  BY DEF Raise

\* The array of an argument that is none, as an array parameter passes it.
InArray(arg) == Array(<<arg.symbol>>)

\* An array parameter passes undefined, the argument or an array of it.
LEMMA ArrayArgPasses ==
    ASSUME NEW param \in Params, NEW arg \in Values, NEW symbol, NEW single \in BOOLEAN, NEW i \in Nat,
           NEW r, r = ArrayArg(param, arg, symbol, single, i)
    PROVE  /\ r.err \in Codes /\ r.blames \in Nat
           /\ r.err = "none" =>
                /\ r.out[1] \in Values
                /\ \/ r.out[1] = Undefined /\ symbol = "m"
                   \/ r.out[1] \in {arg, InArray(arg)}
  <1>1. Undefined \in Values
    BY DEF Undefined, Values, AllSymbols
  <1>2. InArray(arg) \in Values
    <2>1. arg.symbol \in AllSymbols
      BY DEF Values
    <2>2. <<arg.symbol>> \in Seq(AllSymbols) /\ "a" \in AllSymbols
      BY <2>1 DEF AllSymbols
    <2> QED
      BY <2>2 DEF InArray, Array, Values
  <1>3. \A v : r = Pass(<<v>>) => r.err = "none" /\ r.blames = 0 /\ r.out[1] = v
    <2> SUFFICES ASSUME NEW v, r = Pass(<<v>>)
                 PROVE  r.err = "none" /\ r.blames = 0 /\ r.out[1] = v
      OBVIOUS
    <2> QED
      BY OnePassed
  <1>4. r = Raise("T0412", i) => r.err = "T0412" /\ r.blames = i
    BY RaiseIs
  <1>5. \/ symbol = "m" /\ r = Pass(<<Undefined>>)
        \/ r = Pass(<<arg>>)
        \/ r = Pass(<<InArray(arg)>>)
        \/ r = Raise("T0412", i)
    BY DEF ArrayArg, InArray
  <1>6. \/ r.err = "none" /\ r.blames = 0 /\ symbol = "m" /\ r.out[1] = Undefined
        \/ r.err = "none" /\ r.blames = 0 /\ r.out[1] = arg
        \/ r.err = "none" /\ r.blames = 0 /\ r.out[1] = InArray(arg)
        \/ r.err = "T0412" /\ r.blames = i
    BY <1>3, <1>4, <1>5
  <1> QED
    BY <1>1, <1>2, <1>6 DEF Codes

\* What a parameter passes for the argument at its place.
Lent(param, arg, symbol, v) ==
    \/ param.array /\ v = Undefined /\ symbol = "m"
    \/ param.array /\ v \in {arg, InArray(arg)}
    \/ ~param.array /\ v = arg

LEMMA PassedMatchedType ==
    ASSUME NEW acc \in Accs, NEW param \in Params, NEW arg \in Values, NEW symbol, NEW single \in BOOLEAN
    PROVE  LET r == PassedMatched(acc, param, arg, symbol, single)
           IN  /\ r \in Accs
               /\ r.err = "none" =>
                    /\ acc.err = "none"
                    /\ \E v \in Values :
                        /\ Lent(param, arg, symbol, v)
                        /\ r.out = Append(acc.out, v) /\ r.by = acc.by + 1
                    /\ (\E same \in BOOLEAN : r.same = (acc.same /\ same))
  <1> DEFINE p == IF param.array THEN ArrayArg(param, arg, symbol, single, acc.by + 1) ELSE Pass(<<arg>>)
             unchanged == ~param.array \/ symbol = "a" \/ (symbol = "m" /\ arg = Undefined)
             r == PassedMatched(acc, param, arg, symbol, single)
  <1>0. /\ acc.out \in Seq(Values) /\ acc.by \in Nat /\ acc.same \in BOOLEAN /\ acc.err \in Codes
        /\ acc.blames \in Nat
    BY DEF Accs
  <1>1. /\ p.err \in Codes /\ p.blames \in Nat
        /\ p.err = "none" => Lent(param, arg, symbol, p.out[1]) /\ p.out[1] \in Values
    <2>1. PICK q : q = p
      OBVIOUS
    <2>2. CASE param.array
      <3>1. q = ArrayArg(param, arg, symbol, single, acc.by + 1) /\ acc.by + 1 \in Nat
        BY <1>0, <2>1, <2>2
      <3>2. /\ q.err \in Codes /\ q.blames \in Nat
            /\ q.err = "none" =>
                 /\ q.out[1] \in Values
                 /\ \/ q.out[1] = Undefined /\ symbol = "m"
                    \/ q.out[1] \in {arg, InArray(arg)}
        BY <3>1, ArrayArgPasses
      <3> HIDE DEF p
      <3> QED
        BY <2>1, <2>2, <3>2 DEF Lent
    <2>3. CASE ~param.array
      <3>1. q = Pass(<<arg>>)
        BY <2>1, <2>3
      <3>2. q.err = "none" /\ q.blames = 0 /\ q.out[1] = arg
        BY <3>1, OnePassed
      <3> HIDE DEF p
      <3> QED
        BY <2>1, <2>3, <3>2 DEF Codes, Lent
    <2> QED
      BY <2>2, <2>3
  <1>2. r = IF acc.err # "none" THEN acc
            ELSE IF p.err # "none" THEN [acc EXCEPT !.err = p.err, !.blames = p.blames]
            ELSE Passed(acc, p.out[1], unchanged)
    BY DEF PassedMatched
  <1> HIDE DEF p
  <1>3. CASE acc.err # "none"
    <2>1. r = acc
      BY <1>2, <1>3
    <2> QED
      BY <1>3, <2>1
  <1>4. CASE acc.err = "none" /\ p.err # "none"
    <2>1. r = [acc EXCEPT !.err = p.err, !.blames = p.blames]
      BY <1>2, <1>4
    <2> HIDE DEF r
    <2>2. r \in Accs /\ r.err = p.err
      BY <1>1, <2>1 DEF Accs
    <2> QED
      BY <1>4, <2>2 DEF r
  <1>5. CASE acc.err = "none" /\ p.err = "none"
    <2> DEFINE v == p.out[1]
    <2>1. r = [acc EXCEPT !.out = Append(@, v), !.by = @ + 1, !.same = @ /\ unchanged]
      BY <1>2, <1>5 DEF Passed
    <2>2. v \in Values /\ Lent(param, arg, symbol, v) /\ unchanged \in BOOLEAN
      BY <1>1, <1>5
    <2> HIDE DEF r, v, unchanged
    <2>3. Append(acc.out, v) \in Seq(Values) /\ acc.by + 1 \in Nat /\ (acc.same /\ unchanged) \in BOOLEAN
      BY <1>0, <2>2
    <2>4. r \in Accs
      BY <2>1, <2>3 DEF Accs
    <2>5. /\ r.out = Append(acc.out, v) /\ r.by = acc.by + 1 /\ r.same = (acc.same /\ unchanged)
      BY <2>1 DEF Accs
    <2> QED
      BY <1>5, <2>2, <2>4, <2>5 DEF r
  <1> QED
    BY <1>3, <1>4, <1>5

LEMMA PassedUnmatchedType ==
    ASSUME NEW acc \in Accs, NEW param \in Params, NEW args \in Seq(Values), NEW focus \in Values
    PROVE  LET r == PassedUnmatched(acc, param, args, focus)
           IN  /\ r \in Accs
               /\ r.err = "none" =>
                    /\ acc.err = "none"
                    /\ ~param.context =>
                        /\ r.out = Append(acc.out, ArgAt(args, acc.by + 1)) /\ r.by = acc.by + 1
                        /\ r.same = acc.same
                    /\ param.context =>
                        r.out = Append(acc.out, focus) /\ r.by = acc.by /\ r.same = FALSE
  <1> DEFINE r == PassedUnmatched(acc, param, args, focus)
             v == ArgAt(args, acc.by + 1)
  <1>0. /\ acc.out \in Seq(Values) /\ acc.by \in Nat /\ acc.same \in BOOLEAN /\ acc.err \in Codes
        /\ acc.blames \in Nat
    BY DEF Accs
  <1>1. v \in Values
    <2>1. acc.by + 1 \in Nat \ {0}
      BY <1>0
    <2> QED
      BY <2>1, ArgAtType
  <1> HIDE DEF v
  <1>2. CASE acc.err # "none"
    <2>1. r = acc
      BY <1>2 DEF PassedUnmatched
    <2> QED
      BY <1>2, <2>1
  <1>3. CASE acc.err = "none" /\ ~param.context
    <2>1. r = [acc EXCEPT !.out = Append(@, v), !.by = @ + 1, !.same = @ /\ TRUE]
      BY <1>3 DEF PassedUnmatched, Passed, v
    <2>2. Append(acc.out, v) \in Seq(Values) /\ acc.by + 1 \in Nat
      BY <1>0, <1>1
    <2> HIDE DEF r
    <2>3. r \in Accs
      BY <2>1, <2>2 DEF Accs
    <2>4. r.out = Append(acc.out, v) /\ r.by = acc.by + 1 /\ r.same = (acc.same /\ TRUE)
      BY <2>1 DEF Accs
    <2>5. r.same = acc.same
      BY <1>0, <2>4
    <2> QED
      BY <1>3, <2>3, <2>4, <2>5 DEF r, v
  <1>4. CASE acc.err = "none" /\ param.context /\ FocusFits(param, focus)
    <2>1. r = [acc EXCEPT !.out = Append(@, focus), !.same = FALSE]
      BY <1>4 DEF PassedUnmatched
    <2>2. Append(acc.out, focus) \in Seq(Values)
      BY <1>0
    <2> HIDE DEF r
    <2>3. r \in Accs
      BY <2>1, <2>2 DEF Accs
    <2>4. r.out = Append(acc.out, focus) /\ r.by = acc.by /\ r.same = FALSE
      BY <2>1 DEF Accs
    <2> QED
      BY <1>4, <2>3, <2>4 DEF r
  <1>5. CASE acc.err = "none" /\ param.context /\ ~FocusFits(param, focus)
    <2>1. r = [acc EXCEPT !.err = "T0411", !.blames = acc.by + 1]
      BY <1>5 DEF PassedUnmatched
    <2>2. acc.by + 1 \in Nat
      BY <1>0
    <2> HIDE DEF r
    <2>3. r.err = "T0411"
      BY <2>1 DEF Accs
    <2>4. r \in Accs
      BY <2>1, <2>2 DEF Accs, Codes
    <2> QED
      BY <2>3, <2>4 DEF r
  <1> QED
    BY <1>2, <1>3, <1>4, <1>5

-----------------------------------------------------------------------------
(* What a signature that is read compiles to.                              *)

\* A parameter as it is read.
SpecRecords ==
    [types : Seq(Letters), content : Contents, optional : BOOLEAN, variadic : BOOLEAN, context : BOOLEAN,
     lazy : BOOLEAN, anyContext : BOOLEAN]
ReadCodes == {"none", "S0401", "S0402"}
Readings == [specs : Seq(SpecRecords), err : ReadCodes]

\* The pieces of the parameter at i, and what ParseSig's loop makes of the rest.
UnionAt(s, i) ==
    IF s[i] = "(" THEN Union(s, i + 1)
    ELSE [types |-> <<s[i]>>, at |-> i + 1, err |-> IF s[i] \in Types THEN "none" ELSE "S0402"]
ContentAt(s, i) ==
    IF At(s, UnionAt(s, i).at) = "<" THEN Content(s, UnionAt(s, i).at, UnionAt(s, i).types)
    ELSE [content |-> "none", at |-> UnionAt(s, i).at, err |-> "none"]
NextAt(s, i) ==
    LET others == {j \in ContentAt(s, i).at .. Len(s) : s[j] \notin {"?", "+", "-"}}
    IN  IF others = {} THEN Len(s) + 1 ELSE Min(others)
SpecAt(s, i) ==
    SpecOf(UnionAt(s, i).types, ContentAt(s, i).content, SubSeq(s, ContentAt(s, i).at, NextAt(s, i) - 1))
ReadFrom(f, s, i) ==
    CASE i > Len(s) -> [specs |-> <<>>, err |-> "none"]
      [] i <= Len(s) /\ UnionAt(s, i).err # "none" -> [specs |-> <<>>, err |-> UnionAt(s, i).err]
      [] i <= Len(s) /\ UnionAt(s, i).err = "none" /\ ContentAt(s, i).err # "none" ->
            [specs |-> <<>>, err |-> ContentAt(s, i).err]
      [] OTHER -> [specs |-> <<SpecAt(s, i)>> \o f[NextAt(s, i)].specs, err |-> f[NextAt(s, i)].err]
ReadUnfolded(f, s) == f = [i \in 1 .. Len(s) + 1 |-> ReadFrom(f, s, i)]

LEMMA EndIn ==
    ASSUME NEW n \in Nat, NEW i \in Nat, i <= n + 1, NEW ends \in SUBSET (i .. n)
    PROVE  (IF ends = {} THEN n + 1 ELSE Min(ends)) \in i .. n + 1
  <1>1. CASE ends = {}
    BY <1>1
  <1>2. CASE ends # {}
    <2>1. ends \in SUBSET Nat
      OBVIOUS
    <2>2. Min(ends) \in ends
      BY <1>2, <2>1, LeastIn
    <2>3. Min(ends) \in i .. n
      BY <2>2
    <2> QED
      BY <1>2, <2>3
  <1> QED
    BY <1>1, <1>2

LEMMA UnionType ==
    ASSUME NEW s \in Seq(Letters), NEW i \in 1 .. Len(s)
    PROVE  /\ UnionAt(s, i).err \in ReadCodes
           /\ UnionAt(s, i).err = "none" =>
                UnionAt(s, i).types \in Seq(Letters) /\ UnionAt(s, i).at \in i + 1 .. Len(s) + 1
  <1>0. Len(s) \in Nat /\ i \in Nat /\ s[i] \in Letters
    OBVIOUS
  <1>1. CASE s[i] = "("
    <2> DEFINE ends == {j \in i + 1 .. Len(s) : s[j] \notin Types}
               end == IF ends = {} THEN Len(s) + 1 ELSE Min(ends)
    <2>1. end \in i + 1 .. Len(s) + 1
      <3>1. i + 1 \in Nat /\ i + 1 <= Len(s) + 1 /\ ends \in SUBSET (i + 1 .. Len(s))
        BY <1>0
      <3> HIDE DEF ends
      <3> QED
        BY <1>0, <3>1, EndIn
    <2>2. UnionAt(s, i) =
            IF At(s, end) = ")" /\ end > i + 1
            THEN [types |-> SubSeq(s, i + 1, end - 1), at |-> end + 1, err |-> "none"]
            ELSE [types |-> <<>>, at |-> end, err |-> "S0402"]
      BY <1>1 DEF UnionAt, Union
    <2> HIDE DEF end
    <2>3. CASE At(s, end) = ")" /\ end > i + 1
      <3>1. end <= Len(s)
        BY <1>0, <2>1, <2>3 DEF At
      <3>2. SubSeq(s, i + 1, end - 1) \in Seq(Letters)
        BY <1>0, <2>1, <3>1
      <3>3. end + 1 \in i + 1 .. Len(s) + 1
        BY <1>0, <2>1, <3>1
      <3> DEFINE own == SubSeq(s, i + 1, end - 1)
      <3>4. UnionAt(s, i) = [types |-> own, at |-> end + 1, err |-> "none"]
        BY <2>2, <2>3
      <3> HIDE DEF own
      <3>5. /\ UnionAt(s, i).types = own /\ UnionAt(s, i).at = end + 1
            /\ UnionAt(s, i).err = "none"
        BY <3>4
      <3> QED
        BY <3>2, <3>3, <3>5 DEF own, ReadCodes
    <2>4. CASE ~(At(s, end) = ")" /\ end > i + 1)
      <3>1. UnionAt(s, i).err = "S0402"
        BY <2>2, <2>4
      <3> QED
        BY <3>1 DEF ReadCodes
    <2> QED
      BY <2>3, <2>4
  <1>2. CASE s[i] # "("
    <2>1. UnionAt(s, i) =
            [types |-> <<s[i]>>, at |-> i + 1, err |-> IF s[i] \in Types THEN "none" ELSE "S0402"]
      BY <1>2 DEF UnionAt
    <2>2. /\ UnionAt(s, i).types = <<s[i]>> /\ UnionAt(s, i).at = i + 1
          /\ UnionAt(s, i).err \in {"none", "S0402"}
      BY <2>1
    <2>3. <<s[i]>> \in Seq(Letters) /\ i + 1 \in i + 1 .. Len(s) + 1
      BY <1>0
    <2>4. UnionAt(s, i).types \in Seq(Letters) /\ UnionAt(s, i).at \in i + 1 .. Len(s) + 1
      BY <2>2, <2>3
    <2>5. UnionAt(s, i).err \in ReadCodes
      BY <2>2 DEF ReadCodes
    <2> QED
      BY <2>4, <2>5
  <1> QED
    BY <1>1, <1>2

LEMMA ClosingAngleIn ==
    ASSUME NEW s \in Seq(Letters), NEW i \in 1 .. Len(s) + 1
    PROVE  ClosingAngle(s, i) \in i .. Len(s) + 1
  <1> DEFINE closes == {j \in i .. Len(s) :
                            CountOf(SubSeq(s, i, j), ">") = CountOf(SubSeq(s, i, j), "<") + 1}
  <1>1. closes \in SUBSET (i .. Len(s)) /\ Len(s) \in Nat /\ i \in Nat /\ i <= Len(s) + 1
    OBVIOUS
  <1>2. ClosingAngle(s, i) = IF closes = {} THEN Len(s) + 1 ELSE Min(closes)
    BY DEF ClosingAngle
  <1> HIDE DEF closes
  <1> QED
    BY <1>1, <1>2, EndIn

LEMMA ContentType ==
    ASSUME NEW s \in Seq(Letters), NEW i \in 1 .. Len(s), UnionAt(s, i).err = "none"
    PROVE  /\ ContentAt(s, i).err \in ReadCodes
           /\ ContentAt(s, i).err = "none" =>
                ContentAt(s, i).content \in Contents /\ ContentAt(s, i).at \in i + 1 .. Len(s) + 1
  <1> DEFINE a == UnionAt(s, i).at
             types == UnionAt(s, i).types
             n == Len(s)
  <1>0. a \in i + 1 .. n + 1 /\ n \in Nat /\ i \in Nat /\ 1 <= i /\ a \in Nat
    BY UnionType
  <1>1. CASE At(s, a) = "<"
    <2> DEFINE c == At(s, a + 1)
               array == "a" \in ToSet(types)
               typed == array /\ c \in Types
               end == IF ~typed THEN ClosingAngle(s, a + 1)
                      ELSE IF At(s, a + 2) # "<" THEN a + 2
                      ELSE LET close == ClosingAngle(s, a + 3) IN IF close > n THEN close ELSE close + 1
               content == IF typed \/ (array /\ c = "(") THEN c ELSE "none"
    <2>1. ContentAt(s, i) =
            IF ~(ToSet(types) \subseteq {"a", "f"}) THEN [content |-> "none", at |-> a, err |-> "S0401"]
            ELSE [content |-> content, at |-> end + 1, err |-> IF At(s, end) = ">" THEN "none" ELSE "S0402"]
      BY <1>1 DEF ContentAt, Content
    <2>2. a <= n
      BY <1>0, <1>1 DEF At
    <2>3. end \in Nat /\ end >= a
      <3>1. ClosingAngle(s, a + 1) \in a + 1 .. n + 1
        <4>1. a + 1 \in 1 .. Len(s) + 1
          BY <1>0, <2>2
        <4> QED
          BY <4>1, ClosingAngleIn
      <3>2. At(s, a + 2) = "<" => ClosingAngle(s, a + 3) \in a + 3 .. n + 1
        <4>1. ASSUME At(s, a + 2) = "<"
              PROVE  a + 3 \in 1 .. Len(s) + 1
          <5>1. a + 2 <= Len(s)
            BY <1>0, <4>1 DEF At
          <5> QED
            BY <1>0, <5>1
        <4> QED
          BY <4>1, ClosingAngleIn
      <3> HIDE DEF typed, a, n
      <3>3. CASE ~typed
        BY <1>0, <3>1, <3>3
      <3>4. CASE typed /\ At(s, a + 2) # "<"
        BY <1>0, <3>4
      <3>5. CASE typed /\ At(s, a + 2) = "<"
        BY <1>0, <3>2, <3>5
      <3> QED
        BY <3>3, <3>4, <3>5
    <2>4. c \in Contents
      <3>1. a + 1 <= n => s[a + 1] \in Letters
        BY <1>0
      <3> QED
        BY <3>1 DEF At, Contents
    <2>5. content \in Contents
      BY <2>4 DEF Contents
    <2>6. At(s, end) = ">" => end <= n
      <3> HIDE DEF end
      <3> QED
        BY <1>0, <2>3 DEF At
    <2>7. At(s, end) = ">" => end + 1 \in i + 1 .. n + 1
      <3> HIDE DEF end, a, n
      <3> QED
        BY <1>0, <2>3, <2>6
    <2> HIDE DEF content, end, a, n, types
    <2>8. CASE ~(ToSet(types) \subseteq {"a", "f"})
      <3>1. ContentAt(s, i).err = "S0401"
        BY <2>1, <2>8
      <3> QED
        BY <3>1 DEF ReadCodes
    <2>9. CASE ToSet(types) \subseteq {"a", "f"}
      <3>1. /\ ContentAt(s, i).content = content /\ ContentAt(s, i).at = end + 1
            /\ ContentAt(s, i).err = IF At(s, end) = ">" THEN "none" ELSE "S0402"
        BY <2>1, <2>9
      <3> QED
        BY <2>5, <2>7, <3>1 DEF n, ReadCodes
    <2> QED
      BY <2>8, <2>9
  <1>2. CASE At(s, a) # "<"
    <2>1. ContentAt(s, i) = [content |-> "none", at |-> a, err |-> "none"]
      BY <1>2 DEF ContentAt
    <2> HIDE DEF a
    <2> QED
      BY <1>0, <2>1 DEF ReadCodes, Contents, n
  <1> QED
    BY <1>1, <1>2

LEMMA SpecType ==
    ASSUME NEW types \in Seq(Letters), NEW content \in Contents, NEW flags
    PROVE  SpecOf(types, content, flags) \in SpecRecords
  BY DEF SpecOf, SpecRecords

LEMMA SpecAtType ==
    ASSUME NEW s \in Seq(Letters), NEW i \in 1 .. Len(s),
           UnionAt(s, i).err = "none", ContentAt(s, i).err = "none"
    PROVE  SpecAt(s, i) \in SpecRecords /\ NextAt(s, i) \in i + 1 .. Len(s) + 1
  <1> DEFINE a == ContentAt(s, i).at
             others == {j \in a .. Len(s) : s[j] \notin {"?", "+", "-"}}
  <1>1. UnionAt(s, i).types \in Seq(Letters) /\ ContentAt(s, i).content \in Contents
    BY UnionType, ContentType
  <1>2. a \in i + 1 .. Len(s) + 1 /\ Len(s) \in Nat /\ a \in Nat
    BY ContentType
  <1>3. SpecAt(s, i) \in SpecRecords
    BY <1>1, SpecType DEF SpecAt
  <1>4. NextAt(s, i) = IF others = {} THEN Len(s) + 1 ELSE Min(others)
    BY DEF NextAt
  <1> HIDE DEF a
  <1>5. others \in SUBSET (a .. Len(s)) /\ a <= Len(s) + 1
    BY <1>2
  <1> HIDE DEF others
  <1>6. NextAt(s, i) \in a .. Len(s) + 1
    BY <1>2, <1>4, <1>5, EndIn
  <1> QED
    BY <1>2, <1>3, <1>6

\* What the loop makes of the parameter at i, if it has read those after it.
LEMMA ReadFromType ==
    ASSUME NEW s \in Seq(Letters), NEW i \in 1 .. Len(s) + 1, NEW f,
           \A j \in i + 1 .. Len(s) + 1 : f[j] \in Readings
    PROVE  ReadFrom(f, s, i) \in Readings
  <1>0. Len(s) \in Nat /\ i \in Nat
    OBVIOUS
  <1>1. \A err \in ReadCodes : [specs |-> <<>>, err |-> err] \in Readings
    BY DEF Readings
  <1>2. CASE i > Len(s)
    <2>1. ReadFrom(f, s, i) = [specs |-> <<>>, err |-> "none"]
      BY <1>0, <1>2 DEF ReadFrom
    <2> QED
      BY <1>1, <2>1 DEF ReadCodes
  <1>3. CASE i <= Len(s) /\ UnionAt(s, i).err # "none"
    <2>1. ReadFrom(f, s, i) = [specs |-> <<>>, err |-> UnionAt(s, i).err]
      BY <1>0, <1>3 DEF ReadFrom
    <2>2. i \in 1 .. Len(s)
      BY <1>0, <1>3
    <2> QED
      BY <1>1, <2>1, <2>2, UnionType
  <1>4. CASE i <= Len(s) /\ UnionAt(s, i).err = "none" /\ ContentAt(s, i).err # "none"
    <2>1. ReadFrom(f, s, i) = [specs |-> <<>>, err |-> ContentAt(s, i).err]
      BY <1>0, <1>4 DEF ReadFrom
    <2>2. i \in 1 .. Len(s)
      BY <1>0, <1>4
    <2> QED
      BY <1>1, <1>4, <2>1, <2>2, ContentType
  <1>5. CASE i <= Len(s) /\ UnionAt(s, i).err = "none" /\ ContentAt(s, i).err = "none"
    <2> DEFINE spec == SpecAt(s, i)
               rest == f[NextAt(s, i)]
    <2>1. ReadFrom(f, s, i) = [specs |-> <<spec>> \o rest.specs, err |-> rest.err]
      BY <1>0, <1>5 DEF ReadFrom
    <2>2. i \in 1 .. Len(s)
      BY <1>0, <1>5
    <2>3. spec \in SpecRecords /\ NextAt(s, i) \in i + 1 .. Len(s) + 1
      BY <1>5, <2>2, SpecAtType
    <2>4. rest \in Readings
      BY <2>3
    <2> HIDE DEF spec, rest
    <2>5. <<spec>> \o rest.specs \in Seq(SpecRecords) /\ rest.err \in ReadCodes
      BY <2>3, <2>4 DEF Readings
    <2> QED
      BY <2>1, <2>5 DEF Readings
  <1> QED
    BY <1>0, <1>2, <1>3, <1>4, <1>5

\* What ParseSig reads.
LEMMA SpecsType ==
    ASSUME NEW s \in Seq(Letters)
    PROVE  Specs(s) \in Readings
  <1> DEFINE n == Len(s)
             I == 1 .. n + 1
             rank == [i \in I |-> n + 1 - i]
             phi == [f \in [I -> Readings] |-> [i \in I |-> ReadFrom(f, s, i)]]
  <1>0. n \in Nat
    OBVIOUS
  <1>1. rank \in [I -> Nat] /\ \A i, j \in I : i < j => rank[j] < rank[i]
    BY <1>0
  <1>2. ASSUME NEW f, NEW i \in I, \A j \in I : rank[j] < rank[i] => f[j] \in Readings
        PROVE  ReadFrom(f, s, i) \in Readings
    <2>1. \A j \in i + 1 .. n + 1 : j \in I /\ i < j
      BY <1>0
    <2>2. \A j \in i + 1 .. n + 1 : f[j] \in Readings
      <3> HIDE DEF rank
      <3> QED
        BY <1>1, <1>2, <2>1
    <2> QED
      BY <2>2, ReadFromType
  <1>3. phi \in [[I -> Readings] -> [I -> Readings]]
    <2>1. \A f \in [I -> Readings], i \in I : ReadFrom(f, s, i) \in Readings
      BY <1>2
    <2> HIDE DEF I
    <2> QED
      BY <2>1
  <1>4. ASSUME NEW g \in [I -> Readings], NEW h \in [I -> Readings], NEW i \in I,
               \A j \in I : rank[j] < rank[i] => g[j] = h[j]
        PROVE  phi[g][i] = phi[h][i]
    <2>1. phi[g][i] = ReadFrom(g, s, i) /\ phi[h][i] = ReadFrom(h, s, i)
      OBVIOUS
    <2> HIDE DEF phi
    <2>2. CASE i <= n /\ UnionAt(s, i).err = "none" /\ ContentAt(s, i).err = "none"
      <3>1. i \in 1 .. Len(s)
        BY <2>2
      <3>2. NextAt(s, i) \in i + 1 .. Len(s) + 1
        BY <2>2, <3>1, SpecAtType
      <3>3. NextAt(s, i) \in I /\ i < NextAt(s, i)
        BY <1>0, <3>1, <3>2
      <3>4. g[NextAt(s, i)] = h[NextAt(s, i)]
        <4> HIDE DEF I, rank
        <4> QED
          BY <1>1, <1>4, <3>3
      <3>5. ReadFrom(g, s, i) = ReadFrom(h, s, i)
        BY <3>4 DEF ReadFrom
      <3> QED
        BY <2>1, <3>5
    <2>3. CASE ~(i <= n /\ UnionAt(s, i).err = "none" /\ ContentAt(s, i).err = "none")
      <3>1. i > n \/ i <= n
        BY <1>0
      <3>2. CASE i > n
        BY <1>0, <2>1, <3>2 DEF ReadFrom
      <3>3. CASE i <= n /\ UnionAt(s, i).err # "none"
        BY <1>0, <2>1, <3>3 DEF ReadFrom
      <3>4. CASE i <= n /\ UnionAt(s, i).err = "none" /\ ContentAt(s, i).err # "none"
        BY <1>0, <2>1, <3>4 DEF ReadFrom
      <3> QED
        BY <2>3, <3>1, <3>2, <3>3, <3>4
    <2> QED
      BY <2>2, <2>3
  <1>5. Decided(phi, I, rank, Readings)
    <2> HIDE DEF phi, I, rank
    <2> QED
      BY <1>1, <1>3, <1>4 DEF Decided
  <1>6. PICK f \in [I -> Readings] : f = phi[f]
    <2>1. [specs |-> <<>>, err |-> "none"] \in Readings
      BY DEF Readings, ReadCodes
    <2> HIDE DEF phi, I, rank
    <2>2. PICK d \in Readings : TRUE
      BY <2>1
    <2> QED
      BY <1>5, DecidedRecursion
  <1>7. ReadUnfolded(f, s)
    BY <1>6 DEF ReadUnfolded
  <1> DEFINE R == CHOOSE g : ReadUnfolded(g, s)
  <1>8. Specs(s) = R[1]
    BY DEF Specs, ReadUnfolded, ReadFrom, SpecAt, NextAt, ContentAt, UnionAt
  <1>9. ReadUnfolded(R, s)
    BY <1>7
  <1> HIDE DEF R
  <1> DEFINE P == {i \in I : R[i] \in Readings}
  <1>10. ASSUME NEW i \in I, \A j \in I : rank[j] < rank[i] => j \in P
         PROVE  i \in P
    <2>1. R[i] = ReadFrom(R, s, i)
      BY <1>9 DEF ReadUnfolded
    <2>2. \A j \in I : rank[j] < rank[i] => R[j] \in Readings
      BY <1>10
    <2> HIDE DEF I, rank
    <2>3. ReadFrom(R, s, i) \in Readings
      BY <1>2, <2>2
    <2> QED
      BY <2>1, <2>3
  <1>11. 1 \in I
    BY <1>0
  <1> HIDE DEF P, I, rank
  <1>12. I \subseteq P
    BY <1>1, <1>10, RankInduction
  <1> QED
    BY <1>8, <1>11, <1>12 DEF P

LEMMA ParseSigType ==
    ASSUME NEW raw \in Seq(Letters)
    PROVE  ParseSig(raw) \in Readings
  <1> DEFINE level(i, open, close) ==
                    CountOf(SubSeq(raw, 1, i), open) - CountOf(SubSeq(raw, 1, i), close)
             colons == {i \in DOMAIN raw : raw[i] = ":" /\ level(i, "(", ")") = 0 /\ level(i, "<", ">") = 0}
  <1>1. StripReturn(raw) = IF colons = {} THEN raw ELSE SubSeq(raw, 1, Max(colons) - 1)
    BY DEF StripReturn
  <1>2. Len(raw) \in Nat /\ colons \in SUBSET (0 .. Len(raw)) /\ 0 \notin colons
    OBVIOUS
  <1> HIDE DEF colons
  <1>3. StripReturn(raw) \in Seq(Letters)
    <2>1. CASE colons = {}
      BY <1>1, <2>1
    <2>2. CASE colons # {}
      <3>1. Max(colons) \in colons
        BY <1>2, <2>2, MostIn
      <3>2. \A x \in colons : x \in 1 .. Len(raw)
        BY <1>2
      <3>3. Max(colons) \in 1 .. Len(raw)
        BY <3>1, <3>2
      <3>4. SubSeq(raw, 1, Max(colons) - 1) \in Seq(Letters)
        BY <1>2, <3>3
      <3> QED
        BY <1>1, <2>2, <3>4
    <2> QED
      BY <2>1, <2>2
  <1> QED
    BY <1>3, SpecsType DEF ParseSig

LEMMA CompileType ==
    ASSUME NEW specs \in Seq(SpecRecords)
    PROVE  Compile(specs) \in Seq(Params)
  <1>1. Len(specs) \in Nat /\ DOMAIN specs = 1 .. Len(specs)
    OBVIOUS
  <1>2. ASSUME NEW types
        PROVE  ParamSymbols(types) \in SUBSET AllSymbols
    <2>1. "f" \in AllSymbols /\ "m" \in AllSymbols /\ {"b", "n", "s", "l", "m"} \subseteq AllSymbols
      BY DEF AllSymbols
    <2> DEFINE others == {"m"} \cup (ToSet(types) \cap AllSymbols)
    <2>2. others \subseteq AllSymbols
      BY <2>1
    <2> HIDE DEF others
    <2>3. ParamSymbols(types) \in {AllSymbols, AllSymbols \ {"f"}, {"f"}, {"b", "n", "s", "l", "m"}, others}
      <3>1. CASE types \in {<<"a">>, <<"x">>}
        BY <3>1 DEF ParamSymbols
      <3>2. CASE types \notin {<<"a">>, <<"x">>}
        BY <3>2 DEF ParamSymbols, others
      <3> QED
        BY <3>1, <3>2
    <2> QED
      BY <2>1, <2>2, <2>3
  <1> DEFINE Compiled(spec) ==
        [symbols |-> ParamSymbols(spec.types),
         optional |-> (spec.optional \/ spec.context) /\ ~spec.variadic,
         variadic |-> spec.variadic, lazy |-> spec.lazy,
         context |-> spec.context, anyFocus |-> spec.anyContext,
         array |-> spec.types = <<"a">>, subtype |-> spec.content]
  <1>3. ASSUME NEW spec \in SpecRecords
        PROVE  Compiled(spec) \in Params
    <2> DEFINE array == spec.types = <<"a">>
               symbols == ParamSymbols(spec.types)
    <2>1. symbols \in SUBSET AllSymbols /\ array \in BOOLEAN
      BY <1>2
    <2> HIDE DEF symbols, array
    <2> QED
      BY <2>1 DEF SpecRecords, Params, symbols, array
  <1>4. Compile(specs) = [i \in 1 .. Len(specs) |-> Compiled(specs[i])]
    BY <1>1 DEF Compile
  <1> HIDE DEF Compiled
  <1>5. \A i \in 1 .. Len(specs) : Compiled(specs[i]) \in Params
    BY <1>3
  <1> QED
    BY <1>1, <1>4, <1>5

-----------------------------------------------------------------------------
(* Every call of every signature.                                          *)

\* A signature as far as it is read, and arguments: what its parsing and a call
\* leave.
SignatureInv ==
    /\ task \in [alphabet : {a \in Alphabets : a.kind = "signature"}, src : Seq(Letters), args : Seq(Values)]
    /\ result \in Readings

\* In every state the signature read is one that compiles (ParseSig), and the
\* arguments are values.
THEOREM SignaturesAreRead == SignatureSpec => []SignatureInv
  <1> USE DEF SignatureInv
  <1>0. \A a \in Alphabets : a.kind = "signature" => a.symbols \subseteq Letters /\ a.values \subseteq Values
    BY SignatureAssumption DEF Letters, Values
  <1>1. ASSUME NEW a \in Alphabets, BeginSignature(a)
        PROVE  SignatureInv
    <2>1. task = [alphabet |-> a, src |-> <<>>, args |-> <<>>] /\ result = ParseSig(<<>>)
      BY <1>1 DEF BeginSignature, Begin
    <2>2. <<>> \in Seq(Letters) /\ <<>> \in Seq(Values)
      OBVIOUS
    <2>3. result \in Readings
      BY <2>1, <2>2, ParseSigType
    <2> QED
      BY <1>1, <2>1, <2>2, <2>3 DEF BeginSignature
  <1>2. ASSUME SignatureInv, ReadSignature
        PROVE  SignatureInv'
    <2>1. PICK s \in task.alphabet.symbols :
                task' = [task EXCEPT !.src = Append(@, s)] /\ result' = ParseSig(task'.src)
      BY <1>2 DEF ReadSignature
    <2>2. s \in Letters
      BY <1>0, <1>2, <2>1
    <2>3. Append(task.src, s) \in Seq(Letters)
      BY <1>2, <2>2
    <2>4. /\ task' \in [alphabet : {a \in Alphabets : a.kind = "signature"}, src : Seq(Letters), args : Seq(Values)]
          /\ task'.src = Append(task.src, s)
      BY <1>2, <2>1, <2>3
    <2>5. result' \in Readings
      BY <2>1, <2>3, <2>4, ParseSigType
    <2> QED
      BY <2>4, <2>5
  <1>3. ASSUME SignatureInv, GiveArgument
        PROVE  SignatureInv'
    <2>1. PICK v \in task.alphabet.values : task' = [task EXCEPT !.args = Append(@, v)]
      BY <1>3 DEF GiveArgument
    <2>2. v \in Values
      BY <1>0, <1>3, <2>1
    <2>3. Append(task.args, v) \in Seq(Values)
      BY <1>3, <2>2
    <2>4. task' \in [alphabet : {a \in Alphabets : a.kind = "signature"}, src : Seq(Letters), args : Seq(Values)]
      BY <1>3, <2>1, <2>3
    <2>5. result' = result
      BY <1>3 DEF GiveArgument
    <2> QED
      BY <1>3, <2>4, <2>5
  <1>4. ASSUME SignatureInv, UNCHANGED <<task, result>>
        PROVE  SignatureInv'
    BY <1>4
  <1>5. (\E a \in Alphabets : BeginSignature(a)) => SignatureInv
    BY <1>1
  <1>6. SignatureInv /\ [ReadSignature \/ GiveArgument]_<<task, result>> => SignatureInv'
    BY <1>2, <1>3, <1>4
  <1> QED
    BY <1>5, <1>6, PTL DEF SignatureSpec

\* The parameters that a signature compiles to, and the arguments of a call.
LEMMA CallsTyped ==
    ASSUME SignatureInv
    PROVE  Compile(result.specs) \in Seq(Params) /\ task.args \in Seq(Values)
  <1>1. result.specs \in Seq(SpecRecords)
    BY DEF SignatureInv, Readings
  <1> QED
    BY <1>1, CompileType DEF SignatureInv

\* Whatever the signature and the arguments, the matcher (signature.go's match) gives
\* each parameter what the regular expression of jsonata-js would, and a mismatch
\* blames the argument after the longest prefix that some call begins with.
THEOREM MatcherIsRegex == SignatureSpec => []CountsAsRegex
  <1>1. ASSUME SignatureInv
        PROVE  CountsAsRegex
    <2> DEFINE params == Compile(result.specs)
               args == task.args
               symbols == ArgSymbols(args)
    <2>1. /\ params \in Seq(Params) /\ args \in Seq(Values) /\ symbols \in Seq(AllSymbols)
          /\ Len(symbols) = Len(args)
      BY <1>1, CallsTyped, SymbolsOfArgs
    <2> HIDE DEF params, args, symbols
    <2>2. LET r == Match(params, symbols)
              regex == Backtrack(params, symbols, TRUE)
          IN  /\ r.ok = regex.ok /\ r.counts = regex.counts
              /\ r.ok => Takes(params, Len(symbols))
              /\ Fits(params, Len(symbols)) => r.cells <= MaxMatchCells
      BY <2>1, MatchIsBacktrack
    <2>3. Len(params) <= PrefixBound(params, Looked(params, args)) =>
            Mismatch(params, args).blames = Blamed(params, ArgSymbols(args))
      BY <2>1, MismatchBlamesLongest
    <2>4. LET looked == Looked(params, args)
              m == Match(params, symbols)
              regex == Backtrack(params, symbols, TRUE)
          IN  /\ m.ok = regex.ok /\ m.counts = regex.counts
              /\ m.ok => Takes(params, Len(args))
              /\ Fits(params, Len(args)) => m.cells <= MaxMatchCells
              /\ Len(params) <= PrefixBound(params, looked) =>
                      Mismatch(params, args).blames = Blamed(params, symbols)
      BY <2>1, <2>2, <2>3 DEF symbols
    <2> QED
      BY <2>4 DEF CountsAsRegex, params, args, symbols
  <1> QED
    BY <1>1, SignaturesAreRead, PTL

-----------------------------------------------------------------------------
(* Arguments that fit the parameters one by one.                           *)

\* The match gives each parameter the argument at its place.
LEMMA PlainMatch ==
    ASSUME NEW params \in Seq(Params), NEW symbols \in Seq(AllSymbols),
           FillsInOrderSymbols(params, symbols), Len(symbols) <= Len(params)
    PROVE  LET n == Len(params)
               m == Len(symbols)
               t == [p \in 0 .. n |-> IF p <= m THEN p ELSE m]
               r == Match(params, symbols)
           IN  r.ok /\ r.counts = Counts(t, n) /\ Sums(r.counts) = t
  <1> DEFINE n == Len(params)
             m == Len(symbols)
             t == [p \in 0 .. n |-> IF p <= m THEN p ELSE m]
             r == Match(params, symbols)
             T == Reaches(params, symbols, n, TRUE)
             W(p, a) == Works(params, symbols, T, p, a)
  <1>0. n \in Nat /\ m \in Nat /\ n \in 0 .. Len(params) /\ m <= n
    OBVIOUS
  <1>1. Table(T, params, symbols, n, TRUE)
    BY <1>0, ReachIsTable
  <1>2. ~Variadic(params)
    BY DEF FillsInOrderSymbols
  <1>3. \A i \in 1 .. m : ~params[i].lazy /\ symbols[i] \in params[i].symbols
    BY DEF FillsInOrderSymbols
  <1>4. \A i \in m + 1 .. n : params[i].optional
    BY DEF FillsInOrderSymbols, RestNeedsNothing
  <1> HIDE DEF T
  <1>5. \A p \in 1 .. n, a \in 0 .. m :
            /\ T[<<p, a>>] <=> W(p, a) # {}
            /\ 0 \in W(p, a) <=> params[p].optional /\ T[<<p + 1, a>>]
            /\ 1 \in W(p, a) <=> Accepts(params, symbols, p, a) /\ T[<<p + 1, a + 1>>]
            /\ W(p, a) \subseteq {0, 1}
            /\ W(p, a) \in SUBSET (0 .. m)
            /\ W(p, a) # {} => First(params[p], W(p, a)) \in W(p, a) /\ a + First(params[p], W(p, a)) \in 0 .. m
    <2> SUFFICES ASSUME NEW p \in 1 .. n, NEW a \in 0 .. m
                 PROVE  /\ T[<<p, a>>] <=> W(p, a) # {}
                        /\ 0 \in W(p, a) <=> params[p].optional /\ T[<<p + 1, a>>]
                        /\ 1 \in W(p, a) <=> Accepts(params, symbols, p, a) /\ T[<<p + 1, a + 1>>]
                        /\ W(p, a) \subseteq {0, 1}
                        /\ W(p, a) \in SUBSET (0 .. m)
                        /\ W(p, a) # {} =>
                            First(params[p], W(p, a)) \in W(p, a) /\ a + First(params[p], W(p, a)) \in 0 .. m
      OBVIOUS
    <2>1. T[<<p, a>>] <=> W(p, a) # {}
      BY <1>1 DEF Table
    <2>2. /\ 0 \in W(p, a) <=> params[p].optional /\ T[<<p + 1, a>>]
          /\ 1 \in W(p, a) <=> Accepts(params, symbols, p, a) /\ T[<<p + 1, a + 1>>]
          /\ W(p, a) \subseteq {0, 1}
      BY <1>2, OneOrNone
    <2>3. /\ W(p, a) \in SUBSET (0 .. m)
          /\ W(p, a) # {} =>
                First(params[p], W(p, a)) \in W(p, a) /\ a + First(params[p], W(p, a)) \in 0 .. m
      BY WorksRange
    <2> QED
      BY <2>1, <2>2, <2>3
  <1> HIDE DEF W
  <1>6. \A i \in m .. n : T[<<i + 1, m>>]
    <2> DEFINE P == {i \in 0 .. n : i >= m => T[<<i + 1, m>>]}
    <2>1. n \in P
      <3>1. T[<<n + 1, m>>]
        BY <1>0, <1>1 DEF Table
      <3> QED
        BY <1>0, <3>1
    <2>2. ASSUME NEW i \in 0 .. n - 1, i + 1 \in P
          PROVE  i \in P
      <3>1. CASE i >= m
        <4>1. i + 1 \in 1 .. n /\ i + 1 \in m + 1 .. n /\ i + 1 >= m /\ m \in 0 .. m /\ i \in 0 .. n
          BY <1>0, <3>1
        <4>2. T[<<(i + 1) + 1, m>>]
          BY <2>2, <4>1
        <4>3. 0 \in W(i + 1, m)
          BY <1>4, <1>5, <4>1, <4>2
        <4>4. T[<<i + 1, m>>]
          BY <1>5, <4>1, <4>3
        <4> QED
          BY <4>1, <4>4
      <3>2. CASE ~(i >= m)
        BY <1>0, <3>2
      <3> QED
        BY <3>1, <3>2
    <2>3. \A i \in m .. n : i \in 0 .. n /\ i >= m
      BY <1>0
    <2>4. \A i \in P : i >= m => T[<<i + 1, m>>]
      OBVIOUS
    <2> HIDE DEF P
    <2>5. 0 .. n \subseteq P
      BY <1>0, <2>1, <2>2, DownwardInduction
    <2> QED
      BY <2>3, <2>4, <2>5
  <1>7. \A i \in 0 .. m : T[<<i + 1, i>>]
    <2> DEFINE P == {i \in 0 .. m : T[<<i + 1, i>>]}
    <2>1. m \in P
      BY <1>0, <1>6
    <2>2. ASSUME NEW i \in 0 .. m - 1, i + 1 \in P
          PROVE  i \in P
      <3>1. i + 1 \in 1 .. n /\ i + 1 \in 1 .. m /\ i \in 0 .. m /\ i < Len(symbols)
        BY <1>0
      <3>2. T[<<(i + 1) + 1, i + 1>>]
        BY <2>2
      <3>3. Accepts(params, symbols, i + 1, i)
        BY <1>3, <3>1 DEF Accepts
      <3>4. 1 \in W(i + 1, i)
        BY <1>5, <3>1, <3>2, <3>3
      <3>5. T[<<i + 1, i>>]
        BY <1>5, <3>1, <3>4
      <3> QED
        BY <3>1, <3>5
    <2> HIDE DEF P
    <2>3. 0 .. m \subseteq P
      BY <1>0, <2>1, <2>2, DownwardInduction
    <2> QED
      BY <2>3 DEF P
  <1>8. T[<<1, 0>>]
    <2>1. 0 \in 0 .. m /\ 0 + 1 = 1
      BY <1>0
    <2>2. T[<<0 + 1, 0>>]
      BY <1>7, <2>1
    <2> QED
      BY <2>1, <2>2
  <1>9. /\ t \in [0 .. n -> 0 .. m] /\ t[0] = 0
        /\ \A p \in 1 .. m : t[p - 1] = p - 1 /\ t[p] = p
        /\ \A p \in m + 1 .. n : t[p - 1] = m /\ t[p] = m
    BY <1>0
  <1> HIDE DEF t
  <1>10. ASSUME NEW p \in 1 .. n
         PROVE  /\ W(p, t[p - 1]) # {}
                /\ t[p] = t[p - 1] + First(params[p], W(p, t[p - 1]))
    <2>1. CASE p <= m
      <3> DEFINE works == W(p, p - 1)
      <3>1. p \in 1 .. m /\ p - 1 \in 0 .. m /\ p - 1 < Len(symbols) /\ (p - 1) + 1 = p /\ p \in 0 .. m
        BY <1>0, <2>1
      <3>2. Accepts(params, symbols, p, p - 1)
        BY <1>3, <3>1 DEF Accepts
      <3>3. T[<<p + 1, (p - 1) + 1>>]
        BY <1>7, <3>1
      <3>4. 1 \in works /\ works \in SUBSET (0 .. m) /\ works \subseteq {0, 1}
        BY <1>5, <3>1, <3>2, <3>3
      <3> HIDE DEF works
      <3>5. First(params[p], works) = Max(works) /\ First(params[p], works) \in works
        <4>1. works # {}
          BY <3>4
        <4> QED
          BY <1>0, <1>3, <3>1, <3>4, <4>1, FirstIs
      <3>6. Max(works) >= 1
        <4>1. works # {}
          BY <3>4
        <4>2. \A x \in works : Max(works) >= x
          BY <1>0, <3>4, <4>1, MostIn
        <4> QED
          BY <3>4, <4>2
      <3>7. First(params[p], works) = 1
        <4>1. First(params[p], works) \in {0, 1}
          BY <3>4, <3>5
        <4>2. First(params[p], works) >= 1
          BY <3>5, <3>6
        <4> QED
          BY <4>1, <4>2
      <3>8. t[p - 1] = p - 1 /\ t[p] = p
        BY <1>9, <3>1
      <3> QED
        BY <3>1, <3>4, <3>7, <3>8 DEF works
    <2>2. CASE ~(p <= m)
      <3> DEFINE works == W(p, m)
                 k == First(params[p], works)
      <3>1. p \in m + 1 .. n /\ m \in 0 .. m /\ p \in m .. n
        BY <1>0, <2>2
      <3>2. 0 \in works
        BY <1>4, <1>5, <1>6, <3>1
      <3>3. k \in works /\ m + k \in 0 .. m /\ works \in SUBSET (0 .. m)
        BY <1>5, <3>1, <3>2
      <3> HIDE DEF k
      <3>4. k = 0
        BY <1>0, <3>3
      <3>5. t[p - 1] = m /\ t[p] = m
        BY <1>9, <3>1
      <3>6. t[p] = m + k
        BY <1>0, <3>4, <3>5
      <3> QED
        BY <3>2, <3>5, <3>6 DEF k
    <2> QED
      BY <2>1, <2>2
  <1>11. Walk(t, params, symbols, T, n)
    BY <1>9, <1>10 DEF Walk, W
  <1>12. r.ok /\ r.counts = Counts(t, n)
    BY <1>1, <1>8, <1>11, MatchWalks
  <1>13. t \in [0 .. n -> Nat]
    <2>1. \A k \in 0 .. m : k \in Nat
      BY <1>0
    <2> QED
      BY <1>9, <2>1
  <1> HIDE DEF r, n
  <1>14. Sums(r.counts) = t
    BY <1>0, <1>9, <1>12, <1>13, SumsAreTaken
  <1> QED
    BY <1>12, <1>14 DEF t, r, n

\* What fits in order without the context's help leaves nothing to the context.
LEMMA FilledMissesNothing ==
    ASSUME NEW params \in Seq(Params), NEW args \in Seq(Values), FillsInOrder(params, args, FALSE)
    PROVE  LET m == Match(params, ArgSymbols(args))
           IN  m.ok => Missing(m, params) = {}
  <1> DEFINE n == Len(params)
             symbols == ArgSymbols(args)
             k == Len(symbols)
             m == Match(params, symbols)
  <1>0. n \in Nat /\ symbols \in Seq(AllSymbols) /\ k = Len(args) /\ k \in Nat /\ DOMAIN params = 1 .. n
    BY SymbolsOfArgs
  <1>1. ~Variadic(params) /\ (k >= n \/ FillsInOrderSymbols(params, symbols))
    BY <1>0 DEF FillsInOrder
  <1> HIDE DEF symbols
  <1> SUFFICES ASSUME m.ok PROVE Missing(m, params) = {}
    BY DEF symbols
  <1>2. CASE k >= n
    <2>1. PICK t : /\ Matching(t, params, symbols) /\ m.counts = Counts(t, n)
                   /\ \A p \in 0 .. n : t[p] <= p
      BY <1>0, <1>1, MatchTakes
    <2>2. /\ t \in [0 .. n -> 0 .. k] /\ t[n] = k
          /\ \A p \in 1 .. n : t[p] - t[p - 1] \in Fitting(params[p], symbols, t[p - 1]) /\ t[p] - t[p - 1] \in Nat
      BY <2>1 DEF Matching
    <2>3. \A p \in 0 .. n : t[p] \in Nat
      BY <1>0, <2>2
    <2>4. \A p \in 1 .. n : t[p] - t[p - 1] <= 1
      <3> SUFFICES ASSUME NEW p \in 1 .. n
                   PROVE  t[p] - t[p - 1] <= 1
        OBVIOUS
      <3>1. ~params[p].variadic
        BY <1>0, <1>1 DEF Variadic
      <3>2. ~(t[p] - t[p - 1] > 1) /\ t[p] - t[p - 1] \in Nat
        BY <2>2, <3>1 DEF Fitting
      <3> QED
        BY <3>2
    <2> DEFINE P == {p \in 0 .. n : t[p] >= p}
    <2>5. n \in P
      BY <1>0, <1>2, <2>2
    <2>6. ASSUME NEW p \in 0 .. n - 1, p + 1 \in P
          PROVE  p \in P
      <3>1. p + 1 \in 1 .. n /\ (p + 1) - 1 = p /\ p \in 0 .. n /\ p + 1 \in 0 .. n
        BY <1>0
      <3>2. t[p + 1] - t[p] <= 1 /\ t[p + 1] >= p + 1 /\ t[p] \in Nat /\ t[p + 1] \in Nat
        <4>1. t[p + 1] - t[(p + 1) - 1] <= 1
          BY <2>4, <3>1
        <4>2. t[p + 1] >= p + 1
          BY <2>6
        <4> QED
          BY <2>3, <3>1, <4>1, <4>2
      <3>3. t[p] >= p
        BY <3>1, <3>2
      <3> QED
        BY <3>1, <3>3
    <2>7. \A p \in P : t[p] >= p
      OBVIOUS
    <2> HIDE DEF P
    <2>8. 0 .. n \subseteq P
      BY <1>0, <2>5, <2>6, DownwardInduction
    <2>9. \A p \in 0 .. n : t[p] = p
      BY <2>1, <2>3, <2>7, <2>8
    <2>10. \A p \in 1 .. n : m.counts[p] = 1
      <3> SUFFICES ASSUME NEW p \in 1 .. n
                   PROVE  m.counts[p] = 1
        OBVIOUS
      <3>1. p \in 0 .. n /\ p - 1 \in 0 .. n
        BY <1>0
      <3>2. t[p] = p /\ t[p - 1] = p - 1
        BY <2>9, <3>1
      <3>3. t[p] - t[p - 1] = 1
        BY <3>1, <3>2
      <3> QED
        BY <2>1, <3>3 DEF Counts
    <2> HIDE DEF m, n
    <2> QED
      BY <1>0, <2>10 DEF Missing
  <1>3. CASE ~(k >= n)
    <2> DEFINE t == [p \in 0 .. n |-> IF p <= k THEN p ELSE k]
    <2>1. FillsInOrderSymbols(params, symbols) /\ Len(symbols) <= Len(params)
      BY <1>0, <1>1, <1>3
    <2>2. m.counts = Counts(t, n)
      BY <1>0, <2>1, PlainMatch
    <2>3. \A i \in k + 1 .. n : ~params[i].context
      BY <2>1 DEF FillsInOrderSymbols, RestNeedsNothing
    <2>4. ASSUME NEW i \in 1 .. n, i <= k
          PROVE  m.counts[i] = 1
      <3>1. t[i] - t[i - 1] = 1
        BY <1>0, <2>4
      <3> HIDE DEF t
      <3> QED
        BY <2>2, <3>1 DEF Counts
    <2>5. \A i \in 1 .. n : i <= k \/ i \in k + 1 .. n
      BY <1>0
    <2> HIDE DEF m, n, k
    <2> QED
      BY <1>0, <2>3, <2>4, <2>5 DEF Missing
  <1> QED
    BY <1>2, <1>3

-----------------------------------------------------------------------------
(* The loops of validateMatched.                                           *)

\* The arguments one parameter passes.
PassedOnce(b, k, param, args, a, count) ==
    PassedMatched(b, param, ArgAt(args, b.by + 1), args[a + k].symbol, count = 1)

AllPassed(f, acc, param, args, a, count) ==
    /\ f[0] = acc
    /\ \A k \in 1 .. count : f[k] = PassedOnce(f[k - 1], k, param, args, a, count)
    /\ PassedAll(acc, param, args, a, count) = f[count]

LEMMA PassedAllLoop ==
    ASSUME NEW acc \in Accs, NEW param \in Params, NEW args \in Seq(Values), NEW a \in Nat, NEW count \in Nat
    PROVE  \E f \in [0 .. count -> Accs] : AllPassed(f, acc, param, args, a, count)
  <1> DEFINE Once(b, k) == PassedOnce(b, k, param, args, a, count)
             step == [k \in 1 .. count |-> [b \in Accs |-> Once(b, k)]]
             Unfolded(f) == f = [k \in 0 .. count |-> IF k = 0 THEN acc ELSE Once(f[k - 1], k)]
             R == CHOOSE f : Unfolded(f)
  <1>1. ASSUME NEW b \in Accs, NEW k
        PROVE  Once(b, k) \in Accs
    <2>1. b.by + 1 \in Nat \ {0}
      BY DEF Accs
    <2>2. ArgAt(args, b.by + 1) \in Values
      BY <2>1, ArgAtType
    <2> QED
      BY <2>2, PassedMatchedType DEF PassedOnce
  <1> HIDE DEF Once
  <1>2. \A k \in 1 .. count : step[k] \in [Accs -> Accs]
    BY <1>1
  <1>3. PICK f \in [0 .. count -> Accs] : Ran(f, count, acc, step)
    <2> DEFINE D == Accs
    <2>1. acc \in D /\ Steps(step, count, D)
      BY <1>2 DEF Steps
    <2> HIDE DEF step, D
    <2>2. \E f \in [0 .. count -> D] : Ran(f, count, acc, step)
      BY <2>1, LoopRuns
    <2> QED
      BY <2>2 DEF D
  <1>4. \A k \in 1 .. count : f[k] = Once(f[k - 1], k)
    <2> SUFFICES ASSUME NEW k \in 1 .. count
                 PROVE  f[k] = Once(f[k - 1], k)
      OBVIOUS
    <2>1. k - 1 \in 0 .. count
      OBVIOUS
    <2>2. f[k - 1] \in Accs
      BY <2>1
    <2> QED
      BY <1>3, <2>2 DEF Ran
  <1>5. \A k \in 0 .. count : f[k] = IF k = 0 THEN acc ELSE Once(f[k - 1], k)
    <2>1. \A k \in 0 .. count : k = 0 \/ k \in 1 .. count
      OBVIOUS
    <2> QED
      BY <1>3, <1>4, <2>1 DEF Ran
  <1>6. Unfolded(f)
    BY <1>5
  <1>7. PassedAll(acc, param, args, a, count) = R[count]
    BY DEF PassedAll, Once, PassedOnce
  <1>8. Unfolded(R)
    <2> HIDE DEF Unfolded
    <2> QED
      BY <1>6
  <1>9. /\ DOMAIN R = 0 .. count /\ R[0] = acc
        /\ \A k \in 1 .. count : R[k] = Once(R[k - 1], k)
        /\ R = [k \in 0 .. count |-> R[k]]
    <2> HIDE DEF R
    <2>1. R = [k \in 0 .. count |-> IF k = 0 THEN acc ELSE Once(R[k - 1], k)]
      BY <1>8
    <2>2. R[0] = acc /\ DOMAIN R = 0 .. count
      BY <2>1
    <2>3. \A k \in 1 .. count : R[k] = Once(R[k - 1], k)
      <3>1. \A k \in 1 .. count : k \in 0 .. count /\ k # 0
        OBVIOUS
      <3> QED
        BY <2>1, <3>1
    <2> QED
      BY <2>1, <2>2, <2>3
  <1> HIDE DEF R
  <1>10. R = f
    <2>1. DOMAIN f = 0 .. count /\ f = [k \in 0 .. count |-> f[k]] /\ f[0] = acc
      BY <1>5
    <2>2. \A k \in 1 .. count : f[k - 1] = R[k - 1] => f[k] = R[k]
      BY <1>4, <1>9
    <2> QED
      BY <1>9, <2>1, <2>2, SameLoop
  <1> QED
    BY <1>7, <1>9, <1>10 DEF Once, AllPassed

\* What each parameter passes, after those before it.
PassedNext(b, i, t, params, args, focus) ==
    IF t[i] - t[i - 1] = 0 THEN PassedUnmatched(b, params[i], args, focus)
    ELSE PassedAll(b, params[i], args, t[i - 1], t[i] - t[i - 1])

LEMMA ValidateLoop ==
    ASSUME NEW params \in Seq(Params), NEW args \in Seq(Values), NEW focus \in Values,
           NEW t, Matching(t, params, ArgSymbols(args)),
           NEW m, m.ok, m.counts = Counts(t, Len(params)), Sums(m.counts) = t
    PROVE  \E g \in [0 .. Len(params) -> Accs] :
                /\ g[0] = NothingPassed
                /\ \A i \in 1 .. Len(params) : g[i] = PassedNext(g[i - 1], i, t, params, args, focus)
                /\ ValidateAs(m, params, args, focus) =
                     LET all == g[Len(params)]
                     IN  IF all.err # "none" THEN Raise(all.err, all.blames)
                         ELSE Pass(IF all.same THEN args ELSE all.out)
  <1> DEFINE n == Len(params)
             Step(b, i) == PassedNext(b, i, t, params, args, focus)
             Old(b, i) ==
                IF m.counts[i] = 0 THEN PassedUnmatched(b, params[i], args, focus)
                ELSE PassedAll(b, params[i], args, t[i - 1], m.counts[i])
             step == [i \in 1 .. n |-> [b \in Accs |-> Step(b, i)]]
             Unfolded(f) == f = [i \in 0 .. n |-> IF i = 0 THEN NothingPassed ELSE Old(f[i - 1], i)]
             R == CHOOSE f : Unfolded(f)
  <1>0. n \in Nat /\ t \in [0 .. n -> 0 .. Len(ArgSymbols(args))] /\ NothingPassed \in Accs
    <2>1. <<>> \in Seq(Values)
      OBVIOUS
    <2> QED
      BY <2>1 DEF Matching, NothingPassed, Accs, Codes
  <1>1. ASSUME NEW b \in Accs, NEW i \in 1 .. n
        PROVE  Step(b, i) \in Accs
    <2>1. params[i] \in Params /\ i - 1 \in 0 .. n
      BY <1>0
    <2>2. t[i - 1] \in Nat /\ t[i] - t[i - 1] \in Nat
      <3>1. t[i - 1] \in 0 .. Len(ArgSymbols(args))
        BY <1>0, <2>1
      <3>2. t[i] - t[i - 1] \in Nat
        BY DEF Matching
      <3> QED
        BY <3>1, <3>2
    <2>3. PassedUnmatched(b, params[i], args, focus) \in Accs
      BY <2>1, PassedUnmatchedType
    <2>4. PassedAll(b, params[i], args, t[i - 1], t[i] - t[i - 1]) \in Accs
      <3> DEFINE a == t[i - 1]
                 count == t[i] - t[i - 1]
                 param == params[i]
      <3>1. a \in Nat /\ count \in Nat /\ param \in Params
        BY <2>1, <2>2
      <3> HIDE DEF a, count, param
      <3>2. PICK f \in [0 .. count -> Accs] : AllPassed(f, b, param, args, a, count)
        BY <3>1, PassedAllLoop
      <3>3. f[count] \in Accs
        BY <3>1
      <3> QED
        BY <3>2, <3>3 DEF AllPassed, a, count, param
    <2> QED
      BY <2>3, <2>4 DEF PassedNext
  <1>2. \A b, i : i \in 1 .. n => Old(b, i) = Step(b, i)
    <2>1. \A i \in 1 .. n : m.counts[i] = t[i] - t[i - 1]
      BY DEF Counts
    <2> QED
      BY <2>1 DEF PassedNext
  <1>3. ValidateAs(m, params, args, focus) =
            LET all == R[n]
            IN  IF all.err # "none" THEN Raise(all.err, all.blames)
                ELSE Pass(IF all.same THEN args ELSE all.out)
    BY DEF ValidateAs
  <1> HIDE DEF Step, Old
  <1>4. \A i \in 1 .. n : step[i] \in [Accs -> Accs]
    BY <1>1
  <1>5. PICK f \in [0 .. n -> Accs] : Ran(f, n, NothingPassed, step)
    <2> DEFINE D == Accs
               z == NothingPassed
    <2>1. z \in D /\ Steps(step, n, D)
      BY <1>0, <1>4 DEF Steps
    <2> HIDE DEF step, D, n, z
    <2>2. \E f \in [0 .. n -> D] : Ran(f, n, z, step)
      BY <1>0, <2>1, LoopRuns
    <2> QED
      BY <2>2 DEF D, z
  <1>6. \A i \in 1 .. n : f[i] = Step(f[i - 1], i)
    <2> SUFFICES ASSUME NEW i \in 1 .. n
                 PROVE  f[i] = Step(f[i - 1], i)
      OBVIOUS
    <2>1. i - 1 \in 0 .. n
      BY <1>0
    <2>2. f[i - 1] \in Accs
      BY <2>1
    <2> QED
      BY <1>5, <2>2 DEF Ran
  <1>7. \A i \in 0 .. n : f[i] = IF i = 0 THEN NothingPassed ELSE Step(f[i - 1], i)
    <2>1. \A i \in 0 .. n : i = 0 \/ i \in 1 .. n
      BY <1>0
    <2> QED
      BY <1>5, <1>6, <2>1 DEF Ran
  <1>8. \A i \in 1 .. n : i \in 0 .. n /\ i # 0
    BY <1>0
  <1>9. Unfolded(f)
    <2>1. \A i \in 0 .. n : f[i] = IF i = 0 THEN NothingPassed ELSE Old(f[i - 1], i)
      <3>1. \A i \in 0 .. n : i = 0 \/ i \in 1 .. n
        BY <1>0
      <3> QED
        BY <1>2, <1>7, <3>1
    <2> QED
      BY <2>1
  <1>10. Unfolded(R)
    <2> HIDE DEF Unfolded
    <2> QED
      BY <1>9
  <1>11. /\ DOMAIN R = 0 .. n /\ R[0] = NothingPassed
         /\ \A i \in 1 .. n : R[i] = Step(R[i - 1], i)
         /\ R = [i \in 0 .. n |-> R[i]]
    <2> HIDE DEF R
    <2>1. R = [i \in 0 .. n |-> IF i = 0 THEN NothingPassed ELSE Old(R[i - 1], i)]
      BY <1>10
    <2>2. R[0] = NothingPassed /\ DOMAIN R = 0 .. n
      BY <1>0, <2>1
    <2>3. \A i \in 1 .. n : R[i] = Old(R[i - 1], i)
      BY <1>8, <2>1
    <2>4. \A i \in 1 .. n : R[i] = Step(R[i - 1], i)
      BY <1>2, <2>3
    <2> QED
      BY <2>1, <2>2, <2>4
  <1> HIDE DEF R
  <1>12. R = f
    <2>1. DOMAIN f = 0 .. n /\ f = [i \in 0 .. n |-> f[i]] /\ f[0] = NothingPassed
      BY <1>0, <1>7
    <2>2. \A i \in 1 .. n : f[i - 1] = R[i - 1] => f[i] = R[i]
      BY <1>7, <1>8, <1>11
    <2> QED
      BY <1>0, <1>11, <2>1, <2>2, SameLoop
  <1> QED
    BY <1>3, <1>11, <1>12 DEF Step

\* An argument taken as it is, is passed as it is.
LEMMA PlainPasses ==
    ASSUME NEW acc \in Accs, NEW param \in Params, NEW arg \in Values,
           acc.err = "none", acc.same, TakesAsIs(param, arg, TRUE)
    PROVE  LET r == PassedMatched(acc, param, arg, arg.symbol, TRUE)
           IN  r \in Accs /\ r.err = "none" /\ r.same /\ r.by = acc.by + 1
  <1> DEFINE symbol == arg.symbol
             p == IF param.array THEN ArrayArg(param, arg, symbol, TRUE, acc.by + 1) ELSE Pass(<<arg>>)
             unchanged == ~param.array \/ symbol = "a" \/ (symbol = "m" /\ arg = Undefined)
             r == PassedMatched(acc, param, arg, symbol, TRUE)
  <1>1. param.array => symbol = "a" /\ param.subtype = "none"
    BY DEF TakesAsIs
  <1>2. p = Pass(<<arg>>) /\ unchanged
    <2>1. CASE param.array
      BY <1>1, <2>1 DEF ArrayArg
    <2>2. CASE ~param.array
      BY <2>2
    <2> QED
      BY <2>1, <2>2
  <1>3. p.err = "none" /\ p.out[1] = arg
    <2> HIDE DEF p
    <2> QED
      BY <1>2, OnePassed
  <1>4. r = IF acc.err # "none" THEN acc
            ELSE IF p.err # "none" THEN [acc EXCEPT !.err = p.err, !.blames = p.blames]
            ELSE Passed(acc, p.out[1], unchanged)
    BY DEF PassedMatched
  <1> HIDE DEF p, unchanged, symbol
  <1>5. r = [acc EXCEPT !.out = Append(@, arg), !.by = @ + 1, !.same = @ /\ TRUE]
    <2>1. r = Passed(acc, p.out[1], unchanged)
      BY <1>3, <1>4
    <2> HIDE DEF r
    <2> QED
      BY <1>2, <1>3, <2>1 DEF Passed
  <1>6. r \in Accs
    BY PassedMatchedType
  <1> HIDE DEF r
  <1>7. r.err = acc.err /\ r.by = acc.by + 1 /\ r.same = (acc.same /\ TRUE)
    BY <1>5 DEF Accs
  <1> QED
    BY <1>6, <1>7 DEF r, symbol

\* What fits in order needs no validation: it is passed as it is.
LEMMA FilledPassesAll ==
    ASSUME NEW params \in Seq(Params), NEW args \in Seq(Values), NEW focus \in Values,
           FillsInOrder(params, args, TRUE)
    PROVE  ValidateMatched(params, args, focus) = Pass(args)
  <1> DEFINE n == Len(params)
             symbols == ArgSymbols(args)
             k == Len(args)
             m == Match(params, symbols)
             t == [p \in 0 .. n |-> IF p <= k THEN p ELSE k]
  <1>0. /\ n \in Nat /\ symbols \in Seq(AllSymbols) /\ Len(symbols) = k /\ k \in Nat /\ DOMAIN params = 1 .. n
        /\ DOMAIN args = 1 .. k /\ DOMAIN symbols = 1 .. k /\ \A i \in 1 .. k : symbols[i] = args[i].symbol
    BY SymbolsOfArgs
  <1>1. /\ ~Variadic(params) /\ k <= n
        /\ \A i \in 1 .. k : TakesAsIs(params[i], args[i], TRUE)
        /\ RestNeedsNothing(params, k)
    BY <1>0 DEF FillsInOrder
  <1> HIDE DEF symbols
  <1>2. FillsInOrderSymbols(params, symbols)
    <2>1. \A i \in 1 .. k : ~params[i].lazy /\ symbols[i] \in params[i].symbols
      BY <1>0, <1>1 DEF TakesAsIs
    <2> QED
      BY <1>0, <1>1, <2>1 DEF FillsInOrderSymbols
  <1>3. m.ok /\ m.counts = Counts(t, n) /\ Sums(m.counts) = t
    BY <1>0, <1>1, <1>2, PlainMatch
  <1>4. Matching(t, params, symbols)
    <2>1. PICK u : Matching(u, params, symbols) /\ Sums(m.counts) = u
      BY <1>0, <1>3, MatchTakes
    <2> QED
      BY <1>3, <2>1
  <1>places. \A p \in 0 .. n : t[p] = IF p <= k THEN p ELSE k
    OBVIOUS
  <1> HIDE DEF m, t
  <1>5. PICK g \in [0 .. n -> Accs] :
            /\ g[0] = NothingPassed
            /\ \A i \in 1 .. n : g[i] = PassedNext(g[i - 1], i, t, params, args, focus)
            /\ ValidateAs(m, params, args, focus) =
                 LET all == g[n]
                 IN  IF all.err # "none" THEN Raise(all.err, all.blames)
                     ELSE Pass(IF all.same THEN args ELSE all.out)
    BY <1>3, <1>4, ValidateLoop DEF symbols
  <1> DEFINE Plain(i) == g[i].err = "none" /\ g[i].same /\ g[i].by = i
             P == {i \in 0 .. n : Plain(i)}
  <1>6. 0 \in P
    <2>1. NothingPassed.err = "none" /\ NothingPassed.same /\ NothingPassed.by = 0
      BY DEF NothingPassed
    <2> QED
      BY <1>0, <1>5, <2>1
  <1>7. ASSUME NEW i \in 0 .. n - 1, i \in P
        PROVE  i + 1 \in P
    <2>0. i + 1 \in 1 .. n /\ i + 1 \in 0 .. n /\ i \in 0 .. n /\ (i + 1) - 1 = i /\ i \in Nat
      BY <1>0
    <2>1. g[i + 1] = PassedNext(g[i], i + 1, t, params, args, focus)
      BY <1>5, <2>0
    <2>2. g[i] \in Accs /\ Plain(i) /\ params[i + 1] \in Params
      BY <1>7, <2>0
    <2> DEFINE b == g[i]
               param == params[i + 1]
    <2>3. CASE i < k
      <3>1. i + 1 \in 1 .. k
        BY <1>0, <2>0, <2>3
      <3>2. t[i + 1] - t[i] = 1 /\ t[i] = i
        <4>1. t[i + 1] = i + 1 /\ t[i] = i
          <5>1. i + 1 <= k /\ i <= k
            BY <1>0, <3>1
          <5> QED
            BY <1>places, <2>0, <5>1
        <4> QED
          BY <2>0, <4>1
      <3>3. g[i + 1] = PassedAll(b, param, args, i, 1)
        BY <2>0, <2>1, <3>2 DEF PassedNext
      <3> HIDE DEF b, param
      <3>4. PICK f \in [0 .. 1 -> Accs] : AllPassed(f, b, param, args, i, 1)
        <4>1. b \in Accs /\ param \in Params /\ 1 \in Nat
          BY <2>2 DEF b, param
        <4> QED
          BY <2>0, <4>1, PassedAllLoop
      <3>5. PassedAll(b, param, args, i, 1) = PassedOnce(b, 1, param, args, i, 1)
        <4>1. 1 \in 1 .. 1 /\ 1 - 1 = 0
          OBVIOUS
        <4>2. f[1] = PassedOnce(f[1 - 1], 1, param, args, i, 1)
          BY <3>4, <4>1 DEF AllPassed
        <4> QED
          BY <3>4, <4>1, <4>2 DEF AllPassed
      <3>6. args[i + 1] \in Values /\ ArgAt(args, i + 1) = args[i + 1]
        BY <1>0, <3>1 DEF ArgAt
      <3>7. PassedOnce(b, 1, param, args, i, 1) =
              PassedMatched(b, param, args[i + 1], args[i + 1].symbol, TRUE)
        <4>1. b.by = i
          BY <2>2 DEF b
        <4> QED
          BY <3>6, <4>1 DEF PassedOnce
      <3>8. /\ TakesAsIs(param, args[i + 1], TRUE) /\ b.err = "none" /\ b.same /\ b.by = i
            /\ b \in Accs /\ param \in Params
        BY <1>1, <2>2, <3>1 DEF b, param
      <3> DEFINE r == PassedMatched(b, param, args[i + 1], args[i + 1].symbol, TRUE)
      <3>9. r.err = "none" /\ r.same /\ r.by = b.by + 1
        BY <3>6, <3>8, PlainPasses
      <3> HIDE DEF r
      <3>10. g[i + 1] = r
        BY <3>3, <3>5, <3>7 DEF r
      <3> QED
        BY <2>0, <3>8, <3>9, <3>10
    <2>4. CASE ~(i < k)
      <3>1. i + 1 \in k + 1 .. n /\ ~(i + 1 <= k)
        BY <1>0, <2>0, <2>4
      <3>2. t[i + 1] - t[i] = 0
        <4>1. t[i + 1] = k
          BY <1>places, <2>0, <3>1
        <4>2. t[i] = k
          <5>1. i <= k => i = k
            <6>1. k \in Nat /\ i \in Nat
              BY <1>0, <2>0
            <6> HIDE DEF k
            <6> QED
              BY <2>4, <6>1
          <5> QED
            BY <1>places, <2>0, <5>1
        <4> QED
          BY <1>0, <4>1, <4>2
      <3>3. ~param.context
        BY <1>1, <3>1 DEF RestNeedsNothing
      <3>4. g[i + 1] = PassedUnmatched(b, param, args, focus)
        BY <2>0, <2>1, <3>2 DEF PassedNext
      <3> HIDE DEF b, param
      <3>5. b.err = "none" /\ b.same /\ b.by = i /\ b \in Accs /\ param \in Params
        BY <2>2 DEF b, param
      <3> DEFINE r == PassedUnmatched(b, param, args, focus)
      <3>6. r = Passed(b, ArgAt(args, b.by + 1), TRUE)
        BY <3>3, <3>5 DEF PassedUnmatched
      <3> HIDE DEF r
      <3>7. r = [b EXCEPT !.out = Append(@, ArgAt(args, b.by + 1)), !.by = @ + 1, !.same = @ /\ TRUE]
        BY <3>6 DEF Passed
      <3>8. r.err = b.err /\ r.by = b.by + 1 /\ r.same = (b.same /\ TRUE)
        BY <3>5, <3>7 DEF Accs
      <3>9. g[i + 1] = r
        BY <3>4 DEF r
      <3> QED
        BY <2>0, <3>5, <3>8, <3>9
    <2> QED
      BY <2>3, <2>4
  <1>8. \A i \in P : g[i].err = "none" /\ g[i].same
    OBVIOUS
  <1> HIDE DEF P
  <1>9. 0 .. n \subseteq P
    BY <1>0, <1>6, <1>7, UpwardInduction
  <1>10. n \in P
    BY <1>0, <1>9
  <1>11. g[n].err = "none" /\ g[n].same
    BY <1>8, <1>10
  <1>12. ValidateAs(m, params, args, focus) = Pass(args)
    <2>1. ValidateAs(m, params, args, focus) =
                 LET all == g[n]
                 IN  IF all.err # "none" THEN Raise(all.err, all.blames)
                     ELSE Pass(IF all.same THEN args ELSE all.out)
      BY <1>5
    <2> HIDE DEF n
    <2> QED
      BY <1>11, <2>1
  <1> QED
    BY <1>12 DEF ValidateMatched, m, symbols

\* Validate is what the matcher would answer.
LEMMA ValidateAgrees ==
    ASSUME NEW params \in Seq(Params), NEW args \in Seq(Values), NEW focus \in Values,
           Fits(params, Len(args))
    PROVE  Validate(params, args, focus) = ValidateMatched(params, args, focus)
  <1> DEFINE one == Len(args) = 1 /\ RestOptional(params) /\ TakesAsIs(params[1], args[1], TRUE)
  <1>1. ASSUME one
        PROVE  FillsInOrder(params, args, TRUE)
    <2>0. Len(params) \in Nat /\ DOMAIN params = 1 .. Len(params) /\ DOMAIN args = 1 .. Len(args) /\ params # <<>>
      BY <1>1 DEF RestOptional
    <2>1. ~Variadic(params) /\ Len(args) = 1 /\ Len(params) >= 1
      BY <1>1, <2>0 DEF RestOptional
    <2>2. \A i \in DOMAIN args : TakesAsIs(params[i], args[i], TRUE)
      <3>1. \A i \in DOMAIN args : i = 1
        BY <2>0, <2>1
      <3> QED
        BY <1>1, <3>1
    <2>3. RestNeedsNothing(params, Len(args))
      BY <1>1 DEF RestNeedsNothing, RestOptional
    <2> QED
      BY <2>1, <2>2, <2>3 DEF FillsInOrder
  <1>2. Validate(params, args, focus) =
            IF one \/ ~Fits(params, Len(args)) \/ FillsInOrder(params, args, TRUE)
            THEN Pass(args) ELSE ValidateMatched(params, args, focus)
    BY DEF Validate
  <1> HIDE DEF one
  <1>3. CASE FillsInOrder(params, args, TRUE)
    <2>1. ValidateMatched(params, args, focus) = Pass(args)
      BY <1>3, FilledPassesAll
    <2> QED
      BY <1>2, <1>3, <2>1
  <1>4. CASE ~FillsInOrder(params, args, TRUE)
    BY <1>1, <1>2, <1>4
  <1> QED
    BY <1>3, <1>4

\* Inject is what the matcher would answer.
LEMMA InjectAgrees ==
    ASSUME NEW params \in Seq(Params), NEW args \in Seq(Values), NEW focus \in Values,
           Fits(params, Len(args)), HasContext(params)
    PROVE  Inject(params, args, focus) = InjectMatched(params, args, focus)
  <1> DEFINE m == Match(params, ArgSymbols(args))
  <1>1. CASE FillsInOrder(params, args, FALSE)
    <2>1. Inject(params, args, focus) = Pass(args)
      BY <1>1 DEF Inject
    <2>2. m.ok => Missing(m, params) = {}
      BY <1>1, FilledMissesNothing
    <2>3. InjectMatched(params, args, focus) = InjectAs(m, params, args, focus)
      BY DEF InjectMatched
    <2> HIDE DEF m
    <2>4. InjectAs(m, params, args, focus) = Pass(args)
      BY <2>2 DEF InjectAs
    <2> QED
      BY <2>1, <2>3, <2>4
  <1>2. CASE ~FillsInOrder(params, args, FALSE)
    BY <1>2 DEF Inject
  <1> QED
    BY <1>1, <1>2

-----------------------------------------------------------------------------
(* What a call passes keeps its arguments.                                 *)

\* May v stand for the argument at place i?
KeptAt(args, v, i) ==
    \/ v \in {ArgAt(args, i), InArray(ArgAt(args, i))}
    \/ v = Undefined /\ \E k \in DOMAIN args : k <= i /\ args[k].symbol = "m"

\* Without the focus put in at some places, out holds so many of the arguments, in order.
KeepingBut(J, out, focus, args, by) ==
    /\ \A i \in J : out[i] = focus
    /\ \A i \in DOMAIN out \ J : KeptAt(args, out[i], Cardinality(1 .. i \ J))
    /\ Cardinality(DOMAIN out \ J) = by
Keeping(out, focus, args, by) == \E J \in SUBSET DOMAIN out : KeepingBut(J, out, focus, args, by)

\* The places before i at which there is no focus.
LEMMA PlacesLeft ==
    ASSUME NEW n \in Nat, NEW J \in SUBSET (1 .. n), NEW k \in Nat
    PROVE  /\ IsFiniteSet((1 .. n) \ J) /\ Cardinality((1 .. n) \ J) \in Nat
           /\ Cardinality((1 .. n + k) \ J) = Cardinality((1 .. n) \ J) + k
  <1>1. IsFiniteSet(1 .. n) /\ IsFiniteSet(n + 1 .. n + k) /\ Cardinality(n + 1 .. n + k) = k
    <2>1. IsFiniteSet(1 .. n) /\ IsFiniteSet(n + 1 .. n + k)
      BY FS_Interval
    <2>2. Cardinality(n + 1 .. n + k) = IF n + 1 > n + k THEN 0 ELSE (n + k) - (n + 1) + 1
      BY FS_Interval
    <2> QED
      BY <2>1, <2>2
  <1>2. IsFiniteSet((1 .. n) \ J) /\ Cardinality((1 .. n) \ J) \in Nat
    BY <1>1, FS_Subset, FS_CardinalityType
  <1>3. (1 .. n + k) \ J = ((1 .. n) \ J) \cup (n + 1 .. n + k)
    OBVIOUS
  <1>4. ((1 .. n) \ J) \cap (n + 1 .. n + k) = {}
    OBVIOUS
  <1>5. Cardinality(((1 .. n) \ J) \cup (n + 1 .. n + k)) =
            Cardinality((1 .. n) \ J) + Cardinality(n + 1 .. n + k) - Cardinality({})
    <2> DEFINE left == (1 .. n) \ J
               more == n + 1 .. n + k
    <2>1. IsFiniteSet(left) /\ IsFiniteSet(more) /\ left \cap more = {}
      BY <1>1, <1>2, <1>4
    <2> HIDE DEF left, more
    <2>2. Cardinality(left \cup more) = Cardinality(left) + Cardinality(more) - Cardinality(left \cap more)
      BY <2>1, FS_Union
    <2> QED
      BY <2>1, <2>2 DEF left, more
  <1>6. Cardinality({}) = 0
    BY FS_EmptySet
  <1> DEFINE c == Cardinality((1 .. n) \ J)
             d == Cardinality((1 .. n + k) \ J)
  <1>7. d = c + k - 0 /\ c \in Nat
    BY <1>1, <1>2, <1>3, <1>5, <1>6
  <1> HIDE DEF c, d
  <1>8. d = c + k
    BY <1>7
  <1> QED
    BY <1>2, <1>8 DEF c, d

LEMMA KeepsNone ==
    ASSUME NEW focus, NEW args
    PROVE  Keeping(<<>>, focus, args, 0)
  <1>1. DOMAIN <<>> = {} /\ {} \ {} = {} /\ Cardinality({}) = 0
    BY FS_EmptySet
  <1>2. KeepingBut({}, <<>>, focus, args, 0)
    BY <1>1 DEF KeepingBut
  <1> QED
    BY <1>1, <1>2 DEF Keeping

\* The focus put in, or arguments passed, after what has been.
LEMMA KeepsFocus ==
    ASSUME NEW out \in Seq(Values), NEW focus \in Values, NEW args, NEW by,
           Keeping(out, focus, args, by)
    PROVE  Keeping(Append(out, focus), focus, args, by)
  <1> DEFINE n == Len(out)
             more == Append(out, focus)
  <1>0. n \in Nat /\ DOMAIN out = 1 .. n
    OBVIOUS
  <1>1. PICK J \in SUBSET (1 .. n) : KeepingBut(J, out, focus, args, by)
    BY <1>0 DEF Keeping
  <1> DEFINE K == J \cup {n + 1}
  <1>2. DOMAIN more = 1 .. n + 1 /\ more[n + 1] = focus /\ \A i \in 1 .. n : more[i] = out[i]
    OBVIOUS
  <1> HIDE DEF more, n
  <1>3. K \in SUBSET (1 .. n + 1) /\ (1 .. n + 1) \ K = (1 .. n) \ J
    BY <1>0
  <1>4. \A i \in 1 .. n : (1 .. i) \ K = (1 .. i) \ J
    BY <1>0
  <1>5. \A i \in K : more[i] = focus
    BY <1>0, <1>1, <1>2 DEF KeepingBut
  <1>6. \A i \in (1 .. n) \ J : KeptAt(args, more[i], Cardinality(1 .. i \ K))
    BY <1>0, <1>1, <1>2, <1>4 DEF KeepingBut
  <1> HIDE DEF K
  <1>7. KeepingBut(K, more, focus, args, by)
    BY <1>0, <1>1, <1>2, <1>3, <1>5, <1>6 DEF KeepingBut
  <1> QED
    BY <1>2, <1>3, <1>7 DEF Keeping, more

LEMMA KeepsMore ==
    ASSUME NEW out \in Seq(Values), NEW focus, NEW args, NEW by \in Nat, NEW k \in Nat,
           NEW more \in Seq(Values), Len(more) = Len(out) + k,
           \A i \in 1 .. Len(out) : more[i] = out[i],
           \A j \in 1 .. k : KeptAt(args, more[Len(out) + j], by + j),
           Keeping(out, focus, args, by)
    PROVE  Keeping(more, focus, args, by + k)
  <1> DEFINE n == Len(out)
  <1>0. n \in Nat /\ DOMAIN out = 1 .. n /\ DOMAIN more = 1 .. n + k
    OBVIOUS
  <1>1. PICK J \in SUBSET (1 .. n) : KeepingBut(J, out, focus, args, by)
    BY <1>0 DEF Keeping
  <1>2. /\ \A i \in J : out[i] = focus
        /\ \A i \in (1 .. n) \ J : KeptAt(args, out[i], Cardinality(1 .. i \ J))
        /\ Cardinality((1 .. n) \ J) = by
    BY <1>0, <1>1 DEF KeepingBut
  <1>3. /\ \A i \in 1 .. n : more[i] = out[i]
        /\ \A j \in 1 .. k : KeptAt(args, more[n + j], by + j)
    OBVIOUS
  <1> HIDE DEF n
  <1>4. \A i \in J : more[i] = focus
    BY <1>2, <1>3
  <1>5. \A j \in Nat : Cardinality((1 .. n + j) \ J) = by + j
    BY <1>0, <1>2, PlacesLeft
  <1>6. ASSUME NEW i \in (1 .. n + k) \ J
        PROVE  KeptAt(args, more[i], Cardinality(1 .. i \ J))
    <2>1. CASE i \in 1 .. n
      BY <1>2, <1>3, <2>1
    <2>2. CASE i \notin 1 .. n
      <3> DEFINE j == i - n
      <3>1. j \in 1 .. k /\ i = n + j /\ j \in Nat
        BY <1>0, <2>2
      <3> HIDE DEF j
      <3>2. KeptAt(args, more[n + j], by + j) /\ Cardinality((1 .. n + j) \ J) = by + j
        BY <1>3, <1>5, <3>1
      <3> QED
        BY <3>1, <3>2
    <2> QED
      BY <2>1, <2>2
  <1>7. Cardinality((1 .. n + k) \ J) = by + k
    BY <1>5
  <1>8. KeepingBut(J, more, focus, args, by + k)
    BY <1>0, <1>4, <1>6, <1>7 DEF KeepingBut
  <1>9. J \in SUBSET DOMAIN more
    BY <1>0
  <1> QED
    BY <1>8, <1>9 DEF Keeping

LEMMA KeepsNext ==
    ASSUME NEW out \in Seq(Values), NEW focus, NEW args, NEW by \in Nat, NEW v \in Values,
           Keeping(out, focus, args, by), KeptAt(args, v, by + 1)
    PROVE  Keeping(Append(out, v), focus, args, by + 1)
  <1> DEFINE more == Append(out, v)
  <1>1. more \in Seq(Values) /\ Len(more) = Len(out) + 1 /\ more[Len(out) + 1] = v
        /\ \A i \in 1 .. Len(out) : more[i] = out[i]
    OBVIOUS
  <1> HIDE DEF more
  <1>2. \A j \in 1 .. 1 : KeptAt(args, more[Len(out) + j], by + j)
    BY <1>1
  <1>3. Keeping(more, focus, args, by + 1)
    BY <1>1, <1>2, KeepsMore
  <1> QED
    BY <1>3 DEF more

\* The arguments themselves, from one to another, after what has been passed.
LEMMA KeepsSome ==
    ASSUME NEW out \in Seq(Values), NEW focus, NEW args \in Seq(Values), NEW by \in Nat, NEW to \in Nat,
           by <= to, to <= Len(args), Keeping(out, focus, args, by)
    PROVE  LET more == out \o SubSeq(args, by + 1, to)
           IN  more \in Seq(Values) /\ Len(more) = Len(out) + (to - by) /\ Keeping(more, focus, args, to)
  <1> DEFINE own == SubSeq(args, by + 1, to)
             more == out \o own
             k == to - by
  <1>0. k \in Nat /\ by + k = to /\ Len(out) \in Nat /\ Len(args) \in Nat
    OBVIOUS
  <1>1. own \in Seq(Values) /\ Len(own) = k /\ \A j \in 1 .. k : own[j] = args[by + j]
    OBVIOUS
  <1> HIDE DEF own, k
  <1>2. /\ more \in Seq(Values) /\ Len(more) = Len(out) + k
        /\ \A i \in 1 .. Len(out) : more[i] = out[i]
        /\ \A j \in 1 .. k : more[Len(out) + j] = own[j]
    <2>0. \A s, u \in Seq(Values) : s \o u \in Seq(Values) /\ Len(s \o u) = Len(s) + Len(u)
      OBVIOUS
    <2>1. more \in Seq(Values) /\ Len(more) = Len(out) + k
      <3>1. more \in Seq(Values) /\ Len(more) = Len(out) + Len(own)
        BY <1>1, <2>0
      <3> QED
        BY <1>1, <3>1
    <2>2. \A i \in 1 .. Len(out) : more[i] = out[i]
      BY <1>1
    <2>3. ASSUME NEW j \in 1 .. k
          PROVE  more[Len(out) + j] = own[j]
      <3>1. Len(out) + j \in 1 .. Len(out) + Len(own) /\ ~(Len(out) + j <= Len(out))
        BY <1>0, <1>1
      <3>2. more[Len(out) + j] = own[(Len(out) + j) - Len(out)]
        BY <1>1, <3>1
      <3>3. (Len(out) + j) - Len(out) = j
        BY <1>0
      <3> QED
        BY <3>2, <3>3
    <2> QED
      BY <2>1, <2>2, <2>3
  <1> HIDE DEF more
  <1>3. \A j \in 1 .. k : KeptAt(args, more[Len(out) + j], by + j)
    <2> SUFFICES ASSUME NEW j \in 1 .. k
                 PROVE  KeptAt(args, more[Len(out) + j], by + j)
      OBVIOUS
    <2>1. by + j <= Len(args)
      BY <1>0
    <2>2. ArgAt(args, by + j) = args[by + j]
      BY <2>1 DEF ArgAt
    <2>3. more[Len(out) + j] = args[by + j]
      BY <1>1, <1>2
    <2> QED
      BY <2>2, <2>3 DEF KeptAt
  <1>4. Keeping(more, focus, args, by + k)
    BY <1>0, <1>2, <1>3, KeepsMore
  <1> QED
    BY <1>0, <1>2, <1>4 DEF more, own, k

\* All of them.
LEMMA KeepsAll ==
    ASSUME NEW args \in Seq(Values), NEW focus
    PROVE  Keeping(args, focus, args, Len(args))
  <1>1. <<>> \in Seq(Values) /\ Len(<<>>) = 0 /\ Len(args) \in Nat /\ 0 \in Nat /\ 0 + Len(args) = Len(args)
    OBVIOUS
  <1>2. \A j \in 1 .. Len(args) : KeptAt(args, args[0 + j], 0 + j)
    BY DEF KeptAt, ArgAt
  <1>3. Keeping(<<>>, focus, args, 0)
    BY KeepsNone
  <1> DEFINE none == <<>>
             n == Len(args)
             by == 0
  <1>4. \A i \in 1 .. Len(none) : args[i] = none[i]
    BY <1>1
  <1>5. /\ none \in Seq(Values) /\ by \in Nat /\ n \in Nat /\ by + n = n
        /\ Len(args) = Len(none) + n
    BY <1>1
  <1>6. \A j \in 1 .. n : KeptAt(args, args[Len(none) + j], by + j)
    BY <1>1, <1>2
  <1>7. Keeping(none, focus, args, by)
    BY <1>3
  <1> HIDE DEF none, n, by
  <1>8. Keeping(args, focus, args, by + n)
    BY <1>4, <1>5, <1>6, <1>7, KeepsMore
  <1> QED
    BY <1>5, <1>8 DEF n

\* The room made for what the first i parameters pass (outputSize).
Room(params, t, i) == IF Variadic(params) THEN t[i] + i ELSE i

LEMMA RoomGrows ==
    ASSUME NEW params \in Seq(Params), NEW symbols \in Seq(AllSymbols), NEW t, Matching(t, params, symbols),
           NEW i \in 1 .. Len(params)
    PROVE  /\ t[i - 1] \in Nat /\ t[i] \in Nat /\ t[i - 1] <= t[i] /\ t[i] <= Len(symbols)
           /\ Room(params, t, i - 1) \in Nat /\ Room(params, t, i) \in Nat
           /\ Room(params, t, i - 1) + 1 <= Room(params, t, i)
           /\ Room(params, t, i - 1) + (t[i] - t[i - 1]) <= Room(params, t, i)
  <1> DEFINE m == Len(symbols)
             x == t[i - 1]
             y == t[i]
  <1>1. i - 1 \in 0 .. Len(params) /\ i \in 0 .. Len(params) /\ m \in Nat /\ i - 1 \in Nat /\ i \in Nat
    OBVIOUS
  <1>2. x \in 0 .. m /\ y \in 0 .. m /\ y - x \in Nat /\ y - x \in Fitting(params[i], symbols, x)
    BY <1>1 DEF Matching
  <1> HIDE DEF m
  <1>3. x \in Nat /\ y \in Nat /\ x <= y /\ y <= m
    BY <1>1, <1>2
  <1>4. ~Variadic(params) => y - x <= 1
    <2>1. ~Variadic(params) => ~params[i].variadic
      BY DEF Variadic
    <2>2. ~params[i].variadic => ~(y - x > 1)
      BY <1>2 DEF Fitting
    <2> HIDE DEF x, y
    <2> QED
      BY <1>3, <2>1, <2>2
  <1>5. /\ Room(params, t, i - 1) = IF Variadic(params) THEN x + (i - 1) ELSE i - 1
        /\ Room(params, t, i) = IF Variadic(params) THEN y + i ELSE i
    BY DEF Room
  <1> HIDE DEF x, y
  <1>6. /\ Room(params, t, i - 1) \in Nat /\ Room(params, t, i) \in Nat
        /\ Room(params, t, i - 1) + 1 <= Room(params, t, i)
        /\ Room(params, t, i - 1) + (y - x) <= Room(params, t, i)
    BY <1>1, <1>3, <1>4, <1>5
  <1> QED
    BY <1>3, <1>6 DEF x, y, m

LEMMA RoomIsOutputSize ==
    ASSUME NEW params \in Seq(Params), NEW symbols \in Seq(AllSymbols), NEW t, Matching(t, params, symbols)
    PROVE  Room(params, t, 0) = 0 /\ Room(params, t, Len(params)) = OutputSize(params, Len(symbols))
  BY DEF Room, Matching, OutputSize

\* What the first i parameters make of the arguments they take, with the focus put in
\* for the missing ones.
Injected(out, i, t, missing, params, args, focus) ==
    /\ out \in Seq(Values) /\ Keeping(out, focus, args, t[i])
    /\ Len(out) <= Room(params, t, i)
    /\ Len(out) >= t[i] /\ ((\E j \in missing : j <= i) => Len(out) > t[i])

InjectedNext(before, i, t, missing, args, focus) ==
    before \o (IF i \in missing THEN <<focus>> ELSE SubSeq(args, t[i - 1] + 1, t[i]))

LEMMA InjectedStep ==
    ASSUME NEW params \in Seq(Params), NEW args \in Seq(Values), NEW focus \in Values,
           NEW t, Matching(t, params, ArgSymbols(args)), NEW missing,
           \A i \in missing : i \in 1 .. Len(params) /\ t[i] - t[i - 1] = 0,
           NEW i \in 1 .. Len(params), NEW before,
           Injected(before, i - 1, t, missing, params, args, focus)
    PROVE  Injected(InjectedNext(before, i, t, missing, args, focus), i, t, missing, params, args, focus)
  <1> DEFINE r == InjectedNext(before, i, t, missing, args, focus)
             x == t[i - 1]
             y == t[i]
             was == Room(params, t, i - 1)
             room == Room(params, t, i)
  <1>0. ArgSymbols(args) \in Seq(AllSymbols) /\ Len(ArgSymbols(args)) = Len(args) /\ Len(args) \in Nat
    BY SymbolsOfArgs
  <1>1. /\ x \in Nat /\ y \in Nat /\ x <= y /\ y <= Len(args)
        /\ was \in Nat /\ room \in Nat /\ was + 1 <= room /\ was + (y - x) <= room
    BY <1>0, RoomGrows
  <1>2. /\ before \in Seq(Values) /\ Keeping(before, focus, args, x)
        /\ Len(before) <= was /\ Len(before) >= x /\ Len(before) \in Nat
        /\ (\E j \in missing : j <= i - 1) => Len(before) > x
    BY DEF Injected
  <1>3. \A j \in missing : j <= i => j = i \/ j <= i - 1
    OBVIOUS
  <1>4. i \in missing => y = x
    <2>1. i \in missing => y - x = 0
      OBVIOUS
    <2> HIDE DEF x, y
    <2> QED
      BY <1>1, <2>1
  <1>5. r = before \o (IF i \in missing THEN <<focus>> ELSE SubSeq(args, x + 1, y))
    BY DEF InjectedNext
  <1> HIDE DEF r, x, y, was, room
  <1>6. /\ r \in Seq(Values) /\ Keeping(r, focus, args, y) /\ Len(r) <= room
        /\ Len(r) >= y /\ ((\E j \in missing : j <= i) => Len(r) > y)
    <2>1. CASE i \in missing
      <3>1. r = Append(before, focus)
        BY <1>2, <1>5, <2>1
      <3>2. r \in Seq(Values) /\ Len(r) = Len(before) + 1
        BY <1>2, <3>1
      <3>3. Keeping(r, focus, args, x)
        BY <1>2, <3>1, KeepsFocus
      <3>4. Len(r) <= room /\ Len(r) > y
        BY <1>1, <1>2, <1>4, <2>1, <3>2
      <3> QED
        BY <1>1, <1>4, <2>1, <3>2, <3>3, <3>4
    <2>2. CASE i \notin missing
      <3>1. r = before \o SubSeq(args, x + 1, y)
        BY <1>5, <2>2
      <3>2. r \in Seq(Values) /\ Len(r) = Len(before) + (y - x) /\ Keeping(r, focus, args, y)
        BY <1>1, <1>2, <3>1, KeepsSome
      <3>3. Len(r) <= room /\ Len(r) >= y /\ (Len(before) > x => Len(r) > y)
        BY <1>1, <1>2, <3>2
      <3>4. (\E j \in missing : j <= i) => \E j \in missing : j <= i - 1
        BY <1>3, <2>2
      <3> QED
        BY <1>2, <3>2, <3>3, <3>4
    <2> QED
      BY <2>1, <2>2
  <1> QED
    BY <1>6 DEF Injected, r, y, room

LEMMA InjectLoop ==
    ASSUME NEW params \in Seq(Params), NEW args \in Seq(Values), NEW focus \in Values,
           NEW t, Matching(t, params, ArgSymbols(args)),
           NEW m, m.ok, m.counts = Counts(t, Len(params)), Sums(m.counts) = t,
           Missing(m, params) # {}
    PROVE  \/ \E i : InjectAs(m, params, args, focus) = Raise("T0411", i)
           \/ \E out \in Seq(Values) :
                /\ InjectAs(m, params, args, focus) = Pass(out)
                /\ Keeping(out, focus, args, Len(args)) /\ Len(out) > Len(args)
                /\ Len(out) <= OutputSize(params, Len(args))
  <1> DEFINE n == Len(params)
             missing == Missing(m, params)
             bad == {i \in missing : ~FocusFits(params[i], focus)}
             Step(b, i) == InjectedNext(b, i, t, missing, args, focus)
             step == [i \in 1 .. n |-> [b \in Seq(Values) |-> Step(b, i)]]
             Unfolded(f) == f = [i \in 0 .. n |-> IF i = 0 THEN <<>> ELSE Step(f[i - 1], i)]
             R == CHOOSE f : Unfolded(f)
             Fine(out, i) == Injected(out, i, t, missing, params, args, focus)
  <1>0. /\ n \in Nat /\ t \in [0 .. n -> 0 .. Len(args)] /\ t[0] = 0 /\ t[n] = Len(args) /\ <<>> \in Seq(Values)
        /\ ArgSymbols(args) \in Seq(AllSymbols) /\ Len(ArgSymbols(args)) = Len(args) /\ Len(args) \in Nat
        /\ DOMAIN params = 1 .. n
    BY SymbolsOfArgs DEF Matching
  <1>1. InjectAs(m, params, args, focus) =
            IF bad # {} THEN Raise("T0411", t[Min(bad)] + 1) ELSE Pass(R[n])
    <2> DEFINE taken == Sums(m.counts)
               Q == CHOOSE f : f = [i \in 0 .. n |->
                        IF i = 0 THEN <<>>
                        ELSE f[i - 1] \o (IF i \in missing THEN <<focus>>
                                          ELSE SubSeq(args, taken[i - 1] + 1, taken[i]))]
    <2>1. InjectAs(m, params, args, focus) =
            IF ~m.ok \/ missing = {} THEN Pass(args)
            ELSE IF bad # {} THEN Raise("T0411", taken[Min(bad)] + 1) ELSE Pass(Q[n])
      BY DEF InjectAs
    <2>2. taken = t
      OBVIOUS
    <2> HIDE DEF taken
    <2>3. Q = R
      BY <2>2 DEF InjectedNext
    <2> HIDE DEF Q, R, bad, missing
    <2>4. ~(~m.ok \/ missing = {})
      BY DEF missing
    <2> QED
      BY <2>1, <2>2, <2>3, <2>4
  <1>2. \A i \in missing : i \in 1 .. n /\ t[i] - t[i - 1] = 0
    BY <1>0 DEF Missing, Counts
  <1>3. \E j \in missing : j <= n
    <2>1. \A j \in missing : j <= n
      BY <1>0, <1>2
    <2> QED
      BY <2>1
  <1> HIDE DEF missing
  <1>4. ASSUME NEW b \in Seq(Values), NEW i \in 1 .. n
        PROVE  Step(b, i) \in Seq(Values)
    <2>1. i - 1 \in 0 .. n /\ i \in 0 .. n
      BY <1>0
    <2>2. t[i - 1] \in 0 .. Len(args) /\ t[i] \in 0 .. Len(args)
      BY <1>0, <2>1
    <2>3. SubSeq(args, t[i - 1] + 1, t[i]) \in Seq(Values)
      <3> DEFINE x == t[i - 1]
                 y == t[i]
      <3>1. x \in 0 .. Len(args) /\ y \in 0 .. Len(args)
        BY <2>2
      <3> HIDE DEF x, y
      <3>2. SubSeq(args, x + 1, y) \in Seq(Values)
        BY <1>0, <3>1
      <3> QED
        BY <3>2 DEF x, y
    <2>4. <<focus>> \in Seq(Values)
      OBVIOUS
    <2> QED
      BY <2>3, <2>4 DEF InjectedNext
  <1>5. ASSUME NEW b, NEW i \in 1 .. n, Fine(b, i - 1)
        PROVE  Fine(Step(b, i), i)
    BY <1>2, <1>5, InjectedStep
  <1> HIDE DEF Step
  <1>6. \A i \in 1 .. n : step[i] \in [Seq(Values) -> Seq(Values)]
    BY <1>4
  <1> DEFINE none == <<>>
  <1>7. PICK f \in [0 .. n -> Seq(Values)] : Ran(f, n, none, step)
    <2> DEFINE D == Seq(Values)
    <2>1. none \in D /\ Steps(step, n, D)
      BY <1>0, <1>6 DEF Steps
    <2> HIDE DEF step, D, n, none
    <2>2. \E f \in [0 .. n -> D] : Ran(f, n, none, step)
      BY <1>0, <2>1, LoopRuns
    <2> QED
      BY <2>2 DEF D
  <1>8. \A i \in 1 .. n : f[i] = Step(f[i - 1], i)
    <2> SUFFICES ASSUME NEW i \in 1 .. n
                 PROVE  f[i] = Step(f[i - 1], i)
      OBVIOUS
    <2>1. i - 1 \in 0 .. n
      BY <1>0
    <2>2. f[i - 1] \in Seq(Values)
      BY <2>1
    <2> QED
      BY <1>7, <2>2 DEF Ran
  <1>9. Unfolded(f)
    <2>1. \A i \in 0 .. n : i = 0 \/ i \in 1 .. n
      BY <1>0
    <2>2. f[0] = <<>> /\ DOMAIN f = 0 .. n
      BY <1>7 DEF Ran
    <2>3. \A i \in 0 .. n : f[i] = IF i = 0 THEN <<>> ELSE Step(f[i - 1], i)
      BY <1>8, <2>1, <2>2
    <2> QED
      BY <2>2, <2>3
  <1>10. Unfolded(R)
    <2> HIDE DEF Unfolded
    <2> QED
      BY <1>9
  <1>11. R[0] = none /\ \A i \in 1 .. n : R[i] = Step(R[i - 1], i)
    <2> HIDE DEF R
    <2>1. R = [i \in 0 .. n |-> IF i = 0 THEN <<>> ELSE Step(R[i - 1], i)]
      BY <1>10
    <2>2. \A i \in 1 .. n : i \in 0 .. n /\ i # 0
      BY <1>0
    <2>3. R[0] = <<>>
      BY <1>0, <2>1
    <2>4. \A i \in 1 .. n : R[i] = Step(R[i - 1], i)
      BY <2>1, <2>2
    <2> QED
      BY <2>3, <2>4
  <1> HIDE DEF R
  <1> DEFINE P == {i \in 0 .. n : Fine(R[i], i)}
  <1>12. 0 \in P
    <2>1. Keeping(none, focus, args, 0)
      BY KeepsNone
    <2>2. Len(none) = 0 /\ Room(params, t, 0) = 0
      BY <1>0, RoomIsOutputSize
    <2>3. \A j \in missing : ~(j <= 0)
      BY <1>0, <1>2
    <2>4. none \in Seq(Values)
      BY <1>0
    <2> HIDE DEF none
    <2>5. Fine(none, 0)
      BY <1>0, <2>1, <2>2, <2>3, <2>4 DEF Injected
    <2> QED
      BY <1>0, <1>11, <2>5
  <1>13. ASSUME NEW i \in 0 .. n - 1, i \in P
         PROVE  i + 1 \in P
    <2>1. i + 1 \in 1 .. n /\ (i + 1) - 1 = i /\ i + 1 \in 0 .. n
      BY <1>0
    <2>2. Fine(R[(i + 1) - 1], (i + 1) - 1)
      BY <1>13, <2>1
    <2> HIDE DEF Fine
    <2>3. Fine(Step(R[(i + 1) - 1], i + 1), i + 1)
      BY <1>5, <2>1, <2>2
    <2>4. R[i + 1] = Step(R[(i + 1) - 1], i + 1)
      BY <1>11, <2>1
    <2> QED
      BY <2>1, <2>3, <2>4
  <1>14. \A i \in P : Fine(R[i], i)
    OBVIOUS
  <1> HIDE DEF P, Fine
  <1>15. 0 .. n \subseteq P
    BY <1>0, <1>12, <1>13, UpwardInduction
  <1>16. Fine(R[n], n)
    BY <1>0, <1>14, <1>15
  <1>17. /\ R[n] \in Seq(Values) /\ Keeping(R[n], focus, args, Len(args)) /\ Len(R[n]) > Len(args)
         /\ Len(R[n]) <= OutputSize(params, Len(args))
    <2>1. Room(params, t, n) = OutputSize(params, Len(args))
      BY <1>0, RoomIsOutputSize
    <2>2. /\ R[n] \in Seq(Values) /\ Keeping(R[n], focus, args, t[n])
          /\ Len(R[n]) <= Room(params, t, n) /\ Len(R[n]) > t[n]
      BY <1>3, <1>16 DEF Injected, Fine
    <2> QED
      BY <1>0, <2>1, <2>2
  <1> HIDE DEF bad, n
  <1> QED
    BY <1>1, <1>17

\* One combination of symbols is the product of ones.
LEMMA OneCombination ==
    ASSUME NEW sets, Len(sets) \in Nat, DOMAIN sets = 1 .. Len(sets),
           \A i \in 1 .. Len(sets) : \E s : sets[i] = {s}
    PROVE  \A i \in DOMAIN sets : Combinations(sets)[i] = 1
  <1> DEFINE n == Len(sets)
             Unfolded(f) == [i \in 0 .. n |-> IF i = 0 THEN 1 ELSE f[i - 1] * Cardinality(sets[i])]
             R == CHOOSE f : f = Unfolded(f)
             one == [i \in 0 .. n |-> 1]
  <1>1. Combinations(sets) = R
    BY DEF Combinations
  <1>2. \A i \in 1 .. n : Cardinality(sets[i]) = 1
    BY FS_Singleton
  <1>3. one = Unfolded(one)
    <2>1. \A i \in 1 .. n : one[i - 1] * Cardinality(sets[i]) = 1
      BY <1>2
    <2> QED
      BY <2>1
  <1>4. R = Unfolded(R)
    <2> HIDE DEF Unfolded
    <2> QED
      BY <1>3
  <1> HIDE DEF R
  <1>5. \A i \in 1 .. n : R[i - 1] = one[i - 1] => R[i] = one[i]
    <2> SUFFICES ASSUME NEW i \in 1 .. n, R[i - 1] = one[i - 1]
                 PROVE  R[i] = one[i]
      OBVIOUS
    <2>1. i \in 0 .. n /\ i # 0 /\ i - 1 \in 0 .. n
      OBVIOUS
    <2>2. R[i] = R[i - 1] * Cardinality(sets[i])
      BY <1>4, <2>1
    <2> QED
      BY <1>2, <2>1, <2>2
  <1>6. R[0] = one[0]
    BY <1>4
  <1>7. DOMAIN R = 0 .. n /\ R = [i \in 0 .. n |-> R[i]]
    BY <1>4
  <1>8. R = one
    <2> HIDE DEF Unfolded
    <2> QED
      BY <1>5, <1>6, <1>7, SameLoop
  <1> QED
    BY <1>1, <1>8

\* Is the context put in, by the symbols of the arguments (MayInject), as Inject does
\* with the arguments, and is it never put in where the symbols of some of them make
\* MayInject answer that it is not.
LEMMA MayInjectForesees ==
    ASSUME NEW params \in Seq(Params), NEW args \in Seq(Values), NEW focus \in Values
    PROVE  /\ MayInject(params, SymbolsBefore(args, DOMAIN args))
                <=> Inject(params, args, focus) # Pass(args)
           /\ Inject(params, args, focus) # Pass(args) =>
                \A known \in SUBSET DOMAIN args : MayInject(params, SymbolsBefore(args, known))
  <1> DEFINE sets == SymbolsBefore(args, DOMAIN args)
             symbols == ArgSymbols(args)
             m == Match(params, symbols)
             put == HasContext(params) /\ Fits(params, Len(args)) /\ ~FillsInOrder(params, args, FALSE)
                    /\ m.ok /\ Missing(m, params) # {}
  <1>0. /\ symbols \in Seq(AllSymbols) /\ Len(symbols) = Len(args) /\ DOMAIN args = 1 .. Len(args)
        /\ Len(args) \in Nat /\ Len(params) \in Nat
        /\ \A i \in 1 .. Len(args) : symbols[i] = args[i].symbol
    BY SymbolsOfArgs
  <1>1. ASSUME NEW known \in SUBSET DOMAIN args
        PROVE  /\ DOMAIN SymbolsBefore(args, known) = 1 .. Len(args)
               /\ Len(SymbolsBefore(args, known)) = Len(args)
               /\ \A i \in 1 .. Len(args) : symbols[i] \in SymbolsBefore(args, known)[i]
    <2> DEFINE some == SymbolsBefore(args, known)
    <2>1. /\ DOMAIN some = 1 .. Len(args)
          /\ \A i \in 1 .. Len(args) : some[i] = IF i \in known THEN {symbols[i]} ELSE AllSymbols
      BY <1>0 DEF SymbolsBefore
    <2>2. \A i \in 1 .. Len(args) : symbols[i] \in AllSymbols
      BY <1>0
    <2>3. some = [i \in 1 .. Len(args) |-> IF i \in known THEN {symbols[i]} ELSE AllSymbols]
      <3>1. some = [i \in DOMAIN args |-> IF i \in known THEN {args[i].symbol} ELSE AllSymbols]
        BY DEF SymbolsBefore
      <3> QED
        BY <1>0, <3>1
    <2> HIDE DEF some, symbols
    <2>4. some \in Seq(SUBSET AllSymbols)
      BY <1>0, <2>2, <2>3
    <2>5. Len(some) = Len(args)
      BY <1>0, <2>1, <2>4
    <2> QED
      BY <2>1, <2>2, <2>5 DEF some
  <1>2. /\ DOMAIN sets = 1 .. Len(args) /\ Len(sets) = Len(args)
        /\ \A i \in 1 .. Len(args) : sets[i] = {symbols[i]}
    <2>1. \A i \in 1 .. Len(args) : sets[i] = {symbols[i]}
      BY <1>0 DEF SymbolsBefore
    <2> QED
      BY <1>1, <2>1
  <1>10. symbols \in [1 .. Len(args) -> AllSymbols]
    BY <1>0
  <1>3. FillsInOrder(params, args, FALSE) <=>
            ~Variadic(params) /\ (Len(args) >= Len(params) \/ FillsInOrderSymbols(params, symbols))
    BY DEF FillsInOrder
  <1>4. FillsInOrderSymbols(params, symbols) => ~Variadic(params)
    BY DEF FillsInOrderSymbols
  <1>5. Injects(params, symbols) <=> ~FillsInOrderSymbols(params, symbols) /\ m.ok /\ Missing(m, params) # {}
    BY DEF Injects
  <1> HIDE DEF sets
  <1>6. MayInject(params, sets) <=>
            /\ HasContext(params) /\ Fits(params, Len(args))
            /\ Variadic(params) \/ Len(args) < Len(params)
            /\ ~FillsInOrderSymbols(params, symbols) /\ m.ok /\ Missing(m, params) # {}
    <2>1. \A i \in DOMAIN sets : ~(Combinations(sets)[i] > MaxInjectCombinations)
      <3>1. \A i \in DOMAIN sets : Combinations(sets)[i] = 1
        <4>1. \A i \in 1 .. Len(args) : \E s : sets[i] = {s}
          BY <1>2
        <4>2. Len(sets) \in Nat /\ DOMAIN sets = 1 .. Len(sets) /\ \A i \in 1 .. Len(sets) : \E s : sets[i] = {s}
          BY <1>0, <1>2, <4>1
        <4> HIDE DEF symbols, m
        <4> QED
          BY <4>2, OneCombination
      <3> QED
        BY <3>1, CombinationsAssumption
    <2>2. (\E s \in [DOMAIN sets -> AllSymbols] : (\A i \in DOMAIN sets : s[i] \in sets[i]) /\ Injects(params, s))
            <=> Injects(params, symbols)
      <3> HIDE DEF symbols
      <3>1. \A s \in [1 .. Len(args) -> AllSymbols] : (\A i \in 1 .. Len(args) : s[i] \in sets[i]) => s = symbols
        BY <1>2, <1>10
      <3>2. \A i \in 1 .. Len(args) : symbols[i] \in sets[i]
        BY <1>2
      <3> QED
        BY <1>2, <1>10, <3>1, <3>2
    <2> QED
      BY <1>2, <1>5, <2>1, <2>2 DEF MayInject
  <1>7. MayInject(params, sets) <=> put
    <2>1. Len(args) < Len(params) <=> ~(Len(args) >= Len(params))
      BY <1>0
    <2> DEFINE fewer == Len(args) < Len(params)
               enough == Len(args) >= Len(params)
               filled == FillsInOrder(params, args, FALSE)
               inOrder == FillsInOrderSymbols(params, symbols)
               variadic == Variadic(params)
    <2>2. /\ fewer <=> ~enough
          /\ filled <=> ~variadic /\ (enough \/ inOrder)
          /\ inOrder => ~variadic
      BY <2>1, <1>3, <1>4
    <2>3. MayInject(params, sets) <=>
            /\ HasContext(params) /\ Fits(params, Len(args)) /\ (variadic \/ fewer)
            /\ ~inOrder /\ m.ok /\ Missing(m, params) # {}
      BY <1>6
    <2> HIDE DEF m, fewer, enough, filled, inOrder, variadic
    <2>4. (variadic \/ fewer) /\ ~inOrder <=> ~filled
      BY <2>2
    <2> QED
      BY <2>3, <2>4 DEF filled
  <1>8. ASSUME put
        PROVE  Inject(params, args, focus) # Pass(args)
    <2>1. Inject(params, args, focus) = InjectAs(m, params, args, focus)
      BY <1>8 DEF Inject, InjectMatched
    <2>2. PICK t : Matching(t, params, symbols) /\ m.counts = Counts(t, Len(params)) /\ Sums(m.counts) = t
      BY <1>0, <1>8, MatchTakes
    <2>3. \/ \E i : InjectAs(m, params, args, focus) = Raise("T0411", i)
          \/ \E out \in Seq(Values) :
                InjectAs(m, params, args, focus) = Pass(out) /\ Len(out) > Len(args)
      <3>1. Matching(t, params, ArgSymbols(args)) /\ Missing(m, params) # {} /\ m.ok
        BY <1>8, <2>2
      <3> HIDE DEF m
      <3> QED
        BY <2>2, <3>1, InjectLoop
    <2>4. \A i : Raise("T0411", i) # Pass(args)
      <3>1. \A i : Raise("T0411", i).err = "T0411" /\ Pass(args).err = "none"
        BY RaiseIs, PassIs
      <3> QED
        BY <3>1
    <2>5. \A out \in Seq(Values) : Len(out) > Len(args) => Pass(out) # Pass(args)
      <3>1. \A out : Pass(out).out = out
        BY PassIs
      <3>2. \A out \in Seq(Values) : Len(out) > Len(args) => out # args
        BY <1>0
      <3> QED
        BY <3>1, <3>2
    <2> HIDE DEF m
    <2> QED
      BY <2>1, <2>3, <2>4, <2>5
  <1>9. ASSUME ~put
        PROVE  Inject(params, args, focus) = Pass(args)
    <2>1. CASE ~(HasContext(params) /\ Fits(params, Len(args)) /\ ~FillsInOrder(params, args, FALSE))
      BY <2>1 DEF Inject
    <2>2. CASE HasContext(params) /\ Fits(params, Len(args)) /\ ~FillsInOrder(params, args, FALSE)
      <3>1. ~m.ok \/ Missing(m, params) = {}
        BY <1>9, <2>2
      <3>2. Inject(params, args, focus) = InjectAs(m, params, args, focus)
        BY <2>2 DEF Inject, InjectMatched
      <3> HIDE DEF m
      <3>3. InjectAs(m, params, args, focus) = Pass(args)
        BY <3>1 DEF InjectAs
      <3> QED
        BY <3>2, <3>3
    <2> QED
      BY <2>1, <2>2
  <1>11. ASSUME put, NEW known \in SUBSET DOMAIN args
         PROVE  MayInject(params, SymbolsBefore(args, known))
    <2> DEFINE some == SymbolsBefore(args, known)
    <2>1. /\ DOMAIN some = 1 .. Len(args) /\ Len(some) = Len(args)
          /\ \A i \in 1 .. Len(args) : symbols[i] \in some[i]
      BY <1>1, <1>11
    <2>2. Injects(params, symbols)
      <3>1. ~FillsInOrderSymbols(params, symbols)
        BY <1>6, <1>7, <1>11
      <3> QED
        BY <1>5, <1>11, <3>1
    <2>3. Variadic(params) \/ Len(args) < Len(params)
      BY <1>6, <1>7, <1>11
    <2> HIDE DEF some, symbols, m
    <2>4. symbols \in [DOMAIN some -> AllSymbols] /\ \A i \in DOMAIN some : symbols[i] \in some[i]
      BY <1>10, <2>1
    <2>5. HasContext(params) /\ Fits(params, Len(some))
      BY <1>11, <2>1
    <2> QED
      BY <2>1, <2>2, <2>3, <2>4, <2>5 DEF MayInject, some
  <1> HIDE DEF put
  <1> QED
    BY <1>7, <1>8, <1>9, <1>11 DEF sets

\* Whatever skips the matcher answers what the matcher would (signature.go's fits and
\* fillsInOrder); MayInject foresees exactly the calls that get the context from the
\* symbols of all their arguments, and none is missed from those of some
\* (signature_static.go).
THEOREM ShortcutsAgreeAlways == SignatureSpec => []ShortcutsAgree
  <1>1. ASSUME SignatureInv
        PROVE  ShortcutsAgree
    <2> DEFINE params == Compile(result.specs)
               args == task.args
    <2>1. params \in Seq(Params) /\ args \in Seq(Values)
      BY <1>1, CallsTyped
    <2>2. task.alphabet.values \subseteq Values
      BY <1>1, SignatureAssumption DEF SignatureInv, Values
    <2> HIDE DEF params
    <2>3. ASSUME NEW focus \in task.alphabet.values
          PROVE  /\ Fits(params, Len(args)) =>
                    /\ Validate(params, args, focus) = ValidateMatched(params, args, focus)
                    /\ HasContext(params) => Inject(params, args, focus) = InjectMatched(params, args, focus)
                 /\ MayInject(params, SymbolsBefore(args, DOMAIN args))
                        <=> Inject(params, args, focus) # Pass(args)
                 /\ Inject(params, args, focus) # Pass(args) =>
                        \A known \in SUBSET DOMAIN args : MayInject(params, SymbolsBefore(args, known))
      <3>1. focus \in Values
        BY <2>2
      <3> HIDE DEF args
      <3> QED
        BY <2>1, <3>1, ValidateAgrees, InjectAgrees, MayInjectForesees
    <2> QED
      BY <2>3 DEF ShortcutsAgree, params
  <1> QED
    BY <1>1, SignaturesAreRead, PTL

\* What is passed so far holds at least so many of the arguments, in so much room.
Shows(acc, args, focus, least, room) ==
    acc.err = "none" =>
        Keeping(acc.out, focus, args, acc.by) /\ acc.by >= least /\ Len(acc.out) <= room

LEMMA PassedOnceShows ==
    ASSUME NEW b \in Accs, NEW param \in Params, NEW args \in Seq(Values), NEW focus \in Values,
           NEW a \in Nat, NEW count \in Nat, NEW k \in 1 .. count, a + count <= Len(args),
           NEW least, least = a + (k - 1), NEW room \in Nat, Shows(b, args, focus, least, room)
    PROVE  Shows(PassedOnce(b, k, param, args, a, count), args, focus, a + k, room + 1)
  <1> DEFINE r == PassedOnce(b, k, param, args, a, count)
             at == b.by + 1
             arg == ArgAt(args, at)
             symbol == args[a + k].symbol
  <1>0. b.out \in Seq(Values) /\ b.by \in Nat /\ Len(b.out) \in Nat
    BY DEF Accs
  <1>1. arg \in Values
    <2>1. b.by + 1 \in Nat \ {0}
      BY <1>0
    <2> QED
      BY <2>1, ArgAtType
  <1>2. r.err = "none" =>
            /\ b.err = "none"
            /\ \E v \in Values :
                Lent(param, arg, symbol, v) /\ r.out = Append(b.out, v) /\ r.by = b.by + 1
    <2> HIDE DEF arg, symbol
    <2>1. r = PassedMatched(b, param, arg, symbol, count = 1)
      BY DEF PassedOnce, arg, symbol, at
    <2> DEFINE single == count = 1
    <2>2. single \in BOOLEAN
      OBVIOUS
    <2> HIDE DEF single
    <2>3. LET q == PassedMatched(b, param, arg, symbol, single)
          IN  q.err = "none" =>
                /\ b.err = "none"
                /\ \E v \in Values :
                    Lent(param, arg, symbol, v) /\ q.out = Append(b.out, v) /\ q.by = b.by + 1
      BY <1>1, <2>2, PassedMatchedType
    <2> HIDE DEF r
    <2> QED
      BY <2>1, <2>3 DEF single
  <1> HIDE DEF r, arg, symbol
  <1> SUFFICES ASSUME r.err = "none"
               PROVE  Keeping(r.out, focus, args, r.by) /\ r.by >= a + k /\ Len(r.out) <= room + 1
    BY DEF Shows, r
  <1>3. PICK v \in Values : Lent(param, arg, symbol, v) /\ r.out = Append(b.out, v) /\ r.by = b.by + 1
    BY <1>2
  <1>4. Keeping(b.out, focus, args, b.by) /\ b.by >= a + (k - 1) /\ Len(b.out) <= room
    BY <1>2 DEF Shows
  <1>5. a + k \in DOMAIN args /\ a + k <= b.by + 1
    BY <1>0, <1>4
  <1>6. symbol = "m" => \E j \in DOMAIN args : j <= b.by + 1 /\ args[j].symbol = "m"
    BY <1>5 DEF symbol
  <1>7. KeptAt(args, v, b.by + 1)
    BY <1>3, <1>6 DEF KeptAt, Lent, arg, at
  <1>8. Keeping(r.out, focus, args, r.by)
    BY <1>0, <1>3, <1>4, <1>7, KeepsNext
  <1>9. r.by >= a + k /\ Len(r.out) <= room + 1
    BY <1>0, <1>3, <1>4
  <1> QED
    BY <1>8, <1>9

LEMMA PassedAllShows ==
    ASSUME NEW acc \in Accs, NEW param \in Params, NEW args \in Seq(Values), NEW focus \in Values,
           NEW a \in Nat, NEW count \in Nat, a + count <= Len(args),
           NEW room \in Nat, Shows(acc, args, focus, a, room)
    PROVE  Shows(PassedAll(acc, param, args, a, count), args, focus, a + count, room + count)
  <1>1. PICK f \in [0 .. count -> Accs] : AllPassed(f, acc, param, args, a, count)
    BY PassedAllLoop
  <1>2. /\ f[0] = acc /\ PassedAll(acc, param, args, a, count) = f[count]
        /\ \A k \in 1 .. count : f[k] = PassedOnce(f[k - 1], k, param, args, a, count)
    BY <1>1 DEF AllPassed
  <1> DEFINE P == {k \in 0 .. count : Shows(f[k], args, focus, a + k, room + k)}
  <1>3. 0 \in P
    <2>1. a + 0 = a /\ room + 0 = room /\ 0 \in 0 .. count
      OBVIOUS
    <2> QED
      BY <1>2, <2>1
  <1>4. ASSUME NEW j \in 0 .. count - 1, j \in P
        PROVE  j + 1 \in P
    <2> DEFINE k == j + 1
               was == room + j
               least == a + j
    <2>1. /\ k \in 1 .. count /\ k - 1 = j /\ k \in 0 .. count /\ was \in Nat /\ was + 1 = room + k
          /\ least = a + (k - 1)
      OBVIOUS
    <2>2. Shows(f[k - 1], args, focus, least, was)
      BY <1>4, <2>1
    <2>3. f[k - 1] \in Accs /\ f[k] = PassedOnce(f[k - 1], k, param, args, a, count)
      BY <1>2, <2>1
    <2> HIDE DEF k, was, least
    <2>4. Shows(PassedOnce(f[k - 1], k, param, args, a, count), args, focus, a + k, was + 1)
      BY <2>1, <2>2, <2>3, PassedOnceShows
    <2>5. Shows(f[k], args, focus, a + k, room + k)
      BY <2>1, <2>3, <2>4
    <2>6. k \in P
      BY <2>1, <2>5
    <2> QED
      BY <2>6 DEF k
  <1>5. \A k \in P : Shows(f[k], args, focus, a + k, room + k)
    OBVIOUS
  <1> HIDE DEF P
  <1>6. 0 .. count \subseteq P
    BY <1>3, <1>4, UpwardInduction
  <1>7. count \in 0 .. count
    OBVIOUS
  <1> QED
    BY <1>2, <1>5, <1>6, <1>7

\* A parameter that matched nothing passes the focus, or the next argument.
LEMMA PassedUnmatchedShows ==
    ASSUME NEW acc \in Accs, NEW param \in Params, NEW args \in Seq(Values), NEW focus \in Values,
           NEW least \in Nat, NEW room \in Nat, Shows(acc, args, focus, least, room)
    PROVE  Shows(PassedUnmatched(acc, param, args, focus), args, focus, least, room + 1)
  <1> DEFINE r == PassedUnmatched(acc, param, args, focus)
             v == ArgAt(args, acc.by + 1)
  <1>0. acc.out \in Seq(Values) /\ acc.by \in Nat /\ Len(acc.out) \in Nat
    BY DEF Accs
  <1>1. v \in Values
    <2>1. acc.by + 1 \in Nat \ {0}
      BY <1>0
    <2> QED
      BY <2>1, ArgAtType
  <1>2. r.err = "none" =>
            /\ acc.err = "none"
            /\ ~param.context => r.out = Append(acc.out, v) /\ r.by = acc.by + 1
            /\ param.context => r.out = Append(acc.out, focus) /\ r.by = acc.by
    BY PassedUnmatchedType
  <1> HIDE DEF r
  <1> SUFFICES ASSUME r.err = "none"
               PROVE  Keeping(r.out, focus, args, r.by) /\ r.by >= least /\ Len(r.out) <= room + 1
    BY DEF Shows, r
  <1>3. Keeping(acc.out, focus, args, acc.by) /\ acc.by >= least /\ Len(acc.out) <= room
    BY <1>2 DEF Shows
  <1>4. CASE param.context
    <2>1. r.out = Append(acc.out, focus) /\ r.by = acc.by
      BY <1>2, <1>4
    <2>2. Len(r.out) = Len(acc.out) + 1
      BY <1>0, <2>1
    <2>3. Keeping(r.out, focus, args, r.by)
      BY <1>0, <1>3, <2>1, KeepsFocus
    <2> QED
      BY <1>0, <1>3, <2>1, <2>2, <2>3
  <1>5. CASE ~param.context
    <2>1. KeptAt(args, v, acc.by + 1)
      BY DEF KeptAt
    <2> HIDE DEF v
    <2>2. r.out = Append(acc.out, v) /\ r.by = acc.by + 1
      BY <1>2, <1>5
    <2>3. Len(r.out) = Len(acc.out) + 1
      BY <1>0, <1>1, <2>2
    <2>4. Keeping(r.out, focus, args, r.by)
      BY <1>0, <1>1, <1>3, <2>1, <2>2, KeepsNext
    <2> QED
      BY <1>0, <1>3, <2>2, <2>3, <2>4
  <1> QED
    BY <1>4, <1>5

LEMMA PassedNextShows ==
    ASSUME NEW params \in Seq(Params), NEW args \in Seq(Values), NEW focus \in Values,
           NEW t, Matching(t, params, ArgSymbols(args)), NEW i \in 1 .. Len(params), NEW b \in Accs,
           Shows(b, args, focus, t[i - 1], Room(params, t, i - 1))
    PROVE  Shows(PassedNext(b, i, t, params, args, focus), args, focus, t[i], Room(params, t, i))
  <1> DEFINE r == PassedNext(b, i, t, params, args, focus)
             x == t[i - 1]
             y == t[i]
             was == Room(params, t, i - 1)
             room == Room(params, t, i)
             count == y - x
  <1>0. ArgSymbols(args) \in Seq(AllSymbols) /\ Len(ArgSymbols(args)) = Len(args) /\ Len(args) \in Nat
    BY SymbolsOfArgs
  <1>1. /\ x \in Nat /\ y \in Nat /\ x <= y /\ y <= Len(args)
        /\ was \in Nat /\ room \in Nat /\ was + 1 <= room /\ was + (y - x) <= room
    BY <1>0, RoomGrows
  <1>2. params[i] \in Params
    OBVIOUS
  <1>3. r = IF count = 0 THEN PassedUnmatched(b, params[i], args, focus)
            ELSE PassedAll(b, params[i], args, x, count)
    BY DEF PassedNext
  <1>4. Shows(b, args, focus, x, was)
    OBVIOUS
  <1> HIDE DEF r, x, y, was, room
  <1>5. count \in Nat /\ x + count = y
    BY <1>1
  <1> HIDE DEF count
  <1>6. Shows(r, args, focus, y, room)
    <2>1. CASE count = 0
      <3>1. Shows(r, args, focus, x, was + 1)
        BY <1>1, <1>2, <1>3, <1>4, <2>1, PassedUnmatchedShows
      <3>2. x = y
        BY <1>1, <1>5, <2>1
      <3>3. r \in Accs
        BY <1>2, <1>3, <2>1, PassedUnmatchedType
      <3>4. Len(r.out) \in Nat
        BY <3>3 DEF Accs
      <3> QED
        BY <1>1, <3>1, <3>2, <3>4 DEF Shows
    <2>2. CASE count # 0
      <3>1. Shows(r, args, focus, x + count, was + count)
        BY <1>1, <1>2, <1>3, <1>4, <1>5, <2>2, PassedAllShows
      <3>2. r \in Accs
        <4>1. PICK f \in [0 .. count -> Accs] : AllPassed(f, b, params[i], args, x, count)
          BY <1>1, <1>2, <1>5, PassedAllLoop
        <4>2. r = f[count] /\ count \in 0 .. count
          BY <1>3, <1>5, <2>2, <4>1 DEF AllPassed
        <4> QED
          BY <4>2
      <3>3. Len(r.out) \in Nat
        BY <3>2 DEF Accs
      <3>4. was + count <= room
        BY <1>1, <1>5
      <3> QED
        BY <1>1, <1>5, <3>1, <3>3, <3>4 DEF Shows
    <2> QED
      BY <2>1, <2>2
  <1> QED
    BY <1>6 DEF r, y, room

\* What a call passes keeps every argument, within the size made for it.
KeepsThem(out, focus, args, params) ==
    /\ \E by \in Nat : by >= Len(args) /\ Keeping(out, focus, args, by)
    /\ Len(out) <= OutputSize(params, Len(args))

\* The arguments as they are, when there is room for them.
LEMMA KeepsItself ==
    ASSUME NEW params, NEW args \in Seq(Values), NEW focus,
           Len(args) <= Len(params) \/ Variadic(params), Len(params) \in Nat
    PROVE  KeepsThem(args, focus, args, params)
  <1>1. Keeping(args, focus, args, Len(args)) /\ Len(args) \in Nat
    BY KeepsAll
  <1>2. Len(args) <= OutputSize(params, Len(args))
    BY <1>1 DEF OutputSize
  <1> QED
    BY <1>1, <1>2 DEF KeepsThem

LEMMA ValidateKeeps ==
    ASSUME NEW params \in Seq(Params), NEW args \in Seq(Values), NEW focus \in Values,
           Match(params, ArgSymbols(args)).ok, ValidateMatched(params, args, focus).err = "none"
    PROVE  KeepsThem(ValidateMatched(params, args, focus).out, focus, args, params)
  <1> DEFINE m == Match(params, ArgSymbols(args))
             n == Len(params)
             r == ValidateMatched(params, args, focus)
  <1>0. /\ ArgSymbols(args) \in Seq(AllSymbols) /\ Len(ArgSymbols(args)) = Len(args) /\ Len(args) \in Nat
        /\ n \in Nat
    BY SymbolsOfArgs
  <1>1. r = ValidateAs(m, params, args, focus)
    BY DEF ValidateMatched
  <1>2. m.ok => Len(args) <= Len(params) \/ Variadic(params)
    <2>1. m.ok => Takes(params, Len(ArgSymbols(args)))
      BY <1>0, MatchIsBacktrack
    <2> QED
      BY <1>0, <2>1 DEF Takes
  <1>3. PICK t : Matching(t, params, ArgSymbols(args)) /\ m.counts = Counts(t, n) /\ Sums(m.counts) = t
    BY <1>0, MatchTakes
  <1>4. m.ok
    OBVIOUS
  <1> HIDE DEF m
  <1>5. PICK g \in [0 .. n -> Accs] :
            /\ g[0] = NothingPassed
            /\ \A i \in 1 .. n : g[i] = PassedNext(g[i - 1], i, t, params, args, focus)
            /\ r = LET all == g[n]
                   IN  IF all.err # "none" THEN Raise(all.err, all.blames)
                       ELSE Pass(IF all.same THEN args ELSE all.out)
    BY <1>1, <1>3, <1>4, ValidateLoop
  <1> HIDE DEF r
  <1> DEFINE Fine(i) == Shows(g[i], args, focus, t[i], Room(params, t, i))
             P == {i \in 0 .. n : Fine(i)}
  <1>6. 0 \in P
    <2> DEFINE none == <<>>
    <2>1. Keeping(none, focus, args, 0) /\ Len(none) = 0
      BY KeepsNone
    <2>2. Room(params, t, 0) = 0 /\ t[0] = 0
      BY <1>0, <1>3, RoomIsOutputSize DEF Matching
    <2>3. NothingPassed.out = none /\ NothingPassed.by = 0
      BY DEF NothingPassed
    <2> HIDE DEF none
    <2>4. Shows(NothingPassed, args, focus, 0, 0)
      BY <2>1, <2>3 DEF Shows
    <2> QED
      BY <1>0, <1>5, <2>2, <2>4
  <1>7. ASSUME NEW j \in 0 .. n - 1, j \in P
        PROVE  j + 1 \in P
    <2> DEFINE i == j + 1
    <2>1. i \in 1 .. n /\ i - 1 = j /\ i \in 0 .. n
      BY <1>0
    <2> HIDE DEF i
    <2>2. Fine(i - 1) /\ g[i - 1] \in Accs /\ g[i] = PassedNext(g[i - 1], i, t, params, args, focus)
      BY <1>0, <1>5, <1>7, <2>1
    <2>3. Fine(i)
      BY <1>3, <2>1, <2>2, PassedNextShows
    <2> HIDE DEF Fine
    <2>4. i \in P
      BY <2>1, <2>3
    <2> QED
      BY <2>4 DEF i
  <1>8. \A i \in P : Fine(i)
    OBVIOUS
  <1> HIDE DEF P
  <1>9. 0 .. n \subseteq P
    BY <1>0, <1>6, <1>7, UpwardInduction
  <1>10. Shows(g[n], args, focus, Len(args), OutputSize(params, Len(args)))
    <2>1. Fine(n)
      BY <1>0, <1>8, <1>9
    <2>2. t[n] = Len(args)
      BY <1>0, <1>3 DEF Matching
    <2>3. Room(params, t, n) = OutputSize(params, Len(args))
      BY <1>0, <1>3, RoomIsOutputSize
    <2> QED
      BY <2>1, <2>2, <2>3
  <1> HIDE DEF n
  <1>11. g[n] \in Accs
    BY <1>0, <1>5
  <1>12. g[n].err = "none"
    <2>1. Raise(g[n].err, g[n].blames).err = g[n].err /\ r.err = "none"
      BY RaiseIs DEF r
    <2> QED
      BY <1>5, <2>1
  <1>13. r.out = IF g[n].same THEN args ELSE g[n].out
    <2>1. r = Pass(IF g[n].same THEN args ELSE g[n].out)
      BY <1>5, <1>12
    <2> QED
      BY <2>1, PassIs
  <1>14. CASE g[n].same
    <2>1. KeepsThem(args, focus, args, params)
      BY <1>0, <1>2, <1>4, KeepsItself DEF n
    <2> QED
      BY <1>13, <1>14, <2>1 DEF r
  <1>15. CASE ~g[n].same
    <2>1. g[n].by \in Nat /\ g[n].by >= Len(args) /\ Keeping(g[n].out, focus, args, g[n].by)
          /\ Len(g[n].out) <= OutputSize(params, Len(args))
      BY <1>10, <1>11, <1>12 DEF Shows, Accs
    <2> QED
      BY <1>13, <1>15, <2>1 DEF KeepsThem, r
  <1> QED
    BY <1>14, <1>15

\* A mismatch is an error.
LEMMA MismatchRaises ==
    ASSUME NEW params, NEW args
    PROVE  Mismatch(params, args).err = "T0410"
  <1>1. \E i : Mismatch(params, args) = Raise("T0410", i)
    BY DEF Mismatch
  <1> QED
    BY <1>1, RaiseIs

LEMMA CallKeeps ==
    ASSUME NEW params \in Seq(Params), NEW args \in Seq(Values), NEW focus \in Values, NEW validate \in BOOLEAN,
           CheckCallArgs(params, args, focus, validate).err = "none"
    PROVE  KeepsThem(CheckCallArgs(params, args, focus, validate).out, focus, args, params)
  <1> DEFINE r == CheckCallArgs(params, args, focus, validate)
             m == Match(params, ArgSymbols(args))
  <1>0. /\ ArgSymbols(args) \in Seq(AllSymbols) /\ Len(ArgSymbols(args)) = Len(args) /\ Len(args) \in Nat
        /\ Len(params) \in Nat
    BY SymbolsOfArgs
  <1>1. ASSUME Len(args) <= Len(params) \/ Variadic(params), r = Pass(args)
        PROVE  KeepsThem(r.out, focus, args, params)
    <2>1. r.out = args
      BY <1>1, PassIs
    <2> HIDE DEF r
    <2>2. KeepsThem(args, focus, args, params)
      BY <1>0, <1>1, KeepsItself
    <2> QED
      BY <2>1, <2>2
  <1>2. r # Mismatch(params, args)
    <2>1. r.err = "none"
      OBVIOUS
    <2> HIDE DEF r
    <2> QED
      BY <2>1, MismatchRaises
  <1>3. CASE validate
    <2>1. r = Validate(params, args, focus)
      BY <1>3 DEF CheckCallArgs
    <2>2. CASE Len(args) = 1 /\ RestOptional(params) /\ TakesAsIs(params[1], args[1], TRUE)
      <3>1. r = Pass(args)
        BY <2>1, <2>2 DEF Validate
      <3>2. Len(params) # 0
        BY <2>2 DEF RestOptional
      <3>3. Len(args) <= Len(params)
        BY <1>0, <2>2, <3>2
      <3> QED
        BY <1>1, <3>1, <3>3
    <2>3. CASE ~Fits(params, Len(args))
      <3>1. r = Pass(args)
        BY <2>1, <2>3 DEF Validate
      <3>2. Len(args) <= Len(params) \/ Variadic(params)
        BY <1>0, <2>3 DEF Fits
      <3> QED
        BY <1>1, <3>1, <3>2
    <2>4. CASE FillsInOrder(params, args, TRUE)
      <3>1. r = Pass(args)
        BY <2>1, <2>4 DEF Validate
      <3>2. Len(args) <= Len(params)
        BY <2>4 DEF FillsInOrder
      <3> QED
        BY <1>1, <3>1, <3>2
    <2>5. CASE /\ ~(Len(args) = 1 /\ RestOptional(params) /\ TakesAsIs(params[1], args[1], TRUE))
               /\ Fits(params, Len(args)) /\ ~FillsInOrder(params, args, TRUE)
      <3>1. r = ValidateMatched(params, args, focus)
        BY <2>1, <2>5 DEF Validate
      <3>2. ~m.ok => r = Mismatch(params, args)
        <4>1. r = ValidateAs(m, params, args, focus)
          BY <3>1 DEF ValidateMatched
        <4> HIDE DEF m, r
        <4> QED
          BY <4>1 DEF ValidateAs
      <3>3. m.ok
        BY <1>2, <3>2
      <3>4. r.err = "none"
        OBVIOUS
      <3> HIDE DEF r
      <3>5. KeepsThem(r.out, focus, args, params)
        BY <3>1, <3>3, <3>4, ValidateKeeps
      <3> QED
        BY <3>5 DEF r
    <2> QED
      BY <2>2, <2>3, <2>4, <2>5
  <1>4. CASE ~validate
    <2>1. r = IF ~Takes(params, Len(args)) THEN Mismatch(params, args) ELSE Inject(params, args, focus)
      BY <1>4 DEF CheckCallArgs
    <2>2. Takes(params, Len(args)) /\ r = Inject(params, args, focus)
      BY <1>2, <2>1
    <2>3. Len(args) <= Len(params) \/ Variadic(params)
      BY <2>2 DEF Takes
    <2>4. CASE r = Pass(args)
      BY <1>1, <2>3, <2>4
    <2>5. CASE r # Pass(args)
      <3>1. r = InjectAs(m, params, args, focus)
        BY <2>2, <2>5 DEF Inject, InjectMatched
      <3>2. m.ok /\ Missing(m, params) # {}
        <4> HIDE DEF m, r
        <4> QED
          BY <2>5, <3>1 DEF InjectAs
      <3>3. PICK t : /\ Matching(t, params, ArgSymbols(args))
                     /\ m.counts = Counts(t, Len(params)) /\ Sums(m.counts) = t
        BY <1>0, <3>2, MatchTakes
      <3>4. r.err = "none"
        OBVIOUS
      <3> HIDE DEF m, r
      <3>5. \/ \E i : r = Raise("T0411", i)
            \/ \E out \in Seq(Values) :
                 r = Pass(out) /\ Keeping(out, focus, args, Len(args)) /\ Len(out) <= OutputSize(params, Len(args))
        BY <3>1, <3>2, <3>3, InjectLoop
      <3>6. \A i : r # Raise("T0411", i)
        BY <3>4, RaiseIs
      <3>7. PICK out \in Seq(Values) :
                 r = Pass(out) /\ Keeping(out, focus, args, Len(args)) /\ Len(out) <= OutputSize(params, Len(args))
        BY <3>5, <3>6
      <3>8. r.out = out
        BY <3>7, PassIs
      <3>9. KeepsThem(out, focus, args, params)
        BY <1>0, <3>7 DEF KeepsThem
      <3> QED
        BY <3>8, <3>9 DEF r
    <2> QED
      BY <2>4, <2>5
  <1> QED
    BY <1>3, <1>4

\* A checked call passes the caller's arguments in order and no more values than it
\* makes room for, whatever the signature, the arguments and the focus (checkCallArgs,
\* validateMatched, injectMatched).
THEOREM ArgumentsKeptAlways == SignatureSpec => []ArgumentsKept
  <1>1. ASSUME SignatureInv
        PROVE  ArgumentsKept
    <2> DEFINE params == Compile(result.specs)
               args == task.args
               Kept(v, i) ==
                  \/ v \in {ArgAt(args, i), Array(<<ArgAt(args, i).symbol>>)}
                  \/ v = Undefined /\ \E k \in DOMAIN args : k <= i /\ args[k].symbol = "m"
               Keeps(out, focus) ==
                  \E injected \in SUBSET DOMAIN out :
                    /\ \A i \in injected : out[i] = focus
                    /\ \A i \in DOMAIN out \ injected : Kept(out[i], Cardinality(1 .. i \ injected))
                    /\ Cardinality(DOMAIN out \ injected) >= Len(args)
    <2>1. params \in Seq(Params) /\ args \in Seq(Values)
      BY <1>1, CallsTyped
    <2>2. task.alphabet.values \subseteq Values
      BY <1>1, SignatureAssumption DEF SignatureInv, Values
    <2>3. \A v, i : KeptAt(args, v, i) <=> Kept(v, i)
      BY DEF KeptAt, InArray
    <2>4. ASSUME NEW out, NEW focus, KeepsThem(out, focus, args, params)
          PROVE  Keeps(out, focus) /\ Len(out) <= OutputSize(params, Len(args))
      <3>1. PICK by \in Nat : by >= Len(args) /\ Keeping(out, focus, args, by)
        BY <2>4 DEF KeepsThem
      <3>2. PICK J \in SUBSET DOMAIN out : KeepingBut(J, out, focus, args, by)
        BY <3>1 DEF Keeping
      <3> HIDE DEF Kept
      <3>3. /\ \A i \in J : out[i] = focus
            /\ \A i \in DOMAIN out \ J : Kept(out[i], Cardinality(1 .. i \ J))
            /\ Cardinality(DOMAIN out \ J) >= Len(args)
        BY <2>3, <3>1, <3>2 DEF KeepingBut
      <3> HIDE DEF params, args
      <3> QED
        BY <2>4, <3>3 DEF KeepsThem
    <2> HIDE DEF params, Keeps
    <2>5. ASSUME NEW focus \in task.alphabet.values, NEW validate \in BOOLEAN
          PROVE  LET r == CheckCallArgs(params, args, focus, validate)
                 IN  r.err = "none" => Keeps(r.out, focus) /\ Len(r.out) <= OutputSize(params, Len(args))
      <3>1. focus \in Values
        BY <2>2
      <3> HIDE DEF args
      <3> QED
        BY <2>1, <2>4, <3>1, CallKeeps
    <2> QED
      BY <2>5 DEF ArgumentsKept, params, Keeps, Kept
  <1> QED
    BY <1>1, SignaturesAreRead, PTL
=============================================================================
