---------------------------- MODULE NumeralsProofs ----------------------------
(***************************************************************************)
(* Proofs that $parseInteger reads every integer back that $formatInteger  *)
(* wrote.                                                                  *)
(***************************************************************************)
EXTENDS IntegerPictures, InductionLemmas, FiniteSetTheorems, SequenceTheorems

-----------------------------------------------------------------------------
(* The loops of the parsers.                                               *)

LEMMA MaxIn ==
    ASSUME NEW n \in Nat, NEW s \in SUBSET (1 .. n), s # {}
    PROVE  Max(s) \in s /\ \A x \in s : Max(s) >= x
  <1>1. s \in SUBSET (0 .. n)
    OBVIOUS
  <1>2. \E x \in s : \A y \in s : x >= y
    BY <1>1, LargestExists
  <1> QED
    BY <1>2 DEF Max

LEMMA MinIn ==
    ASSUME NEW s \in SUBSET Nat, s # {}
    PROVE  Min(s) \in s /\ \A x \in s : Min(s) <= x
  <1>1. \E x \in s : \A y \in s : x <= y
    BY SmallestExists
  <1> QED
    BY <1>1 DEF Min

\* A parser's loop: what has been read is of D, the symbols are of C.
Loop(D, C, step, start, text) == step \in [D -> [C -> D]] /\ start \in D /\ text \in Seq(C)

\* What has been read after each symbol of a text.
Reads(read, D, step, start, text) ==
    /\ read \in [0 .. Len(text) -> D]
    /\ read[0] = start /\ \A i \in 1 .. Len(text) : read[i] = step[read[i - 1]][text[i]]
    /\ ReadAll(step, start, text) = read[Len(text)]

\* The fold of a parser's loop goes through the text from the left.
LEMMA ReadAllReads ==
    ASSUME NEW D, NEW C, NEW step, NEW start, NEW text, Loop(D, C, step, start, text)
    PROVE  \E read : Reads(read, D, step, start, text)
  <1>0. PICK n \in Nat : n = Len(text) /\ DOMAIN text = 1 .. n /\ \A i \in 1 .. n : text[i] \in C
    BY DEF Loop
  <1> USE DEF Loop
  <1> DEFINE I == SUBSET (1 .. n)
             Unfolded(out) == [s \in I |-> IF s = {} THEN start ELSE step[out[s \ {Max(s)}]][text[Max(s)]]]
             Out == CHOOSE out : out = Unfolded(out)
  <1>1. \E out \in [I -> D] : out = Unfolded(out)
    <2> DEFINE rank == [s \in I |-> Cardinality(s)]
               own == [s \in I |-> start]
               prev == [s \in I |-> s \ {Max(s)}]
               next == [s \in I |-> [d \in D |-> step[d][text[Max(s)]]]]
    <2>0. /\ IsFiniteSet(1 .. n) /\ Cardinality(1 .. n) = n
          /\ \A s \in I : IsFiniteSet(s) /\ Cardinality(s) \in 0 .. n
      <3>1. n \in Int /\ 1 \in Int /\ IsFiniteSet(1 .. n) /\ Cardinality(1 .. n) = n
        <4>1. /\ IsFiniteSet(1 .. n)
              /\ Cardinality(1 .. n) = IF 1 > n THEN 0 ELSE n - 1 + 1
          BY FS_Interval
        <4> QED
          BY <4>1
      <3>2. ASSUME NEW s \in I
            PROVE  IsFiniteSet(s) /\ Cardinality(s) \in 0 .. n
        <4>1. IsFiniteSet(s) /\ Cardinality(s) <= Cardinality(1 .. n)
          BY <3>1, FS_Subset
        <4>2. Cardinality(s) \in Nat
          BY <4>1, FS_CardinalityType
        <4> QED
          BY <3>1, <4>1, <4>2
      <3> QED
        BY <3>1, <3>2
    <2>1. Recursion(I, n, rank, D, {{}}, own, prev, next)
      <3>1. n \in Nat /\ rank \in [I -> 0 .. n] /\ own \in [I -> D]
        BY <2>0
      <3>2. ASSUME NEW s \in I \ {{}}
            PROVE  prev[s] \in I /\ rank[prev[s]] < rank[s] /\ next[s] \in [D -> D]
        <4>1. Max(s) \in s /\ Max(s) \in 1 .. n
          BY MaxIn
        <4>2. Cardinality(s \ {Max(s)}) = Cardinality(s) - 1 /\ Cardinality(s) \in Nat
          <5>1. s \in I /\ IsFiniteSet(s) /\ Cardinality(s) \in Nat
            BY <2>0
          <5> QED
            BY <4>1, <5>1, FS_RemoveElement
        <4>3. text[Max(s)] \in C
          BY <1>0, <4>1
        <4>4. s \ {Max(s)} \in I /\ s \in I
          OBVIOUS
        <4>5. prev[s] \in I /\ rank[prev[s]] < rank[s]
          BY <4>2, <4>4
        <4>6. next[s] \in [D -> D]
          BY <4>3
        <4> QED
          BY <4>5, <4>6
      <3> HIDE DEF I, rank, own, prev, next
      <3> QED
        BY <3>1, <3>2 DEF Recursion
    <2>2. PICK f \in [I -> D] : Solves(f, I, {{}}, own, prev, next)
      <3> HIDE DEF I, rank, own, prev, next
      <3> QED
        BY <2>1, RankRecursion
    <2>3. ASSUME NEW s \in I
          PROVE  f[s] = Unfolded(f)[s]
      <3>1. f[s] = IF s \in {{}} THEN own[s] ELSE next[s][f[prev[s]]]
        BY <2>2 DEF Solves
      <3>2. f[prev[s]] \in D
        OBVIOUS
      <3> QED
        BY <3>1, <3>2
    <2>4. f = Unfolded(f)
      BY <2>3
    <2> QED
      BY <2>4
  <1>2. Out = Unfolded(Out)
    BY <1>1
  <1>3. ReadAll(step, start, text) = Out[DOMAIN text]
    BY <1>0 DEF ReadAll, FoldLeft, MapThenFoldSet
  <1> DEFINE read == [i \in 0 .. n |-> Out[1 .. i]]
  <1> HIDE DEF Out
  <1>4. read[0] = start /\ \A i \in 1 .. n : read[i] = step[read[i - 1]][text[i]]
    <2>1. \A i \in 0 .. n : read[i] = Out[1 .. i]
      OBVIOUS
    <2>2. Out[{}] = start
      BY <1>2
    <2>3. read[0] = start
      <3>1. 0 \in 0 .. n /\ 1 .. 0 = {}
        OBVIOUS
      <3> QED
        BY <2>1, <2>2, <3>1
    <2> HIDE DEF read
    <2>4. ASSUME NEW i \in 1 .. n
          PROVE  read[i] = step[read[i - 1]][text[i]]
      <3>1. i \in Nat /\ i \in 1 .. i /\ 1 .. i \in I
        <4>1. \A j \in 1 .. i : j \in 1 .. n
          OBVIOUS
        <4> QED
          BY <4>1
      <3>2. Max(1 .. i) = i
        <4> DEFINE s == 1 .. i
        <4>1. s # {} /\ s \in SUBSET (1 .. n)
          BY <3>1
        <4> HIDE DEF s
        <4>2. Max(s) \in s /\ \A x \in s : Max(s) >= x
          BY <4>1, MaxIn
        <4>3. Max(s) \in 1 .. i /\ Max(s) >= i
          BY <3>1, <4>2 DEF s
        <4>4. Max(s) = i
          BY <4>3
        <4> QED
          BY <4>4 DEF s
      <3>3. (1 .. i) \ {i} = 1 .. i - 1 /\ 1 .. i # {}
        <4>1. \A j : j \in 1 .. i /\ j # i <=> j \in 1 .. i - 1
          BY <3>1
        <4> QED
          BY <3>1, <4>1
      <3>4. Out[1 .. i] = step[Out[(1 .. i) \ {Max(1 .. i)}]][text[Max(1 .. i)]]
        BY <1>2, <3>1, <3>3
      <3>5. read[i] = Out[1 .. i] /\ read[i - 1] = Out[1 .. i - 1]
        <4>1. i \in 0 .. n /\ i - 1 \in 0 .. n
          OBVIOUS
        <4> QED
          BY <2>1, <4>1
      <3> QED
        BY <3>2, <3>3, <3>4, <3>5
    <2> QED
      BY <2>3, <2>4
  <1>5. read \in [0 .. n -> D]
    <2> DEFINE P == {i \in 0 .. n : read[i] \in D}
    <2>1. ASSUME NEW i \in 0 .. n, \A j \in 0 .. n : j < i => j \in P
          PROVE  i \in P
      <3>1. CASE i = 0
        BY <1>4, <3>1
      <3>2. CASE i # 0
        <4>1. i \in 1 .. n /\ i - 1 \in P
          BY <1>0, <2>1, <3>2
        <4>2. read[i] = step[read[i - 1]][text[i]] /\ text[i] \in C
          BY <1>0, <1>4, <4>1
        <4> HIDE DEF read
        <4> QED
          BY <4>1, <4>2
      <3> QED
        BY <3>1, <3>2
    <2> HIDE DEF P
    <2>2. 0 .. n \subseteq P
      BY <1>0, <2>1, IntervalInduction
    <2> QED
      BY <2>2 DEF P
  <1>6. ReadAll(step, start, text) = read[n]
    <2>1. n \in 0 .. n
      OBVIOUS
    <2> QED
      BY <1>0, <1>3, <2>1
  <1> HIDE DEF read
  <1> QED
    BY <1>0, <1>4, <1>5, <1>6 DEF Reads

\* Two functions that go the same way step by step agree.
GoTogether(n, f, g) ==
    n \in Nat /\ f[0] = g[0] /\ \A i \in 1 .. n : f[i - 1] = g[i - 1] => f[i] = g[i]

LEMMA Stepwise ==
    ASSUME NEW n, NEW f, NEW g, GoTogether(n, f, g)
    PROVE  \A i \in 0 .. n : f[i] = g[i]
  <1> USE DEF GoTogether
  <1> DEFINE P == {i \in 0 .. n : f[i] = g[i]}
  <1>1. ASSUME NEW i \in 0 .. n, \A j \in 0 .. n : j < i => j \in P
        PROVE  i \in P
    <2>1. CASE i = 0
      BY <2>1
    <2>2. CASE i # 0
      <3>1. i \in 1 .. n /\ i - 1 \in 0 .. n /\ i - 1 < i
        BY <2>2
      <3>2. f[i - 1] = g[i - 1]
        BY <1>1, <3>1
      <3> QED
        BY <3>1, <3>2
    <2> QED
      BY <2>1, <2>2
  <1> HIDE DEF P
  <1>2. 0 .. n \subseteq P
    BY <1>1, IntervalInduction
  <1> QED
    BY <1>2 DEF P

\* Reading nothing, and reading on.
LEMMA ReadAllEmpty ==
    ASSUME NEW D, NEW C, NEW step, NEW start, Loop(D, C, step, start, <<>>)
    PROVE  ReadAll(step, start, <<>>) = start
  <1> DEFINE text == <<>>
  <1>1. Loop(D, C, step, start, text) /\ Len(text) = 0
    BY DEF Loop
  <1> HIDE DEF text
  <1>2. PICK read : Reads(read, D, step, start, text)
    BY <1>1, ReadAllReads
  <1>3. ReadAll(step, start, text) = start
    BY <1>1, <1>2 DEF Reads
  <1> QED
    BY <1>3 DEF text

LEMMA ReadAllConcat ==
    ASSUME NEW D, NEW C, NEW step, NEW start, NEW s, NEW t,
           Loop(D, C, step, start, s), Loop(D, C, step, start, t)
    PROVE  /\ ReadAll(step, start, s) \in D
           /\ ReadAll(step, start, s \o t) = ReadAll(step, ReadAll(step, start, s), t)
  <1> USE DEF Loop
  <1> DEFINE then == ReadAll(step, start, s)
             both == s \o t
             m == Len(s)
             n == Len(t)
  <1>1. PICK first : Reads(first, D, step, start, s)
    <2>1. Loop(D, C, step, start, s)
      BY DEF Loop
    <2> HIDE DEF m, n, both
    <2> QED
      BY <2>1, ReadAllReads DEF m
  <1>2. m \in Nat /\ n \in Nat /\ then \in D
    <2>1. m \in Nat /\ n \in Nat
      OBVIOUS
    <2>2. first[m] \in D /\ then = first[m]
      <3>1. first \in [0 .. m -> D] /\ then = first[m]
        BY <1>1 DEF Reads
      <3>2. m \in 0 .. m
        BY <2>1
      <3> HIDE DEF m
      <3> QED
        BY <3>1, <3>2
    <2> QED
      BY <2>1, <2>2
  <1>3. PICK second : Reads(second, D, step, then, t)
    <2> HIDE DEF then
    <2>1. Loop(D, C, step, then, t)
      BY <1>2 DEF Loop
    <2> QED
      BY <2>1, ReadAllReads
  <1>4. both \in Seq(C) /\ Len(both) = m + n
    OBVIOUS
  <1>5. /\ \A i \in 1 .. m : both[i] = s[i]
        /\ \A i \in 1 .. n : both[m + i] = t[i]
    OBVIOUS
  <1> HIDE DEF then, both
  <1>6. PICK read : Reads(read, D, step, start, both)
    <2>1. Loop(D, C, step, start, both)
      BY <1>4 DEF Loop
    <2> QED
      BY <1>4, <2>1, ReadAllReads
  <1>7. \A i \in 0 .. m : read[i] = first[i]
    <2>1. read[0] = first[0]
      BY <1>1, <1>6 DEF Reads
    <2>2. ASSUME NEW i \in 1 .. m, read[i - 1] = first[i - 1]
          PROVE  read[i] = first[i]
      <3>1. first[i] = step[first[i - 1]][s[i]]
        BY <1>1 DEF Reads
      <3>2. i \in 1 .. Len(both)
        BY <1>2, <1>4
      <3>3. read[i] = step[read[i - 1]][both[i]]
        BY <1>6, <3>2 DEF Reads
      <3> QED
        BY <1>5, <2>2, <3>1, <3>3
    <2> HIDE DEF m, n
    <2>3. GoTogether(m, read, first)
      BY <1>2, <2>1, <2>2 DEF GoTogether
    <2> QED
      BY <2>3, Stepwise
  <1>8. \A i \in 0 .. n : read[m + i] = second[i]
    <2> DEFINE rest == [i \in 0 .. n |-> read[m + i]]
    <2>1. rest[0] = second[0]
      <3>1. rest[0] = read[m]
        BY <1>2
      <3> QED
        <4>1. read[m] = first[m]
          BY <1>2, <1>7
        <4>2. then = first[m] /\ second[0] = then
          BY <1>1, <1>3 DEF Reads, then
        <4> QED
          BY <3>1, <4>1, <4>2
    <2>2. ASSUME NEW i \in 1 .. n, rest[i - 1] = second[i - 1]
          PROVE  rest[i] = second[i]
      <3>1. rest[i] = read[m + i] /\ rest[i - 1] = read[m + i - 1] /\ m + i \in 1 .. m + n
        BY <1>2
      <3>2. read[m + i] = step[read[m + i - 1]][both[m + i]]
        <4>1. m + i \in 1 .. Len(both)
          BY <1>4, <3>1
        <4> QED
          BY <1>6, <4>1 DEF Reads
      <3>3. second[i] = step[second[i - 1]][t[i]]
        BY <1>3 DEF Reads
      <3> QED
        BY <1>5, <2>2, <3>1, <3>2, <3>3
    <2> HIDE DEF m, n, rest
    <2>3. GoTogether(n, rest, second)
      BY <1>2, <2>1, <2>2 DEF GoTogether
    <2>4. \A i \in 0 .. n : rest[i] = second[i]
      BY <2>3, Stepwise
    <2> QED
      BY <2>4 DEF rest
  <1>9. ReadAll(step, start, both) = ReadAll(step, then, t)
    <2>1. read[m + n] = second[n]
      <3>1. n \in 0 .. n
        BY <1>2
      <3> QED
        BY <1>8, <3>1
    <2> QED
      BY <1>3, <1>4, <1>6, <2>1 DEF Reads
  <1> QED
    BY <1>2, <1>9 DEF then, both

LEMMA ReadAllOne ==
    ASSUME NEW D, NEW C, NEW step, NEW start, NEW c, Loop(D, C, step, start, <<c>>)
    PROVE  ReadAll(step, start, <<c>>) = step[start][c]
  <1> DEFINE text == <<c>>
  <1>1. Loop(D, C, step, start, text) /\ Len(text) = 1 /\ text[1] = c
    BY DEF Loop
  <1> HIDE DEF text
  <1>2. PICK read : Reads(read, D, step, start, text)
    BY <1>1, ReadAllReads
  <1>3. read[0] = start /\ read[1] = step[read[0]][text[1]]
    BY <1>1, <1>2 DEF Reads
  <1>4. ReadAll(step, start, text) = step[start][c]
    BY <1>1, <1>2, <1>3 DEF Reads
  <1> QED
    BY <1>4 DEF text

LEMMA ReadAllSnoc ==
    ASSUME NEW D, NEW C, NEW step, NEW start, NEW s, Loop(D, C, step, start, s), NEW c \in C
    PROVE  /\ ReadAll(step, start, s) \in D
           /\ ReadAll(step, start, s \o <<c>>) = step[ReadAll(step, start, s)][c]
  <1> DEFINE one == <<c>>
             then == ReadAll(step, start, s)
  <1>1. Loop(D, C, step, start, one)
    BY DEF Loop
  <1> HIDE DEF one
  <1>2. then \in D /\ ReadAll(step, start, s \o one) = ReadAll(step, then, one)
    BY <1>1, ReadAllConcat
  <1> HIDE DEF then
  <1>3. ReadAll(step, then, one) = step[then][c]
    <2>1. Loop(D, C, step, then, one)
      BY <1>1, <1>2 DEF Loop
    <2> QED
      BY <2>1, ReadAllOne DEF one
  <1> QED
    BY <1>2, <1>3 DEF one, then

-----------------------------------------------------------------------------
(* Letters.                                                                *)

LEMMA AlphabeticUnfolds ==
    /\ ToAlphabetic \in [Nat -> Seq(Int)]
    /\ \A n \in Nat :
          ToAlphabetic[n] =
              IF n = 0 THEN <<>> ELSE ToAlphabetic[(n - 1) \div Letters] \o <<(n - 1) % Letters>>
  <1> DEFINE D == Seq(Int)
             Unfolded(f) ==
                 [n \in Nat |-> IF n = 0 THEN <<>> ELSE f[(n - 1) \div Letters] \o <<(n - 1) % Letters>>]
             phi == [f \in [Nat -> D] |-> Unfolded(f)]
             rank == [n \in Nat |-> n]
  <1>1. \A n \in Nat : n # 0 =>
           (n - 1) \div Letters \in Nat /\ (n - 1) \div Letters < n /\ (n - 1) % Letters \in Int
    BY LettersAssumption
  <1>2. ASSUME NEW n \in Nat, NEW text \in D
        PROVE  text \o <<(n - 1) % Letters>> \in D
    BY LettersAssumption
  <1>3. Decided(phi, Nat, rank, D)
    <2>1. rank \in [Nat -> Nat] /\ phi \in [[Nat -> D] -> [Nat -> D]]
      <3>1. ASSUME NEW f \in [Nat -> D]
            PROVE  Unfolded(f) \in [Nat -> D]
        <4>1. ASSUME NEW n \in Nat
              PROVE  (IF n = 0 THEN <<>> ELSE f[(n - 1) \div Letters] \o <<(n - 1) % Letters>>) \in D
          <5>1. CASE n = 0
            BY <5>1
          <5>2. CASE n # 0
            <6>1. f[(n - 1) \div Letters] \in D
              BY <1>1, <5>2
            <6> HIDE DEF D
            <6> QED
              BY <1>2, <5>2, <6>1
          <5> QED
            BY <5>1, <5>2
        <4> HIDE DEF D
        <4> QED
          BY <4>1
      <3> QED
        BY <3>1
    <2>2. ASSUME NEW g \in [Nat -> D], NEW h \in [Nat -> D], NEW n \in Nat,
                 \A m \in Nat : rank[m] < rank[n] => g[m] = h[m]
          PROVE  phi[g][n] = phi[h][n]
      <3>1. n # 0 => g[(n - 1) \div Letters] = h[(n - 1) \div Letters]
        BY <1>1, <2>2
      <3> QED
        BY <3>1
    <2> HIDE DEF phi, rank, D
    <2> QED
      BY <2>1, <2>2 DEF Decided
  <1>4. <<>> \in D
    OBVIOUS
  <1>5. PICK f \in [Nat -> D] : f = phi[f]
    <2> HIDE DEF phi, rank, D
    <2> QED
      BY <1>3, <1>4, DecidedRecursion
  <1>6. \E g : g = Unfolded(g)
    BY <1>5
  <1>7. ToAlphabetic = Unfolded(ToAlphabetic)
    BY <1>6 DEF ToAlphabetic
  <1> DEFINE S == {n \in Nat : ToAlphabetic[n] \in D}
  <1>8. ASSUME NEW n \in Nat, 0 .. n - 1 \subseteq S
        PROVE  n \in S
    <2>1. CASE n = 0
      BY <1>7, <2>1
    <2>2. CASE n # 0
      <3>1. (n - 1) \div Letters \in S
        <4> DEFINE k == (n - 1) \div Letters
        <4>1. k \in Nat /\ k < n
          BY <1>1, <2>2
        <4> HIDE DEF k, S
        <4>2. k \in 0 .. n - 1
          BY <4>1
        <4> QED
          BY <1>8, <4>2 DEF k
      <3>2. ToAlphabetic[n] = ToAlphabetic[(n - 1) \div Letters] \o <<(n - 1) % Letters>>
        BY <1>7, <2>2
      <3> QED
        BY <1>2, <3>1, <3>2
    <2> QED
      BY <2>1, <2>2
  <1> HIDE DEF S
  <1>9. Nat \subseteq S
    BY <1>8, NatSetInduction
  <1>10. \A n \in Nat : ToAlphabetic[n] \in D
    BY <1>9 DEF S
  <1> QED
    BY <1>7, <1>10

\* Letters are read back as the number they were written for.
THEOREM LettersReadBack ==
    ASSUME NEW n \in Nat
    PROVE  FromAlphabetic(ToAlphabetic[n]) = n
  <1> DEFINE S == {m \in Nat : ReadAll(Letter, 0, ToAlphabetic[m]) = m}
  <1>1. Letter \in [Int -> [Int -> Int]] /\ \A m, l \in Int : Letter[m][l] = m * Letters + l + 1
    BY LettersAssumption DEF Letter
  <1>2. ASSUME NEW m \in Nat, 0 .. m - 1 \subseteq S
        PROVE  m \in S
    <2>1. CASE m = 0
      <3>1. ToAlphabetic[m] = <<>>
        BY <2>1, AlphabeticUnfolds
      <3>2. Loop(Int, Int, Letter, 0, <<>>)
        BY <1>1 DEF Loop
      <3>3. ReadAll(Letter, 0, <<>>) = 0
        BY <3>2, ReadAllEmpty
      <3> QED
        BY <2>1, <3>1, <3>3
    <2>2. CASE m # 0
      <3> DEFINE k == (m - 1) \div Letters
                 l == (m - 1) % Letters
      <3>1. k \in 0 .. m - 1 /\ l \in Int /\ k * Letters + l + 1 = m
        BY <2>2, LettersAssumption
      <3> HIDE DEF k, l
      <3>2. ToAlphabetic[m] = ToAlphabetic[k] \o <<l>> /\ ToAlphabetic[k] \in Seq(Int)
        <4>1. ToAlphabetic[m] = ToAlphabetic[(m - 1) \div Letters] \o <<(m - 1) % Letters>>
          BY <2>2, AlphabeticUnfolds
        <4>2. k \in Nat
          BY <3>1
        <4> QED
          BY <4>1, <4>2, AlphabeticUnfolds DEF k, l
      <3>3. Loop(Int, Int, Letter, 0, ToAlphabetic[k])
        <4> DEFINE text == ToAlphabetic[k]
        <4>1. text \in Seq(Int) /\ Letter \in [Int -> [Int -> Int]]
          BY <1>1, <3>2
        <4> HIDE DEF text, S
        <4>2. Loop(Int, Int, Letter, 0, text)
          BY <4>1, 0 \in Int, Zenon DEF Loop
        <4> QED
          BY <4>2 DEF text
      <3>4. ReadAll(Letter, 0, ToAlphabetic[m]) = Letter[ReadAll(Letter, 0, ToAlphabetic[k])][l]
        BY <3>1, <3>2, <3>3, ReadAllSnoc
      <3>5. ReadAll(Letter, 0, ToAlphabetic[k]) = k /\ k \in Int
        BY <1>2, <3>1
      <3> QED
        BY <1>1, <3>1, <3>4, <3>5
    <2> QED
      BY <2>1, <2>2
  <1> HIDE DEF S
  <1>3. Nat \subseteq S
    BY <1>2, NatSetInduction
  <1> QED
    BY <1>3 DEF S, FromAlphabetic

-----------------------------------------------------------------------------
(* Digits.                                                                 *)

LEMMA DecimalUnfolds ==
    \A n \in Nat :
        /\ Decimal[n] \in Seq(Int) /\ Decimal[n] # <<>>
        /\ Decimal[n] = IF n < 10 THEN <<n>> ELSE Decimal[n \div 10] \o <<n % 10>>
  <1> DEFINE D == Seq(Int) \ {<<>>}
             Unfolded(f) == [n \in Nat |-> IF n < 10 THEN <<n>> ELSE f[n \div 10] \o <<n % 10>>]
             phi == [f \in [Nat -> D] |-> Unfolded(f)]
             rank == [n \in Nat |-> n]
  <1>1. \A n \in Nat : ~(n < 10) => n \div 10 \in 0 .. n - 1 /\ n % 10 \in Int
    OBVIOUS
  <1>2. ASSUME NEW n \in Nat, NEW text \in D
        PROVE  text \o <<n % 10>> \in D
    <2>1. text \o <<n % 10>> \in Seq(Int) /\ Len(text \o <<n % 10>>) = Len(text) + 1 /\ Len(text) \in Nat
      OBVIOUS
    <2> QED
      BY <2>1
  <1>3. \A n \in Nat : n < 10 => <<n>> \in D
    OBVIOUS
  <1>4. Decided(phi, Nat, rank, D)
    <2>1. rank \in [Nat -> Nat] /\ phi \in [[Nat -> D] -> [Nat -> D]]
      <3>1. ASSUME NEW f \in [Nat -> D]
            PROVE  Unfolded(f) \in [Nat -> D]
        <4>1. ASSUME NEW n \in Nat
              PROVE  (IF n < 10 THEN <<n>> ELSE f[n \div 10] \o <<n % 10>>) \in D
          <5>1. CASE n < 10
            BY <1>3, <5>1
          <5>2. CASE ~(n < 10)
            <6>1. f[n \div 10] \in D
              BY <1>1, <5>2
            <6> HIDE DEF D
            <6> QED
              BY <1>2, <5>2, <6>1
          <5> QED
            BY <5>1, <5>2
        <4> HIDE DEF D
        <4> QED
          BY <4>1
      <3> QED
        BY <3>1
    <2>2. ASSUME NEW g \in [Nat -> D], NEW h \in [Nat -> D], NEW n \in Nat,
                 \A m \in Nat : rank[m] < rank[n] => g[m] = h[m]
          PROVE  phi[g][n] = phi[h][n]
      <3>1. ~(n < 10) => g[n \div 10] = h[n \div 10]
        BY <1>1, <2>2
      <3> QED
        BY <3>1
    <2> HIDE DEF phi, rank, D
    <2> QED
      BY <2>1, <2>2 DEF Decided
  <1>5. PICK f \in [Nat -> D] : f = phi[f]
    <2>1. <<0>> \in D
      BY <1>3
    <2> HIDE DEF phi, rank, D
    <2> QED
      BY <1>4, <2>1, DecidedRecursion
  <1>6. \E g : g = Unfolded(g)
    BY <1>5
  <1>7. Decimal = Unfolded(Decimal)
    BY <1>6 DEF Decimal
  <1> DEFINE S == {n \in Nat : Decimal[n] \in D}
  <1>8. ASSUME NEW n \in Nat, 0 .. n - 1 \subseteq S
        PROVE  n \in S
    <2>1. CASE n < 10
      BY <1>3, <1>7, <2>1
    <2>2. CASE ~(n < 10)
      <3>1. n \div 10 \in S
        BY <1>1, <1>8, <2>2
      <3>2. Decimal[n] = Decimal[n \div 10] \o <<n % 10>>
        BY <1>7, <2>2
      <3> HIDE DEF D
      <3> QED
        BY <1>2, <3>1, <3>2
    <2> QED
      BY <2>1, <2>2
  <1> HIDE DEF S
  <1>9. Nat \subseteq S
    BY <1>8, NatSetInduction
  <1>10. \A n \in Nat : Decimal[n] \in D
    BY <1>9 DEF S
  <1> QED
    BY <1>7, <1>10

\* The value of digits, the first the highest.
Tens == [acc \in Int |-> [d \in Int |-> acc * 10 + d]]

LEMMA DecimalReadBack ==
    ASSUME NEW n \in Nat
    PROVE  ReadAll(Tens, 0, Decimal[n]) = n
  <1> DEFINE S == {m \in Nat : ReadAll(Tens, 0, Decimal[m]) = m}
  <1>1. Tens \in [Int -> [Int -> Int]] /\ \A m, l \in Int : Tens[m][l] = m * 10 + l
    BY DEF Tens
  <1>2. ASSUME NEW m \in Nat, 0 .. m - 1 \subseteq S
        PROVE  m \in S
    <2>1. CASE m < 10
      <3>1. Decimal[m] = <<m>>
        BY <2>1, DecimalUnfolds
      <3>2. Loop(Int, Int, Tens, 0, <<m>>)
        <4>1. <<m>> \in Seq(Int)
          OBVIOUS
        <4> QED
          BY <1>1, <4>1, 0 \in Int, Zenon DEF Loop
      <3>3. ReadAll(Tens, 0, <<m>>) = Tens[0][m]
        BY <3>2, ReadAllOne
      <3>4. Tens[0][m] = m
        <4>1. Tens[0][m] = 0 * 10 + m
          BY m \in Int DEF Tens
        <4> HIDE DEF S
        <4> QED
          BY <4>1
      <3> QED
        BY <3>1, <3>3, <3>4
    <2>2. CASE ~(m < 10)
      <3> DEFINE k == m \div 10
                 l == m % 10
                 text == Decimal[k]
      <3>1. k \in 0 .. m - 1 /\ l \in Int /\ k * 10 + l = m
        BY <2>2
      <3> HIDE DEF k, l
      <3>2. text \in Seq(Int) /\ Decimal[m] = text \o <<l>>
        <4>1. k \in Nat
          BY <3>1
        <4>2. Decimal[m] = Decimal[m \div 10] \o <<m % 10>>
          BY <2>2, DecimalUnfolds
        <4> QED
          BY <4>1, <4>2, DecimalUnfolds DEF k, l
      <3> HIDE DEF text
      <3>3. Loop(Int, Int, Tens, 0, text)
        BY <1>1, <3>2, 0 \in Int, Zenon DEF Loop
      <3>4. ReadAll(Tens, 0, Decimal[m]) = Tens[ReadAll(Tens, 0, text)][l]
        BY <3>1, <3>2, <3>3, ReadAllSnoc
      <3>5. ReadAll(Tens, 0, text) = k /\ k \in Int
        BY <1>2, <3>1 DEF text
      <3> QED
        BY <1>1, <3>1, <3>4, <3>5
    <2> QED
      BY <2>1, <2>2
  <1> HIDE DEF S
  <1>3. Nat \subseteq S
    BY <1>2, NatSetInduction
  <1> QED
    BY <1>3 DEF S

\* Zeros in front change nothing.
LEMMA PaddingReadBack ==
    ASSUME NEW n \in Nat, NEW k \in Nat
    PROVE  LET padded == [i \in 1 .. k |-> 0] \o Decimal[n]
           IN  padded \in Seq(Int) /\ padded # <<>> /\ ReadAll(Tens, 0, padded) = n
  <1> DEFINE zeros == [i \in 1 .. k |-> 0]
             text == Decimal[n]
  <1>1. zeros \in Seq(Int) /\ Len(zeros) = k /\ \A i \in 1 .. k : zeros[i] = 0
    OBVIOUS
  <1>2. text \in Seq(Int) /\ text # <<>> /\ ReadAll(Tens, 0, text) = n
    BY DecimalUnfolds, DecimalReadBack
  <1> HIDE DEF zeros, text
  <1>3. Tens \in [Int -> [Int -> Int]] /\ Tens[0][0] = 0
    BY DEF Tens
  <1>4. Loop(Int, Int, Tens, 0, zeros) /\ Loop(Int, Int, Tens, 0, text)
    BY <1>1, <1>2, <1>3, 0 \in Int, Zenon DEF Loop
  <1>5. ReadAll(Tens, 0, zeros) = 0
    <2>1. PICK read : Reads(read, Int, Tens, 0, zeros)
      BY <1>4, ReadAllReads
    <2> DEFINE none == [i \in 0 .. k |-> 0]
    <2>2. GoTogether(k, read, none)
      <3>1. read[0] = none[0] /\ \A i \in 1 .. k : read[i] = Tens[read[i - 1]][zeros[i]]
        BY <1>1, <2>1 DEF Reads
      <3>2. \A i \in 1 .. k : i \in 0 .. k /\ i - 1 \in 0 .. k
        OBVIOUS
      <3>3. ASSUME NEW i \in 1 .. k, read[i - 1] = none[i - 1]
            PROVE  read[i] = none[i]
        BY <1>1, <1>3, <3>1, <3>2, <3>3
      <3> HIDE DEF none
      <3> QED
        BY <3>1, <3>3 DEF GoTogether
    <2>3. k \in 0 .. k /\ none[k] = 0
      OBVIOUS
    <2> HIDE DEF none
    <2>4. read[k] = none[k]
      BY <2>2, <2>3, Stepwise
    <2> QED
      BY <1>1, <2>1, <2>3, <2>4 DEF Reads
  <1>6. ReadAll(Tens, 0, zeros \o text) = n
    BY <1>2, <1>4, <1>5, ReadAllConcat
  <1>7. zeros \o text \in Seq(Int) /\ zeros \o text # <<>>
    <2>1. /\ zeros \o text \in Seq(Int)
          /\ Len(zeros \o text) = Len(zeros) + Len(text) /\ Len(text) > 0 /\ Len(zeros) \in Nat
      BY <1>1, <1>2
    <2> QED
      BY <2>1
  <1> QED
    BY <1>6, <1>7 DEF zeros, text

\* What stands between two digits is nothing, or a symbol of the picture that is
\* no digit.
LEMMA SeparatorOfPicture ==
    ASSUME NEW picture \in Seq(STRING), NEW at \in Int
    PROVE  \/ SeparatorAt(picture, at) = <<>>
           \/ \E i \in DOMAIN picture \ Places(picture) : SeparatorAt(picture, at) = <<<<picture[i], 0>>>>
  <1> DEFINE seps == Separators(picture)
             own == {i \in seps : After(picture, i) = at}
  <1>1. PICK n \in Nat : DOMAIN picture = 1 .. n
    OBVIOUS
  <1>2. seps \subseteq DOMAIN picture \ Places(picture)
    BY DEF Separators
  <1>3. seps \subseteq 1 .. n /\ seps \subseteq Nat
    BY <1>1, <1>2
  <1>4. CASE own # {}
    <2>1. Min(own) \in own
      <3> HIDE DEF seps
      <3> QED
        BY <1>3, <1>4, MinIn
    <2>2. SeparatorAt(picture, at) = <<<<picture[Min(own)], 0>>>>
      BY <1>4 DEF SeparatorAt
    <2> HIDE DEF seps
    <2> QED
      BY <1>2, <2>1, <2>2
  <1>5. CASE own = {} /\ Repeats(picture) /\ at % After(picture, Max(seps)) = 0
    <2>1. seps # {}
      <3>1. Cardinality({picture[i] : i \in seps}) = 1
        BY <1>5 DEF Repeats
      <3> HIDE DEF seps
      <3>2. ASSUME seps = {} PROVE FALSE
        <4> DEFINE none == {picture[i] : i \in seps}
        <4>1. none = {}
          BY <3>2
        <4>2. Cardinality(none) = 1
          BY <3>1
        <4> HIDE DEF none
        <4>3. Cardinality({}) = 0
          BY FS_EmptySet
        <4> QED
          BY <4>1, <4>2, <4>3
      <3> QED
        BY <3>2
    <2>2. Max(seps) \in seps
      <3> HIDE DEF seps
      <3> QED
        BY <1>3, <2>1, MaxIn
    <2>3. SeparatorAt(picture, at) = <<<<picture[Max(seps)], 0>>>>
      BY <1>5 DEF SeparatorAt
    <2> HIDE DEF seps
    <2> QED
      BY <1>2, <2>2, <2>3
  <1>6. CASE ~(own # {}) /\ ~(own = {} /\ Repeats(picture) /\ at % After(picture, Max(seps)) = 0)
    <2>1. SeparatorAt(picture, at) = <<>>
      BY <1>6 DEF SeparatorAt
    <2> QED
      BY <2>1
  <1> QED
    BY <1>4, <1>5, <1>6

\* What is before a digit, and the text up to each digit.
Gap(picture, size, i) == IF i = 1 THEN <<>> ELSE SeparatorAt(picture, size - i + 1)
Groups(grouped, digits, family, picture) ==
    /\ grouped[0] = <<>>
    /\ \A i \in 1 .. Len(digits) :
          grouped[i] = grouped[i - 1] \o Gap(picture, Len(digits), i) \o <<<<family, digits[i]>>>>


LEMMA GapOfPicture ==
    ASSUME NEW picture \in Seq(STRING), NEW size \in Nat, NEW i \in 1 .. size
    PROVE  \/ Gap(picture, size, i) = <<>>
           \/ \E c \in ToSet(picture) \X Int :
                  c[1] \notin Families /\ Gap(picture, size, i) = <<c>>
  <1>1. CASE i = 1
    BY <1>1 DEF Gap
  <1>2. CASE i # 1
    <2>1. size - i + 1 \in Int /\ Gap(picture, size, i) = SeparatorAt(picture, size - i + 1)
      BY <1>2 DEF Gap
    <2>2. ASSUME NEW j \in DOMAIN picture \ Places(picture),
                 SeparatorAt(picture, size - i + 1) = <<<<picture[j], 0>>>>
          PROVE  \E c \in ToSet(picture) \X Int :
                    c[1] \notin Families /\ Gap(picture, size, i) = <<c>>
      <3> DEFINE c == <<picture[j], 0>>
      <3>1. c \in ToSet(picture) \X Int /\ c[1] = picture[j]
        BY DEF ToSet
      <3>2. picture[j] \notin Families
        BY DEF Places
      <3>3. Gap(picture, size, i) = <<c>>
        BY <2>1, <2>2
      <3> HIDE DEF c
      <3> QED
        BY <3>1, <3>2, <3>3
    <2> QED
      BY <2>1, <2>2, SeparatorOfPicture
  <1> QED
    BY <1>1, <1>2

LEMMA GroupedUnfolds ==
    ASSUME NEW digits \in Seq(Int), NEW picture \in Seq(STRING), NEW family \in ToSet(picture)
    PROVE  \E grouped : /\ Groups(grouped, digits, family, picture)
                        /\ Grouped(digits, family, picture) = grouped[Len(digits)]
  <1>1. PICK n \in Nat : n = Len(digits) /\ \A i \in 1 .. n : digits[i] \in Int
    OBVIOUS
  <1> DEFINE I == 0 .. n
             D == Seq(ToSet(picture) \X Int)
             Unfolded(f) ==
                 [i \in I |-> IF i = 0 THEN <<>>
                              ELSE f[i - 1] \o (IF i = 1 THEN <<>> ELSE SeparatorAt(picture, n - i + 1))
                                      \o <<<<family, digits[i]>>>>]
             At == CHOOSE f : f = Unfolded(f)
  <1>2. ASSUME NEW i \in 1 .. n, NEW text \in D
        PROVE  text \o Gap(picture, n, i) \o <<<<family, digits[i]>>>> \in D
    <2>1. <<<<family, digits[i]>>>> \in D
      BY <1>1
    <2>2. Gap(picture, n, i) \in D
      <3>1. <<>> \in D /\ \A c \in ToSet(picture) \X Int : <<c>> \in D
        OBVIOUS
      <3>2. \/ Gap(picture, n, i) = <<>>
            \/ \E c \in ToSet(picture) \X Int : Gap(picture, n, i) = <<c>>
        <4>1. n \in Nat
          BY <1>1
        <4> QED
          BY <4>1, GapOfPicture
      <3> HIDE DEF D
      <3> QED
        BY <3>1, <3>2
    <2>3. \A s, t \in D : s \o t \in D
      OBVIOUS
    <2> HIDE DEF D
    <2> QED
      BY <2>1, <2>2, <2>3
  <1>3. \E f : f = Unfolded(f)
    <2> DEFINE rank == [i \in I |-> i]
               own == [i \in I |-> <<>>]
               prev == [i \in I |-> i - 1]
               step == [i \in I |-> [text \in D |-> text \o Gap(picture, n, i) \o <<<<family, digits[i]>>>>]]
    <2>1. Recursion(I, n, rank, D, {0}, own, prev, step)
      <3>1. n \in Nat /\ rank \in [I -> 0 .. n] /\ own \in [I -> D]
        OBVIOUS
      <3>2. ASSUME NEW i \in I \ {0}
            PROVE  prev[i] \in I /\ rank[prev[i]] < rank[i] /\ step[i] \in [D -> D]
        <4>1. i \in 1 .. n /\ prev[i] \in I /\ rank[prev[i]] < rank[i]
          OBVIOUS
        <4>2. \A text \in D : text \o Gap(picture, n, i) \o <<<<family, digits[i]>>>> \in D
          <5> HIDE DEF D
          <5> QED
            BY <1>2, <4>1
        <4> HIDE DEF D
        <4>3. step[i] \in [D -> D]
          BY <4>2
        <4> QED
          BY <4>1, <4>3
      <3> HIDE DEF I, D, rank, own, prev, step
      <3> QED
        BY <3>1, <3>2 DEF Recursion
    <2>2. PICK f \in [I -> D] : Solves(f, I, {0}, own, prev, step)
      <3> HIDE DEF I, D, rank, own, prev, step
      <3> QED
        BY <2>1, RankRecursion
    <2>3. ASSUME NEW i \in I
          PROVE  f[i] = Unfolded(f)[i]
      <3>1. f[i] = IF i \in {0} THEN own[i] ELSE step[i][f[prev[i]]]
        BY <2>2 DEF Solves
      <3>2. CASE i = 0
        BY <3>1, <3>2
      <3>3. CASE i # 0
        <4>1. i - 1 \in I
          BY <3>3
        <4>2. f[i - 1] \in D
          BY <2>2, <4>1
        <4>3. f[i] = f[i - 1] \o Gap(picture, n, i) \o <<<<family, digits[i]>>>>
          <5> HIDE DEF D
          <5> QED
            BY <3>1, <3>3, <4>2
        <4> QED
          BY <3>3, <4>3 DEF Gap
      <3> QED
        BY <3>2, <3>3
    <2> HIDE DEF D
    <2>4. f = Unfolded(f)
      BY <2>2, <2>3
    <2> QED
      BY <2>4
  <1>4. At = Unfolded(At)
    BY <1>3
  <1>5. Grouped(digits, family, picture) = At[n]
    BY <1>1 DEF Grouped
  <1> HIDE DEF At
  <1>6. Groups(At, digits, family, picture)
    <2>1. At[0] = <<>>
      BY <1>4
    <2>2. ASSUME NEW i \in 1 .. n
          PROVE  At[i] = At[i - 1] \o Gap(picture, n, i) \o <<<<family, digits[i]>>>>
      <3>1. i \in I /\ i # 0
        BY <1>1
      <3>2. Gap(picture, n, i) = IF i = 1 THEN <<>> ELSE SeparatorAt(picture, n - i + 1)
        BY DEF Gap
      <3>3. At[i] = Unfolded(At)[i]
        BY <1>4
      <3>4. At[i] = At[i - 1] \o (IF i = 1 THEN <<>> ELSE SeparatorAt(picture, n - i + 1))
                        \o <<<<family, digits[i]>>>>
        BY <3>1, <3>3
      <3> QED
        BY <3>2, <3>4
    <2> QED
      BY <1>1, <2>1, <2>2 DEF Groups
  <1> QED
    BY <1>1, <1>5, <1>6

\* Reading one more symbol that is no digit changes nothing.
LEMMA DigitStep ==
    ASSUME NEW F \in SUBSET Families
    PROVE  /\ Digit(F) \in [Int -> [STRING \X Int -> Int]]
           /\ \A acc \in Int, c \in STRING \X Int :
                 Digit(F)[acc][c] = IF c[1] \in F THEN acc * 10 + c[2] ELSE acc
  <1>1. \A acc \in Int, c \in STRING \X Int : (IF c[1] \in F THEN acc * 10 + c[2] ELSE acc) \in Int
    OBVIOUS
  <1> QED
    BY <1>1 DEF Digit

LEMMA GroupReads ==
    ASSUME NEW F \in SUBSET Families, NEW family \in F, family \in STRING, NEW picture \in Seq(STRING),
           NEW size \in Nat, NEW i \in 1 .. size, NEW d \in Int,
           NEW text \in Seq(STRING \X Int)
    PROVE  LET more == text \o Gap(picture, size, i) \o <<<<family, d>>>>
           IN  ReadAll(Digit(F), 0, more) = ReadAll(Digit(F), 0, text) * 10 + d
  <1> DEFINE C == STRING \X Int
             step == Digit(F)
             c == <<family, d>>
             gap == Gap(picture, size, i)
             with == text \o gap
  <1>1. c \in C /\ c[1] = family /\ c[2] = d
    OBVIOUS
  <1>2. /\ step \in [Int -> [C -> Int]]
        /\ \A acc \in Int, x \in C : step[acc][x] = IF x[1] \in F THEN acc * 10 + x[2] ELSE acc
    BY DigitStep
  <1>3. with \in Seq(C) /\ ReadAll(step, 0, with) \in Int /\ ReadAll(step, 0, with) = ReadAll(step, 0, text)
    <2>0. text \in Seq(C)
      OBVIOUS
    <2>1. Loop(Int, C, step, 0, text)
      <3> HIDE DEF C, step
      <3> QED
        BY <1>2, <2>0, 0 \in Int, Zenon DEF Loop
    <2>2. CASE gap = <<>>
      <3>1. with = text
        BY <2>0, <2>2
      <3>2. ReadAll(step, 0, text) \in Int
        <4> HIDE DEF C, step, c
        <4> QED
          BY <1>1, <2>1, ReadAllSnoc
      <3> HIDE DEF with, step, C
      <3> QED
        BY <2>0, <3>1, <3>2
    <2>3. ASSUME NEW e \in ToSet(picture) \X Int, e[1] \notin Families, gap = <<e>>
          PROVE  with \in Seq(C) /\ ReadAll(step, 0, with) \in Int
                 /\ ReadAll(step, 0, with) = ReadAll(step, 0, text)
      <3>1. e \in C
        BY DEF ToSet
      <3>2. ReadAll(step, 0, text) \in Int /\ ReadAll(step, 0, text \o <<e>>) = step[ReadAll(step, 0, text)][e]
        <4> HIDE DEF C, step
        <4> QED
          BY <2>1, <3>1, ReadAllSnoc
      <3>3. step[ReadAll(step, 0, text)][e] = ReadAll(step, 0, text)
        <4>1. e[1] \notin F
          BY <2>3
        <4> HIDE DEF C, step
        <4> QED
          BY <1>2, <3>1, <3>2, <4>1
      <3>4. with = text \o <<e>>
        BY <2>3
      <3>5. text \o <<e>> \in Seq(C)
        BY <2>0, <3>1
      <3> HIDE DEF with, step, C
      <3> QED
        BY <3>2, <3>3, <3>4, <3>5
    <2> HIDE DEF with, step, C
    <2> QED
      BY <2>2, <2>3, GapOfPicture
  <1>4. ReadAll(step, 0, with \o <<c>>) = step[ReadAll(step, 0, with)][c]
    <2> HIDE DEF with, step, C, c
    <2>1. Loop(Int, C, step, 0, with)
      BY <1>2, <1>3, 0 \in Int, Zenon DEF Loop
    <2> QED
      BY <1>1, <2>1, ReadAllSnoc
  <1>5. step[ReadAll(step, 0, with)][c] = ReadAll(step, 0, with) * 10 + d
    <2>1. step[ReadAll(step, 0, with)][c] = IF c[1] \in F THEN ReadAll(step, 0, with) * 10 + c[2]
                                            ELSE ReadAll(step, 0, with)
      <3> HIDE DEF with, step, C, c
      <3> QED
        BY <1>1, <1>2, <1>3
    <2> HIDE DEF with, step
    <2> QED
      BY <1>1, <2>1
  <1> HIDE DEF step
  <1>6. ReadAll(step, 0, with \o <<c>>) = ReadAll(step, 0, text) * 10 + d
    BY <1>3, <1>4, <1>5
  <1> QED
    BY <1>6 DEF step

\* Grouped digits are read as the digits they are.
LEMMA GroupedReads ==
    ASSUME NEW digits \in Seq(Int), digits # <<>>, NEW picture \in Seq(STRING),
           NEW F \in SUBSET Families, NEW family \in F, family \in ToSet(picture)
    PROVE  LET text == Grouped(digits, family, picture)
           IN  /\ text \in Seq(ToSet(picture) \X Int)
               /\ \E c \in ToSet(text) : c[1] = family
               /\ ReadAll(Digit(F), 0, text) = ReadAll(Tens, 0, digits)
  <1> DEFINE C == STRING \X Int
             D == Seq(ToSet(picture) \X Int)
             n == Len(digits)
  <1>1. n \in Nat /\ n > 0 /\ \A i \in 1 .. n : digits[i] \in Int
    OBVIOUS
  <1>2. family \in STRING /\ D \subseteq Seq(C) /\ <<>> \in D
    BY DEF ToSet
  <1>3. PICK grouped : Groups(grouped, digits, family, picture)
                       /\ Grouped(digits, family, picture) = grouped[n]
    BY GroupedUnfolds
  <1>4. PICK read : Reads(read, Int, Tens, 0, digits)
    <2>1. Tens \in [Int -> [Int -> Int]]
      BY DEF Tens
    <2>2. Loop(Int, Int, Tens, 0, digits)
      BY <2>1, 0 \in Int, Zenon DEF Loop
    <2> QED
      BY <2>2, ReadAllReads
  <1> DEFINE S == {i \in 0 .. n : grouped[i] \in D /\ ReadAll(Digit(F), 0, grouped[i]) = read[i]}
  <1>5. ASSUME NEW i \in 1 .. n, grouped[i - 1] \in D
        PROVE  grouped[i] \in D
    <2>1. grouped[i] = grouped[i - 1] \o Gap(picture, n, i) \o <<<<family, digits[i]>>>>
      BY <1>3 DEF Groups
    <2>2. <<<<family, digits[i]>>>> \in D
      BY <1>1
    <2>3. Gap(picture, n, i) \in D
      <3>1. \A c \in ToSet(picture) \X Int : <<c>> \in D
        OBVIOUS
      <3> HIDE DEF D, n
      <3> QED
        BY <1>1, <1>2, <3>1, GapOfPicture
    <2>4. \A s, t \in D : s \o t \in D
      OBVIOUS
    <2> HIDE DEF D, n
    <2> QED
      BY <1>5, <2>1, <2>2, <2>3, <2>4
  <1>6. ASSUME NEW i \in 0 .. n, \A j \in 0 .. n : j < i => j \in S
        PROVE  i \in S
    <2>1. CASE i = 0
      <3>1. grouped[0] = <<>> /\ read[0] = 0
        BY <1>3, <1>4 DEF Groups, Reads
      <3>2. Digit(F) \in [Int -> [C -> Int]] /\ <<>> \in Seq(C)
        BY DigitStep
      <3>3. Loop(Int, C, Digit(F), 0, <<>>)
        <4> HIDE DEF C
        <4> QED
          BY <3>2, 0 \in Int, Zenon DEF Loop
      <3>4. ReadAll(Digit(F), 0, <<>>) = 0
        BY <3>3, ReadAllEmpty
      <3> HIDE DEF D, n, C
      <3> QED
        BY <1>2, <2>1, <3>1, <3>4
    <2>2. CASE i # 0
      <3>1. i \in 1 .. n /\ i - 1 \in 0 .. n /\ i - 1 < i
        BY <2>2
      <3>2. grouped[i - 1] \in D /\ ReadAll(Digit(F), 0, grouped[i - 1]) = read[i - 1]
        BY <1>6, <3>1
      <3>3. grouped[i] \in D
        BY <1>5, <3>1, <3>2
      <3>4. grouped[i] = grouped[i - 1] \o Gap(picture, n, i) \o <<<<family, digits[i]>>>>
        BY <1>3, <3>1 DEF Groups
      <3>5. ReadAll(Digit(F), 0, grouped[i]) = ReadAll(Digit(F), 0, grouped[i - 1]) * 10 + digits[i]
        <4> DEFINE text == grouped[i - 1]
                   d == digits[i]
        <4>1. text \in Seq(STRING \X Int) /\ d \in Int
          BY <1>1, <1>2, <3>1, <3>2
        <4> HIDE DEF text, d, n, D
        <4>2. ReadAll(Digit(F), 0, text \o Gap(picture, n, i) \o <<<<family, d>>>>)
                  = ReadAll(Digit(F), 0, text) * 10 + d
          BY <1>1, <1>2, <3>1, <4>1, GroupReads
        <4> QED
          BY <3>4, <4>2 DEF text, d
      <3>6. read[i] = read[i - 1] * 10 + digits[i]
        <4>1. read[i] = Tens[read[i - 1]][digits[i]] /\ read[i - 1] \in Int
          BY <1>4, <3>1 DEF Reads
        <4> QED
          BY <1>1, <3>1, <4>1 DEF Tens
      <3> HIDE DEF D, n
      <3> QED
        BY <3>2, <3>3, <3>5, <3>6
    <2> HIDE DEF S
    <2> QED
      BY <2>1, <2>2
  <1> HIDE DEF S
  <1>7. n \in S /\ n - 1 \in S
    <2>1. 0 .. n \subseteq S
      BY <1>1, <1>6, IntervalInduction
    <2>2. n \in 0 .. n /\ n - 1 \in 0 .. n
      BY <1>1
    <2> QED
      BY <2>1, <2>2
  <1>8. \E c \in ToSet(grouped[n]) : c[1] = family
    <2> DEFINE c == <<family, digits[n]>>
               before == grouped[n - 1] \o Gap(picture, n, n)
               text == before \o <<c>>
    <2>1. grouped[n] = text /\ n \in 1 .. n
      <3>1. n \in 1 .. n
        BY <1>1
      <3>2. \A i \in 1 .. n :
               grouped[i] = grouped[i - 1] \o Gap(picture, n, i) \o <<<<family, digits[i]>>>>
        BY <1>3 DEF Groups
      <3> HIDE DEF n
      <3>3. grouped[n] = grouped[n - 1] \o Gap(picture, n, n) \o <<<<family, digits[n]>>>>
        BY <3>1, <3>2
      <3> QED
        BY <3>1, <3>3
    <2>2. before \in Seq(ToSet(picture) \X Int)
      <3>1. Gap(picture, n, n) \in D
        <4>1. \A e \in ToSet(picture) \X Int : <<e>> \in D
          OBVIOUS
        <4> HIDE DEF D, n
        <4>2. \/ Gap(picture, n, n) = <<>>
              \/ \E e \in ToSet(picture) \X Int : Gap(picture, n, n) = <<e>>
          BY <1>1, <2>1, GapOfPicture
        <4> QED
          BY <1>2, <4>1, <4>2
      <3>2. grouped[n - 1] \in D
        BY <1>7 DEF S
      <3> HIDE DEF n
      <3> QED
        BY <3>1, <3>2
    <2> HIDE DEF before
    <2>3. Len(before) + 1 \in DOMAIN text /\ text[Len(before) + 1] = c
      <3> HIDE DEF c
      <3> QED
        BY <2>2
    <2>4. c \in ToSet(text)
      <3> HIDE DEF c, text
      <3> QED
        BY <2>3 DEF ToSet
    <2>5. c[1] = family
      OBVIOUS
    <2> HIDE DEF c, text
    <2> QED
      BY <2>1, <2>4, <2>5
  <1>9. ReadAll(Tens, 0, digits) = read[n]
    BY <1>4 DEF Reads
  <1> QED
    BY <1>3, <1>7, <1>8, <1>9 DEF S

\* A text of a number's digits, as a picture has them.
WrittenInDigits(n, picture, text) ==
    /\ Digits(picture) # {} /\ "-" \notin ToSet(picture)
    /\ FormatDecimal(n, picture).err = "" /\ text.symbols = FormatDecimal(n, picture).symbols

\* $parseInteger reads back every number that $formatInteger wrote with a picture of
\* digits, however they are padded and grouped, unless a hyphen separates groups.
THEOREM DigitsReadBack ==
    ASSUME NEW n \in Nat, NEW picture \in Seq(STRING), NEW text, WrittenInDigits(n, picture, text)
    PROVE  ParseDecimal(text, picture) = Parsed(IF text.sign = "-" THEN -n ELSE n)
  <1> DEFINE missing == Max({0, Cardinality(Digits(picture)) - Len(Decimal[n])})
             padded == [i \in 1 .. missing |-> 0] \o Decimal[n]
             used == {picture[i] : i \in Digits(picture)}
             first == picture[Min(Digits(picture))]
             last == picture[Max(Digits(picture))]
             F == {"0", last}
             symbols == {c[1] : c \in ToSet(text.symbols)}
  <1>1. PICK size \in Nat : DOMAIN picture = 1 .. size
    OBVIOUS
  <1>2. Digits(picture) \in SUBSET (1 .. size) /\ Digits(picture) \in SUBSET Nat
    BY <1>1 DEF Digits
  <1>3. /\ Min(Digits(picture)) \in Digits(picture)
        /\ Max(Digits(picture)) \in Digits(picture)
    <2>1. Digits(picture) # {}
      BY DEF WrittenInDigits
    <2> QED
      BY <1>2, <2>1, MaxIn, MinIn
  <1>4. /\ first \in used /\ last \in used
        /\ first \in ToSet(picture) /\ used \subseteq Families
    BY <1>3 DEF Digits, ToSet
  <1>5. ~(Cardinality(used) > 1)
    <2>1. NotFormatted("D3131").err # ""
      BY DEF NotFormatted, Formatted
    <2> QED
      BY <2>1 DEF FormatDecimal, WrittenInDigits
  <1>6. FormatDecimal(n, picture) = Formatted(Grouped(padded, first, picture))
    BY <1>5 DEF FormatDecimal
  <1> HIDE DEF first, last, used, F, symbols, missing, padded
  <1>7. first = last
    <2>1. ASSUME first # last PROVE FALSE
      <3>1. IsFiniteSet({first}) /\ Cardinality({first}) = 1
        BY FS_Singleton
      <3>2. IsFiniteSet({first} \cup {last}) /\ Cardinality({first} \cup {last}) = 2
        <4>1. /\ IsFiniteSet({first} \cup {last})
              /\ Cardinality({first} \cup {last}) =
                     IF last \in {first} THEN Cardinality({first}) ELSE Cardinality({first}) + 1
          BY <3>1, FS_AddElement, Zenon
        <4>2. last \notin {first}
          BY <2>1
        <4>3. Cardinality({first} \cup {last}) = Cardinality({first}) + 1
          BY <4>1, <4>2, Zenon
        <4>4. 1 + 1 = 2
          OBVIOUS
        <4> QED
          BY <3>1, <4>1, <4>3, <4>4, Zenon
      <3>3. IsFiniteSet(used)
        <4>1. IsFiniteSet({"0"})
          BY FS_Singleton
        <4>2. IsFiniteSet({"0"} \cup {"z"})
          BY <4>1, FS_AddElement
        <4>3. used \subseteq {"0"} \cup {"z"}
          BY <1>4 DEF Families
        <4> QED
          BY <4>2, <4>3, FS_Subset
      <3>4. {first} \cup {last} \subseteq used
        BY <1>4
      <3>5. Cardinality({first} \cup {last}) <= Cardinality(used) /\ Cardinality(used) \in Nat
        BY <3>3, <3>4, FS_Subset, FS_CardinalityType
      <3>6. \A a, b \in Nat : a = 2 /\ a <= b => b > 1
        OBVIOUS
      <3>7. Cardinality(used) > 1
        BY <3>2, <3>5, <3>6
      <3> QED
        BY <1>5, <3>7
    <2> QED
      BY <2>1
  <1>8. padded \in Seq(Int) /\ padded # <<>> /\ ReadAll(Tens, 0, padded) = n
    <2>1. missing \in Nat
      <3> USE DEF missing
      <3> DEFINE short == Cardinality(Digits(picture)) - Len(Decimal[n])
      <3>1. short \in Int
        <4>1. Cardinality(Digits(picture)) \in Nat
          <5>1. IsFiniteSet(1 .. size)
            BY FS_Interval
          <5>2. IsFiniteSet(Digits(picture))
            BY <1>2, <5>1, FS_Subset
          <5> QED
            BY <5>2, FS_CardinalityType
        <4>2. Len(Decimal[n]) \in Nat
          BY DecimalUnfolds
        <4> QED
          BY <4>1, <4>2
      <3> HIDE DEF short
      <3>2. Max({0, short}) \in {0, short} /\ Max({0, short}) >= 0
        <4>1. \E x \in {0, short} : \A y \in {0, short} : x >= y
          BY <3>1
        <4>2. Max({0, short}) \in {0, short} /\ \A y \in {0, short} : Max({0, short}) >= y
          BY <4>1 DEF Max
        <4> QED
          BY <4>2
      <3>3. Max({0, short}) \in Nat
        BY <3>1, <3>2
      <3> QED
        BY <3>3 DEF short
    <2> QED
      BY <2>1, PaddingReadBack DEF padded
  <1>9. F \in SUBSET Families /\ first \in F /\ first \in ToSet(picture)
    BY <1>4, <1>7 DEF Families, F
  <1>10. /\ text.symbols \in Seq(ToSet(picture) \X Int)
         /\ \E c \in ToSet(text.symbols) : c[1] = first
         /\ ReadAll(Digit(F), 0, text.symbols) = n
    <2>1. text.symbols = Grouped(padded, first, picture)
      <3>1. Formatted(Grouped(padded, first, picture)).symbols = Grouped(padded, first, picture)
        BY DEF Formatted
      <3> QED
        BY <1>6, <3>1 DEF WrittenInDigits
    <2>2. /\ Grouped(padded, first, picture) \in Seq(ToSet(picture) \X Int)
          /\ \E c \in ToSet(Grouped(padded, first, picture)) : c[1] = first
          /\ ReadAll(Digit(F), 0, Grouped(padded, first, picture)) = ReadAll(Tens, 0, padded)
      BY <1>8, <1>9, GroupedReads
    <2> QED
      BY <1>8, <2>1, <2>2
  <1>11. "-" \notin symbols /\ symbols \cap F # {}
    <2>1. \A c \in ToSet(text.symbols) : c[1] \in ToSet(picture)
      BY <1>10 DEF ToSet
    <2> QED
      BY <1>9, <1>10, <2>1 DEF WrittenInDigits, symbols
  <1> QED
    BY <1>10, <1>11 DEF ParseDecimal, last, F, symbols

-----------------------------------------------------------------------------
(* Roman numerals.                                                         *)

LEMMA FirstFitIs ==
    ASSUME NEW size \in Nat, NEW values \in [1 .. size -> Int], NEW n \in Int,
           NEW k \in 1 .. size, values[k] <= n, \A j \in 1 .. k - 1 : values[j] > n
    PROVE  FirstFit(values, n) = k
  <1>1. DOMAIN values = 1 .. size
    OBVIOUS
  <1>2. ASSUME NEW i \in 1 .. size, values[i] <= n, \A j \in 1 .. i - 1 : values[j] > n
        PROVE  i = k
    <2>1. values[i] \in Int /\ values[k] \in Int
      OBVIOUS
    <2>2. ~(i < k)
      <3>1. i < k => i \in 1 .. k - 1
        OBVIOUS
      <3> QED
        BY <1>2, <2>1, <3>1
    <2>3. ~(k < i)
      <3>1. k < i => k \in 1 .. i - 1
        OBVIOUS
      <3> QED
        BY <1>2, <2>1, <3>1
    <2> QED
      BY <2>2, <2>3
  <1> QED
    BY <1>1, <1>2 DEF FirstFit

RomanFit(n) == Romans[FirstFit([i \in DOMAIN Romans |-> RomanValue(Romans[i])], n)]

LEMMA RomanFits ==
    ASSUME NEW n \in Nat \ {0}
    PROVE  \/ n >= 1000 /\ RomanFit(n) = <<1000>>
           \/ n \in 900 .. 999 /\ RomanFit(n) = <<100, 1000>>
           \/ n \in 500 .. 899 /\ RomanFit(n) = <<500>>
           \/ n \in 400 .. 499 /\ RomanFit(n) = <<100, 500>>
           \/ n \in 100 .. 399 /\ RomanFit(n) = <<100>>
           \/ n \in 90 .. 99 /\ RomanFit(n) = <<10, 100>>
           \/ n \in 50 .. 89 /\ RomanFit(n) = <<50>>
           \/ n \in 40 .. 49 /\ RomanFit(n) = <<10, 50>>
           \/ n \in 10 .. 39 /\ RomanFit(n) = <<10>>
           \/ n \in 9 .. 9 /\ RomanFit(n) = <<1, 10>>
           \/ n \in 5 .. 8 /\ RomanFit(n) = <<5>>
           \/ n \in 4 .. 4 /\ RomanFit(n) = <<1, 5>>
           \/ n \in 1 .. 3 /\ RomanFit(n) = <<1>>
  <1> DEFINE values == [i \in DOMAIN Romans |-> RomanValue(Romans[i])]
  <1>1. DOMAIN Romans = 1 .. 13
    BY DEF Romans
  <1>2. /\ Romans[1] = <<1000>> /\ Romans[2] = <<100, 1000>> /\ Romans[3] = <<500>>
        /\ Romans[4] = <<100, 500>> /\ Romans[5] = <<100>> /\ Romans[6] = <<10, 100>> /\ Romans[7] = <<50>>
        /\ Romans[8] = <<10, 50>> /\ Romans[9] = <<10>> /\ Romans[10] = <<1, 10>>
        /\ Romans[11] = <<5>> /\ Romans[12] = <<1, 5>> /\ Romans[13] = <<1>>
    BY DEF Romans
  <1>3. /\ values[1] = 1000 /\ values[2] = 900 /\ values[3] = 500 /\ values[4] = 400
        /\ values[5] = 100 /\ values[6] = 90 /\ values[7] = 50 /\ values[8] = 40 /\ values[9] = 10
        /\ values[10] = 9 /\ values[11] = 5 /\ values[12] = 4 /\ values[13] = 1
    BY <1>1, <1>2 DEF RomanValue
  <1>4. values \in [1 .. 13 -> Int]
    <2>1. \A i \in 1 .. 13 : values[i] \in Int
      <3>1. \A i \in 1 .. 13 : \/ i = 1 \/ i = 2 \/ i = 3 \/ i = 4 \/ i = 5 \/ i = 6 \/ i = 7
                                \/ i = 8 \/ i = 9 \/ i = 10 \/ i = 11 \/ i = 12 \/ i = 13
        OBVIOUS
      <3> HIDE DEF values
      <3> QED
        BY <1>3, <3>1
    <2> QED
      BY <1>1, <2>1
  <1>5. RomanFit(n) = Romans[FirstFit(values, n)]
    BY DEF RomanFit
  <1> HIDE DEF values
  <1>6. ASSUME NEW k \in 1 .. 13, values[k] <= n, \A j \in 1 .. k - 1 : values[j] > n
        PROVE  RomanFit(n) = Romans[k]
    <2>1. FirstFit(values, n) = k
      <3>1. 13 \in Nat /\ n \in Int
        OBVIOUS
      <3> QED
        BY <1>4, <1>6, <3>1, FirstFitIs, Zenon
    <2> QED
      BY <1>5, <2>1
  <1>7. CASE n >= 1000
    <2>1. \A j \in 1 .. 1 - 1 : values[j] > n
      OBVIOUS
    <2>2. 1 \in 1 .. 13 /\ values[1] <= n
      BY <1>3, <1>7
    <2>3. RomanFit(n) = Romans[1]
      BY <1>6, <2>1, <2>2
    <2> QED
      BY <1>2, <1>7, <2>3
  <1>8. CASE n \in 900 .. 999
    <2>1. \A j \in 1 .. 2 - 1 : values[j] > n
      <3>1. \A j \in 1 .. 2 - 1 : j = 1
        OBVIOUS
      <3> QED
        BY <1>3, <1>8, <3>1
    <2>2. 2 \in 1 .. 13 /\ values[2] <= n
      BY <1>3, <1>8
    <2>3. RomanFit(n) = Romans[2]
      BY <1>6, <2>1, <2>2
    <2> QED
      BY <1>2, <1>8, <2>3
  <1>9. CASE n \in 500 .. 899
    <2>1. \A j \in 1 .. 3 - 1 : values[j] > n
      <3>1. \A j \in 1 .. 3 - 1 : j = 1 \/ j = 2
        OBVIOUS
      <3> QED
        BY <1>3, <1>9, <3>1
    <2>2. 3 \in 1 .. 13 /\ values[3] <= n
      BY <1>3, <1>9
    <2>3. RomanFit(n) = Romans[3]
      BY <1>6, <2>1, <2>2
    <2> QED
      BY <1>2, <1>9, <2>3
  <1>10. CASE n \in 400 .. 499
    <2>1. \A j \in 1 .. 4 - 1 : values[j] > n
      <3>1. \A j \in 1 .. 4 - 1 : j = 1 \/ j = 2 \/ j = 3
        OBVIOUS
      <3> QED
        BY <1>3, <1>10, <3>1
    <2>2. 4 \in 1 .. 13 /\ values[4] <= n
      BY <1>3, <1>10
    <2>3. RomanFit(n) = Romans[4]
      BY <1>6, <2>1, <2>2
    <2> QED
      BY <1>2, <1>10, <2>3
  <1>11. CASE n \in 100 .. 399
    <2>1. \A j \in 1 .. 5 - 1 : values[j] > n
      <3>1. \A j \in 1 .. 5 - 1 : j = 1 \/ j = 2 \/ j = 3 \/ j = 4
        OBVIOUS
      <3> QED
        BY <1>3, <1>11, <3>1
    <2>2. 5 \in 1 .. 13 /\ values[5] <= n
      BY <1>3, <1>11
    <2>3. RomanFit(n) = Romans[5]
      BY <1>6, <2>1, <2>2
    <2> QED
      BY <1>2, <1>11, <2>3
  <1>12. CASE n \in 90 .. 99
    <2>1. \A j \in 1 .. 6 - 1 : values[j] > n
      <3>1. \A j \in 1 .. 6 - 1 : j = 1 \/ j = 2 \/ j = 3 \/ j = 4 \/ j = 5
        OBVIOUS
      <3> QED
        BY <1>3, <1>12, <3>1
    <2>2. 6 \in 1 .. 13 /\ values[6] <= n
      BY <1>3, <1>12
    <2>3. RomanFit(n) = Romans[6]
      BY <1>6, <2>1, <2>2
    <2> QED
      BY <1>2, <1>12, <2>3
  <1>13. CASE n \in 50 .. 89
    <2>1. \A j \in 1 .. 7 - 1 : values[j] > n
      <3>1. \A j \in 1 .. 7 - 1 : j = 1 \/ j = 2 \/ j = 3 \/ j = 4 \/ j = 5 \/ j = 6
        OBVIOUS
      <3> QED
        BY <1>3, <1>13, <3>1
    <2>2. 7 \in 1 .. 13 /\ values[7] <= n
      BY <1>3, <1>13
    <2>3. RomanFit(n) = Romans[7]
      BY <1>6, <2>1, <2>2
    <2> QED
      BY <1>2, <1>13, <2>3
  <1>14. CASE n \in 40 .. 49
    <2>1. \A j \in 1 .. 8 - 1 : values[j] > n
      <3>1. \A j \in 1 .. 8 - 1 : j = 1 \/ j = 2 \/ j = 3 \/ j = 4 \/ j = 5 \/ j = 6 \/ j = 7
        OBVIOUS
      <3> QED
        BY <1>3, <1>14, <3>1
    <2>2. 8 \in 1 .. 13 /\ values[8] <= n
      BY <1>3, <1>14
    <2>3. RomanFit(n) = Romans[8]
      BY <1>6, <2>1, <2>2
    <2> QED
      BY <1>2, <1>14, <2>3
  <1>15. CASE n \in 10 .. 39
    <2>1. \A j \in 1 .. 9 - 1 : values[j] > n
      <3>1. \A j \in 1 .. 9 - 1 : j = 1 \/ j = 2 \/ j = 3 \/ j = 4 \/ j = 5 \/ j = 6 \/ j = 7 \/ j = 8
        OBVIOUS
      <3> QED
        BY <1>3, <1>15, <3>1
    <2>2. 9 \in 1 .. 13 /\ values[9] <= n
      BY <1>3, <1>15
    <2>3. RomanFit(n) = Romans[9]
      BY <1>6, <2>1, <2>2
    <2> QED
      BY <1>2, <1>15, <2>3
  <1>16. CASE n \in 9 .. 9
    <2>1. \A j \in 1 .. 10 - 1 : values[j] > n
      <3>1. \A j \in 1 .. 10 - 1 : j = 1 \/ j = 2 \/ j = 3 \/ j = 4 \/ j = 5 \/ j = 6 \/ j = 7 \/ j = 8 \/ j = 9
        OBVIOUS
      <3> QED
        BY <1>3, <1>16, <3>1
    <2>2. 10 \in 1 .. 13 /\ values[10] <= n
      BY <1>3, <1>16
    <2>3. RomanFit(n) = Romans[10]
      BY <1>6, <2>1, <2>2
    <2> QED
      BY <1>2, <1>16, <2>3
  <1>17. CASE n \in 5 .. 8
    <2>1. \A j \in 1 .. 11 - 1 : values[j] > n
      <3>1. \A j \in 1 .. 11 - 1 : j = 1 \/ j = 2 \/ j = 3 \/ j = 4 \/ j = 5 \/ j = 6 \/ j = 7 \/ j = 8 \/ j = 9 \/ j = 10
        OBVIOUS
      <3> QED
        BY <1>3, <1>17, <3>1
    <2>2. 11 \in 1 .. 13 /\ values[11] <= n
      BY <1>3, <1>17
    <2>3. RomanFit(n) = Romans[11]
      BY <1>6, <2>1, <2>2
    <2> QED
      BY <1>2, <1>17, <2>3
  <1>18. CASE n \in 4 .. 4
    <2>1. \A j \in 1 .. 12 - 1 : values[j] > n
      <3>1. \A j \in 1 .. 12 - 1 : j = 1 \/ j = 2 \/ j = 3 \/ j = 4 \/ j = 5 \/ j = 6 \/ j = 7 \/ j = 8 \/ j = 9 \/ j = 10 \/ j = 11
        OBVIOUS
      <3> QED
        BY <1>3, <1>18, <3>1
    <2>2. 12 \in 1 .. 13 /\ values[12] <= n
      BY <1>3, <1>18
    <2>3. RomanFit(n) = Romans[12]
      BY <1>6, <2>1, <2>2
    <2> QED
      BY <1>2, <1>18, <2>3
  <1>19. CASE n \in 1 .. 3
    <2>1. \A j \in 1 .. 13 - 1 : values[j] > n
      <3>1. \A j \in 1 .. 13 - 1 : j = 1 \/ j = 2 \/ j = 3 \/ j = 4 \/ j = 5 \/ j = 6 \/ j = 7 \/ j = 8 \/ j = 9 \/ j = 10 \/ j = 11 \/ j = 12
        OBVIOUS
      <3> QED
        BY <1>3, <1>19, <3>1
    <2>2. 13 \in 1 .. 13 /\ values[13] <= n
      BY <1>3, <1>19
    <2>3. RomanFit(n) = Romans[13]
      BY <1>6, <2>1, <2>2
    <2> QED
      BY <1>2, <1>19, <2>3
  <1> QED
    BY <1>7, <1>8, <1>9, <1>10, <1>11, <1>12, <1>13, <1>14, <1>15, <1>16, <1>17, <1>18, <1>19

\* The first letters of a numeral, and what can follow them.
LEMMA RomanFirst ==
    ASSUME NEW n \in Nat \ {0}
    PROVE  LET l == RomanFit(n)[1]
           IN  /\ l \in Nat /\ l <= 1000
               /\ n < 1000 => l <= 500
               /\ n < 500 => l <= 100
               /\ n < 100 => l <= 50
               /\ n < 50 => l <= 10
               /\ n < 10 => l <= 5
               /\ n < 5 => l <= 1
  BY RomanFits

LEMMA RomanFollows ==
    ASSUME NEW n \in Nat \ {0}
    PROVE  LET fit == RomanFit(n)
               rest == n - RomanValue(fit)
           IN  /\ RomanValue(fit) \in 1 .. n
               /\ \/ \E a \in Nat : /\ fit = <<a>> /\ RomanValue(fit) = a
                                    /\ rest # 0 => RomanFit(rest)[1] <= a
                  \/ \E a, b \in Nat : /\ a < b /\ fit = <<a, b>> /\ RomanValue(fit) = b - a
                                       /\ rest # 0 => RomanFit(rest)[1] <= b
  <1>1. \A a : RomanValue(<<a>>) = a
    BY DEF RomanValue
  <1>2. \A a, b : RomanValue(<<a, b>>) = b - a
    BY DEF RomanValue
  <1>3. ASSUME NEW a \in Nat, RomanFit(n) = <<a>>, a \in 1 .. n, n - a # 0 => RomanFit(n - a)[1] <= a
        PROVE  /\ RomanValue(RomanFit(n)) \in 1 .. n
               /\ \E c \in Nat : /\ RomanFit(n) = <<c>> /\ RomanValue(RomanFit(n)) = c
                                 /\ n - RomanValue(RomanFit(n)) # 0
                                      => RomanFit(n - RomanValue(RomanFit(n)))[1] <= c
    <2>1. RomanValue(RomanFit(n)) = a
      BY <1>1, <1>3
    <2> QED
      BY <1>3, <2>1
  <1>4. ASSUME NEW a \in Nat, NEW b \in Nat, RomanFit(n) = <<a, b>>, a < b, b - a \in 1 .. n,
               n - (b - a) # 0 => RomanFit(n - (b - a))[1] <= b
        PROVE  /\ RomanValue(RomanFit(n)) \in 1 .. n
               /\ \E c, d \in Nat : /\ c < d /\ RomanFit(n) = <<c, d>>
                                    /\ RomanValue(RomanFit(n)) = d - c
                                    /\ n - RomanValue(RomanFit(n)) # 0
                                         => RomanFit(n - RomanValue(RomanFit(n)))[1] <= d
    <2>1. RomanValue(RomanFit(n)) = b - a
      BY <1>2, <1>4
    <2> QED
      BY <1>4, <2>1
  <1>5. CASE n >= 1000 /\ RomanFit(n) = <<1000>>
    <2>1. n - 1000 # 0 => RomanFit(n - 1000)[1] <= 1000
      <3>1. n - 1000 # 0 => n - 1000 \in Nat \ {0}
        BY <1>5
      <3> QED
        BY <1>5, <3>1, RomanFirst
    <2>2. 1000 \in Nat /\ 1000 \in 1 .. n
      BY <1>5
    <2> QED
      BY <1>3, <1>5, <2>1, <2>2
  <1>6. CASE n \in 900 .. 999 /\ RomanFit(n) = <<100, 1000>>
    <2>1. n - 900 # 0 => RomanFit(n - 900)[1] <= 1000
      <3>1. n - 900 # 0 => n - 900 \in Nat \ {0}
        BY <1>6
      <3> QED
        BY <1>6, <3>1, RomanFirst
    <2>2. 100 \in Nat /\ 1000 \in Nat /\ 100 < 1000 /\ 1000 - 100 = 900 /\ 900 \in 1 .. n
      BY <1>6
    <2> QED
      BY <1>4, <1>6, <2>1, <2>2
  <1>7. CASE n \in 500 .. 899 /\ RomanFit(n) = <<500>>
    <2>1. n - 500 # 0 => RomanFit(n - 500)[1] <= 500
      <3>1. n - 500 # 0 => n - 500 \in Nat \ {0}
        BY <1>7
      <3> QED
        BY <1>7, <3>1, RomanFirst
    <2>2. 500 \in Nat /\ 500 \in 1 .. n
      BY <1>7
    <2> QED
      BY <1>3, <1>7, <2>1, <2>2
  <1>8. CASE n \in 400 .. 499 /\ RomanFit(n) = <<100, 500>>
    <2>1. n - 400 # 0 => RomanFit(n - 400)[1] <= 500
      <3>1. n - 400 # 0 => n - 400 \in Nat \ {0}
        BY <1>8
      <3> QED
        BY <1>8, <3>1, RomanFirst
    <2>2. 100 \in Nat /\ 500 \in Nat /\ 100 < 500 /\ 500 - 100 = 400 /\ 400 \in 1 .. n
      BY <1>8
    <2> QED
      BY <1>4, <1>8, <2>1, <2>2
  <1>9. CASE n \in 100 .. 399 /\ RomanFit(n) = <<100>>
    <2>1. n - 100 # 0 => RomanFit(n - 100)[1] <= 100
      <3>1. n - 100 # 0 => n - 100 \in Nat \ {0}
        BY <1>9
      <3> QED
        BY <1>9, <3>1, RomanFirst
    <2>2. 100 \in Nat /\ 100 \in 1 .. n
      BY <1>9
    <2> QED
      BY <1>3, <1>9, <2>1, <2>2
  <1>10. CASE n \in 90 .. 99 /\ RomanFit(n) = <<10, 100>>
    <2>1. n - 90 # 0 => RomanFit(n - 90)[1] <= 100
      <3>1. n - 90 # 0 => n - 90 \in Nat \ {0}
        BY <1>10
      <3> QED
        BY <1>10, <3>1, RomanFirst
    <2>2. 10 \in Nat /\ 100 \in Nat /\ 10 < 100 /\ 100 - 10 = 90 /\ 90 \in 1 .. n
      BY <1>10
    <2> QED
      BY <1>4, <1>10, <2>1, <2>2
  <1>11. CASE n \in 50 .. 89 /\ RomanFit(n) = <<50>>
    <2>1. n - 50 # 0 => RomanFit(n - 50)[1] <= 50
      <3>1. n - 50 # 0 => n - 50 \in Nat \ {0}
        BY <1>11
      <3> QED
        BY <1>11, <3>1, RomanFirst
    <2>2. 50 \in Nat /\ 50 \in 1 .. n
      BY <1>11
    <2> QED
      BY <1>3, <1>11, <2>1, <2>2
  <1>12. CASE n \in 40 .. 49 /\ RomanFit(n) = <<10, 50>>
    <2>1. n - 40 # 0 => RomanFit(n - 40)[1] <= 50
      <3>1. n - 40 # 0 => n - 40 \in Nat \ {0}
        BY <1>12
      <3> QED
        BY <1>12, <3>1, RomanFirst
    <2>2. 10 \in Nat /\ 50 \in Nat /\ 10 < 50 /\ 50 - 10 = 40 /\ 40 \in 1 .. n
      BY <1>12
    <2> QED
      BY <1>4, <1>12, <2>1, <2>2
  <1>13. CASE n \in 10 .. 39 /\ RomanFit(n) = <<10>>
    <2>1. n - 10 # 0 => RomanFit(n - 10)[1] <= 10
      <3>1. n - 10 # 0 => n - 10 \in Nat \ {0}
        BY <1>13
      <3> QED
        BY <1>13, <3>1, RomanFirst
    <2>2. 10 \in Nat /\ 10 \in 1 .. n
      BY <1>13
    <2> QED
      BY <1>3, <1>13, <2>1, <2>2
  <1>14. CASE n \in 9 .. 9 /\ RomanFit(n) = <<1, 10>>
    <2>1. n - 9 # 0 => RomanFit(n - 9)[1] <= 10
      <3>1. n - 9 # 0 => n - 9 \in Nat \ {0}
        BY <1>14
      <3> QED
        BY <1>14, <3>1, RomanFirst
    <2>2. 1 \in Nat /\ 10 \in Nat /\ 1 < 10 /\ 10 - 1 = 9 /\ 9 \in 1 .. n
      BY <1>14
    <2> QED
      BY <1>4, <1>14, <2>1, <2>2
  <1>15. CASE n \in 5 .. 8 /\ RomanFit(n) = <<5>>
    <2>1. n - 5 # 0 => RomanFit(n - 5)[1] <= 5
      <3>1. n - 5 # 0 => n - 5 \in Nat \ {0}
        BY <1>15
      <3> QED
        BY <1>15, <3>1, RomanFirst
    <2>2. 5 \in Nat /\ 5 \in 1 .. n
      BY <1>15
    <2> QED
      BY <1>3, <1>15, <2>1, <2>2
  <1>16. CASE n \in 4 .. 4 /\ RomanFit(n) = <<1, 5>>
    <2>1. n - 4 # 0 => RomanFit(n - 4)[1] <= 5
      <3>1. n - 4 # 0 => n - 4 \in Nat \ {0}
        BY <1>16
      <3> QED
        BY <1>16, <3>1, RomanFirst
    <2>2. 1 \in Nat /\ 5 \in Nat /\ 1 < 5 /\ 5 - 1 = 4 /\ 4 \in 1 .. n
      BY <1>16
    <2> QED
      BY <1>4, <1>16, <2>1, <2>2
  <1>17. CASE n \in 1 .. 3 /\ RomanFit(n) = <<1>>
    <2>1. n - 1 # 0 => RomanFit(n - 1)[1] <= 1
      <3>1. n - 1 # 0 => n - 1 \in Nat \ {0}
        BY <1>17
      <3> QED
        BY <1>17, <3>1, RomanFirst
    <2>2. 1 \in Nat /\ 1 \in 1 .. n
      BY <1>17
    <2> QED
      BY <1>3, <1>17, <2>1, <2>2
  <1> QED
    BY RomanFits, <1>5, <1>6, <1>7, <1>8, <1>9, <1>10, <1>11, <1>12, <1>13, <1>14, <1>15, <1>16, <1>17

LEMMA RomanUnfolds ==
    \A n \in Nat :
        /\ ToRoman[n] \in Seq(Nat)
        /\ ToRoman[n] = IF n = 0 THEN <<>> ELSE RomanFit(n) \o ToRoman[n - RomanValue(RomanFit(n))]
  <1> DEFINE D == Seq(Nat)
             rest(n) == n - RomanValue(RomanFit(n))
             Unfolded(f) == [n \in Nat |-> IF n = 0 THEN <<>> ELSE RomanFit(n) \o f[rest(n)]]
             phi == [f \in [Nat -> D] |-> Unfolded(f)]
             rank == [n \in Nat |-> n]
  <1>1. \A n \in Nat : n # 0 => rest(n) \in 0 .. n - 1 /\ RomanFit(n) \in D
    <2>1. ASSUME NEW n \in Nat, n # 0 PROVE rest(n) \in 0 .. n - 1
      <3>1. RomanValue(RomanFit(n)) \in 1 .. n
        BY <2>1, RomanFollows
      <3> QED
        BY <3>1
    <2>2. ASSUME NEW n \in Nat, n # 0 PROVE RomanFit(n) \in D
      <3>1. (\E a \in Nat : RomanFit(n) = <<a>>) \/ (\E a, b \in Nat : RomanFit(n) = <<a, b>>)
        BY <2>2, RomanFollows
      <3>2. \A a \in Nat : <<a>> \in Seq(Nat)
        OBVIOUS
      <3>3. \A a, b \in Nat : <<a, b>> \in Seq(Nat)
        OBVIOUS
      <3> QED
        BY <3>1, <3>2, <3>3
    <2> QED
      BY <2>1, <2>2
  <1>2. \A s, t \in D : s \o t \in D
    OBVIOUS
  <1>3. <<>> \in D
    OBVIOUS
  <1> HIDE DEF rest, D
  <1>4. Decided(phi, Nat, rank, D)
    <2>1. rank \in [Nat -> Nat] /\ phi \in [[Nat -> D] -> [Nat -> D]]
      <3>1. ASSUME NEW f \in [Nat -> D], NEW n \in Nat
            PROVE  (IF n = 0 THEN <<>> ELSE RomanFit(n) \o f[rest(n)]) \in D
        <4>1. CASE n = 0
          BY <1>3, <4>1
        <4>2. CASE n # 0
          <5>1. rest(n) \in Nat
            BY <1>1, <4>2
          <5> QED
            BY <1>1, <1>2, <4>2, <5>1
        <4> QED
          BY <4>1, <4>2
      <3> QED
        BY <3>1
    <2>2. ASSUME NEW g \in [Nat -> D], NEW h \in [Nat -> D], NEW n \in Nat,
                 \A m \in Nat : rank[m] < rank[n] => g[m] = h[m]
          PROVE  phi[g][n] = phi[h][n]
      <3>1. n # 0 => rest(n) \in Nat /\ rest(n) < n
        BY <1>1
      <3>2. n # 0 => g[rest(n)] = h[rest(n)]
        BY <2>2, <3>1
      <3> QED
        BY <3>2
    <2> HIDE DEF phi, rank
    <2> QED
      BY <2>1, <2>2 DEF Decided
  <1>5. PICK f \in [Nat -> D] : f = phi[f]
    <2> HIDE DEF phi, rank
    <2>1. PICK d \in D : TRUE
      BY <1>3
    <2>2. Decided(phi, Nat, rank, D)
      BY <1>4
    <2> QED
      BY <2>2, DecidedRecursion
  <1>6. \E g : g = Unfolded(g)
    BY <1>5
  <1>7. ToRoman = Unfolded(ToRoman)
    BY <1>6 DEF ToRoman, RomanFit, rest
  <1> DEFINE S == {n \in Nat : ToRoman[n] \in D}
  <1>8. ASSUME NEW n \in Nat, 0 .. n - 1 \subseteq S
        PROVE  n \in S
    <2>1. CASE n = 0
      BY <1>3, <1>7, <2>1
    <2>2. CASE n # 0
      <3>1. rest(n) \in S /\ RomanFit(n) \in D
        BY <1>1, <1>8, <2>2
      <3>2. ToRoman[n] = RomanFit(n) \o ToRoman[rest(n)]
        BY <1>7, <2>2
      <3> QED
        BY <1>2, <3>1, <3>2
    <2> QED
      BY <2>1, <2>2
  <1> HIDE DEF S
  <1>9. Nat \subseteq S
    BY <1>8, NatSetInduction
  <1>10. \A n \in Nat : ToRoman[n] \in D
    BY <1>9 DEF S
  <1>11. ASSUME NEW n \in Nat
         PROVE  ToRoman[n] = IF n = 0 THEN <<>> ELSE RomanFit(n) \o ToRoman[rest(n)]
    BY <1>7
  <1> QED
    BY <1>10, <1>11 DEF D, rest

\* One more letter in front of a text, with the letter it precedes.
LEMMA NeighboursOf ==
    ASSUME NEW a \in Nat, NEW letters \in Seq(Nat)
    PROVE  /\ Neighbours(letters) \in Seq(Int \X Int)
           /\ Neighbours(<<a>> \o letters)
                  = <<<<a, IF letters = <<>> THEN 0 ELSE letters[1]>>>> \o Neighbours(letters)
  <1> DEFINE n == Len(letters)
             more == <<a>> \o letters
             first == <<a, IF letters = <<>> THEN 0 ELSE letters[1]>>
             next == Neighbours(letters)
             both == <<first>> \o next
  <1>1. n \in Nat /\ DOMAIN letters = 1 .. n /\ \A i \in 1 .. n : letters[i] \in Nat
    OBVIOUS
  <1>2. Len(more) = n + 1 /\ DOMAIN more = 1 .. n + 1 /\ more[1] = a
        /\ \A i \in 1 .. n : more[i + 1] = letters[i]
    OBVIOUS
  <1>3. next = [i \in 1 .. n |-> <<letters[i], IF i < n THEN letters[i + 1] ELSE 0>>]
    BY <1>1 DEF Neighbours
  <1>4. Neighbours(more) = [i \in 1 .. n + 1 |-> <<more[i], IF i < n + 1 THEN more[i + 1] ELSE 0>>]
    BY <1>2 DEF Neighbours
  <1>5. letters = <<>> <=> n = 0
    OBVIOUS
  <1> HIDE DEF n, more, next, first
  <1>6. next \in Seq(Int \X Int) /\ Len(next) = n /\ first \in Int \X Int
    <2>1. \A i \in 1 .. n : <<letters[i], IF i < n THEN letters[i + 1] ELSE 0>> \in Int \X Int
      BY <1>1
    <2>2. next \in [1 .. n -> Int \X Int]
      BY <1>3, <2>1
    <2>3. next \in Seq(Int \X Int) /\ Len(next) = n
      BY <1>1, <2>2
    <2>4. first \in Int \X Int
      <3>1. letters # <<>> => letters[1] \in Nat
        <4>1. n # 0 => 1 \in 1 .. n
          BY <1>1
        <4> QED
          BY <1>1, <1>5, <4>1
      <3> QED
        BY <3>1 DEF first
    <2> QED
      BY <2>3, <2>4
  <1>7. /\ DOMAIN both = 1 .. n + 1 /\ both[1] = first
        /\ \A i \in 1 .. n : both[i + 1] = next[i]
    BY <1>6
  <1> HIDE DEF both
  <1>8. ASSUME NEW i \in 1 .. n + 1
        PROVE  Neighbours(more)[i] = both[i]
    <2>1. Neighbours(more)[i] = <<more[i], IF i < n + 1 THEN more[i + 1] ELSE 0>>
      BY <1>4
    <2>2. CASE i = 1
      <3>1. more[1] = a /\ (n # 0 => more[1 + 1] = letters[1])
        <4>1. n # 0 => 1 \in 1 .. n
          BY <1>1
        <4> QED
          BY <1>2, <4>1
      <3>2. 1 < n + 1 <=> n # 0
        BY <1>1
      <3> QED
        BY <1>5, <1>7, <2>1, <2>2, <3>1, <3>2 DEF first
    <2>3. CASE i # 1
      <3> DEFINE j == i - 1
      <3>1. j \in 1 .. n /\ i = j + 1 /\ (j < n => j + 1 \in 1 .. n) /\ (j < n <=> i < n + 1)
        BY <1>1, <2>3
      <3> HIDE DEF j
      <3>2. both[i] = next[j] /\ more[i] = letters[j] /\ (j < n => more[i + 1] = letters[j + 1])
        <4>1. j < n => more[(j + 1) + 1] = letters[j + 1]
          BY <1>2, <3>1
        <4> QED
          BY <1>2, <1>7, <3>1, <4>1
      <3>3. next[j] = <<letters[j], IF j < n THEN letters[j + 1] ELSE 0>>
        BY <1>3, <3>1
      <3> QED
        BY <2>1, <3>1, <3>2, <3>3
    <2> QED
      BY <2>2, <2>3
  <1>9. DOMAIN Neighbours(more) = 1 .. n + 1 /\ DOMAIN both = 1 .. n + 1
    BY <1>4, <1>7
  <1>10. Neighbours(more) = both
    <2>1. both \in Seq(Int \X Int)
      BY <1>6 DEF both
    <2>2. both = [i \in 1 .. n + 1 |-> both[i]]
      BY <1>7, <2>1
    <2>3. Neighbours(more) = [i \in 1 .. n + 1 |-> Neighbours(more)[i]]
      BY <1>4
    <2> QED
      BY <1>8, <2>2, <2>3
  <1> QED
    BY <1>6, <1>10 DEF more, first, both, next

LEMMA PairConcat ==
    \A a, b \in Int : <<a, b>> = <<a>> \o <<b>>
  <1> TAKE a, b \in Int
  <1> DEFINE both == <<a>> \o <<b>>
             pair == <<a, b>>
  <1>1. both \in Seq(Int) /\ Len(both) = 2 /\ both[1] = a /\ both[2] = b
    OBVIOUS
  <1>2. pair \in Seq(Int) /\ Len(pair) = 2 /\ pair[1] = a /\ pair[2] = b
    OBVIOUS
  <1> HIDE DEF both, pair
  <1>3. \A i \in 1 .. 2 : i = 1 \/ i = 2
    OBVIOUS
  <1>4. \A i \in 1 .. Len(both) : both[i] = pair[i]
    BY <1>1, <1>2, <1>3
  <1> QED
    BY <1>1, <1>2, <1>4, SeqEqual DEF both, pair

\* A letter before a larger one is taken away, any other is added.
LEMMA RomanReadOn ==
    ASSUME NEW a \in Nat, NEW letters \in Seq(Nat), NEW start \in Int,
           NEW next \in Int, next = IF letters = <<>> THEN 0 ELSE letters[1]
    PROVE  ReadAll(RomanLetter, start, Neighbours(<<a>> \o letters))
              = ReadAll(RomanLetter, IF next > a THEN start - a ELSE start + a, Neighbours(letters))
  <1> DEFINE C == Int \X Int
             first == <<a, next>>
             one == <<first>>
             rest == Neighbours(letters)
             then == IF next > a THEN start - a ELSE start + a
  <1>1. first \in C /\ first[1] = a /\ first[2] = next /\ then \in Int
    OBVIOUS
  <1>2. one \in Seq(C)
    BY <1>1
  <1>3. rest \in Seq(C) /\ Neighbours(<<a>> \o letters) = one \o rest
    BY NeighboursOf
  <1>4. RomanLetter \in [Int -> [C -> Int]]
    BY DEF RomanLetter
  <1>5. RomanLetter[start][first] = then
    BY <1>1 DEF RomanLetter
  <1> HIDE DEF C, first, one, rest, then
  <1>6. Loop(Int, C, RomanLetter, start, one) /\ Loop(Int, C, RomanLetter, start, rest)
    BY <1>2, <1>3, <1>4, Zenon DEF Loop
  <1>7. ReadAll(RomanLetter, start, one) = then
    <2>1. Loop(Int, C, RomanLetter, start, <<first>>)
      BY <1>6 DEF one
    <2>2. ReadAll(RomanLetter, start, <<first>>) = RomanLetter[start][first]
      BY <2>1, ReadAllOne
    <2> QED
      BY <1>5, <2>2 DEF one
  <1>8. ReadAll(RomanLetter, start, one \o rest) = ReadAll(RomanLetter, then, rest)
    BY <1>6, <1>7, ReadAllConcat
  <1> QED
    BY <1>3, <1>8 DEF rest, then

LEMMA RomanHead ==
    ASSUME NEW n \in Nat, n # 0
    PROVE  ToRoman[n] # <<>> /\ ToRoman[n][1] = RomanFit(n)[1]
  <1> DEFINE rest == ToRoman[n - RomanValue(RomanFit(n))]
  <1>1. ToRoman[n] = RomanFit(n) \o rest
    BY RomanUnfolds
  <1>2. rest \in Seq(Nat)
    <2>1. RomanValue(RomanFit(n)) \in 1 .. n
      BY RomanFollows
    <2> QED
      BY <2>1, RomanUnfolds
  <1>3. (\E a \in Nat : RomanFit(n) = <<a>>) \/ (\E a, b \in Nat : RomanFit(n) = <<a, b>>)
    BY RomanFollows
  <1> HIDE DEF rest
  <1>4. \A a \in Nat : <<a>> \o rest # <<>> /\ (<<a>> \o rest)[1] = a
    BY <1>2
  <1>5. \A a, b \in Nat : <<a, b>> \o rest # <<>> /\ (<<a, b>> \o rest)[1] = a
    BY <1>2
  <1> QED
    BY <1>1, <1>3, <1>4, <1>5

\* $parseInteger reads back the Roman numeral of every number that $formatInteger wrote.
THEOREM RomanReadBack ==
    ASSUME NEW n \in Nat
    PROVE  FromRoman(ToRoman[n]) = n
  <1> DEFINE S == {m \in Nat : \A start \in Int : ReadAll(RomanLetter, start, Neighbours(ToRoman[m])) = start + m}
  <1>1. ASSUME NEW m \in Nat, 0 .. m - 1 \subseteq S, NEW start \in Int
        PROVE  ReadAll(RomanLetter, start, Neighbours(ToRoman[m])) = start + m
    <2>1. CASE m = 0
      <3>1. ToRoman[m] = <<>>
        BY <2>1, RomanUnfolds
      <3>2. Neighbours(<<>>) = <<>>
        BY DEF Neighbours
      <3>3. RomanLetter \in [Int -> [Int \X Int -> Int]] /\ <<>> \in Seq(Int \X Int)
        BY DEF RomanLetter
      <3>4. Loop(Int, Int \X Int, RomanLetter, start, <<>>)
        BY <3>3, Zenon DEF Loop
      <3>5. ReadAll(RomanLetter, start, <<>>) = start
        BY <3>4, ReadAllEmpty
      <3> QED
        BY <2>1, <3>1, <3>2, <3>5
    <2>2. CASE m # 0
      <3> DEFINE fit == RomanFit(m)
                 k == m - RomanValue(fit)
                 rest == ToRoman[k]
                 next == IF rest = <<>> THEN 0 ELSE rest[1]
      <3>1. RomanValue(fit) \in 1 .. m /\ k \in 0 .. m - 1
        <4>1. RomanValue(fit) \in 1 .. m
          BY <2>2, RomanFollows
        <4> QED
          BY <4>1
      <3>2. rest \in Seq(Nat) /\ ToRoman[m] = fit \o rest
        <4>1. k \in Nat
          BY <3>1
        <4> QED
          BY <2>2, <4>1, RomanUnfolds
      <3>3. \A s \in Int : ReadAll(RomanLetter, s, Neighbours(rest)) = s + k
        BY <1>1, <3>1
      <3>4. next = (IF k = 0 THEN 0 ELSE RomanFit(k)[1]) /\ next \in Nat
        <4>1. CASE k = 0
          <5>1. rest = <<>>
            BY <4>1, RomanUnfolds
          <5> QED
            BY <4>1, <5>1
        <4>2. CASE k # 0
          <5>1. k \in Nat
            BY <3>1
          <5>2. rest # <<>> /\ rest[1] = RomanFit(k)[1]
            BY <4>2, <5>1, RomanHead
          <5>3. RomanFit(k)[1] \in Nat
            BY <4>2, <5>1, RomanFirst
          <5> HIDE DEF k
          <5> QED
            BY <4>2, <5>2, <5>3
        <4> QED
          BY <4>1, <4>2
      <3>5. \/ \E a \in Nat : fit = <<a>> /\ RomanValue(fit) = a /\ (k # 0 => RomanFit(k)[1] <= a)
            \/ \E a, b \in Nat : a < b /\ fit = <<a, b>> /\ RomanValue(fit) = b - a
                                 /\ (k # 0 => RomanFit(k)[1] <= b)
        BY <2>2, RomanFollows
      <3> HIDE DEF fit, k, rest, S
      <3>6. ASSUME NEW a \in Nat, fit = <<a>>, RomanValue(fit) = a, k # 0 => RomanFit(k)[1] <= a
            PROVE  ReadAll(RomanLetter, start, Neighbours(ToRoman[m])) = start + m
        <4>1. ~(next > a)
          BY <3>4, <3>6
        <4>2. ReadAll(RomanLetter, start, Neighbours(<<a>> \o rest))
                 = ReadAll(RomanLetter, IF next > a THEN start - a ELSE start + a, Neighbours(rest))
          BY <3>2, <3>4, RomanReadOn
        <4>3. ReadAll(RomanLetter, start + a, Neighbours(rest)) = start + a + k
          BY <3>3
        <4>4. k = m - a
          BY <3>6 DEF k
        <4>5. start + a + k = start + m
          BY <4>4
        <4> QED
          BY <3>2, <3>6, <4>1, <4>2, <4>3, <4>5
      <3>7. ASSUME NEW a \in Nat, NEW b \in Nat, a < b, fit = <<a, b>>, RomanValue(fit) = b - a,
                   k # 0 => RomanFit(k)[1] <= b
            PROVE  ReadAll(RomanLetter, start, Neighbours(ToRoman[m])) = start + m
        <4> DEFINE more == <<b>> \o rest
        <4>1. more \in Seq(Nat) /\ more # <<>> /\ more[1] = b /\ fit \o rest = <<a>> \o more
          <5>1. more \in Seq(Nat) /\ more # <<>> /\ more[1] = b
            BY <3>2
          <5>2. <<a, b>> \o rest = <<a>> \o (<<b>> \o rest)
            <6>1. <<a>> \in Seq(Nat) /\ <<b>> \in Seq(Nat) /\ <<a, b>> = <<a>> \o <<b>>
              BY PairConcat
            <6> QED
              BY <3>2, <6>1, ConcatAssociative
          <5> QED
            BY <3>7, <5>1, <5>2
        <4>2. ReadAll(RomanLetter, start, Neighbours(<<a>> \o more))
                 = ReadAll(RomanLetter, start - a, Neighbours(more))
          <5>1. b \in Int /\ b = (IF more = <<>> THEN 0 ELSE more[1]) /\ b > a
            BY <3>7, <4>1
          <5> HIDE DEF more
          <5>2. ReadAll(RomanLetter, start, Neighbours(<<a>> \o more))
                   = ReadAll(RomanLetter, IF b > a THEN start - a ELSE start + a, Neighbours(more))
            BY <4>1, <5>1, RomanReadOn
          <5> QED
            BY <5>1, <5>2
        <4>3. ~(next > b)
          BY <3>4, <3>7
        <4>4. ReadAll(RomanLetter, start - a, Neighbours(<<b>> \o rest))
                 = ReadAll(RomanLetter, IF next > b THEN start - a - b ELSE start - a + b, Neighbours(rest))
          <5>1. start - a \in Int
            OBVIOUS
          <5> QED
            BY <3>2, <3>4, <5>1, RomanReadOn
        <4>5. ReadAll(RomanLetter, start - a + b, Neighbours(rest)) = start - a + b + k
          BY <3>3
        <4>6. k = m - (b - a)
          BY <3>7 DEF k
        <4>7. start - a + b + k = start + m
          BY <4>6
        <4> HIDE DEF next
        <4> QED
          BY <3>2, <4>1, <4>2, <4>3, <4>4, <4>5, <4>7
      <3> QED
        BY <3>5, <3>6, <3>7
    <2> QED
      BY <2>1, <2>2
  <1>2. ASSUME NEW m \in Nat, 0 .. m - 1 \subseteq S
        PROVE  m \in S
    BY <1>1, <1>2
  <1> HIDE DEF S
  <1>3. Nat \subseteq S
    BY <1>2, NatSetInduction
  <1>4. ReadAll(RomanLetter, 0, Neighbours(ToRoman[n])) = 0 + n
    BY <1>3 DEF S
  <1> QED
    BY <1>4 DEF FromRoman

-----------------------------------------------------------------------------
(* Words.                                                                  *)

\* What has been read of words: the total of their scales, and what comes after.
Count(total, current) == [total |-> total, current |-> current]
Told(words, from, to) ==
    from \in Counts /\ to \in Counts /\ words \in Seq(Int) /\ ReadAll(Word, from, words) = to

LEMMA CountIn ==
    ASSUME NEW t \in Int, NEW c \in Int
    PROVE  Count(t, c) \in Counts
  BY DEF Count, Counts

LEMMA WordIn ==
    Word \in [Counts -> [Int -> Counts]]
  <1>1. ASSUME NEW acc \in Counts, NEW w \in Int
        PROVE  (CASE w = And -> acc
                  [] w = 100 -> [acc EXCEPT !.current = (IF @ = 0 THEN 1 ELSE @) * 100]
                  [] w >= 1000 -> Scale(acc, w)
                  [] OTHER -> [acc EXCEPT !.current = @ + w]) \in Counts
    <2>1. [acc EXCEPT !.current = (IF @ = 0 THEN 1 ELSE @) * 100] \in Counts
      BY DEF Counts
    <2>2. [acc EXCEPT !.current = @ + w] \in Counts
      BY DEF Counts
    <2>3. Scale(acc, w) \in Counts
      BY DEF Scale, Counts
    <2>4. CASE w = And
      BY <2>4 DEF And
    <2>5. CASE w = 100
      BY <2>1, <2>5 DEF And
    <2>6. CASE w >= 1000
      BY <2>3, <2>6 DEF And
    <2>7. CASE w # And /\ w # 100 /\ ~(w >= 1000)
      BY <2>2, <2>7 DEF And
    <2> QED
      BY <2>4, <2>5, <2>6, <2>7
  <1> QED
    BY <1>1 DEF Word

\* What each kind of word does to a count.
LEMMA WordAnd ==
    ASSUME NEW t \in Int, NEW c \in Int
    PROVE  Word[Count(t, c)][And] = Count(t, c)
  <1>1. And \in Int /\ And # 100 /\ ~(And >= 1000)
    BY DEF And
  <1>2. PICK w \in Int : w = And
    BY <1>1
  <1>3. Word[Count(t, c)][w] = Count(t, c)
    BY <1>1, <1>2, CountIn DEF Word
  <1> QED
    BY <1>2, <1>3

LEMMA WordHundred ==
    ASSUME NEW t \in Int, NEW c \in Int, c # 0
    PROVE  Word[Count(t, c)][100] = Count(t, c * 100)
  <1>1. Word[Count(t, c)][100] = [Count(t, c) EXCEPT !.current = (IF @ = 0 THEN 1 ELSE @) * 100]
    <2>1. 100 \in Int /\ 100 # And
      BY DEF And
    <2> QED
      BY <2>1, CountIn DEF Word
  <1> QED
    BY <1>1 DEF Count

LEMMA WordAdds ==
    ASSUME NEW t \in Int, NEW c \in Int, NEW w \in 0 .. 99
    PROVE  Word[Count(t, c)][w] = Count(t, c + w)
  <1>1. Word[Count(t, c)][w] = [Count(t, c) EXCEPT !.current = @ + w]
    <2>1. w \in Int /\ w # And /\ w # 100 /\ ~(w >= 1000)
      BY DEF And
    <2> QED
      BY <2>1, CountIn DEF Word
  <1> QED
    BY <1>1 DEF Count

LEMMA WordScales ==
    ASSUME NEW t \in Int, NEW c \in Int, c # 0, NEW w \in Int, w >= 1000
    PROVE  Word[Count(t, c)][w] = Count(t + c * w, 0)
  <1>1. Word[Count(t, c)][w] = Scale(Count(t, c), w)
    <2>1. w # And /\ w # 100
      BY DEF And
    <2> QED
      BY <2>1, CountIn DEF Word
  <1> QED
    BY <1>1 DEF Count, Scale

LEMMA ToldNothing ==
    ASSUME NEW from \in Counts
    PROVE  Told(<<>>, from, from)
  <1>1. <<>> \in Seq(Int)
    OBVIOUS
  <1>2. Loop(Counts, Int, Word, from, <<>>)
    BY <1>1, WordIn, Zenon DEF Loop
  <1> QED
    BY <1>1, <1>2, ReadAllEmpty DEF Told

LEMMA ToldOne ==
    ASSUME NEW from \in Counts, NEW w \in Int
    PROVE  Told(<<w>>, from, Word[from][w])
  <1>1. <<w>> \in Seq(Int)
    OBVIOUS
  <1>2. Word \in [Counts -> [Int -> Counts]]
    BY WordIn
  <1>3. Loop(Counts, Int, Word, from, <<w>>)
    BY <1>1, <1>2, Zenon DEF Loop
  <1>4. ReadAll(Word, from, <<w>>) = Word[from][w]
    BY <1>3, ReadAllOne
  <1> QED
    BY <1>1, <1>2, <1>4 DEF Told

LEMMA ToldBoth ==
    ASSUME NEW s, NEW t, NEW from, NEW then, NEW to, Told(s, from, then), Told(t, then, to)
    PROVE  Told(s \o t, from, to)
  <1>1. /\ from \in Counts /\ then \in Counts /\ to \in Counts /\ s \in Seq(Int) /\ t \in Seq(Int)
        /\ ReadAll(Word, from, s) = then /\ ReadAll(Word, then, t) = to
    BY DEF Told
  <1>2. Loop(Counts, Int, Word, from, s) /\ Loop(Counts, Int, Word, from, t)
    BY <1>1, WordIn, Zenon DEF Loop
  <1>3. ReadAll(Word, from, s \o t) = to
    BY <1>1, <1>2, ReadAllConcat
  <1>4. s \o t \in Seq(Int)
    BY <1>1
  <1> QED
    BY <1>1, <1>3, <1>4 DEF Told

\* Words below a hundred add up, and those of hundreds are read as them.
LEMMA BelowHundredTold ==
    ASSUME NEW n \in 0 .. 99, NEW t \in Int, NEW c \in Int
    PROVE  Told(BelowHundred(n), Count(t, c), Count(t, c + n))
  <1>1. \A d \in Int : Count(t, d) \in Counts
    BY CountIn
  <1>2. ASSUME NEW d \in Int, NEW w \in 0 .. 99
        PROVE  Told(<<w>>, Count(t, d), Count(t, d + w))
    <2>1. Told(<<w>>, Count(t, d), Word[Count(t, d)][w])
      BY <1>1, ToldOne
    <2>2. Word[Count(t, d)][w] = Count(t, d + w)
      BY WordAdds
    <2> QED
      BY <2>1, <2>2
  <1>3. CASE n = 0
    <2>1. BelowHundred(n) = <<>> /\ c + n = c
      BY <1>3 DEF BelowHundred
    <2> QED
      BY <1>1, <2>1, ToldNothing
  <1>4. CASE n \in 1 .. 20
    <2>1. BelowHundred(n) = <<n>>
      BY <1>4 DEF BelowHundred
    <2> QED
      BY <1>2, <2>1
  <1>5. CASE n \in 21 .. 99
    <2> DEFINE tens == 10 * (n \div 10)
               ones == n % 10
               more == IF ones = 0 THEN <<>> ELSE <<ones>>
    <2>1. tens \in 0 .. 99 /\ ones \in 0 .. 99 /\ c + tens \in Int /\ c + tens + ones = c + n
      BY <1>5
    <2>2. BelowHundred(n) = <<tens>> \o more
      <3>1. n # 0 /\ n \notin 1 .. 20
        BY <1>5
      <3> QED
        BY <3>1, Zenon DEF BelowHundred
    <2> HIDE DEF tens, ones
    <2>3. Told(<<tens>>, Count(t, c), Count(t, c + tens))
      BY <1>2, <2>1
    <2>4. Told(more, Count(t, c + tens), Count(t, c + n))
      <3>1. CASE ones = 0
        <4>1. c + tens = c + n
          BY <2>1, <3>1
        <4> QED
          BY <1>1, <2>1, <3>1, <4>1, ToldNothing
      <3>2. CASE ones # 0
        <4>1. Told(<<ones>>, Count(t, c + tens), Count(t, c + tens + ones))
          BY <1>2, <2>1
        <4> QED
          BY <2>1, <3>2, <4>1
      <3> QED
        BY <3>1, <3>2
    <2> QED
      BY <2>2, <2>3, <2>4, ToldBoth
  <1> QED
    BY <1>3, <1>4, <1>5

LEMMA BelowThousandTold ==
    ASSUME NEW n \in 0 .. 999, NEW t \in Int
    PROVE  Told(BelowThousand(n), Count(t, 0), Count(t, n))
  <1>1. CASE n < 100
    <2>1. BelowThousand(n) = BelowHundred(n) /\ 0 + n = n /\ n \in 0 .. 99
      BY <1>1 DEF BelowThousand
    <2>2. Told(BelowHundred(n), Count(t, 0), Count(t, 0 + n))
      <3>1. 0 \in Int
        OBVIOUS
      <3> QED
        BY <2>1, <3>1, BelowHundredTold
    <2> QED
      BY <2>1, <2>2
  <1>2. CASE ~(n < 100)
    <2> DEFINE h == n \div 100
               rest == n % 100
               hundreds == <<h, 100>>
               more == IF rest = 0 THEN <<>> ELSE <<And>> \o BelowHundred(rest)
    <2>1. h \in 1 .. 9 /\ rest \in 0 .. 99 /\ h * 100 + rest = n /\ 0 + h = h /\ h \in 0 .. 99
      BY <1>2
    <2>2. BelowThousand(n) = hundreds \o more
      BY <1>2 DEF BelowThousand
    <2> HIDE DEF h, rest
    <2>3. Count(t, 0) \in Counts /\ Count(t, h) \in Counts /\ Count(t, h * 100) \in Counts
      <3>1. 0 \in Int /\ h \in Int /\ h * 100 \in Int
        BY <2>1
      <3> QED
        BY <3>1, CountIn
    <2>4. Told(hundreds, Count(t, 0), Count(t, h * 100))
      <3>1. Told(<<h>>, Count(t, 0), Count(t, h))
        <4>1. Word[Count(t, 0)][h] = Count(t, h)
          <5>1. 0 \in Int
            OBVIOUS
          <5>2. Word[Count(t, 0)][h] = Count(t, 0 + h)
            BY <2>1, <5>1, WordAdds
          <5> QED
            BY <2>1, <5>2
        <4>2. h \in Int
          BY <2>1
        <4> QED
          BY <2>3, <4>1, <4>2, ToldOne
      <3>2. Told(<<100>>, Count(t, h), Count(t, h * 100))
        <4>1. Word[Count(t, h)][100] = Count(t, h * 100)
          <5>1. h \in Int /\ h # 0
            BY <2>1
          <5> QED
            BY <5>1, WordHundred
        <4>2. 100 \in Int
          OBVIOUS
        <4> QED
          BY <2>3, <4>1, <4>2, ToldOne
      <3>3. hundreds = <<h>> \o <<100>>
        <4>1. h \in Int /\ 100 \in Int
          BY <2>1
        <4> QED
          BY <4>1, PairConcat
      <3> QED
        BY <3>1, <3>2, <3>3, ToldBoth
    <2>5. Told(more, Count(t, h * 100), Count(t, n))
      <3>1. CASE rest = 0
        <4>1. n = h * 100
          BY <2>1, <3>1
        <4> QED
          BY <2>3, <3>1, <4>1, ToldNothing
      <3>2. CASE rest # 0
        <4>1. Told(<<And>>, Count(t, h * 100), Count(t, h * 100))
          <5>1. h * 100 \in Int /\ And \in Int
            BY <2>1 DEF And
          <5>2. Word[Count(t, h * 100)][And] = Count(t, h * 100)
            BY <5>1, WordAnd
          <5> QED
            BY <2>3, <5>1, <5>2, ToldOne
        <4>2. Told(BelowHundred(rest), Count(t, h * 100), Count(t, h * 100 + rest))
          <5>1. h * 100 \in Int
            BY <2>1
          <5> QED
            BY <2>1, <5>1, BelowHundredTold
        <4> QED
          BY <2>1, <3>2, <4>1, <4>2, ToldBoth
      <3> QED
        BY <3>1, <3>2
    <2> QED
      BY <2>2, <2>4, <2>5, ToldBoth
  <1> QED
    BY <1>1, <1>2

LEMMA ScalesSized ==
    \E size \in Nat : /\ size = Len(Scales) /\ size >= 1 /\ DOMAIN Scales = 1 .. size
                      /\ \A k \in 1 .. size : Scales[k] \in Nat
  <1>1. Len(Scales) \in Nat /\ DOMAIN Scales = 1 .. Len(Scales)
        /\ \A k \in 1 .. Len(Scales) : Scales[k] \in Nat
    BY ScalesAssumption
  <1>2. Len(Scales) >= 1
    BY ScalesAssumption
  <1> WITNESS Len(Scales) \in Nat
  <1> QED
    BY <1>1, <1>2

LEMMA ScalesLarge ==
    ASSUME NEW i \in 1 .. Len(Scales)
    PROVE  Scales[i] \in Int /\ Scales[i] >= 1000
  <1>1. PICK size \in Nat : /\ size = Len(Scales) /\ size >= 1 /\ DOMAIN Scales = 1 .. size
                            /\ \A k \in 1 .. size : Scales[k] \in Nat
    BY ScalesSized
  <1> DEFINE S == {d \in 0 .. size - 1 : Scales[size - d] >= 1000}
  <1>2. ASSUME NEW d \in 0 .. size - 1, \A e \in 0 .. size - 1 : e < d => e \in S
        PROVE  d \in S
    <2>1. CASE d = 0
      <3>1. Scales[size] = 1000
        BY <1>1, ScalesAssumption DEF Last
      <3>2. size - 0 = size
        BY <1>1
      <3> QED
        BY <2>1, <3>1, <3>2
    <2>2. CASE d # 0
      <3> DEFINE k == size - d
      <3>1. d - 1 \in S /\ k \in 1 .. size - 1 /\ size - (d - 1) = k + 1 /\ k \in 1 .. size
            /\ k + 1 \in 1 .. size
        <4> HIDE DEF S
        <4>1. d - 1 \in 0 .. size - 1 /\ d - 1 < d
          BY <1>1, <2>2
        <4>2. k \in 1 .. size - 1 /\ size - (d - 1) = k + 1 /\ k \in 1 .. size /\ k + 1 \in 1 .. size
          BY <1>1, <2>2
        <4> QED
          BY <1>2, <4>1, <4>2
      <3> HIDE DEF k
      <3>2. Scales[k + 1] >= 1000
        BY <3>1
      <3>3. Scales[k] = 1000 * Scales[k + 1]
        BY <1>1, <3>1, ScalesAssumption
      <3>4. Scales[k] >= 1000
        <4>1. \A a, b \in Nat : b >= 1000 /\ a = 1000 * b => a >= 1000
          OBVIOUS
        <4> QED
          BY <1>1, <3>1, <3>2, <3>3, <4>1
      <3> QED
        BY <3>4 DEF k
    <2> QED
      BY <2>1, <2>2
  <1> HIDE DEF S
  <1>3. 0 .. size - 1 \subseteq S
    <2>1. size - 1 \in Nat
      BY <1>1
    <2> QED
      BY <1>2, <2>1, IntervalInduction
  <1>4. size - i \in 0 .. size - 1 /\ size - (size - i) = i
    BY <1>1
  <1>5. Scales[size - (size - i)] >= 1000
    BY <1>3, <1>4 DEF S
  <1> QED
    BY <1>1, <1>4, <1>5

\* The scale a number is said with, how many there are of it, and what is left.
ScaleOf(n) == Scales[FirstFit(Scales, n)]

SaidWith(n, scale, q, r) ==
    /\ scale \in Nat /\ scale >= 1000 /\ scale \in ToSet(Scales)
    /\ q \in 1 .. n - 1 /\ r \in 0 .. n - 1 /\ scale * q + r = n
    /\ n < 1000 * Scales[1] => q < 1000

LEMMA ScaleFits ==
    ASSUME NEW n \in Nat, n >= 1000
    PROVE  SaidWith(n, ScaleOf(n), n \div ScaleOf(n), n % ScaleOf(n))
  <1>1. PICK size \in Nat : /\ size = Len(Scales) /\ size >= 1 /\ DOMAIN Scales = 1 .. size
                            /\ \A k \in 1 .. size : Scales[k] \in Nat
    BY ScalesSized
  <1> DEFINE fits == {i \in 1 .. size : Scales[i] <= n}
             k == Min(fits)
             scale == Scales[k]
  <1>2. k \in fits /\ \A i \in fits : k <= i
    <2>1. size \in fits
      <3>1. Scales[size] = 1000
        BY <1>1, ScalesAssumption DEF Last
      <3> QED
        BY <1>1, <3>1
    <2>2. fits \in SUBSET Nat /\ fits # {}
      BY <2>1
    <2> HIDE DEF fits
    <2> QED
      BY <2>2, MinIn
  <1>3. k \in 1 .. size /\ scale \in Nat /\ scale <= n
    BY <1>1, <1>2
  <1>4. \A j \in 1 .. k - 1 : Scales[j] > n
    <2>1. ASSUME NEW j \in 1 .. k - 1
          PROVE  Scales[j] > n
      <3>1. j \in 1 .. size /\ ~(k <= j) /\ Scales[j] \in Nat
        <4> HIDE DEF k
        <4>1. j \in 1 .. size /\ ~(k <= j)
          BY <1>1, <1>3
        <4> QED
          BY <1>1, <4>1
      <3> HIDE DEF k
      <3> QED
        BY <1>2, <3>1
    <2> QED
      BY <2>1
  <1> HIDE DEF fits, k
  <1>5. FirstFit(Scales, n) = k
    <2>1. Scales \in [1 .. size -> Int] /\ n \in Int
      BY <1>1, ScalesAssumption
    <2> QED
      BY <1>3, <1>4, <2>1, FirstFitIs
  <1>6. ScaleOf(n) = scale
    BY <1>5 DEF ScaleOf
  <1>7. scale >= 1000 /\ scale \in ToSet(Scales)
    BY <1>1, <1>3, ScalesLarge DEF ToSet
  <1>8. n < 1000 * Scales[1] => n < 1000 * scale
    <2>1. CASE k = 1
      BY <2>1
    <2>2. CASE k # 1
      <3>1. k - 1 \in 1 .. k - 1 /\ k - 1 \in 1 .. Len(Scales) - 1 /\ k - 1 + 1 = k
        BY <1>1, <1>3, <2>2
      <3>2. Scales[k - 1] > n
        BY <1>4, <3>1
      <3>3. Scales[k - 1] = 1000 * scale
        <4>1. PICK j \in 1 .. Len(Scales) - 1 : j = k - 1 /\ j + 1 = k
          BY <3>1
        <4>2. Scales[j] = 1000 * Scales[j + 1]
          BY ScalesAssumption
        <4> QED
          BY <4>1, <4>2
      <3> QED
        BY <3>2, <3>3
    <2> QED
      BY <2>1, <2>2
  <1> HIDE DEF scale
  <1> DEFINE q == n \div scale
             r == n % scale
  <1>9. q \in Int /\ r \in Int /\ 0 <= r /\ r < scale /\ scale * q + r = n
    BY <1>3, <1>7
  <1> HIDE DEF q, r
  <1>10. q >= 1
    <2>1. ASSUME ~(q >= 1) PROVE FALSE
      <3>1. q <= 0
        BY <1>9, <2>1
      <3>2. scale * q <= 0
        BY <1>3, <1>9, <3>1
      <3> QED
        BY <1>3, <1>9, <3>2
    <2> QED
      BY <2>1
  <1>11. q < n
    <2>1. scale * q >= 1000 * q
      BY <1>3, <1>7, <1>9, <1>10
    <2> QED
      BY <1>3, <1>9, <1>10, <2>1
  <1>12. ASSUME n < 1000 * scale
         PROVE  q < 1000
    <2>1. ASSUME ~(q < 1000) PROVE FALSE
      <3>1. scale * q >= scale * 1000
        BY <1>3, <1>7, <1>9, <2>1
      <3> QED
        BY <1>3, <1>9, <1>12, <3>1
    <2> QED
      BY <2>1
  <1>13. q \in 1 .. n - 1 /\ r \in 0 .. n - 1
    BY <1>3, <1>9, <1>10, <1>11
  <1>14. n < 1000 * Scales[1] => q < 1000
    BY <1>8, <1>12
  <1>15. SaidWith(n, scale, q, r)
    BY <1>3, <1>7, <1>9, <1>13, <1>14 DEF SaidWith
  <1>16. SaidWith(n, scale, n \div scale, n % scale)
    BY <1>15 DEF q, r
  <1> QED
    BY <1>6, <1>16

\* What stands before the rest of a number.
Joint(rest) == IF rest \in 1 .. 99 THEN <<And>> ELSE <<>>

LEMMA WordsUnfold ==
    \A n \in Nat :
        /\ ToWords[n] \in Seq(Int)
        /\ ToWords[n] =
              IF n < 1000 THEN BelowThousand(n)
              ELSE ToWords[n \div ScaleOf(n)] \o <<ScaleOf(n)>> \o Joint(n % ScaleOf(n))
                      \o ToWords[n % ScaleOf(n)]
  <1> DEFINE D == Seq(Int)
             many(n) == n \div ScaleOf(n)
             rest(n) == n % ScaleOf(n)
             said(n, s, t) == s \o <<ScaleOf(n)>> \o Joint(rest(n)) \o t
             Unfolded(f) ==
                 [n \in Nat |-> IF n < 1000 THEN BelowThousand(n) ELSE said(n, f[many(n)], f[rest(n)])]
             phi == [f \in [Nat -> D] |-> Unfolded(f)]
             rank == [n \in Nat |-> n]
  <1>1. ASSUME NEW n \in Nat, ~(n < 1000)
        PROVE  many(n) \in 0 .. n - 1 /\ rest(n) \in 0 .. n - 1 /\ ScaleOf(n) \in Int
    <2>1. SaidWith(n, ScaleOf(n), many(n), rest(n))
      BY <1>1, ScaleFits
    <2> HIDE DEF many, rest
    <2> QED
      BY <2>1 DEF SaidWith
  <1> HIDE DEF many, rest
  <1>2. ASSUME NEW n \in Nat, ~(n < 1000), NEW s \in D, NEW t \in D
        PROVE  said(n, s, t) \in D
    <2>1. <<ScaleOf(n)>> \in D
      BY <1>1, <1>2
    <2>2. Joint(rest(n)) \in D
      BY DEF Joint, And
    <2>3. \A x, y \in D : x \o y \in D
      OBVIOUS
    <2> HIDE DEF D
    <2> QED
      BY <1>2, <2>1, <2>2, <2>3
  <1>3. ASSUME NEW n \in Nat, n < 1000
        PROVE  BelowThousand(n) \in D
    <2>1. 0 \in Int /\ n \in 0 .. 999
      BY <1>3
    <2>2. Told(BelowThousand(n), Count(0, 0), Count(0, n))
      BY <2>1, BelowThousandTold
    <2> QED
      BY <2>2 DEF Told
  <1>4. <<>> \in D
    OBVIOUS
  <1> HIDE DEF D, said
  <1>5. Decided(phi, Nat, rank, D)
    <2>1. rank \in [Nat -> Nat] /\ phi \in [[Nat -> D] -> [Nat -> D]]
      <3>1. ASSUME NEW f \in [Nat -> D], NEW n \in Nat
            PROVE  (IF n < 1000 THEN BelowThousand(n) ELSE said(n, f[many(n)], f[rest(n)])) \in D
        <4>1. CASE n < 1000
          BY <1>3, <4>1
        <4>2. CASE ~(n < 1000)
          <5>1. many(n) \in Nat /\ rest(n) \in Nat
            BY <1>1, <4>2
          <5>2. f[many(n)] \in D /\ f[rest(n)] \in D
            BY <5>1
          <5> QED
            BY <1>2, <4>2, <5>2
        <4> QED
          BY <4>1, <4>2
      <3> QED
        BY <3>1
    <2>2. ASSUME NEW g \in [Nat -> D], NEW h \in [Nat -> D], NEW n \in Nat,
                 \A m \in Nat : rank[m] < rank[n] => g[m] = h[m]
          PROVE  phi[g][n] = phi[h][n]
      <3>1. ~(n < 1000) => many(n) \in Nat /\ many(n) < n /\ rest(n) \in Nat /\ rest(n) < n
        BY <1>1
      <3>2. ~(n < 1000) => g[many(n)] = h[many(n)] /\ g[rest(n)] = h[rest(n)]
        BY <2>2, <3>1
      <3> QED
        BY <3>2
    <2> HIDE DEF phi, rank
    <2> QED
      BY <2>1, <2>2 DEF Decided
  <1>6. PICK f \in [Nat -> D] : f = phi[f]
    <2> HIDE DEF phi, rank
    <2>1. PICK d \in D : TRUE
      BY <1>4
    <2>2. Decided(phi, Nat, rank, D)
      BY <1>5
    <2> QED
      BY <2>2, DecidedRecursion
  <1>7. \E g : g = Unfolded(g)
    BY <1>6
  <1>8. ToWords = Unfolded(ToWords)
    BY <1>7 DEF ToWords, ScaleOf, Joint, many, rest, said
  <1> DEFINE S == {n \in Nat : ToWords[n] \in D}
  <1>9. ASSUME NEW n \in Nat, 0 .. n - 1 \subseteq S
        PROVE  n \in S
    <2>1. CASE n < 1000
      BY <1>3, <1>8, <2>1
    <2>2. CASE ~(n < 1000)
      <3>1. many(n) \in S /\ rest(n) \in S
        BY <1>1, <1>9, <2>2
      <3>2. ToWords[n] = said(n, ToWords[many(n)], ToWords[rest(n)])
        BY <1>8, <2>2
      <3> QED
        BY <1>2, <2>2, <3>1, <3>2
    <2> QED
      BY <2>1, <2>2
  <1> HIDE DEF S
  <1>10. Nat \subseteq S
    BY <1>9, NatSetInduction
  <1>11. \A n \in Nat : ToWords[n] \in D
    BY <1>10 DEF S
  <1>12. \A n \in Nat : ToWords[n] =
             IF n < 1000 THEN BelowThousand(n) ELSE said(n, ToWords[many(n)], ToWords[rest(n)])
    BY <1>8
  <1> QED
    BY <1>11, <1>12, Zenon DEF D, many, rest, said

LEMMA WordsBelowThousand ==
    ASSUME NEW n \in Nat, n < 1000
    PROVE  ToWords[n] = BelowThousand(n)
  BY WordsUnfold

LEMMA WordsIn ==
    ASSUME NEW n \in Nat
    PROVE  ToWords[n] \in Seq(Int)
  BY WordsUnfold

\* Words below a thousand of the largest scale are read as the number they say.
LEMMA WordsTold ==
    ASSUME NEW n \in Nat, n < 1000 * Scales[1], NEW t \in Int
    PROVE  \E u, c \in Int : u + c = t + n /\ Told(ToWords[n], Count(t, 0), Count(u, c))
  <1> DEFINE Reading(m, v) == \E u, c \in Int : u + c = v + m /\ Told(ToWords[m], Count(v, 0), Count(u, c))
             S == {m \in Nat : m < 1000 * Scales[1] => \A v \in Int : Reading(m, v)}
  <1>0. Scales[1] \in Nat
    <2>1. PICK size \in Nat : /\ size = Len(Scales) /\ size >= 1 /\ DOMAIN Scales = 1 .. size
                              /\ \A k \in 1 .. size : Scales[k] \in Nat
      BY ScalesSized
    <2> QED
      BY <2>1
  <1>1. ASSUME NEW m \in Nat, 0 .. m - 1 \subseteq S, m < 1000 * Scales[1], NEW v \in Int
        PROVE  Reading(m, v)
    <2>1. CASE m < 1000
      <3>1. ToWords[m] = BelowThousand(m)
        BY <2>1, WordsUnfold
      <3>2. Told(BelowThousand(m), Count(v, 0), Count(v, m))
        <4>1. m \in 0 .. 999
          BY <2>1
        <4> QED
          BY <4>1, BelowThousandTold
      <3>3. v \in Int /\ m \in Int /\ v + m = v + m
        OBVIOUS
      <3> QED
        BY <3>1, <3>2, <3>3
    <2>2. CASE ~(m < 1000)
      <3> DEFINE scale == ScaleOf(m)
                 q == m \div scale
                 r == m % scale
                 said == ToWords[q] \o <<scale>>
      <3>1. SaidWith(m, scale, q, r)
        BY <2>2, ScaleFits
      <3>2. ToWords[m] = said \o Joint(r) \o ToWords[r]
        BY <2>2, WordsUnfold
      <3> HIDE DEF scale, q, r, S, Reading
      <3>3. /\ scale \in Nat /\ scale >= 1000 /\ q \in 1 .. 999 /\ r \in 0 .. m - 1
            /\ scale * q + r = m /\ q \in Nat /\ q # 0 /\ q \in Int
        BY <1>1, <3>1 DEF SaidWith
      <3> DEFINE w == v + q * scale
      <3>4. w \in Int /\ w + r = v + m
        BY <3>3
      <3> HIDE DEF w
      <3>5. Told(ToWords[q], Count(v, 0), Count(v, q))
        <4>1. ToWords[q] = BelowThousand(q)
          <5>1. q \in Nat /\ q < 1000
            BY <3>3
          <5> QED
            BY <5>1, WordsUnfold
        <4>2. q \in 0 .. 999
          BY <3>3
        <4> QED
          BY <4>1, <4>2, BelowThousandTold
      <3>6. Told(<<scale>>, Count(v, q), Count(w, 0))
        <4>1. Count(v, q) \in Counts /\ scale \in Int
          BY <3>3, CountIn
        <4>2. Word[Count(v, q)][scale] = Count(v + q * scale, 0)
          BY <3>3, <4>1, WordScales
        <4> QED
          BY <4>1, <4>2, ToldOne DEF w
      <3>7. Told(Joint(r), Count(w, 0), Count(w, 0))
        <4>0. Count(w, 0) \in Counts
          <5>1. 0 \in Int
            OBVIOUS
          <5> QED
            BY <3>4, <5>1, CountIn
        <4>1. CASE r \in 1 .. 99
          <5>1. And \in Int /\ 0 \in Int
            BY DEF And
          <5>2. Word[Count(w, 0)][And] = Count(w, 0)
            BY <3>4, <5>1, WordAnd
          <5>3. Told(<<And>>, Count(w, 0), Count(w, 0))
            BY <4>0, <5>1, <5>2, ToldOne
          <5> QED
            BY <4>1, <5>3 DEF Joint
        <4>2. CASE r \notin 1 .. 99
          BY <4>0, <4>2, ToldNothing DEF Joint
        <4> QED
          BY <4>1, <4>2
      <3>8. Reading(r, w)
        <4>1. r \in S
          BY <1>1, <3>3
        <4>2. r < 1000 * Scales[1]
          BY <1>0, <1>1, <3>3
        <4> QED
          BY <3>4, <4>1, <4>2 DEF S
      <3>9. PICK u \in Int, c \in Int : u + c = w + r /\ Told(ToWords[r], Count(w, 0), Count(u, c))
        BY <3>8 DEF Reading
      <3>10. Told(ToWords[m], Count(v, 0), Count(u, c))
        <4>1. Told(said, Count(v, 0), Count(w, 0))
          BY <3>5, <3>6, ToldBoth
        <4> HIDE DEF said
        <4>2. Told(said \o Joint(r), Count(v, 0), Count(w, 0))
          BY <3>7, <4>1, ToldBoth
        <4>3. Told((said \o Joint(r)) \o ToWords[r], Count(v, 0), Count(u, c))
          BY <3>9, <4>2, ToldBoth
        <4> QED
          BY <3>2, <4>3
      <3>11. u + c = v + m
        BY <3>4, <3>9
      <3> QED
        BY <3>10, <3>11 DEF Reading
    <2> QED
      BY <2>1, <2>2
  <1> HIDE DEF Reading
  <1>2. ASSUME NEW m \in Nat, 0 .. m - 1 \subseteq S
        PROVE  m \in S
    BY <1>1, <1>2
  <1> HIDE DEF S
  <1>3. Nat \subseteq S
    BY <1>2, NatSetInduction
  <1> QED
    BY <1>3 DEF S, Reading

\* A text that ends with a word that has an ordinal.
HasOrdinal(words) == words # <<>> /\ Last(words) \in Irregular

LEMMA LastWord ==
    ASSUME NEW s \in Seq(Int), NEW t \in Seq(Int), HasOrdinal(t)
    PROVE  HasOrdinal(s \o t)
  <1>1. /\ s \o t \in Seq(Int) /\ Len(s \o t) = Len(s) + Len(t)
        /\ Len(t) >= 1 /\ (s \o t)[Len(s) + Len(t)] = t[Len(t)]
    BY DEF HasOrdinal
  <1> QED
    BY <1>1 DEF HasOrdinal, Last

LEMMA OneWord ==
    ASSUME NEW w \in Irregular
    PROVE  HasOrdinal(<<w>>)
  <1>1. <<w>> # <<>> /\ Last(<<w>>) = w
    BY DEF Last
  <1> QED
    BY <1>1 DEF HasOrdinal

LEMMA BelowHundredOrdinal ==
    ASSUME NEW n \in 1 .. 99
    PROVE  BelowHundred(n) \in Seq(Int) /\ HasOrdinal(BelowHundred(n))
  <1>1. CASE n \in 1 .. 20
    <2>1. BelowHundred(n) = <<n>> /\ <<n>> \in Seq(Int) /\ n \in Irregular
      BY <1>1 DEF BelowHundred, Irregular
    <2> QED
      BY <2>1, OneWord
  <1>2. CASE n \in 21 .. 99
    <2> DEFINE tens == 10 * (n \div 10)
               ones == n % 10
               more == IF ones = 0 THEN <<>> ELSE <<ones>>
    <2>1. tens \in Int /\ tens \in Irregular
      <3>1. n \div 10 \in 2 .. 9
        BY <1>2
      <3>2. CASE n \div 10 = 2
        BY <3>2 DEF Irregular
      <3>3. CASE n \div 10 \in 3 .. 10
        BY <3>3 DEF Irregular
      <3> QED
        BY <3>1, <3>2, <3>3
    <2>2. ones \in 0 .. 9
      BY <1>2
    <2>3. BelowHundred(n) = <<tens>> \o more
      <3>1. n # 0 /\ n \notin 1 .. 20
        BY <1>2
      <3> QED
        BY <3>1, Zenon DEF BelowHundred
    <2> HIDE DEF tens, ones
    <2>4. <<tens>> \in Seq(Int) /\ HasOrdinal(<<tens>>)
      BY <2>1, OneWord
    <2>5. CASE ones = 0
      <3>1. <<tens>> \o <<>> = <<tens>>
        BY <2>4
      <3> QED
        BY <2>3, <2>4, <2>5, <3>1
    <2>6. CASE ones # 0
      <3>1. ones \in Irregular /\ <<ones>> \in Seq(Int)
        BY <2>2 DEF Irregular
      <3>2. HasOrdinal(<<tens>> \o <<ones>>) /\ <<tens>> \o <<ones>> \in Seq(Int)
        <4>1. HasOrdinal(<<ones>>)
          BY <3>1, OneWord
        <4>2. HasOrdinal(<<tens>> \o <<ones>>)
          BY <2>4, <3>1, <4>1, LastWord, Zenon
        <4> QED
          BY <2>4, <3>1, <4>2
      <3> QED
        BY <2>3, <2>6, <3>2
    <2> QED
      BY <2>5, <2>6
  <1> QED
    BY <1>1, <1>2

\* Every number's last word has an ordinal.
LEMMA WordsOrdinal ==
    ASSUME NEW n \in Nat, n # 0
    PROVE  HasOrdinal(ToWords[n])
  <1> DEFINE S == {m \in Nat : m # 0 => HasOrdinal(ToWords[m])}
  <1>1. ASSUME NEW m \in 1 .. 999
        PROVE  HasOrdinal(BelowThousand(m))
    <2>1. CASE m < 100
      <3>1. BelowThousand(m) = BelowHundred(m) /\ m \in 1 .. 99
        BY <2>1 DEF BelowThousand
      <3> QED
        BY <3>1, BelowHundredOrdinal
    <2>2. CASE ~(m < 100)
      <3> DEFINE h == m \div 100
                 rest == m % 100
                 hundreds == <<h, 100>>
                 more == IF rest = 0 THEN <<>> ELSE <<And>> \o BelowHundred(rest)
      <3>1. h \in Int /\ rest \in 0 .. 99
        BY <2>2
      <3>2. BelowThousand(m) = hundreds \o more
        BY <2>2 DEF BelowThousand
      <3> HIDE DEF h, rest
      <3>3. hundreds \in Seq(Int) /\ HasOrdinal(hundreds)
        <4>1. 100 \in Irregular /\ 100 \in Int
          <5>1. 100 = 10 * 10 /\ 10 \in 3 .. 10
            OBVIOUS
          <5> QED
            BY <5>1 DEF Irregular
        <4>2. <<h>> \in Seq(Int) /\ <<100>> \in Seq(Int) /\ hundreds = <<h>> \o <<100>>
          BY <3>1, <4>1, PairConcat
        <4>3. HasOrdinal(<<100>>)
          BY <4>1, OneWord
        <4>4. HasOrdinal(<<h>> \o <<100>>)
          BY <4>2, <4>3, LastWord, Zenon
        <4>5. hundreds \in Seq(Int)
          BY <3>1
        <4> QED
          BY <4>2, <4>4, <4>5
      <3> HIDE DEF hundreds
      <3>4. CASE rest = 0
        <4>1. hundreds \o <<>> = hundreds
          BY <3>3
        <4> QED
          BY <3>2, <3>3, <3>4, <4>1
      <3>5. CASE rest # 0
        <4>1. BelowHundred(rest) \in Seq(Int) /\ HasOrdinal(BelowHundred(rest))
          <5>1. rest \in 1 .. 99
            BY <3>1, <3>5
          <5> QED
            BY <5>1, BelowHundredOrdinal
        <4>2. <<And>> \in Seq(Int)
          BY DEF And
        <4>3. HasOrdinal(<<And>> \o BelowHundred(rest)) /\ <<And>> \o BelowHundred(rest) \in Seq(Int)
          <5>1. HasOrdinal(<<And>> \o BelowHundred(rest))
            BY <4>1, <4>2, LastWord, Zenon
          <5> QED
            BY <4>1, <4>2, <5>1
        <4>4. HasOrdinal(hundreds \o (<<And>> \o BelowHundred(rest)))
          BY <3>3, <4>3, LastWord
        <4> QED
          BY <3>2, <3>5, <4>4
      <3> QED
        BY <3>4, <3>5
    <2> QED
      BY <2>1, <2>2
  <1>2. ASSUME NEW m \in Nat, 0 .. m - 1 \subseteq S, m # 0
        PROVE  HasOrdinal(ToWords[m])
    <2>1. CASE m < 1000
      <3> HIDE DEF S
      <3>1. ToWords[m] = BelowThousand(m) /\ m \in 1 .. 999
        BY <1>2, <2>1, WordsBelowThousand
      <3> QED
        BY <1>1, <3>1
    <2>2. CASE ~(m < 1000)
      <3> DEFINE scale == ScaleOf(m)
                 q == m \div scale
                 r == m % scale
                 said == ToWords[q] \o <<scale>>
      <3>1. SaidWith(m, scale, q, r)
        BY <2>2, ScaleFits
      <3>2. ToWords[m] = said \o Joint(r) \o ToWords[r]
        BY <2>2, WordsUnfold
      <3> HIDE DEF scale, q, r, S
      <3>3. scale \in Irregular /\ scale \in Int /\ q \in Nat /\ r \in 0 .. m - 1 /\ r \in Nat
        BY <3>1 DEF SaidWith, Irregular
      <3>4. ToWords[q] \in Seq(Int) /\ ToWords[r] \in Seq(Int) /\ Joint(r) \in Seq(Int)
        <4>1. Joint(r) \in Seq(Int)
          BY DEF Joint, And
        <4> QED
          BY <3>3, <4>1, WordsIn
      <3>5. said \in Seq(Int) /\ HasOrdinal(said)
        <4>1. <<scale>> \in Seq(Int)
          BY <3>3
        <4>2. HasOrdinal(<<scale>>)
          BY <3>3, OneWord
        <4>3. HasOrdinal(ToWords[q] \o <<scale>>)
          BY <3>4, <4>1, <4>2, LastWord, Zenon
        <4> QED
          BY <3>4, <4>1, <4>3
      <3> HIDE DEF said
      <3>6. CASE r = 0
        <4>1. ToWords[r] = <<>> /\ Joint(r) = <<>>
          <5>1. r \in Nat /\ r < 1000 /\ r < 100 /\ r \notin 1 .. 99
            BY <3>6
          <5>2. ToWords[r] = BelowThousand(r)
            BY <5>1, WordsBelowThousand
          <5> QED
            BY <3>6, <5>1, <5>2 DEF BelowThousand, BelowHundred, Joint
        <4>2. said \o <<>> \o <<>> = said
          BY <3>5
        <4> QED
          BY <3>2, <3>5, <4>1, <4>2
      <3>7. CASE r # 0
        <4>1. HasOrdinal(ToWords[r])
          BY <1>2, <3>3, <3>7 DEF S
        <4>2. said \o Joint(r) \in Seq(Int)
          BY <3>4, <3>5
        <4> QED
          BY <3>2, <3>4, <4>1, <4>2, LastWord
      <3> QED
        BY <3>6, <3>7
    <2> QED
      BY <2>1, <2>2
  <1>3. ASSUME NEW m \in Nat, 0 .. m - 1 \subseteq S
        PROVE  m \in S
    BY <1>2, <1>3
  <1> HIDE DEF S
  <1>4. Nat \subseteq S
    BY <1>3, NatSetInduction
  <1> QED
    BY <1>4 DEF S

\* $parseInteger reads back, as cardinals and as ordinals, the words of every number
\* that is below a thousand of the largest scale.
THEOREM WordsReadBack ==
    ASSUME NEW n \in Nat, n < 1000 * Scales[1], NEW text, text.symbols = IntToWords(n)
    PROVE  ParseWords(text) = Parsed(n)
  <1> DEFINE words == IntToWords(n)
  <1>1. HasOrdinal(words)
    <2>1. CASE n = 0
      <3>1. 0 \in Irregular
        BY DEF Irregular
      <3> QED
        BY <2>1, <3>1, OneWord DEF IntToWords
    <2>2. CASE n # 0
      BY <2>2, WordsOrdinal DEF IntToWords
    <2> QED
      BY <2>1, <2>2
  <1>2. PICK u \in Int, c \in Int : u + c = n /\ Told(words, Count(0, 0), Count(u, c))
    <2>0. 0 \in Int /\ Count(0, 0) \in Counts
      <3>1. 0 \in Int
        OBVIOUS
      <3> QED
        BY <3>1, CountIn
    <2>1. CASE n = 0
      <3>1. Told(<<0>>, Count(0, 0), Count(0, 0 + 0))
        <4>1. 0 \in 0 .. 99
          OBVIOUS
        <4>2. Word[Count(0, 0)][0] = Count(0, 0 + 0)
          BY <2>0, <4>1, WordAdds
        <4> QED
          BY <2>0, <4>2, ToldOne
      <3>2. 0 + 0 = 0
        OBVIOUS
      <3> QED
        BY <2>0, <2>1, <3>1, <3>2 DEF IntToWords
    <2>2. CASE n # 0
      <3>1. \E u, c \in Int : u + c = 0 + n /\ Told(ToWords[n], Count(0, 0), Count(u, c))
        BY <2>0, WordsTold
      <3>2. 0 + n = n
        OBVIOUS
      <3> QED
        BY <2>2, <3>1, <3>2 DEF IntToWords
    <2> QED
      BY <2>1, <2>2
  <1>3. WordsToInt(words) = n
    <2>1. ReadAll(Word, Count(0, 0), words) = Count(u, c)
      BY <1>2 DEF Told
    <2>2. Count(u, c).total + Count(u, c).current = n
      BY <1>2 DEF Count
    <2> QED
      BY <2>1, <2>2 DEF WordsToInt, Count
  <1> QED
    BY <1>1, <1>3 DEF ParseWords, HasOrdinal

-----------------------------------------------------------------------------
(* Every notation.                                                         *)

\* A text, with its sign and whether it is an ordinal.
Marked(symbols, sign, ordinal) ==
    [err |-> "", symbols |-> symbols, sign |-> sign, ordinal |-> ordinal]
SignOf(n) == IF n < 0 THEN "-" ELSE ""
SizeOf(n) == IF n < 0 THEN -n ELSE n

\* The text of a number, in each notation.
WrittenAs(text, picture, size, sign, says) ==
    \/ picture = <<"w">> /\ text = Marked(IntToWords(size), sign, says)
    \/ picture = <<"i">> /\ text = Marked(ToRoman[size], sign, says)
    \/ picture = <<"a">> /\ text = Marked(ToAlphabetic[size], sign, says)
    \/ /\ picture \notin {<<"w">>, <<"i">>, <<"a">>} /\ Digits(picture) # {}
       /\ FormatDecimal(size, picture).err = ""
       /\ text = Marked(FormatDecimal(size, picture).symbols, sign, says)

LEMMA MarkedIs ==
    ASSUME NEW symbols, NEW sign, NEW says \in BOOLEAN
    PROVE  [Formatted(symbols) EXCEPT !.sign = sign, !.ordinal = says] = Marked(symbols, sign, says)
  <1>1. PICK E, S, G : symbols \in S /\ sign \in G /\ "" \in G /\ "" \in E
    <2>1. symbols \in {symbols} /\ sign \in {"", sign} /\ "" \in {"", sign} /\ "" \in {""}
      OBVIOUS
    <2> QED
      BY <2>1
  <1> DEFINE Texts == [err : E, symbols : S, sign : G, ordinal : BOOLEAN]
  <1>2. PICK r \in Texts : r = Formatted(symbols) /\ r.err = "" /\ r.symbols = symbols
    <2>1. Formatted(symbols) \in Texts
      BY <1>1 DEF Formatted
    <2>2. Formatted(symbols).err = "" /\ Formatted(symbols).symbols = symbols
      BY DEF Formatted
    <2> HIDE DEF Texts
    <2> QED
      BY <2>1, <2>2
  <1>3. PICK q \in Texts : q = [r EXCEPT !.sign = sign]
    BY <1>1
  <1>4. q.err = r.err /\ q.symbols = r.symbols /\ q.sign = sign
    BY <1>3
  <1>5. [q EXCEPT !.ordinal = says]
           = [err |-> q.err, symbols |-> q.symbols, sign |-> q.sign, ordinal |-> says]
    OBVIOUS
  <1>6. [r EXCEPT !.sign = sign, !.ordinal = says] = [q EXCEPT !.ordinal = says]
    BY <1>3
  <1> QED
    BY <1>2, <1>4, <1>5, <1>6 DEF Marked

LEMMA NamedNotations ==
    ASSUME NEW picture \in {<<"w">>, <<"i">>, <<"a">>}
    PROVE  Digits(picture) = {}
  <1>1. DOMAIN picture = 1 .. 1 /\ picture[1] \in {"w", "i", "a"}
    OBVIOUS
  <1>2. \A i \in DOMAIN picture : i = 1
    BY <1>1
  <1> QED
    BY <1>1, <1>2 DEF Digits, Families

LEMMA NotationsDiffer ==
    <<"w">> # <<"i">> /\ <<"w">> # <<"a">> /\ <<"i">> # <<"a">>
  OBVIOUS

\* What $formatInteger makes of a number: an error, or a text with its sign.
LEMMA IntegerFormats ==
    ASSUME NEW n, NEW picture, NEW ordinal \in BOOLEAN, NEW size, size = SizeOf(n),
           NEW sign, sign = SignOf(n),
           NEW says \in BOOLEAN, says = (ordinal /\ picture \notin {<<"i">>, <<"a">>}),
           NEW text, text = FormatInteger(n, picture, ordinal)
    PROVE  WrittenAs(text, picture, size, sign, says) \/ text.err # ""
  <1> DEFINE Signed(t) == [t EXCEPT !.sign = sign, !.ordinal = says]
  <1>1. text = CASE picture = <<"w">> -> Signed(Formatted(IntToWords(size)))
                 [] picture = <<"i">> -> Signed(Formatted(ToRoman[size]))
                 [] picture = <<"a">> -> Signed(Formatted(ToAlphabetic[size]))
                 [] picture \notin {<<"w">>, <<"i">>, <<"a">>} /\ Digits(picture) = {} -> NotFormatted("D3130")
                 [] OTHER -> Signed(FormatDecimal(size, picture))
    BY Zenon DEF FormatInteger, SizeOf, SignOf
  <1>2. \A symbols : Signed(Formatted(symbols)) = Marked(symbols, sign, says)
    BY MarkedIs
  <1>3. \A e : Signed(NotFormatted(e)).err = e /\ NotFormatted(e).err = e
    BY DEF Formatted, NotFormatted
  <1>4. \A symbols : Formatted(symbols).err = "" /\ Formatted(symbols).symbols = symbols
    BY DEF Formatted
  <1> HIDE DEF Signed
  <1>5. CASE picture = <<"w">>
    <2>1. text = Signed(Formatted(IntToWords(size)))
      BY <1>1, <1>5
    <2> QED
      BY <1>2, <1>5, <2>1 DEF WrittenAs
  <1>6. CASE picture = <<"i">>
    <2>1. text = Signed(Formatted(ToRoman[size]))
      BY <1>1, <1>6, NotationsDiffer
    <2> QED
      BY <1>2, <1>6, <2>1 DEF WrittenAs
  <1>7. CASE picture = <<"a">>
    <2>1. text = Signed(Formatted(ToAlphabetic[size]))
      BY <1>1, <1>7, NotationsDiffer
    <2> QED
      BY <1>2, <1>7, <2>1 DEF WrittenAs
  <1>8. CASE picture \notin {<<"w">>, <<"i">>, <<"a">>} /\ Digits(picture) = {}
    <2>1. text = NotFormatted("D3130")
      BY <1>1, <1>8
    <2>2. "D3130" # ""
      OBVIOUS
    <2> QED
      BY <1>3, <2>1, <2>2
  <1>9. CASE picture \notin {<<"w">>, <<"i">>, <<"a">>} /\ Digits(picture) # {}
    <2>1. text = Signed(FormatDecimal(size, picture))
      BY <1>1, <1>9
    <2>2. CASE Cardinality({picture[i] : i \in Digits(picture)}) > 1
      <3>1. FormatDecimal(size, picture) = NotFormatted("D3131") /\ "D3131" # ""
        BY <2>2 DEF FormatDecimal
      <3> QED
        BY <1>3, <2>1, <3>1
    <2>3. CASE ~(Cardinality({picture[i] : i \in Digits(picture)}) > 1)
      <3>1. PICK symbols : FormatDecimal(size, picture) = Formatted(symbols)
        BY <2>3 DEF FormatDecimal
      <3>2. FormatDecimal(size, picture).err = "" /\ FormatDecimal(size, picture).symbols = symbols
        BY <1>4, <3>1
      <3>3. text = Marked(symbols, sign, says)
        BY <1>2, <2>1, <3>1
      <3> QED
        BY <1>9, <3>2, <3>3 DEF WrittenAs
    <2> QED
      BY <2>2, <2>3
  <1> QED
    BY <1>5, <1>6, <1>7, <1>8, <1>9

\* The numbers and pictures whose texts can be read back: words below a thousand of the
\* largest scale, a sign in digits only, and no hyphen between their groups.
Readable(n, picture) ==
    /\ n >= 0 \/ Digits(picture) # {}
    /\ n < 1000 * Scales[1] \/ picture # <<"w">>
    /\ "-" \notin ToSet(picture)
Written(text, n, picture, ordinal) == text = FormatInteger(n, picture, ordinal) /\ text.err = ""

\* Whatever $formatInteger wrote of such a number, in words, letters, Roman numerals or
\* digits, $parseInteger makes that number of it with the same picture.
THEOREM IntegerReadBack ==
    ASSUME NEW n \in Int, NEW picture \in Seq(STRING), NEW ordinal \in BOOLEAN, NEW text,
           Readable(n, picture), Written(text, n, picture, ordinal)
    PROVE  ParseInteger(text, picture) = Parsed(n)
  <1>1. PICK size \in Nat : size = SizeOf(n) /\ n = (IF n < 0 THEN -size ELSE size)
    BY DEF SizeOf
  <1>2. PICK sign : sign = SignOf(n)
    OBVIOUS
  <1>3. PICK says \in BOOLEAN : says = (ordinal /\ picture \notin {<<"i">>, <<"a">>})
    BY Zenon
  <1>4. WrittenAs(text, picture, size, sign, says)
    BY <1>1, <1>2, <1>3, IntegerFormats, Zenon DEF Written
  <1>5. \A symbols : /\ Marked(symbols, sign, says).symbols = symbols
                     /\ Marked(symbols, sign, says).sign = sign
    BY DEF Marked
  <1>6. Digits(picture) = {} => size = n /\ n \in Nat /\ ~(n < 0)
    BY <1>1 DEF Readable
  <1>7. CASE picture = <<"w">> /\ text = Marked(IntToWords(size), sign, says)
    <2>1. size = n /\ n \in Nat /\ n < 1000 * Scales[1]
      BY <1>6, <1>7, NamedNotations DEF Readable
    <2>2. text.symbols = IntToWords(n)
      BY <1>5, <1>7, <2>1
    <2>3. ParseWords(text) = Parsed(n)
      BY <2>1, <2>2, WordsReadBack
    <2> QED
      BY <1>7, <2>3 DEF ParseInteger
  <1>8. CASE picture = <<"i">> /\ text = Marked(ToRoman[size], sign, says)
    <2>1. size = n /\ n \in Nat /\ ~(n < 0)
      BY <1>6, <1>8, NamedNotations
    <2>2. FromRoman(text.symbols) = n
      BY <1>5, <1>8, <2>1, RomanReadBack
    <2>3. text.sign # "-"
      BY <1>2, <1>5, <1>8, <2>1 DEF SignOf
    <2> QED
      BY <1>8, <2>2, <2>3, NotationsDiffer DEF ParseInteger
  <1>9. CASE picture = <<"a">> /\ text = Marked(ToAlphabetic[size], sign, says)
    <2>1. size = n /\ n \in Nat /\ ~(n < 0)
      BY <1>6, <1>9, NamedNotations
    <2>2. FromAlphabetic(text.symbols) = n
      BY <1>5, <1>9, <2>1, LettersReadBack
    <2>3. text.sign # "-"
      BY <1>2, <1>5, <1>9, <2>1 DEF SignOf
    <2> QED
      BY <1>9, <2>2, <2>3, NotationsDiffer DEF ParseInteger
  <1>10. CASE /\ picture \notin {<<"w">>, <<"i">>, <<"a">>} /\ Digits(picture) # {}
              /\ FormatDecimal(size, picture).err = ""
              /\ text = Marked(FormatDecimal(size, picture).symbols, sign, says)
    <2>1. WrittenInDigits(size, picture, text)
      <3>1. text.symbols = FormatDecimal(size, picture).symbols
        BY <1>5, <1>10
      <3> QED
        BY <1>10, <3>1 DEF WrittenInDigits, Readable
    <2>2. ParseDecimal(text, picture) = Parsed(IF text.sign = "-" THEN -size ELSE size)
      BY <2>1, DigitsReadBack
    <2>3. (IF text.sign = "-" THEN -size ELSE size) = n
      <3>1. text.sign = "-" <=> n < 0
        BY <1>2, <1>5, <1>10 DEF SignOf
      <3> QED
        BY <1>1, <3>1
    <2>4. ParseDecimal(text, picture) = Parsed(n)
      BY <2>2, <2>3
    <2>5. ParseInteger(text, picture) = ParseDecimal(text, picture)
      BY <1>10 DEF ParseInteger
    <2> QED
      BY <2>4, <2>5
  <1> QED
    BY <1>4, <1>7, <1>8, <1>9, <1>10 DEF WrittenAs

-----------------------------------------------------------------------------
(* The specification.                                                      *)

\* The picture is of its alphabet, and what is written was written with it.
PictureInv ==
    /\ task = [alphabet |-> task.alphabet, src |-> task.src, args |-> task.args]
    /\ task.alphabet \in Alphabets /\ task.alphabet.kind = "picture"
    /\ task.src \in Seq(task.alphabet.symbols)
    /\ \/ task.args = <<>>
       \/ \E n \in task.alphabet.values :
             task.args = <<n>> /\ result = FormatInteger(n, Picture, Ordinal)

LEMMA PictureOfSymbols ==
    ASSUME PictureInv
    PROVE  Picture \in Seq(STRING)
  <1> DEFINE src == task.src
  <1>1. src \in Seq(STRING)
    <2>1. src \in Seq(task.alphabet.symbols) /\ task.alphabet.symbols \subseteq STRING
      BY PictureAssumption DEF PictureInv
    <2> QED
      BY <2>1, SeqMonotonic
  <1>2. src # <<>> => Front(src) \in Seq(STRING)
    BY <1>1 DEF Front
  <1> QED
    BY <1>1, <1>2 DEF Picture, Ordinal

\* Every text on the way was written by $formatInteger with the picture read before it.
THEOREM PictureInduction ==
    PictureSpec => []PictureInv
  <1>1. (\E a \in Alphabets : BeginPicture(a)) => PictureInv
    BY DEF BeginPicture, Begin, PictureInv
  <1>2. PictureInv /\ [ReadPicture \/ FormatNumber]_<<task, result>> => PictureInv'
    <2> SUFFICES ASSUME PictureInv, [ReadPicture \/ FormatNumber]_<<task, result>>
                 PROVE  PictureInv'
      OBVIOUS
    <2>1. CASE ReadPicture
      <3>1. PICK s \in task.alphabet.symbols : task' = [task EXCEPT !.src = Append(@, s)]
        BY <2>1 DEF ReadPicture
      <3>2. task.args = <<>>
        BY <2>1 DEF ReadPicture
      <3>3. task' = [alphabet |-> task.alphabet, src |-> Append(task.src, s), args |-> <<>>]
        BY <3>1, <3>2 DEF PictureInv
      <3>4. Append(task.src, s) \in Seq(task.alphabet.symbols)
        BY DEF PictureInv
      <3> QED
        BY <3>3, <3>4 DEF PictureInv
    <2>2. CASE FormatNumber
      <3>1. PICK n \in task.alphabet.values : /\ task' = [task EXCEPT !.args = <<n>>]
                                              /\ result' = FormatInteger(n, Picture, Ordinal)
        BY <2>2 DEF FormatNumber
      <3>2. task' = [alphabet |-> task.alphabet, src |-> task.src, args |-> <<n>>]
        BY <3>1 DEF PictureInv
      <3>3. Picture' = Picture /\ Ordinal' = Ordinal
        BY <3>2 DEF Picture, Ordinal
      <3> QED
        BY <3>1, <3>2, <3>3 DEF PictureInv
    <2>3. CASE UNCHANGED <<task, result>>
      BY <2>3 DEF PictureInv, Picture, Ordinal
    <2> QED
      BY <2>1, <2>2, <2>3
  <1> QED
    BY <1>1, <1>2, PTL DEF PictureSpec

\* With every picture and every number, $parseInteger reads back what $formatInteger
\* wrote.
THEOREM IntegersAlwaysReadBack ==
    PictureSpec => []IntegersReadBack
  <1>1. ASSUME NEW args, NEW n, args = <<n>>
        PROVE  args[1] = n
    BY <1>1
  <1>2. PictureInv => IntegersReadBack
    <2>1. ASSUME PictureInv, result.err = "", task.args # <<>>, Readable(task.args[1], Picture)
          PROVE  ParseInteger(result, Picture) = Parsed(task.args[1])
      <3>1. PICK n \in task.alphabet.values :
               task.args = <<n>> /\ result = FormatInteger(n, Picture, Ordinal)
        BY <2>1 DEF PictureInv
      <3>2. n \in Int
        BY <2>1, PictureAssumption DEF PictureInv
      <3>3. Picture \in Seq(STRING) /\ Ordinal \in BOOLEAN
        BY <2>1, PictureOfSymbols DEF Ordinal
      <3>4. task.args[1] = n
        BY <1>1, <3>1, Zenon
      <3>5. Readable(n, Picture)
        BY <2>1, <3>4
      <3>6. Written(result, n, Picture, Ordinal)
        BY <2>1, <3>1, Zenon DEF Written
      <3>7. ParseInteger(result, Picture) = Parsed(n)
        BY <3>2, <3>3, <3>5, <3>6, IntegerReadBack, Zenon
      <3> QED
        BY <3>4, <3>7
    <2> QED
      BY <2>1 DEF IntegersReadBack, Readable
  <1> QED
    BY <1>2, PictureInduction, PTL
================================================================================
