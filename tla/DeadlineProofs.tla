---------------------------- MODULE DeadlineProofs ----------------------------
(***************************************************************************)
(* Proofs about Deadline, for any number of evaluations, any lambdas and   *)
(* compositions lent between them, every timeout, interval of polls and    *)
(* width of the tick counter.                                              *)
(*                                                                         *)
(* FewLatePolls is not inductive: how many polls may still slip through    *)
(* depends on where the tick counter stands.  Late says so: between two    *)
(* reads of the clock the ticks since the first bound the late polls.      *)
(***************************************************************************)
EXTENDS Deadline, TLAPS

\* A quotient and a remainder determine each other.
LEMMA RemainderUnique ==
    ASSUME NEW p \in Nat \ {0}, NEW q1 \in Int, NEW q2 \in Int,
           NEW r1 \in 0 .. p - 1, NEW r2 \in 0 .. p - 1,
           p * q1 + r1 = p * q2 + r2
    PROVE  r1 = r2
  <1>1. CASE q1 = q2
    BY <1>1
  <1>2. CASE q1 < q2
    <2>1. p * (q2 - q1) >= p
      BY <1>2
    <2> QED
      BY <2>1
  <1>3. CASE q2 < q1
    <2>1. p * (q1 - q2) >= p
      BY <1>3
    <2> QED
      BY <2>1
  <1> QED
    BY <1>1, <1>2, <1>3

LEMMA Division ==
    ASSUME NEW p \in Nat \ {0}, NEW n \in Nat
    PROVE  n = p * (n \div p) + (n % p) /\ (n % p) \in 0 .. p - 1 /\ n \div p \in Int
  <1>1. p > 0 /\ p \in Int /\ n \in Int
    OBVIOUS
  <1>2. n \div p \in Int
    BY <1>1
  <1>3. (n % p) \in 0 .. p - 1
    BY <1>1
  <1>4. n = p * (n \div p) + (n % p)
    BY <1>1
  <1> QED
    BY <1>2, <1>3, <1>4

\* One more moves the remainder on by one.
LEMMA NextRemainder ==
    ASSUME NEW p \in Nat \ {0}, NEW q1 \in Int, NEW q2 \in Int,
           NEW r1 \in 0 .. p - 1, NEW r2 \in 0 .. p - 1,
           p * q1 + r1 + 1 = p * q2 + r2
    PROVE  r2 = IF r1 = p - 1 THEN 0 ELSE r1 + 1
  <1>1. CASE r1 = p - 1
    <2>1. p * (q1 + 1) = p * q1 + p
      OBVIOUS
    <2>2. p * (q1 + 1) + 0 = p * q2 + r2
      BY <1>1, <2>1
    <2>3. 0 = r2
      BY <2>2, RemainderUnique, q1 + 1 \in Int, 0 \in 0 .. p - 1
    <2> QED
      BY <1>1, <2>3
  <1>2. CASE r1 # p - 1
    <2>1. r1 + 1 \in 0 .. p - 1
      BY <1>2
    <2>2. p * q1 + (r1 + 1) = p * q2 + r2
      OBVIOUS
    <2>3. r1 + 1 = r2
      BY <2>1, <2>2, RemainderUnique
    <2> QED
      BY <1>2, <2>3
  <1> QED
    BY <1>1, <1>2

LEMMA NextPlace ==
    ASSUME NEW p \in Nat \ {0}, NEW n \in Nat
    PROVE  (n + 1) % p = IF n % p = p - 1 THEN 0 ELSE (n % p) + 1
  <1> DEFINE q1 == n \div p  r1 == n % p  q2 == (n + 1) \div p  r2 == (n + 1) % p
  <1>1. n = p * q1 + r1 /\ r1 \in 0 .. p - 1 /\ q1 \in Int
    BY Division
  <1>2. n + 1 = p * q2 + r2 /\ r2 \in 0 .. p - 1 /\ q2 \in Int
    BY Division, n + 1 \in Nat
  <1> HIDE DEF q1, r1, q2, r2
  <1>3. p * q1 + r1 + 1 = p * q2 + r2
    BY <1>1, <1>2
  <1>4. r2 = IF r1 = p - 1 THEN 0 ELSE r1 + 1
    BY <1>1, <1>2, <1>3, NextRemainder
  <1> QED
    BY <1>4 DEF r1, r2

\* The wrap of the ticks falls between two intervals.
LEMMA TickPlace ==
    ASSUME NEW t \in 0 .. TickWrap - 1
    PROVE  /\ (t + 1) % TickWrap \in 0 .. TickWrap - 1
           /\ ((t + 1) % TickWrap) % PollEvery =
                IF t % PollEvery = PollEvery - 1 THEN 0 ELSE (t % PollEvery) + 1
           /\ t % PollEvery \in 0 .. PollEvery - 1
  <1>1. PollEvery \in Nat \ {0} /\ TickWrap \in Nat \ {0} /\ TickWrap % PollEvery = 0 /\ t \in Nat
    BY PollAssumption
  <1>2. (t + 1) % PollEvery = IF t % PollEvery = PollEvery - 1 THEN 0 ELSE (t % PollEvery) + 1
    BY <1>1, NextPlace
  <1>3. t % PollEvery \in 0 .. PollEvery - 1
    BY <1>1, Division
  <1>4. CASE t + 1 < TickWrap
    <2>1. (t + 1) % TickWrap = t + 1
      BY <1>1, <1>4
    <2> QED
      BY <1>1, <1>2, <1>3, <1>4, <2>1
  <1>5. CASE t + 1 = TickWrap
    <2>1. (t + 1) % TickWrap = 0
      BY <1>1, <1>5
    <2>2. 0 % PollEvery = 0
      BY <1>1
    <2> QED
      BY <1>1, <1>2, <1>3, <1>5, <2>1, <2>2
  <1> QED
    BY <1>1, <1>4, <1>5


-----------------------------------------------------------------------------
(* The invariant.                                                          *)

Counter == [at : Nat \cup {Never}, ticks : 0 .. TickWrap - 1, hit : BOOLEAN, now : Nat \cup {Never}]

\* ticks since the last that read the clock, or could have
Place(ticks) == IF ticks % PollEvery = 0 THEN PollEvery - 1 ELSE (ticks % PollEvery) - 1

\* what the counter of g says of its deadline, and how late its polls are
CounterInv(g) ==
    /\ evals[g] = "idle" => counters[g].at = Never /\ ~counters[g].hit
    /\ counters[g].at # Never => Timeouts[g] # Never
    /\ counters[g].hit => Passed(counters[g])
    /\ ~Passed(counters[g]) => late[g] = 0
    /\ ~counters[g].hit => late[g] <= Place(counters[g].ticks)
    /\ late[g] < PollEvery

\* what g read is what the counters it read from still say
InstantInv(g) == instants[g] \subseteq {counters[h].now : h \in ReadFrom(g)}

OutcomeInv(g) ==
    /\ evals[g] = "cancelled" => ReadFrom(g) \cap cancelled # {}
    /\ evals[g] = "D1012" => Passed(counters[g])
    /\ evals[g] = "deadline" => \E h \in ReadFrom(g) \ {g} : Passed(counters[h])

Inv ==
    /\ TypeOK
    /\ \A g \in Evals : CounterInv(g) /\ InstantInv(g) /\ OutcomeInv(g)
    /\ OwnCallsChecked

-----------------------------------------------------------------------------
(* What a poll does.                                                       *)

LEMMA CounterType ==
    ASSUME TypeOK, NEW g \in Evals
    PROVE  counters[g] \in Counter
  BY DEF TypeOK, Counter

LEMMA PlaceBound ==
    ASSUME NEW t \in 0 .. TickWrap - 1
    PROVE  Place(t) \in 0 .. PollEvery - 1
  BY TickPlace, PollAssumption DEF Place

\* A tick that does not hit past the deadline was not forced, and is one more
\* since the clock was read.
LEMMA TickFacts ==
    ASSUME NEW d \in Counter, NEW force \in BOOLEAN
    PROVE  /\ Tick(d, force) \in Counter
           /\ Tick(d, force).at = d.at /\ Tick(d, force).now = d.now
           /\ Tick(d, force).hit => Passed(d)
           /\ Passed(d) /\ ~Tick(d, force).hit =>
                ~force /\ Place(Tick(d, force).ticks) = Place(d.ticks) + 1
  <1> DEFINE t == d.ticks  u == (t + 1) % TickWrap
  <1>1. t \in 0 .. TickWrap - 1
    BY DEF Counter
  <1>2. /\ u \in 0 .. TickWrap - 1
        /\ u % PollEvery = IF t % PollEvery = PollEvery - 1 THEN 0 ELSE (t % PollEvery) + 1
        /\ t % PollEvery \in 0 .. PollEvery - 1
    BY <1>1, TickPlace
  <1>3. PollEvery \in Nat /\ PollEvery > 1
    BY PollAssumption
  <1>4. /\ Tick(d, force).ticks = u
        /\ Tick(d, force).hit = (ReadsClock(d, force) /\ Passed(d))
        /\ Tick(d, force).at = d.at /\ Tick(d, force).now = d.now
    BY DEF Tick, Counter
  <1>5. Passed(d) \in BOOLEAN /\ ReadsClock(d, force) \in BOOLEAN
    BY DEF Passed, ReadsClock
  <1>6. Tick(d, force) \in Counter
    <2> DEFINE hit == ReadsClock(d, force) /\ Passed(d)
    <2>1. Tick(d, force) = [d EXCEPT !.ticks = u, !.hit = hit]
      BY DEF Tick
    <2>2. hit \in BOOLEAN /\ u \in 0 .. TickWrap - 1
      BY <1>2, <1>5
    <2> HIDE DEF u, hit
    <2>3. [d EXCEPT !.ticks = u, !.hit = hit] \in Counter
      BY <2>2 DEF Counter
    <2> QED
      BY <2>1, <2>3
  <1>7. Tick(d, force).hit => Passed(d)
    BY <1>4
  <1>8. ASSUME Passed(d), ~Tick(d, force).hit
        PROVE  ~force /\ Place(Tick(d, force).ticks) = Place(d.ticks) + 1
    <2>1. ~force /\ u % PollEvery # 1
      BY <1>4, <1>8 DEF ReadsClock
    <2> DEFINE a == t % PollEvery  b == u % PollEvery
    <2>2. /\ Place(t) = IF a = 0 THEN PollEvery - 1 ELSE a - 1
          /\ Place(u) = IF b = 0 THEN PollEvery - 1 ELSE b - 1
          /\ b = IF a = PollEvery - 1 THEN 0 ELSE a + 1
          /\ a \in 0 .. PollEvery - 1 /\ b # 1
      <3>1. b # 1
        BY <2>1
      <3>2. /\ b = IF a = PollEvery - 1 THEN 0 ELSE a + 1
            /\ a \in 0 .. PollEvery - 1
        BY <1>2
      <3>3. Place(t) = IF a = 0 THEN PollEvery - 1 ELSE a - 1
        BY DEF Place
      <3>4. Place(u) = IF b = 0 THEN PollEvery - 1 ELSE b - 1
        BY DEF Place
      <3> QED
        BY <3>1, <3>2, <3>3, <3>4
    <2> HIDE DEF u, t, a, b
    <2>3. Place(u) = Place(t) + 1
      BY <1>3, <2>2
    <2> QED
      BY <1>4, <2>1, <2>3 DEF t, u
  <1> QED
    BY <1>4, <1>6, <1>7, <1>8

LEMMA ErrFacts ==
    ASSUME TypeOK, NEW g \in Evals, NEW scope, scope.calls = g, NEW force \in BOOLEAN
    PROVE  LET d == counters[g]
               polled == Err(scope, force)
           IN  /\ \/ polled.counter = d
                  \/ d.at # Never /\ ~d.hit /\ polled.counter = Tick(d, force)
               /\ polled.error \in {"none", "cancelled", "deadline"}
               /\ polled.error = "cancelled" => g \in cancelled
               /\ polled.error = "deadline" => polled.counter.hit
  BY DEF Err, CtxErr

\* What a poll in an own scope lets through after the deadline.
LEMMA OwnErr ==
    ASSUME TypeOK, NEW g \in Evals, CounterInv(g), NEW force \in BOOLEAN,
           Passed(counters[g]), Err(Own(g), force).error = "none"
    PROVE  /\ Err(Own(g), force).counter = Tick(counters[g], force)
           /\ ~Tick(counters[g], force).hit
  <1>1. Own(g).calls = g /\ Own(g).hasDeadline
    BY DEF Own, CounterInv, Passed
  <1> QED
    BY <1>1 DEF Err, Passed

\* What a poll of f keeps, in a scope with the counter of g.
LEMMA PolledKeeps ==
    ASSUME TypeOK, NEW f \in Evals, NEW g \in Evals, CounterInv(g),
           NEW scope, scope.calls = g, scope = Own(f) => f = g, NEW force \in BOOLEAN,
           Polled(f, scope, force), UNCHANGED clock
    PROVE  /\ counters' \in [Evals -> Counter] /\ late' \in [Evals -> 0 .. PollEvery]
           /\ \A h \in Evals \ {g} : counters'[h] = counters[h] /\ late'[h] = late[h]
           /\ counters'[g] = Err(scope, force).counter
           /\ counters'[g].at = counters[g].at /\ counters'[g].now = counters[g].now
           /\ counters'[g].hit => Passed(counters'[g])
           /\ ~Passed(counters'[g]) => late'[g] = 0
           /\ ~counters'[g].hit => late'[g] <= Place(counters'[g].ticks)
           /\ late'[g] < PollEvery
  <1> DEFINE d == counters[g]  c == Err(scope, force).counter
  <1>1. d \in Counter
    BY CounterType
  <1>2. counters \in [Evals -> Counter] /\ late \in [Evals -> 0 .. PollEvery]
    BY DEF TypeOK, Counter
  <1>3. c = d \/ (d.at # Never /\ ~d.hit /\ c = Tick(d, force))
    BY ErrFacts
  <1>4. c \in Counter /\ c.at = d.at /\ c.now = d.now /\ (c.hit => Passed(d))
    BY <1>1, <1>3, TickFacts DEF CounterInv
  <1>5. counters' = [counters EXCEPT ![g] = c]
    BY DEF Polled
  <1>6. late' = [late EXCEPT ![f] =
            IF scope = Own(f) /\ Err(scope, force).error = "none" /\ Passed(counters[f]) /\ @ < PollEvery
            THEN @ + 1 ELSE @]
    BY DEF Polled
  <1>7. counters' \in [Evals -> Counter] /\ counters'[g] = c
        /\ \A h \in Evals \ {g} : counters'[h] = counters[h]
    BY <1>2, <1>4, <1>5
  <1>8. PollEvery \in Nat /\ PollEvery > 1
    BY PollAssumption
  <1>9. late' \in [Evals -> 0 .. PollEvery] /\ \A h \in Evals \ {g} : late'[h] = late[h]
    <2>1. CASE f = g
      BY <1>2, <1>6, <1>8, <2>1
    <2>2. CASE f # g
      BY <1>2, <1>6, <2>2
    <2> QED
      BY <2>1, <2>2
  <1>10. Passed(counters'[g]) <=> Passed(d)
    BY <1>4, <1>7 DEF Passed
  <1>11. d.ticks \in 0 .. TickWrap - 1 /\ c.ticks \in 0 .. TickWrap - 1
    BY <1>1, <1>4 DEF Counter
  <1>12. Place(d.ticks) \in 0 .. PollEvery - 1 /\ Place(c.ticks) \in 0 .. PollEvery - 1
    BY <1>11, PlaceBound
  <1>13. late[g] \in 0 .. PollEvery
    BY <1>2
  <1>14. /\ ~Passed(d) => late'[g] = 0
         /\ ~c.hit => late'[g] <= Place(c.ticks)
         /\ late'[g] < PollEvery
    <2>1. CASE f = g /\ scope = Own(g) /\ Err(scope, force).error = "none" /\ Passed(d)
      <3>1. c = Tick(d, force) /\ ~Tick(d, force).hit
        BY <2>1, OwnErr
      <3>2. Place(c.ticks) = Place(d.ticks) + 1
        BY <1>1, <2>1, <3>1, TickFacts
      <3>3. d.hit \/ late[g] <= Place(d.ticks)
        BY DEF CounterInv
      <3>4. ~d.hit
        <4>1. CASE c = d
          BY <3>1, <4>1
        <4> QED
          BY <1>3, <4>1
      <3>5. late'[g] <= late[g] + 1
        BY <1>2, <1>6, <1>13, <2>1
      <3>6. late'[g] \in 0 .. PollEvery
        BY <1>9
      <3> QED
        BY <1>8, <1>12, <1>13, <2>1, <3>2, <3>3, <3>4, <3>5, <3>6
    <2>2. CASE ~(f = g /\ scope = Own(g) /\ Err(scope, force).error = "none" /\ Passed(d))
      <3>1. late'[g] = late[g]
        BY <1>2, <1>6, <2>2
      <3>2. late[g] < PollEvery /\ (~Passed(d) => late[g] = 0) /\ (~d.hit => late[g] <= Place(d.ticks))
        BY DEF CounterInv
      <3>3. ~c.hit => late[g] <= Place(c.ticks)
        <4>1. CASE c = d
          BY <3>2, <4>1
        <4>2. CASE ~d.hit /\ c = Tick(d, force) /\ Passed(d)
          <5>1. ~c.hit => Place(c.ticks) = Place(d.ticks) + 1
            BY <1>1, <4>2, TickFacts
          <5> QED
            BY <1>12, <1>13, <3>2, <4>2, <5>1
        <4>3. CASE ~Passed(d)
          BY <1>12, <3>2, <4>3
        <4> QED
          BY <1>3, <4>1, <4>2, <4>3
      <3> QED
        BY <3>1, <3>2, <3>3
    <2> QED
      BY <2>1, <2>2
  <1> QED
    BY <1>4, <1>7, <1>9, <1>10, <1>14

-----------------------------------------------------------------------------
(* The invariant is kept.                                                  *)

\* An evaluation polls on its own counter, or on that of one that has ended and
\* whose composition it calls.
LEMMA ScopeCounter ==
    ASSUME NEW g \in Evals, evals[g] = "running", NEW scope \in ScopesOf(g)
    PROVE  /\ scope.calls \in Evals
           /\ scope.calls # g => /\ scope.calls \in Composers /\ evals[scope.calls] = "ok"
                                 /\ scope # Own(g)
  <1>1. \A h : Own(h).calls = h
    BY DEF Own
  <1>2. CASE scope = Own(g)
    BY <1>1, <1>2
  <1>3. ASSUME NEW h \in Lenders, scope = Body(g, h) PROVE scope.calls = g
    BY <1>3 DEF Body, Own
  <1>4. ASSUME NEW h \in Composers, Ended(h), scope = Composition(h)
        PROVE  scope.calls = h /\ h \in Evals /\ evals[h] = "ok" /\ (h # g => scope # Own(g))
    BY <1>1, <1>4, EvalAssumption DEF Composition, Ended
  <1>5. \/ scope = Own(g)
        \/ \E h \in Lenders : scope = Body(g, h)
        \/ \E h \in Composers : Ended(h) /\ scope = Composition(h)
    BY DEF ScopesOf
  <1> QED
    BY <1>2, <1>3, <1>4, <1>5

LEMMA ReadFromType ==
    ASSUME NEW g \in Evals
    PROVE  g \in ReadFrom(g) /\ ReadFrom(g) \subseteq Evals
  BY EvalAssumption DEF ReadFrom

\* What an evaluation has read stays true while no counter's instant changes,
\* except from none to one.
LEMMA InstantKept ==
    ASSUME TypeOK, NEW g \in Evals, InstantInv(g), composed \subseteq composed',
           instants'[g] = instants[g],
           \A h \in Evals : counters'[h].now = counters[h].now \/ counters[h].now = Never
    PROVE  InstantInv(g)'
  <1>1. ReadFrom(g) \subseteq ReadFrom(g)'
    BY DEF ReadFrom
  <1>2. instants[g] \subseteq Nat
    BY DEF TypeOK
  <1>3. ASSUME NEW i \in instants[g]
        PROVE  i \in {counters'[h].now : h \in ReadFrom(g)'}
    <2>1. PICK h \in ReadFrom(g) : i = counters[h].now
      BY DEF InstantInv
    <2>2. i # Never /\ h \in Evals
      BY <1>2, ReadFromType, EvalAssumption
    <2>3. i = counters'[h].now /\ h \in ReadFrom(g)'
      BY <1>1, <2>1, <2>2
    <2> QED
      BY <2>3
  <1> QED
    BY <1>3 DEF InstantInv

\* A limit that was reached stays reached.
LEMMA OutcomeKept ==
    ASSUME NEW g \in Evals, OutcomeInv(g), evals'[g] = evals[g],
           composed \subseteq composed', cancelled \subseteq cancelled',
           \A h \in Evals : Passed(counters[h]) => Passed(counters[h])'
    PROVE  OutcomeInv(g)'
  <1>1. ReadFrom(g) \subseteq ReadFrom(g)' /\ ReadFrom(g) \subseteq Evals
    BY ReadFromType DEF ReadFrom
  <1>2. evals'[g] = "cancelled" => (ReadFrom(g) \cap cancelled)' # {}
    BY <1>1 DEF OutcomeInv
  <1>3. evals'[g] = "D1012" => Passed(counters[g])'
    BY DEF OutcomeInv
  <1>4. evals'[g] = "deadline" => \E h \in ReadFrom(g)' \ {g} : Passed(counters[h])'
    BY <1>1 DEF OutcomeInv
  <1> QED
    BY <1>2, <1>3, <1>4 DEF OutcomeInv

LEMMA InitInv == Init => Inv
  <1> SUFFICES ASSUME Init PROVE Inv
    OBVIOUS
  <1>1. PollEvery \in Nat /\ PollEvery > 1 /\ TickWrap \in Nat /\ TickWrap > 0
    BY PollAssumption
  <1>2. TypeOK
    <2>1. NoDeadline \in Counter
      BY <1>1 DEF NoDeadline, Counter
    <2>2. counters \in [Evals -> Counter]
      BY <2>1 DEF Init
    <2> QED
      BY <1>1, <2>2, BoundAssumption DEF Init, TypeOK, Counter
  <1>3. ASSUME NEW g \in Evals PROVE CounterInv(g) /\ InstantInv(g) /\ OutcomeInv(g)
    <2>1. counters[g] = NoDeadline /\ evals[g] = "idle" /\ late[g] = 0 /\ instants[g] = {}
      BY DEF Init
    <2>2. 0 <= Place(0)
      BY <1>1, PlaceBound, 0 \in 0 .. TickWrap - 1
    <2>3. ~Passed(NoDeadline)
      BY DEF Passed, NoDeadline
    <2> QED
      BY <1>1, <2>1, <2>2, <2>3 DEF CounterInv, InstantInv, OutcomeInv, NoDeadline
  <1> QED
    BY <1>2, <1>3 DEF Inv, OwnCallsChecked, Init

\* A poll, whatever it finds and in whatever scope.
LEMMA PollPreserves ==
    ASSUME Inv, NEW g \in Evals, evals[g] = "running",
           NEW scope \in ScopesOf(g), NEW force \in BOOLEAN,
           Polled(g, scope, force), UNCHANGED <<clock, cancelled, instants>>,
           \/ UNCHANGED evals
           \/ Err(scope, force).error # "none" /\ Fails(g, Err(scope, force).error),
           slipped' \subseteq {"own", "lent"}
    PROVE  TypeOK' /\ \A h \in Evals : CounterInv(h)' /\ InstantInv(h)' /\ OutcomeInv(h)'
  <1> DEFINE error == Err(scope, force).error
             c == scope.calls
  <1>1. /\ c \in Evals /\ (c # g => c \in Composers /\ evals[c] = "ok")
        /\ scope = Own(g) => g = c
    BY ScopeCounter
  <1>2. TypeOK /\ \A h \in Evals : CounterInv(h) /\ InstantInv(h) /\ OutcomeInv(h)
    BY DEF Inv
  <1>3. /\ counters' \in [Evals -> Counter] /\ late' \in [Evals -> 0 .. PollEvery]
        /\ \A h \in Evals \ {c} : counters'[h] = counters[h] /\ late'[h] = late[h]
        /\ counters'[c] = Err(scope, force).counter
        /\ counters'[c].at = counters[c].at /\ counters'[c].now = counters[c].now
        /\ counters'[c].hit => Passed(counters'[c])
        /\ ~Passed(counters'[c]) => late'[c] = 0
        /\ ~counters'[c].hit => late'[c] <= Place(counters'[c].ticks)
        /\ late'[c] < PollEvery
    BY <1>1, <1>2, PolledKeeps
  <1>4. /\ error \in {"none", "cancelled", "deadline"}
        /\ error = "cancelled" => c \in cancelled
        /\ error = "deadline" => counters'[c].hit
    BY <1>1, <1>2, <1>3, ErrFacts
  <1>5. evals \in [Evals -> {"idle", "running"} \cup Outcomes]
    BY <1>2 DEF TypeOK
  <1>6. \/ evals' = evals
        \/ evals' = [evals EXCEPT ![g] = IF counters'[g].hit THEN "D1012" ELSE error] /\ error # "none"
    BY DEF Fails
  <1> HIDE DEF error
  <1>7. /\ evals' \in [Evals -> {"idle", "running"} \cup Outcomes]
        /\ \A h \in Evals \ {g} : evals'[h] = evals[h]
        /\ evals'[g] \in {"running", "cancelled", "deadline", "D1012"}
        /\ evals'[g] = "cancelled" => c \in cancelled
        /\ evals'[g] = "deadline" => ~counters'[g].hit /\ counters'[c].hit
        /\ evals'[g] = "D1012" => counters'[g].hit
    BY <1>4, <1>5, <1>6 DEF Outcomes
  <1>8. composed' = IF c = g THEN composed ELSE composed \cup {g}
    BY DEF Polled, Borrows
  <1> HIDE DEF c
  <1>9. c \in ReadFrom(g)' /\ composed \subseteq composed'
    BY <1>1, <1>8 DEF ReadFrom
  <1>10. TypeOK'
    BY <1>2, <1>3, <1>7, <1>8 DEF TypeOK, Counter
  <1>11. ASSUME NEW h \in Evals PROVE CounterInv(h)'
    <2>1. CASE h = c
      <3>1. evals'[c] # "idle"
        BY <1>1, <1>7
      <3> QED
        BY <1>2, <1>3, <2>1, <3>1 DEF CounterInv, Passed
    <2>2. CASE h # c
      <3>1. evals'[h] = "idle" => evals[h] = "idle"
        BY <1>7
      <3> QED
        BY <1>2, <1>3, <2>2, <3>1 DEF CounterInv, Passed
    <2> QED
      BY <2>1, <2>2
  <1>12. ASSUME NEW h \in Evals PROVE InstantInv(h)'
    <2>1. \A x \in Evals : counters'[x].now = counters[x].now
      BY <1>3
    <2> QED
      BY <1>2, <1>9, <2>1, InstantKept
  <1>13. ASSUME NEW h \in Evals \ {g} PROVE OutcomeInv(h)'
    <2>1. \A x \in Evals : counters'[x].at = counters[x].at
      BY <1>3
    <2>2. \A x \in Evals : Passed(counters[x]) => Passed(counters[x])'
      BY <2>1 DEF Passed
    <2> QED
      BY <1>2, <1>7, <1>9, <2>2, OutcomeKept
  <1>14. OutcomeInv(g)'
    <2>1. evals'[g] = "cancelled" => (ReadFrom(g) \cap cancelled)' # {}
      BY <1>7, <1>9
    <2>2. evals'[g] = "D1012" => Passed(counters[g])'
      BY <1>7, <1>11 DEF CounterInv
    <2>3. evals'[g] = "deadline" => \E h \in ReadFrom(g)' \ {g} : Passed(counters[h])'
      <3>1. counters'[c].hit => Passed(counters[c])'
        BY <1>1, <1>11 DEF CounterInv
      <3> QED
        BY <1>7, <1>9, <3>1
    <2> QED
      BY <2>1, <2>2, <2>3 DEF OutcomeInv
  <1> QED
    BY <1>10, <1>11, <1>12, <1>13, <1>14

\* No call from an own scope gets through once the evaluation must stop.
LEMMA CallChecked ==
    ASSUME Inv, NEW g \in Evals, Err(Own(g), TRUE).error = "none"
    PROVE  ~Passed(counters[g]) /\ g \notin cancelled
  <1>1. TypeOK /\ CounterInv(g)
    BY DEF Inv
  <1>2. ~Passed(counters[g])
    <2> SUFFICES ASSUME Passed(counters[g]) PROVE FALSE
      OBVIOUS
    <2>1. ~Tick(counters[g], TRUE).hit
      BY <1>1, OwnErr
    <2> QED
      BY <1>1, <2>1, CounterType, TickFacts
  <1>3. g \notin cancelled
    <2> SUFFICES ASSUME g \in cancelled PROVE FALSE
      OBVIOUS
    <2>1. g \in Cancellable /\ g # Never
      BY <1>1, EvalAssumption DEF TypeOK
    <2>2. Own(g).done = g /\ Own(g).calls = g
      BY <2>1 DEF Own
    <2> QED
      BY <2>1, <2>2 DEF Err, CtxErr
  <1> QED
    BY <1>2, <1>3

LEMMA NextInv ==
    ASSUME Inv, [Next]_vars
    PROVE  Inv'
  <1>1. /\ TypeOK /\ OwnCallsChecked
        /\ \A h \in Evals : CounterInv(h) /\ InstantInv(h) /\ OutcomeInv(h)
    BY DEF Inv
  <1>2. CASE UNCHANGED vars
    BY <1>1, <1>2 DEF Inv, vars, TypeOK, CounterInv, InstantInv, OutcomeInv, OwnCallsChecked, Passed,
                      ReadFrom
  <1>3. CASE Done
    BY <1>2, <1>3 DEF Done
  <1>4. CASE TimePasses
    <2>1. clock \in Nat /\ clock' = clock + 1 /\ clock' \in 0 .. MaxClock
      BY <1>1, <1>4, BoundAssumption DEF TimePasses, TypeOK
    <2>2. UNCHANGED <<counters, cancelled, evals, late, slipped, instants, composed>>
      BY <1>4 DEF TimePasses
    <2>3. TypeOK' /\ OwnCallsChecked'
      BY <1>1, <2>1, <2>2 DEF TypeOK, OwnCallsChecked
    <2>4. \A h \in Evals : Passed(counters[h]) => Passed(counters[h])'
      <3>1. \A h \in Evals : counters[h] \in Counter
        BY <1>1, CounterType
      <3> QED
        BY <2>1, <2>2, <3>1 DEF Passed, Counter
    <2>5. ASSUME NEW h \in Evals PROVE CounterInv(h)' /\ InstantInv(h)' /\ OutcomeInv(h)'
      <3>1. CounterInv(h)'
        BY <1>1, <2>2, <2>4 DEF CounterInv
      <3> QED
        BY <1>1, <2>2, <2>4, <3>1, InstantKept, OutcomeKept
    <2> QED
      BY <2>3, <2>5 DEF Inv
  <1>5. ASSUME NEW g \in Evals, Start(g) PROVE Inv'
    <2> DEFINE at == IF Timeouts[g] = Never THEN Never ELSE clock + Timeouts[g]
    <2>1. /\ evals[g] = "idle" /\ evals' = [evals EXCEPT ![g] = "running"]
          /\ counters' = [counters EXCEPT ![g].at = at]
          /\ UNCHANGED <<clock, cancelled, late, slipped, instants, composed>>
      BY <1>5 DEF Start
    <2>2. at \in Nat \cup {Never} /\ (at # Never => Timeouts[g] # Never)
      BY <1>1, EvalAssumption, BoundAssumption DEF TypeOK
    <2> HIDE DEF at
    <2>3. counters \in [Evals -> Counter]
      BY <1>1 DEF TypeOK, Counter
    <2>4. [counters[g] EXCEPT !.at = at] \in Counter
      BY <2>2, <2>3 DEF Counter
    <2>5. /\ counters' \in [Evals -> Counter] /\ counters'[g] = [counters[g] EXCEPT !.at = at]
          /\ \A h \in Evals \ {g} : counters'[h] = counters[h]
      BY <2>1, <2>3, <2>4
    <2>6. /\ counters'[g].at = at /\ counters'[g].hit = counters[g].hit
          /\ counters'[g].now = counters[g].now /\ counters'[g].ticks = counters[g].ticks
      BY <2>3, <2>5 DEF Counter
    <2>7. /\ evals' \in [Evals -> {"idle", "running"} \cup Outcomes] /\ evals'[g] = "running"
          /\ \A h \in Evals \ {g} : evals'[h] = evals[h]
      BY <1>1, <2>1 DEF TypeOK
    <2>8. TypeOK' /\ OwnCallsChecked'
      BY <1>1, <2>1, <2>5, <2>7 DEF TypeOK, Counter, OwnCallsChecked
    <2>9. late[g] = 0 /\ ~counters[g].hit
      BY <1>1, <2>1 DEF CounterInv, Passed
    <2>10. ASSUME NEW h \in Evals PROVE CounterInv(h)'
      <3>1. CASE h = g
        BY <1>1, <2>1, <2>2, <2>6, <2>7, <2>9, <3>1 DEF CounterInv, Passed
      <3>2. CASE h # g
        BY <1>1, <2>1, <2>5, <2>7, <3>2 DEF CounterInv, Passed
      <3> QED
        BY <3>1, <3>2
    <2>11. counters[g].at = Never
      BY <1>1, <2>1 DEF CounterInv
    <2>12. \A h \in Evals : Passed(counters[h]) => Passed(counters[h])'
      BY <2>1, <2>5, <2>11 DEF Passed
    <2>13. ASSUME NEW h \in Evals PROVE InstantInv(h)'
      <3>1. \A x \in Evals : counters'[x].now = counters[x].now
        BY <2>5, <2>6
      <3> QED
        BY <1>1, <2>1, <3>1, InstantKept
    <2>14. ASSUME NEW h \in Evals PROVE OutcomeInv(h)'
      <3>1. CASE h = g
        BY <2>7, <3>1 DEF OutcomeInv
      <3>2. CASE h # g
        BY <1>1, <2>1, <2>7, <2>12, <3>2, OutcomeKept
      <3> QED
        BY <3>1, <3>2
    <2> QED
      BY <2>8, <2>10, <2>13, <2>14 DEF Inv
  <1>6. ASSUME NEW g \in Evals, evals[g] = "running", Finish(g) PROVE Inv'
    <2>1. UNCHANGED <<counters, clock, cancelled, late, slipped, instants, composed>>
      BY <1>6 DEF Finish
    <2>2. \/ evals' = [evals EXCEPT ![g] = "ok"]
          \/ evals' = [evals EXCEPT ![g] = IF counters[g].hit THEN "D1012" ELSE "error"]
      BY <1>6, <2>1 DEF Finish, Fails
    <2>3. /\ evals' \in [Evals -> {"idle", "running"} \cup Outcomes]
          /\ \A h \in Evals \ {g} : evals'[h] = evals[h]
          /\ evals'[g] \in {"ok", "error", "D1012"}
          /\ evals'[g] = "D1012" => counters[g].hit
      BY <1>1, <2>2 DEF TypeOK, Outcomes
    <2>4. TypeOK' /\ OwnCallsChecked'
      BY <1>1, <2>1, <2>3 DEF TypeOK, OwnCallsChecked
    <2>5. ASSUME NEW h \in Evals PROVE CounterInv(h)' /\ InstantInv(h)'
      BY <1>1, <1>6, <2>1, <2>3, InstantKept DEF CounterInv, Passed
    <2>6. ASSUME NEW h \in Evals PROVE OutcomeInv(h)'
      <3>1. CASE h = g
        BY <1>1, <2>1, <2>3, <3>1 DEF OutcomeInv, CounterInv, Passed
      <3>2. CASE h # g
        <4>1. \A x \in Evals : Passed(counters[x]) => Passed(counters[x])'
          BY <2>1 DEF Passed
        <4> QED
          BY <1>1, <2>1, <2>3, <3>2, <4>1, OutcomeKept
      <3> QED
        BY <3>1, <3>2
    <2> QED
      BY <2>4, <2>5, <2>6 DEF Inv
  <1>7. ASSUME NEW g \in Evals, evals[g] = "running", NEW scope \in ScopesOf(g),
               Poll(g, scope) \/ PollQuietly(g, scope)
        PROVE  Inv'
    <2>1. /\ Polled(g, scope, FALSE) /\ UNCHANGED <<clock, cancelled, slipped, instants>>
          /\ \/ UNCHANGED evals
             \/ Err(scope, FALSE).error # "none" /\ Fails(g, Err(scope, FALSE).error)
      BY <1>7 DEF Poll, PollQuietly
    <2>2. slipped' \subseteq {"own", "lent"} /\ OwnCallsChecked'
      BY <1>1, <2>1 DEF TypeOK, OwnCallsChecked
    <2>3. TypeOK' /\ \A h \in Evals : CounterInv(h)' /\ InstantInv(h)' /\ OutcomeInv(h)'
      BY <1>7, <2>1, <2>2, PollPreserves
    <2> QED
      BY <2>2, <2>3 DEF Inv
  <1>8. ASSUME NEW g \in Evals, evals[g] = "running", NEW scope \in ScopesOf(g), Call(g, scope)
        PROVE  Inv'
    <2>1. /\ Polled(g, scope, TRUE) /\ UNCHANGED <<clock, cancelled, instants>>
          /\ \/ UNCHANGED evals
             \/ Err(scope, TRUE).error # "none" /\ Fails(g, Err(scope, TRUE).error)
          /\ slipped' = IF Err(scope, TRUE).error = "none" /\ (Passed(counters[g]) \/ g \in cancelled)
                        THEN slipped \cup {IF scope = Own(g) THEN "own" ELSE "lent"} ELSE slipped
      BY <1>8 DEF Call
    <2>2. slipped' \subseteq {"own", "lent"}
      BY <1>1, <2>1 DEF TypeOK
    <2>3. OwnCallsChecked'
      BY <1>1, <2>1, CallChecked DEF OwnCallsChecked
    <2>4. TypeOK' /\ \A h \in Evals : CounterInv(h)' /\ InstantInv(h)' /\ OutcomeInv(h)'
      BY <1>8, <2>1, <2>2, PollPreserves
    <2> QED
      BY <2>3, <2>4 DEF Inv
  <1>9. ASSUME NEW g \in Evals, evals[g] = "running", NEW scope \in ScopesOf(g), ReadInstant(g, scope)
        PROVE  Inv'
    <2> DEFINE c == scope.calls
               now == IF counters[c].now = Never THEN clock ELSE counters[c].now
    <2>1. /\ counters' = [counters EXCEPT ![c].now = now]
          /\ instants' = [instants EXCEPT ![g] = @ \cup {now}]
          /\ composed' = IF c = g THEN composed ELSE composed \cup {g}
          /\ UNCHANGED <<clock, cancelled, evals, late, slipped>>
      BY <1>9 DEF ReadInstant, Borrows
    <2>2. c \in Evals /\ (c # g => c \in Composers)
      BY <1>9, ScopeCounter
    <2>3. counters \in [Evals -> Counter] /\ instants \in [Evals -> SUBSET Nat] /\ clock \in Nat
      BY <1>1, BoundAssumption DEF TypeOK, Counter
    <2>4. now \in Nat /\ (counters[c].now = now \/ counters[c].now = Never)
      BY <2>2, <2>3, EvalAssumption DEF Counter
    <2> HIDE DEF now, c
    <2>5. [counters[c] EXCEPT !.now = now] \in Counter
      BY <2>2, <2>3, <2>4 DEF Counter
    <2>6. /\ counters' \in [Evals -> Counter] /\ counters'[c] = [counters[c] EXCEPT !.now = now]
          /\ \A h \in Evals \ {c} : counters'[h] = counters[h]
      BY <2>1, <2>2, <2>3, <2>5
    <2>7. /\ counters'[c].at = counters[c].at /\ counters'[c].hit = counters[c].hit
          /\ counters'[c].now = now /\ counters'[c].ticks = counters[c].ticks
      BY <2>2, <2>3, <2>6 DEF Counter
    <2>8. /\ instants' \in [Evals -> SUBSET Nat] /\ instants'[g] = instants[g] \cup {now}
          /\ \A h \in Evals \ {g} : instants'[h] = instants[h]
      BY <2>1, <2>3, <2>4
    <2>9. TypeOK' /\ OwnCallsChecked'
      BY <1>1, <2>1, <2>6, <2>8 DEF TypeOK, Counter, OwnCallsChecked
    <2>10. composed \subseteq composed' /\ c \in ReadFrom(g)'
      BY <2>1, <2>2 DEF ReadFrom
    <2>11. \A h \in Evals :
              /\ counters'[h].at = counters[h].at /\ counters'[h].hit = counters[h].hit
              /\ counters'[h].ticks = counters[h].ticks
              /\ counters'[h].now = counters[h].now \/ counters[h].now = Never
      BY <2>4, <2>6, <2>7
    <2>12. ASSUME NEW h \in Evals PROVE CounterInv(h)'
      BY <1>1, <2>1, <2>11 DEF CounterInv, Passed
    <2>13. ASSUME NEW h \in Evals PROVE OutcomeInv(h)'
      <3>1. \A x \in Evals : Passed(counters[x]) => Passed(counters[x])'
        BY <2>1, <2>11 DEF Passed
      <3> QED
        BY <1>1, <2>1, <2>10, <3>1, OutcomeKept
    <2>14. ASSUME NEW h \in Evals \ {g} PROVE InstantInv(h)'
      BY <1>1, <2>8, <2>10, <2>11, InstantKept
    <2>15. InstantInv(g)'
      <3>1. ASSUME NEW i \in instants[g]
            PROVE  i \in {counters'[h].now : h \in ReadFrom(g)'}
        <4>1. PICK h \in ReadFrom(g) : i = counters[h].now
          BY <1>1 DEF InstantInv
        <4>2. i # Never /\ h \in Evals
          BY <2>3, ReadFromType, EvalAssumption
        <4>3. i = counters'[h].now
          BY <2>11, <4>1, <4>2
        <4>4. h \in ReadFrom(g)'
          BY <2>10 DEF ReadFrom
        <4> QED
          BY <4>3, <4>4
      <3>2. now \in {counters'[h].now : h \in ReadFrom(g)'}
        BY <2>7, <2>10
      <3> QED
        BY <2>8, <3>1, <3>2 DEF InstantInv
    <2> QED
      BY <2>9, <2>12, <2>13, <2>14, <2>15 DEF Inv
  <1>10. ASSUME NEW g \in Evals, Cancel(g) PROVE Inv'
    <2>1. /\ cancelled' = cancelled \cup {g} /\ g \in Cancellable
          /\ UNCHANGED <<counters, clock, evals, late, slipped, instants, composed>>
      BY <1>10 DEF Cancel
    <2>2. TypeOK' /\ OwnCallsChecked'
      BY <1>1, <2>1 DEF TypeOK, OwnCallsChecked
    <2>3. ASSUME NEW h \in Evals PROVE CounterInv(h)' /\ InstantInv(h)' /\ OutcomeInv(h)'
      <3>1. CounterInv(h)' /\ \A x \in Evals : Passed(counters[x]) => Passed(counters[x])'
        BY <1>1, <2>1 DEF CounterInv, Passed
      <3> QED
        BY <1>1, <2>1, <3>1, InstantKept, OutcomeKept
    <2> QED
      BY <2>2, <2>3 DEF Inv
  <1>11. ASSUME NEW g \in Evals, Running(g) PROVE Inv'
    BY <1>6, <1>7, <1>8, <1>9, <1>11 DEF Running
  <1> QED
    BY <1>2, <1>3, <1>4, <1>5, <1>10, <1>11 DEF Next

-----------------------------------------------------------------------------
(* The theorems.                                                           *)

LEMMA AlwaysInv == Spec => []Inv
  <1>1. Inv /\ [Next]_vars => Inv'
    BY NextInv
  <1> QED
    BY <1>1, InitInv, PTL DEF Spec

\* Every counter keeps its type: ticks wrap, and a hit is a Boolean for good.
THEOREM TypeCorrect == Spec => []TypeOK
  <1>1. Inv => TypeOK
    BY DEF Inv
  <1> QED
    BY <1>1, AlwaysInv, PTL

\* Past its deadline an evaluation's own scopes let fewer than PollEvery polls
\* through in all, whatever the interval and the width of the counter.
THEOREM LatePollsBounded == Spec => []FewLatePolls
  <1>1. Inv => FewLatePolls
    BY DEF Inv, CounterInv, FewLatePolls
  <1> QED
    BY <1>1, AlwaysInv, PTL

\* No call from an own scope gets through after the deadline or the cancellation.
THEOREM CallsAreChecked == Spec => []OwnCallsChecked
  <1>1. Inv => OwnCallsChecked
    BY DEF Inv
  <1> QED
    BY <1>1, AlwaysInv, PTL

\* An evaluation is interrupted for its own deadline or its own context, whichever
\* lambdas it was lent; where another's composition can have it blamed for more,
\* it is for the limits of one that lends compositions, and never as D1012.
THEOREM OwnLimitsBlamed == Spec => []BlamesItsOwn
  <1>1. Inv => BlamesItsOwn
    BY DEF Inv, OutcomeInv, BlamesItsOwn
  <1> QED
    BY <1>1, AlwaysInv, PTL

\* Every $now of an evaluation answers its counter's instant, and from another's
\* composition that of an evaluation that lends compositions.
THEOREM InstantIsOne == Spec => []OneInstant
  <1>1. Inv => OneInstant
    BY DEF Inv, InstantInv, OneInstant
  <1> QED
    BY <1>1, AlwaysInv, PTL
=============================================================================
