--------------------------- MODULE CallStackProofs ---------------------------
(***************************************************************************)
(* Proofs about CallStack for every set of functions, every nesting of     *)
(* wrappers and all limits: the counters balance, and they bound the Go    *)
(* stack and the expression levels on it.                                  *)
(***************************************************************************)
EXTENDS CallStack, SequenceTheorems, TLAPS

-----------------------------------------------------------------------------
\* What calls cost.

\* Costs are natural numbers.
LEMMA CostType ==
    ASSUME NEW f \in Fns
    PROVE  BodyCost(f) \in Nat /\ Own(f) \in Nat
<1>1. \A a \in Nat, b \in Nat \ {0} : a \div b \in Nat
  BY SMT
<1>2. Levels[f] \in Nat /\ FreeDepth \in Nat /\ LevelsPerCall \in Nat \ {0}
  BY LevelsAssumption, LimitAssumption, PerCallAssumption
<1>3. BodyCost(f) \in Nat
  <2>1. CASE Levels[f] > FreeDepth
    <3>1. Levels[f] - FreeDepth \in Nat
      BY <1>2, <2>1
    <3> QED
      BY <1>1, <1>2, <2>1, <3>1 DEF BodyCost
  <2>2. CASE ~(Levels[f] > FreeDepth)
    BY <2>2 DEF BodyCost
  <2> QED
    BY <2>1, <2>2
<1>4. Levels[f] \div LevelsPerCall \in Nat
  BY <1>1, <1>2
<1> QED
  BY <1>3, <1>4 DEF Own

\* The levels of a body or of clauses are paid for: by the free levels of one
\* unit of depth, and by LevelsPerCall levels per unit of the budget.
LEMMA LevelsPaid ==
    ASSUME NEW f \in Fns, Kind[f] \in {"lambda", "transform"}
    PROVE  Levels[f] <= (FreeDepth + LevelsPerCall - 1) * DepthOf(f) + LevelsPerCall * Own(f)
<1> DEFINE L == LevelsPerCall
<1>1. \A a \in Nat, b \in Nat \ {0} : a \div b \in Nat /\ a <= b * (a \div b) + b - 1
  BY SMT
<1>2. Levels[f] \in Nat /\ FreeDepth \in Nat /\ L \in Nat \ {0}
  BY LevelsAssumption, LimitAssumption, PerCallAssumption
<1>3. CASE Kind[f] = "lambda"
  <2>1. DepthOf(f) = 1 /\ Own(f) = BodyCost(f)
    BY <1>3 DEF DepthOf, Own, Wrappers
  <2>2. CASE Levels[f] > FreeDepth
    <3>1. Levels[f] - FreeDepth \in Nat
      BY <1>2, <2>2
    <3>2. BodyCost(f) \in Nat /\ Levels[f] - FreeDepth <= L * BodyCost(f) + L - 1
      <4>1. BodyCost(f) = (Levels[f] - FreeDepth) \div L
        BY <2>2 DEF BodyCost
      <4>2. LET a == Levels[f] - FreeDepth
            IN a \div L \in Nat /\ a <= L * (a \div L) + L - 1
        BY ONLY <1>1, <1>2, <3>1, Zenon
      <4> QED
        BY <4>1, <4>2
    <3>3. L * BodyCost(f) \in Nat
      BY <1>2, <3>2
    <3>4. Levels[f] <= FreeDepth + L - 1 + L * BodyCost(f)
      BY <1>2, <3>2, <3>3
    <3>5. (FreeDepth + L - 1) * DepthOf(f) = FreeDepth + L - 1
      <4>1. (FreeDepth + L - 1) * 1 = FreeDepth + L - 1
        BY <1>2
      <4> QED
        BY <2>1, <4>1
    <3>6. L * Own(f) = L * BodyCost(f)
      BY <2>1
    <3> DEFINE A == (FreeDepth + LevelsPerCall - 1) * DepthOf(f)
               B == LevelsPerCall * Own(f)
               C == LevelsPerCall * BodyCost(f)
    <3>7. A = FreeDepth + L - 1 /\ B = C /\ C \in Nat
      BY <3>3, <3>5, <3>6
    <3>8. Levels[f] <= FreeDepth + L - 1 + C
      BY <3>4
    <3>9. Levels[f] <= A + B
      <4> HIDE DEF A, B, C
      <4> QED
        BY <1>2, <3>7, <3>8
    <3> QED
      BY <3>9
  <2>3. CASE ~(Levels[f] > FreeDepth)
    <3>1. BodyCost(f) = 0
      BY <2>3 DEF BodyCost
    <3> QED
      BY <1>2, <2>1, <2>3, <3>1
  <2> QED
    BY <2>2, <2>3
<1>4. CASE Kind[f] = "transform"
  <2> DEFINE q == Levels[f] \div L
  <2>1. DepthOf(f) = 0 /\ Own(f) = 1 + q
    BY <1>4 DEF DepthOf, Own, Wrappers
  <2>2. q \in Nat /\ Levels[f] <= L * q + L - 1
    BY <1>1, <1>2
  <2> HIDE DEF q
  <2>3. L * (1 + q) = L * q + L
    BY <1>2, <2>2
  <2>4. L * q \in Nat
    BY <1>2, <2>2
  <2> QED
    BY <1>2, <2>1, <2>2, <2>3, <2>4
<1> QED
  BY <1>3, <1>4

-----------------------------------------------------------------------------
\* The inductive invariant.

\* What the levels of the frames below are paid for with.
PerDepth == FreeDepth + LevelsPerCall - 1
Paid(b) == b.levels <= PerDepth * b.depth + LevelsPerCall * b.nested

\* What the counters were at least when a frame was entered, weighed by the
\* frames each unit allows: a lambda's own budget is left out, a trampoline
\* changes it.
Floor(fr) ==
    4 * (fr.base.depth + DepthOf(fr.fn))
    + 2 * (fr.base.nested + fr.base.eval + EvalOf(fr.fn)
            + IF Kind[fr.fn] = "lambda" THEN 0 ELSE Held(fr))

\* How many frames in a row, this one included, have cost nothing.
Rank(fr) ==
    IF Kind[fr.fn] = "builtin" /\ fr.unit = 0 THEN 1
    ELSE IF Kind[fr.fn] = "argument" /\ CallsLambdas(fr.fn) THEN 2
    ELSE IF Kind[fr.fn] \in {"partial", "composition"} /\ CallsLambdas(fr.fn) THEN 3
    ELSE 0

\* What is true of the i-th frame.
Good(i, fr) ==
    /\ fr.fn = Main <=> i = 1
    /\ ~InBody(fr) => Kind[fr.fn] = "lambda"
    /\ After(fr) \in Bases
    /\ Paid(fr.base)
    /\ i <= Floor(fr) + Rank(fr) + 1

\* The frames of a Go stack, each entered from the one below it.
Chain(s) ==
    /\ s \in Seq(Frames)
    /\ \A i \in 1 .. Len(s) :
        Good(i, s[i]) /\ s[i].base = IF i = 1 THEN NoBase ELSE After(s[i - 1])

Counts(s) == IF s = << >> THEN NoBase ELSE After(s[Len(s)])

\* The counters are those of the top frame; in a panic, the budget may be more.
Synced ==
    /\ depth = Counts(stack).depth
    /\ evalDepth = Counts(stack).eval
    /\ applyFocus = Counts(stack).focus
    /\ nested \in 0 .. MaxNested
    /\ Counts(stack).nested <= nested
    /\ flow # "panic" => nested = Counts(stack).nested

Rest ==
    /\ flow \in {"run", "value", "panic"} \cup Codes
    /\ bound # Undefined => bound \in Fns /\ Kind[bound] = "lambda"
    /\ raised \in Codes \cup {"none"}
    /\ replayed \in BOOLEAN
    /\ LimitsReported

IInv == Chain(stack) /\ Synced /\ Rest

-----------------------------------------------------------------------------
\* Frames.

\* The fields of a frame.
LEMMA FrameType ==
    ASSUME NEW fr \in Frames
    PROVE  /\ fr.fn \in Fns /\ fr.focus \in Contexts /\ fr.unit \in {0, 1}
           /\ fr.phase \in {"body", "tail"}
           /\ fr.iter \in 0 .. MaxIter /\ fr.made \in 0 .. MaxCalls + 2
           /\ fr.base \in Bases
           /\ fr.base.depth \in 0 .. MaxDepth /\ fr.base.nested \in 0 .. MaxNested
           /\ fr.base.eval \in 0 .. MaxEval /\ fr.base.focus \in Contexts
           /\ fr.base.levels \in Nat
           /\ DepthOf(fr.fn) \in {0, 1} /\ EvalOf(fr.fn) \in {0, 1}
           /\ Own(fr.fn) \in Nat /\ Held(fr) \in Nat /\ Load(fr) \in Nat
<1>1. fr.fn \in Fns /\ fr.unit \in {0, 1} /\ fr.base \in Bases
  BY DEF Frames
<1>2. Own(fr.fn) \in Nat
  BY <1>1, CostType
<1>3. Held(fr) \in Nat
  <2> HIDE DEF Own
  <2> QED
    BY <1>1, <1>2 DEF Held
<1>4. Load(fr) \in Nat
  BY <1>1, LevelsAssumption DEF Load
<1>5. DepthOf(fr.fn) \in {0, 1} /\ EvalOf(fr.fn) \in {0, 1}
  BY DEF DepthOf, EvalOf
<1>6. fr.focus \in Contexts /\ fr.phase \in {"body", "tail"}
      /\ fr.iter \in 0 .. MaxIter /\ fr.made \in 0 .. MaxCalls + 2
  BY DEF Frames
<1>7. /\ fr.base.depth \in 0 .. MaxDepth /\ fr.base.nested \in 0 .. MaxNested
      /\ fr.base.eval \in 0 .. MaxEval /\ fr.base.focus \in Contexts
      /\ fr.base.levels \in Nat
  BY <1>1 DEF Bases
<1> QED
  BY <1>1, <1>2, <1>3, <1>4, <1>5, <1>6, <1>7

\* Its numbers are natural.
LEMMA FrameNumbers ==
    ASSUME NEW fr \in Frames
    PROVE  /\ fr.unit \in Nat /\ fr.base.depth \in Nat /\ fr.base.nested \in Nat
           /\ fr.base.eval \in Nat /\ fr.base.levels \in Nat
           /\ DepthOf(fr.fn) \in Nat /\ EvalOf(fr.fn) \in Nat /\ Own(fr.fn) \in Nat
           /\ Held(fr) \in Nat /\ Load(fr) \in Nat
           /\ fr.iter \in Nat /\ fr.made \in Nat /\ MaxIter \in Nat /\ MaxCalls \in Nat
           /\ MaxDepth \in Nat /\ MaxNested \in Nat /\ MaxEval \in Nat
<1>1. /\ MaxDepth \in Nat /\ MaxNested \in Nat /\ MaxEval \in Nat
      /\ MaxIter \in Nat /\ MaxCalls \in Nat
  BY LimitAssumption
<1>2. /\ fr.base.depth \in 0 .. MaxDepth /\ fr.base.nested \in 0 .. MaxNested
      /\ fr.base.eval \in 0 .. MaxEval /\ fr.base.levels \in Nat
      /\ fr.unit \in {0, 1}
      /\ DepthOf(fr.fn) \in {0, 1} /\ EvalOf(fr.fn) \in {0, 1}
      /\ Own(fr.fn) \in Nat /\ Held(fr) \in Nat /\ Load(fr) \in Nat
      /\ fr.iter \in 0 .. MaxIter /\ fr.made \in 0 .. MaxCalls + 2
  BY FrameType
<1> HIDE DEF DepthOf, EvalOf, Own, Held, Load
<1> QED
  BY <1>1, <1>2

\* What a frame leaves on the stack is paid for, when what is below it is.
LEMMA AfterPaid ==
    ASSUME NEW fr \in Frames, Paid(fr.base)
    PROVE  Paid(After(fr))
<1> DEFINE D == DepthOf(fr.fn)
           H == Held(fr)
           P == PerDepth
           L == LevelsPerCall
           d == fr.base.depth
           n == fr.base.nested
           v == fr.base.levels
<1>1. /\ P \in Nat /\ L \in Nat /\ D \in Nat /\ H \in Nat
      /\ d \in Nat /\ n \in Nat /\ v \in Nat /\ Load(fr) \in Nat
  <2>1. P \in Nat /\ L \in Nat
    BY LimitAssumption, PerCallAssumption DEF PerDepth
  <2>2. MaxDepth \in Nat /\ MaxNested \in Nat
    BY LimitAssumption
  <2> QED
    BY FrameType, <2>1, <2>2
<1>2. P * D \in Nat /\ L * H \in Nat /\ P * d \in Nat /\ L * n \in Nat
  <2> HIDE DEF P, L, D, H, d, n
  <2>1. \A a \in Nat, b \in Nat : a * b \in Nat
    BY SMT
  <2> QED
    BY <1>1, <2>1
<1>3. Load(fr) <= P * D + L * H
  <2>1. CASE InBody(fr) /\ Kind[fr.fn] \in {"lambda", "transform"}
    <3>1. Load(fr) = Levels[fr.fn]
      BY <2>1 DEF Load
    <3>2. Levels[fr.fn] <= P * D + L * Own(fr.fn)
      BY <2>1, LevelsPaid, FrameType DEF PerDepth
    <3>3. L * Own(fr.fn) <= L * H
      <4>1. Own(fr.fn) \in Nat /\ fr.unit \in Nat /\ H = fr.unit + Own(fr.fn)
        BY <2>1, FrameType DEF Held
      <4>2. \A a \in Nat, b \in Nat, c \in Nat : a * b <= a * (c + b)
        BY SMT
      <4> QED
        BY <1>1, <4>1, <4>2
    <3>4. Levels[fr.fn] \in Nat /\ L * Own(fr.fn) \in Nat
      <4>1. \A a \in Nat, b \in Nat : a * b \in Nat
        BY SMT
      <4> QED
        BY <1>1, <4>1, FrameType, LevelsAssumption
    <3> DEFINE x == P * D
               y == L * H
               z == L * Own(fr.fn)
    <3>5. x \in Nat /\ y \in Nat /\ z \in Nat /\ Load(fr) <= x + z /\ z <= y
      BY <1>2, <3>1, <3>2, <3>3, <3>4
    <3>6. Load(fr) <= x + y
      <4> HIDE DEF x, y, z
      <4> QED
        BY <1>1, <3>5
    <3> QED
      BY <3>6
  <2>2. CASE ~(InBody(fr) /\ Kind[fr.fn] \in {"lambda", "transform"})
    <3>1. Load(fr) = 0
      BY <2>2 DEF Load
    <3> DEFINE x == P * D
               y == L * H
    <3>2. x \in Nat /\ y \in Nat
      BY <1>2
    <3>3. Load(fr) <= x + y
      <4> HIDE DEF x, y
      <4> QED
        BY <3>1, <3>2
    <3> QED
      BY <3>3
  <2> QED
    BY <2>1, <2>2
<1>4. v <= P * d + L * n
  BY DEF Paid
<1>5. P * (d + D) = P * d + P * D /\ L * (n + H) = L * n + L * H
  <2> HIDE DEF P, L, D, H, d, n
  <2>1. \A a \in Nat, b \in Nat, c \in Nat : a * (b + c) = a * b + a * c
    BY SMT
  <2> QED
    BY <1>1, <2>1
<1>6. v + Load(fr) <= P * (d + D) + L * (n + H)
  <2> DEFINE x == P * D
             y == L * H
             z == P * d
             w == L * n
  <2>1. /\ x \in Nat /\ y \in Nat /\ z \in Nat /\ w \in Nat
        /\ P * (d + D) = z + x /\ L * (n + H) = w + y
        /\ Load(fr) <= x + y /\ v <= z + w
    BY <1>2, <1>3, <1>4, <1>5
  <2>2. v + Load(fr) <= (z + x) + (w + y)
    <3> HIDE DEF x, y, z, w, v
    <3> QED
      BY <1>1, <2>1
  <2> QED
    BY <2>1, <2>2
<1> QED
  BY <1>6 DEF After, Paid

\* The calls the code makes: which function a frame calls, for how much.
May(fr, f, unit) ==
    \/ Kind[fr.fn] \in {"main", "lambda", "transform", "eval"} /\ unit = 0
    \/ Kind[fr.fn] = "builtin" /\ unit = IF ReachesLambda(f) THEN 0 ELSE 1
    \/ /\ Kind[fr.fn] \in Wrappers /\ unit = 0
       /\ \E k \in DOMAIN Wraps[fr.fn] : f = Wraps[fr.fn][k]

\* What a call costs, weighed as in Floor.
Weight(f, unit) ==
    4 * DepthOf(f) + 2 * (EvalOf(f) + IF Kind[f] = "lambda" THEN 0 ELSE unit + Own(f))

\* What a free wrapper calls: a lambda, or, wrapped as an argument, another
\* free wrapper.
LEMMA FreeCallee ==
    ASSUME NEW fr \in Frames, NEW f, NEW unit, May(fr, f, unit),
           Kind[fr.fn] \in Wrappers, CallsLambdas(fr.fn)
    PROVE  \/ Kind[f] = "lambda"
           \/ /\ Kind[fr.fn] = "argument"
              /\ Kind[f] \in {"partial", "composition"} /\ CallsLambdas(f)
<1>1. PICK k \in DOMAIN Wraps[fr.fn] : f = Wraps[fr.fn][k]
  BY DEF May, Wrappers
<1>2. CASE OnlyLambdas(fr.fn)
  BY <1>1, <1>2 DEF OnlyLambdas
<1>3. CASE ~OnlyLambdas(fr.fn)
  <2>1. /\ Kind[fr.fn] = "argument"
        /\ Kind[Wraps[fr.fn][1]] \in {"partial", "composition"}
        /\ OnlyLambdas(Wraps[fr.fn][1])
    BY <1>3 DEF CallsLambdas
  <2>2. Len(Wraps[fr.fn]) = 1 /\ Wraps[fr.fn] \in Seq(Fns \ {Main})
    BY <2>1, FrameType, WrapsAssumption
  <2>3. k = 1
    BY <1>1, <2>2
  <2> QED
    BY <1>1, <2>1, <2>3 DEF CallsLambdas
<1> QED
  BY <1>2, <1>3

\* A call makes up for the free frames before it, or is one more of few.
LEMMA CallWeight ==
    ASSUME NEW fr \in Frames, NEW f \in Fns, NEW unit \in {0, 1}, f # Main,
           May(fr, f, unit), NEW focus, NEW b
    PROVE  /\ Weight(f, unit) \in Nat
           /\ Rank(fr) + 1 <= Weight(f, unit) + Rank(Frame(f, focus, unit, b))
<1> DEFINE r == Rank(Frame(f, focus, unit, b))
<1> SUFFICES Weight(f, unit) \in Nat /\ Rank(fr) + 1 <= Weight(f, unit) + r
  OBVIOUS
<1>1. /\ Kind[f] = "builtin" /\ unit = 0 => r = 1
      /\ Kind[f] = "argument" /\ CallsLambdas(f) => r = 2
      /\ Kind[f] \in {"partial", "composition"} /\ CallsLambdas(f) => r = 3
      /\ r \in 0 .. 3
  BY DEF Frame, Rank
<1>2. Kind[f] \in Kinds /\ Kind[f] # "main"
  BY KindAssumption, MainAssumption
<1>3. /\ Rank(fr) \in 0 .. 3
      /\ Kind[f] # "lambda" /\ ~(Kind[f] \in {"partial", "composition"} /\ CallsLambdas(f))
          => Rank(fr) <= 1
      /\ Kind[f] # "lambda" => Rank(fr) <= 2
      /\ Kind[f] = "builtin" /\ unit = 0 => Rank(fr) = 0
  <2>1. CASE Kind[fr.fn] \in Wrappers /\ CallsLambdas(fr.fn)
    BY <2>1, FreeCallee DEF Rank, Wrappers
  <2>2. CASE ~(Kind[fr.fn] \in Wrappers /\ CallsLambdas(fr.fn))
    BY <2>2 DEF Rank, Wrappers, May, ReachesLambda
  <2> QED
    BY <2>1, <2>2
<1> HIDE DEF r
<1>4. Own(f) \in Nat /\ DepthOf(f) \in {0, 1} /\ EvalOf(f) \in {0, 1}
  BY CostType DEF DepthOf, EvalOf
<1>5. /\ Kind[f] = "lambda" => Weight(f, unit) = 4
      /\ Kind[f] = "eval" => Weight(f, unit) \in Nat /\ Weight(f, unit) >= 2
      /\ Kind[f] \notin {"lambda", "eval"} => Weight(f, unit) = 2 * (unit + Own(f))
  <2>1. CASE Kind[f] = "lambda"
    BY <2>1 DEF Weight, DepthOf, EvalOf
  <2>2. CASE Kind[f] = "eval"
    <3>1. DepthOf(f) = 0 /\ EvalOf(f) = 1
      BY <2>2 DEF DepthOf, EvalOf
    <3> HIDE DEF Own
    <3> QED
      BY <1>4, <2>2, <3>1 DEF Weight
  <2>3. CASE Kind[f] \notin {"lambda", "eval"}
    <3>1. DepthOf(f) = 0 /\ EvalOf(f) = 0
      BY <2>3 DEF DepthOf, EvalOf
    <3> HIDE DEF Own
    <3> QED
      BY <1>4, <2>3, <3>1 DEF Weight
  <2> QED
    BY <2>1, <2>2, <2>3
<1> HIDE DEF Own
<1>6. CASE Kind[f] \in {"lambda", "eval"}
  BY <1>1, <1>3, <1>5, <1>6
<1>7. CASE Kind[f] = "transform"
  <2>1. Own(f) >= 1
    <3>1. \A a \in Nat, c \in Nat \ {0} : a \div c \in Nat
      BY SMT
    <3>2. Own(f) = 1 + Levels[f] \div LevelsPerCall
      BY <1>7 DEF Own, Wrappers
    <3> QED
      BY <3>1, <3>2, LevelsAssumption, PerCallAssumption
  <2> QED
    BY <1>1, <1>3, <1>4, <1>5, <1>7, <2>1
<1>8. CASE Kind[f] = "builtin"
  <2>1. Own(f) = 0
    BY <1>8 DEF Own, Wrappers
  <2> QED
    BY <1>1, <1>3, <1>4, <1>5, <1>8, <2>1
<1>9. CASE Kind[f] \in Wrappers
  <2>1. Own(f) = IF CallsLambdas(f) THEN 0 ELSE 1
    BY <1>9 DEF Own, Wrappers
  <2>2. CASE ~CallsLambdas(f)
    <3>1. Own(f) = 1 /\ Rank(fr) <= 1 /\ Weight(f, unit) = 2 * (unit + Own(f))
      BY <1>3, <1>5, <1>9, <2>1, <2>2 DEF Wrappers
    <3> QED
      BY <1>1, <1>3, <3>1
  <2>3. CASE CallsLambdas(f)
    <3>1. Own(f) = 0 /\ Weight(f, unit) = 2 * (unit + Own(f))
          /\ ((r = 2 /\ Rank(fr) <= 1) \/ (r = 3 /\ Rank(fr) <= 2))
      BY <1>1, <1>3, <1>5, <1>9, <2>1, <2>3 DEF Wrappers
    <3> QED
      BY <1>1, <1>3, <3>1
  <2> QED
    BY <2>2, <2>3
<1> QED
  BY <1>2, <1>6, <1>7, <1>8, <1>9 DEF Kinds

\* A call the limits allow makes a good frame.
LEMMA GoodCall ==
    ASSUME NEW i \in Nat \ {0}, NEW fr \in Frames, Good(i, fr),
           NEW f \in Fns, f # Main, NEW focus \in Contexts, NEW unit \in {0, 1},
           May(fr, f, unit),
           After(fr).depth + DepthOf(f) <= MaxDepth,
           After(fr).nested + unit + Own(f) <= MaxNested,
           After(fr).eval + EvalOf(f) <= MaxEval
    PROVE  /\ Frame(f, focus, unit, After(fr)) \in Frames
           /\ Good(i + 1, Frame(f, focus, unit, After(fr)))
<1> DEFINE b == After(fr)
           new == Frame(f, focus, unit, b)
<1>1. /\ b \in Bases /\ b.depth \in 0 .. MaxDepth /\ b.nested \in 0 .. MaxNested
      /\ b.eval \in 0 .. MaxEval /\ b.focus \in Contexts /\ b.levels \in Nat
  <2>1. b \in Bases
    BY DEF Good
  <2> HIDE DEF b
  <2> QED
    BY <2>1 DEF Bases
<1>2. /\ new.fn = f /\ new.focus = focus /\ new.unit = unit /\ new.phase = "body"
      /\ new.base = b
  BY DEF Frame
<1>3. new \in Frames
  <2>1. 0 \in 0 .. MaxIter /\ 0 \in 0 .. MaxCalls + 2
    BY LimitAssumption
  <2> HIDE DEF b
  <2> QED
    BY <1>1, <2>1 DEF Frame, Frames
<1>4. /\ MaxDepth \in Nat /\ MaxNested \in Nat /\ MaxEval \in Nat
      /\ Own(f) \in Nat /\ DepthOf(f) \in {0, 1} /\ EvalOf(f) \in {0, 1}
  BY LimitAssumption, CostType DEF DepthOf, EvalOf
<1>5. Held(new) = unit + Own(f)
  BY <1>2 DEF Held, InBody
<1>6. After(new) \in Bases
  <2>1. /\ b.depth + DepthOf(f) \in 0 .. MaxDepth
        /\ b.nested + (unit + Own(f)) \in 0 .. MaxNested
        /\ b.eval + EvalOf(f) \in 0 .. MaxEval
    <3> HIDE DEF b, Own
    <3>1. /\ b.depth + DepthOf(f) <= MaxDepth
          /\ b.nested + unit + Own(f) <= MaxNested
          /\ b.eval + EvalOf(f) <= MaxEval
      BY DEF b
    <3> QED
      BY <1>1, <1>4, <3>1
  <2>2. b.levels + Load(new) \in Nat
    <3>1. Load(new) \in Nat
      BY <1>3, FrameType
    <3> HIDE DEF b, new
    <3> QED
      BY <1>1, <3>1
  <2> HIDE DEF new, b
  <2> QED
    BY <1>1, <1>2, <1>5, <2>1, <2>2 DEF After, Bases
<1>7. Paid(new.base)
  BY <1>2, AfterPaid DEF Good
<1>8. i + 1 <= Floor(new) + Rank(new) + 1
  <2>1. i <= Floor(fr) + Rank(fr) + 1
    BY DEF Good
  <2>2. Rank(fr) + 1 <= Weight(f, unit) + Rank(new) /\ Weight(f, unit) \in Nat
    BY CallWeight
  <2>3. Rank(fr) \in Nat /\ Rank(new) \in Nat
    BY DEF Rank
  <2>4. Floor(new) = 4 * b.depth + 2 * (b.nested + b.eval) + Weight(f, unit)
    <3>1. Floor(new) = 4 * (b.depth + DepthOf(f))
                        + 2 * (b.nested + b.eval + EvalOf(f)
                                + IF Kind[f] = "lambda" THEN 0 ELSE unit + Own(f))
      <4> HIDE DEF new, b
      <4> QED
        BY <1>2, <1>5 DEF Floor
    <3> HIDE DEF b, new, Own
    <3> QED
      BY <1>1, <1>4, <3>1 DEF Weight
  <2>5. Floor(fr) \in Nat /\ Floor(fr) <= 4 * b.depth + 2 * (b.nested + b.eval)
    <3> DEFINE d == fr.base.depth
               n == fr.base.nested
               e == fr.base.eval
               D == DepthOf(fr.fn)
               E == EvalOf(fr.fn)
               H == Held(fr)
    <3>1. d \in Nat /\ n \in Nat /\ e \in Nat /\ D \in Nat /\ E \in Nat /\ H \in Nat
      BY <1>4, FrameType
    <3>2. b.depth = d + D /\ b.nested = n + H /\ b.eval = e + E
      BY DEF After
    <3>3. Floor(fr) = 4 * (d + D) + 2 * (n + e + E + IF Kind[fr.fn] = "lambda" THEN 0 ELSE H)
      BY DEF Floor
    <3> HIDE DEF b, d, n, e, D, E, H
    <3> QED
      BY <3>1, <3>2, <3>3
  <2> HIDE DEF new, b
  <2> QED
    BY <1>1, <2>1, <2>2, <2>3, <2>4, <2>5
<1>9. new.fn # Main /\ i + 1 # 1 /\ InBody(new)
  BY <1>2 DEF InBody
<1> HIDE DEF new
<1> QED
  BY <1>3, <1>6, <1>7, <1>8, <1>9 DEF Good, new

-----------------------------------------------------------------------------
\* Stacks.

\* The top frame's own state changes.
LEMMA ChainTop ==
    ASSUME NEW s, Chain(s), s # << >>, NEW fr \in Frames,
           fr.base = s[Len(s)].base, Good(Len(s), fr)
    PROVE  /\ Chain([s EXCEPT ![Len(s)] = fr])
           /\ Len([s EXCEPT ![Len(s)] = fr]) = Len(s)
           /\ [s EXCEPT ![Len(s)] = fr][Len(s)] = fr
<1> DEFINE n == Len(s)
           t == [s EXCEPT ![n] = fr]
<1>1. s \in Seq(Frames) /\ n \in Nat \ {0}
  BY DEF Chain
<1>2. t \in Seq(Frames) /\ Len(t) = n /\ t[n] = fr
      /\ \A i \in 1 .. n : i # n => t[i] = s[i]
  BY <1>1
<1> HIDE DEF t
<1>3. ASSUME NEW i \in 1 .. Len(t)
      PROVE  Good(i, t[i]) /\ t[i].base = IF i = 1 THEN NoBase ELSE After(t[i - 1])
  <2>1. Good(i, s[i]) /\ s[i].base = IF i = 1 THEN NoBase ELSE After(s[i - 1])
    BY <1>2, <1>3 DEF Chain
  <2>2. i # 1 => t[i - 1] = s[i - 1]
    BY <1>1, <1>2, <1>3
  <2>3. i # n => t[i] = s[i]
    BY <1>2, <1>3
  <2>4. i = n => t[i] = fr
    BY <1>2
  <2> HIDE DEF n
  <2>5. Good(n, fr) /\ fr.base = s[n].base
    BY DEF n
  <2> QED
    BY <2>1, <2>2, <2>3, <2>4, <2>5, Zenon
<1>4. Chain(t)
  BY <1>2, <1>3 DEF Chain
<1> QED
  BY <1>2, <1>4 DEF t

\* A frame is entered.
LEMMA ChainPush ==
    ASSUME NEW s, Chain(s), s # << >>, NEW fr \in Frames,
           fr.base = After(s[Len(s)]), Good(Len(s) + 1, fr)
    PROVE  /\ Chain(Append(s, fr)) /\ Append(s, fr) # << >>
           /\ Append(s, fr)[Len(Append(s, fr))] = fr
<1> DEFINE n == Len(s)
           t == Append(s, fr)
<1>1. s \in Seq(Frames) /\ n \in Nat \ {0}
  BY DEF Chain
<1>2. t \in Seq(Frames) /\ Len(t) = n + 1 /\ t[n + 1] = fr
      /\ \A i \in 1 .. n : t[i] = s[i]
  BY <1>1
<1> HIDE DEF t
<1>3. ASSUME NEW i \in 1 .. Len(t)
      PROVE  Good(i, t[i]) /\ t[i].base = IF i = 1 THEN NoBase ELSE After(t[i - 1])
  <2>1. CASE i = n + 1
    <3>1. t[i] = fr /\ t[i - 1] = s[n] /\ i # 1
      BY <1>1, <1>2, <2>1
    <3> QED
      BY <2>1, <3>1
  <2>2. CASE i # n + 1
    <3>1. i \in 1 .. n
      BY <1>1, <1>2, <1>3, <2>2
    <3>2. Good(i, s[i]) /\ s[i].base = IF i = 1 THEN NoBase ELSE After(s[i - 1])
      BY <3>1 DEF Chain
    <3>3. t[i] = s[i] /\ (i # 1 => t[i - 1] = s[i - 1])
      BY <1>1, <1>2, <3>1
    <3> QED
      BY <3>2, <3>3, Zenon
  <2> QED
    BY <2>1, <2>2
<1>4. Chain(t)
  BY <1>2, <1>3 DEF Chain
<1>5. t # << >>
  BY <1>1, <1>2
<1> QED
  BY <1>1, <1>2, <1>4, <1>5 DEF t

\* A frame is left.
LEMMA ChainPop ==
    ASSUME NEW s, Chain(s), s # << >>
    PROVE  LET t == SubSeq(s, 1, Len(s) - 1)
           IN Chain(t) /\ Counts(t) = s[Len(s)].base
<1> DEFINE n == Len(s)
           t == SubSeq(s, 1, n - 1)
<1>1. s \in Seq(Frames) /\ n \in Nat \ {0}
  BY DEF Chain
<1>2. t \in Seq(Frames) /\ Len(t) = n - 1 /\ \A i \in 1 .. n - 1 : t[i] = s[i]
  <2>1. 1 \in Int /\ n - 1 \in Int /\ \A i \in 1 .. n - 1 : s[i] \in Frames
    BY <1>1
  <2>2. /\ t \in Seq(Frames)
        /\ Len(t) = IF 1 <= n - 1 THEN (n - 1) - 1 + 1 ELSE 0
        /\ \A i \in 1 .. (n - 1) - 1 + 1 : t[i] = s[1 + i - 1]
    BY <2>1, SubSeqProperties, SMT
  <2> HIDE DEF t
  <2>3. ASSUME NEW i \in 1 .. n - 1
        PROVE  t[i] = s[i]
    <3>1. i \in 1 .. (n - 1) - 1 + 1 /\ 1 + i - 1 = i
      <4> HIDE DEF n
      <4> QED
        BY <1>1, <2>3
    <3> QED
      BY <2>2, <3>1
  <2>4. Len(t) = n - 1
    <3> HIDE DEF n
    <3> QED
      BY <1>1, <2>2
  <2> QED
    BY <2>2, <2>3, <2>4
<1> HIDE DEF t
<1>3. ASSUME NEW i \in 1 .. Len(t)
      PROVE  Good(i, t[i]) /\ t[i].base = IF i = 1 THEN NoBase ELSE After(t[i - 1])
  <2>1. Good(i, s[i]) /\ s[i].base = IF i = 1 THEN NoBase ELSE After(s[i - 1])
    BY <1>1, <1>2, <1>3 DEF Chain
  <2>2. t[i] = s[i] /\ (i # 1 => t[i - 1] = s[i - 1])
    BY <1>1, <1>2, <1>3
  <2> QED
    BY <2>1, <2>2, Zenon
<1>4. Chain(t)
  BY <1>2, <1>3 DEF Chain
<1>5. s[n].base = IF n = 1 THEN NoBase ELSE After(s[n - 1])
  <2>1. n \in 1 .. n
    BY <1>1
  <2> QED
    BY <2>1, Zenon DEF Chain
<1>6. Counts(t) = s[n].base
  <2>1. CASE n = 1
    <3>1. t = << >>
      BY <1>2, <2>1
    <3> QED
      BY <1>5, <2>1, <3>1 DEF Counts
  <2>2. CASE n # 1
    <3>1. t # << >> /\ Len(t) = n - 1 /\ t[n - 1] = s[n - 1]
      BY <1>1, <1>2, <2>2
    <3> QED
      BY <1>5, <2>2, <3>1 DEF Counts
  <2> QED
    BY <2>1, <2>2
<1> QED
  BY <1>4, <1>6 DEF t

-----------------------------------------------------------------------------
\* The steps.

\* The top frame, and the counters it finds.
LEMMA TopFrame ==
    ASSUME IInv, stack # << >>
    PROVE  /\ stack \in Seq(Frames) /\ Len(stack) \in Nat \ {0}
           /\ Top \in Frames /\ Good(Len(stack), Top)
           /\ Counts(stack) = After(Top)
           /\ (Top.fn = Main <=> Len(stack) = 1)
           /\ depth = Top.base.depth + DepthOf(Top.fn)
           /\ evalDepth = Top.base.eval + EvalOf(Top.fn)
           /\ applyFocus = IF Kind[Top.fn] = "lambda" THEN Top.focus ELSE Top.base.focus
           /\ Top.base.nested + Held(Top) <= nested
           /\ (flow # "panic" => nested = Top.base.nested + Held(Top))
           /\ applyFocus \in Contexts
<1>1. stack \in Seq(Frames) /\ Len(stack) \in Nat \ {0}
  BY DEF IInv, Chain
<1>2. Len(stack) \in 1 .. Len(stack)
  BY <1>1
<1>3. Top \in Frames /\ Good(Len(stack), Top)
  <2>1. Good(Len(stack), stack[Len(stack)])
    BY <1>2, Zenon DEF IInv, Chain
  <2> QED
    BY <1>1, <2>1 DEF Top
<1>4. Counts(stack) = After(Top)
  BY DEF Counts, Top
<1>5. /\ depth = After(Top).depth /\ evalDepth = After(Top).eval
      /\ applyFocus = After(Top).focus /\ After(Top).nested <= nested
      /\ (flow # "panic" => nested = After(Top).nested)
  BY <1>4 DEF IInv, Synced
<1>6. /\ After(Top).depth = Top.base.depth + DepthOf(Top.fn)
      /\ After(Top).nested = Top.base.nested + Held(Top)
      /\ After(Top).eval = Top.base.eval + EvalOf(Top.fn)
      /\ After(Top).focus = IF Kind[Top.fn] = "lambda" THEN Top.focus ELSE Top.base.focus
  BY DEF After
<1>7. After(Top).focus \in Contexts
  BY <1>3 DEF Good, Bases
<1> QED
  BY <1>1, <1>3, <1>4, <1>5, <1>6, <1>7 DEF Good

\* An error is raised, or a panic: the stack and the counters stay.
LEMMA RaiseInv ==
    ASSUME IInv, flow = "run", NEW code \in Codes, Raise(code)
    PROVE  IInv'
<1>1. /\ flow' = code /\ raised' = code /\ flow' # "panic"
      /\ UNCHANGED <<stack, depth, nested, evalDepth, applyFocus, bound, replayed>>
  BY DEF Raise, counters, Codes
<1>2. Chain(stack)' /\ Synced'
  BY <1>1 DEF IInv, Synced
<1>3. Rest'
  BY <1>1 DEF IInv, Rest, LimitsReported
<1> QED
  BY <1>2, <1>3 DEF IInv

\* A call is refused or begins.
LEMMA InvokeInv ==
    ASSUME IInv, flow = "run", stack # << >>,
           NEW f \in Fns, f # Main, NEW focus \in Contexts, NEW unit \in {0, 1},
           May(Top, f, unit), Top.made + 1 \in 0 .. MaxCalls + 2,
           Invoke(f, focus, unit)
    PROVE  IInv'
<1>1. CASE Refused(f, unit)
  <2>1. Limit(f, unit) # "none" => Limit(f, unit) \in Codes
    BY DEF Limit, Codes
  <2>2. PICK code \in Codes : Raise(code)
    BY <1>1, <2>1 DEF Refused, Codes
  <2> QED
    BY <2>2, RaiseInv
<1>2. CASE Entered(f, focus, unit)
  <2> DEFINE top == [Top EXCEPT !.made = @ + 1]
             t == [stack EXCEPT ![Len(stack)] = top]
             new == Frame(f, focus, unit, After(top))
  <2>1. /\ stack \in Seq(Frames) /\ Len(stack) \in Nat \ {0}
        /\ Top \in Frames /\ Good(Len(stack), Top)
        /\ nested = Top.base.nested + Held(Top)
        /\ depth = After(Top).depth /\ nested = After(Top).nested
        /\ evalDepth = After(Top).eval /\ applyFocus = After(Top).focus
    BY TopFrame DEF After
  <2>2. top \in Frames /\ top.fn = Top.fn /\ top.unit = Top.unit
        /\ top.phase = Top.phase /\ top.focus = Top.focus /\ top.base = Top.base
    BY <2>1 DEF Frames
  <2>3. /\ After(top) = After(Top) /\ Good(Len(stack), top) /\ May(top, f, unit)
        /\ top.base = stack[Len(stack)].base
    <3> HIDE DEF top
    <3>1. /\ Held(top) = Held(Top) /\ Load(top) = Load(Top)
          /\ InBody(top) <=> InBody(Top)
      BY <2>2 DEF Held, Load, InBody
    <3>2. After(top) = After(Top)
      BY <2>2, <3>1 DEF After
    <3>3. Floor(top) = Floor(Top) /\ Rank(top) = Rank(Top)
      BY <2>2, <3>1 DEF Floor, Rank
    <3>4. Good(Len(stack), top)
      BY <2>1, <2>2, <3>1, <3>2, <3>3 DEF Good
    <3>5. May(top, f, unit)
      BY <2>2 DEF May
    <3> QED
      BY <2>2, <3>2, <3>4, <3>5 DEF Top
  <2>4. Here = After(top)
    BY <2>1, <2>3 DEF Here, After
  <2>5. stack' = Append(t, new)
    <3>1. [stack EXCEPT ![Len(stack)].made = @ + 1] = t
      BY <2>1 DEF Top
    <3> QED
      BY <1>2, <2>4, <3>1 DEF Entered
  <2>6. /\ nested + unit <= MaxNested
        /\ depth + DepthOf(f) <= MaxDepth
        /\ nested + unit + Own(f) <= MaxNested
        /\ evalDepth + EvalOf(f) <= MaxEval
    <3>1. Limit(f, unit) = "none"
      BY <1>2 DEF Entered
    <3>2. /\ ~(nested + unit > MaxNested)
          /\ ~(Kind[f] = "lambda" /\ depth + 1 > MaxDepth)
          /\ ~(nested + unit + Own(f) > MaxNested)
          /\ ~(Kind[f] = "eval" /\ evalDepth + 1 > MaxEval)
      <4> HIDE DEF Own
      <4> QED
        BY <3>1 DEF Limit
    <3>3. /\ depth \in Nat /\ depth <= MaxDepth
          /\ evalDepth \in Nat /\ evalDepth <= MaxEval /\ nested \in Nat
      BY <2>1, LimitAssumption DEF Good, Bases
    <3>4. Own(f) \in Nat /\ MaxDepth \in Nat /\ MaxNested \in Nat /\ MaxEval \in Nat
      BY CostType, LimitAssumption
    <3> HIDE DEF Own
    <3> QED
      BY <3>2, <3>3, <3>4 DEF DepthOf, EvalOf
  <2>7. Chain(t) /\ Len(t) = Len(stack) /\ t[Len(stack)] = top /\ t # << >>
    <3>1. Chain(stack)
      BY DEF IInv
    <3> HIDE DEF top
    <3>2. Chain(t) /\ Len(t) = Len(stack) /\ t[Len(stack)] = top
      BY <2>1, <2>2, <2>3, <3>1, ChainTop
    <3> QED
      BY <2>1, <3>2
  <2>8. new \in Frames /\ Good(Len(stack) + 1, new) /\ new.base = After(top)
    <3>1. /\ After(top).depth + DepthOf(f) <= MaxDepth
          /\ After(top).nested + unit + Own(f) <= MaxNested
          /\ After(top).eval + EvalOf(f) <= MaxEval
      BY <2>1, <2>3, <2>6
    <3> HIDE DEF top
    <3> QED
      BY <2>1, <2>2, <2>3, <3>1, GoodCall DEF Frame
  <2>9. Chain(stack)' /\ Counts(stack)' = After(new) /\ After(new) \in Bases
    <3> HIDE DEF t, new, top
    <3>1. Chain(Append(t, new)) /\ Append(t, new) # << >>
          /\ Append(t, new)[Len(Append(t, new))] = new
      BY <2>7, <2>8, ChainPush
    <3> QED
      BY <2>5, <2>8, <3>1 DEF Counts, Good
  <2>10. /\ After(new).depth = After(top).depth + DepthOf(f)
         /\ After(new).nested = After(top).nested + (unit + Own(f))
         /\ After(new).eval = After(top).eval + EvalOf(f)
         /\ After(new).focus = IF Kind[f] = "lambda" THEN focus ELSE After(top).focus
    <3> HIDE DEF top
    <3> QED
      BY DEF After, Frame, Held, InBody
  <2>11. Synced'
    <3>1. /\ depth' = After(new).depth /\ evalDepth' = After(new).eval
          /\ applyFocus' = After(new).focus /\ nested' = After(new).nested
      <4>1. /\ depth' = depth + DepthOf(f) /\ nested' = nested + unit + Own(f)
            /\ evalDepth' = evalDepth + EvalOf(f)
            /\ applyFocus' = IF Kind[f] = "lambda" THEN focus ELSE applyFocus
        BY <1>2 DEF Entered
      <4>2. nested \in Nat /\ Own(f) \in Nat
        BY <2>1, LimitAssumption, CostType DEF Good, Bases
      <4>3. nested + unit + Own(f) = nested + (unit + Own(f))
        <5> HIDE DEF Own
        <5> QED
          BY <4>2
      <4> HIDE DEF new, top
      <4> QED
        BY <2>1, <2>3, <2>10, <4>1, <4>3
    <3>2. After(new).nested \in 0 .. MaxNested /\ MaxNested \in Nat
      BY <2>9, LimitAssumption DEF Bases
    <3> HIDE DEF new
    <3> QED
      BY <2>9, <3>1, <3>2 DEF Synced
  <2>12. Rest'
    BY <1>2 DEF IInv, Rest, Entered, history, LimitsReported
  <2> QED
    BY <2>9, <2>11, <2>12 DEF IInv
<1> QED
  BY <1>1, <1>2 DEF Invoke

\* A frame that ends leaves the counters as it found them.
LEMMA LeavesFrame ==
    ASSUME IInv, stack # << >>,
           stack' = Below,
           depth' = depth - DepthOf(Top.fn),
           evalDepth' = evalDepth - EvalOf(Top.fn),
           applyFocus' = IF Kind[Top.fn] = "lambda" THEN Top.base.focus ELSE applyFocus
    PROVE  /\ Chain(stack)' /\ Counts(stack)' = Top.base
           /\ depth' = Counts(stack)'.depth /\ evalDepth' = Counts(stack)'.eval
           /\ applyFocus' = Counts(stack)'.focus
           /\ Counts(stack)'.nested \in 0 .. MaxNested
           /\ MaxNested \in Nat
<1>1. /\ Top \in Frames
      /\ depth = Top.base.depth + DepthOf(Top.fn)
      /\ evalDepth = Top.base.eval + EvalOf(Top.fn)
      /\ applyFocus = IF Kind[Top.fn] = "lambda" THEN Top.focus ELSE Top.base.focus
  BY TopFrame
<1>2. Chain(stack)' /\ Counts(stack)' = Top.base
  <2>1. Chain(stack)
    BY DEF IInv
  <2>2. Chain(Below) /\ Counts(Below) = stack[Len(stack)].base
    BY <2>1, ChainPop DEF Below
  <2> QED
    BY <2>2 DEF Top
<1>3. /\ Top.base.depth \in Nat /\ Top.base.eval \in Nat
      /\ Top.base.nested \in 0 .. MaxNested
      /\ DepthOf(Top.fn) \in Nat /\ EvalOf(Top.fn) \in Nat /\ MaxNested \in Nat
  BY <1>1, FrameType, FrameNumbers
<1>4. depth' = Top.base.depth /\ evalDepth' = Top.base.eval
  <2> DEFINE a == Top.base.depth
             e == Top.base.eval
             D == DepthOf(Top.fn)
             E == EvalOf(Top.fn)
  <2>1. depth = a + D /\ evalDepth = e + E /\ depth' = depth - D /\ evalDepth' = evalDepth - E
    BY <1>1
  <2>2. a \in Nat /\ e \in Nat /\ D \in Nat /\ E \in Nat
    BY <1>3
  <2>3. depth' = a /\ evalDepth' = e
    <3> HIDE DEF a, e, D, E
    <3> QED
      BY <2>1, <2>2
  <2> QED
    BY <2>3
<1>5. applyFocus' = Top.base.focus
  BY <1>1
<1> QED
  BY <1>2, <1>3, <1>4, <1>5

\* A frame ends, its budget given back too.
LEMMA LeavesInv ==
    ASSUME IInv, stack # << >>, flow # "panic", Leaves, flow' # "panic", Rest'
    PROVE  IInv'
<1>1. /\ Chain(stack)' /\ Counts(stack)' = Top.base
      /\ depth' = Counts(stack)'.depth /\ evalDepth' = Counts(stack)'.eval
      /\ applyFocus' = Counts(stack)'.focus
      /\ Counts(stack)'.nested \in 0 .. MaxNested
      /\ MaxNested \in Nat
  BY LeavesFrame DEF Leaves
<1>2. nested' = Counts(stack)'.nested
  <2>1. nested = Top.base.nested + Held(Top) /\ Top \in Frames
    BY TopFrame
  <2>2. Top.base.nested \in Nat /\ Held(Top) \in Nat
    BY <2>1, FrameType, LimitAssumption
  <2>3. nested' = nested - Held(Top)
    BY DEF Leaves
  <2>4. nested' = Top.base.nested
    <3> HIDE DEF Top, Held
    <3> QED
      BY <2>1, <2>2, <2>3
  <2> QED
    BY <1>1, <2>4
<1>3. Synced'
  <2> HIDE DEF Counts
  <2> QED
    BY <1>1, <1>2 DEF Synced
<1> QED
  BY <1>1, <1>3 DEF IInv

\* A frame ends in a panic: the budget it held stays spent.
LEMMA UnwindPanicInv ==
    ASSUME IInv, UnwindPanic
    PROVE  IInv'
<1>1. /\ Chain(stack)' /\ Counts(stack)' = Top.base
      /\ depth' = Counts(stack)'.depth /\ evalDepth' = Counts(stack)'.eval
      /\ applyFocus' = Counts(stack)'.focus
  BY LeavesFrame DEF UnwindPanic
<1>2. Counts(stack)'.nested <= nested' /\ nested' \in 0 .. MaxNested
  <2>1. Top.base.nested + Held(Top) <= nested /\ Top \in Frames
    BY TopFrame DEF UnwindPanic
  <2>2. Top.base.nested \in Nat /\ Held(Top) \in Nat /\ nested \in 0 .. MaxNested
    BY <2>1, FrameType, LimitAssumption DEF IInv, Synced
  <2>3. Top.base.nested <= nested
    <3> HIDE DEF Top, Held
    <3> QED
      BY <2>1, <2>2, LimitAssumption
  <2>4. nested' = nested
    BY DEF UnwindPanic
  <2> QED
    BY <1>1, <2>2, <2>3, <2>4
<1>3. flow' = "panic"
  BY DEF UnwindPanic
<1>4. Synced'
  <2> HIDE DEF Counts
  <2> QED
    BY <1>1, <1>2, <1>3 DEF Synced
<1>5. Rest'
  BY DEF IInv, Rest, LimitsReported, UnwindPanic, history, Codes
<1> QED
  BY <1>1, <1>4, <1>5 DEF IInv

\* A body ends in a tail call of anything but a lambda.
LEMMA TailOtherInv ==
    ASSUME IInv, TailOther
    PROVE  IInv'
<1> DEFINE fr == [Top EXCEPT !.phase = "tail", !.made = 0]
<1>1. /\ stack # << >> /\ flow = "run" /\ Kind[Top.fn] = "lambda" /\ InBody(Top)
      /\ stack' = [stack EXCEPT ![Len(stack)] = fr]
      /\ nested' = nested - Own(Top.fn)
      /\ UNCHANGED <<depth, evalDepth, applyFocus, flow, bound, raised, replayed>>
  BY DEF TailOther, Runs, history
<1>2. /\ stack \in Seq(Frames) /\ Len(stack) \in Nat \ {0}
      /\ Top \in Frames /\ Good(Len(stack), Top)
      /\ nested = Top.base.nested + Held(Top)
      /\ depth = Top.base.depth + DepthOf(Top.fn)
      /\ evalDepth = Top.base.eval + EvalOf(Top.fn)
      /\ applyFocus = Top.focus
  BY <1>1, TopFrame
<1>3. 0 \in 0 .. MaxCalls + 2
  BY LimitAssumption
<1>4. fr \in Frames /\ fr.fn = Top.fn /\ fr.unit = Top.unit /\ fr.phase = "tail"
      /\ fr.focus = Top.focus /\ fr.base = Top.base
  BY <1>2, <1>3 DEF Frames
<1>5. /\ Held(fr) = Top.unit /\ Load(fr) = 0 /\ ~InBody(fr)
      /\ Held(Top) = Top.unit + Own(Top.fn)
  <2> HIDE DEF fr
  <2>1. ~InBody(fr)
    BY <1>4 DEF InBody
  <2>2. Top.unit \in Nat
    BY <1>2, FrameNumbers
  <2> QED
    BY <1>1, <1>4, <2>1, <2>2 DEF Held, Load
<1>6. /\ Top.base.nested \in Nat /\ Top.base.levels \in Nat /\ Top.base.focus \in Contexts
      /\ Top.unit \in Nat /\ Own(Top.fn) \in Nat /\ MaxNested \in Nat
  BY <1>2, FrameType, FrameNumbers
<1>7. After(Top) \in Bases /\ After(Top).nested = Top.base.nested + Held(Top)
  BY <1>2 DEF Good, After
<1>8. nested' = Top.base.nested + Top.unit /\ nested' \in 0 .. MaxNested
  <2>1. Top.base.nested + Held(Top) <= MaxNested
    BY <1>6, <1>7 DEF Bases
  <2> HIDE DEF Top, Held, Own
  <2> QED
    BY <1>1, <1>2, <1>5, <1>6, <2>1
<1>9. /\ After(fr).depth = After(Top).depth /\ After(fr).eval = After(Top).eval
      /\ After(fr).nested = nested' /\ After(fr).focus = Top.focus
      /\ After(fr).levels = Top.base.levels
  <2> HIDE DEF fr
  <2> QED
    BY <1>1, <1>4, <1>5, <1>6, <1>8 DEF After
<1>10. After(fr) \in Bases
  <2>1. /\ After(Top).depth \in 0 .. MaxDepth /\ After(Top).eval \in 0 .. MaxEval
        /\ Top.focus \in Contexts
    BY <1>2, <1>7, FrameType DEF Bases
  <2>2. After(fr) = [depth |-> After(fr).depth, nested |-> After(fr).nested,
                     eval |-> After(fr).eval, focus |-> After(fr).focus,
                     levels |-> After(fr).levels]
    BY DEF After
  <2> HIDE DEF fr
  <2> QED
    BY <1>6, <1>8, <1>9, <2>1, <2>2 DEF Bases
<1>11. Good(Len(stack), fr)
  <2> HIDE DEF fr
  <2>1. Floor(fr) = Floor(Top)
    BY <1>1, <1>4 DEF Floor
  <2>2. Rank(fr) = Rank(Top)
    BY <1>4 DEF Rank
  <2> QED
    BY <1>1, <1>2, <1>4, <1>10, <2>1, <2>2 DEF Good
<1>12. Chain(stack)' /\ Counts(stack)' = After(fr)
  <2>1. Chain(stack) /\ fr.base = stack[Len(stack)].base
    BY <1>4 DEF IInv, Top
  <2> HIDE DEF fr
  <2>2. Chain(stack') /\ Len(stack') = Len(stack) /\ stack'[Len(stack)] = fr
    BY <1>1, <1>4, <1>11, <2>1, ChainTop
  <2>3. stack' # << >>
    BY <1>2, <2>2
  <2> QED
    BY <2>2, <2>3 DEF Counts
<1>13. Synced'
  <2>1. depth = After(Top).depth /\ evalDepth = After(Top).eval
    BY <1>2 DEF After
  <2> HIDE DEF fr, Counts
  <2> QED
    BY <1>1, <1>2, <1>6, <1>8, <1>9, <1>12, <2>1 DEF Synced
<1>14. Rest'
  BY <1>1 DEF IInv, Rest, LimitsReported
<1> QED
  BY <1>12, <1>13, <1>14 DEF IInv

\* A tail call of a lambda, by a body, a bind or a variable.
LEMMA TrampolineInv ==
    ASSUME IInv, Runs({"lambda"}), NEW g \in Fns, Kind[g] = "lambda",
           NEW focus \in Contexts, Trampoline(g, focus),
           bound' # Undefined => bound' \in Fns /\ Kind[bound'] = "lambda",
           replayed' \in BOOLEAN
    PROVE  IInv'
<1> DEFINE spare == nested - Own(Top.fn)
           fr == [Top EXCEPT !.fn = g, !.focus = focus, !.iter = @ + 1, !.made = 0]
<1>1. /\ stack # << >> /\ flow = "run" /\ Kind[Top.fn] = "lambda" /\ InBody(Top)
      /\ UNCHANGED evalDepth
  BY DEF Runs, Trampoline, Replaces
<1>2. /\ stack \in Seq(Frames) /\ Len(stack) \in Nat \ {0}
      /\ Top \in Frames /\ Good(Len(stack), Top)
      /\ nested = Top.base.nested + Held(Top)
      /\ depth = Top.base.depth + DepthOf(Top.fn)
      /\ evalDepth = Top.base.eval + EvalOf(Top.fn)
      /\ (Top.fn = Main <=> Len(stack) = 1)
  BY <1>1, TopFrame
<1>3. /\ Top.base.nested \in Nat /\ Top.base.depth \in Nat /\ Top.base.eval \in Nat
      /\ Top.base.levels \in Nat /\ Top.unit \in Nat /\ Own(Top.fn) \in Nat
      /\ MaxNested \in Nat /\ BodyCost(g) \in Nat
  BY <1>2, FrameNumbers, CostType
<1>4. DepthOf(Top.fn) = 1 /\ EvalOf(Top.fn) = 0 /\ Held(Top) = Top.unit + Own(Top.fn)
  BY <1>1 DEF DepthOf, EvalOf, Held
<1>5. spare = Top.base.nested + Top.unit
  <2> HIDE DEF Top, Held, Own
  <2> QED
    BY <1>2, <1>3, <1>4
<1>6. ASSUME NEW code \in Codes, stack' = Below, depth' = depth - 1,
             nested' = spare - Top.unit, applyFocus' = Top.base.focus,
             flow' = code, raised' = code
      PROVE  IInv'
  <2>1. Leaves
    <3>1. nested' = nested - Held(Top)
      <4> HIDE DEF Top, Held, Own
      <4> QED
        BY <1>2, <1>3, <1>4, <1>6
    <3>2. depth' = depth - DepthOf(Top.fn) /\ applyFocus' = Top.base.focus
      BY <1>4, <1>6
    <3>3. evalDepth' = evalDepth - EvalOf(Top.fn)
      BY <1>1, <1>2, <1>3, <1>4
    <3> QED
      BY <1>1, <1>6, <3>1, <3>2, <3>3, Zenon DEF Leaves
  <2>2. Rest' /\ flow' # "panic"
    BY <1>6 DEF Rest, LimitsReported, Codes
  <2> QED
    BY <1>1, <2>1, <2>2, LeavesInv
<1>7. ASSUME Top.iter + 1 <= MaxIter, spare + BodyCost(g) <= MaxNested,
             stack' = [stack EXCEPT ![Len(stack)] = fr],
             nested' = spare + BodyCost(g), applyFocus' = focus,
             UNCHANGED <<depth, flow, raised>>
      PROVE  IInv'
  <2>1. 0 \in 0 .. MaxCalls + 2 /\ Top.iter + 1 \in 0 .. MaxIter
    <3>1. Top.iter \in Nat /\ MaxIter \in Nat /\ MaxCalls \in Nat /\ Top.iter + 1 <= MaxIter
      BY <1>2, <1>7, FrameNumbers
    <3> QED
      BY <3>1
  <2>2. fr \in Frames /\ fr.fn = g /\ fr.unit = Top.unit /\ fr.phase = Top.phase
        /\ fr.focus = focus /\ fr.base = Top.base
    BY <1>2, <2>1 DEF Frames
  <2>3. InBody(fr) /\ Own(g) = BodyCost(g) /\ DepthOf(g) = 1 /\ EvalOf(g) = 0
    BY <1>1, <2>2 DEF InBody, Own, DepthOf, EvalOf, Wrappers
  <2>4. Held(fr) = Top.unit + BodyCost(g) /\ Load(fr) \in Nat
    <3> HIDE DEF fr
    <3>1. Load(fr) \in Nat
      BY <2>2, FrameNumbers
    <3> QED
      BY <2>2, <2>3, <3>1 DEF Held
  <2>5. nested' = Top.base.nested + Held(fr) /\ nested' \in 0 .. MaxNested
    <3>1. nested' = spare + BodyCost(g) /\ spare + BodyCost(g) <= MaxNested
      BY <1>7
    <3> HIDE DEF fr, spare
    <3> QED
      BY <1>3, <1>5, <2>4, <3>1
  <2>6. /\ After(fr).depth = depth /\ After(fr).eval = evalDepth
        /\ After(fr).nested = nested' /\ After(fr).focus = focus
        /\ After(fr).levels = Top.base.levels + Load(fr)
    <3> HIDE DEF fr, Own
    <3> QED
      BY <1>2, <1>4, <2>2, <2>3, <2>5 DEF After
  <2>7. After(fr) \in Bases
    <3>1. depth \in 0 .. MaxDepth /\ evalDepth \in 0 .. MaxEval
      <4>1. After(Top) \in Bases /\ After(Top).depth = depth /\ After(Top).eval = evalDepth
        BY <1>2 DEF Good, After
      <4> QED
        BY <4>1 DEF Bases
    <3>2. After(fr) = [depth |-> After(fr).depth, nested |-> After(fr).nested,
                       eval |-> After(fr).eval, focus |-> After(fr).focus,
                       levels |-> After(fr).levels]
      BY DEF After
    <3>3. Top.base.levels + Load(fr) \in Nat
      <4> HIDE DEF fr
      <4> QED
        BY <1>3, <2>4
    <3> HIDE DEF fr
    <3> QED
      BY <2>5, <2>6, <3>1, <3>2, <3>3 DEF Bases
  <2>8. Good(Len(stack), fr)
    <3> HIDE DEF fr
    <3>1. Floor(fr) = Floor(Top)
      BY <1>1, <1>4, <2>2, <2>3 DEF Floor
    <3>2. Rank(fr) = Rank(Top)
      BY <1>1, <2>2 DEF Rank
    <3>3. fr.fn = Main <=> Len(stack) = 1
      BY <1>1, <1>2, <2>2, MainAssumption
    <3> QED
      BY <1>2, <2>2, <2>3, <2>7, <3>1, <3>2, <3>3 DEF Good
  <2>9. Chain(stack)' /\ Counts(stack)' = After(fr)
    <3>1. Chain(stack) /\ fr.base = stack[Len(stack)].base
      BY <2>2 DEF IInv, Top
    <3> HIDE DEF fr
    <3>2. Chain(stack') /\ Len(stack') = Len(stack) /\ stack'[Len(stack)] = fr
      BY <1>1, <1>7, <2>2, <2>8, <3>1, ChainTop
    <3>3. stack' # << >>
      BY <1>2, <3>2
    <3> QED
      BY <3>2, <3>3 DEF Counts
  <2>10. Synced'
    <3> HIDE DEF fr, Counts
    <3> QED
      BY <1>1, <1>3, <1>7, <2>5, <2>6, <2>9 DEF Synced
  <2>11. Rest'
    BY <1>7 DEF IInv, Rest, LimitsReported
  <2> QED
    BY <2>9, <2>10, <2>11 DEF IInv
<1> QED
  BY <1>6, <1>7 DEF Trampoline, Replaces, Codes

-----------------------------------------------------------------------------
\* Init and Next.

LEMMA InitInv == Init => IInv
<1> SUFFICES ASSUME Init PROVE IInv
  OBVIOUS
<1> DEFINE fr == Frame(Main, Undefined, 0, NoBase)
<1>1. Main \in Fns /\ Kind[Main] = "main"
  BY MainAssumption
<1>2. /\ MaxDepth \in Nat /\ MaxNested \in Nat /\ MaxEval \in Nat /\ MaxIter \in Nat
      /\ MaxCalls \in Nat
  BY LimitAssumption
<1>3. NoBase \in Bases /\ Undefined \in Contexts
  BY <1>2 DEF NoBase, Bases, Contexts
<1>4. /\ fr.fn = Main /\ fr.unit = 0 /\ fr.phase = "body" /\ fr.base = NoBase
      /\ fr.focus = Undefined /\ fr \in Frames
  <2>1. 0 \in 0 .. MaxIter /\ 0 \in 0 .. MaxCalls + 2
    BY <1>2
  <2> QED
    BY <1>1, <1>3, <2>1 DEF Frame, Frames
<1>5. Own(Main) = 0 /\ DepthOf(Main) = 0 /\ EvalOf(Main) = 0
  BY <1>1 DEF Own, DepthOf, EvalOf, Wrappers
<1> HIDE DEF fr
<1>6. Held(fr) = 0 /\ Load(fr) = 0 /\ InBody(fr)
  BY <1>1, <1>4, <1>5 DEF Held, Load, InBody
<1>7. After(fr) = NoBase
  BY <1>1, <1>4, <1>5, <1>6 DEF After, NoBase
<1>8. Paid(NoBase)
  <2>1. PerDepth \in Nat /\ LevelsPerCall \in Nat
    BY LimitAssumption, PerCallAssumption DEF PerDepth
  <2>2. \A a \in Nat : a * 0 = 0
    BY SMT
  <2>3. PerDepth * 0 = 0 /\ LevelsPerCall * 0 = 0
    BY <2>1, <2>2
  <2> QED
    BY <2>3 DEF Paid, NoBase
<1>9. Floor(fr) = 0 /\ Rank(fr) = 0
  BY <1>1, <1>4, <1>5, <1>6 DEF Floor, Rank, NoBase
<1>10. Good(1, fr)
  BY <1>3, <1>4, <1>6, <1>7, <1>8, <1>9 DEF Good
<1>11. stack \in Seq(Frames) /\ Len(stack) = 1 /\ stack[1] = fr /\ stack # << >>
  BY <1>4 DEF Init, fr
<1>12. Chain(stack)
  BY <1>4, <1>10, <1>11 DEF Chain
<1>13. Counts(stack) = NoBase
  BY <1>7, <1>11 DEF Counts
<1>14. Synced
  BY <1>2, <1>13 DEF Synced, NoBase, Init
<1>15. Rest
  BY DEF Init, Rest, LimitsReported, Codes
<1> QED
  BY <1>12, <1>14, <1>15 DEF IInv

LEMMA NextInv == IInv /\ [Next]_vars => IInv'
<1> SUFFICES ASSUME IInv, [Next]_vars PROVE IInv'
  OBVIOUS
<1>1. ASSUME NEW f \in Fns \ {Main}, NEW focus \in Contexts, CodeCalls(f, focus)
      PROVE  IInv'
  <2>1. /\ flow = "run" /\ stack # << >> /\ Invoke(f, focus, 0)
        /\ Kind[Top.fn] \in {"main", "lambda", "transform", "eval"} /\ Top.made < MaxCalls
    BY <1>1 DEF CodeCalls, Runs
  <2>2. Top.made + 1 \in 0 .. MaxCalls + 2
    <3>1. Top.made \in Nat /\ MaxCalls \in Nat
      BY <2>1, TopFrame, FrameNumbers
    <3> QED
      BY <2>1, <3>1
  <2>3. May(Top, f, 0) /\ 0 \in {0, 1}
    BY <2>1 DEF May
  <2> QED
    BY <2>1, <2>2, <2>3, InvokeInv
<1>2. ASSUME NEW f \in Fns \ {Main}, BuiltinCalls(f)
      PROVE  IInv'
  <2> DEFINE unit == IF ReachesLambda(f) THEN 0 ELSE 1
  <2>1. /\ flow = "run" /\ stack # << >> /\ Invoke(f, Null, unit)
        /\ Kind[Top.fn] = "builtin" /\ Top.made < MaxCalls
    BY <1>2 DEF BuiltinCalls, Runs
  <2>2. Top.made + 1 \in 0 .. MaxCalls + 2
    <3>1. Top.made \in Nat /\ MaxCalls \in Nat
      BY <2>1, TopFrame, FrameNumbers
    <3> QED
      BY <2>1, <3>1
  <2>3. May(Top, f, unit) /\ unit \in {0, 1} /\ Null \in Contexts
    BY <2>1 DEF May, Contexts
  <2> HIDE DEF unit
  <2> QED
    BY <2>1, <2>2, <2>3, InvokeInv
<1>3. ASSUME NEW f \in Fns \ {Main}, TailApplies(f)
      PROVE  IInv'
  <2>1. /\ flow = "run" /\ stack # << >> /\ Invoke(f, Top.focus, 0)
        /\ ~InBody(Top) /\ Top.made = 0
    BY <1>3 DEF TailApplies
  <2>2. /\ Top.made + 1 \in 0 .. MaxCalls + 2 /\ Top.focus \in Contexts
        /\ Kind[Top.fn] = "lambda"
    BY <2>1, TopFrame, FrameType, LimitAssumption DEF Good
  <2>3. May(Top, f, 0) /\ 0 \in {0, 1}
    BY <2>2 DEF May
  <2> QED
    BY <2>1, <2>2, <2>3, InvokeInv
<1>4. ASSUME WrapperCalls
      PROVE  IInv'
  <2> DEFINE f == Wraps[Top.fn][Top.made + 1]
             last == Top.made + 1 = Len(Wraps[Top.fn])
             focus == CASE Kind[Top.fn] = "argument" \/ ~last -> Null
                        [] Kind[Top.fn] = "partial" /\ ~ReachesLambda(f) -> Undefined
                        [] OTHER -> Top.focus
  <2>1. /\ flow = "run" /\ stack # << >> /\ Invoke(f, focus, 0)
        /\ Kind[Top.fn] \in Wrappers /\ Top.made < Len(Wraps[Top.fn])
    BY <1>4 DEF WrapperCalls, Runs
  <2>2. Top \in Frames /\ Top.fn \in Fns /\ Top.made \in Nat /\ Top.focus \in Contexts
    BY <2>1, TopFrame, FrameType, FrameNumbers
  <2>3. Wraps[Top.fn] \in Seq(Fns \ {Main}) /\ Len(Wraps[Top.fn]) \in {0, 1, 2}
    BY <2>2, WrapsAssumption
  <2>4. Top.made + 1 \in DOMAIN Wraps[Top.fn] /\ Top.made + 1 \in 0 .. MaxCalls + 2
    <3>1. Top.made \in Nat /\ MaxCalls \in Nat
      BY <2>2, FrameNumbers
    <3> QED
      BY <2>1, <2>3, <3>1
  <2>5. f \in Fns /\ f # Main
    BY <2>3, <2>4
  <2>6. May(Top, f, 0) /\ 0 \in {0, 1}
    BY <2>1, <2>4 DEF May
  <2>7. focus \in Contexts
    BY <2>2 DEF Contexts
  <2> HIDE DEF f, focus
  <2> QED
    BY <2>1, <2>4, <2>5, <2>6, <2>7, InvokeInv
<1>5. ASSUME NEW g \in Fns, NEW focus \in Contexts, TailCall(g, focus)
      PROVE  IInv'
  <2>1. /\ Runs({"lambda"}) /\ Kind[g] = "lambda" /\ Trampoline(g, focus)
        /\ UNCHANGED <<bound, replayed>>
    BY <1>5 DEF TailCall
  <2>2. (bound' # Undefined => bound' \in Fns /\ Kind[bound'] = "lambda")
        /\ replayed' \in BOOLEAN
    BY <2>1 DEF IInv, Rest
  <2> QED
    BY <2>1, <2>2, TrampolineInv
<1>6. ASSUME NEW g \in Fns, NEW focus \in Contexts, TailBind(g, focus)
      PROVE  IInv'
  <2>1. /\ Runs({"lambda"}) /\ Kind[g] = "lambda" /\ Trampoline(g, focus)
        /\ bound' = (IF bound = Undefined THEN g ELSE bound)
        /\ UNCHANGED replayed
    BY <1>6 DEF TailBind
  <2>2. (bound' # Undefined => bound' \in Fns /\ Kind[bound'] = "lambda")
        /\ replayed' \in BOOLEAN
    BY <2>1 DEF IInv, Rest
  <2> QED
    BY <2>1, <2>2, TrampolineInv
<1>7. ASSUME TailRead
      PROVE  IInv'
  <2>1. PICK focus \in Contexts : Trampoline(bound, focus)
    BY <1>7 DEF TailRead
  <2>2. /\ Runs({"lambda"}) /\ bound \in Fns /\ Kind[bound] = "lambda"
        /\ UNCHANGED bound /\ replayed' = TRUE
    BY <1>7 DEF TailRead, IInv, Rest
  <2>3. (bound' # Undefined => bound' \in Fns /\ Kind[bound'] = "lambda")
        /\ replayed' \in BOOLEAN
    BY <2>2
  <2> QED
    BY <2>1, <2>2, <2>3, TrampolineInv
<1>8. ASSUME TailOther
      PROVE  IInv'
  BY <1>8, TailOtherInv
<1>9. ASSUME Return
      PROVE  IInv'
  <2>1. flow = "run" /\ stack # << >> /\ Leaves /\ flow' \in {"run", "value"}
        /\ UNCHANGED <<bound, raised, replayed>>
    BY <1>9 DEF Return, history
  <2>2. Rest' /\ flow' # "panic" /\ flow # "panic"
    BY <2>1 DEF IInv, Rest, LimitsReported, Codes
  <2> QED
    BY <2>1, <2>2, LeavesInv
<1>10. ASSUME Fail
       PROVE  IInv'
  BY <1>10, RaiseInv DEF Fail, Runs, Codes
<1>11. ASSUME Unwind
       PROVE  IInv'
  <2>1. flow \in Codes /\ stack # << >> /\ Leaves
        /\ flow' = (IF Kind[Top.fn] = "eval" THEN EvalError(flow) ELSE flow)
        /\ UNCHANGED <<bound, raised, replayed>>
    BY <1>11 DEF Unwind, history
  <2>2. flow' \in Codes /\ (flow # "T" => flow' = flow) /\ flow # "panic" /\ flow' # "panic"
    BY <2>1 DEF EvalError, Codes
  <2>3. Rest'
    BY <2>1, <2>2 DEF IInv, Rest, LimitsReported
  <2> QED
    BY <2>1, <2>2, <2>3, LeavesInv
<1>12. ASSUME Panic
       PROVE  IInv'
  <2>1. flow = "run" /\ flow' = "panic"
        /\ UNCHANGED <<stack, depth, nested, evalDepth, applyFocus, bound, raised, replayed>>
    BY <1>12 DEF Panic, Runs, counters, history
  <2>2. Chain(stack)' /\ Synced'
    BY <2>1 DEF IInv, Synced
  <2>3. Rest'
    BY <2>1 DEF IInv, Rest, LimitsReported, Codes
  <2> QED
    BY <2>2, <2>3 DEF IInv
<1>13. ASSUME UnwindPanic
       PROVE  IInv'
  BY <1>13, UnwindPanicInv
<1>14. ASSUME UNCHANGED vars
       PROVE  IInv'
  BY <1>14 DEF vars, counters, history, IInv, Synced, Rest, LimitsReported
<1> QED
  BY <1>1, <1>2, <1>3, <1>4, <1>5, <1>6, <1>7, <1>8, <1>9, <1>10, <1>11, <1>12, <1>13,
     <1>14, Zenon DEF Next, Calls, TailCalls, Returns, Ended

-----------------------------------------------------------------------------
\* The theorems.

LEMMA Invariance == Spec => []IInv
<1> QED
  BY InitInv, NextInv, PTL DEF Spec

\* The counters keep their types: neither $eval's depth, the calls' depth nor
\* the budget passes its limit, whatever is called.
THEOREM TypeCorrect == Spec => []TypeOK
<1>1. IInv => TypeOK
  <2> SUFFICES ASSUME IInv PROVE TypeOK
    OBVIOUS
  <2>1. stack \in Seq(Frames)
    BY DEF IInv, Chain
  <2>2. Counts(stack) \in Bases
    <3>1. CASE stack = << >>
      BY <3>1, LimitAssumption DEF Counts, NoBase, Bases, Contexts
    <3>2. CASE stack # << >>
      BY <3>2, TopFrame DEF Good
    <3> QED
      BY <3>1, <3>2
  <2>3. /\ depth \in 0 .. MaxDepth /\ evalDepth \in 0 .. MaxEval /\ applyFocus \in Contexts
        /\ nested \in 0 .. MaxNested
    <3>1. /\ Counts(stack).depth \in 0 .. MaxDepth /\ Counts(stack).eval \in 0 .. MaxEval
          /\ Counts(stack).focus \in Contexts
      BY <2>2 DEF Bases
    <3> HIDE DEF Counts
    <3> QED
      BY <3>1 DEF IInv, Synced
  <2>4. /\ flow \in {"run", "value", "panic"} \cup Codes /\ bound \in Fns \cup {Undefined}
        /\ raised \in Codes \cup {"none"} /\ replayed \in BOOLEAN
    BY DEF IInv, Rest
  <2> QED
    BY <2>1, <2>3, <2>4 DEF TypeOK
<1> QED
  BY <1>1, Invariance, PTL

\* Every frame finds the counters and the context as it left them, and an
\* evaluation that ended holds nothing.
THEOREM CountersBalanced == Spec => []Balanced
<1>1. IInv => Balanced
  <2> SUFFICES ASSUME IInv PROVE Balanced
    OBVIOUS
  <2>1. ASSUME NEW i \in 2 .. Len(stack)
        PROVE  stack[i].base = After(stack[i - 1])
    <3>1. i \in 1 .. Len(stack) /\ i # 1
      BY <2>1 DEF IInv, Chain
    <3> QED
      BY <3>1, Zenon DEF IInv, Chain
  <2>2. (IF stack = << >> THEN NoBase ELSE After(Top)) = Counts(stack)
    BY DEF Counts, Top
  <2> QED
    BY <2>1, <2>2, Zenon DEF Balanced, IInv, Synced
<1> QED
  BY <1>1, Invariance, PTL

\* The limits bound the Go stack.
THEOREM StackBounded == Spec => []GoStackBounded
<1>1. IInv => GoStackBounded
  <2> SUFFICES ASSUME IInv PROVE GoStackBounded
    OBVIOUS
  <2>1. MaxDepth \in Nat /\ MaxNested \in Nat /\ MaxEval \in Nat
    BY LimitAssumption
  <2>2. CASE stack = << >>
    <3>1. Len(stack) = 0
      BY <2>2
    <3> QED
      BY <2>1, <3>1 DEF GoStackBounded
  <2>3. CASE stack # << >>
    <3> DEFINE a == Top.base.depth
               n == Top.base.nested
               e == Top.base.eval
               D == DepthOf(Top.fn)
               E == EvalOf(Top.fn)
               H == Held(Top)
    <3>1. Top \in Frames /\ Good(Len(stack), Top) /\ Len(stack) \in Nat
      BY <2>3, TopFrame
    <3>2. /\ a \in Nat /\ n \in Nat /\ e \in Nat /\ D \in Nat /\ E \in Nat /\ H \in Nat
      BY <3>1, FrameNumbers
    <3>3. a + D <= MaxDepth /\ n + H <= MaxNested /\ e + E <= MaxEval
      <4>1. After(Top) \in Bases
        BY <3>1 DEF Good
      <4>2. /\ After(Top).depth = a + D /\ After(Top).nested = n + H
            /\ After(Top).eval = e + E
        BY DEF After
      <4>3. /\ After(Top).depth \in 0 .. MaxDepth /\ After(Top).nested \in 0 .. MaxNested
            /\ After(Top).eval \in 0 .. MaxEval
        BY <4>1 DEF Bases
      <4> HIDE DEF a, n, e, D, E, H
      <4> QED
        BY <2>1, <3>2, <4>2, <4>3
    <3>4. Floor(Top) = 4 * (a + D) + 2 * (n + e + E + IF Kind[Top.fn] = "lambda" THEN 0 ELSE H)
      BY DEF Floor
    <3>5. Rank(Top) \in 0 .. 3 /\ Len(stack) <= Floor(Top) + Rank(Top) + 1
      BY <3>1 DEF Good, Rank
    <3>6. Len(stack) <= 4 * MaxDepth + 2 * (MaxNested + MaxEval) + 4
      <4> HIDE DEF a, n, e, D, E, H
      <4> QED
        BY <2>1, <3>1, <3>2, <3>3, <3>4, <3>5
    <3> QED
      BY <3>6 DEF GoStackBounded
  <2> QED
    BY <2>2, <2>3
<1> QED
  BY <1>1, Invariance, PTL

\* The limits bound the expression levels on the Go stack.
THEOREM LevelsOnStackBounded == Spec => []LevelsBounded
<1>1. IInv => LevelsBounded
  <2> SUFFICES ASSUME IInv, stack # << >>
               PROVE  After(Top).levels <= PerDepth * MaxDepth + LevelsPerCall * MaxNested
    BY DEF LevelsBounded, PerDepth
  <2> DEFINE d == After(Top).depth
             n == After(Top).nested
             v == After(Top).levels
             P == PerDepth
             L == LevelsPerCall
  <2>1. /\ P \in Nat /\ L \in Nat /\ MaxDepth \in Nat /\ MaxNested \in Nat
    BY LimitAssumption, PerCallAssumption DEF PerDepth
  <2>2. Top \in Frames /\ Good(Len(stack), Top)
    BY TopFrame
  <2>3. v <= P * d + L * n
    BY <2>2, AfterPaid DEF Good, Paid
  <2>4. d \in Nat /\ n \in Nat /\ v \in Nat /\ d <= MaxDepth /\ n <= MaxNested
    <3>1. d \in 0 .. MaxDepth /\ n \in 0 .. MaxNested /\ v \in Nat
      BY <2>2 DEF Good, Bases
    <3> HIDE DEF d, n, v
    <3> QED
      BY <2>1, <3>1
  <2> HIDE DEF d, n, v, P, L
  <2>5. P * d <= P * MaxDepth /\ L * n <= L * MaxNested
    <3>1. \A x \in Nat, y \in Nat, z \in Nat : y <= z => x * y <= x * z
      BY SMT
    <3> QED
      BY <2>1, <2>4, <3>1
  <2>6. P * d \in Nat /\ L * n \in Nat /\ P * MaxDepth \in Nat /\ L * MaxNested \in Nat
    <3>1. \A x \in Nat, y \in Nat : x * y \in Nat
      BY SMT
    <3> QED
      BY <2>1, <2>4, <3>1
  <2>7. v <= P * MaxDepth + L * MaxNested
    <3> DEFINE x == P * d
               y == L * n
               X == P * MaxDepth
               Y == L * MaxNested
    <3>1. x <= X /\ y <= Y /\ v <= x + y /\ x \in Nat /\ y \in Nat /\ X \in Nat /\ Y \in Nat
      BY <2>3, <2>5, <2>6
    <3>2. v <= X + Y
      <4> HIDE DEF x, y, X, Y
      <4> QED
        BY <2>4, <3>1
    <3> QED
      BY <3>2
  <2> QED
    BY <2>7 DEF v, P, L
<1> QED
  BY <1>1, Invariance, PTL

\* A limit that was reached is the error the evaluation ends in.
THEOREM LimitsAreReported == Spec => []LimitsReported
<1>1. IInv => LimitsReported
  BY DEF IInv, Rest
<1> QED
  BY <1>1, Invariance, PTL
=============================================================================
