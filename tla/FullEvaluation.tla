--------------------------- MODULE FullEvaluation ---------------------------
(***************************************************************************)
(* What the evaluator answers for the expressions that also have a fast    *)
(* path: field paths, comparisons of a path with a literal, calls of a     *)
(* builtin on a path, and their and / or / $not compositions.              *)
(*                                                                         *)
(* An expression is a record whose field kind is "path" (steps), "compare" *)
(* (steps, op, literal), "call" (fn, steps, arg), "and", "or" (left,       *)
(* right) or "not" (left).  opt is the compile option in force: "none",    *)
(* "decimal" (WithDecimalPrecision) or "sequence" (WithSequence).          *)
(***************************************************************************)
EXTENDS JsonValues, FiniteSets

CONSTANTS
    MaxSequence,  \* the limit WithSequence sets
    CustomFuncs   \* the builtins a custom environment replaces

ASSUME SequenceAssumption == MaxSequence \in Nat \ {0}

TooLong(n, opt) == opt = "sequence" /\ n > MaxSequence
LimitError == Error("D2015")

\* checkSequenceLength
Bounded(v, opt) == IF Is("arr", v) /\ TooLong(Len(v.arr), opt) THEN LimitError ELSE v

-----------------------------------------------------------------------------
(* Field lookup.                                                           *)

\* the values each item of an array yields, at any depth, in order
RECURSIVE Yields(_, _)
Yields(key, items) ==
    FlattenSeq([i \in DOMAIN items |->
        IF Is("arr", items[i]) THEN Yields(key, items[i].arr)
        ELSE LET values == Spread(Field(items[i], key))
             IN  IF values = <<>> THEN <<>> ELSE <<values>>])

Found(key, items) == FlattenSeq(Yields(key, items))

\* foundCount: once the walk is inside a nested array, the values found so
\* far count against the limit as soon as two items have yielded some
NestedTooLong(key, items, opt) ==
    LET nested == {i \in DOMAIN items : Is("arr", items[i])}
        first == CHOOSE i \in nested : \A j \in nested : i <= j
        before == Yields(key, SubSeq(items, 1, first - 1))
        after == Yields(key, SubSeq(items, first, Len(items)))
    IN  /\ nested # {}
        /\ TooLong(Len(Found(key, items)), opt)
        /\ Len(after) + (IF before = <<>> THEN 0 ELSE 1) >= 2

\* nameOverArray: an array taken as one context yields one sequence
LookupArray(key, items, opt) ==
    IF NestedTooLong(key, items, opt) THEN LimitError ELSE Collapse(Found(key, items))

\* nameOverContexts: each item is a context of its own.  A last step passes
\* the array of the only context that yields something through; any other
\* lone array is one context of the next step.
LookupContexts(key, items, last, opt) ==
    LET values == [i \in DOMAIN items |->
            IF Is("arr", items[i]) THEN LookupArray(key, items[i].arr, opt)
            ELSE Field(items[i], key)]
        defined == {i \in DOMAIN values : values[i] # Undefined}
        plain == {i \in defined :
                    /\ Is("arr", values[i])
                    /\ Is("arr", items[i]) => Len(Found(key, items[i].arr)) <= 1}
        flat == FlattenSeq([i \in DOMAIN values |-> Spread(values[i])])
    IN  IF LimitError \in {values[i] : i \in defined} THEN LimitError
        ELSE IF last /\ Cardinality(defined) = 1 /\ defined = plain
        THEN values[CHOOSE i \in defined : TRUE]
        ELSE IF TooLong(Len(flat), opt) THEN LimitError
        ELSE IF Len(flat) = 1 /\ Is("arr", flat[1]) THEN [contexts |-> flat]
        ELSE Collapse(flat)

\* a field step: over the root array, which is one context, over any other
\* array's items, or on one value
NameStep(key, cur, root, last, opt) ==
    IF Is("contexts", cur) THEN LookupContexts(key, cur.contexts, last, opt)
    ELSE IF Is("arr", cur)
    THEN IF root THEN Bounded(LookupArray(key, cur.arr, opt), opt)
         ELSE LookupContexts(key, cur.arr, last, opt)
    ELSE LET value == Field(cur, key) IN IF last THEN value ELSE Bounded(value, opt)

\* evalPathSimpleSteps: the path's value and what its last step ran over
PathSteps(steps, doc, opt) ==
    LET Step(state, i) ==
            IF state.value = Undefined \/ Is("error", state.value) THEN state
            ELSE [value |-> NameStep(steps[i], state.value, i = 1, i = Len(steps), opt),
                  lastIn |-> state.value]
    IN  FoldLeftDomain(Step, [value |-> doc, lastIn |-> doc], steps)

Settled(v) == IF Is("contexts", v) THEN v.contexts[1] ELSE v

PathValue(steps, doc, opt) == Settled(PathSteps(steps, doc, opt).value)

\* lastStepSequence: a path's value is a sequence, not a plain array, unless
\* its last step took it from exactly one context
IsSequence(key, lastIn) ==
    LET items == IF Is("contexts", lastIn) THEN lastIn.contexts ELSE lastIn.arr
        holding == {i \in DOMAIN items : Field(items[i], key) # Undefined}
    IN  /\ Is("contexts", lastIn) \/ Is("arr", lastIn)
        /\ \/ \E i \in DOMAIN items : Is("arr", items[i])
           \/ Cardinality(holding) # 1
           \/ \E i \in holding : ~Is("arr", Field(items[i], key))

-----------------------------------------------------------------------------
(* The builtins, on an argument v of a call that is plain (not a sequence).*)

Aggregates == {"sum", "max", "min", "average"}
Roundings == {"abs", "floor", "ceil", "sqrt"}
Texts == {"lowercase", "uppercase", "trim", "length"}
Builtins == Aggregates \cup Roundings \cup Texts \cup
    {"exists", "contains", "string", "boolean", "number", "not", "keys",
     "distinct", "type", "count", "reverse"}

\* a number as arithmetic takes it: exact under decimal precision
Operand(n, opt) == IF opt = "decimal" THEN n ELSE Float[n]

\* ToFloat64 fails on a number out of range
IsNumeric(v) == Is("num", v) /\ Float[v.num] # Infinity

\* fnContains: a string, or any string item of an array
HoldsText(v, text) == Is("str", v) /\ text \in {"", v.str}
ContainsText(v, text) ==
    IF Is("str", v) THEN Bool(HoldsText(v, text))
    ELSE IF Is("arr", v) THEN Bool(\E i \in DOMAIN v.arr : HoldsText(v.arr[i], text))
    ELSE Error("T0410")

\* fnNumber and decNumber
ToNumber(v, opt) ==
    IF Is("num", v)
    THEN IF IsNumeric(v) THEN Num(Operand(v.num, opt)) ELSE Error("D3030")
    ELSE IF Is("str", v)
    THEN LET text == Trim[v.str]
             n == IF text \in DOMAIN ParseRadix THEN ParseRadix[text] ELSE ParseFloat[text]
         IN  IF n = NoNumber THEN Error("D3030") ELSE Num(Operand(n, opt))
    ELSE IF v = Bool(TRUE) THEN Num("1")
    ELSE IF v = Bool(FALSE) THEN Num("0")
    ELSE Error("T0410")

\* valueToString
ToText(v, opt) ==
    IF Is("str", v) THEN v
    ELSE IF Is("lit", v) THEN Str(v.lit)
    ELSE IF Is("num", v)
    THEN Calc(IF opt = "decimal" THEN "FormatDecimal" ELSE "FormatNumber", <<v.num>>)
    ELSE Calc("AppendJSON", <<v>>)

\* fnKeys: an object's keys, or those of the objects in an array, each once
RECURSIVE KeysIn(_)
KeysIn(v) ==
    IF Is("obj", v) THEN [i \in DOMAIN v.obj |-> v.obj[i][1]]
    ELSE IF Is("arr", v) THEN FlattenSeq([i \in DOMAIN v.arr |-> KeysIn(v.arr[i])])
    ELSE <<>>

AddOnce(seen, x) == IF \E i \in DOMAIN seen : seen[i] = x THEN seen ELSE Append(seen, x)

Keys(v, opt) ==
    LET keys == FoldLeft(AddOnce, <<>>, KeysIn(v))
    IN  IF TooLong(Len(keys), opt) THEN LimitError
        ELSE Collapse([i \in DOMAIN keys |-> Str(keys[i])])

\* DeepEqual of two decoded scalars, and the keys of fnDistinct, under which
\* 0 and -0 are one number
SameNumber(m, n, opt) ==
    \/ Operand(m, opt) = Operand(n, opt) /\ (Float[m] # Infinity \/ m = n)
    \/ m \in Zeros /\ n \in Zeros
Same(v, w, opt) ==
    IF Is("num", v) /\ Is("num", w) THEN SameNumber(v.num, w.num, opt) ELSE v = w

\* fnDistinct: a plain array stays an array, a sequence collapses
Distinct(v, plain, opt) ==
    LET AddNew(out, x) ==
            IF \E i \in DOMAIN out : Same(out[i], x, opt) THEN out ELSE Append(out, x)
    IN  IF ~Is("arr", v) \/ Len(Spread(v)) <= 1 THEN v
        ELSE LET out == FoldLeft(AddNew, <<>>, v.arr)
             IN  IF plain THEN Arr(out) ELSE Collapse(out)

\* $sum, $max, $min, $average: over an array of numbers, or one number
Aggregate(fn, v, opt) ==
    LET items == IF Is("arr", v) THEN v.arr ELSE <<v>>
    IN  IF \E i \in DOMAIN items : ~IsNumeric(items[i]) THEN Error("T0412")
        ELSE IF items = <<>> /\ fn # "sum" THEN Undefined
        ELSE Calc(fn, [i \in DOMAIN items |-> Operand(items[i].num, opt)])

Rounded(fn, v, opt) ==
    IF ~IsNumeric(v) THEN Error("T0410")
    ELSE IF fn = "sqrt" /\ v.num \in Negatives THEN Error("D3060")
    ELSE Calc(fn, <<Operand(v.num, opt)>>)

TypeName(v) ==
    CASE Is("arr", v) -> "array" [] Is("obj", v) -> "object"
      [] Is("num", v) -> "number" [] Is("str", v) -> "string"
      [] v = Null -> "null" [] OTHER -> "boolean"

\* a call of a builtin: undefined in, undefined out, but for $exists and $count
Call(fn, v, arg, plain, opt) ==
    CASE fn = "exists" -> Bool(v # Undefined)
      [] fn = "count" -> Count(Len(Spread(v)))
      [] fn \notin {"exists", "count"} /\ v = Undefined -> Undefined
      [] OTHER ->
         CASE fn = "contains" -> ContainsText(v, arg)
           [] fn = "string" -> ToText(v, opt)
           [] fn = "boolean" -> Bool(Truthy(v))
           [] fn = "not" -> Bool(~Truthy(v))
           [] fn = "number" -> ToNumber(v, opt)
           [] fn = "keys" -> Keys(v, opt)
           [] fn = "distinct" -> Distinct(v, plain, opt)
           [] fn = "reverse" -> Arr(Reverse(Spread(v)))
           [] fn = "type" -> Str(TypeName(v))
           [] fn \in Texts -> IF Is("str", v) THEN Calc(fn, <<v.str>>) ELSE Error("T0410")
           [] fn \in Roundings -> Rounded(fn, v, opt)
           [] fn \in Aggregates -> Aggregate(fn, v, opt)

-----------------------------------------------------------------------------
(* The evaluator.  custom says that the call was given a custom            *)
(* environment, whose functions answer in place of the builtins.           *)

Literal(v, e, opt) ==
    IF v = Undefined THEN Bool(FALSE)
    ELSE Bool(Same(v, e.literal, opt) = (e.op = "="))

Custom(fn) == Calc("custom", <<fn>>)

RECURSIVE Evaluate(_, _, _, _)
Evaluate(e, doc, opt, custom) ==
    CASE e.kind = "path" -> PathValue(e.steps, doc, opt)
      [] e.kind = "compare" ->
         LET v == PathValue(e.steps, doc, opt)
         IN  IF Is("error", v) THEN v ELSE Literal(v, e, opt)
      [] e.kind = "call" ->
         LET path == PathSteps(e.steps, doc, opt)
             plain == ~IsSequence(e.steps[Len(e.steps)], path.lastIn)
         IN  IF Is("error", path.value) THEN path.value
             ELSE IF custom /\ e.fn \in CustomFuncs THEN Custom(e.fn)
             ELSE Call(e.fn, Settled(path.value), e.arg, plain, opt)
      [] e.kind = "not" ->
         LET v == Evaluate(e.left, doc, opt, custom)
         IN  IF Is("error", v) THEN v ELSE Call("not", v, "", TRUE, opt)
      [] e.kind \in {"and", "or"} ->
         LET l == Evaluate(e.left, doc, opt, custom)
             r == Evaluate(e.right, doc, opt, custom)
         IN  IF Is("error", l) THEN l
             ELSE IF Truthy(l) = (e.kind = "or") THEN Bool(e.kind = "or")
             ELSE IF Is("error", r) THEN r ELSE Bool(Truthy(r))
=============================================================================
