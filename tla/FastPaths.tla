------------------------------ MODULE FastPaths -----------------------------
(***************************************************************************)
(* EvalBytes, EvalMap and EvalBytesWithCustomFuncs: an expression whose    *)
(* shape Compile recognised is answered straight from the raw JSON, by the *)
(* first tier that can, and any other way by decoding the document and     *)
(* evaluating the whole expression.  Every tier has its own reading of the *)
(* language, in gjson results rather than Go values, and the promise is    *)
(* that nobody can tell which tier answered.                               *)
(*                                                                         *)
(* A gjson result is the raw JSON value it points at; a []gjson.Result is  *)
(* a list.  Miss says that a tier leaves the answer to the next one.       *)
(***************************************************************************)
EXTENDS FullEvaluation

CONSTANT Batches   \* the calls: any doc, expr and mode (<<api, opt>>) of a batch

VARIABLES
    request,   \* the call being answered
    pc,        \* the tier to try next
    via,       \* the tier that answered
    answer,    \* what it answered
    full       \* what evalCore answers the call; the tiers never read it

vars == <<request, pc, via, answer, full>>

Options == {"none", "decimal", "sequence"}

Miss == [miss |-> TRUE]
List(s) == [list |-> s]

-----------------------------------------------------------------------------
(* Looking fields up in raw JSON.                                          *)

\* objectField and gjson: the first of an object's keys that matches
RawField(v, key) ==
    IF Is("obj", v) /\ \E i \in DOMAIN v.obj : v.obj[i][1] = key
    THEN v.obj[SelectInSeq(v.obj, LAMBDA pair : pair[1] = key)][2]
    ELSE Undefined

\* resolveGjsonPath: a dotted path, which crosses no array
Direct(api, doc, steps) ==
    LET rest == IF api = "EvalMap" THEN Tail(steps) ELSE steps
        root == IF api = "EvalMap" THEN RawField(doc, steps[1]) ELSE doc
    IN  FoldLeft(LAMBDA v, key : RawField(v, key), root, rest)

\* rawArrayFrame.add and result
RawSpread(v) == IF Is("list", v) THEN v.list ELSE Spread(v)
RawCollapse(s) ==
    IF s = <<>> THEN Undefined ELSE IF Len(s) = 1 THEN s[1] ELSE List(s)

\* A bug: arrays inside the array are passed over
RawFoundShallow(key, items) ==
    FlattenSeq([i \in DOMAIN items |-> RawSpread(RawField(items[i], key))])

\* stepNestedArray: the objects of an array, at any depth, are one sequence
RECURSIVE RawFound(_, _)
RawFound(key, items) ==
    FlattenSeq([i \in DOMAIN items |->
        IF Is("arr", items[i]) THEN RawFound(key, items[i].arr)
        ELSE RawSpread(RawField(items[i], key))])

StepInArray(key, items) == RawCollapse(RawFound(key, items))

\* A bug: a last step flattens a lone array like any other
StepArrayFlat(key, items, last) ==
    RawCollapse(FlattenSeq([i \in DOMAIN items |->
        RawSpread(IF Is("arr", items[i]) THEN StepInArray(key, items[i].arr)
                  ELSE RawField(items[i], key))]))

\* stepArray: each item is a context
StepArray(key, items, last) ==
    LET values == [i \in DOMAIN items |->
            IF Is("arr", items[i]) THEN StepInArray(key, items[i].arr)
            ELSE RawField(items[i], key)]
        defined == {i \in DOMAIN values : values[i] # Undefined}
    IN  IF last /\ Cardinality(defined) = 1 /\ \A i \in defined : Is("arr", values[i])
        THEN values[CHOOSE i \in defined : TRUE]
        ELSE RawCollapse(FlattenSeq([i \in DOMAIN values |-> RawSpread(values[i])]))

\* stepValue
StepValue(key, cur, doc, last) ==
    IF Is("list", cur) THEN StepArray(key, cur.list, last)
    ELSE IF Is("arr", cur)
    THEN IF doc THEN StepInArray(key, cur.arr) ELSE StepArray(key, cur.arr, last)
    ELSE RawField(cur, key)

\* walkPureStepsResolved: from the document, or from the value of the first
\* field of an EvalMap document
WalkFrom(steps, root, doc) ==
    FoldLeftDomain(LAMBDA cur, i :
            IF cur = Undefined THEN cur
            ELSE StepValue(steps[i], cur, doc /\ i = 1, i = Len(steps)),
        root, steps)
Walk(api, doc, steps) ==
    IF api = "EvalMap" THEN WalkFrom(Tail(steps), RawField(doc, steps[1]), FALSE)
    ELSE WalkFrom(steps, doc, TRUE)

\* gjsonValue: numbers keep their digits as canonical integers, or always
\* with useNumber, and arrays and objects are decoded
ToGo(v, useNumber) ==
    IF Is("num", v) /\ ~useNumber /\ Float[v.num] = Infinity THEN Num(Infinity)
    ELSE Decode(v)
FinalValue(v, useNumber) ==
    IF Is("list", v) THEN Arr([i \in DOMAIN v.list |-> ToGo(v.list[i], useNumber)])
    ELSE ToGo(v, useNumber)

-----------------------------------------------------------------------------
(* The tiers.  walks says that the expression may walk across arrays,      *)
(* which Compile takes away under WithSequence.                            *)

\* resolvePurePath
PurePath(e, api, doc, walks, useNumber) ==
    LET direct == Direct(api, doc, e.steps)
        walked == Walk(api, doc, e.steps)
    IN  IF direct # Undefined THEN ToGo(direct, useNumber)
        ELSE IF ~walks \/ walked = Undefined THEN Miss
        ELSE FinalValue(walked, useNumber)

\* matchComparison
Matches(v, e) ==
    LET equal ==
            IF Is("num", v) /\ Is("num", e.literal)
            THEN SameNumber(v.num, e.literal.num, "none")
            ELSE v = e.literal
    IN  IF Is("arr", v) \/ Is("obj", v) THEN Bool(e.op = "!=") ELSE Bool(equal = (e.op = "="))

\* evalComparison
Comparison(e, api, doc, walks) ==
    LET direct == Direct(api, doc, e.steps)
        walked == Walk(api, doc, e.steps)
    IN  IF direct # Undefined THEN Matches(direct, e)
        ELSE IF ~walks \/ walked = Undefined THEN Miss
        ELSE IF Is("list", walked) THEN Bool(e.op = "!=")
        ELSE Matches(walked, e)

\* aggregateFastValues and evalFuncSum ... evalFuncAverage
FastAggregate(fn, items) ==
    IF \E i \in DOMAIN items : ~Is("num", items[i]) THEN Miss
    ELSE IF items = <<>> /\ fn = "average" THEN Miss
    ELSE IF items = <<>> /\ fn # "sum" THEN Undefined
    ELSE Calc(fn, [i \in DOMAIN items |-> Float[items[i].num]])

\* evalFuncDistinct keys numbers by their digits, so 0 and -0 are two
FastDistinct(items) ==
    LET Key(v) == IF Is("num", v) THEN Num(Float[v.num]) ELSE v
        AddNew(out, x) ==
            IF \E i \in DOMAIN out : Key(out[i]) = Key(x) THEN out ELSE Append(out, x)
        out == FoldLeft(AddNew, <<>>, items)
    IN  IF \E i \in DOMAIN items : Is("arr", items[i]) \/ Is("obj", items[i]) THEN Miss
        ELSE Arr([i \in DOMAIN out |-> ToGo(out[i], FALSE)])

FastNumber(v) ==
    CASE Is("num", v) -> Num(Float[v.num])
      [] Is("str", v) -> IF ParseFloat[v.str] = NoNumber THEN Miss ELSE Num(ParseFloat[v.str])
      [] v = Bool(TRUE) -> Num("1")
      [] v = Bool(FALSE) -> Num("0")
      [] OTHER -> Miss

\* funcFastHandlers: a call on the one value v the path names
Handler(fn, v, arg) ==
    LET complex == Is("arr", v) \/ Is("obj", v)
        isTrue == IF Is("num", v) THEN v.num \notin Zeros ELSE Truthy(v)
    IN  CASE fn = "exists" -> Bool(TRUE)
          [] fn = "contains" -> IF Is("str", v) \/ Is("arr", v) THEN ContainsText(v, arg) ELSE Miss
          [] fn = "string" -> IF complex THEN Miss ELSE ToText(v, "none")
          [] fn = "boolean" -> IF complex THEN Miss ELSE Bool(isTrue)
          [] fn = "not" -> IF complex THEN Miss ELSE Bool(~isTrue)
          [] fn = "number" -> FastNumber(v)
          [] fn = "keys" -> IF Is("obj", v) THEN Collapse([i \in DOMAIN v.obj |-> Str(v.obj[i][1])])
                            ELSE Miss
          [] fn = "distinct" -> IF Is("arr", v) THEN FastDistinct(v.arr) ELSE Miss
          [] fn = "reverse" ->
             IF Is("arr", v) THEN Arr(Reverse([i \in DOMAIN v.arr |-> ToGo(v.arr[i], FALSE)]))
             ELSE Miss
          [] fn = "type" -> Str(TypeName(v))
          [] fn = "count" -> Count(Len(Spread(v)))
          [] fn \in Texts -> IF Is("str", v) THEN Calc(fn, <<v.str>>) ELSE Miss
          [] fn \in Roundings ->
             IF ~Is("num", v) \/ (fn = "sqrt" /\ v.num \in Negatives) THEN Miss
             ELSE Calc(fn, <<Float[v.num]>>)
          [] fn \in Aggregates -> IF Is("arr", v) THEN FastAggregate(fn, v.arr) ELSE Miss

\* evalFunc: the kinds that mean something over a walked sequence
FastCall(e, api, doc, walks) ==
    LET direct == Direct(api, doc, e.steps)
        walked == Walk(api, doc, e.steps)
    IN  IF direct # Undefined THEN Handler(e.fn, direct, e.arg)
        ELSE IF ~walks THEN Miss
        ELSE CASE e.fn = "exists" -> Bool(walked # Undefined)
               [] e.fn # "exists" /\ walked = Undefined -> Miss
               [] OTHER ->
                  CASE e.fn = "contains" -> IF Is("list", walked) THEN ContainsText(Arr(walked.list), e.arg)
                                            ELSE Handler(e.fn, walked, e.arg)
                    [] e.fn = "count" -> Count(Len(RawSpread(walked)))
                    [] e.fn \in Aggregates -> FastAggregate(e.fn, RawSpread(walked))
                    [] OTHER -> Miss

\* withoutWalk drops $keys: its result is a sequence the limit applies to
CallAllowed(fn, walks) == walks \/ fn # "keys"

\* evalBool and evalBoolLeaf; $not of a path is a composition here
RECURSIVE FastBool(_, _, _, _)
FastBool(e, api, doc, walks) ==
    LET Not(v) == IF v \in {Miss, Undefined} THEN v ELSE Bool(~Truthy(v))
    IN  CASE e.kind = "path" -> PurePath(e, api, doc, walks, FALSE)
          [] e.kind = "compare" -> Comparison(e, api, doc, walks)
          [] e.kind = "call" /\ e.fn = "not" -> Not(PurePath(e, api, doc, walks, FALSE))
          [] e.kind = "call" /\ e.fn # "not" ->
             IF CallAllowed(e.fn, walks) THEN FastCall(e, api, doc, walks) ELSE Miss
          [] e.kind = "not" -> Not(FastBool(e.left, api, doc, walks))
          [] e.kind \in {"and", "or"} ->
             LET l == FastBool(e.left, api, doc, walks)
                 r == FastBool(e.right, api, doc, walks)
             IN  IF l = Miss THEN Miss
                 ELSE IF Truthy(l) = (e.kind = "or") THEN Bool(e.kind = "or")
                 ELSE IF r = Miss THEN Miss ELSE Bool(Truthy(r))

-----------------------------------------------------------------------------
(* Compile.                                                                *)

\* decimalSafeFuncKinds: neither computes with numbers nor converts them
DecimalSafeFuncs ==
    {"exists", "contains", "boolean", "keys", "not", "type", "count"} \cup Texts

\* decimalSafe
RECURSIVE DecimalSafe(_)
DecimalSafe(e) ==
    CASE e.kind = "path" -> TRUE
      [] e.kind = "compare" -> ~Is("num", e.literal)
      [] e.kind = "call" -> e.fn \in DecimalSafeFuncs
      [] e.kind = "not" -> DecimalSafe(e.left)
      [] e.kind \in {"and", "or"} -> DecimalSafe(e.left) /\ DecimalSafe(e.right)

\* AnalyzeFastPath, DecimalSafe and SequenceLimited: the one tier that may
\* answer e, if any, and whether it may walk across arrays
Compile(e, opt) ==
    LET walks == opt # "sequence"
        tier == IF e.kind \in {"and", "or", "not"} THEN "bool" ELSE e.kind
    IN  [tier |-> IF \/ opt = "decimal" /\ ~DecimalSafe(e)
                     \/ tier = "call" /\ ~CallAllowed(e.fn, walks)
                  THEN "full" ELSE tier,
         walks |-> walks]

-----------------------------------------------------------------------------
(* One call.                                                               *)

\* DecodeInput or DecodeRawMap, then evalCore
FullAnswer(expr, doc, api, opt) == Evaluate(expr, Decode(doc), opt, api = "CustomFuncs")

Init ==
    /\ \E batch \in Batches :
        \E doc \in batch.docs, expr \in batch.exprs, mode \in batch.modes :
            /\ request = [doc |-> doc, expr |-> expr, api |-> mode[1], opt |-> mode[2]]
            /\ full = FullAnswer(expr, doc, mode[1], mode[2])
    /\ pc = "path"
    /\ via = "none"
    /\ answer = Miss

Plan == Compile(request.expr, request.opt)

\* a tier the expression has answers or leaves it to next; any other passes
Try(tier, next, value) ==
    /\ pc = tier
    /\ IF Plan.tier = tier /\ value # Miss
       THEN pc' = "done" /\ via' = tier /\ answer' = value
       ELSE pc' = next /\ UNCHANGED <<via, answer>>
    /\ UNCHANGED <<request, full>>

\* the pure path tier of tryFastPathBytes
TryPath ==
    Try("path", "compare",
        PurePath(request.expr, request.api, request.doc, Plan.walks, request.opt = "decimal"))

\* its comparison tier; a custom environment skips tryFuncFastBytes, which
\* looks at a function's name alone
TryComparison ==
    Try("compare", IF request.api = "CustomFuncs" THEN "full" ELSE "call",
        Comparison(request.expr, request.api, request.doc, Plan.walks))

\* tryFuncFastBytes
TryCall ==
    Try("call", "bool", FastCall(request.expr, request.api, request.doc, Plan.walks))
TryBool ==
    Try("bool", "full", FastBool(request.expr, request.api, request.doc, Plan.walks))

\* the answer of the evaluator, whatever the tiers said
EvaluateDecoded ==
    /\ pc = "full"
    /\ pc' = "done" /\ via' = "full"
    /\ answer' = full
    /\ UNCHANGED <<request, full>>

Next == TryPath \/ TryComparison \/ TryCall \/ TryBool \/ EvaluateDecoded

Spec == Init /\ [][Next]_vars

-----------------------------------------------------------------------------
(* Properties.                                                             *)

\* v and every value inside it
RECURSIVE Within(_)
Within(v) ==
    {v} \cup (IF Is("arr", v) THEN UNION {Within(v.arr[i]) : i \in DOMAIN v.arr}
              ELSE IF Is("obj", v) THEN UNION {Within(v.obj[i][2]) : i \in DOMAIN v.obj}
              ELSE {})

\* the builtins that ask what a number is worth
ByValue == Aggregates \cup Roundings \cup {"boolean", "not", "number", "distinct", "reverse"}

\* The requests on which tiers are known to read otherwise than the evaluator:
\* a key an object names twice, of which they take the first value; a number
\* out of float64's range, which they take for an infinity; zeros of both signs
\* in $distinct, which they key by their digits; in $number the radix prefixes
\* that strconv.ParseFloat reads; and, from the third step on, an array in an
\* object of the array that is an array's only item (WalkAgrees).
ReadOtherwise(r) ==
    LET e == r.expr
        within == Within(r.doc)
        Numbers(S) == \E v \in within : Is("num", v) /\ v.num \in S
        Twice(v) ==
            Is("obj", v) /\ \E i, j \in DOMAIN v.obj : i # j /\ v.obj[i][1] = v.obj[j][1]
        HoldsArray(v) == Is("obj", v) /\ \E i \in DOMAIN v.obj : Is("arr", v.obj[i][2])
        Lone(v) == Is("arr", v) /\ Len(v.arr) = 1 /\ Is("arr", v.arr[1])
                   /\ \E i \in DOMAIN v.arr[1].arr : HoldsArray(v.arr[1].arr[i])
        leaf == IF e.kind \in {"and", "or", "not"} THEN e.left ELSE e
    IN  \/ \E v \in within : Twice(v)
        \/ /\ Numbers({n \in DOMAIN Float : Float[n] = Infinity})
           /\ \/ e.kind = "path" /\ r.opt # "decimal"
              \/ e.kind = "call" /\ e.fn \in ByValue
              \/ e.kind \in {"and", "or", "not"}
        \/ e.kind = "call" /\ e.fn = "distinct" /\ \A z \in Zeros : Numbers({z})
        \/ /\ e.kind = "call" /\ e.fn = "number"
           /\ \E v \in within : Is("str", v) /\ v.str \in DOMAIN ParseRadix
        \/ Len(leaf.steps) > 2 /\ \E v \in within : Lone(v)

\* "the byte-level function fast path never disagrees with full AST
\* evaluation, whether it answers or falls back", and so for the path,
\* comparison and composition tiers, but for the requests ReadOtherwise names:
\* an answer is what decoding the document and evaluating the expression
\* gives.  It is so with WithDecimalPrecision, where a tier that computes with,
\* compares or converts numbers in float64 must not answer; with WithSequence,
\* where one that never counts must leave what the evaluator stops with D2015;
\* and with a custom environment, whose functions answer under builtins' names,
\* although the tiers recognise calls by name alone.
FastAgrees == pc = "done" => answer = full \/ ReadOtherwise(request)

\* pathExistsWalked: what the walker cannot resolve is exactly what is
\* undefined, so that without a limit a field path with a value never costs
\* a decode of the document.
WalkFindsEveryValue ==
    (via = "full" /\ request.expr.kind = "path" /\ request.opt # "sequence") =>
        answer = Undefined

\* What the comment on walkPureSteps promises (path_bytes.go:9-11,
\* "auto-mapping through arrays at every step exactly like the full evaluator
\* does"): a walk over raw arrays reads what the evaluator reads.
WalkAgrees == (pc = "done" /\ request.expr.kind = "path") => answer = full
=============================================================================
