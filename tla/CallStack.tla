------------------------------ MODULE CallStack ------------------------------
(***************************************************************************)
(* The function calls of one evaluation: invokeFunction and its trampoline,*)
(* evalLambdaBody, the wrappers (partial applications, compositions and    *)
(* function arguments), transforms, $eval, builtins that call functions    *)
(* back, and the call counter of env.go that keeps them from overflowing   *)
(* the Go stack.                                                           *)
(*                                                                         *)
(* The Go stack is a sequence of frames, one per call in progress.  A      *)
(* frame remembers in "base" what the counters were when it was entered:   *)
(* the code keeps only the focus there, the rest is history.  What an      *)
(* expression's own code does is left open: it calls functions, returns,   *)
(* fails, or panics.                                                       *)
(***************************************************************************)
EXTENDS Integers, Sequences

CONSTANTS
    Fns,       \* the expression itself and the functions it can call
    Main,      \* the expression
    Kind,      \* what each is
    Wraps,     \* the functions a wrapper applies, in order
    Levels,    \* how deeply a lambda's body or a transform's clauses nest
    Binders,   \* lambdas that end in a bind of a call: $x := $f()
    Readers,   \* closures of a binder's scope whose body is that variable: $x
    Foci, Null, Undefined,   \* call contexts: values, JSON null, Go's nil
    MaxDepth,  \* counter.max: defaultMaxCallDepth or WithStack's
    MaxNested, \* maxNestedCalls
    MaxEval,   \* maxEvalDepth of $eval
    MaxIter,   \* iterations of a trampoline
    FreeDepth, LevelsPerCall,   \* lambdaFreeDepth, levelsPerNestedCall
    MaxCalls   \* bound on the calls the code of one frame makes

Wrappers == {"partial", "composition", "argument"}
Kinds == {"main", "lambda", "builtin", "eval", "transform"} \cup Wrappers

ASSUME MainAssumption == Main \in Fns /\ \A f \in Fns : Kind[f] = "main" <=> f = Main
ASSUME KindAssumption == Kind \in [Fns -> Kinds]
ASSUME WrapsAssumption ==
    /\ Wraps \in [Fns -> Seq(Fns \ {Main})]
    /\ \A f \in Fns :
        Len(Wraps[f]) = CASE Kind[f] \in {"partial", "argument"} -> 1
                          [] Kind[f] = "composition" -> 2
                          [] OTHER -> 0
    \* wrapFunctionArg returns an argument wrapper as it is
    /\ \A f \in Fns : Kind[f] = "argument" => Kind[Wraps[f][1]] # "argument"
ASSUME LevelsAssumption == Levels \in [Fns -> Nat]
ASSUME BinderAssumption == \A f \in Binders \cup Readers : f \in Fns /\ Kind[f] = "lambda"
ASSUME LimitAssumption ==
    {MaxDepth, MaxNested, MaxEval, MaxIter, FreeDepth, MaxCalls} \subseteq Nat
ASSUME PerCallAssumption == LevelsPerCall \in Nat \ {0}

VARIABLES
    stack,       \* the Go stack: one frame per call in progress
    depth,       \* counter.depth
    nested,      \* counter.nested
    evalDepth,   \* counter.evalDepth
    applyFocus,  \* counter.applyFocus
    flow,        \* "run", "value", "panic", or the code of an error
    bound,       \* what a binder's variable holds: Undefined, or the tail
                 \* call's function, the sentinel the bind stored
    raised,      \* history: the code an error had when it was raised
    replayed     \* history: a sentinel was read out of a variable and run

counters == <<depth, nested, evalDepth, applyFocus>>
history == <<raised, replayed>>
vars == <<stack, counters, flow, bound, history>>

Contexts == Foci \cup {Null, Undefined}
Codes == {"T", "D3121", "D1011", "U1001", "stop"}

-----------------------------------------------------------------------------
\* What the kinds of functions cost.

ReachesLambda(f) == Kind[f] \in {"lambda"} \cup Wrappers

OnlyLambdas(f) == \A i \in DOMAIN Wraps[f] : Kind[Wraps[f][i]] = "lambda"

\* The wrapper calls only lambdas, directly or, as an argument wrapper,
\* through the partial application or composition it wraps.
CallsLambdas(f) ==
    \/ OnlyLambdas(f)
    \/ /\ Kind[f] = "argument"
       /\ Kind[Wraps[f][1]] \in {"partial", "composition"}
       /\ OnlyLambdas(Wraps[f][1])

BodyCost(f) ==
    IF Levels[f] > FreeDepth THEN (Levels[f] - FreeDepth) \div LevelsPerCall ELSE 0

\* The nesting budget a call of f spends while it runs.
Own(f) ==
    CASE Kind[f] = "lambda"    -> BodyCost(f)
      [] Kind[f] \in Wrappers  -> IF CallsLambdas(f) THEN 0 ELSE 1
      [] Kind[f] = "transform" -> 1 + Levels[f] \div LevelsPerCall
      [] OTHER                 -> 0

DepthOf(f) == IF Kind[f] = "lambda" THEN 1 ELSE 0
EvalOf(f) == IF Kind[f] = "eval" THEN 1 ELSE 0

-----------------------------------------------------------------------------
\* Frames.

Top == stack[Len(stack)]
Below == SubSeq(stack, 1, Len(stack) - 1)

\* A lambda's frame is in its body until the body returns a tail call of
\* another kind of function, which runs while the lambda's depth is counted.
InBody(fr) == fr.phase = "body"

\* What a frame holds of the budget: unit is a callback's (ApplyFunction).
Held(fr) == fr.unit + IF InBody(fr) THEN Own(fr.fn) ELSE 0

\* The expression levels a frame has on the Go stack.
Load(fr) ==
    IF InBody(fr) /\ Kind[fr.fn] \in {"lambda", "transform"} THEN Levels[fr.fn] ELSE 0

Frame(f, focus, unit, base) ==
    [fn |-> f, focus |-> focus, unit |-> unit, phase |-> "body",
     iter |-> 0, made |-> 0, base |-> base]

Here ==
    [depth |-> depth, nested |-> nested, eval |-> evalDepth, focus |-> applyFocus,
     levels |-> Top.base.levels + Load(Top)]

NoBase == [depth |-> 0, nested |-> 0, eval |-> 0, focus |-> Undefined, levels |-> 0]

\* evalCore: a fresh call counter, and the expression's evaluation begins.
Init ==
    /\ stack = <<Frame(Main, Undefined, 0, NoBase)>>
    /\ depth = 0 /\ nested = 0 /\ evalDepth = 0 /\ applyFocus = Undefined
    /\ flow = "run"
    /\ bound = Undefined
    /\ raised = "none"
    /\ replayed = FALSE

\* Code that can call functions in any number is running.
Runs(kinds) == flow = "run" /\ stack # << >> /\ Kind[Top.fn] \in kinds /\ InBody(Top)

Raise(code) ==
    /\ flow' = code
    /\ raised' = code
    /\ UNCHANGED <<stack, counters, bound, replayed>>

-----------------------------------------------------------------------------
\* Calling.

\* A bug: the budget a deep lambda body spends is not checked.
LimitForgetsBodies(f, unit) ==
    CASE nested + unit > MaxNested                        -> "U1001"
      [] Kind[f] = "lambda" /\ depth + 1 > MaxDepth       -> "D1011"
      [] Kind[f] # "lambda" /\ nested + unit + Own(f) > MaxNested -> "U1001"
      [] Kind[f] = "eval" /\ evalDepth + 1 > MaxEval      -> "D3121"
      [] OTHER                                            -> "none"

\* A bug: $eval may nest once more.
LimitEvalLate(f, unit) ==
    CASE nested + unit > MaxNested                        -> "U1001"
      [] Kind[f] = "lambda" /\ depth + 1 > MaxDepth       -> "D1011"
      [] nested + unit + Own(f) > MaxNested               -> "U1001"
      [] Kind[f] = "eval" /\ evalDepth > MaxEval          -> "D3121"
      [] OTHER                                            -> "none"

\* The limit a call of f exceeds, if any.
Limit(f, unit) ==
    CASE nested + unit > MaxNested                        -> "U1001"
      [] Kind[f] = "lambda" /\ depth + 1 > MaxDepth       -> "D1011"
      [] nested + unit + Own(f) > MaxNested               -> "U1001"
      [] Kind[f] = "eval" /\ evalDepth + 1 > MaxEval      -> "D3121"
      [] OTHER                                            -> "none"

\* The call is refused: a limit, the context or deadline (errNow), or
\* arguments the function's signature does not take.
Refused(f, unit) ==
    \/ Limit(f, unit) # "none" /\ Raise(Limit(f, unit))
    \/ nested + unit <= MaxNested /\ \E code \in {"stop", "T"} : Raise(code)

\* The call begins.
Entered(f, focus, unit) ==
    /\ Limit(f, unit) = "none"
    /\ stack' = Append([stack EXCEPT ![Len(stack)].made = @ + 1],
                       Frame(f, focus, unit, Here))
    /\ depth' = depth + DepthOf(f)
    /\ nested' = nested + unit + Own(f)
    /\ evalDepth' = evalDepth + EvalOf(f)
    /\ applyFocus' = IF Kind[f] = "lambda" THEN focus ELSE applyFocus
    /\ UNCHANGED <<flow, bound, history>>

Invoke(f, focus, unit) == Refused(f, unit) \/ Entered(f, focus, unit)

\* The code of the expression, a lambda's body, a transform's clauses or
\* $eval's expression calls f.  A call expression calls the lambda an argument
\* wrapper holds itself, a chain (~>) calls the wrapper.
CodeCalls(f, focus) ==
    /\ Runs({"main", "lambda", "transform", "eval"})
    /\ Top.made < MaxCalls
    /\ Invoke(f, focus, 0)

\* A bug: a callback that is a builtin costs nothing.
BuiltinCallsFree(f) ==
    /\ Runs({"builtin"})
    /\ Top.made < MaxCalls
    /\ Invoke(f, Null, 0)

\* A builtin calls a function argument back with a null context: ApplyFunction
\* charges one unit for what is not a lambda or a wrapper.
BuiltinCalls(f) ==
    /\ Runs({"builtin"})
    /\ Top.made < MaxCalls
    /\ Invoke(f, Null, IF ReachesLambda(f) THEN 0 ELSE 1)

\* A wrapper applies the next function it wraps.
WrapperCalls ==
    /\ Runs(Wrappers)
    /\ Top.made < Len(Wraps[Top.fn])
    /\ LET f == Wraps[Top.fn][Top.made + 1]
           last == Top.made + 1 = Len(Wraps[Top.fn])
           focus == CASE Kind[Top.fn] = "argument" \/ ~last -> Null
                      [] Kind[Top.fn] = "partial" /\ ~ReachesLambda(f) -> Undefined
                      [] OTHER -> Top.focus
       IN Invoke(f, focus, 0)

-----------------------------------------------------------------------------
\* Tail calls.

\* g takes the place of the frame's lambda, which leaves "spare" of the budget
\* spent, unless an iteration too many, the budget, the context or the
\* arguments refuse it.
Replaces(g, focus, spare) ==
    LET fails(code) == /\ stack' = Below
                       /\ depth' = depth - 1
                       /\ nested' = spare - Top.unit
                       /\ applyFocus' = Top.base.focus
                       /\ flow' = code /\ raised' = code
    IN /\ \/ /\ Top.iter + 1 > MaxIter \/ spare + BodyCost(g) > MaxNested
             /\ fails("U1001")
          \/ Top.iter + 1 <= MaxIter /\ \E code \in {"stop", "T"} : fails(code)
          \/ /\ Top.iter + 1 <= MaxIter /\ spare + BodyCost(g) <= MaxNested
             /\ stack' = [stack EXCEPT ![Len(stack)] =
                             [Top EXCEPT !.fn = g, !.focus = focus,
                                         !.iter = @ + 1, !.made = 0]]
             /\ nested' = spare + BodyCost(g)
             /\ applyFocus' = focus
             /\ UNCHANGED <<depth, flow, raised>>
       /\ UNCHANGED evalDepth

\* The frame's lambda ends, giving back its body's budget, and g is next.
Trampoline(g, focus) == Replaces(g, focus, nested - Own(Top.fn))

\* A bug: the trampoline forgets to count.
TailCallUncounted(g, focus) ==
    /\ Runs({"lambda"}) /\ Kind[g] = "lambda"
    /\ nested - Own(Top.fn) + BodyCost(g) <= MaxNested
    /\ stack' = [stack EXCEPT ![Len(stack)] =
                    [Top EXCEPT !.fn = g, !.focus = focus, !.made = 0]]
    /\ nested' = nested - Own(Top.fn) + BodyCost(g)
    /\ applyFocus' = focus
    /\ UNCHANGED <<depth, evalDepth, flow, bound, history>>

\* A body's tail call of a lambda: in the context that entered the body, in
\* that of the call itself (one jsonata-js does not optimize), or, for the
\* lambda an argument wrapper holds, in a null context.
TailCall(g, focus) ==
    /\ Runs({"lambda"}) /\ Kind[g] = "lambda"
    /\ focus \in {applyFocus, Null} \cup Foci
    /\ Trampoline(g, focus)
    /\ UNCHANGED <<bound, replayed>>

\* A body that ends in $x := $g(...): the bind stores the sentinel in $x and
\* returns it.  (The variable of the first such scope is followed.)
TailBind(g, focus) ==
    /\ Runs({"lambda"}) /\ Top.fn \in Binders /\ Kind[g] = "lambda"
    /\ bound' = IF bound = Undefined THEN g ELSE bound
    /\ Trampoline(g, focus)
    /\ UNCHANGED replayed

\* A closure of that scope returns $x: undefined, or the sentinel, which the
\* closure's own trampoline runs.
TailRead ==
    /\ Runs({"lambda"}) /\ Top.fn \in Readers /\ Top.made = 0
    /\ bound # Undefined
    /\ \E focus \in Contexts : Trampoline(bound, focus)
    /\ replayed' = TRUE
    /\ UNCHANGED bound

\* A body's tail call of anything but a lambda: the body is over and its
\* budget is free, the depth still counted.
TailOther ==
    /\ Runs({"lambda"})
    /\ stack' = [stack EXCEPT ![Len(stack)] = [Top EXCEPT !.phase = "tail", !.made = 0]]
    /\ nested' = nested - Own(Top.fn)
    /\ UNCHANGED <<depth, evalDepth, applyFocus, flow, bound, history>>

TailApplies(f) ==
    /\ flow = "run" /\ stack # << >> /\ ~InBody(Top) /\ Top.made = 0
    /\ Kind[f] # "lambda"
    /\ Invoke(f, Top.focus, 0)

-----------------------------------------------------------------------------
\* Returning.

\* A bug: the context is not restored when a lambda ends.
LeavesKeepsFocus ==
    /\ stack' = Below
    /\ depth' = depth - DepthOf(Top.fn)
    /\ evalDepth' = evalDepth - EvalOf(Top.fn)
    /\ nested' = nested - Held(Top)
    /\ UNCHANGED applyFocus

\* The frame ends: callNested and the deferred functions give back what it
\* holds.
Leaves ==
    /\ stack' = Below
    /\ depth' = depth - DepthOf(Top.fn)
    /\ evalDepth' = evalDepth - EvalOf(Top.fn)
    /\ applyFocus' = IF Kind[Top.fn] = "lambda" THEN Top.base.focus ELSE applyFocus
    /\ nested' = nested - Held(Top)

Return ==
    /\ flow = "run" /\ stack # << >>
    /\ Kind[Top.fn] \in Wrappers => Top.made = Len(Wraps[Top.fn])
    /\ ~InBody(Top) => Top.made = 1
    /\ Leaves
    /\ flow' = IF Below = << >> THEN "value" ELSE "run"
    /\ UNCHANGED <<bound, history>>

\* Its own code fails.
Fail ==
    /\ Runs(Kinds \ Wrappers)
    /\ Raise("T")

\* A bug: $eval wraps the nesting error too.
EvalErrorWrapsBudget(code) == IF code \in {"T", "U1001"} THEN "D3121" ELSE code

\* $eval reports a limit's error as it is and any other as D3121.
EvalError(code) == IF code = "T" THEN "D3121" ELSE code

\* An error returns through the frame.
Unwind ==
    /\ flow \in Codes /\ stack # << >>
    /\ Leaves
    /\ flow' = IF Kind[Top.fn] = "eval" THEN EvalError(flow) ELSE flow
    /\ UNCHANGED <<bound, history>>

Panic ==
    /\ Runs(Kinds \ Wrappers)
    /\ flow' = "panic"
    /\ UNCHANGED <<stack, counters, bound, history>>

\* A panic runs the deferred functions alone, and callNested defers nothing;
\* evalCore's recovery ends the evaluation, and with it the counter.
UnwindPanic ==
    /\ flow = "panic" /\ stack # << >>
    /\ stack' = Below
    /\ depth' = depth - DepthOf(Top.fn)
    /\ evalDepth' = evalDepth - EvalOf(Top.fn)
    /\ applyFocus' = IF Kind[Top.fn] = "lambda" THEN Top.base.focus ELSE applyFocus
    /\ UNCHANGED <<nested, flow, bound, history>>

Ended == stack = << >> /\ UNCHANGED vars

-----------------------------------------------------------------------------

Calls ==
    \/ \E f \in Fns \ {Main} :
        \/ \E focus \in Contexts : CodeCalls(f, focus)
        \/ BuiltinCalls(f)
        \/ TailApplies(f)
    \/ WrapperCalls

TailCalls ==
    \/ \E g \in Fns : \E focus \in Contexts : TailCall(g, focus) \/ TailBind(g, focus)
    \/ TailRead \/ TailOther

Returns == Return \/ Fail \/ Unwind \/ Panic \/ UnwindPanic

Next == Calls \/ TailCalls \/ Returns \/ Ended

Spec == Init /\ [][Next]_vars

\* One goroutine evaluates and is never blocked.
FairSpec == Spec /\ WF_vars(Next)

-----------------------------------------------------------------------------

Bases == [depth : 0 .. MaxDepth, nested : 0 .. MaxNested, eval : 0 .. MaxEval,
          focus : Contexts, levels : Nat]

Frames == [fn : Fns, focus : Contexts, unit : {0, 1}, phase : {"body", "tail"},
           iter : 0 .. MaxIter, made : 0 .. MaxCalls + 2, base : Bases]

\* The widths of the counter's fields are enough: nested and evalDepth never
\* pass their limits, and depth never stays above its own.
TypeOK ==
    /\ stack \in Seq(Frames)
    /\ depth \in 0 .. MaxDepth
    /\ nested \in 0 .. MaxNested
    /\ evalDepth \in 0 .. MaxEval
    /\ applyFocus \in Contexts
    /\ flow \in {"run", "value", "panic"} \cup Codes
    /\ bound \in Fns \cup {Undefined}
    /\ raised \in Codes \cup {"none"}
    /\ replayed \in BOOLEAN

\* The counters when a frame is running: what they were when it was entered
\* and what it holds.  In a lambda's frame the context for tail calls is the
\* lambda's own.
After(fr) ==
    [depth  |-> fr.base.depth + DepthOf(fr.fn),
     nested |-> fr.base.nested + Held(fr),
     eval   |-> fr.base.eval + EvalOf(fr.fn),
     focus  |-> IF Kind[fr.fn] = "lambda" THEN fr.focus ELSE fr.base.focus,
     levels |-> fr.base.levels + Load(fr)]

\* Whatever calls returned, failed, were refused or took each other's place
\* above a frame, it finds every counter and the context as it left them, and
\* nothing is held once the evaluation is over.  (A panic leaves the nesting
\* budget behind, and ends the evaluation.)
Balanced ==
    /\ \A i \in 2 .. Len(stack) : stack[i].base = After(stack[i - 1])
    /\ LET a == IF stack = << >> THEN NoBase ELSE After(Top)
       IN /\ depth = a.depth /\ evalDepth = a.eval /\ applyFocus = a.focus
          /\ flow # "panic" => nested = a.nested

\* The limits bound the Go stack, which cannot be grown past its maximum nor
\* its overflow be recovered.  Of calls that spend nothing there is at most one
\* before a call that spends budget or $eval nesting (a builtin), and at most
\* three before a lambda's (a builtin and two wrappers).
GoStackBounded == Len(stack) <= 4 * MaxDepth + 2 * (MaxNested + MaxEval) + 4

\* They also bound the expression levels of all the bodies and clauses being
\* evaluated: the free levels of every lambda, and LevelsPerCall for each unit
\* of the budget.
LevelsBounded ==
    stack # << >> =>
        After(Top).levels <= (FreeDepth + LevelsPerCall - 1) * MaxDepth
                                + LevelsPerCall * MaxNested

\* An error that says which limit was reached, or that the evaluation was
\* stopped, is the error the evaluation ends in, through any $eval.
LimitsReported ==
    flow \in Codes /\ raised # "T" => flow = raised

\* Every evaluation ends, whatever its functions call: they are cut off by
\* the depth, the budget or the trampoline's count.
Ends == <>(stack = << >>)

\* What the comments on TailCall say (internal/evaluator/tailcall.go:3-5, "a
\* sentinel returned by tail-position function calls.  invokeFunction applies
\* a built-in's at once, ... and trampolines a lambda's"): a sentinel is run
\* by the call it was returned to, and only there.
CallsRunOnce == ~replayed
=============================================================================
