---------------------------- MODULE ReferencedPaths ----------------------------
(***************************************************************************)
(* internal/parser/referenced_paths.go: the input fields an expression     *)
(* reads, found without evaluating it.                                     *)
(*                                                                         *)
(* A node has its type, its value (a name, an operator) and its kids in    *)
(* the order they are evaluated.  A place is the set of at most one path a *)
(* value is found at: none when it is not the input's.  The collector is   *)
(* passed from operator to operator with the place of the last value.      *)
(***************************************************************************)
EXTENDS Integers, Sequences, SequencesExt, FiniteSetsExt

CONSTANTS MaxPathNodes, MaxPathElements   \* how much the analysis may keep

-----------------------------------------------------------------------------
(* Nodes.                                                                  *)

Node(type, value, kids) ==
    [type |-> type, value |-> value, kids |-> kids, params |-> <<>>, focus |-> "", index |-> "",
     group |-> <<>>, tail |-> FALSE]

\* markTailPosition, for TailContext
RECURSIVE MarkTail(_)
MarkTail(n) ==
    LET last == Len(n.kids)
    IN  CASE n.type = "function" -> [n EXCEPT !.tail = (n.index = "")]
          [] n.type = "condition" -> [n EXCEPT !.kids = <<n.kids[1], MarkTail(n.kids[2]), MarkTail(n.kids[3])>>]
          [] n.type = "block" -> [n EXCEPT !.kids[last] = MarkTail(@)]
          [] OTHER -> n

\* every node n evaluates, with the type of the one above: childNodes
RECURSIVE Below(_, _)
Below(n, above) ==
    <<[node |-> n, above |-> above]>>
        \o FlattenSeq([i \in DOMAIN n.kids |-> Below(n.kids[i], n.type)])
        \o FlattenSeq([i \in DOMAIN n.group |-> Below(n.group[i], n.type)])

\* boundVariables: the variables a node binds, as often as it does
BoundBy(n) ==
    SelectSeq(<<n.focus, n.index>>, LAMBDA v : v # "")
        \o (IF n.type = "bind" THEN <<n.value>> ELSE <<>>) \o n.params
Bound(ast) ==
    LET all == Below(ast, "")
    IN  FlattenSeq([i \in DOMAIN all |-> BoundBy(all[i].node)])

\* those bound twice, or not as a statement of a block
Unstable(ast) ==
    LET all == Below(ast, "")
        bound == Bound(ast)
    IN  {bound[i] : i \in {i \in DOMAIN bound : \E j \in DOMAIN bound : j # i /\ bound[j] = bound[i]}}
            \cup {all[i].node.value : i \in {i \in DOMAIN all :
                    all[i].node.type = "bind" /\ all[i].above # "block"}}

\* focusAndParent
FocusAndParent(ast) ==
    LET all == ToSet(Below(ast, ""))
    IN  (\E e \in all : e.node.focus # "") /\ (\E e \in all : e.node.type = "parent")

-----------------------------------------------------------------------------
(* The collector.                                                          *)

Nowhere == {}
Root == {<<>>}

Free == [at |-> Nowhere, lambda |-> FALSE, readsCaller |-> FALSE, free |-> TRUE]
Holds(at) == [Free EXCEPT !.at = at, !.free = FALSE]

At(c, place) == [c EXCEPT !.at = place]
Incomplete(c) == [c EXCEPT !.complete = FALSE]

\* read: the whole value at a place
Read(c, place) ==
    CASE place = Nowhere -> c
      [] place = Root -> Incomplete(c)
      [] OTHER -> [c EXCEPT !.recorded = IF place \subseteq ToSet(@) THEN @ ELSE @ \o SetToSeq(place)]

\* appendField
AppendField(c, place, name) ==
    LET field == {Append(p, name) : p \in place}
    IN  IF field \subseteq c.nodes THEN At(c, field)
        ELSE IF Cardinality(c.nodes) >= MaxPathNodes THEN At(Incomplete(c), Nowhere)
        ELSE [At(c, field) EXCEPT !.nodes = @ \cup field]

\* the innermost binding of name, as a sequence of at most one
Lookup(c, name) ==
    LET all == SelectSeq(FlattenSeq(c.scopes), LAMBDA b : b.name = name)
    IN  IF all = <<>> THEN <<>> ELSE <<Last(all).binding>>

Bind(c, name, binding) ==
    [c EXCEPT !.scopes[Len(c.scopes)] =
        Append(@, [name |-> name, binding |-> IF name \in c.unstable THEN Free ELSE binding])]

PushScope(c) == [c EXCEPT !.scopes = Append(@, <<>>)]
PopScope(c) == [c EXCEPT !.scopes = Front(@)]

\* literalTypes, "" for what is not a literal
LiteralType(n) ==
    CASE n.type = "number" -> "n" [] n.type = "array" -> "a" [] n.type = "object" -> "o"
      [] n.type = "lambda" -> "f" [] OTHER -> ""
LiteralTypes(args) == [i \in DOMAIN args |-> LiteralType(args[i])]

\* readsContextIn, for $string and $exists
ReadsContext(name, types) == name = "string" /\ types = <<>>

\* readsFields
RECURSIVE StepBase(_)
StepBase(step) == IF step.type = "[" THEN StepBase(step.kids[1]) ELSE step
ReadsFields(step) ==
    LET base == StepBase(step)
    IN  base.type \in {"name", "wildcard", "parent"} \/ (base.type = "variable" /\ base.value = "")

RECURSIVE Eval(_, _, _), EvalNode(_, _, _), Apply(_, _, _, _)

\* value: with its result read
Value(c, n, ctx) == LET r == Eval(c, n, ctx) IN Read(r, r.at)
Values(c, nodes, ctx) == FoldLeft(LAMBDA acc, n : Value(acc, n, ctx), c, nodes)

\* a focus binding, after which the context is the step's input again
Focused(c, n, ctx) == At(Bind(Read(c, c.at), n.focus, Holds(c.at)), ctx)
Grouped(c, n) == At(Values(c, n.group, c.at), c.at)

\* eval
Eval(c, n, ctx) ==
    LET indexed == IF n.index = "" THEN c ELSE Bind(c, n.index, Holds(Nowhere))
        Focus(r) == IF n.focus = "" THEN r ELSE Focused(r, n, ctx)
    IN  Grouped(Focus(EvalNode(indexed, n, ctx)), n)

\* variable: $ is named "" and $$ "$"
Variable(c, name, ctx) ==
    LET b == Lookup(c, name)
    IN  CASE name = "" -> At(c, ctx)
          [] name = "$" -> At(c, Root)
          [] b = <<>> -> At(Incomplete(c), Nowhere)
          [] b # <<>> /\ b[1].free -> At(Incomplete(c), Nowhere)
          [] b # <<>> /\ ~b[1].free -> At(IF b[1].readsCaller THEN Read(c, ctx) ELSE c, b[1].at)

\* a bug: a step that reads no field is taken to run whatever the steps before find
PathUnread(c, n, ctx) ==
    LET Step(acc, step) == Eval(acc, step, acc.at)
    IN  PopScope(FoldLeft(Step, At(PushScope(c), ctx), n.kids))

\* path
Path(c, n, ctx) ==
    LET Step(acc, i) ==
            LET unread == i > 1 /\ ~ReadsFields(n.kids[i]) /\ acc.at # Root
            IN  Eval(IF unread THEN Read(acc, acc.at) ELSE acc, n.kids[i], acc.at)
    IN  PopScope(FoldLeft(Step, At(PushScope(c), ctx), [i \in DOMAIN n.kids |-> i]))

\* a subscript, whose predicate is evaluated against each element
Subscript(c, n, ctx) ==
    LET Selected(r) == IF n.kids[2].type = "number" THEN r ELSE At(Value(r, n.kids[2], r.at), r.at)
    IN  Selected(Eval(c, n.kids[1], ctx))

\* sort: the terms after the first kid
Sort(c, n, ctx) ==
    LET Sorted(r) == At(Values(r, Tail(n.kids), r.at), r.at)
    IN  Sorted(Eval(c, n.kids[1], ctx))

\* transform: its pattern, and its update and delete for each match
Transform(c, n, input) ==
    LET Clauses(r) == At(Values(Read(r, r.at), Tail(n.kids), r.at), Nowhere)
    IN  Clauses(Eval(c, n.kids[1], input))

\* block
Block(c, n, ctx) ==
    LET Statement(acc, i) ==
            IF i = Len(n.kids) \/ n.kids[i].type = "bind" THEN Eval(acc, n.kids[i], ctx)
            ELSE Value(acc, n.kids[i], ctx)
    IN  PopScope(FoldLeft(Statement, At(PushScope(c), Nowhere), [i \in DOMAIN n.kids |-> i]))

\* lambda: last is whether the body reads its caller's context
Lambda(c, n, ctx) ==
    LET opened == FoldLeft(LAMBDA acc, p : Bind(acc, p, Free), PushScope(c), n.params)
        Closed(r) == [PopScope(r) EXCEPT !.last = Last(r.lambdas), !.lambdas = Front(@)]
    IN  Closed(Value([opened EXCEPT !.lambdas = Append(@, FALSE)], n.kids[1], ctx))

\* the calls of a tail position take the context of the call that entered the lambda
Context(c, n, ctx) ==
    [Read(c, ctx) EXCEPT !.lambdas = IF n.tail /\ @ # <<>> THEN [@ EXCEPT ![Len(@)] = TRUE] ELSE @]

\* the call of a variable that the expression binds, and of a builtin
CallBound(c, n, ctx, b) ==
    LET Known(r) == IF b.free \/ ~b.lambda THEN Incomplete(r) ELSE r
    IN  IF b.readsCaller THEN Context(Known(c), n, ctx) ELSE Known(c)
CallBuiltin(c, n, ctx, types) ==
    LET Known(r) == IF n.kids[1].value = "eval" THEN Incomplete(r) ELSE r
    IN  IF n.type = "function" /\ ReadsContext(n.kids[1].value, types)
        THEN Context(Known(c), n, ctx) ELSE Known(c)

\* call, whose procedure is the first kid; args is after its arguments
CallOf(args, n, ctx, piped, b) ==
    LET proc == n.kids[1]
    IN  CASE proc.type # "variable" -> Context(Value(args, proc, ctx), n, ctx)
          [] proc.type = "variable" /\ b # <<>> -> CallBound(args, n, ctx, b[1])
          [] proc.type = "variable" /\ b = <<>> /\ proc.value \in args.bound -> Context(args, n, ctx)
          [] OTHER -> CallBuiltin(args, n, ctx,
                        (IF piped THEN <<"">> ELSE <<>>) \o LiteralTypes(Tail(n.kids)))
Call(c, n, ctx, piped) ==
    LET Then(args) == At(CallOf(args, n, ctx, piped, Lookup(args, n.kids[1].value)), Nowhere)
    IN  Then(Values(c, Tail(n.kids), ctx))

\* apply: fn applied with ~> to what is at input
Apply(c, input, fn, ctx) ==
    LET Then(r) == Apply(r, r.at, fn.kids[2], ctx)
    IN  CASE fn.type = "transform" -> Transform(Read(c, input), fn, input)
          [] fn.type = "~>" -> Then(Apply(c, input, fn.kids[1], ctx))
          [] fn.type \in {"function", "partial"} -> Call(Read(c, input), fn, ctx, TRUE)
          [] OTHER -> At(Value(Read(c, input), fn, ctx), Nowhere)

\* the variable of a bind, which holds what is at a place
BindAs(c, n, at) ==
    LET lambda == n.kids[1].type = "lambda"
    IN  At(Bind(c, n.value, [Holds(at) EXCEPT !.lambda = lambda, !.readsCaller = lambda /\ c.last]), at)

\* evalNode
EvalNode(c, n, ctx) ==
    CASE n.type = "name" -> AppendField(c, ctx, n.value)
      [] n.type = "variable" -> Variable(c, n.value, ctx)
      [] n.type = "path" -> Path(c, n, ctx)
      [] n.type = "wildcard" -> At(Read(c, ctx), Nowhere)
      [] n.type = "parent" ->
            IF ctx \in {Nowhere, Root} THEN At(Incomplete(c), Nowhere)
            ELSE At(Read(c, ctx), {Front(p) : p \in ctx})
      [] n.type = "[" -> Subscript(c, n, ctx)
      [] n.type = "~>" -> LET Then(r) == Apply(r, r.at, n.kids[2], ctx) IN Then(Eval(c, n.kids[1], ctx))
      [] n.type = "sort" -> Sort(c, n, ctx)
      [] n.type = "block" -> Block(c, n, ctx)
      [] n.type = "bind" -> LET Named(r) == BindAs(r, n, r.at) IN Named(Eval(c, n.kids[1], ctx))
      [] n.type \in {"function", "partial"} -> Call(c, n, ctx, FALSE)
      [] n.type = "lambda" ->
            LET Defined(r) == At(IF r.last THEN Read(r, ctx) ELSE r, Nowhere)
            IN  Defined(Lambda(c, n, ctx))
      [] n.type = "transform" -> Transform(c, n, Nowhere)
      [] n.type \in {"=", "array", "object", "condition"} -> At(Values(c, n.kids, ctx), Nowhere)
      [] n.type = "number" -> At(c, Nowhere)

\* result: the paths recorded, up to MaxPathElements names
ResultOf(c) ==
    LET names(k) == FoldLeft(LAMBDA acc, p : acc + Len(p), 0, SubSeq(c.recorded, 1, k))
        kept == Max({k \in 0 .. Len(c.recorded) : names(k) <= MaxPathElements})
    IN  [paths |-> SubSeq(c.recorded, 1, kept), complete |-> c.complete /\ kept = Len(c.recorded)]

\* ReferencedPaths
ReferencedPaths(ast) ==
    LET start == [recorded |-> <<>>, nodes |-> {}, complete |-> ~FocusAndParent(ast), scopes |-> << <<>> >>,
                  lambdas |-> <<>>, last |-> FALSE, bound |-> ToSet(Bound(ast)), unstable |-> Unstable(ast),
                  at |-> Nowhere]
    IN  ResultOf(Value(start, ast, Root))
=============================================================================
