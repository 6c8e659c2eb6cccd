------------------------------- MODULE FieldReads -------------------------------
(***************************************************************************)
(* What an expression evaluates to, as far as its reads of the input       *)
(* decide it: the reference for the analysis of ReferencedPaths.           *)
(*                                                                         *)
(* A value is its kind and its contents.  A node is evaluated in a         *)
(* context: an item, the context its step came from, which % names, and    *)
(* the variables.  Its result is a sequence of contexts.  The state of the *)
(* run is the input, the item of the call that entered the lambda, and how *)
(* many more calls there may be.                                           *)
(***************************************************************************)
EXTENDS ReferencedPaths

Undefined == <<"undefined", <<>>>>
Unbound == <<"unbound", <<>>>>
Error == <<"error", <<>>>>
Number(n) == <<"number", n>>
Flag(b) == <<"boolean", b>>
ArrayOf(items) == <<"array", items>>
Object(fields) == <<"object", fields>>             \* pairs of a name and a value
Function(node, c) == <<"function", <<node, c>>>>
Made(by, values) == <<"made", <<by, values>>>>       \* what is read whole by a builtin

Kind(v) == v[1]
Elements(v) ==
    CASE Kind(v) = "undefined" -> <<>> [] Kind(v) = "array" -> v[2] [] OTHER -> <<v>>
Collapse(items) ==
    CASE items = <<>> -> Undefined [] Len(items) = 1 -> items[1] [] OTHER -> ArrayOf(items)

\* ToBoolean
RECURSIVE Truthy(_)
Truthy(v) ==
    CASE Kind(v) = "number" -> v[2] # 0
      [] Kind(v) = "boolean" -> v[2]
      [] Kind(v) = "array" -> \E i \in DOMAIN v[2] : Truthy(v[2][i])
      [] Kind(v) = "object" -> v[2] # <<>>
      [] OTHER -> Kind(v) = "made"

RECURSIVE HasError(_)
HasError(v) ==
    CASE Kind(v) = "array" -> \E i \in DOMAIN v[2] : HasError(v[2][i])
      [] Kind(v) = "object" -> \E i \in DOMAIN v[2] : HasError(v[2][i][2])
      [] Kind(v) = "made" -> \E i \in DOMAIN v[2][2] : HasError(v[2][2][i])
      [] OTHER -> Kind(v) \in {"error", "function"}

\* the values a field name, and *, find in v
RECURSIVE FieldOf(_, _), Within(_)
FieldOf(v, name) ==
    CASE Kind(v) = "object" ->
            FlattenSeq([i \in DOMAIN v[2] |-> IF v[2][i][1] = name THEN Elements(v[2][i][2]) ELSE <<>>])
      [] Kind(v) = "array" -> FlattenSeq([i \in DOMAIN v[2] |-> FieldOf(v[2][i], name)])
      [] Kind(v) \in {"made", "error"} -> <<v>>
      [] OTHER -> <<>>
Within(v) ==
    CASE Kind(v) = "object" -> FlattenSeq([i \in DOMAIN v[2] |-> Elements(v[2][i][2])])
      [] Kind(v) = "array" -> FlattenSeq([i \in DOMAIN v[2] |-> Within(v[2][i])])
      [] Kind(v) \in {"made", "error"} -> <<v>>
      [] OTHER -> <<>>

Variables == {"x", "y", "p", "v", "i"}
At0(item, env) == [item |-> item, up |-> <<>>, env |-> env]
Under(items, c) == [i \in DOMAIN items |-> [item |-> items[i], up |-> <<c>>, env |-> c.env]]
Outside(items, c) == [i \in DOMAIN items |-> At0(items[i], c.env)]
Items(stream) == [i \in DOMAIN stream |-> stream[i].item]

RECURSIVE Run(_, _, _), Invoke(_, _, _, _, _), Pipe(_, _, _, _)

Result(n, c, s) == Collapse(Items(Run(n, c, s)))
Results(nodes, c, s) == [i \in DOMAIN nodes |-> Result(nodes[i], c, s)]

\* a step of a path, for the contexts of the steps before it
RunStep(step, stream, s) ==
    LET Focus(c, r) ==
            IF step.focus = "" THEN r ELSE [i \in DOMAIN r |-> [c EXCEPT !.env[step.focus] = r[i].item]]
        all == FlattenSeq([k \in DOMAIN stream |-> Focus(stream[k], Run(step, stream[k], s))])
    IN  IF step.index = "" THEN all
        ELSE [i \in DOMAIN all |-> [all[i] EXCEPT !.env[step.index] = Number(i - 1)]]
RunPath(steps, c, s) == FoldLeft(LAMBDA stream, step : RunStep(step, stream, s), <<c>>, steps)

\* the elements a predicate keeps
RunSubscript(pred, stream, s) ==
    LET Keeps(i, v) == IF Kind(v) = "number" THEN v[2] = i - 1 ELSE Truthy(v)
        kept == SelectSeq([i \in DOMAIN stream |-> i],
                          LAMBDA i : Keeps(i, Result(pred, stream[i], s)))
    IN  [i \in DOMAIN kept |-> stream[kept[i]]]

\* the elements by a term, a number, those without one last
RunSort(term, stream, s) ==
    LET keys == [i \in DOMAIN stream |-> Result(term, stream[i], s)]
        Before(i, j) ==
            LET a == keys[i] b == keys[j]
            IN  CASE Kind(a) = "number" /\ Kind(b) = "number" -> a[2] < b[2] \/ (a[2] = b[2] /\ i < j)
                  [] Kind(a) # "number" /\ Kind(b) # "number" -> i < j
                  [] OTHER -> Kind(a) = "number"
        order == SetToSortSeq(DOMAIN stream, Before)
    IN  IF \E i \in DOMAIN keys : Kind(keys[i]) \notin {"number", "undefined"}
        THEN <<At0(Error, [v \in Variables |-> Unbound])>>
        ELSE [i \in DOMAIN order |-> stream[order[i]]]

\* a statement after another may use its variable
RunBlock(statements, c, s) ==
    LET Statement(acc, n) ==
            IF n.type = "bind"
            THEN LET v == Result(n.kids[1], acc.c, s)
                 IN  [c |-> [acc.c EXCEPT !.env[n.value] = v], out |-> Outside(Elements(v), c)]
            ELSE [acc EXCEPT !.out = Run(n, acc.c, s)]
    IN  FoldLeft(Statement, [c |-> c, out |-> <<>>], statements).out

\* a transform's result is decided by its input and its clauses' values
RunTransform(n, input, c, s) ==
    LET matches == Run(n.kids[1], At0(input, c.env), s)
        updates == FlattenSeq([i \in DOMAIN matches |-> Results(Tail(n.kids), matches[i], s)])
    IN  Made("copy", <<input>> \o Items(matches) \o updates)

\* fn called in a context; a lambda's body is evaluated where it is defined,
\* its tail calls where the call that entered it is
Invoke(fn, args, entry, env, s) ==
    LET lambda == fn[2][1]
        defined == fn[2][2]
        seen == [v \in Variables |-> IF defined.env[v] = Unbound THEN env[v] ELSE defined.env[v]]
        given == [v \in Variables |->
                    IF \E i \in DOMAIN lambda.params : lambda.params[i] = v
                    THEN IF args = <<>> THEN Undefined ELSE args[1] ELSE seen[v]]
    IN  IF Kind(fn) # "function" \/ s.calls = 0 THEN Error
        ELSE Result(lambda.kids[1], At0(defined.item, given), [s EXCEPT !.entry = entry, !.calls = @ - 1])

Builtin(name, args, entry) ==
    CASE name = "string" /\ args = <<>> -> IF entry = Undefined THEN entry ELSE Made(name, <<entry>>)
      [] name = "string" /\ args # <<>> -> IF args[1] = Undefined THEN args[1] ELSE Made(name, <<args[1]>>)
      [] name = "exists" /\ args # <<>> -> Flag(args[1] # Undefined)
      [] OTHER -> Error
RunCall(n, piped, c, s) ==
    LET proc == n.kids[1]
        args == piped \o Results(Tail(n.kids), c, s)
        entry == IF n.tail THEN s.entry ELSE c.item
        fn == IF proc.type = "variable" /\ proc.value \notin Variables THEN Unbound ELSE Result(proc, c, s)
    IN  IF fn = Unbound THEN Builtin(proc.value, args, entry) ELSE Invoke(fn, args, entry, c.env, s)

\* input ~> fn: a function value is called without a context
Pipe(input, fn, c, s) ==
    CASE fn.type = "transform" -> RunTransform(fn, input, c, s)
      [] fn.type = "~>" -> Pipe(Pipe(input, fn.kids[1], c, s), fn.kids[2], c, s)
      [] fn.type = "function" -> RunCall(fn, <<input>>, c, s)
      [] OTHER -> Invoke(Result(fn, c, s), <<input>>, Undefined, c.env, s)

Named(name, c, s) ==
    CASE name = "" -> c.item
      [] name = "$" -> s.input
      [] OTHER -> IF c.env[name] = Unbound THEN Undefined ELSE c.env[name]

RunNode(n, c, s) ==
    CASE n.type = "name" -> Under(FieldOf(c.item, n.value), c)
      [] n.type = "wildcard" -> Under(Within(c.item), c)
      [] n.type = "parent" -> IF c.up = <<>> THEN Outside(<<Error>>, c) ELSE c.up
      [] n.type = "variable" -> Outside(Elements(Named(n.value, c, s)), c)
      [] n.type = "path" -> RunPath(n.kids, c, s)
      [] n.type = "[" -> RunSubscript(n.kids[2], Run(n.kids[1], c, s), s)
      [] n.type = "sort" -> RunSort(n.kids[2], Run(n.kids[1], c, s), s)
      [] n.type = "block" -> RunBlock(n.kids, c, s)
      [] n.type = "function" -> Outside(Elements(RunCall(n, <<>>, c, s)), c)
      [] n.type = "~>" -> Outside(Elements(Pipe(Result(n.kids[1], c, s), n.kids[2], c, s)), c)
      [] n.type = "lambda" -> Outside(<<Function(n, c)>>, c)
      [] n.type \in {"transform", "bind"} -> Outside(<<Error>>, c)
      [] n.type = "number" -> Outside(<<Number(0)>>, c)
      [] n.type = "array" -> Outside(<<ArrayOf(FlattenSeq([i \in DOMAIN n.kids |->
                                        Elements(Result(n.kids[i], c, s))]))>>, c)
      [] n.type = "object" ->
            LET v == Result(n.kids[1], c, s)
            IN  Outside(<<Object(IF v = Undefined THEN <<>> ELSE <<<<"k", v>>>>)>>, c)
      [] n.type = "=" ->
            LET v == Results(n.kids, c, s)
            IN  Outside(<<Flag(v[1] # Undefined /\ v[1] = v[2])>>, c)
      [] n.type = "condition" -> Run(n.kids[IF Truthy(Result(n.kids[1], c, s)) THEN 2 ELSE 3], c, s)

Run(n, c, s) ==
    LET all == RunNode(n, c, s)
        grouped == Result(n.group[1], At0(Collapse(Items(all)), c.env), s)
    IN  IF n.group = <<>> THEN all
        ELSE Outside(<<Object(IF grouped = Undefined THEN <<>> ELSE <<<<"k", grouped>>>>)>>, c)

MaxCalls == 3
Evaluate(ast, input) ==
    Result(ast, At0(input, [v \in Variables |-> Unbound]), [input |-> input, entry |-> input, calls |-> MaxCalls])

-----------------------------------------------------------------------------
\* the input under paths alone
RECURSIVE Prune(_, _)
Prune(v, paths) ==
    LET Beneath(name) == {Tail(p) : p \in {p \in paths : p[1] = name}}
        Kept(field) ==
            CASE Beneath(field[1]) = {} -> <<>>
              [] <<>> \in Beneath(field[1]) -> <<field>>
              [] OTHER -> <<<<field[1], Prune(field[2], Beneath(field[1]))>>>>
    IN  CASE Kind(v) = "array" -> ArrayOf([i \in DOMAIN v[2] |-> Prune(v[2][i], paths)])
          [] Kind(v) = "object" -> Object(FlattenSeq([i \in DOMAIN v[2] |-> Kept(v[2][i])]))
          [] OTHER -> v

Suffices(ast, input, reads) ==
    LET Agrees(whole) == ~HasError(whole) => Evaluate(ast, Prune(input, ToSet(reads.paths))) = whole
    IN  reads.complete => Agrees(Evaluate(ast, input))

-----------------------------------------------------------------------------
(* Expressions, in the order their operators are complete.                 *)

Wrapped(n) ==
    IF n.type \in {"=", "condition", "bind", "path", "sort", "~>", "lambda", "number"} THEN Node("block", "", <<n>>) ELSE n
Steps(n) == IF n.type = "path" THEN n.kids ELSE <<Wrapped(n)>>
PathOf(steps) == Node("path", "", steps)
\* the last step, or n itself, changed
OnLast(n, F(_)) == IF n.type = "path" THEN [n EXCEPT !.kids[Len(n.kids)] = F(@)] ELSE F(Wrapped(n))

Leaf(symbol) ==
    CASE symbol \in {"a", "b"} -> Node("name", symbol, <<>>)
      [] symbol = "*" -> Node("wildcard", "", <<>>)
      [] symbol = "%" -> Node("parent", "", <<>>)
      [] symbol = "0" -> Node("number", "", <<>>)
      [] symbol = "$" -> Node("variable", "", <<>>)
      [] symbol = "$$" -> Node("variable", "$", <<>>)
      [] symbol = "$$.b" -> Node("path", "", <<Node("variable", "$", <<>>), Node("name", "b", <<>>)>>)
      [] symbol = "$x()" -> Node("function", "", <<Node("variable", "x", <<>>)>>)
      [] symbol = "$y()" -> Node("function", "", <<Node("variable", "y", <<>>)>>)
      [] symbol = "$string()" -> Node("function", "", <<Node("variable", "string", <<>>)>>)
      [] symbol \in {"$x", "$y", "$p", "$v", "$i"} -> Node("variable", SubSeq(symbol, 2, 2), <<>>)

Prefix == {"fn", "fn p", "$x(_)", "$string(_)", "$exists(_)", "$x:=", "$x:=fn", "$y:=fn", "[_]", "{_}", "(_)()", "@v", "#i"}
Unary(symbol, n) ==
    CASE symbol = "fn" -> Node("lambda", "", <<MarkTail(n)>>)
      [] symbol = "fn p" -> [Node("lambda", "", <<MarkTail(n)>>) EXCEPT !.params = <<"p">>]
      [] symbol = "$x(_)" -> Node("function", "", <<Node("variable", "x", <<>>), n>>)
      [] symbol = "$string(_)" -> Node("function", "", <<Node("variable", "string", <<>>), n>>)
      [] symbol = "$exists(_)" -> Node("function", "", <<Node("variable", "exists", <<>>), n>>)
      [] symbol = "$x:=" -> Node("bind", "x", <<n>>)
      [] symbol = "$x:=fn" -> Node("bind", "x", <<Node("lambda", "", <<MarkTail(n)>>)>>)
      [] symbol = "$y:=fn" -> Node("bind", "y", <<Node("lambda", "", <<MarkTail(n)>>)>>)
      [] symbol = "[_]" -> Node("array", "", <<n>>)
      [] symbol = "{_}" -> Node("object", "", <<n>>)
      [] symbol = "(_)()" -> Node("function", "", <<Wrapped(n)>>)
      [] symbol = "@v" -> LET F(step) == [step EXCEPT !.focus = "v"] IN PathOf(Steps(OnLast(n, F)))
      [] symbol = "#i" -> LET F(step) == [step EXCEPT !.index = "i"] IN PathOf(Steps(OnLast(n, F)))

Infixes == {".", "[", "=", "^", "~>", ";", "{:}", "|"}
Infixed(symbol, l, r) ==
    CASE symbol = "." -> PathOf(Steps(l) \o <<Wrapped(r)>>)
      [] symbol = "[" -> LET F(step) == Node("[", "", <<step, r>>) IN OnLast(l, F)
      [] symbol = "=" -> Node("=", "", <<l, r>>)
      [] symbol = "^" -> Node("sort", "", <<l, r>>)
      [] symbol = "~>" -> Node("~>", "", <<Wrapped(l), r>>)
      [] symbol = ";" -> Node("block", "", (IF l.type = "block" THEN l.kids ELSE <<l>>) \o <<r>>)
      [] symbol = "{:}" -> [(IF l.type \in {"path", "name"} THEN l ELSE Wrapped(l)) EXCEPT !.group = <<r>>]
      [] symbol = "|" -> Node("transform", "", <<l, r>>)

\* what the grammar and the parser refuse
Refused(symbol, l, r) ==
    \/ symbol # ";" /\ "bind" \in {l.type, r.type}
    \/ symbol # ";" /\ l.group # <<>>
    \/ symbol \in {".", "[", "^", "{:}"} /\ "parent" = l.type
    \/ symbol = "[" /\ (l.type = "sort" \/ (l.type = "path" /\ Last(l.kids).focus # ""))

\* the stack after one more symbol
Takes(stack, symbol) ==
    LET size == Len(stack)
    IN  CASE symbol \in Prefix -> size > 0 /\ (stack[size].type = "bind" => symbol \in {"fn", "fn p"})
          [] symbol \in Infixes -> size > 1 /\ ~Refused(symbol, stack[size - 1], stack[size])
          [] symbol = "?" -> size > 2 /\ \A i \in size - 2 .. size : stack[i].type # "bind"
          [] OTHER -> TRUE
Push(stack, symbol) ==
    LET size == Len(stack)
    IN  CASE symbol \in Prefix -> [stack EXCEPT ![size] = Unary(symbol, @)]
          [] symbol \in Infixes ->
                Append(SubSeq(stack, 1, size - 2), Infixed(symbol, stack[size - 1], stack[size]))
          [] symbol = "?" -> Append(SubSeq(stack, 1, size - 3), Node("condition", "", SubSeq(stack, size - 2, size)))
          [] OTHER -> Append(stack, Leaf(symbol))
=============================================================================
