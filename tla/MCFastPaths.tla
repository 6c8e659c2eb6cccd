----------------------------- MODULE MCFastPaths ----------------------------
(***************************************************************************)
(* Instances of FastPaths.  Documents are every JSON tree of up to         *)
(* MaxNodes values over one key, and small documents over every scalar.    *)
(***************************************************************************)
EXTENDS FastPaths

CONSTANTS MaxNodes, MaxSteps, Scalars

MCFloat == [n \in {"-1", "0", "-0", "1", "2^53", "2^53+1", "16", "1e999", "Inf"} |->
    CASE n = "2^53+1" -> "2^53" [] n = "1e999" -> "Inf" [] OTHER -> n]
MCZeros == {"0", "-0"}
MCNegatives == {"-1"}
Texts0 == {"", "x", "1", " 1", "0x1p4"}
MCTrim == [s \in Texts0 |-> IF s = " 1" THEN "1" ELSE s]
MCParseFloat ==
    [s \in Texts0 |-> CASE s = "1" -> "1" [] s = "0x1p4" -> "16" [] OTHER -> "NaN"]
MCParseRadix == [s \in {"0x1p4"} |-> "NaN"]

Key == "a"
Holding(v) == Obj(<<<<Key, v>>>>)

Trees[n \in 1..MaxNodes] ==
    IF n = 1 THEN {Num("1"), Arr(<<>>)}
    ELSE {Holding(v) : v \in Trees[n - 1]} \cup {Arr(<<v>>) : v \in Trees[n - 1]}
         \cup UNION {{Arr(<<v, w>>) : v \in Trees[k], w \in Trees[n - 1 - k]} : k \in 1..n - 2}

Shapes == UNION {Trees[n] : n \in 1..MaxNodes}

-----------------------------------------------------------------------------
Steps(n) == [i \in 1..n |-> Key]
PathOf(n) == [kind |-> "path", steps |-> Steps(n)]
CallOf(fn, n) == [kind |-> "call", fn |-> fn, steps |-> Steps(n), arg |-> "x"]
CompareOf(op, v, n) == [kind |-> "compare", op |-> op, steps |-> Steps(n), literal |-> v]
NotOf(l) == [kind |-> "not", left |-> l]
Both(kind, l, r) == [kind |-> kind, left |-> l, right |-> r]

\* what tells one shape of document from another
ShapeExprs(n) ==
    {PathOf(n), CompareOf("=", Num("1"), n), CompareOf("!=", Num("1"), n),
     Both("and", PathOf(n), NotOf(CallOf("keys", n)))}
    \cup {CallOf(fn, n) : fn \in {"exists", "count", "sum", "contains", "distinct", "reverse"}}

\* an object that names its key twice
KeyTwice == Obj(<<<<Key, Num("0")>>, <<Key, Str("x")>>>>)

\* the documents EvalMap can be given
Objects(docs) == {d \in docs : Is("obj", d) /\ d # KeyTwice}
Bytes == "EvalBytes"

\* the calls of a set of documents and expressions
Calls(docs, exprs, opts) ==
    {[docs |-> docs, exprs |-> exprs, modes |-> {<<Bytes, opt>> : opt \in opts}],
     [docs |-> Objects(docs), exprs |-> exprs, modes |-> {<<"EvalMap", "none">>}]}

ShapeBatches ==
    UNION {Calls(Shapes, ShapeExprs(n), {"none", "sequence"}) : n \in 1..MaxSteps}

\* what tells one scalar from another
Items == Scalars \ {Str(""), Null, Bool(FALSE), Obj(<<>>)}
ScalarDocs ==
    {Holding(v) : v \in Scalars} \cup {Holding(Holding(v)) : v \in Scalars} \cup {KeyTwice}
    \cup {Holding(Arr(<<v, w>>)) : v, w \in Items}
    \cup {Arr(<<Holding(v), Holding(w)>>) : v, w \in Items}

ScalarExprs ==
    {CallOf(fn, 1) : fn \in Builtins} \cup {PathOf(1)}
    \cup {CompareOf(op, v, 1) :
            op \in {"=", "!="}, v \in {Num("0"), Num("2^53"), Str("x"), Bool(TRUE), Null}}

Leaves == {PathOf(1), CompareOf("=", Num("0"), 1), CallOf("exists", 2), CallOf("max", 1),
           CallOf("not", 1), CallOf("keys", 1)}
Compositions ==
    {NotOf(l) : l \in Leaves} \cup {Both(kind, l, r) : kind \in {"and", "or"}, l, r \in Leaves}

ScalarBatches ==
    Calls(ScalarDocs, ScalarExprs, Options)
    \cup Calls({Holding(v) : v \in Scalars}, Compositions, Options)
    \cup {[docs |-> {Holding(v) : v \in Scalars}, exprs |-> ScalarExprs \cup Compositions,
           modes |-> {<<"CustomFuncs", "none">>}]}

EveryScalar ==
    {Num(n) : n \in {"-1", "0", "-0", "2^53", "2^53+1", "1e999"}}
    \cup {Str(t) : t \in Texts0} \cup {Bool(TRUE), Bool(FALSE), Null}
    \cup {Obj(<<>>), Arr(<<>>), Obj(<<<<"k", Num("1")>>, <<"l", Num("0")>>>>)}

\* fields of every document, for WalkAgrees
WalkBatches == Calls(Shapes, {PathOf(n) : n \in 1..MaxSteps}, {"none"})

AllBatches == ShapeBatches \cup ScalarBatches

-----------------------------------------------------------------------------
TierAnswer(e, doc) ==
    CASE e.kind = "path" -> PurePath(e, Bytes, doc, TRUE, FALSE)
      [] e.kind = "call" -> FastCall(e, Bytes, doc, TRUE)
      [] OTHER -> FastBool(e, Bytes, doc, TRUE)

Differ(e, doc) == TierAnswer(e, doc) \notin {Miss, FullAnswer(e, doc, Bytes, "none")}

\* What FastAgrees sets aside does differ: every reading of numbers and keys
\* that ReadOtherwise names makes a tier's answer another than the evaluator's
\* (WalkAgrees shows the one of arrays).
ASSUME SetAsideDiffers ==
    LET huge == Holding(Num("1e999"))
        many == Holding(Arr(<<Num("1e999")>>))
    IN  /\ \A fn \in ByValue : \E doc \in {huge, many} : Differ(CallOf(fn, 1), doc)
        /\ Differ(PathOf(1), huge) /\ Differ(NotOf(PathOf(1)), huge)
        /\ Differ(CallOf("distinct", 1), Holding(Arr(<<Num("0"), Num("-0")>>)))
        /\ Differ(CallOf("number", 1), Holding(Str("0x1p4")))
        /\ Differ(PathOf(1), KeyTwice)
=============================================================================
