------------------------------ MODULE MCLanguage ------------------------------
EXTENDS Language

Fields(a, b) == R!Object(<<<<"a", a>>, <<"b", b>>>>)
One == R!Number(1)
Lists == Fields(R!ArrayOf(<<Fields(R!Number(2), One), Fields(One, R!Number(0))>>),
                Fields(R!Object(<<<<"b", One>>>>), R!Object(<<>>)))
Nested == Fields(Fields(Fields(One, One), One), R!Number(0))

Symbols(most, symbols) ==
    [kind |-> "source", most |-> most, symbols |-> symbols, arguments |-> 0, values |-> {}]
Calls(most, symbols, arguments, values) ==
    [kind |-> "signature", most |-> most, symbols |-> symbols, arguments |-> arguments, values |-> values]
Documents(depth, targets, documents) ==
    [kind |-> "transform", most |-> targets, symbols |-> {<<>>, <<"a">>}, arguments |-> depth, values |-> documents]
Expressions(most, symbols) ==
    [kind |-> "reads", most |-> most, symbols |-> symbols, arguments |-> 3, values |-> {Lists, Nested}]
Pictures(most, symbols, values) ==
    [kind |-> "picture", most |-> most, symbols |-> symbols, arguments |-> 1, values |-> values]
Parts == {0, 1, 10, 13, 21, 99, 100, 119, 200, 999}
MCScales == <<1000000, 1000>>
Frozen(container) == [container EXCEPT !.frozen = TRUE]
Chained == [root |-> 3, heap |-> <<
    Frozen(Object(<<Entry("a", Fun)>>, 0)), Frozen(Object(<<Entry("a", 1)>>, 0)), Frozen(Object(<<Entry("a", 2)>>, 0))>>]
Shared == [root |-> 2, heap |-> <<
    Object(<<Entry("c", Scalar)>>, 7), Object(<<Entry("a", 1), Entry("b", 1)>>, 0)>>]
Listed == [root |-> 2, heap |-> <<
    Object(<<Entry("a", Scalar)>>, 0), ArrayOf(<<1, Scalar>>)>>]
Cyclic == [root |-> 2, heap |-> <<
    Object(<<Entry("b", Scalar)>>, 0), Object(<<Entry("a", 1), Entry("b", 2)>>, 0)>>]
Value(symbol) == [symbol |-> symbol, items |-> <<>>]

MCAlphabets == {
    Symbols(7, {"name", "num", "+", "*", "-", "="}),
    Symbols(6, {"name", ":=", "$x", "~>", ".", "and"}),
    Symbols(6, {"name", ".", "[", "]", "{", "}", ":"}),
    Symbols(6, {"$x", "#", "@", "[", "]", "."}),
    Symbols(6, {"name", "(", ")", ";", ",", "?", ":"}),
    Symbols(8, {"function", "(", ")", "$x", "{", "}", "<"}),
    Symbols(7, {"name", "^", "(", ")", ">", ",", "*"}),
    Symbols(6, {"name", "/", "(", ")", "]", "["}),
    Symbols(7, {"|", "name", ",", "-", "!", "%"}),
    Calls(4, {"s", "n", "?", "-", "+"}, 3, {Value("s"), Value("n"), Undefined}),
    Calls(5, {"a", "n", "<", ">", "-", ":"}, 2, {Array(<<"n", "n">>), Array(<<"n", "s">>), Value("n"), Undefined}),
    Calls(5, {"(", ")", "a", "f", "<", "?"}, 2, {Value("f"), Array(<<>>), Value("s")}),
    Calls(4, {"a", "n", "?", "+"}, 3, {Value("s"), Value("n"), Undefined}),
    Expressions(6, {"a", "b", ".", "[", "*", "%", "="}),
    Expressions(7, {"$$.b", ".", ";", "$string()", "$x:=fn", "$y:=fn", "$x()", "$y()"}),
    Expressions(6, {"a", "b", "fn p", "$p", "$x:=", "$x(_)", ";"}),
    Expressions(6, {"a", "b", "fn", "fn p", "$p", "$string()", "~>", "|"}),
    Expressions(6, {"a", "b", ".", "@v", "$v", "#i", "$i"}),
    Expressions(5, {"a", "b", ".", "^", "{:}", "$", "$$"}),
    Expressions(5, {"a", "b", ".", "?", "[_]", "{_}", "$exists(_)", "$string(_)"}),
    Expressions(6, {"a", "b", ".", "[", ";", "$x:=", "$x"}),
    Pictures(2, {"w", ";o"}, {a + 1000 * b + 1000000 * c : a \in Parts, b \in Parts, c \in Parts}),
    Pictures(2, {"i", "a", ";o"}, 0 .. 120 \cup {399, 444, 999, 1000, 1999, 2024, 3888, -1}),
    Pictures(5, {"0", "z", "#", ",", ";o"}, {-1234, -7, 0, 5, 60, 901, 12345}),
    Documents(5, 2, {Chained, Shared, Listed, Cyclic})}
=============================================================================
