------------------------------ MODULE Signatures ------------------------------
(***************************************************************************)
(* Function signatures: internal/parser/signature.go, which reads one, and *)
(* internal/evaluator/signature.go and signature_static.go, which match a  *)
(* call's arguments against it.                                            *)
(*                                                                         *)
(* A signature is a sequence of one-letter symbols.  An argument is a      *)
(* value of some symbol, for an array with the symbols of its items.  The  *)
(* string "none" is what the code leaves empty: no error, no content.      *)
(***************************************************************************)
EXTENDS Integers, Sequences, SequencesExt, FiniteSetsExt

CONSTANTS
    MaxMatchCells,          \* the largest matching table
    MaxInjectCombinations   \* the most combinations of symbols MayInject tries

ASSUME CellsAssumption == MaxMatchCells \in Nat \ {0}
ASSUME CombinationsAssumption == MaxInjectCombinations \in Nat \ {0}

Types == {"b", "n", "s", "l", "a", "o", "f", "j", "x", "u"}   \* isValidSigType
AllSymbols == {"a", "s", "n", "b", "l", "f", "o", "m"}        \* m is undefined

Undefined == [symbol |-> "m", items |-> <<>>]
Array(items) == [symbol |-> "a", items |-> items]
\* how many the first of some counts are together
Sums(counts) ==
    LET sums[i \in 0 .. Len(counts)] == IF i = 0 THEN 0 ELSE sums[i - 1] + counts[i]
    IN  sums
ArgSymbols(args) == [i \in DOMAIN args |-> args[i].symbol]

-----------------------------------------------------------------------------
(* Reading a signature.                                                    *)

CountOf(s, symbol) == Len(SelectSeq(s, LAMBDA c : c = symbol))
At(s, i) == IF i <= Len(s) THEN s[i] ELSE "none"

\* sigStripReturnType: up to the last : outside brackets
StripReturn(s) ==
    LET level(i, open, close) == CountOf(SubSeq(s, 1, i), open) - CountOf(SubSeq(s, 1, i), close)
        colons == {i \in DOMAIN s : s[i] = ":" /\ level(i, "(", ")") = 0 /\ level(i, "<", ">") = 0}
    IN  IF colons = {} THEN s ELSE SubSeq(s, 1, Max(colons) - 1)

\* skipBracketsKeepClose: the > that closes what is open before i
ClosingAngle(s, i) ==
    LET closes == {j \in i .. Len(s) :
                     CountOf(SubSeq(s, i, j), ">") = CountOf(SubSeq(s, i, j), "<") + 1}
    IN  IF closes = {} THEN Len(s) + 1 ELSE Min(closes)

\* parseSigUnion
Union(s, i) ==
    LET ends == {j \in i .. Len(s) : s[j] \notin Types}
        end == IF ends = {} THEN Len(s) + 1 ELSE Min(ends)
    IN  IF At(s, end) = ")" /\ end > i
        THEN [types |-> SubSeq(s, i, end - 1), at |-> end + 1, err |-> "none"]
        ELSE [types |-> <<>>, at |-> end, err |-> "S0402"]

\* parseSigContentType
Content(s, i, types) ==
    LET c == At(s, i + 1)
        array == "a" \in ToSet(types)
        typed == array /\ c \in Types
        end == IF ~typed THEN ClosingAngle(s, i + 1)
               ELSE IF At(s, i + 2) # "<" THEN i + 2
               ELSE LET close == ClosingAngle(s, i + 3) IN IF close > Len(s) THEN close ELSE close + 1
    IN  IF ~(ToSet(types) \subseteq {"a", "f"}) THEN [content |-> "none", at |-> i, err |-> "S0401"]
        ELSE [content |-> IF typed \/ (array /\ c = "(") THEN c ELSE "none",
              at |-> end + 1, err |-> IF At(s, end) = ">" THEN "none" ELSE "S0402"]

\* the parameter of some types, followed by its flags: a "-" after a "?" is of any type
SpecOf(types, content, flags) ==
    LET questions == {i \in DOMAIN flags : flags[i] \in {"?", "-"}}
    IN  [types |-> types, content |-> content, optional |-> "?" \in ToSet(flags),
         variadic |-> "+" \in ToSet(flags), context |-> "-" \in ToSet(flags),
         lazy |-> (\E i, j \in questions : i < j) \/ ("+" \in ToSet(flags) /\ questions # {}),
         anyContext |-> \E i, j \in DOMAIN flags : i < j /\ flags[i] = "?" /\ flags[j] = "-"]

\* ParseSig's loop: the parameters from i on, or the error
Specs(s) ==
    LET from[i \in 1 .. Len(s) + 1] ==
            LET union == IF s[i] = "(" THEN Union(s, i + 1)
                         ELSE [types |-> <<s[i]>>, at |-> i + 1, err |-> IF s[i] \in Types THEN "none" ELSE "S0402"]
                content == IF At(s, union.at) = "<" THEN Content(s, union.at, union.types)
                           ELSE [content |-> "none", at |-> union.at, err |-> "none"]
                others == {j \in content.at .. Len(s) : s[j] \notin {"?", "+", "-"}}
                next == IF others = {} THEN Len(s) + 1 ELSE Min(others)
                spec == SpecOf(union.types, content.content, SubSeq(s, content.at, next - 1))
            IN  CASE i > Len(s) -> [specs |-> <<>>, err |-> "none"]
                  [] i <= Len(s) /\ union.err # "none" -> [specs |-> <<>>, err |-> union.err]
                  [] i <= Len(s) /\ union.err = "none" /\ content.err # "none" -> [specs |-> <<>>, err |-> content.err]
                  [] OTHER -> [specs |-> <<spec>> \o from[next].specs, err |-> from[next].err]
    IN  from[1]

ParseSig(raw) == Specs(StripReturn(raw))

-----------------------------------------------------------------------------
(* Compiling it.                                                           *)

\* paramSymbols
ParamSymbols(types) ==
    CASE types \in {<<"a">>, <<"x">>} -> AllSymbols
      [] types = <<"j">>              -> AllSymbols \ {"f"}
      [] types = <<"f">>              -> {"f"}
      [] types = <<"u">>              -> {"b", "n", "s", "l", "m"}
      [] OTHER                        -> {"m"} \cup (ToSet(types) \cap AllSymbols)

Compile(specs) ==
    [i \in DOMAIN specs |->
        LET spec == specs[i]
        IN  [symbols |-> ParamSymbols(spec.types),
             optional |-> (spec.optional \/ spec.context) /\ ~spec.variadic,
             variadic |-> spec.variadic,
             lazy |-> spec.lazy,
             context |-> spec.context, anyFocus |-> spec.anyContext,
             array |-> spec.types = <<"a">>, subtype |-> spec.content]]

Variadic(params) == \E i \in DOMAIN params : params[i].variadic
HasContext(params) == \E i \in DOMAIN params : params[i].context
RestOptional(params) ==
    /\ params # <<>> /\ ~Variadic(params)
    /\ \A i \in 2 .. Len(params) : params[i].optional /\ ~params[i].context

\* takes
Takes(params, n) ==
    /\ n >= Cardinality({i \in DOMAIN params : ~params[i].optional /\ ~params[i].context})
    /\ n <= Len(params) \/ Variadic(params)

-----------------------------------------------------------------------------
(* Matching: the arguments each parameter takes, <<>> as counts and ok     *)
(* FALSE when they do not match, and the cells of the table it used.       *)

NoMatch(cells) == [ok |-> FALSE, counts |-> <<>>, cells |-> cells]

\* fits
Fits(params, n) ==
    IF Variadic(params) THEN (Len(params) + 1) * (n + 1) <= MaxMatchCells
    ELSE n > Len(params) \/ (Len(params) + 1) * (Len(params) - n + 1) <= MaxMatchCells

\* may parameter p take the argument after the first a?
Accepts(params, symbols, p, a) == a < Len(symbols) /\ symbols[a + 1] \in params[p].symbols

\* solve's table, over the first n parameters: from p on they take the
\* symbols after the first a (if anchored all of them)
Reaches(params, symbols, n, anchored) ==
    LET reach[cell \in (1 .. n + 1) \X (0 .. Len(symbols))] ==
            LET p == cell[1] a == cell[2]
            IN  IF p = n + 1 THEN ~anchored \/ a = Len(symbols)
                ELSE \/ params[p].optional /\ reach[<<p + 1, a>>]
                     \/ /\ Accepts(params, symbols, p, a)
                        /\ reach[<<p + 1, a + 1>>] \/ (params[p].variadic /\ reach[<<p, a + 1>>])
    IN  reach

\* the most arguments parameter p takes after the first a
Most(params, symbols, p, a) ==
    IF ~Accepts(params, symbols, p, a) THEN 0
    ELSE IF ~params[p].variadic THEN 1
    ELSE Max({k \in 1 .. Len(symbols) - a : \A j \in 0 .. k - 1 : Accepts(params, symbols, p, a + j)})

\* the number it takes so that the rest still match
Take(params, symbols, reach, p, a) ==
    LET least == IF params[p].optional THEN 0 ELSE 1
        takes == {k \in least .. Most(params, symbols, p, a) : reach[<<p + 1, a + k>>]}
    IN  IF params[p].lazy THEN Min(takes) ELSE Max(takes)

\* solve
Solve(params, symbols, n, anchored) ==
    LET reach == Reaches(params, symbols, n, anchored)
        taken[p \in 0 .. n] ==
            IF p = 0 THEN 0 ELSE LET a == taken[p - 1] IN a + Take(params, symbols, reach, p, a)
        cells == (n + 1) * (Len(symbols) + 1)
    IN  IF ~reach[<<1, 0>>] THEN NoMatch(cells)
        ELSE [ok |-> TRUE, cells |-> cells,
              counts |-> [p \in 1 .. n |-> Take(params, symbols, reach, p, taken[p - 1])]]

\* a bug: a lazy parameter takes what it can
MatchFixedGreedily(params, symbols) ==
    LET greedy == [i \in DOMAIN params |-> [params[i] EXCEPT !.lazy = FALSE]]
    IN  IF Len(symbols) > Len(params) THEN NoMatch(0) ELSE Solve(greedy, symbols, Len(params), TRUE)

\* matchFixed's table, by the parameters skipped: k of those before p
ReachFixed(params, symbols) ==
    LET skips == Len(params) - Len(symbols)
        reach[cell \in (1 .. Len(params) + 1) \X (0 .. skips)] ==
            LET p == cell[1] k == cell[2]
            IN  IF p = Len(params) + 1 THEN k = skips
                ELSE /\ p - 1 - k \in 0 .. Len(symbols)
                     /\ \/ Accepts(params, symbols, p, p - 1 - k) /\ reach[<<p + 1, k>>]
                        \/ params[p].optional /\ k < skips /\ reach[<<p + 1, k + 1>>]
    IN  reach

\* does parameter p, after k were skipped, take an argument?
TakesFixed(params, symbols, reach, p, k) ==
    LET skip == params[p].optional /\ k < Len(params) - Len(symbols) /\ reach[<<p + 1, k + 1>>]
    IN  /\ Accepts(params, symbols, p, p - 1 - k) /\ reach[<<p + 1, k>>]
        /\ ~skip \/ ~params[p].lazy

\* matchFixed
MatchFixed(params, symbols) ==
    LET reach == ReachFixed(params, symbols)
        skipped[p \in 0 .. Len(params)] ==
            IF p = 0 THEN 0
            ELSE LET k == skipped[p - 1] IN IF TakesFixed(params, symbols, reach, p, k) THEN k ELSE k + 1
        cells == (Len(params) + 1) * (Len(params) - Len(symbols) + 1)
    IN  IF Len(symbols) > Len(params) THEN NoMatch(0)
        ELSE IF ~reach[<<1, 0>>] THEN NoMatch(cells)
        ELSE [ok |-> TRUE, cells |-> cells,
              counts |-> [p \in DOMAIN params |->
                             IF TakesFixed(params, symbols, reach, p, skipped[p - 1]) THEN 1 ELSE 0]]

\* matchSymbols
MatchSymbols(params, symbols) ==
    IF Variadic(params) THEN Solve(params, symbols, Len(params), TRUE)
    ELSE MatchFixed(params, symbols)

\* match
Match(params, symbols) ==
    IF symbols # <<>> THEN MatchSymbols(params, symbols)
    ELSE IF \E i \in DOMAIN params : ~params[i].optional THEN NoMatch(0)
    ELSE [ok |-> TRUE, counts |-> [i \in DOMAIN params |-> 0], cells |-> 0]

-----------------------------------------------------------------------------
(* What a call passes: out, or an error with the argument it blames.       *)

Pass(out) == [out |-> out, err |-> "none", blames |-> 0]
Raise(code, i) == [out |-> <<>>, err |-> code, blames |-> i]
ArgAt(args, i) == IF i <= Len(args) THEN args[i] ELSE Undefined

\* checkFocus
FocusFits(param, focus) == param.anyFocus \/ focus.symbol \in param.symbols

\* takesAsIs
TakesAsIs(param, arg, plain) ==
    /\ ~param.lazy /\ arg.symbol \in param.symbols
    /\ plain => arg # Undefined /\ (param.array => arg.symbol = "a" /\ param.subtype = "none")

RestNeedsNothing(params, n) ==
    \A i \in n + 1 .. Len(params) : params[i].optional /\ ~params[i].context

\* fillsInOrderSymbols
FillsInOrderSymbols(params, symbols) ==
    /\ ~Variadic(params)
    /\ \A i \in DOMAIN symbols : ~params[i].lazy /\ symbols[i] \in params[i].symbols
    /\ RestNeedsNothing(params, Len(symbols))

\* a bug: the shortcut takes an array whose content is to be checked
FillsInOrderUnchecked(params, args, plain) ==
    /\ ~Variadic(params) /\ Len(args) <= Len(params)
    /\ \A i \in DOMAIN args : TakesAsIs([params[i] EXCEPT !.subtype = "none"], args[i], plain)
    /\ RestNeedsNothing(params, Len(args))

\* fillsInOrder
FillsInOrder(params, args, plain) ==
    /\ ~Variadic(params)
    /\ IF plain
       THEN /\ Len(args) <= Len(params)
            /\ \A i \in DOMAIN args : TakesAsIs(params[i], args[i], TRUE)
            /\ RestNeedsNothing(params, Len(args))
       ELSE Len(args) >= Len(params) \/ FillsInOrderSymbols(params, ArgSymbols(args))

\* the most parameters a mismatch is sought in
PrefixBound(params, symbols) == Min({Len(params), MaxMatchCells \div (Len(symbols) + 1) - 1})

\* the symbols a mismatch looks at
Looked(params, args) ==
    LET symbols == ArgSymbols(args)
    IN  IF ~Variadic(params) /\ Len(symbols) > Len(params) THEN SubSeq(symbols, 1, Len(params)) ELSE symbols

\* mismatchError's binary search for the longest prefix that matches: all
\* shorter than low do, none longer than high
LongestPrefix(params, symbols) ==
    LET between[range \in (1 .. Len(params) + 1) \X (-1 .. Len(params))] ==
            LET low == range[1] high == range[2] mid == (low + high) \div 2
            IN  IF low > high THEN low - 1
                ELSE IF Solve(params, symbols, mid, FALSE).ok THEN between[<<mid + 1, high>>]
                ELSE between[<<low, mid - 1>>]
    IN  between[<<1, PrefixBound(params, symbols)>>]

\* mismatchError
Mismatch(params, args) ==
    LET symbols == Looked(params, args)
        longest == LongestPrefix(params, symbols)
    IN  Raise("T0410", Sums(Solve(params, symbols, longest, FALSE).counts)[longest] + 1)

\* a bug: each parameter takes the arguments at its own position
InjectByPosition(params, args, focus) ==
    LET m == Match(params, ArgSymbols(args))
        missing == {i \in DOMAIN params : m.counts[i] = 0 /\ params[i].context}
    IN  IF ~m.ok \/ missing = {} THEN Pass(args)
        ELSE Pass([i \in DOMAIN params |-> IF i \in missing THEN focus ELSE ArgAt(args, i)])

\* the parameters left to the context by a match
Missing(m, params) == {i \in DOMAIN params : m.counts[i] = 0 /\ params[i].context}

\* injectMatched, once matched
InjectAs(m, params, args, focus) ==
    LET missing == Missing(m, params)
        taken == Sums(m.counts)
        bad == {i \in missing : ~FocusFits(params[i], focus)}
        injected[i \in 0 .. Len(params)] ==
            IF i = 0 THEN <<>>
            ELSE injected[i - 1] \o (IF i \in missing THEN <<focus>> ELSE SubSeq(args, taken[i - 1] + 1, taken[i]))
    IN  IF ~m.ok \/ missing = {} THEN Pass(args)
        ELSE IF bad # {} THEN Raise("T0411", taken[Min(bad)] + 1)
        ELSE Pass(injected[Len(params)])
InjectMatched(params, args, focus) == InjectAs(Match(params, ArgSymbols(args)), params, args, focus)

\* Inject
Inject(params, args, focus) ==
    IF ~HasContext(params) \/ ~Fits(params, Len(args)) \/ FillsInOrder(params, args, FALSE)
    THEN Pass(args) ELSE InjectMatched(params, args, focus)

\* arrayArg: what an array parameter passes for arg, matched as symbol
ArrayArg(param, arg, symbol, single, i) ==
    CASE symbol = "m" -> Pass(<<Undefined>>)
      [] symbol = "a" ->
            IF /\ param.subtype # "none" /\ arg.symbol = "a"
               /\ \E k \in DOMAIN arg.items : arg.items[k] # param.subtype
            THEN Raise("T0412", i) ELSE Pass(<<arg>>)
      [] OTHER ->
            IF param.subtype # "none" /\ (~single \/ symbol # param.subtype)
            THEN Raise("T0412", i) ELSE Pass(<<Array(<<arg.symbol>>)>>)

\* one value passed, after those of acc; by is the arguments passed so far,
\* same whether each was the argument itself
Passed(acc, value, unchanged) ==
    [acc EXCEPT !.out = Append(@, value), !.by = @ + 1, !.same = @ /\ unchanged]

\* the arguments before any parameter has passed one
NothingPassed == [out |-> <<>>, by |-> 0, same |-> TRUE, err |-> "none", blames |-> 0]

\* what param passes for the argument at its place, matched as symbol
PassedMatched(acc, param, arg, symbol, single) ==
    LET r == IF param.array THEN ArrayArg(param, arg, symbol, single, acc.by + 1) ELSE Pass(<<arg>>)
        unchanged == ~param.array \/ symbol = "a" \/ (symbol = "m" /\ arg = Undefined)
    IN  IF acc.err # "none" THEN acc
        ELSE IF r.err # "none" THEN [acc EXCEPT !.err = r.err, !.blames = r.blames]
        ELSE Passed(acc, r.out[1], unchanged)

\* the same for each of the arguments it matched, those after the first a
PassedAll(acc, param, args, a, count) ==
    LET passed[k \in 0 .. count] ==
            IF k = 0 THEN acc
            ELSE LET before == passed[k - 1]
                 IN  PassedMatched(before, param, ArgAt(args, before.by + 1), args[a + k].symbol, count = 1)
    IN  passed[count]

\* what param passes that matched nothing: the focus, or the next argument
PassedUnmatched(acc, param, args, focus) ==
    CASE acc.err # "none" -> acc
      [] acc.err = "none" /\ ~param.context -> Passed(acc, ArgAt(args, acc.by + 1), TRUE)
      [] acc.err = "none" /\ param.context /\ FocusFits(param, focus) ->
            [acc EXCEPT !.out = Append(@, focus), !.same = FALSE]
      [] OTHER -> [acc EXCEPT !.err = "T0411", !.blames = acc.by + 1]

\* validateMatched, once matched
ValidateAs(m, params, args, focus) ==
    LET taken == Sums(m.counts)
        passed[i \in 0 .. Len(params)] ==
            IF i = 0 THEN NothingPassed
            ELSE IF m.counts[i] = 0 THEN PassedUnmatched(passed[i - 1], params[i], args, focus)
            ELSE PassedAll(passed[i - 1], params[i], args, taken[i - 1], m.counts[i])
        all == passed[Len(params)]
    IN  IF ~m.ok THEN Mismatch(params, args)
        ELSE IF all.err # "none" THEN Raise(all.err, all.blames)
        ELSE Pass(IF all.same THEN args ELSE all.out)
ValidateMatched(params, args, focus) == ValidateAs(Match(params, ArgSymbols(args)), params, args, focus)

\* outputSize
OutputSize(params, n) == IF Variadic(params) THEN n + Len(params) ELSE Len(params)

\* Validate
Validate(params, args, focus) ==
    IF \/ Len(args) = 1 /\ RestOptional(params) /\ TakesAsIs(params[1], args[1], TRUE)
       \/ ~Fits(params, Len(args))
       \/ FillsInOrder(params, args, TRUE)
    THEN Pass(args) ELSE ValidateMatched(params, args, focus)

\* checkCallArgs
CheckCallArgs(params, args, focus, validate) ==
    IF validate THEN Validate(params, args, focus)
    ELSE IF ~Takes(params, Len(args)) THEN Mismatch(params, args)
    ELSE Inject(params, args, focus)

-----------------------------------------------------------------------------
(* Before the call: may its context be inserted?  sets holds the symbols   *)
(* each argument may have.                                                 *)

\* signature_static.go's ArgSymbols: the symbol of an argument that is known before
\* the call, any symbol for another
SymbolsBefore(args, known) ==
    [i \in DOMAIN args |-> IF i \in known THEN {args[i].symbol} ELSE AllSymbols]

\* the combinations of the symbols of the first of the sets
Combinations(sets) ==
    LET product[i \in 0 .. Len(sets)] == IF i = 0 THEN 1 ELSE product[i - 1] * Cardinality(sets[i])
    IN  product

\* injects
Injects(params, symbols) ==
    LET m == Match(params, symbols)
    IN  ~FillsInOrderSymbols(params, symbols) /\ m.ok /\ Missing(m, params) # {}

\* MayInject
MayInject(params, sets) ==
    /\ HasContext(params) /\ Fits(params, Len(sets))
    /\ Variadic(params) \/ Len(sets) < Len(params)
    /\ \/ \E i \in DOMAIN sets : Combinations(sets)[i] > MaxInjectCombinations
       \/ \E symbols \in [DOMAIN sets -> AllSymbols] :
            (\A i \in DOMAIN sets : symbols[i] \in sets[i]) /\ Injects(params, symbols)
=============================================================================
