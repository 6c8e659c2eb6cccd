---------------------------- MODULE SignatureCalls ----------------------------
(***************************************************************************)
(* Calls with every short signature: the signature grows a symbol at a     *)
(* time, and then the call is given arguments.                             *)
(***************************************************************************)
EXTENDS Signatures, SignatureRegex, Tasks

ASSUME SignatureAssumption ==
    \A a \in Alphabets : a.kind = "signature" =>
        a.values \subseteq [symbol : AllSymbols, items : Seq(AllSymbols)]

BeginSignature(alphabet) ==
    /\ alphabet.kind = "signature"
    /\ Begin(alphabet)
    /\ result = ParseSig(<<>>)

ReadSignature ==
    /\ task.alphabet.kind = "signature" /\ Len(task.src) < task.alphabet.most
    /\ task.args = <<>>
    /\ \E s \in task.alphabet.symbols :
        /\ task' = [task EXCEPT !.src = Append(@, s)]
        /\ result' = ParseSig(task'.src)

GiveArgument ==
    /\ task.alphabet.kind = "signature" /\ Len(task.args) < task.alphabet.arguments
    /\ result.err = "none"
    /\ \E v \in task.alphabet.values : task' = [task EXCEPT !.args = Append(@, v)]
    /\ UNCHANGED result

SignatureSpec ==
    /\ \E a \in Alphabets : BeginSignature(a)
    /\ [][ReadSignature \/ GiveArgument]_<<task, result>>

-----------------------------------------------------------------------------
Signed == task.alphabet.kind = "signature" /\ result.err = "none"

\* The matcher gives each parameter as many arguments as the regular expression of
\* jsonata-js would (signature.go's match beside SignatureRegex), and its table
\* stays within the size its shortcuts are chosen by.  When it does not match, the
\* error names the argument after the longest prefix that some call could begin
\* with (mismatchError's search over prefixes).
CountsAsRegex == Signed =>
    LET params == Compile(result.specs)
        symbols == ArgSymbols(task.args)
        looked == Looked(params, task.args)
        m == Match(params, symbols)
        regex == Backtrack(params, symbols, TRUE)
    IN  /\ m.ok = regex.ok /\ m.counts = regex.counts
        /\ m.ok => Takes(params, Len(task.args))
        /\ Fits(params, Len(task.args)) => m.cells <= MaxMatchCells
        /\ Len(params) <= PrefixBound(params, looked) =>
                Mismatch(params, task.args).blames = Blamed(params, symbols)

\* What skips the matcher answers what it would: Validate and Inject when the
\* arguments fit the parameters one by one (signature.go's fits, fillsInOrder), and
\* MayInject, asked before the evaluation (signature_static.go): with the symbols of
\* every argument it foresees exactly the calls into which Inject puts the context,
\* and with those of some, however many combinations the others may be of, it misses
\* none of them.  The paths a caller is told that an expression reads rely on it.
ShortcutsAgree == Signed =>
    LET params == Compile(result.specs)
    IN  \A focus \in task.alphabet.values :
            /\ Fits(params, Len(task.args)) =>
                /\ Validate(params, task.args, focus) = ValidateMatched(params, task.args, focus)
                /\ HasContext(params) =>
                    Inject(params, task.args, focus) = InjectMatched(params, task.args, focus)
            /\ MayInject(params, SymbolsBefore(task.args, DOMAIN task.args))
                <=> Inject(params, task.args, focus) # Pass(task.args)
            /\ Inject(params, task.args, focus) # Pass(task.args) =>
                \A known \in SUBSET DOMAIN task.args :
                    MayInject(params, SymbolsBefore(task.args, known))

\* A checked call passes the caller's arguments in order, none repeated or moved past
\* another, and no more values than outputSize makes room for: what it passes
\* besides is the focus or undefined, and an argument is changed only by being put in
\* an array.  One is lost only to an undefined argument at its place or before it:
\* an array parameter passes undefined when that is what it matched, whichever
\* argument is at its place (checkCallArgs, validateMatched, arrayArg).
ArgumentsKept == Signed =>
    LET params == Compile(result.specs)
        args == task.args
        Kept(v, i) ==
            \/ v \in {ArgAt(args, i), Array(<<ArgAt(args, i).symbol>>)}
            \/ v = Undefined /\ \E k \in DOMAIN args : k <= i /\ args[k].symbol = "m"
        Keeps(out, focus) ==
            \E injected \in SUBSET DOMAIN out :
                /\ \A i \in injected : out[i] = focus
                /\ \A i \in DOMAIN out \ injected : Kept(out[i], Cardinality(1 .. i \ injected))
                /\ Cardinality(DOMAIN out \ injected) >= Len(args)
    IN  \A focus \in task.alphabet.values : \A validate \in BOOLEAN :
            LET r == CheckCallArgs(params, args, focus, validate)
            IN  r.err = "none" => Keeps(r.out, focus) /\ Len(r.out) <= OutputSize(params, Len(args))
=============================================================================
