----------------------------- MODULE Environment -----------------------------
(***************************************************************************)
(* The environments of one evaluation: scopes as env.go stores them, a few *)
(* bindings inline and more in a map with the plain-array marks beside, and*)
(* the scopes that blocks, paths, lambdas and $eval open.                  *)
(***************************************************************************)
EXTENDS Integers, Sequences, FiniteSets, FiniteSetsExt

CONSTANTS
    Names, Values,
    Context, RootInput,   \* the names evalCore binds to the input
    Absent,               \* Go's nil, a value
    Unbound,              \* no value
    NoMap,                \* an environment that has not spilled
    InlineCap,            \* inlineBindingCap
    Builtins,             \* the names the root environment binds
    VarNames,             \* the variables a caller passes
    MaxEnvs, MaxBinds     \* bounds on the behaviours

ASSUME NameAssumption ==
    /\ {Context, RootInput} \cup VarNames \cup Builtins \subseteq Names
    /\ Absent \in Values /\ Unbound \notin Values \cup [value : Values, plain : BOOLEAN]
    /\ NoMap \notin [Names -> Values \cup {Unbound}]
ASSUME FiniteAssumption == IsFiniteSet(VarNames) /\ IsFiniteSet(Builtins)
ASSUME CapAssumption == InlineCap \in Nat
ASSUME BoundAssumption == {MaxEnvs, MaxBinds} \subseteq Nat

VARIABLES
    envs,       \* the environments, in the order they were made
    binds       \* a bound: the bindings made so far

vars == <<envs, binds>>

-----------------------------------------------------------------------------
(* Bindings.                                                               *)

Spilled(env) == env.bindings # NoMap
Slots(env, n) == {i \in DOMAIN env.inline : env.inline[i].name = n}

\* LookupDirect, Unbound when the environment does not bind the name
LookupDirect(env, n) ==
    IF Spilled(env) THEN env.bindings[n]
    ELSE IF Slots(env, n) = {} THEN Unbound
    ELSE env.inline[CHOOSE i \in Slots(env, n) : TRUE].value

BoundNames(env) == {n \in Names : LookupDirect(env, n) # Unbound}

Inlined(env) == [n \in Names |-> LookupDirect(env, n)]


\* Bind's overflow: the inline bindings and their marks move to the maps
Spill(env) ==
    [env EXCEPT !.bindings = Inlined(env),
                !.plainArrays = {env.inline[i].name : i \in env.plainInline},
                !.inline = <<>>, !.plainInline = {}]

\* A bug: a rebinding keeps the mark of the old value
BindKeepsMark(env, n, value) ==
    IF Spilled(env) THEN [env EXCEPT !.bindings[n] = value]
    ELSE IF Slots(env, n) # {}
    THEN [env EXCEPT !.inline[CHOOSE i \in Slots(env, n) : TRUE].value = value]
    ELSE IF Len(env.inline) < InlineCap
    THEN [env EXCEPT !.inline = Append(@, [name |-> n, value |-> value])]
    ELSE [Spill(env) EXCEPT !.bindings[n] = value]

Bind(env, n, value) ==
    IF Spilled(env)
    THEN [env EXCEPT !.bindings[n] = value, !.plainArrays = @ \ {n}]
    ELSE IF Slots(env, n) # {}
    THEN LET slot == CHOOSE i \in Slots(env, n) : TRUE
         IN  [env EXCEPT !.inline[slot].value = value, !.plainInline = @ \ {slot}]
    ELSE IF Len(env.inline) < InlineCap
    THEN [env EXCEPT !.inline = Append(@, [name |-> n, value |-> value])]
    ELSE [Spill(env) EXCEPT !.bindings[n] = value]

\* binding each entry of a map, in the order the range happens to take
BindEach(env, names, map) == FoldSet(LAMBDA n, out : Bind(out, n, map[n]), env, names)

MarkPlainArray(env, n) ==
    IF Spilled(env) THEN [env EXCEPT !.plainArrays = @ \cup {n}]
    ELSE [env EXCEPT !.plainInline = @ \cup Slots(env, n)]

\* does the environment's own binding of the name carry the mark
Marked(env, n) ==
    IF Spilled(env) THEN n \in env.plainArrays ELSE Slots(env, n) \cap env.plainInline # {}

\* an environment's bindings, as [value, plain]
BindingsOf(env) ==
    [n \in Names |->
        IF LookupDirect(env, n) = Unbound THEN Unbound
        ELSE [value |-> LookupDirect(env, n), plain |-> Marked(env, n)]]

\* Lookup, Unbound when no scope from e up binds the name
Lookup(e, n) ==
    LET at[i \in 0 .. e] ==
            IF i = 0 THEN Unbound
            ELSE IF LookupDirect(envs[i], n) # Unbound THEN LookupDirect(envs[i], n)
            ELSE at[envs[i].parent]
    IN  at[e]

\* A bug: the walk goes on past a scope that binds the name unmarked
BoundPlainArraySomewhere(e, n) ==
    LET at[i \in 0 .. e] == i # 0 /\ (Marked(envs[i], n) \/ at[envs[i].parent])
    IN  at[e]

\* boundPlainArray
BoundPlainArray(e, n) ==
    LET at[i \in 0 .. e] ==
            IF i = 0 THEN FALSE
            ELSE IF LookupDirect(envs[i], n) # Unbound THEN Marked(envs[i], n)
            ELSE at[envs[i].parent]
    IN  at[e]

\* NewChildEnvironment, for a scope of the given kind; the code keeps only
\* whether it is a tuple's.  from is history: the tuple it was rebased from.
Child(kind, parent) ==
    [parent |-> parent, kind |-> kind, from |-> 0,
     inline |-> <<>>, plainInline |-> {}, bindings |-> NoMap, plainArrays |-> {}]

-----------------------------------------------------------------------------
(* The actions.                                                            *)

\* NewEnvironment, with the builtins
Init ==
    /\ envs = <<[Child("root", 0) EXCEPT
                    !.bindings = [n \in Names |-> IF n \in Builtins THEN Absent ELSE Unbound]]>>
    /\ binds = 0

\* evalCore: a scope below the root, with the input and the caller's variables
Start(value) ==
    /\ Len(envs) = 1
    /\ LET input == Bind(Bind(Child("top", 1), Context, value), RootInput, value)
       IN  envs' = Append(envs, BindEach(input, VarNames, [n \in VarNames |-> value]))
    /\ UNCHANGED binds

MayOpen == Len(envs) < MaxEnvs
MayBind == binds < MaxBinds

\* the scopes of the evaluation: all but the shared root
Own == 2 .. Len(envs)

\* a block, a predicate or a sort: a scope without bindings of its own
OpenScope(e) ==
    /\ MayOpen
    /\ envs' = Append(envs, Child("block", e))
    /\ UNCHANGED binds

\* newTupleEnv and appendTupleResults: a tuple of a path, which binds a name
OpenTuple(e, n, value) ==
    /\ MayOpen /\ MayBind
    /\ envs' = Append(envs, Bind(Child("tuple", e), n, value))
    /\ binds' = binds + 1

\* unwrapRoot, and $eval with a context argument
OpenRoot(e, value) ==
    /\ MayOpen /\ MayBind
    /\ envs' = Append(envs, Bind(Child("input", e), RootInput, value))
    /\ binds' = binds + 1

\* evalLambdaBody: a scope below the lambda's own, which binds a parameter
CallLambda(e, n, value, plain) ==
    /\ MayOpen /\ MayBind
    /\ LET body == Bind(Child("body", e), n, value)
       IN  envs' = Append(envs, IF plain THEN MarkPlainArray(body, n) ELSE body)
    /\ binds' = binds + 1

\* evalShapedBind: the value of the scope's name, marked if a plain array
BindVariable(e, n, value, plain) ==
    /\ MayBind
    /\ LET bound == Bind(envs[e], n, value)
       IN  envs' = [envs EXCEPT ![e] = IF plain THEN MarkPlainArray(bound, n) ELSE bound]
    /\ binds' = binds + 1

\* the scopes from e up to its ancestor end, which is not one of them
Chain(e, end) ==
    LET chain[i \in 0 .. e] == IF i \in {0, end} THEN {} ELSE {i} \cup chain[envs[i].parent]
    IN  chain[e]

\* the blocks a tuple's scopes may be rebased from
Blocks(e) ==
    {end \in Chain(e, 0) \ {e} :
        envs[end].kind = "block" /\ \A i \in Chain(e, end) : envs[i].kind = "tuple"}

\* Range over an environment, binding each name in another
BindAll(env, from) ==
    BindEach(env, BoundNames(from), [n \in BoundNames(from) |-> LookupDirect(from, n)])

\* A bug: the outermost scope has the last word
RebasedOutwards(e, end) ==
    LET empty == [Child("tuple", envs[end].parent) EXCEPT !.from = e]
        rebased[i \in 0 .. e] ==
            IF i \in {0, end} THEN empty
            ELSE BindAll(BindAll(empty, envs[i]), rebased[envs[i].parent])
    IN  rebased[e]

\* rebaseTuples for a tuple: a child of the block's parent, with what the
\* tuple's chain binds below the block, the outer scopes first
Rebased(e, end) ==
    LET empty == [Child("tuple", envs[end].parent) EXCEPT !.from = e]
        rebased[i \in 0 .. e] ==
            IF i \in {0, end} THEN empty ELSE BindAll(rebased[envs[i].parent], envs[i])
    IN  rebased[e]

\* the tuples of a block, moved out of it
Rebase(e, end) ==
    /\ MayOpen
    /\ envs' = Append(envs, Rebased(e, end))
    /\ UNCHANGED binds

\* the names an expression may bind
Bindable == Names \ {Context, RootInput}

\* the evaluation ends, here where the bounds leave nothing to do
Ended == ~MayOpen /\ ~MayBind /\ UNCHANGED vars

Next ==
    \/ Ended
    \/ \E value \in Values : Start(value)
    \/ \E e \in Own :
        \/ OpenScope(e)
        \/ \E value \in Values : OpenRoot(e, value)
        \/ \E end \in Blocks(e) : Rebase(e, end)
        \/ \E n \in Bindable, value \in Values :
            \/ OpenTuple(e, n, value)
            \/ \E plain \in IF value = Absent THEN {FALSE} ELSE BOOLEAN :
                CallLambda(e, n, value, plain) \/ BindVariable(e, n, value, plain)

Spec == Init /\ [][Next]_vars

-----------------------------------------------------------------------------
(* Properties.                                                             *)

\* The scopes the environments stand for.
ScopeTree == INSTANCE Scopes WITH
    scopes <- [e \in DOMAIN envs |->
                [parent |-> envs[e].parent, vars |-> BindingsOf(envs[e])]]

Nothing == [m \in Names |-> Unbound]
Binding(value, plain) == [value |-> value, plain |-> plain]
Only(n, binding) == [Nothing EXCEPT ![n] = binding]
Given(value) ==
    [m \in Names |-> IF m \in {Context, RootInput} \cup VarNames
                     THEN Binding(value, FALSE) ELSE Unbound]

\* Each operation does to the scopes what it is asked, and no more.
Opens(kind) == Len(envs') > Len(envs) /\ envs'[Len(envs')].kind = kind
AsAsked ==
    /\ Opens("top") => \A value \in Values : Start(value) => ScopeTree!Open(1, Given(value))
    /\ \A e \in Own :
        /\ Opens("block") /\ OpenScope(e) => ScopeTree!Open(e, Nothing)
        /\ Opens("tuple") => \A end \in Blocks(e) :
            Rebase(e, end) => ScopeTree!Open(envs[end].parent, BindingsOf(envs'[Len(envs')]))
        /\ Opens("input") => \A value \in Values :
            OpenRoot(e, value) => ScopeTree!Open(e, Only(RootInput, Binding(value, FALSE)))
        /\ Opens("tuple") => \A n \in Bindable, value \in Values :
            OpenTuple(e, n, value) => ScopeTree!Open(e, Only(n, Binding(value, FALSE)))
        /\ Opens("body") => \A n \in Bindable, value \in Values, plain \in BOOLEAN :
            CallLambda(e, n, value, plain) => ScopeTree!Open(e, Only(n, Binding(value, plain)))
        /\ Len(envs') = Len(envs) => \A n \in Bindable, value \in Values, plain \in BOOLEAN :
            BindVariable(e, n, value, plain) => ScopeTree!Bind(e, n, Binding(value, plain))

\* The two representations of a scope's bindings, the marks beside them and
\* the spill from one to the other are one map per scope: a rebinding finds
\* the name wherever it is, gives it the value and the mark of this binding
\* and none that an older one left, and disturbs no other name or scope.
ScopeSpec == ScopeTree!Spec /\ [][AsAsked]_vars

\* Lookup and boundPlainArray, which walk the chain each in its own way, agree
\* on the scope that binds a name: the mark is that of the value found, never
\* that of a binding it shadows.
ReadsNearest ==
    \A e \in DOMAIN envs, n \in Names :
        IF Lookup(e, n) = Unbound
        THEN ScopeTree!Nearest(e, n) = Unbound /\ ~BoundPlainArray(e, n)
        ELSE ScopeTree!Nearest(e, n) = [value |-> Lookup(e, n), plain |-> BoundPlainArray(e, n)]

\* rebaseTuples: below the scope it is moved to, a tuple reads every name its
\* chain binds as it did below the block, and no variable of the block itself.
RebasedReads(new) ==
    LET block == CHOOSE end \in Blocks(new.from) : envs[end].parent = new.parent
        BoundBelow(n) == \E i \in Chain(new.from, block) : LookupDirect(envs[i], n) # Unbound
    IN  \A n \in Names :
            LookupDirect(new, n) = IF BoundBelow(n) THEN Lookup(new.from, n) ELSE Unbound
RebaseKeepsBindings ==
    [][(Len(envs') > Len(envs) /\ envs'[Len(envs')].from # 0) => RebasedReads(envs'[Len(envs')])]_vars
=============================================================================
