----------------------------- MODULE MCCallStack -----------------------------
(***************************************************************************)
(* TLC instances of CallStack.  An instance leaves a function out by       *)
(* leaving it out of Fns.                                                  *)
(***************************************************************************)
EXTENDS CallStack, TLC

CONSTANTS
    main,      \* the expression
    fun,       \* a lambda with a shallow body, ending in a bind
    read,      \* a closure of its scope: function(){ $x }
    deep,      \* a lambda with a deep body
    part,      \* fun(?)
    arg,       \* part, passed as an argument
    comp,      \* $sort ~> fun
    sort,      \* $sort, called with a function
    eval,      \* $eval
    update     \* | $ | {...} |

AllKinds ==
    (main :> "main") @@ (fun :> "lambda") @@ (read :> "lambda") @@ (deep :> "lambda")
        @@ (part :> "partial") @@ (arg :> "argument") @@ (comp :> "composition")
        @@ (sort :> "builtin") @@ (eval :> "eval") @@ (update :> "transform")

AllWraps == (part :> <<fun>>) @@ (arg :> <<part>>) @@ (comp :> <<sort, fun>>)

AllLevels == (fun :> 1) @@ (read :> 1) @@ (deep :> 8) @@ (update :> 1)

KindOfThese == [x \in Fns |-> AllKinds[x]]
WrapsOfThese == [x \in Fns |-> IF x \in DOMAIN AllWraps THEN AllWraps[x] ELSE << >>]
LevelsOfThese == [x \in Fns |-> IF x \in DOMAIN AllLevels THEN AllLevels[x] ELSE 0]
=============================================================================
