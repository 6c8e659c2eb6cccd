-------------------------- MODULE MCStreamEvaluator --------------------------
(***************************************************************************)
(* TLC instances of StreamEvaluator: expressions of each kind that         *)
(* buildPlan treats differently.                                           *)
(***************************************************************************)
EXTENDS StreamEvaluator, TLC

CONSTANTS path, fn, both, neg   \* a.b, $sum(a), $sum(a) and b, $not(a) and b

AllKinds ==
    (path :> "pure") @@ (fn :> "func") @@ (both :> "bool") @@ (neg :> "bool")

AllUses == (path :> {}) @@ (fn :> {"sum"}) @@ (both :> {"sum"}) @@ (neg :> {"not"})

KindOfThese == [e \in Exprs |-> AllKinds[e]]
UsesOfThese == [e \in Exprs |-> AllUses[e]]

AllOps == {"Add", "Replace", "Remove", "Reset"}

\* those that change what calls find at the indices of a table of two
AllButAdd == AllOps \ {"Add"}

NoNames == {}
Sum == {"sum"}

\* the tables the behaviours start from
PathAndBool == {<<path, neg>>}
PathAndCall == {<<path, fn>>}
UpToOne == UNION {[1 .. n -> Exprs] : n \in 0 .. 1}

\* the indices of a table of two, and one below or above
OfTwo == 0 .. 1
FromBelow == -1 .. 1
UpToAbove == 0 .. 2

One == {<<0>>}
Pairs == {<<0, 1>>, <<1, 0>>}

Symmetric == Permutations(Callers)
=============================================================================
