---------------------------- MODULE SignatureRegex ----------------------------
(***************************************************************************)
(* What a signature means: the regular expression jsonata-js makes of it,  *)
(* matched by backtracking.  A parameter tries the most arguments it can   *)
(* take first, a lazy one the fewest, and keeps the first that lets the    *)
(* rest match.                                                             *)
(***************************************************************************)
EXTENDS Integers, Sequences, SequencesExt, FiniteSetsExt

Failed == [ok |-> FALSE, counts |-> <<>>, taken |-> 0]

\* how many symbols after the first a a parameter may take
Fitting(param, symbols, a) ==
    {k \in 0 .. Len(symbols) - a :
        /\ \A j \in a + 1 .. a + k : symbols[j] \in param.symbols
        /\ k = 0 => param.optional
        /\ k > 1 => param.variadic}

\* of those that let the rest match, the one it tries first
First(param, works) == CHOOSE k \in works : \A j \in works \ {k} : IF param.lazy THEN k < j ELSE k > j

\* the first match of params with symbols: how many each takes, and all of them
Backtrack(params, symbols, anchored) ==
    LET match[state \in (1 .. Len(params) + 1) \X (0 .. Len(symbols))] ==
            LET p == state[1] a == state[2]
                works == {k \in Fitting(params[p], symbols, a) : match[<<p + 1, a + k>>].ok}
                take == First(params[p], works)
            IN  CASE p > Len(params) -> [Failed EXCEPT !.ok = ~anchored \/ a = Len(symbols)]
                  [] p <= Len(params) /\ works = {} -> Failed
                  [] OTHER -> LET rest == match[<<p + 1, a + take>>]
                              IN  [ok |-> TRUE, counts |-> <<take>> \o rest.counts, taken |-> take + rest.taken]
    IN  match[<<1, 0>>]

\* the argument blamed for a mismatch: the one after the longest prefix of
\* the parameters that matches the start of the arguments
Blamed(params, symbols) ==
    LET Prefix(n) == Backtrack(SubSeq(params, 1, n), symbols, FALSE)
        longest == CHOOSE n \in 0 .. Len(params) :
                        Prefix(n).ok /\ \A k \in n + 1 .. Len(params) : ~Prefix(k).ok
    IN  Prefix(longest).taken + 1
=============================================================================
