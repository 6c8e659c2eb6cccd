--------------------------- MODULE ExpressionTable ---------------------------
(***************************************************************************)
(* What a StreamEvaluator promises the goroutines that edit it, without    *)
(* the copies and the mutex that implement it: each edit that was asked    *)
(* for takes effect once, in one step, on the table as the edits before it *)
(* left it, and is answered by what that step did.  Positions are counted  *)
(* from 0, and an expression keeps its position until a reset.             *)
(***************************************************************************)
EXTENDS Naturals, Sequences

CONSTANTS
    Editors,
    Exprs,   \* compiled expressions
    Edits,   \* what an editor may ask for: records with an op, index and expr
    Nil      \* the entry of a removed position, no edit, no answer

VARIABLES
    table,
    asked,   \* the edit an editor has asked for and that is not made yet
    answer   \* the answer to an edit that was made, until it returns

Done == [ok |-> TRUE]
Refused == [ok |-> FALSE]
Position(i) == [index |-> i]

Init ==
    /\ table \in Seq(Exprs)
    /\ asked = [w \in Editors |-> Nil]
    /\ answer = [w \in Editors |-> Nil]

Ask(w) ==
    /\ asked[w] = Nil /\ answer[w] = Nil
    /\ \E e \in Edits : asked' = [asked EXCEPT ![w] = e]
    /\ UNCHANGED <<table, answer>>

\* The edit of w leaves the table t and is answered.
Makes(w, t, a) ==
    /\ table' = t
    /\ asked' = [asked EXCEPT ![w] = Nil]
    /\ answer' = [answer EXCEPT ![w] = a]

Asks(w, op) == asked[w] # Nil /\ asked[w].op = op

Has(i) == i + 1 \in DOMAIN table

Add(w) ==
    /\ Asks(w, "Add")
    /\ Makes(w, Append(table, asked[w].expr), Position(Len(table)))

Replace(w) ==
    /\ Asks(w, "Replace") /\ Has(asked[w].index)
    /\ Makes(w, [table EXCEPT ![asked[w].index + 1] = asked[w].expr], Done)

Remove(w) ==
    /\ Asks(w, "Remove") /\ Has(asked[w].index)
    /\ Makes(w, [table EXCEPT ![asked[w].index + 1] = Nil], Done)

Refuse(w) ==
    /\ Asks(w, "Replace") \/ Asks(w, "Remove")
    /\ ~Has(asked[w].index)
    /\ Makes(w, table, Refused)

Reset(w) == Asks(w, "Reset") /\ Makes(w, << >>, Done)

Return(w) ==
    /\ answer[w] # Nil
    /\ answer' = [answer EXCEPT ![w] = Nil]
    /\ UNCHANGED <<table, asked>>

Next ==
    \E w \in Editors :
        Ask(w) \/ Add(w) \/ Replace(w) \/ Remove(w) \/ Refuse(w) \/ Reset(w) \/ Return(w)

Spec == Init /\ [][Next]_<<table, asked, answer>>
=============================================================================
