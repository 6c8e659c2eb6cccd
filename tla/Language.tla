------------------------------- MODULE Language -------------------------------
(***************************************************************************)
(* The algorithms of the language that keep no state between calls, over   *)
(* every short input: an input grows a symbol at a time.                   *)
(*                                                                         *)
(* A task is a kind of work and its input: the tokens of an expression,    *)
(* the symbols of a signature and the arguments of a call, an expression   *)
(* whose reads of the input are looked for, the picture of an integer, or  *)
(* the steps of a transform.  The result is what the code makes of it.     *)
(***************************************************************************)
EXTENDS Parser, SourceTrees, SignatureCalls, IntegerPictures, Transform

CONSTANTS MaxPathNodes, MaxPathElements   \* for ReferencedPaths

R == INSTANCE FieldReads

ASSUME PathAssumption == MaxPathNodes \in Nat /\ MaxPathElements \in Nat

vars == <<task, result>>

Init ==
    \E a \in Alphabets :
        /\ Begin(a)
        /\ \/ a.kind = "source" /\ result = Parse(<<>>)
           \/ a.kind = "reads" /\ result = <<>>
           \/ BeginSignature(a)
           \/ BeginPicture(a)
           \/ a.kind = "transform" /\ \E d \in a.values : result = Before(d.heap, d.root)

\* a longer source may yet be an expression: the parser ran out of symbols
Viable ==
    \/ result.err \in {"", "S0302"}
    \/ result.token = Eof /\ result.err \in {"S0203", "S0207"}

Read ==
    /\ task.alphabet.kind = "source" /\ Viable /\ Len(task.src) < task.alphabet.most
    /\ \E s \in task.alphabet.symbols :
        /\ task' = [task EXCEPT !.src = Append(@, s)]
        /\ result' = Parse(task'.src)

Transforms == task.alphabet.kind = "transform" /\ result.err = ""
Reached(refs) == ReachFrom(result.heap, {r \in refs : IsRef(r)})
Asks(update) == task' = [task EXCEPT !.args = update]

\* the input, any value of the document $$ names, is cloned
CloneInput ==
    /\ Transforms /\ result.id = 0
    /\ \E input \in Reached({result.root}) : result' = Cloned(result, input, 1)
    /\ UNCHANGED task

\* a rebound $clone returns a part of the copy, which is cloned again
CloneAgain ==
    /\ Transforms /\ result.id = 1 /\ ~result.matched /\ result.input \in Reached({result.root})
    /\ \E v \in Reached({result.doc}) : result' = Cloned(result, v, 1)
    /\ UNCHANGED task

\* how evaluating a clause fails: with an error of its own, an update because it is
\* no object and a delete clause because it is not of strings
UpdateErrors == {"clause", "T2011"}
DeleteErrors == {"clause", "T2012"}

\* the pattern matches objects of the clone, or of the document; or it fails, or
\* matches no object and the clauses, evaluated for the clone all the same, fail
MatchPattern ==
    /\ Transforms /\ result.id = 1 /\ ~result.matched
    /\ \E noBinds \in BOOLEAN :
        \/ \E targets \in SeqOf({v \in Reached({result.doc, result.root}) : IsObject(result.heap, v)},
                                task.alphabet.most) :
                result' = Matched(result, targets, noBinds)
        \/ \E err \in UpdateErrors \cup DeleteErrors :
                result' = EndedBy(Matched(result, <<>>, noBinds), err)
    /\ UNCHANGED task

\* what the clauses evaluated for target are taken to reach: the target, the
\* document, and if a variable was bound the clone
Reachable(target) == Reached({target, result.root, IF result.noBinds THEN Scalar ELSE result.doc})

\* the update evaluates to undefined, to a function, to a value it can reach, or to
\* a new object that holds one, itself or in an array; or a clause fails
UpdateTarget ==
    /\ Transforms /\ result.left # <<>>
    /\ LET heap == result.heap
           new == Len(heap) + 1
           Holder(v) == Object(<<Entry("b", Scalar), Entry("a", v)>>, 0)
           \* what may be made on the heap for the update, and the update
           made(held) == {<<<<>>, Scalar>>, <<<<>>, Fun>>, <<<<>>, held>>, <<<<Holder(held)>>, new>>,
                          <<<<ArrayOf(<<held, held>>), Holder(new)>>, new + 1>>}
           deletions == {Deleting(keys) : keys \in task.alphabet.symbols}
                            \cup {[Deleting(<<>>) EXCEPT !.err = err] : err \in DeleteErrors}
       IN  \/ \E held \in Reachable(Head(result.left)), deletion \in deletions : \E m \in made(held) :
                /\ result' = Applied([result EXCEPT !.heap = @ \o m[1]], Updating(m[2]), deletion)
                /\ Asks(<<Head(result.left), Unfold(heap \o m[1], m[2], task.alphabet.arguments)>>)
           \/ \E err \in UpdateErrors :
                /\ result' = Applied(result, [Updating(Scalar) EXCEPT !.err = err], Deleting(<<>>))
                /\ Asks(<<Head(result.left), <<>>>>)

\* an operand, or an operator for the last of them, whose places are few
ReadOperator ==
    /\ task.alphabet.kind = "reads" /\ Len(task.src) < task.alphabet.most
    /\ Len(result) <= Min({task.alphabet.most - Len(task.src) + 1, task.alphabet.arguments})
    /\ \E s \in task.alphabet.symbols :
        /\ R!Takes(result, s)
        /\ task' = [task EXCEPT !.src = Append(@, s)]
        /\ result' = R!Push(result, s)

NextStep ==
    \/ Read \/ ReadOperator \/ ReadPicture \/ FormatNumber \/ ReadSignature \/ GiveArgument
    \/ CloneInput \/ CloneAgain \/ MatchPattern \/ UpdateTarget

Spec == Init /\ [][NextStep]_vars

-----------------------------------------------------------------------------
Accepted == task.alphabet.kind = "source" /\ result.err = ""

\* An expression the parser accepts is the source it read: written out in order,
\* the tree gives every token once, but for a separator before a closing bracket
\* (parser.go's nud, led and their lists lose no operand and swap none).
SourceKept == Accepted => Yield(result.node) = Trimmed(task.src)

\* In an accepted tree no operand of an operator is itself an operation that binds
\* less tightly, on the left, or as tightly, on the right, unless it is bracketed
\* (expression's loop over bindingPower, and the power each case of led passes on).
PowersRespected ==
    LET power == [t \in Infix \cup {"(", "[", "{", "^", "?", "#", "@"} |-> Power(t)]
    IN  Accepted => \A n \in Subtrees(result.node) : Respects(n, power)

\* The height the parser counts while it reads (parser.go's nesting limit, which
\* keeps every later walk of the tree off the end of the Go stack) is never below
\* the height of the tree it builds, nor above the limit.
HeightCounted == Accepted => HeightOf(result.node) <= result.height /\ result.height <= MaxDepth

-----------------------------------------------------------------------------
\* gnata.go:726, "complete is true when evaluating the expression against its input
\* pruned to these paths gives the same result": whatever variables, lambdas, tail
\* calls, predicates and bindings the expression uses, if its evaluation succeeds.
ReadsSuffice ==
    LET Enough(reads) == \A input \in task.alphabet.values : R!Suffices(result[1], input, reads)
    IN  task.alphabet.kind = "reads" /\ Len(result) = 1 => Enough(R!ReferencedPaths(result[1]))

-----------------------------------------------------------------------------
\* The clone a transform begins with is equal to its input and shares no object or
\* array with the document, or the transform fails with U1001 because the input
\* contains itself (copyTree with valuePath); and no object of the clone comes to
\* contain itself, whatever the updates hold: the target, an object above it, or
\* another target (applyTarget detaches an update that reaches the clone).
CloneStaysWhole ==
    task.alphabet.kind = "transform" =>
        LET heap == result.heap depth == Len(heap) + 1
        IN  /\ result.id = 1 /\ ~result.matched =>
                IF ContainsItself(heap, result.input) THEN result.err = "U1001"
                ELSE /\ result.err = ""
                     /\ Unfold(heap, result.doc, depth) = Unfold(heap, result.input, depth)
                     /\ Reached({result.doc}) \cap Reached({result.root}) = {}
            /\ \A o \in Reached({result.doc}) :
                Owns(heap, result.id, o) => o \notin Below(heap, o)

\* No step of a transform changes an object that is not of its clone: the input, the
\* document, the update and the clones of other transforms stay as they are.
OnlyCloneChanges ==
    [][task.alphabet.kind = "transform" =>
        \A o \in DOMAIN result.heap :
            result.heap[o].clone # result'.id => result'.heap[o] = result.heap[o]]_vars

\* After a target is merged, each key of the update that is still there holds what
\* the update held when it was evaluated, though the target it may hold has changed
\* since (detach copies what leads to the clone before the merge).
MergedAsEvaluated ==
    task.alphabet.kind = "transform" /\ task.args # <<>> /\ result.err = "" =>
        LET target == result.heap[task.args[1]]
            update == task.args[2]
        IN  update # <<>> /\ target.clone = result.id =>
                \A i \in DOMAIN update[2] : \A e \in ToSet(target.items) :
                    e.key = update[2][i][1] =>
                        Unfold(result.heap, e.value, task.alphabet.arguments - 1) = update[2][i][2]
=============================================================================
