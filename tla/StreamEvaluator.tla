--------------------------- MODULE StreamEvaluator ---------------------------
(***************************************************************************)
(* The StreamEvaluator of stream.go: calls of EvalMany and its variants    *)
(* that run beside calls of Add, Replace, Remove and Reset.                *)
(*                                                                         *)
(* An edit holds the mutex, copies the expression table, publishes the     *)
(* copy with one atomic store and then, in a second step every caller can  *)
(* fall into, clears the plan cache.  A call never locks: it loads the     *)
(* table, looks its plan up, builds and caches the plan when it misses,    *)
(* and walks its indices with the table and the plan it holds.             *)
(*                                                                         *)
(* The plan cache is the FIFO cache BoundedCache is shown to implement.    *)
(* What an expression computes is abstracted to which expression answered  *)
(* and by which path: a fast path works from the plan alone.               *)
(***************************************************************************)
EXTENDS Integers, Sequences

CONSTANTS
    Callers,    \* goroutines inside EvalMany and its variants
    Editors,    \* goroutines inside Add, Replace, Remove, Reset
    Exprs,      \* compiled expressions
    Kind,       \* their fast path: "pure", "cmp", "func", "bool" or "none"
    Uses,       \* the functions a func or bool fast path calls
    Ops,        \* the edits made: "Add", "Replace", "Remove", "Reset"
    Shadowed,   \* names of the custom functions

    Schemas,    \* schema keys
    NoSchema,   \* the empty schema key, which disables caching
    IndexLists, \* the exprIndices callers pass, counted from 0
    CacheSize,  \* capacity of the plan cache
    Initials,   \* the expressions NewStreamEvaluator is given
    Indices,    \* the indices Replace and Remove are given
    MaxCalls, MaxEdits,  \* bounds on the behaviours
    Nil         \* a removed entry, an undefined answer, no plan, nobody

Kinds == {"pure", "cmp", "func", "bool", "none"}

ASSUME SizeAssumption == CacheSize \in Nat \ {0}
ASSUME NilAssumption == Nil \notin Exprs \cup Editors
ASSUME RolesAssumption == Callers \cap Editors = {}

ASSUME KindAssumption == Kind \in [Exprs -> Kinds]
ASSUME InitialAssumption == Initials \subseteq Seq(Exprs) /\ Indices \subseteq Int
ASSUME BoundAssumption == {MaxCalls, MaxEdits} \subseteq Nat
ASSUME ListAssumption == IndexLists \subseteq Seq(Int)

VARIABLES
    exprs,     \* the published table
    mu,        \* the editor holding the mutex, or Nil
    cache,     \* the plan cache's entries, oldest first
    pc,        \* where each goroutine is
    edit,      \* an editor's operation
    old,       \* the table an editor loaded
    args,      \* a caller's arguments
    local,     \* the table a caller loaded
    plan,      \* the plan a caller evaluates by
    answers,   \* what a caller has answered so far, one per index
    decoded,   \* a caller's input is decoded already
    calls, edits,
    raced,     \* history: keys whose plan was cached from a replaced table
    quiet,     \* history: no edit has touched the table during the call
    tainted    \* history: the call found its plan under a raced key

table == <<exprs, mu, edit, old, edits>>
walk == <<answers, decoded>>
call == <<args, local, plan, walk, calls>>
history == <<raced, quiet, tainted>>
vars == <<table, cache, pc, call, history>>

Keys == Schemas \X IndexLists
Cache == INSTANCE FifoCache
    WITH Plans <- Seq(Exprs \cup {Nil}), Capacity <- CacheSize, queue <- cache

\* The expression at index i of t; Nil when i is out of range or removed.
At(t, i) == IF i + 1 \in DOMAIN t THEN t[i + 1] ELSE Nil

InRange(t, i) == i + 1 \in DOMAIN t

-----------------------------------------------------------------------------

\* A bug: only the function of a func fast path is looked up in shadowed.
UsableKindFuncOnly(e) ==
    IF Kind[e] = "func" /\ Uses[e] \cap Shadowed # {} THEN "none" ELSE Kind[e]

\* The fast path buildPlan may use for e: one that calls no function a custom
\* function shadows (isShadowed, usesShadowedFunction: $not counts as one).
UsableKind(e) ==
    IF Kind[e] \in {"func", "bool"} /\ Uses[e] \cap Shadowed # {}
    THEN "none" ELSE Kind[e]

\* Some expression of the batch has no fast path.
NeedsDecode(t, ids) ==
    \E i \in DOMAIN ids : At(t, ids[i]) # Nil /\ UsableKind(At(t, ids[i])) = "none"

\* A bug: the plan ignores needsDecode.
BuildPlanKeepsBool(t, ids) ==
    LET Usable(e) == e # Nil /\ UsableKind(e) # "none"
    IN [i \in DOMAIN ids |-> IF Usable(At(t, ids[i])) THEN At(t, ids[i]) ELSE Nil]

\* buildPlan: for each index the expression whose fast path answers it, or
\* Nil.  The bool fast paths are dropped when the batch decodes anyway.
BuildPlan(t, ids) ==
    LET Usable(e) ==
            /\ e # Nil
            /\ UsableKind(e) # "none"
            /\ UsableKind(e) = "bool" => ~NeedsDecode(t, ids)
    IN [i \in DOMAIN ids |-> IF Usable(At(t, ids[i])) THEN At(t, ids[i]) ELSE Nil]

-----------------------------------------------------------------------------

NoArgs == [ids |-> << >>, schema |-> NoSchema, input |-> "bytes"]

Args == [ids : IndexLists, schema : Schemas \cup {NoSchema}, input : {"bytes", "decoded"}]

Edits ==
    [op : Ops \cap {"Add"}, expr : Exprs] \cup
    [op : Ops \cap {"Replace"}, index : Indices, expr : Exprs] \cup
    [op : Ops \cap {"Remove"}, index : Indices] \cup
    [op : Ops \cap {"Reset"}]

NoEdit == [op |-> "Reset"]

\* What an edit of t returns: Add the index it gave, Replace and Remove an
\* error for an index that is out of range.
Result(t, e) ==
    IF e.op = "Add" THEN [index |-> Len(t)]
    ELSE [ok |-> e.op = "Reset" \/ InRange(t, e.index)]

ASSUME NilIsNothing == Nil \notin Edits \cup {NoEdit} \cup [index : Nat] \cup [ok : BOOLEAN]

\* NewStreamEvaluator.
Init ==
    /\ exprs \in Initials
    /\ mu = Nil
    /\ cache = << >>
    /\ pc = [g \in Callers \cup Editors |-> "idle"]
    /\ edit = [w \in Editors |-> NoEdit]
    /\ old = [w \in Editors |-> << >>]
    /\ args = [g \in Callers |-> NoArgs]
    /\ local = [g \in Callers |-> << >>]
    /\ plan = [g \in Callers |-> << >>]
    /\ answers = [g \in Callers |-> << >>]
    /\ decoded = [g \in Callers |-> FALSE]
    /\ calls = 0 /\ edits = 0
    /\ raced = {}
    /\ quiet = [g \in Callers |-> TRUE]
    /\ tainted = [g \in Callers |-> FALSE]

Goes(g, from, to) == pc[g] = from /\ pc' = [pc EXCEPT ![g] = to]

-----------------------------------------------------------------------------
\* Editors: Add, Compile (an Add once the source has compiled), Replace,
\* Remove and Reset.

EditCall(w) ==
    /\ edits < MaxEdits
    /\ edits' = edits + 1
    /\ \E e \in Edits : edit' = [edit EXCEPT ![w] = e]
    /\ Goes(w, "idle", "wait")
    /\ UNCHANGED <<exprs, mu, old, cache, call, history>>

\* A bug: the edit does not take the mutex.
EditLockNone(w) ==
    /\ mu' = w
    /\ old' = [old EXCEPT ![w] = exprs]
    /\ Goes(w, "wait", "locked")
    /\ UNCHANGED <<exprs, edit, edits, cache, call, history>>

\* Lock and load the table.
EditLock(w) ==
    /\ mu = Nil
    /\ mu' = w
    /\ old' = [old EXCEPT ![w] = exprs]
    /\ Goes(w, "wait", "locked")
    /\ UNCHANGED <<exprs, edit, edits, cache, call, history>>

\* The table an operation makes of t.
Edited(t, e) ==
    CASE e.op = "Add"     -> Append(t, e.expr)
      [] e.op = "Replace" -> [t EXCEPT ![e.index + 1] = e.expr]
      [] e.op = "Remove"  -> [t EXCEPT ![e.index + 1] = Nil]
      [] e.op = "Reset"   -> << >>

\* Replace and Remove return an error for an index that is out of range.
EditRejected(w) ==
    /\ edit[w].op \in {"Replace", "Remove"}
    /\ ~InRange(old[w], edit[w].index)
    /\ Goes(w, "locked", "unlock")
    /\ UNCHANGED <<table, cache, call, history>>

\* Publish the edited copy of the table.
EditStore(w) ==
    /\ edit[w].op \in {"Replace", "Remove"} => InRange(old[w], edit[w].index)
    /\ Goes(w, "locked", "stored")
    /\ exprs' = Edited(old[w], edit[w])
    /\ quiet' = [g \in Callers |-> pc[g] = "idle"]
    /\ UNCHANGED <<mu, edit, old, edits, cache, call, raced, tainted>>

\* A bug: the edit forgets to clear the plan cache.
EditInvalidateNothing(w) ==
    /\ Goes(w, "stored", "unlock")
    /\ UNCHANGED <<table, cache, call, history>>

\* Clear the plan cache.
EditInvalidate(w) ==
    /\ Goes(w, "stored", "unlock")
    /\ cache' = << >>
    /\ raced' = {}
    /\ UNCHANGED <<table, call, quiet, tainted>>

\* The deferred Unlock; the edit returns.
EditUnlock(w) ==
    /\ Goes(w, "unlock", "idle")
    /\ mu' = Nil
    /\ edit' = [edit EXCEPT ![w] = NoEdit]
    /\ old' = [old EXCEPT ![w] = << >>]
    /\ UNCHANGED <<exprs, edits, cache, call, history>>

-----------------------------------------------------------------------------
\* Callers: EvalMany, EvalManyWithVars, EvalMap, EvalPreparsed and EvalOne.

\* The call begins and loads the table.  (Without indices it returns at once
\* and touches nothing.)
CallLoad(g) ==
    /\ calls < MaxCalls
    /\ calls' = calls + 1
    /\ Goes(g, "idle", "lookup")
    /\ \E a \in Args : a.ids # << >> /\ args' = [args EXCEPT ![g] = a]
    /\ local' = [local EXCEPT ![g] = exprs]
    /\ quiet' = [quiet EXCEPT ![g] = \A w \in Editors : pc[w] # "stored"]
    /\ UNCHANGED <<table, cache, plan, walk, raced, tainted>>

\* A bug: the plan is cached under the schema key alone (the first list of
\* indices stands for all of them).
KeyOfSchema(g) == <<args[g].schema, CHOOSE ids \in IndexLists : TRUE>>

\* appendPlanCacheKey: the schema key and the indices, in their order.
Key(g) == <<args[g].schema, args[g].ids>>

\* Take the plan the cache holds for (schema, indices).
CallHit(g) ==
    /\ args[g].schema # NoSchema
    /\ Goes(g, "lookup", "walk")
    /\ \E p \in Cache!Found(cache, Key(g)) : plan' = [plan EXCEPT ![g] = p]
    /\ tainted' = [tainted EXCEPT ![g] = Key(g) \in raced]
    /\ UNCHANGED <<table, cache, args, local, walk, calls, raced, quiet>>

\* Build the plan from the table the call loaded.
CallMiss(g) ==
    /\ Goes(g, "lookup", IF args[g].schema = NoSchema THEN "walk" ELSE "set")
    /\ args[g].schema # NoSchema => ~Cache!Holds(cache, Key(g))
    /\ plan' = [plan EXCEPT ![g] = BuildPlan(local[g], args[g].ids)]
    /\ UNCHANGED <<table, cache, args, local, walk, calls, history>>

\* Cache the plan, unless the key has one by now.
CallSet(g) ==
    /\ Goes(g, "set", "walk")
    /\ IF Cache!Holds(cache, Key(g))
       THEN UNCHANGED <<cache, raced>>
       ELSE /\ cache' = Cache!Pushed(cache, [key |-> Key(g), plan |-> plan[g]])
            /\ raced' = IF local[g] = exprs THEN raced \ {Key(g)}
                        ELSE raced \cup {Key(g)}
    /\ UNCHANGED <<table, call, quiet, tainted>>

\* The position the loop of evalInternal has reached, and its index.
Here(g) == Len(answers[g]) + 1
IndexHere(g) == args[g].ids[Here(g)]

AtPosition(g) == pc[g] = "walk" /\ Here(g) <= Len(args[g].ids)

AnswersWith(g, a) ==
    /\ answers' = [answers EXCEPT ![g] = Append(answers[g], a)]
    /\ UNCHANGED <<table, cache, pc, args, local, plan, calls, history>>

\* The call returns its answers or an error, and its locals are gone.
Returns(g) ==
    /\ Goes(g, "walk", "idle")
    /\ args' = [args EXCEPT ![g] = NoArgs]
    /\ local' = [local EXCEPT ![g] = << >>]
    /\ plan' = [plan EXCEPT ![g] = << >>]
    /\ answers' = [answers EXCEPT ![g] = << >>]
    /\ decoded' = [decoded EXCEPT ![g] = FALSE]
    /\ quiet' = [quiet EXCEPT ![g] = TRUE]
    /\ tainted' = [tainted EXCEPT ![g] = FALSE]
    /\ UNCHANGED <<table, cache, calls, raced>>

\* ctx.Err() before a position.
Cancelled(g) ==
    /\ AtPosition(g)
    /\ Returns(g)

\* A bug: a removed index is tried again and again.
SkipNever(g) ==
    /\ AtPosition(g)
    /\ At(local[g], IndexHere(g)) = Nil
    /\ UNCHANGED vars

\* A bug: the walk trusts the plan and not its table for removed indices.
SkipPlanned(g) ==
    /\ AtPosition(g)
    /\ At(local[g], IndexHere(g)) = Nil
    /\ AnswersWith(g, [expr |-> plan[g][Here(g)], fast |-> plan[g][Here(g)] # Nil])
    /\ UNCHANGED decoded

\* The index is out of range or its expression removed.
Skip(g) ==
    /\ AtPosition(g)
    /\ At(local[g], IndexHere(g)) = Nil
    /\ AnswersWith(g, [expr |-> Nil, fast |-> FALSE])
    /\ UNCHANGED decoded

\* The walk reaches an expression the plan has a fast path for.
FastHere(g) ==
    /\ AtPosition(g)
    /\ At(local[g], IndexHere(g)) # Nil
    /\ args[g].input = "bytes"
    /\ plan[g][Here(g)] # Nil

\* The fast path answers, from the expression it was taken from, ...
FastAnswer(g) ==
    /\ FastHere(g)
    /\ AnswersWith(g, [expr |-> plan[g][Here(g)], fast |-> TRUE])
    /\ UNCHANGED decoded

\* ... or fails, as only cmp, func and bool paths can, ...
FastError(g) ==
    /\ FastHere(g)
    /\ Kind[plan[g][Here(g)]] # "pure"
    /\ Returns(g)

\* ... or panics, which recoverEvalPanic turns into an error.
FastPanic(g) ==
    /\ FastHere(g)
    /\ Returns(g)

\* No fast path, or one that declined: decode the input if this has not been
\* tried, and evaluate the expression of the caller's own table.
FullAnswer(g) ==
    /\ AtPosition(g)
    /\ At(local[g], IndexHere(g)) # Nil
    /\ AnswersWith(g, [expr |-> At(local[g], IndexHere(g)), fast |-> FALSE])
    /\ decoded' = [decoded EXCEPT ![g] = TRUE]

\* The decoding fails, at the first position that needs it.
DecodeError(g) ==
    /\ AtPosition(g)
    /\ At(local[g], IndexHere(g)) # Nil
    /\ ~decoded[g] /\ args[g].input = "bytes"
    /\ Returns(g)

FullError(g) ==
    /\ AtPosition(g)
    /\ At(local[g], IndexHere(g)) # Nil
    /\ Returns(g)

\* Every position is answered.
CallReturn(g) ==
    /\ Here(g) > Len(args[g].ids)
    /\ Returns(g)

-----------------------------------------------------------------------------

Editing(w) ==
    EditRejected(w) \/ EditStore(w) \/ EditInvalidate(w) \/ EditUnlock(w)

Evaluating(g) ==
    \/ CallHit(g) \/ CallMiss(g) \/ CallSet(g) \/ Skip(g)
    \/ FastAnswer(g) \/ FastError(g) \/ FastPanic(g)
    \/ FullAnswer(g) \/ DecodeError(g) \/ FullError(g)
    \/ CallReturn(g)

\* The bounds allow no further call or edit and all have returned.
Finished ==
    /\ calls = MaxCalls /\ edits = MaxEdits
    /\ \A g \in Callers \cup Editors : pc[g] = "idle"
    /\ UNCHANGED vars

Next ==
    \/ \E w \in Editors : EditCall(w) \/ EditLock(w) \/ Editing(w)
    \/ \E g \in Callers : CallLoad(g) \/ Evaluating(g) \/ Cancelled(g)
    \/ Finished

Spec == Init /\ [][Next]_vars

\* Running goroutines are scheduled again, and sync.Mutex does not starve a
\* waiter.  An expression's evaluation ends, and nobody need cancel the call.
Fairness ==
    /\ \A w \in Editors : WF_vars(Editing(w)) /\ SF_vars(EditLock(w))
    /\ \A g \in Callers : WF_vars(Evaluating(g))

FairSpec == Spec /\ Fairness

-----------------------------------------------------------------------------

Answers == [expr : Exprs \cup {Nil}, fast : BOOLEAN]

TypeOK ==
    /\ exprs \in Seq(Exprs \cup {Nil})
    /\ mu \in Editors \cup {Nil}
    /\ cache \in Seq(Cache!Entry) /\ Len(cache) <= CacheSize
    /\ pc \in [Callers \cup Editors ->
                  {"idle", "wait", "locked", "stored", "unlock", "lookup", "set", "walk"}]
    /\ edit \in [Editors -> Edits \cup {NoEdit}]
    /\ old \in [Editors -> Seq(Exprs \cup {Nil})]
    /\ args \in [Callers -> Args \cup {NoArgs}]
    /\ local \in [Callers -> Seq(Exprs \cup {Nil})]
    /\ plan \in [Callers -> Seq(Exprs \cup {Nil})]
    /\ answers \in [Callers -> Seq(Answers)]
    /\ decoded \in [Callers -> BOOLEAN]
    /\ calls \in 0 .. MaxCalls /\ edits \in 0 .. MaxEdits
    /\ raced \subseteq Keys
    /\ quiet \in [Callers -> BOOLEAN]
    /\ tainted \in [Callers -> BOOLEAN]

\* The table an edit started from, while it is between publishing its copy
\* and clearing the cache.
Replaced == {old[w] : w \in {v \in Editors : pc[v] = "stored"}}

\* A cached plan is the one buildPlan makes of the table callers load now,
\* or, until the edit under way has cleared the cache, of the table it
\* replaced.  The exception is a plan some call cached after the table it had
\* loaded was replaced (the keys in raced): Set runs after the edit's
\* Invalidate and nothing checks it.
PlansFresh ==
    \A i \in DOMAIN cache :
        cache[i].key \notin raced =>
            \E t \in {exprs} \cup Replaced : cache[i].plan = BuildPlan(t, cache[i].key[2])

Own(g, i) == At(local[g], args[g].ids[i])

\* A call during which no edit touches the table, and which does not find a
\* plan that was cached too late, answers every index with the expression the
\* table has there, whichever goroutine built its plan and for whatever order
\* of indices.
QuietCallsAnswer ==
    \A g \in Callers : quiet[g] /\ ~tainted[g] =>
        \A i \in DOMAIN answers[g] : answers[g][i].expr = Own(g, i)

\* Even with a plan of another table, an index that is out of range or removed
\* in the table a call loaded is answered undefined, and no other index is.
RemovedIsUndefined ==
    \A g \in Callers : \A i \in DOMAIN answers[g] :
        answers[g][i].expr = Nil <=> Own(g, i) = Nil

\* No fast path runs a builtin that a custom function of the evaluator
\* shadows, whatever table the plan was built from.
ShadowedNeverFast ==
    \A g \in Callers : \A i \in DOMAIN answers[g] :
        LET a == answers[g][i]
        IN a.fast /\ Kind[a.expr] \in {"func", "bool"} => Uses[a.expr] \cap Shadowed = {}

\* A bool fast path is planned only in a batch every expression of which has
\* a fast path: the input is not walked once per leaf and decoded as well.
BoolOnlyWithoutDecode ==
    \A g \in Callers : \A i, j \in DOMAIN plan[g] :
        /\ pc[g] \in {"set", "walk"} /\ quiet[g] /\ ~tainted[g]
        /\ plan[g][i] # Nil /\ Kind[plan[g][i]] = "bool"
        /\ Own(g, j) # Nil
        => plan[g][j] # Nil

\* An edit is asked for until it is published or refused, and answered then.
Asked == [w \in Editors |-> IF pc[w] \in {"wait", "locked"} THEN edit[w] ELSE Nil]
Answer ==
    [w \in Editors |-> IF pc[w] \in {"stored", "unlock"} THEN Result(old[w], edit[w]) ELSE Nil]

Table == INSTANCE ExpressionTable WITH table <- exprs, asked <- Asked, answer <- Answer

\* Every edit takes effect exactly as it was asked for, once, on the table as
\* the edits published before it left it, however the edits of several
\* goroutines overlap: none is lost or overwritten by a copy of an older
\* table, Add returns the index its expression has, and Replace and Remove
\* are refused for the indices the table does not have at that moment.
TableSpec == Table!Spec

\* Every call and every edit returns.
AllReturn == \A g \in Callers \cup Editors : pc[g] # "idle" ~> pc[g] = "idle"

\* What the comment on Replace promises (stream.go:173-176, "Replace
\* invalidates the schema plan cache so that subsequent EvalMany calls rebuild
\* GroupPlans with the new expression's fast-path metadata"): a call that
\* begins after every edit has returned, and sees none, answers with the
\* expressions of the table.
ReplaceTakesEffect ==
    \A g \in Callers : quiet[g] =>
        \A i \in DOMAIN answers[g] : answers[g][i].expr = Own(g, i)
=============================================================================
