# Verification of gnata

gnata evaluates JSONata expressions in Go. This directory holds TLA+ models of
its parts, the TLC configurations that check them, and proofs for TLAPS. Paths
and line numbers are those of the repository this directory belongs to.

    tlc -workers 2 -config MCBoundedCache.cfg MCBoundedCache    # one run
    tlapm BoundedCacheProofs.tla                                # one module of proofs

`PROJECT.json` lists the components, the runs with what each shows, for each
property a mutation of the model that violates it, the source lines of every
definition, the disagreements found, the hazards and the theorems.

## 1. Inventory

gnata has three ways in. `Eval` takes decoded data and evaluates an expression
compiled by `Compile`. `EvalBytes` and `EvalMap` take raw JSON and first try to
answer without decoding it. `StreamEvaluator` evaluates many expressions per
event and caches, per schema, which of them can be answered that way.

| Component | Source | State | Operations | What is hard | What makes it correct |
|---|---|---|---|---|---|
| Plan cache | `bounded_cache.go` | ring of entries, head, count, published snapshot, three counters, mutex | Get, getBytes, Set, Invalidate, Stats | lock-free readers beside writers; the ring wraps and is cleared | snapshot = ring; one entry per key; evictions counted; FIFO |
| Stream evaluator | `stream.go` | published expression table, mutex, plan cache | Add, Compile, Replace, Remove, Reset; EvalMany, EvalManyWithVars, EvalMap, EvalPreparsed, EvalOne | an edit publishes and clears the cache in two steps; a call holds a table and a plan that may belong to different tables | plans are of the table; answers are of the table; no edit is lost |
| Fast paths | `gnata.go`, `path_bytes*.go`, `func_fast.go`, `bool_fast.go`, `internal/parser/analysis*.go` | none (one call) | EvalBytes, EvalMap, EvalBytesWithCustomFuncs, the tiers, the step walk | a second implementation of part of the language, over raw JSON, cut down by compile options | every tier answers what the evaluator answers, or leaves it to the next |
| Function calls | `internal/evaluator/eval_function.go`, `env.go`, `tailcall.go`, `ApplyFunction` | call counter (depth, nesting budget, $eval nesting, tail-call context) | call, tail call, trampoline, wrappers, transforms' and $eval's nesting, callbacks, errors, panics | what is restored by defer, what by hand, what not at all; calls that count for no limit | counters balanced; Go stack bounded; the limit reached is the error reported; every evaluation ends |
| Deadline, cancellation | `env.go:96-107, 395-473`, `eval_chain.go:63-87` | deadline, 32-bit poll count, sticky hit, instant | Err, errNow, SetDeadline, Now | looked at every 128th poll only; functions of one evaluation called by another | noticed within a bounded number of polls, then for good, by the evaluation it belongs to |
| Environments | `env.go:109-290, 476-557`, `path.go` (tuples) | two inline bindings, map, marks | Bind, Lookup, marks, rebasing | two representations, marks that must follow rebinding; scopes of tuples moved off a block | a map per scope; the mark is that of the value read |
| Path evaluation | `path.go`, `eval_helpers.go`, `eval_binary.go`, `eval_sort.go`, `eval_group.go` | none (values, tuple streams) | steps, predicates, sorts, groups, wildcards, parents | when an array is one context and when many | JSONata's mapping and flattening rules, and its limits |
| Objects and JSON | `ordered_map.go`, `fast_decode.go`, `json_encode.go` | keys, data, frozen flag, cached view | Set, Delete, decode, encode, normalise | views cached on shared objects | a view is of the object as it is |
| Values | `value.go` | none | equality, truthiness, collapsing, stripping | cyclic and shared values on explicit stacks | structural equality |
| Transform, copies | `eval_transform.go`, `value_copy.go` | heap of shared objects, clone ids | clone, update, detach | aliasing between clone, update and input | the input never changes; what is shared is copied once |
| Chains, ranges, regular expressions | `eval_chain.go`, `eval_range.go`, `eval_unary.go`, `eval_regex.go` | process-wide regex cache | `~>`, `..`, matching | limits computed in float64 | limits are checked before allocation |
| Signatures | `signature.go`, `signature_static.go`, `internal/parser/signature.go` | none | match, Inject, Validate | backtracking, context filled in | the match a regular expression would give |
| Static analyses | `internal/parser/process.go`, `ancestry.go`, `referenced_paths.go`, `depth.go`, `tailcall.go` | AST marks | tail calls, depths, parent slots, referenced paths | soundness for every expression | referenced paths are enough to evaluate |
| Lexer, parser | `internal/lexer`, `internal/parser/parser.go` | token, deferred error, height | Parse | errors that are deferred; `/` as division or regex; a limit on the height of what is built | no token lost or swapped; powers respected; the height counted is not below the tree's |
| Builtins | `functions/` | none, but for caches | registered functions | argument types | the language's definitions |
| Date and time | `functions/datetime_*.go` | bounded cache of pictures | $toMillis, $fromMillis | calendar arithmetic; two goroutines caching one picture | at most 256 cached |
| Decimals | `internal/decimal` | none | arithmetic to a precision | rounding | the precision asked for |
| WebAssembly bridge | `wasm/main.go` | handle counter, handle map | compile, eval, release | counter wraps | a handle names one expression |
| npm package | `npm/src` | ready flag, loading promise | initGnata, calls | concurrent loads, failed loads | one runtime |
| Vendored library | `internal/third_party/apd` | - | - | - | third-party code, left aside |

**Interactions.** `StreamEvaluator` owns one plan cache and calls it without its
own mutex held (Get, Set) and with it held (Invalidate). Its fast paths are
those of `gnata.go`, planned once per schema. The fast paths fall back to the
evaluator, which reads the call counter through the environment. Builtins call
back into the evaluator through `ApplyFunction`; `$eval` starts a nested
evaluation on the same counter. Custom functions and variables come in through
the environment, after an expression was analysed: nothing the analysis knows
says what a name will mean.

## 2. Modules

| Module | Models | Uses |
|---|---|---|
| `FifoCache` | what the plan cache promises: a bounded FIFO of entries, one per key | |
| `BoundedCache` | `bounded_cache.go`, one action per access to shared state | `FifoCache` (refined) |
| `BoundedCacheProofs` | proofs | `BoundedCache`, TLAPS |
| `ExpressionTable` | what the table promises: each edit asked for is applied once, whole, and answered by what it did | |
| `StreamEvaluator` | `stream.go`: editors and callers | `FifoCache` (composed), `ExpressionTable` (refined) |
| `StreamEvaluatorProofs` | proofs | `StreamEvaluator`, TLAPS |
| `CallStack` | the calls of one evaluation and the counters that bound them | |
| `CallStackProofs` | proofs | `CallStack`, TLAPS |
| `JsonValues` | raw and decoded values, decoding, truthiness | |
| `FullEvaluation` | what the evaluator answers for expressions that have a fast path | `JsonValues` |
| `FastPaths` | `Compile`'s choice of tier, and the tiers, one action each | `FullEvaluation` (as the reference) |
| `Scopes` | what environments promise: a tree of scopes, a map each, read from the nearest | |
| `Environment` | `env.go`'s scopes and the operations that open, bind and move them | `Scopes` (refined) |
| `InductionLemmas` | induction and recursive definitions, as facts about sets and functions | TLAPS |
| `EnvironmentProofs` | proofs about one environment and about the tree of them | `Environment`, `InductionLemmas` |
| `Deadline` | polls, deadlines, cancellation and instants of evaluations side by side | |
| `DeadlineProofs` | proofs | `Deadline`, TLAPS |
| `Parser` | `internal/parser/parser.go` over symbols | |
| `SourceTrees` | what a tree must be, said of the tree alone | |
| `Signatures` | reading a signature, matching a call, filling in the context | |
| `SignatureRegex` | the regular expression a signature stands for | |
| `Tasks` | the input that grows and what the code makes of it: the state of the next four | |
| `SignatureCalls` | every signature, a symbol at a time, and the arguments of a call | `Signatures`, `SignatureRegex`, `Tasks` |
| `SignatureProofs` | proofs | `SignatureCalls`, `InductionLemmas` |
| `ReferencedPaths` | the static analysis of which input fields an expression reads | |
| `FieldReads` | evaluation, as far as reads decide it (the reference) | `ReferencedPaths` |
| `Numerals` | `$formatInteger`, `$parseInteger` | |
| `IntegerPictures` | every picture, a symbol at a time, and an integer formatted with it | `Numerals`, `Tasks` |
| `NumeralsProofs` | proofs | `IntegerPictures`, `InductionLemmas` |
| `Transform` | the transform operator over a heap of shared objects | |
| `Language` | every short input of the five algorithms above, a symbol or a step at a time | all of them |
| `MC...` | instances for TLC | |

### BoundedCache

A goroutine is idle or between two accesses to shared state; the actions are
named after the operation and the access (`GetLoad`, `GetLookup`, `SetLock`,
`SetPresent`, `SetAbsent`, `SetRing`, `SetPublish`, ...). `Set` and `Invalidate` change
the ring (`entries`, `head`, `count`) in the steps the code takes and publish
`snapshot` last; `Get` loads `snapshot` in one step and looks up in what it
loaded in another, so it may answer from a snapshot that has been replaced.
`Stats` reads its four numbers in four steps. The history variables `inserted`
and `dropped` count what the code does not. `FifoSpec` is the refinement: with
`queue <- snapshot.entries` every publication is an insertion that evicts at
most the oldest entry, or a clearing. One comment of the code is not what it
does: `Set` "inserts or updates a key" (`bounded_cache.go:97`) but leaves the
plan of a present key alone (`:104-106`), which the model follows.

### StreamEvaluator

An editor is `idle`, waits for the mutex, loads the table (`EditLock`), publishes a
copy (`EditStore`), clears the cache (`EditInvalidate`) and unlocks; a `Replace` or
`Remove` out of range unlocks at once (`EditRejected`). All four kinds of edit
clear the cache, `Add` too. `ExpressionTable` is told which edit each editor asked
for and what it was answered, and makes exactly that edit in one step of its own: an
edit that is lost, made twice, made of an older table or at another position is no
behaviour of it. A caller loads the table (`CallLoad`), hits or
misses the cache, builds its plan from the table it loaded and caches it
(`CallSet`), and then walks its indices: an index is skipped, answered from its
plan (`FastAnswer`), by the full evaluation of the table's expression
(`FullAnswer`), or fails. The cache is `FifoCache`, which `BoundedCache`
implements. What an expression computes is reduced to *which* expression
answered and *how*; a plan is the sequence of expressions whose fast path it
holds, so a plan from another table is visible in the answers. `raced`, `quiet` and
`tainted` are history: keys whose plan was cached after its table was replaced,
calls no edit fell into, and calls that found a raced plan.

### CallStack

`stack` is the Go stack, one frame per call in progress. What an expression's
code does is left open: it calls any function, tail calls, returns, fails or
panics. A frame's `base` records the counters when it was entered; only the
tail-call context is kept there by the code, the rest is history that
`Balanced` compares with. `Refused`, `Entered` and `Invoke` are
`invokeFunction`; `Trampoline` lets a tail call replace a lambda's frame and gives its
budget back; `Leaves` is what defers and hand-written restores do on an error,
`UnwindPanic` what is left of them in a panic.

### FastPaths and FullEvaluation

A request is a document, an expression, an API and a compile option. The tiers
are tried in the order of `tryFastPathBytes` and `tryFuncFastBytes` (actions
`TryPath`, `TryComparison`, `TryCall`, `TryBool`), then `EvaluateDecoded`
decodes and evaluates. What `evalCore` answers the request (`FullAnswer`) is
computed once, in the auxiliary variable `full`: `EvaluateDecoded` returns it
and the properties compare every tier's answer with it. The two readings of field lookup are written apart, each
from its own source: `StepValue`, `StepArray`, `StepInArray` from
`path_bytes.go` over raw values, `NameStep`, `LookupContexts`, `LookupArray`
from `eval_helpers.go` and `path.go` over decoded ones. Numbers and strings are
names, with tables for what the properties tell apart: the float64 a number
rounds to (or that it is out of range), which strings parse to numbers and by which of
the two parsers, what trimming gives. The result of an arithmetic builtin is a term
(`Calc`): two answers agree when they apply the same function to the same inputs.
An object may name a key twice. `ReadOtherwise` says of which requests the tiers are
known to answer otherwise than the evaluator (section 3).

### Environment and Scopes

A scope keeps its first `InlineCap` names inline and the rest in a map; what
marks a binding as a plain array is kept beside each. `Bind` finds the name in
either, clears its mark, and spills when the inline slots are full. The actions
are the places that open scopes or bind in them: the evaluation's own scope
with the input and the caller's variables (`Start`), blocks and paths
(`OpenScope`), `$eval`'s (`OpenRoot`), a tuple's (`OpenTuple`), a lambda's body
(`CallLambda`), `:=` (`BindVariable`), and `rebaseTuples`, which moves what a
tuple bound below a block onto the block's parent (`Rebase`). `Scopes` knows one
map per scope and nothing of slots, maps and marks beside them: it opens a scope
with some bindings, or binds a name to a value and a mark. Which bindings, values and
marks is what `ScopeSpec` adds to the refinement (`AsAsked`): each operation is
the step of `Scopes` with its own arguments, so a rebinding that leaves the old mark
or another value is no step of it, nor is one that changes nothing. `ReadsNearest`
is about what is read alone: two walks that agree on a wrong binding satisfy it.

### Deadline

Evaluations run side by side. Each has a counter (deadline, ticks, sticky hit,
instant), and every scope points to one: an evaluation's own, or for the body of
a lambda another evaluation returned, its caller's (`Body`, `evalLambdaBody`).
A poll at a node (`Poll`) counts a tick and reads the clock when the count comes
round; a call (`Call`) reads it at once; `PollQuietly` drops the error and leaves
the hit. `evalCore` turns any error into D1012 when the counter was hit
(`Fails`). `late`, `slipped` and `instants` are history.

A function composed with `~>` runs in the scope it was composed in
(`Composition`), on its creator's counter; the history variable `composed` keeps
which evaluations called another's, and `ReadFrom` says whose limits and instant
that lets an evaluation see: see section 3. `OwnCallsChecked` is about the calls that
an evaluation's own scopes make; of a call made in a lent body nothing is claimed.

### Language: Parser, Signatures, ReferencedPaths, Numerals, Transform

These keep no state between calls. `Language` makes one transition system of
them: a task's input grows a symbol, an argument or a step at a time, and
`result` is what the code makes of it. Each algorithm is compared with a
definition that does not follow the code:

* `Parser` reads symbols with a token of lookahead, deferred errors (once `err`
  is set every operator leaves it), the height it counts, and the lexer's two
  readings of `/`. `SourceTrees` reads the tree back into its symbols and
  measures it.
* `Signatures` has `ParseSig`, the matcher as the table it fills from the right
  (`Solve`), the cases that skip it, `Validate`, `Inject`, `MayInject` with the limit
  past which it tries no combination and answers true (`MaxInjectCombinations`), and
  the error's argument, with its loops as recursive functions over the parameters.
  `SignatureRegex` backtracks as a regular expression would. `SignatureCalls` has
  the part of `Language` that reads signatures and gives their calls arguments,
  with the properties of both, apart from it so that it can be proved about.
* `ReferencedPaths` collects paths as the code does: scopes of variables, lambdas
  applied where they are called, tail calls, focus, index, parents, and gives up
  where the code does. `FieldReads` evaluates the same expression on an
  input and on the input pruned to the reported paths.
* `Numerals` writes and reads integers in words, Roman numerals, letters and
  grouped digits; `$parseInteger` is the reference for `$formatInteger` and the
  other way round. The writers are recursive functions, the readers a loop over
  the text (`ReadAll`) with a step each (`Word`, `RomanLetter`, `Letter`,
  `Digit`). `IntegerPictures` has the part of `Language` that reads pictures and
  formats integers, apart from it so that it can be proved about: `Language`
  takes its actions as they are.
* `Transform` copies the input, matches, and for each target merges an update,
  detached when it reaches the clone, over a heap in which objects are
  shared or contain themselves. A clause that fails ends the transform: an update
  (T2011, or an error of its own) before the merge, a delete clause (T2012) after
  it. What an update can hold is assumed and not derived from an expression:
  whatever its target and the document reach, and the clone too when a clause can have
  bound a variable (`Reachable`, from what `NoBinds` stands for).

## 3. Runs

| Run | Checks | Instance |
|---|---|---|
| `plan_cache` | `TypeOK`, `SnapshotIsRing`, `EvictionsAccounted`, `FifoSpec`, `CallsReturn` | 2 goroutines, capacity 2, 3 keys, 4 calls |
| `stream` | `TypeOK`, `PlansFresh`, `QuietCallsAnswer`, `BoolOnlyWithoutDecode`, `ShadowedNeverFast`, `RemovedIsUndefined` | 2 callers, 1 editor, a table of 2 and 3 expressions of different kinds, both orders of two indices, a shadowed `$sum`, a cache of 1, 3 calls, 1 edit (any but an `Add`) |
| `stream_edits` | `TableSpec`, `AllReturn` | 2 editors with 2 edits of every kind on a table of 2, at any index and at one out of range, and 1 call |
| `call_stack` | `TypeOK`, `Balanced`, `GoStackBounded`, `LimitsReported` | every kind of function, all limits 1 |
| `call_stack_tails` | `LevelsBounded`, `Ends` | shallow and deep lambdas, a bind of a tail call, a transform, limits 2 |
| `fast_paths` | `FastAgrees`, `WalkFindsEveryValue` | every JSON tree of up to 7 values under 1 to 3 steps; every kind of scalar (zeros of both signs, numbers out of float64's range, radix prefixes) under every builtin, comparison and composition, with each option and custom functions; keys named twice |
| `scopes` | `ReadsNearest`, `ScopeSpec`, `RebaseKeepsBindings` | 6 environments, 2 bindings, 1 inline slot, 4 names, 2 values, one of them Go's nil |
| `deadlines` | `FewLatePolls`, `OwnCallsChecked`, `BlamesItsOwn`, `OneInstant`, `TimeoutEnds` | 2 evaluations with a timeout of 1 that can be cancelled, one lends a lambda and a composition; polls read the clock every 2nd time, ticks wrap at 4 |
| `language` | `SourceKept`, `PowersRespected`, `HeightCounted`; `CountsAsRegex`, `ShortcutsAgree`, `ArgumentsKept`; `ReadsSuffice`; `IntegersReadBack`; `CloneStaysWhole`, `MergedAsEvaluated`, `OnlyCloneChanges` | the 25 alphabets of `MCAlphabets`: sources of 6 to 8 symbols, signatures of 4 or 5 and 2 or 3 arguments, expressions of 5 to 7 symbols over two documents, pictures of up to 5 and integers about every boundary, transforms of 2 targets |

`FastAgrees` covers three hazards that differ in what an answer would be wrong
about: float64 under `WithDecimalPrecision`, the limit of `WithSequence`, and
functions that share a builtin's name.

**Why the bounds are enough.** A cache of two entries with three keys wraps its
ring, evicts and holds a free slot; four calls are enough for a full ring, an
eviction, and a clearing beside a reader that still holds the old snapshot. A
plan cache of one entry is where every insertion
collides with the entry in use; three calls are one that caches too late, one
that finds the plan, and one beside them. Two editors are the smallest number
that could lose an edit, and a table of two lets their edits be at the same
position or at two. Limits of 1 and 2 in the call stack reach every
refusal, and each kind of function occurs, as wrapper or wrapped, callback and
tail call. Trees of seven values hold three field steps with an array of
an array between them. One inline slot instead of the code's two puts the spill
at a scope's second name, with a mark to carry over; six environments are a
path's scope in a block in a lambda, with a tuple to rebase. Polls read the clock every
second time instead of every 128th and ticks wrap at 4 instead of 2^32: the
interval divides the width in both, which `PollAssumption` states and the
proofs need. The parser's limit of 4 is passed by eight symbols. The matcher's
table is limited to 12 cells and `MayInject` to 8 combinations, those of one argument
of any symbol, so that calls on either side of both limits occur;
`MaxPathNodes` and `MaxPathElements` of 4 make the analysis give up on some of the
expressions. Words have two scales, thousand and million, with every part about a
boundary between them.
The bounds `MaxCalls`, `MaxEdits`, `MaxClock`, `MaxEnvs` and `MaxBinds` only cut
behaviours short, and `Initials` and `Indices` choose the tables a run begins with and
the positions its edits name; the proofs below hold for every value of all of them.

Only `stream` uses symmetry, of its two callers, and checks no liveness.

**Deadlock.** TLC checks it in every run but those of `MCFastPaths`, whose
behaviours are one call that ends, and of `MCLanguage`, whose inputs stop growing. Where a model's bounds are exhausted, a
`Finished` or `Ended` step stutters only in states in which all calls have
returned.

**Fairness.** `FairSpec` of `BoundedCache` and `StreamEvaluator`: a goroutine that
is running is scheduled again (weak fairness of its steps), and
`sync.Mutex` does not starve a waiter (strong fairness of `Lock`; its starvation
mode hands the mutex over after a millisecond). No fairness makes anybody begin
a call, and none makes a context be cancelled. `CallStack` is one goroutine
that never blocks: weak fairness of `Next`. It gives no fairness to an
expression's code ending: `Ends` follows from the limits, which count what the
code does (`MaxCalls` bounds the calls one body makes, as a body is finite).
`Deadline`: time passes, and an evaluation that is running polls in its own
scopes again, because it polls at every node and what it calls ends
(`CallStack`'s `Ends`). It is not assumed to finish: `TimeoutEnds` says that its
deadline ends it.

### Where the code and its documentation disagree

Three runs check what a comment promises and end in a counterexample each.

* `replace_takes_effect`. A call that loaded the table before a `Replace`
  can cache its plan after the `Replace` has cleared the cache. The replaced
  expression's fast path then answers every later call of that schema, until
  another edit. `PlansFresh` and `QuietCallsAnswer` say exactly which calls are
  right all the same, and are proved.
* `tail_bind_replay`. A lambda whose body ends in `$x := $f()` stores the
  sentinel of the tail call in `$x`; a closure that reads `$x` runs it again.
* `walk_agrees`. `a.a.a` on `{"a":[{"a":[[{"a":[1]}]]}]}` is `[1]` by `EvalBytes` and
  `1` by `Eval`: the evaluator keeps a step's lone array that was an item of an
  array one context, the walk takes its items (`path_bytes.go:105`, against `:9-11`).

Modelling brought up more, which the properties of the other runs say as it is. In
`fast_paths` nothing is left out of the instance for it: `FastAgrees` has the
requests of `ReadOtherwise` as its exceptions, and the assumption `SetAsideDiffers`
of `MCFastPaths` shows that each kind of them does differ:

* `$number("0x1p4")` is 16 on the fast path and D3030 in the evaluator, which
  treats `0x` as an integer prefix (`func_fast.go:296`, against
  `functions/numeric_funcs.go:39-45`).
* A number beyond float64 (`1e999`) stays digits in the evaluator, which are then no
  number and not true, and is an infinity, which is both, to the tiers: for a path
  without a decimal precision, for the builtins that ask what a number is worth, and
  for compositions (against `bool_fast.go:51-52`, by which a number has the same truth
  as a float64 or a `json.Number`).
* `$distinct([0, -0])` keeps both zeros on the fast path.
* An object that names a key twice: the raw scan takes the first, the decoder the last.
* Paths of three steps or more over an array in an object of an array that is an array's
  only item (`walk_agrees`).

In the other runs:

* A function composed with `~>` keeps the environment it was composed in
  (`eval_chain.go:63-87`). Returned by one evaluation and called by another, it
  polls on the counter of the first: `WithTimeout` (`gnata.go:77`, "Exceeding it
  returns error D1012") does not interrupt the second within it, the deadline of the
  first may, with an error that is not D1012, and `$now` is the first's there
  (`env.go:36`, "every $now ... sees the same instant"). Both comments hold of an
  evaluation that called no other's composition, whatever lambdas it called.
  `BlamesItsOwn` and `OneInstant` say so, and that otherwise what shows through is
  only of evaluations that make compositions (`ReadFrom`).
* `EvalManyWithVars` answers `$sum(a)` by its fast path though the caller bound
  `sum` (`stream.go:528`, against `:245-246`). `ShadowedNeverFast` is about the
  evaluator's custom functions.

* The powers `internal/lexer/token.go` gives in its comments (80 for `@`, `#`,
  `;` and `:`, 40 for `~>`, `?:` and `??`) are not those of `bindingPower`, which
  the model follows.
* `$parseInteger` does not read back words at or above a thousand times the
  largest scale, nor a sign in words, letters or Roman numerals; nor does
  jsonata-js. A picture that separates its groups with hyphens is written but not
  read: the parser keeps every hyphen as a sign
  (`string_format_integer.go:639-640`). `IntegersReadBack` says where it reads,
  and is proved there.
* A checked call can lose an argument: with the signature `<a?aa>` and the arguments
  undefined and a string, the array parameter that matched undefined passes
  undefined whatever stands at its place, as jsonata-js does. `ArgumentsKept` says
  where an undefined value may come from instead of claiming that none is lost.
* `Set` of the cache "inserts or updates a key" (`bounded_cache.go:97`) but leaves
  the plan of a present key.

A late plan also makes an in-flight call answer with expressions added after a
`Reset` (`stream.go:220-221` says it uses the old snapshot); it is the same race
seen from the other side, and `QuietCallsAnswer` excludes it by `quiet`.

## 4. Proofs

All proofs are for every value of the constants under the modules' named
assumptions (`RequestedAssumption`, `NilAssumption`, `WrapsAssumption`, ...), which TLC
evaluates in the runs.

**BoundedCacheProofs.** `TypeCorrect`, `Exclusion`, `SnapshotCorrect`,
`Implements`, `EvictionsCounted`. `SnapshotIsRing` alone is not inductive: while a writer is
between its steps the ring and the snapshot differ. The invariant says, for each
place in `Set` and `Invalidate`, how: which slot is written, whether `head` has
moved, what the count is. `OverwritePushes` is the arithmetic at the heart of
it: overwriting the slot at `head` of a full ring and moving `head` on reads,
oldest first, as the old contents without their first entry and with the new one
last. From it each publication is a step of `FifoCache` and every other step a
stutter. `EvictionsCounted` has an invariant of its own (`EvictionInv`): `Set` counts an
eviction two steps before it publishes the entry that causes it, and `Invalidate`
empties the ring before the snapshot, so what the counters say is again a matter
of the place of the mutex's holder.

**StreamEvaluatorProofs.** `TypeCorrect`, `FreshPlans`, `QuietCorrect`,
`Implements`, `RemovedCorrect`, `ShadowedCorrect`, `BoolPlansWhole`. The invariant adds to the properties: an editor between load and
store has loaded the published table (`EditorInv`); a caller's plan has one
entry per index, and one that is about to be cached is built from the table the
caller loaded (`CallerInv`); while a call is quiet its table is the published
one, no edit is about to clear the cache, and its plan is that table's unless
it is tainted (`QuietInv`). The next two hold of stale plans too and rest on where
plans come from (`PlansUsable`: each was made by `buildPlan`, of whichever
table) and on how a walk answers (`AnswersSound`).

**CallStackProofs.** `TypeCorrect`, `CountersBalanced`, `StackBounded`,
`LevelsOnStackBounded`, `LimitsAreReported`. `GoStackBounded` is about the length of
the stack, which no single frame knows: the invariant gives each frame a
`Floor`, what the limits had been charged when it was entered, weighed by how
many frames a unit pays for, and a `Rank`, how many frames in a row before it
cost nothing (at most three: a builtin, an argument wrapper, a wrapper of a
lambda). A frame's height is at most the sum. `Paid` does the same for
expression levels.

**InductionLemmas.** The library states induction and recursion for an operator
given as a parameter, which the provers cannot instantiate. Here they are facts about
a set (of the naturals, or of the elements of a rank, for which something holds)
and about a function (a definition that goes to smaller ranks has a solution),
derived from the fact that the order of the naturals is well founded. `RankRecursion` is
for one call on a smaller rank, `DecidedRecursion` for any number of them. With them a
proof can unfold the recursive functions of a module and the library's folds,
and reason by induction on what they compute.

**EnvironmentProofs.** `BindRebinds`, `MarkMarksOne`, `BindEachBinds`. An
environment is `WellFormed` when no name has two slots, each mark is on a binding it
has, and it uses its slots or its map and never both. `Bind` is taken through
its four ways (in the map, in a slot, in a free slot, by spilling): each ends in
one map with that name rebound to its value and unmarked. `BindEachBinds` says the same of a range over
a scope, in whichever order it goes: the fold is unfolded one set of names at a
time, and the set grows by induction on its size.

Of the environments together: `EnvironmentsWellFormed`, `EnvironmentsImplementScopes`,
`ReadsAlwaysNearest`, `RebaseAlwaysKeepsBindings`. The inductive invariant `Inv` adds to
well-formedness that the scopes are a tree in which a block has a parent (`Tree`:
without it a walk need not end, nor a rebase have a place to go) and that each
binds finitely many names (`FewBound`: without it a range over one need not end). Every
step then implements the step of `Scopes` it was asked for (`EachAsAsked`). `Lookup`, `boundPlainArray` and
`Nearest` are each shown to be the walk their definition says (`ClimbEnds`), and to agree
by induction from the root down. A rebase is followed along the tuple's chain in
the same way: what `Rebased` has bound at a scope is what a walk from there to the
block would find (`RebasedReadsAsBelow`). The property names the block by where the
tuple was moved to; `OneBlock` shows that it can only be the one it was moved
from, as a chain has one block below which it is all tuples. The caller's variables and the builtins are assumed
finite (`FiniteAssumption`): they are Go maps.

**DeadlineProofs.** `LatePollsBounded`, `CallsAreChecked`, `OwnLimitsBlamed`,
`InstantIsOne`, `TypeCorrect`, for any number of evaluations that lend each other
lambdas and compositions. `FewLatePolls` is not inductive: how many polls may
still get through depends on where the ticks stand. `Place` is the number of
ticks since one that read the clock; past the deadline a tick that does not hit moves
it on by one, so it bounds the late polls (`CounterInv`). Lent scopes tick without being
counted as late, which only helps. `TickPlace` is the arithmetic:
because the interval divides the width of the counter, the wrap falls between
two intervals. The other three rest on whose counter, deadline and Done channel a
scope has: whichever lambda an evaluation runs, its own, and another's only in
a composition which that evaluation made (`Borrows`, `composed`).

**NumeralsProofs.** `IntegersAlwaysReadBack`, and for each notation
`WordsReadBack`, `DigitsReadBack`, `RomanReadBack`, `LettersReadBack`, for any
integer, any picture, any scales each a thousand times the next, and an alphabet
of any size. The writers go from the end of the text (digits, letters) or
from its largest part (words, Roman), the readers always from the left, so
neither follows the other. What makes them meet:

* A reader's loop over a text put together of two is the loop over the second
  from where the first left it (`ReadAllConcat`), whatever its step.
* Each writer is unfolded by `DecidedRecursion`. `ToWords` needs the general
  form: it calls itself twice, on the count of a scale and on what is left.
* Digits: `GroupReads` follows the grouped text a digit at a time; the separators
  before a digit, the picture's own or the repeated one, are of no family and are
  skipped. Padding reads as zero (`PaddingReadBack`), and the family written is the
  one the parser takes because pictures that mix families are refused.
* Roman numerals: of the thirteen steps of `toRoman`, those with two letters are the
  only places where a letter precedes a larger one. `RomanFollows` says what may come
  after each, so the parser's look at the next letter never takes away a
  letter that another step wrote (`RomanReadOn`).
* Words: below a thousand the words read as they stand (`BelowThousandTold`); the
  count before a scale is below a thousand (`ScaleFits`), so it holds no scale
  and is still `current` when its scale is read. That is false from a thousand of the
  largest scale on, which is where the property stops. Every
  word that can end a text has an ordinal the parser knows (`WordsOrdinal`), so
  ordinals read back as the cardinals do.

The inductive invariant, `PictureInv`, says of a task that its picture is over
its alphabet and its result is that of formatting its one number with it. The
theorem is about `PictureSpec`, whose two steps are the very actions `Language`
takes for pictures. Integers in it are unbounded; the code's are an `int64`'s
(words beyond it go another way, `formatBigFloatWords`, which is not modelled),
except that the smallest `int64` has no absolute value and is outside the model.

**SignatureProofs.** `MatcherIsRegex`, `ShortcutsAgreeAlways`, `ArgumentsKeptAlways`,
from `MatchIsBacktrack`, `MismatchBlamesLongest` and `SignaturesAreRead`: for any
signature over any letters, any arguments and any limit of the table. `SignatureRegex`
says what a signature means, by backtracking over the counts a parameter may take; the
code never backtracks. The argument has four parts.

* *The table is the regular expression.* `solve` fills its table by single
  arguments, a variadic parameter looking at its own row; `Table` says the same by
  counts, as backtracking does. The walk through a table that matches
  (`Walk`) takes at each parameter the first count that backtracking would keep,
  so both make the same walk. `matchFixed` indexes its table by how many parameters it
  skipped; `SkipsTo` maps its cells to those of the other table, and its walk to the
  same walk.
* *The error.* The parameters of a prefix that matches can be cut shorter and still
  match, so what the binary search of `mismatchError` halves is one block of
  prefixes that match before one of those that do not (`Clamped`, `Halved`), and it
  ends at the longest. The property holds where the search looks at every prefix
  (`PrefixBound`).
* *The shortcuts.* When arguments fit one by one, the match takes each parameter's own
  (`PlainMatch`), so validating passes them as they are and nothing is missing.
  `MayInject` sees the symbols of the arguments alone, but what is missing depends on
  nothing else, and a context that is put in makes the call longer or
  fails: it is never the same call by accident (`MayInjectForesees`). Of arguments
  whose symbols are known it tries one combination, which no limit cuts off
  (`OneCombination`); of others, the one they turn out to have is among those it
  tries, or it tries none and answers true.
* *The loops.* `validateMatched` takes symbols at one index and arguments at another
  that runs ahead. The invariant of its loop (`Shows`) is that without the places of
  the focus the values passed stand for the arguments at their own places, that at least
  as many were passed as symbols matched, and that they fit in the room the
  parameters so far have (`Room`), which at the end is `outputSize`. That a value
  may be undefined instead is part of it, and needs the index of the argument
  never to fall behind that of the symbol.

`SignatureInv` is inductive: a signature read so far is one that `ParseSig` accepts
with parameters of known types, or none, and arguments are values. The theorems are
about `SignatureSpec`, whose two steps are the very actions `Language` takes for
signatures.

**Only model-checked.** The liveness properties (`CallsReturn`, `AllReturn`,
`Ends`, `TimeoutEnds`), which need fairness; and, but for pictures and
signatures, all of `FastPaths` and `Language`. Their values are recursive data and
their operators RECURSIVE, which no theorem can reach; the recursive functions that
the proofs above unfold go along numbers, or along a table's parameters.

## 5. Not modelled

Logging, metrics hooks, error texts and formatting. Go's memory model below its
atomics and mutexes: the shared state of `BoundedCache` and `StreamEvaluator` is
accessed through them only, so an access is one step. Reuse of pooled objects.
Which calls an expression makes, beyond that it may make any. The results of
floating-point arithmetic. How numbers, strings and names are spelled in a source
(the lexer's scanning of one token). Per component the reasons are in
`PROJECT.json`: `Process` and ancestor slots, date and time, decimal
arithmetic, most builtins and the vendored library are sequential computations
without shared state, with comparison suites against the reference
implementation; the WebAssembly bridge and the npm loader are thin and outside
the Go core.

## 6. What is left

1. `PathSteps`: predicates, sorts, groups, wildcards and tuple streams in the
   evaluator itself; `FieldReads` has them only as a reference.
2. `Process`: parent slots and body depths, which `CallStack` takes as given.
3. The shared caches and loaders: parsed pictures, regular expressions, views of
   frozen objects, WebAssembly handles, the npm loader's promise.
4. Lent functions that themselves call back, in `Deadline`.
