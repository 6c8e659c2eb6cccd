------------------------------- MODULE Deadline -------------------------------
(***************************************************************************)
(* Why an evaluation must stop: its context, its deadline and the counter  *)
(* that all of its scopes share, of evaluations that run side by side.     *)
(*                                                                         *)
(* A function that one evaluation returned can be called by another, as a  *)
(* variable or from a custom function: a scope below the lender's then     *)
(* polls for the caller.  Of a scope only what env.go's polls read is      *)
(* kept: the counter, the Done channel and whether it has a deadline.      *)
(***************************************************************************)
EXTENDS Integers

CONSTANTS
    Evals,                \* the evaluations
    Never,                \* no deadline, no instant, no Done channel
    Timeouts,             \* evaluation -> its timeout, or Never
    Cancellable,          \* the evaluations whose context has a Done channel
    Lenders,              \* the evaluations that return a lambda
    Composers,            \* the evaluations that return a composition of functions
    PollEvery,            \* deadlinePollMask + 1
    TickWrap,             \* 2^32: where the ticks of a deadline wrap
    MaxClock              \* a bound on the behaviours

ASSUME EvalAssumption ==
    /\ Never \notin Nat /\ Never \notin Evals
    /\ Timeouts \in [Evals -> Nat \cup {Never}]
    /\ Cancellable \subseteq Evals /\ Lenders \subseteq Evals /\ Composers \subseteq Evals
ASSUME PollAssumption ==
    /\ PollEvery \in Nat \ {0, 1} /\ TickWrap \in Nat \ {0} /\ TickWrap % PollEvery = 0
ASSUME BoundAssumption == MaxClock \in Nat

VARIABLES
    counters,   \* evaluation -> callCounter: its deadline and its instant
    clock,      \* time.Now
    cancelled,  \* the contexts that are done
    evals,      \* evaluation -> "idle", "running" or its outcome
    \* history
    late,       \* evaluation -> its polls let through after its deadline in its own
                \* scopes, counted up to PollEvery
    slipped,    \* the calls let through after the deadline, from own scopes or lent ones
    instants,   \* evaluation -> what $now returned
    composed    \* the evaluations that polled in a scope with another's counter

vars == <<counters, clock, cancelled, evals, late, slipped, instants, composed>>

Outcomes == {"ok", "error", "cancelled", "deadline", "D1012"}

NoDeadline == [at |-> Never, ticks |-> 0, hit |-> FALSE, now |-> Never]

-----------------------------------------------------------------------------
(* Scopes.                                                                 *)

\* evalCore's scope and every scope below it
Own(g) ==
    [calls |-> g,
     done |-> IF g \in Cancellable THEN g ELSE Never,
     hasDeadline |-> Timeouts[g] # Never]

\* evalLambdaBody: below the lambda's scope, with the caller's counter
Body(g, h) == [Own(h) EXCEPT !.calls = g]

\* a composition calls its functions with the scope it was made in
Composition(h) == Own(h)

Ended(h) == evals[h] = "ok"

ScopesOf(g) ==
    {Own(g)} \cup {Body(g, h) : h \in {h \in Lenders : Ended(h)}}
             \cup {Composition(h) : h \in {h \in Composers : Ended(h)}}

-----------------------------------------------------------------------------
(* Polls.                                                                  *)

CtxErr(scope) == scope.done \in cancelled /\ scope.calls \in cancelled

Passed(d) == d.at # Never /\ clock >= d.at

\* A bug: the clock is read when the ticks come back to zero
ReadsAtZero(d, force) == force \/ ((d.ticks + 1) % TickWrap) = 0

\* deadlineErr after the sticky test: is the clock read
ReadsClock(d, force) == force \/ ((d.ticks + 1) % TickWrap) % PollEvery = 1

\* A bug: only calls look at the clock
TickForced(d, force) == [d EXCEPT !.ticks = (@ + 1) % TickWrap, !.hit = force /\ Passed(d)]

\* deadlineErr after the sticky test: the tick it counts and the hit it finds
Tick(d, force) ==
    [d EXCEPT !.ticks = (@ + 1) % TickWrap, !.hit = ReadsClock(d, force) /\ Passed(d)]

\* Err, and errNow when force: the error, if any, and the counter after it
Err(scope, force) ==
    LET d == counters[scope.calls]
        polled == IF d.at = Never \/ d.hit THEN d ELSE Tick(d, force)
    IN  IF scope.done = Never /\ ~scope.hasDeadline THEN [error |-> "none", counter |-> d]
        ELSE IF CtxErr(scope) THEN [error |-> "cancelled", counter |-> d]
        ELSE [error |-> IF polled.hit THEN "deadline" ELSE "none", counter |-> polled]

Borrows(g, scope) == composed' = IF scope.calls = g THEN composed ELSE composed \cup {g}

Polled(g, scope, force) ==
    LET polled == Err(scope, force)
    IN  /\ Borrows(g, scope)
        /\ counters' = [counters EXCEPT ![scope.calls] = polled.counter]
        /\ late' = [late EXCEPT ![g] =
                IF scope = Own(g) /\ polled.error = "none" /\ Passed(counters[g]) /\ @ < PollEvery
                THEN @ + 1 ELSE @]

\* A bug: the poll's error comes out as it is
FailsRaw(g, error) == evals' = [evals EXCEPT ![g] = error]

\* evalCore: an error comes out, as a timeout if one was seen
Fails(g, error) ==
    evals' = [evals EXCEPT ![g] = IF counters'[g].hit THEN "D1012" ELSE error]

-----------------------------------------------------------------------------
(* The actions.                                                            *)

Init ==
    /\ counters = [g \in Evals |-> NoDeadline]
    /\ clock = 0
    /\ cancelled = {}
    /\ evals = [g \in Evals |-> "idle"]
    /\ late = [g \in Evals |-> 0]
    /\ slipped = {}
    /\ instants = [g \in Evals |-> {}]
    /\ composed = {}

\* evalCore up to Eval: ResetCallCounter, SetContext, SetDeadline.  The
\* behaviours are those whose deadlines the bounded clock reaches.
Start(g) ==
    /\ evals[g] = "idle"
    /\ Timeouts[g] # Never => clock + Timeouts[g] <= MaxClock
    /\ evals' = [evals EXCEPT ![g] = "running"]
    /\ counters' = [counters EXCEPT ![g].at =
            IF Timeouts[g] = Never THEN Never ELSE clock + Timeouts[g]]
    /\ UNCHANGED <<clock, cancelled, late, slipped, instants, composed>>

\* A bug: each call reads the clock
ReadInstantAnew(g, scope) ==
    /\ Borrows(g, scope)
    /\ counters' = [counters EXCEPT ![scope.calls].now = clock]
    /\ instants' = [instants EXCEPT ![g] = @ \cup {clock}]
    /\ UNCHANGED <<clock, cancelled, evals, late, slipped>>

\* Environment.Now
ReadInstant(g, scope) ==
    LET now == IF counters[scope.calls].now = Never THEN clock ELSE counters[scope.calls].now
    IN  /\ Borrows(g, scope)
        /\ counters' = [counters EXCEPT ![scope.calls].now = now]
        /\ instants' = [instants EXCEPT ![g] = @ \cup {now}]
        /\ UNCHANGED <<clock, cancelled, evals, late, slipped>>

\* a node, an item or a frame: the evaluation goes on, or ends in the error
Poll(g, scope) ==
    LET error == Err(scope, FALSE).error
    IN  /\ Polled(g, scope, FALSE)
        /\ IF error = "none" THEN UNCHANGED evals ELSE Fails(g, error)
        /\ UNCHANGED <<clock, cancelled, slipped, instants>>

\* bindingNames stops its walk and leaves the error to the next poll
PollQuietly(g, scope) ==
    /\ Polled(g, scope, FALSE)
    /\ UNCHANGED <<clock, cancelled, evals, slipped, instants>>

\* A bug: a call polls as a node does
CallUnforced(g, scope) ==
    LET error == Err(scope, FALSE).error
    IN  /\ Polled(g, scope, FALSE)
        /\ IF error = "none" THEN UNCHANGED evals ELSE Fails(g, error)
        /\ slipped' = IF error = "none" /\ (Passed(counters[g]) \/ g \in cancelled)
                      THEN slipped \cup {IF scope = Own(g) THEN "own" ELSE "lent"} ELSE slipped
        /\ UNCHANGED <<clock, cancelled, instants>>

\* invokeFunction: errNow before each call and each turn of the trampoline
Call(g, scope) ==
    LET error == Err(scope, TRUE).error
    IN  /\ Polled(g, scope, TRUE)
        /\ IF error = "none" THEN UNCHANGED evals ELSE Fails(g, error)
        /\ slipped' = IF error = "none" /\ (Passed(counters[g]) \/ g \in cancelled)
                      THEN slipped \cup {IF scope = Own(g) THEN "own" ELSE "lent"} ELSE slipped
        /\ UNCHANGED <<clock, cancelled, instants>>

\* evalCore after Eval: the expression's value, or an error of its own
Finish(g) ==
    /\ UNCHANGED counters
    /\ \/ evals' = [evals EXCEPT ![g] = "ok"]
       \/ Fails(g, "error")
    /\ UNCHANGED <<clock, cancelled, late, slipped, instants, composed>>

TimePasses ==
    /\ clock < MaxClock
    /\ clock' = clock + 1
    /\ UNCHANGED <<counters, cancelled, evals, late, slipped, instants, composed>>

\* the caller cancels the context it gave an evaluation
Cancel(g) ==
    /\ g \in Cancellable \ cancelled
    /\ cancelled' = cancelled \cup {g}
    /\ UNCHANGED <<counters, clock, evals, late, slipped, instants, composed>>

Running(g) ==
    /\ evals[g] = "running"
    /\ \/ Finish(g)
       \/ \E scope \in ScopesOf(g) :
            Poll(g, scope) \/ PollQuietly(g, scope) \/ Call(g, scope) \/ ReadInstant(g, scope)

\* no evaluation runs, and the time and the contexts have ended
Done ==
    /\ clock = MaxClock /\ cancelled = Cancellable
    /\ \A g \in Evals : evals[g] # "running"
    /\ UNCHANGED vars

Next == TimePasses \/ Done \/ \E g \in Evals : Start(g) \/ Running(g) \/ Cancel(g)

Spec == Init /\ [][Next]_vars

\* An evaluation that goes on evaluates nodes and polls at each; the bodies of
\* the functions it calls end (CallStack), so that it polls in its own scopes
\* again; and time passes.
FairSpec ==
    /\ Spec
    /\ WF_vars(TimePasses)
    /\ \A g \in Evals : WF_vars(evals[g] = "running" /\ Poll(g, Own(g)))

-----------------------------------------------------------------------------
(* Properties.                                                             *)

TypeOK ==
    /\ counters \in [Evals -> [at : Nat \cup {Never}, ticks : 0 .. TickWrap - 1,
                               hit : BOOLEAN, now : Nat \cup {Never}]]
    /\ clock \in 0 .. MaxClock
    /\ cancelled \subseteq Cancellable
    /\ evals \in [Evals -> {"idle", "running"} \cup Outcomes]
    /\ late \in [Evals -> 0 .. PollEvery]
    /\ slipped \subseteq {"own", "lent"}
    /\ instants \in [Evals -> SUBSET Nat]
    /\ composed \subseteq Evals

\* deadlinePollMask: past the deadline an evaluation's own scopes let at most
\* PollEvery - 1 polls through in all, however polls that read the clock and
\* polls that do not are mixed, in own scopes and lent ones, across the wrap of
\* the tick counter, and though a walk may drop the error it was given.
FewLatePolls == \A g \in Evals : late[g] < PollEvery

\* WithTimeout: "the deadline is checked on every function call", and so is
\* cancellation, where the evaluation's own scopes make the call.
OwnCallsChecked == "own" \notin slipped

\* The evaluations whose limits and instant g's scopes have read: its own alone,
\* whatever lambdas it called, unless it called a composition another had made.
ReadFrom(g) == IF g \in composed THEN {g} \cup Composers ELSE {g}

\* D1012 is always for the evaluation's own deadline.  An evaluation that called
\* no composition of another fails as cancelled only if its own context is, and
\* its timeout is always D1012, never for the limits of an evaluation whose lambda
\* it called; through a composition it can be blamed, and with an error that is
\* not D1012, for the limits of the one that made it.
BlamesItsOwn ==
    \A g \in Evals :
        /\ evals[g] = "cancelled" => ReadFrom(g) \cap cancelled # {}
        /\ evals[g] = "D1012" => Passed(counters[g])
        /\ evals[g] = "deadline" => \E h \in ReadFrom(g) \ {g} : Passed(counters[h])

\* "every $now, $millis and $toMillis call in one evaluation sees the same
\* instant", while time passes and from lambdas of another's too: its counter's,
\* beside which a composition shows that of the evaluation that made it.
OneInstant == \A g \in Evals : instants[g] \subseteq {counters[h].now : h \in ReadFrom(g)}

\* An evaluation with a deadline ends.
TimeoutEnds ==
    \A g \in Evals :
        (evals[g] = "running" /\ Timeouts[g] # Never) ~> (evals[g] # "running")
=============================================================================
