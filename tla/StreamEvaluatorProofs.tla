------------------------ MODULE StreamEvaluatorProofs ------------------------
(***************************************************************************)
(* Proofs about StreamEvaluator for any number of callers and editors, any *)
(* expressions and any lists of indices: no edit is lost, and a call that  *)
(* no edit overlaps answers with the expressions of the table unless it    *)
(* finds a plan that was cached too late, which even so never answers for  *)
(* a removed expression or in place of a custom function.                  *)
(***************************************************************************)
EXTENDS StreamEvaluator, TLAPS

Entries == Exprs \cup {Nil}

\* A cache entry's key is a pair.
LEMMA KeyParts ==
    ASSUME NEW k \in Keys
    PROVE  k[2] \in IndexLists /\ k = <<k[1], k[2]>>
  BY DEF Keys

\* What a lookup finds is the plan of an entry with that key.
LEMMA FoundEntry ==
    ASSUME NEW q \in Seq(Cache!Entry), NEW k, NEW p \in Cache!Found(q, k)
    PROVE  /\ \E i \in DOMAIN q : q[i].key = k /\ q[i].plan = p
           /\ p \in Seq(Exprs \cup {Nil})
  <1>1. PICK i \in DOMAIN q : q[i].key = k /\ q[i].plan = p
    BY DEF Cache!Found
  <1>2. q[i] \in Cache!Entry
    OBVIOUS
  <1>3. q[i].plan \in Seq(Exprs \cup {Nil})
    BY <1>2 DEF Cache!Entry
  <1> QED
    BY <1>1, <1>3

\* Every entry of a pushed queue was there or is the new one.
LEMMA PushedEntries ==
    ASSUME NEW S, NEW q \in Seq(S), Len(q) <= CacheSize, NEW e \in S
    PROVE  /\ Cache!Pushed(q, e) \in Seq(S)
           /\ Len(Cache!Pushed(q, e)) <= CacheSize
           /\ \A i \in DOMAIN Cache!Pushed(q, e) :
                 \/ Cache!Pushed(q, e)[i] = e
                 \/ \E j \in DOMAIN q : Cache!Pushed(q, e)[i] = q[j]
  <1> DEFINE r == IF Len(q) = CacheSize THEN Tail(q) ELSE q
  <1>1. CacheSize \in Nat \ {0} /\ Len(q) \in Nat
    BY SizeAssumption
  <1>2. CASE Len(q) = CacheSize
    <2>1. r \in Seq(S) /\ Len(r) = Len(q) - 1
      BY <1>1, <1>2
    <2>2. \A i \in 1 .. Len(r) : r[i] = q[i + 1] /\ i + 1 \in DOMAIN q
      BY <1>1, <1>2, <2>1
    <2>3. Cache!Pushed(q, e) = Append(r, e)
      BY DEF Cache!Pushed
    <2> HIDE DEF r
    <2>4. /\ Append(r, e) \in Seq(S)
          /\ Len(Append(r, e)) = Len(q)
          /\ DOMAIN Append(r, e) = 1 .. Len(q)
      BY <1>1, <2>1
    <2>5. \A i \in 1 .. Len(q) : Append(r, e)[i] = IF i = Len(q) THEN e ELSE r[i]
      BY <1>1, <2>1
    <2>6. \A i \in 1 .. Len(q) : i = Len(q) \/ i \in 1 .. Len(r)
      BY <1>1, <2>1
    <2> QED
      BY <1>2, <2>2, <2>3, <2>4, <2>5, <2>6
  <1>3. CASE Len(q) # CacheSize
    <2>1. Cache!Pushed(q, e) = Append(q, e)
      BY <1>3 DEF Cache!Pushed
    <2> QED
      BY <1>1, <1>3, <2>1
  <1> QED
    BY <1>2, <1>3

\* An operation in range makes a table of a table.
LEMMA EditedTable ==
    ASSUME NEW t \in Seq(Entries), NEW e \in Edits \cup {NoEdit},
           e.op \in {"Replace", "Remove"} => InRange(t, e.index)
    PROVE  Edited(t, e) \in Seq(Entries)
  <1>1. CASE e.op = "Add"
    <2>1. e.expr \in Exprs
      BY <1>1 DEF Edits, NoEdit
    <2>2. Edited(t, e) = Append(t, e.expr)
      BY <1>1 DEF Edited
    <2> QED
      BY <2>1, <2>2 DEF Entries
  <1>2. CASE e.op = "Replace"
    <2>1. e.expr \in Exprs /\ e.index + 1 \in DOMAIN t
      BY <1>2 DEF Edits, NoEdit, InRange
    <2>2. Edited(t, e) = [t EXCEPT ![e.index + 1] = e.expr]
      BY <1>2 DEF Edited
    <2>3. [t EXCEPT ![e.index + 1] = e.expr] \in Seq(Entries)
      BY <2>1 DEF Entries
    <2> QED
      BY <2>1, <2>2, <2>3 DEF Entries
  <1>3. CASE e.op = "Remove"
    <2>1. e.index + 1 \in DOMAIN t
      BY <1>3 DEF InRange
    <2>2. Edited(t, e) = [t EXCEPT ![e.index + 1] = Nil]
      BY <1>3 DEF Edited
    <2>3. [t EXCEPT ![e.index + 1] = Nil] \in Seq(Entries)
      BY <2>1 DEF Entries
    <2> QED
      BY <2>1, <2>2, <2>3 DEF Entries
  <1>4. CASE e.op = "Reset"
    BY <1>4 DEF Edited
  <1>5. e.op \in {"Add", "Replace", "Remove", "Reset"}
    BY DEF Edits, NoEdit
  <1> QED
    BY <1>1, <1>2, <1>3, <1>4, <1>5

\* A plan has one entry per index: the index's expression or none.
LEMMA PlanType ==
    ASSUME NEW t \in Seq(Entries), NEW ids \in Seq(Int)
    PROVE  /\ BuildPlan(t, ids) \in Seq(Entries)
           /\ DOMAIN BuildPlan(t, ids) = DOMAIN ids
           /\ \A i \in DOMAIN ids : BuildPlan(t, ids)[i] \in {At(t, ids[i]), Nil}
  <1>1. \A i \in DOMAIN ids : At(t, ids[i]) \in Entries
    <2>1. ASSUME NEW i \in DOMAIN ids
          PROVE  At(t, ids[i]) \in Entries
      <3>1. CASE ids[i] + 1 \in DOMAIN t
        BY <3>1 DEF At
      <3>2. CASE ids[i] + 1 \notin DOMAIN t
        BY <3>2 DEF At, Entries
      <3> QED
        BY <3>1, <3>2
    <2> QED
      BY <2>1
  <1>2. /\ DOMAIN BuildPlan(t, ids) = DOMAIN ids
        /\ \A i \in DOMAIN ids : BuildPlan(t, ids)[i] \in {At(t, ids[i]), Nil}
    BY DEF BuildPlan
  <1>3. BuildPlan(t, ids) = [i \in 1 .. Len(ids) |-> BuildPlan(t, ids)[i]]
    BY DEF BuildPlan
  <1>4. \A i \in 1 .. Len(ids) : BuildPlan(t, ids)[i] \in Entries
    BY <1>1, <1>2 DEF Entries
  <1>5. BuildPlan(t, ids) \in [1 .. Len(ids) -> Entries]
    <2> DEFINE p == BuildPlan(t, ids)
    <2>1. p = [i \in 1 .. Len(ids) |-> p[i]] /\ \A i \in 1 .. Len(ids) : p[i] \in Entries
      BY <1>3, <1>4
    <2> HIDE DEF p
    <2>2. p \in [1 .. Len(ids) -> Entries]
      BY <2>1
    <2> QED
      BY <2>2 DEF p
  <1>6. \A n \in Nat : \A f : f \in [1 .. n -> Entries] => f \in Seq(Entries)
    OBVIOUS
  <1> QED
    BY <1>2, <1>5, <1>6

-----------------------------------------------------------------------------

\* An editor holds the mutex from Lock to Unlock, and until it publishes its
\* copy the table is the one it loaded.
EditorInv ==
    \A w \in Editors :
        /\ pc[w] \in {"idle", "wait", "locked", "stored", "unlock"}
        /\ pc[w] \in {"locked", "stored", "unlock"} <=> mu = w
        /\ pc[w] = "locked" => old[w] = exprs

\* A caller answers only while it walks, and its plan has one entry per index.
CallerInv ==
    \A g \in Callers :
        /\ pc[g] \in {"idle", "lookup", "set", "walk"}
        /\ pc[g] # "idle" => args[g] \in Args
        /\ pc[g] # "walk" => answers[g] = << >>
        /\ Len(answers[g]) <= Len(args[g].ids)
        /\ pc[g] \in {"set", "walk"} => DOMAIN plan[g] = DOMAIN args[g].ids
        /\ pc[g] = "set" => /\ plan[g] = BuildPlan(local[g], args[g].ids)
                            /\ args[g].schema \in Schemas

PlansFit == \A i \in DOMAIN cache : DOMAIN cache[i].plan = DOMAIN cache[i].key[2]

\* While no edit has touched the table since a call loaded it, the call's
\* table is the published one, no edit is about to clear the cache, and the
\* plan the call found or built is that table's.
QuietInv ==
    \A g \in Callers : pc[g] # "idle" /\ quiet[g] =>
        /\ local[g] = exprs
        /\ \A w \in Editors : pc[w] # "stored"
        /\ pc[g] = "walk" /\ ~tainted[g] => plan[g] = BuildPlan(local[g], args[g].ids)

Inv ==
    /\ TypeOK /\ EditorInv /\ CallerInv /\ PlansFit
    /\ PlansFresh /\ QuietInv /\ QuietCallsAnswer

\* What a step of Next is.
LEMMA Steps ==
    ASSUME [Next]_vars
    PROVE  \/ UNCHANGED vars
           \/ \E w \in Editors : EditCall(w) \/ EditLock(w) \/ Editing(w)
           \/ \E g \in Callers : CallLoad(g) \/ Evaluating(g) \/ Cancelled(g)
  BY DEF Next, Finished

\* The ways a position of the walk is answered.
Answered(g, a) ==
    /\ AtPosition(g)
    /\ AnswersWith(g, a)
    /\ a \in Answers
    /\ \/ a.expr = Own(g, Here(g))
       \/ plan[g][Here(g)] # Nil /\ a.expr = plan[g][Here(g)]
    /\ decoded' \in {decoded, [decoded EXCEPT ![g] = TRUE]}

LEMMA EvaluatingSteps ==
    ASSUME TypeOK, CallerInv, NEW g \in Callers, Evaluating(g) \/ Cancelled(g)
    PROVE  \/ CallHit(g) \/ CallMiss(g) \/ CallSet(g) \/ Returns(g)
           \/ \E a \in Answers : Answered(g, a)
  <1>1. CASE CallHit(g) \/ CallMiss(g) \/ CallSet(g)
    BY <1>1
  <1>2. CASE \/ Cancelled(g) \/ FastError(g) \/ FastPanic(g)
             \/ DecodeError(g) \/ FullError(g) \/ CallReturn(g)
    BY <1>2 DEF Cancelled, FastError, FastPanic, DecodeError, FullError, CallReturn
  <1>3. ASSUME AtPosition(g)
        PROVE  /\ Here(g) \in DOMAIN args[g].ids
               /\ Here(g) \in DOMAIN plan[g]
               /\ plan[g][Here(g)] \in Exprs \cup {Nil}
               /\ At(local[g], IndexHere(g)) = Own(g, Here(g))
    <2>1. args[g].ids \in Seq(Int) /\ Len(answers[g]) \in Nat
      BY <1>3, ListAssumption DEF TypeOK, CallerInv, AtPosition, Args
    <2>2. Here(g) \in DOMAIN args[g].ids
      BY <1>3, <2>1 DEF AtPosition, Here
    <2>3. Here(g) \in DOMAIN plan[g] /\ plan[g] \in Seq(Exprs \cup {Nil})
      BY <1>3, <2>2 DEF TypeOK, CallerInv, AtPosition
    <2>4. At(local[g], IndexHere(g)) = Own(g, Here(g))
      BY DEF IndexHere, Own
    <2> QED
      BY <2>2, <2>3, <2>4
  <1>4. CASE Skip(g)
    <2> DEFINE a == [expr |-> Nil, fast |-> FALSE]
    <2>1. a \in Answers /\ Answered(g, a)
      BY <1>3, <1>4 DEF Skip, Answered, Answers
    <2> QED
      BY <2>1
  <1>5. CASE FastAnswer(g)
    <2> DEFINE a == [expr |-> plan[g][Here(g)], fast |-> TRUE]
    <2>1. AtPosition(g)
      BY <1>5 DEF FastAnswer, FastHere
    <2>2. a \in Answers /\ Answered(g, a)
      BY <1>3, <1>5, <2>1 DEF FastAnswer, FastHere, Answered, Answers
    <2> QED
      BY <2>2
  <1>6. CASE FullAnswer(g)
    <2> DEFINE a == [expr |-> At(local[g], IndexHere(g)), fast |-> FALSE]
    <2>1. AtPosition(g) /\ local[g] \in Seq(Exprs \cup {Nil})
      BY <1>6 DEF FullAnswer, TypeOK
    <2>2. At(local[g], IndexHere(g)) \in Exprs \cup {Nil}
      <3>1. CASE IndexHere(g) + 1 \in DOMAIN local[g]
        BY <2>1, <3>1 DEF At
      <3>2. CASE IndexHere(g) + 1 \notin DOMAIN local[g]
        BY <3>2 DEF At
      <3> QED
        BY <3>1, <3>2
    <2>3. a \in Answers /\ Answered(g, a)
      BY <1>3, <1>6, <2>1, <2>2 DEF FullAnswer, Answered, Answers
    <2> QED
      BY <2>3
  <1> QED
    BY <1>1, <1>2, <1>4, <1>5, <1>6 DEF Evaluating

\* The initial state.
LEMMA InitInv == Init => Inv
  <1> SUFFICES ASSUME Init PROVE Inv
    OBVIOUS
  <1> USE DEF Init
  <1>1. TypeOK
    <2>1. exprs \in Seq(Exprs \cup {Nil})
      <3>1. exprs \in Seq(Exprs)
        BY InitialAssumption
      <3> QED
        BY <3>1
    <2>2. /\ calls \in 0 .. MaxCalls /\ edits \in 0 .. MaxEdits
          /\ cache \in Seq(Cache!Entry) /\ Len(cache) <= CacheSize
      BY BoundAssumption, SizeAssumption
    <2>3. /\ local \in [Callers -> Seq(Exprs \cup {Nil})]
          /\ plan \in [Callers -> Seq(Exprs \cup {Nil})]
          /\ answers \in [Callers -> Seq(Answers)]
          /\ old \in [Editors -> Seq(Exprs \cup {Nil})]
      OBVIOUS
    <2> QED
      BY <2>1, <2>2, <2>3 DEF TypeOK
  <1>2. EditorInv
    BY NilAssumption DEF EditorInv
  <1>3. CallerInv
    <2>1. ASSUME NEW g \in Callers
          PROVE  pc[g] = "idle" /\ answers[g] = << >> /\ args[g].ids = << >>
      BY <2>1 DEF NoArgs
    <2>2. Len(<< >>) <= Len(<< >>)
      OBVIOUS
    <2> QED
      BY <2>1, <2>2, Zenon DEF CallerInv
  <1>4. PlansFit /\ PlansFresh
    BY DEF PlansFit, PlansFresh
  <1>5. QuietInv /\ QuietCallsAnswer
    BY DEF QuietInv, QuietCallsAnswer
  <1> QED
    BY <1>1, <1>2, <1>3, <1>4, <1>5 DEF Inv

\* The mutex and the table an editor works on.
LEMMA EditorStep ==
    ASSUME TypeOK, EditorInv, CallerInv, [Next]_vars
    PROVE  EditorInv'
  <1> USE DEF TypeOK, EditorInv, Goes
  <1>1. CASE UNCHANGED vars
    BY <1>1 DEF vars, table
  <1>2. ASSUME NEW w \in Editors, EditCall(w)
        PROVE  EditorInv'
    BY <1>2 DEF EditCall
  <1>3. ASSUME NEW w \in Editors, EditLock(w)
        PROVE  EditorInv'
    BY <1>3, NilAssumption DEF EditLock
  <1>4. ASSUME NEW w \in Editors, Editing(w)
        PROVE  EditorInv'
    <2>1. CASE EditRejected(w) \/ EditInvalidate(w)
      BY <2>1 DEF EditRejected, EditInvalidate, table
    <2>2. CASE EditStore(w)
      BY <2>2 DEF EditStore
    <2>3. CASE EditUnlock(w)
      BY <2>3, NilAssumption DEF EditUnlock
    <2> QED
      BY <1>4, <2>1, <2>2, <2>3 DEF Editing
  <1>5. ASSUME NEW g \in Callers, CallLoad(g) \/ Evaluating(g) \/ Cancelled(g)
        PROVE  EditorInv'
    <2>1. UNCHANGED <<exprs, mu, old>> /\ \A w \in Editors : pc'[w] = pc[w]
      <3>1. CASE CallLoad(g) \/ CallHit(g) \/ CallMiss(g) \/ CallSet(g) \/ Returns(g)
        BY <3>1, RolesAssumption DEF CallLoad, CallHit, CallMiss, CallSet, Returns, table
      <3>2. ASSUME NEW a \in Answers, Answered(g, a)
            PROVE  UNCHANGED <<exprs, mu, old, pc>>
        BY <3>2 DEF Answered, AnswersWith, table
      <3>3. \/ CallHit(g) \/ CallMiss(g) \/ CallSet(g) \/ Returns(g) \/ CallLoad(g)
            \/ \E a \in Answers : Answered(g, a)
        BY <1>5, EvaluatingSteps, Zenon
      <3> QED
        BY <3>1, <3>2, <3>3
    <2> QED
      BY <2>1
  <1> QED
    BY <1>1, <1>2, <1>3, <1>4, <1>5, Steps

Places ==
    {"idle", "wait", "locked", "stored", "unlock", "lookup", "set", "walk"}

\* The lists of indices are sequences.
LEMMA Lists == \A ids \in IndexLists : ids \in Seq(Int)
  BY ListAssumption

\* A caller's steps keep every variable's type.
LEMMA CallerTypes ==
    ASSUME TypeOK, CallerInv, PlansFit, NEW g \in Callers,
           CallLoad(g) \/ Evaluating(g) \/ Cancelled(g)
    PROVE  TypeOK'
  <1> USE DEF TypeOK, Goes, table, walk, call, history
  <1>1. CASE CallLoad(g)
    <2>1. calls' \in 0 .. MaxCalls /\ args' \in [Callers -> Args \cup {NoArgs}]
      BY <1>1, BoundAssumption DEF CallLoad
    <2>2. /\ local' \in [Callers -> Seq(Exprs \cup {Nil})]
          /\ quiet' \in [Callers -> BOOLEAN]
          /\ pc' \in [Callers \cup Editors -> Places]
      BY <1>1 DEF CallLoad, Places
    <2>3. UNCHANGED <<table, cache, plan, walk, raced, tainted>>
      BY <1>1 DEF CallLoad
    <2> QED
      BY <2>1, <2>2, <2>3 DEF Places
  <1>2. CASE CallHit(g)
    <2>1. PICK p \in Cache!Found(cache, Key(g)) : plan' = [plan EXCEPT ![g] = p]
      BY <1>2 DEF CallHit
    <2>2. p \in Seq(Exprs \cup {Nil})
      BY <2>1, FoundEntry
    <2>3. plan' \in [Callers -> Seq(Exprs \cup {Nil})]
      BY <2>1, <2>2
    <2>4. /\ tainted' \in [Callers -> BOOLEAN]
          /\ pc' \in [Callers \cup Editors -> Places]
      BY <1>2 DEF CallHit, Places
    <2>5. UNCHANGED <<table, cache, args, local, walk, calls, raced, quiet>>
      BY <1>2 DEF CallHit
    <2> QED
      BY <2>3, <2>4, <2>5 DEF Places
  <1>3. CASE CallMiss(g)
    <2>1. args[g] \in Args
      BY <1>3 DEF CallMiss, CallerInv
    <2>2. BuildPlan(local[g], args[g].ids) \in Seq(Exprs \cup {Nil})
      BY <2>1, Lists, PlanType DEF Args, Entries
    <2>3. plan' \in [Callers -> Seq(Exprs \cup {Nil})]
      BY <1>3, <2>2 DEF CallMiss
    <2>4. pc' \in [Callers \cup Editors -> Places]
      BY <1>3 DEF CallMiss, Places
    <2>5. UNCHANGED <<table, cache, args, local, walk, calls, history>>
      BY <1>3 DEF CallMiss
    <2> QED
      BY <2>3, <2>4, <2>5 DEF Places
  <1>4. CASE CallSet(g)
    <2>1. /\ UNCHANGED <<table, call, quiet, tainted>>
          /\ pc' \in [Callers \cup Editors -> Places]
      BY <1>4 DEF CallSet, Places
    <2>2. args[g] \in Args
      BY <1>4 DEF CallSet, CallerInv
    <2>3. CASE Cache!Holds(cache, Key(g))
      BY <1>4, <2>1, <2>3 DEF CallSet, Places
    <2>4. CASE ~Cache!Holds(cache, Key(g))
      <3> DEFINE e == [key |-> Key(g), plan |-> plan[g]]
      <3>1. Key(g) \in Keys /\ e \in Cache!Entry
        BY <1>4, <2>2 DEF CallSet, CallerInv, Key, Keys, Args, Cache!Entry
      <3>2. cache' = Cache!Pushed(cache, e) /\ raced' \subseteq Keys
        BY <1>4, <2>4, <3>1 DEF CallSet
      <3>3. cache' \in Seq(Cache!Entry) /\ Len(cache') <= CacheSize
        BY <3>1, <3>2, PushedEntries
      <3> QED
        BY <2>1, <3>2, <3>3 DEF Places
    <2> QED
      BY <2>3, <2>4
  <1>5. CASE Returns(g)
    <2>1. NoArgs \in Args \cup {NoArgs} /\ << >> \in Seq(Exprs \cup {Nil})
          /\ << >> \in Seq(Answers)
      OBVIOUS
    <2>2. /\ args' \in [Callers -> Args \cup {NoArgs}]
          /\ local' \in [Callers -> Seq(Exprs \cup {Nil})]
          /\ plan' \in [Callers -> Seq(Exprs \cup {Nil})]
          /\ answers' \in [Callers -> Seq(Answers)]
          /\ decoded' \in [Callers -> BOOLEAN]
          /\ quiet' \in [Callers -> BOOLEAN]
          /\ tainted' \in [Callers -> BOOLEAN]
          /\ pc' \in [Callers \cup Editors -> Places]
      BY <1>5, <2>1 DEF Returns, Places
    <2>3. UNCHANGED <<table, cache, calls, raced>>
      BY <1>5 DEF Returns
    <2> QED
      BY <2>2, <2>3 DEF Places
  <1>6. ASSUME NEW a \in Answers, Answered(g, a)
        PROVE  TypeOK'
    <2>1. Append(answers[g], a) \in Seq(Answers)
      OBVIOUS
    <2>2. answers' \in [Callers -> Seq(Answers)] /\ decoded' \in [Callers -> BOOLEAN]
      BY <1>6, <2>1 DEF Answered, AnswersWith
    <2>3. UNCHANGED <<table, cache, pc, args, local, plan, calls, history>>
      BY <1>6 DEF Answered, AnswersWith
    <2> QED
      BY <2>2, <2>3
  <1> HIDE DEF TypeOK, Goes, table, walk, call, history
  <1>7. \/ CallLoad(g) \/ CallHit(g) \/ CallMiss(g) \/ CallSet(g) \/ Returns(g)
        \/ \E a \in Answers : Answered(g, a)
    BY EvaluatingSteps, Zenon
  <1> QED
    BY <1>1, <1>2, <1>3, <1>4, <1>5, <1>6, <1>7, Zenon

\* An editor's steps keep every variable's type.
LEMMA EditorTypes ==
    ASSUME TypeOK, NEW w \in Editors, EditCall(w) \/ EditLock(w) \/ Editing(w)
    PROVE  TypeOK'
  <1> USE DEF TypeOK, Goes, table, walk, call, history
  <1>1. CASE EditCall(w)
    <2>1. /\ edits' \in 0 .. MaxEdits /\ edit' \in [Editors -> Edits \cup {NoEdit}]
          /\ pc' \in [Callers \cup Editors -> Places]
      BY <1>1, BoundAssumption DEF EditCall, Places
    <2>2. UNCHANGED <<exprs, mu, old, cache, call, history>>
      BY <1>1 DEF EditCall
    <2> QED
      BY <2>1, <2>2 DEF Places
  <1>2. CASE EditLock(w)
    BY <1>2 DEF EditLock
  <1>3. CASE EditRejected(w)
    BY <1>3 DEF EditRejected
  <1>4. CASE EditStore(w)
    <2>1. exprs' \in Seq(Exprs \cup {Nil})
      <3>1. /\ old[w] \in Seq(Entries) /\ edit[w] \in Edits \cup {NoEdit}
            /\ edit[w].op \in {"Replace", "Remove"} => InRange(old[w], edit[w].index)
            /\ exprs' = Edited(old[w], edit[w])
        BY <1>4 DEF EditStore, Entries
      <3> QED
        BY <3>1, EditedTable DEF Entries
    <2>2. /\ quiet' \in [Callers -> BOOLEAN]
          /\ pc' \in [Callers \cup Editors -> Places]
      BY <1>4 DEF EditStore, Places
    <2>3. UNCHANGED <<mu, edit, old, edits, cache, call, raced, tainted>>
      BY <1>4 DEF EditStore
    <2> QED
      BY <2>1, <2>2, <2>3 DEF Places
  <1>5. CASE EditInvalidate(w)
    <2>1. cache' \in Seq(Cache!Entry) /\ Len(cache') <= CacheSize /\ raced' \subseteq Keys
      BY <1>5, SizeAssumption DEF EditInvalidate
    <2> QED
      BY <1>5, <2>1 DEF EditInvalidate
  <1>6. CASE EditUnlock(w)
    BY <1>6 DEF EditUnlock
  <1> QED
    BY <1>1, <1>2, <1>3, <1>4, <1>5, <1>6 DEF Editing

LEMMA TypeStep ==
    ASSUME TypeOK, CallerInv, PlansFit, [Next]_vars
    PROVE  TypeOK'
  <1>1. CASE UNCHANGED vars
    BY <1>1 DEF vars, table, call, walk, history, TypeOK
  <1> QED
    BY <1>1, EditorTypes, CallerTypes, Steps

-----------------------------------------------------------------------------

\* What an editor's step leaves alone.
LEMMA EditorFrame ==
    ASSUME TypeOK, NEW w \in Editors, EditCall(w) \/ EditLock(w) \/ Editing(w)
    PROVE  /\ UNCHANGED <<args, local, plan, answers, tainted>>
           /\ \A g \in Callers : pc'[g] = pc[g]
           /\ EditStore(w) \/ UNCHANGED <<exprs, quiet>>
           /\ EditInvalidate(w) \/ UNCHANGED <<cache, raced>>
  <1> USE RolesAssumption DEF TypeOK, Goes, table, call, walk, history
  <1>1. CASE EditCall(w) \/ EditLock(w)
    BY <1>1 DEF EditCall, EditLock
  <1>2. CASE EditRejected(w) \/ EditUnlock(w)
    BY <1>2 DEF EditRejected, EditUnlock
  <1>3. CASE EditStore(w)
    BY <1>3 DEF EditStore
  <1>4. CASE EditInvalidate(w)
    BY <1>4 DEF EditInvalidate
  <1> QED
    BY <1>1, <1>2, <1>3, <1>4 DEF Editing

LEMMA CallerStep ==
    ASSUME TypeOK, CallerInv, PlansFit, [Next]_vars
    PROVE  CallerInv'
  <1>1. CASE UNCHANGED vars
    BY <1>1 DEF vars, call, walk, CallerInv
  <1>2. ASSUME NEW w \in Editors, EditCall(w) \/ EditLock(w) \/ Editing(w)
        PROVE  CallerInv'
    <2>1. /\ UNCHANGED <<args, local, plan, answers>>
          /\ \A g \in Callers : pc'[g] = pc[g]
      BY <1>2, EditorFrame
    <2> QED
      BY <2>1 DEF CallerInv
  <1>3. ASSUME NEW g \in Callers, CallLoad(g)
        PROVE  CallerInv'
    <2>1. /\ pc[g] = "idle" /\ pc' = [pc EXCEPT ![g] = "lookup"]
          /\ \E a \in Args : args' = [args EXCEPT ![g] = a]
          /\ local' = [local EXCEPT ![g] = exprs]
          /\ UNCHANGED <<plan, answers>>
      BY <1>3 DEF CallLoad, Goes, walk
    <2>2. args'[g] \in Args /\ answers'[g] = << >> /\ pc'[g] = "lookup"
      BY <2>1 DEF TypeOK, CallerInv
    <2>3. Len(<< >>) <= Len(args'[g].ids)
      BY <2>2, Lists DEF Args
    <2>4. \A h \in Callers \ {g} : /\ pc'[h] = pc[h] /\ args'[h] = args[h]
                                  /\ local'[h] = local[h]
      BY <2>1 DEF TypeOK
    <2> QED
      BY <2>1, <2>2, <2>3, <2>4 DEF CallerInv
  <1>4. ASSUME NEW g \in Callers, CallHit(g)
        PROVE  CallerInv'
    <2>1. PICK p \in Cache!Found(cache, Key(g)) : plan' = [plan EXCEPT ![g] = p]
      BY <1>4 DEF CallHit
    <2>2. PICK i \in DOMAIN cache : cache[i].key = Key(g) /\ cache[i].plan = p
      BY <2>1, FoundEntry DEF TypeOK
    <2>3. DOMAIN p = DOMAIN args[g].ids
      BY <2>2 DEF PlansFit, Key
    <2>4. /\ pc[g] = "lookup" /\ pc' = [pc EXCEPT ![g] = "walk"]
          /\ UNCHANGED <<args, local, answers>>
      BY <1>4 DEF CallHit, Goes, walk
    <2>5. plan'[g] = p /\ pc'[g] = "walk"
          /\ \A h \in Callers \ {g} : pc'[h] = pc[h] /\ plan'[h] = plan[h]
      BY <2>1, <2>4 DEF TypeOK
    <2> QED
      BY <2>3, <2>4, <2>5 DEF CallerInv
  <1>5. ASSUME NEW g \in Callers, CallMiss(g)
        PROVE  CallerInv'
    <2>1. /\ pc[g] = "lookup" /\ UNCHANGED <<args, local, answers>>
          /\ pc'[g] = IF args[g].schema = NoSchema THEN "walk" ELSE "set"
          /\ plan'[g] = BuildPlan(local[g], args[g].ids)
          /\ \A h \in Callers \ {g} : pc'[h] = pc[h] /\ plan'[h] = plan[h]
      BY <1>5 DEF CallMiss, Goes, TypeOK, walk
    <2>2. args[g] \in Args
      BY <2>1 DEF CallerInv
    <2>3. DOMAIN plan'[g] = DOMAIN args[g].ids
      <3>1. args[g].ids \in Seq(Int)
        BY <2>2, Lists DEF Args
      <3>2. local[g] \in Seq(Entries)
        BY DEF TypeOK, Entries
      <3> QED
        BY <2>1, <3>1, <3>2, PlanType
    <2>4. pc'[g] = "set" => args[g].schema \in Schemas
      BY <2>1, <2>2 DEF Args
    <2> QED
      BY <2>1, <2>2, <2>3, <2>4 DEF CallerInv
  <1>6. ASSUME NEW g \in Callers, CallSet(g)
        PROVE  CallerInv'
    <2>1. /\ pc[g] = "set" /\ pc'[g] = "walk"
          /\ UNCHANGED <<args, local, plan, answers>>
          /\ \A h \in Callers \ {g} : pc'[h] = pc[h]
      BY <1>6 DEF CallSet, Goes, TypeOK, call, walk
    <2> QED
      BY <2>1 DEF CallerInv
  <1>7. ASSUME NEW g \in Callers, Returns(g)
        PROVE  CallerInv'
    <2>1. /\ pc'[g] = "idle" /\ answers'[g] = << >> /\ args'[g] = NoArgs
          /\ \A h \in Callers \ {g} :
                /\ pc'[h] = pc[h] /\ args'[h] = args[h] /\ local'[h] = local[h]
                /\ plan'[h] = plan[h] /\ answers'[h] = answers[h]
      BY <1>7 DEF Returns, Goes, TypeOK
    <2>2. Len(<< >>) <= Len(NoArgs.ids)
      BY DEF NoArgs
    <2> QED
      BY <2>1, <2>2 DEF CallerInv
  <1>8. ASSUME NEW g \in Callers, NEW a \in Answers, Answered(g, a)
        PROVE  CallerInv'
    <2>1. /\ pc[g] = "walk" /\ Len(answers[g]) + 1 <= Len(args[g].ids)
          /\ answers' = [answers EXCEPT ![g] = Append(answers[g], a)]
          /\ UNCHANGED <<pc, args, local, plan>>
      BY <1>8 DEF Answered, AnswersWith, AtPosition, Here
    <2>2. answers[g] \in Seq(Answers) /\ answers'[g] = Append(answers[g], a)
          /\ \A h \in Callers \ {g} : answers'[h] = answers[h]
      BY <2>1 DEF TypeOK
    <2>3. Len(answers'[g]) = Len(answers[g]) + 1
      BY <2>2
    <2> QED
      BY <2>1, <2>2, <2>3 DEF CallerInv
  <1> QED
    BY <1>1, <1>2, <1>3, <1>4, <1>5, <1>6, <1>7, <1>8, Steps, EvaluatingSteps

\* A cached plan has one entry per index of its key.
LEMMA FitStep ==
    ASSUME TypeOK, CallerInv, PlansFit, [Next]_vars
    PROVE  PlansFit'
  <1>1. CASE UNCHANGED cache
    BY <1>1 DEF PlansFit
  <1>2. ASSUME NEW w \in Editors, EditInvalidate(w)
        PROVE  PlansFit'
    BY <1>2 DEF EditInvalidate, PlansFit
  <1>3. ASSUME NEW g \in Callers, CallSet(g)
        PROVE  PlansFit'
    <2> DEFINE e == [key |-> Key(g), plan |-> plan[g]]
    <2>1. CASE cache' = Cache!Pushed(cache, e)
      <3>1. args[g] \in Args /\ args[g].schema \in Schemas
            /\ DOMAIN plan[g] = DOMAIN args[g].ids
        BY <1>3 DEF CallSet, Goes, CallerInv
      <3>2. e \in Cache!Entry
        BY <3>1 DEF TypeOK, Key, Keys, Args, Cache!Entry
      <3>3. DOMAIN e.plan = DOMAIN e.key[2]
        BY <3>1 DEF Key
      <3>4. \A i \in DOMAIN cache' : cache'[i] = e \/ \E j \in DOMAIN cache : cache'[i] = cache[j]
        BY <2>1, <3>2, PushedEntries DEF TypeOK
      <3> HIDE DEF e
      <3> QED
        BY <3>3, <3>4 DEF PlansFit
    <2> QED
      BY <1>1, <1>3, <2>1 DEF CallSet
  <1>4. ASSUME NEW w \in Editors, EditCall(w) \/ EditLock(w) \/ Editing(w)
        PROVE  PlansFit'
    BY <1>1, <1>2, <1>4, EditorFrame
  <1>5. ASSUME NEW g \in Callers,
               \/ CallLoad(g) \/ CallHit(g) \/ CallMiss(g) \/ Returns(g)
               \/ \E a \in Answers : Answered(g, a)
        PROVE  UNCHANGED cache
    BY <1>5 DEF CallLoad, CallHit, CallMiss, Returns, Answered, AnswersWith
  <1>6. UNCHANGED vars => UNCHANGED cache
    BY DEF vars
  <1> QED
    BY <1>1, <1>3, <1>4, <1>5, <1>6, Steps, EvaluatingSteps

\* A cached plan is fresh unless its key is in raced.
LEMMA FreshStep ==
    ASSUME TypeOK, EditorInv, CallerInv, PlansFresh, [Next]_vars
    PROVE  PlansFresh'
  <1> DEFINE Fresh(e, t) == e.plan = BuildPlan(t, e.key[2])
  <1>1. ASSUME UNCHANGED <<cache, raced, exprs>>, Replaced \subseteq Replaced'
        PROVE  PlansFresh'
    BY <1>1 DEF PlansFresh
  <1>2. CASE UNCHANGED vars
    <2>1. UNCHANGED <<cache, raced, exprs, old, pc>>
      BY <1>2 DEF vars, table, history
    <2> QED
      BY <1>1, <2>1 DEF Replaced
  <1>3. ASSUME NEW w \in Editors, EditStore(w)
        PROVE  PlansFresh'
    <2>1. /\ pc[w] = "locked" /\ pc'[w] = "stored" /\ old' = old
          /\ UNCHANGED <<cache, raced>>
      BY <1>3, RolesAssumption DEF EditStore, Goes, TypeOK
    <2>2. old[w] = exprs /\ Replaced = {}
      BY <2>1 DEF EditorInv, Replaced
    <2>3. exprs \in Replaced'
      BY <2>1, <2>2 DEF Replaced
    <2>4. ASSUME NEW i \in DOMAIN cache, cache[i].key \notin raced
          PROVE  cache[i].plan = BuildPlan(exprs, cache[i].key[2])
      BY <2>2, <2>4 DEF PlansFresh
    <2> QED
      BY <2>1, <2>3, <2>4 DEF PlansFresh
  <1>4. ASSUME NEW w \in Editors, EditInvalidate(w)
        PROVE  PlansFresh'
    BY <1>4 DEF EditInvalidate, PlansFresh
  <1>5. ASSUME NEW w \in Editors, EditCall(w) \/ EditLock(w) \/ Editing(w),
               ~EditStore(w), ~EditInvalidate(w)
        PROVE  PlansFresh'
    <2>1. UNCHANGED <<cache, raced, exprs>>
      BY <1>5, EditorFrame
    <2>2. \A v \in Editors : pc[v] = "stored" => pc'[v] = "stored" /\ old'[v] = old[v]
      BY <1>5 DEF EditCall, EditLock, Editing, EditRejected, EditUnlock,
                  Goes, TypeOK, table
    <2>3. Replaced \subseteq Replaced'
      BY <2>2 DEF Replaced
    <2> QED
      BY <1>1, <2>1, <2>3
  <1>6. ASSUME NEW g \in Callers, UNCHANGED <<exprs, old>>,
               \A w \in Editors : pc'[w] = pc[w]
        PROVE  Replaced' = Replaced
    BY <1>6 DEF Replaced
  <1>7. ASSUME NEW g \in Callers, CallSet(g)
        PROVE  PlansFresh'
    <2> DEFINE e == [key |-> Key(g), plan |-> plan[g]]
    <2>1. /\ UNCHANGED <<exprs, old>> /\ pc[g] = "set"
          /\ \A w \in Editors : pc'[w] = pc[w]
      BY <1>7, RolesAssumption DEF CallSet, Goes, TypeOK, table
    <2>2. Replaced' = Replaced
      BY <1>6, <2>1
    <2>3. CASE UNCHANGED <<cache, raced>>
      BY <1>1, <2>1, <2>2, <2>3
    <2>4. CASE /\ ~Cache!Holds(cache, Key(g))
               /\ cache' = Cache!Pushed(cache, e)
               /\ raced' = IF local[g] = exprs THEN raced \ {Key(g)}
                           ELSE raced \cup {Key(g)}
      <3>1. /\ args[g] \in Args /\ args[g].schema \in Schemas
            /\ plan[g] = BuildPlan(local[g], args[g].ids)
        BY <2>1 DEF CallerInv
      <3>2. e \in Cache!Entry
        BY <3>1 DEF TypeOK, Key, Keys, Args, Cache!Entry
      <3>3. ASSUME NEW i \in DOMAIN cache'
            PROVE  cache'[i] = e \/ \E j \in DOMAIN cache : cache'[i] = cache[j]
        BY <2>4, <3>2, PushedEntries DEF TypeOK
      <3>4. ASSUME NEW i \in DOMAIN cache', cache'[i] = e, e.key \notin raced'
            PROVE  cache'[i].plan = BuildPlan(exprs', cache'[i].key[2])
        <4>1. local[g] = exprs
          BY <2>4, <3>4
        <4>2. e.plan = BuildPlan(exprs, e.key[2])
          BY <3>1, <4>1 DEF Key
        <4> HIDE DEF e
        <4> QED
          BY <2>1, <3>4, <4>2
      <3>5. ASSUME NEW i \in DOMAIN cache', NEW j \in DOMAIN cache,
                   cache'[i] = cache[j], cache'[i].key \notin raced'
            PROVE  \E t \in {exprs'} \cup Replaced' :
                       cache'[i].plan = BuildPlan(t, cache'[i].key[2])
        <4>1. cache[j].key # Key(g)
          BY <2>4 DEF Cache!Holds
        <4>2. cache[j].key \notin raced
          BY <2>4, <3>5, <4>1
        <4> QED
          BY <2>1, <2>2, <3>5, <4>2 DEF PlansFresh
      <3> HIDE DEF e
      <3> QED
        BY <3>3, <3>4, <3>5 DEF PlansFresh
    <2> QED
      BY <1>7, <2>3, <2>4 DEF CallSet
  <1>8. ASSUME NEW g \in Callers,
               \/ CallLoad(g) \/ CallHit(g) \/ CallMiss(g) \/ Returns(g)
               \/ \E a \in Answers : Answered(g, a)
        PROVE  PlansFresh'
    <2>1. UNCHANGED <<cache, raced, exprs, old>> /\ \A w \in Editors : pc'[w] = pc[w]
      BY <1>8, RolesAssumption DEF CallLoad, CallHit, CallMiss, Returns, Answered,
                                   AnswersWith, Goes, TypeOK, table, history
    <2> QED
      BY <1>1, <1>6, <2>1
  <1> QED
    BY <1>2, <1>3, <1>4, <1>5, <1>7, <1>8, Steps, EvaluatingSteps

\* A quiet call's table is the published one and its plan is that table's.
LEMMA QuietStep ==
    ASSUME TypeOK, EditorInv, CallerInv, PlansFresh, QuietInv, [Next]_vars
    PROVE  QuietInv'
  <1>1. CASE UNCHANGED vars
    BY <1>1 DEF vars, table, call, history, QuietInv
  <1>2. ASSUME NEW w \in Editors, EditStore(w)
        PROVE  QuietInv'
    <2>1. \A g \in Callers : pc'[g] = pc[g] /\ quiet'[g] = (pc[g] = "idle")
      BY <1>2, RolesAssumption DEF EditStore, Goes, TypeOK
    <2> QED
      BY <2>1 DEF QuietInv
  <1>3. ASSUME NEW w \in Editors, EditCall(w) \/ EditLock(w) \/ Editing(w),
               ~EditStore(w)
        PROVE  QuietInv'
    <2>1. /\ UNCHANGED <<args, local, plan, tainted, exprs, quiet>>
          /\ \A g \in Callers : pc'[g] = pc[g]
      BY <1>3, EditorFrame
    <2>2. \A v \in Editors : pc'[v] = "stored" => pc[v] = "stored"
      BY <1>3 DEF EditCall, EditLock, Editing, EditRejected, EditInvalidate,
                  EditUnlock, Goes, TypeOK
    <2> QED
      BY <2>1, <2>2 DEF QuietInv
  <1>4. ASSUME NEW g \in Callers, UNCHANGED exprs,
               \A w \in Editors : pc'[w] = pc[w],
               \A h \in Callers \ {g} :
                  /\ pc'[h] = pc[h] /\ args'[h] = args[h] /\ local'[h] = local[h]
                  /\ plan'[h] = plan[h] /\ quiet'[h] = quiet[h]
                  /\ tainted'[h] = tainted[h],
               pc'[g] # "idle" /\ quiet'[g] =>
                  /\ local'[g] = exprs
                  /\ \A w \in Editors : pc[w] # "stored"
                  /\ pc'[g] = "walk" /\ ~tainted'[g] =>
                       plan'[g] = BuildPlan(local'[g], args'[g].ids)
        PROVE  QuietInv'
    BY <1>4 DEF QuietInv
  <1>5. ASSUME NEW g \in Callers, CallLoad(g)
        PROVE  QuietInv'
    <2>1. /\ pc'[g] = "lookup" /\ local'[g] = exprs
          /\ quiet'[g] = \A w \in Editors : pc[w] # "stored"
      BY <1>5 DEF CallLoad, Goes, TypeOK
    <2>2. /\ UNCHANGED <<exprs, plan, tainted>>
          /\ \A w \in Editors : pc'[w] = pc[w]
          /\ \A h \in Callers \ {g} :
                /\ pc'[h] = pc[h] /\ args'[h] = args[h] /\ local'[h] = local[h]
                /\ quiet'[h] = quiet[h]
      BY <1>5, RolesAssumption DEF CallLoad, Goes, TypeOK, table
    <2> QED
      BY <1>4, <2>1, <2>2
  <1>6. ASSUME NEW g \in Callers, CallHit(g)
        PROVE  QuietInv'
    <2>1. PICK p \in Cache!Found(cache, Key(g)) : plan' = [plan EXCEPT ![g] = p]
      BY <1>6 DEF CallHit
    <2>2. PICK i \in DOMAIN cache : cache[i].key = Key(g) /\ cache[i].plan = p
      BY <2>1, FoundEntry DEF TypeOK
    <2>3. /\ pc[g] = "lookup" /\ pc'[g] = "walk"
          /\ tainted'[g] = (Key(g) \in raced) /\ plan'[g] = p
          /\ UNCHANGED <<exprs, args, local, quiet>>
      BY <1>6, <2>1 DEF CallHit, Goes, TypeOK, table
    <2>4. /\ \A w \in Editors : pc'[w] = pc[w]
          /\ \A h \in Callers \ {g} :
                pc'[h] = pc[h] /\ plan'[h] = plan[h] /\ tainted'[h] = tainted[h]
      BY <1>6, <2>1, RolesAssumption DEF CallHit, Goes, TypeOK
    <2>5. ASSUME quiet[g], Key(g) \notin raced
          PROVE  p = BuildPlan(local[g], args[g].ids)
      <3>1. local[g] = exprs /\ Replaced = {}
        BY <2>3, <2>5 DEF QuietInv, Replaced
      <3>2. p = BuildPlan(exprs, Key(g)[2])
        BY <2>2, <2>5, <3>1 DEF PlansFresh
      <3> QED
        BY <3>1, <3>2 DEF Key
    <2>6. quiet[g] => local[g] = exprs /\ \A w \in Editors : pc[w] # "stored"
      BY <2>3 DEF QuietInv
    <2> QED
      BY <1>4, <2>3, <2>4, <2>5, <2>6
  <1>7. ASSUME NEW g \in Callers, CallMiss(g)
        PROVE  QuietInv'
    <2>1. /\ pc[g] = "lookup" /\ plan'[g] = BuildPlan(local[g], args[g].ids)
          /\ UNCHANGED <<exprs, args, local, quiet, tainted>>
          /\ \A w \in Editors : pc'[w] = pc[w]
          /\ \A h \in Callers \ {g} : pc'[h] = pc[h] /\ plan'[h] = plan[h]
      BY <1>7, RolesAssumption DEF CallMiss, Goes, TypeOK, table, history
    <2>2. quiet[g] => local[g] = exprs /\ \A w \in Editors : pc[w] # "stored"
      BY <2>1 DEF QuietInv
    <2> QED
      BY <1>4, <2>1, <2>2
  <1>8. ASSUME NEW g \in Callers, CallSet(g)
        PROVE  QuietInv'
    <2>1. /\ pc[g] = "set" /\ pc'[g] = "walk"
          /\ UNCHANGED <<exprs, args, local, plan, quiet, tainted>>
          /\ \A w \in Editors : pc'[w] = pc[w]
          /\ \A h \in Callers \ {g} : pc'[h] = pc[h]
      BY <1>8, RolesAssumption DEF CallSet, Goes, TypeOK, table, call
    <2>2. quiet[g] => local[g] = exprs /\ \A w \in Editors : pc[w] # "stored"
      BY <2>1 DEF QuietInv
    <2>3. plan[g] = BuildPlan(local[g], args[g].ids)
      BY <2>1 DEF CallerInv
    <2> QED
      BY <1>4, <2>1, <2>2, <2>3
  <1>9. ASSUME NEW g \in Callers, Returns(g)
        PROVE  QuietInv'
    <2>1. /\ pc'[g] = "idle" /\ UNCHANGED exprs
          /\ \A w \in Editors : pc'[w] = pc[w]
          /\ \A h \in Callers \ {g} :
                /\ pc'[h] = pc[h] /\ args'[h] = args[h] /\ local'[h] = local[h]
                /\ plan'[h] = plan[h] /\ quiet'[h] = quiet[h]
                /\ tainted'[h] = tainted[h]
      BY <1>9, RolesAssumption DEF Returns, Goes, TypeOK, table
    <2> QED
      BY <1>4, <2>1
  <1>10. ASSUME NEW g \in Callers, NEW a \in Answers, Answered(g, a)
         PROVE  QuietInv'
    <2>1. UNCHANGED <<exprs, pc, args, local, plan, quiet, tainted>>
      BY <1>10 DEF Answered, AnswersWith, table, history
    <2> QED
      BY <2>1 DEF QuietInv
  <1> QED
    BY <1>1, <1>2, <1>3, <1>5, <1>6, <1>7, <1>8, <1>9, <1>10, Steps, EvaluatingSteps

\* A quiet call answers with its own table's expressions.
LEMMA AnswerStep ==
    ASSUME TypeOK, CallerInv, QuietInv, QuietCallsAnswer, [Next]_vars
    PROVE  QuietCallsAnswer'
  <1>1. CASE UNCHANGED vars
    BY <1>1 DEF vars, call, walk, history, QuietCallsAnswer, Own
  <1>2. ASSUME NEW w \in Editors, EditStore(w)
        PROVE  QuietCallsAnswer'
    <2>1. /\ \A g \in Callers : pc'[g] = pc[g]
          /\ quiet' = [g \in Callers |-> pc[g] = "idle"] /\ answers' = answers
      BY <1>2, RolesAssumption DEF EditStore, Goes, TypeOK, call, walk
    <2>2. \A g \in Callers : quiet'[g] => answers'[g] = << >>
      BY <2>1 DEF CallerInv
    <2> QED
      BY <2>2 DEF QuietCallsAnswer
  <1>3. ASSUME NEW w \in Editors, EditCall(w) \/ EditLock(w) \/ Editing(w),
               ~EditStore(w)
        PROVE  QuietCallsAnswer'
    <2>1. UNCHANGED <<args, local, answers, tainted, quiet>>
      BY <1>3, EditorFrame
    <2> QED
      BY <2>1 DEF QuietCallsAnswer, Own
  <1>4. ASSUME NEW g \in Callers, pc[g] # "walk" \/ answers'[g] = << >>,
               \/ CallLoad(g) \/ CallHit(g) \/ CallMiss(g) \/ CallSet(g) \/ Returns(g)
        PROVE  QuietCallsAnswer'
    <2>1. answers'[g] = << >>
      BY <1>4 DEF CallerInv, CallLoad, CallHit, CallMiss, CallSet, call, walk, TypeOK, Returns
    <2>2. \A h \in Callers \ {g} :
             /\ args'[h] = args[h] /\ local'[h] = local[h] /\ answers'[h] = answers[h]
             /\ quiet'[h] = quiet[h] /\ tainted'[h] = tainted[h]
      BY <1>4 DEF CallLoad, CallHit, CallMiss, CallSet, Returns, call, walk, history, TypeOK
    <2> QED
      BY <2>1, <2>2 DEF QuietCallsAnswer, Own
  <1>5. ASSUME NEW g \in Callers, NEW a \in Answers, Answered(g, a)
        PROVE  QuietCallsAnswer'
    <2>1. /\ pc[g] = "walk" /\ Here(g) <= Len(args[g].ids)
          /\ answers' = [answers EXCEPT ![g] = Append(answers[g], a)]
          /\ UNCHANGED <<args, local, quiet, tainted>>
      BY <1>5 DEF Answered, AnswersWith, AtPosition, history
    <2>2. /\ answers[g] \in Seq(Answers) /\ answers'[g] = Append(answers[g], a)
          /\ \A h \in Callers \ {g} : answers'[h] = answers[h]
      BY <2>1 DEF TypeOK
    <2>3. ASSUME quiet[g], ~tainted[g]
          PROVE  a.expr = Own(g, Here(g))
      <3>1. plan[g] = BuildPlan(local[g], args[g].ids)
        BY <2>1, <2>3 DEF QuietInv
      <3>2. args[g] \in Args
        BY <2>1 DEF CallerInv
      <3>3. args[g].ids \in Seq(Int) /\ local[g] \in Seq(Entries)
        BY <3>2, Lists DEF Args, TypeOK, Entries
      <3>4. Here(g) \in DOMAIN args[g].ids
        BY <2>1, <2>2, <3>3 DEF Here
      <3>5. plan[g][Here(g)] \in {Own(g, Here(g)), Nil}
        BY <3>1, <3>3, <3>4, PlanType DEF Own
      <3> QED
        BY <1>5, <3>5 DEF Answered
    <2>4. ASSUME quiet[g], ~tainted[g], NEW i \in DOMAIN answers'[g]
          PROVE  answers'[g][i].expr = Own(g, i)
      <3>1. CASE i = Here(g)
        <4>1. answers'[g][i] = a
          BY <2>2, <3>1 DEF Here
        <4> QED
          BY <2>3, <2>4, <3>1, <4>1
      <3>2. CASE i # Here(g)
        <4>1. i \in DOMAIN answers[g] /\ answers'[g][i] = answers[g][i]
          BY <2>2, <2>4, <3>2 DEF Here
        <4> QED
          BY <2>4, <4>1 DEF QuietCallsAnswer
      <3> QED
        BY <3>1, <3>2
    <2> QED
      BY <2>1, <2>2, <2>4 DEF QuietCallsAnswer, Own
  <1> QED
    <2>1. ASSUME NEW g \in Callers,
                 CallLoad(g) \/ CallHit(g) \/ CallMiss(g) \/ CallSet(g) \/ Returns(g)
          PROVE  pc[g] # "walk" \/ answers'[g] = << >>
      BY <2>1 DEF CallLoad, CallHit, CallMiss, CallSet, Returns, Goes, TypeOK
    <2> QED
      BY <1>1, <1>2, <1>3, <1>4, <1>5, <2>1, Steps, EvaluatingSteps

-----------------------------------------------------------------------------

THEOREM Invariance == Spec => []Inv
  <1>1. Inv /\ [Next]_vars => Inv'
    BY TypeStep, EditorStep, CallerStep, FitStep, FreshStep, QuietStep, AnswerStep DEF Inv
  <1> QED
    BY <1>1, InitInv, PTL DEF Spec

\* Every variable keeps its type, whatever the table, the plans and the calls.
THEOREM TypeCorrect == Spec => []TypeOK
  BY Invariance, PTL DEF Inv

\* A cached plan is the published table's, or the replaced table's until the
\* edit has cleared the cache, or its key is in raced.
THEOREM FreshPlans == Spec => []PlansFresh
  BY Invariance, PTL DEF Inv

\* A call that overlaps no edit and finds no plan cached too late answers
\* every index with the table's expression there.
THEOREM QuietCorrect == Spec => []QuietCallsAnswer
  BY Invariance, PTL DEF Inv

\* A step that touches one editor changes what that editor has asked for or
\* been answered, and nothing of the others.
LEMMA OneEditor ==
    ASSUME NEW w \in Editors,
           \A v \in Editors \ {w} : pc'[v] = pc[v] /\ edit'[v] = edit[v] /\ old'[v] = old[v]
    PROVE  /\ \A a : Asked'[w] = a => Asked' = [Asked EXCEPT ![w] = a]
           /\ \A a : Answer'[w] = a => Answer' = [Answer EXCEPT ![w] = a]
  BY DEF Asked, Answer

\* The fields of an edit, and its answer, are not Nil.
LEMMA EditIsSomething ==
    ASSUME TypeOK, NEW w \in Editors
    PROVE  edit[w] # Nil /\ Result(old[w], edit[w]) # Nil
  <1>1. edit[w] \in Edits \cup {NoEdit} /\ Len(old[w]) \in Nat
    BY DEF TypeOK
  <1>2. Result(old[w], edit[w]) \in [index : Nat] \cup [ok : BOOLEAN]
    BY <1>1 DEF Result, InRange
  <1> QED
    BY <1>1, <1>2, NilIsNothing

\* What an editor does is a step of the expression table, or none.
LEMMA EditorImplements ==
    ASSUME TypeOK, EditorInv, NEW w \in Editors, EditCall(w) \/ EditLock(w) \/ Editing(w)
    PROVE  Table!Next \/ UNCHANGED <<exprs, Asked, Answer>>
  <1>1. /\ pc \in [Callers \cup Editors -> Places]
        /\ edit \in [Editors -> Edits \cup {NoEdit}]
        /\ old \in [Editors -> Seq(Exprs \cup {Nil})]
        /\ exprs \in Seq(Exprs \cup {Nil})
    BY DEF TypeOK, Places
  <1>2. edit[w] # Nil /\ Result(old[w], edit[w]) # Nil
    BY EditIsSomething
  <1>3. \A v \in Editors \ {w} : pc'[v] = pc[v] /\ edit'[v] = edit[v] /\ old'[v] = old[v]
    BY <1>1 DEF EditCall, EditLock, Editing, EditRejected, EditStore, EditInvalidate,
                EditUnlock, Goes, table
  <1>4. /\ \A a : Asked'[w] = a => Asked' = [Asked EXCEPT ![w] = a]
        /\ \A a : Answer'[w] = a => Answer' = [Answer EXCEPT ![w] = a]
    BY <1>3, OneEditor
  <1>5. /\ Asked[w] = IF pc[w] \in {"wait", "locked"} THEN edit[w] ELSE Nil
        /\ Answer[w] = IF pc[w] \in {"stored", "unlock"} THEN Result(old[w], edit[w]) ELSE Nil
        /\ Asked'[w] = IF pc'[w] \in {"wait", "locked"} THEN edit'[w] ELSE Nil
        /\ Answer'[w] = IF pc'[w] \in {"stored", "unlock"} THEN Result(old[w], edit[w])' ELSE Nil
    BY DEF Asked, Answer
  <1>6. Asked = [Asked EXCEPT ![w] = Asked[w]] /\ Answer = [Answer EXCEPT ![w] = Answer[w]]
    BY DEF Asked, Answer
  <1>7. CASE EditCall(w)
    <2>1. PICK e \in Edits : edit' = [edit EXCEPT ![w] = e]
      BY <1>7 DEF EditCall
    <2>2. pc[w] = "idle" /\ pc'[w] = "wait" /\ edit'[w] = e /\ UNCHANGED exprs
      BY <1>1, <1>7, <2>1 DEF EditCall, Goes
    <2>3. Asked[w] = Nil /\ Answer[w] = Nil /\ Asked'[w] = e /\ Answer'[w] = Answer[w]
      BY <1>5, <2>2
    <2>4. Asked' = [Asked EXCEPT ![w] = e] /\ Answer' = Answer
      BY <1>4, <1>6, <2>3
    <2>5. Table!Ask(w)
      BY <2>2, <2>3, <2>4 DEF Table!Ask
    <2> QED
      BY <2>5 DEF Table!Next
  <1>8. CASE EditLock(w)
    <2>1. pc[w] = "wait" /\ pc'[w] = "locked" /\ edit'[w] = edit[w] /\ UNCHANGED exprs
      BY <1>1, <1>8 DEF EditLock, Goes
    <2>2. Asked'[w] = Asked[w] /\ Answer'[w] = Answer[w]
      BY <1>5, <2>1
    <2> QED
      BY <1>4, <1>6, <2>1, <2>2
  <1>9. CASE EditRejected(w)
    <2>1. /\ pc[w] = "locked" /\ pc'[w] = "unlock" /\ UNCHANGED <<exprs, edit, old>>
          /\ edit[w].op \in {"Replace", "Remove"} /\ ~InRange(old[w], edit[w].index)
      BY <1>1, <1>9 DEF EditRejected, Goes, table
    <2>2. old[w] = exprs
      BY <2>1 DEF EditorInv
    <2>3. Result(old[w], edit[w]) = Table!Refused
      BY <2>1 DEF Result, Table!Refused
    <2>4. Asked[w] = edit[w] /\ Asked'[w] = Nil /\ Answer'[w] = Table!Refused
      BY <1>5, <2>1, <2>3
    <2>5. Table!Makes(w, exprs, Table!Refused)
      BY <1>4, <2>1, <2>4 DEF Table!Makes
    <2>6. ~Table!Has(edit[w].index)
      BY <2>1, <2>2 DEF InRange, Table!Has
    <2>7. Table!Refuse(w)
      BY <1>2, <2>1, <2>4, <2>5, <2>6 DEF Table!Refuse, Table!Asks
    <2> QED
      BY <2>7 DEF Table!Next
  <1>10. CASE EditStore(w)
    <2>1. /\ pc[w] = "locked" /\ pc'[w] = "stored" /\ UNCHANGED <<edit, old>>
          /\ edit[w].op \in {"Replace", "Remove"} => InRange(old[w], edit[w].index)
          /\ exprs' = Edited(old[w], edit[w])
      BY <1>1, <1>10 DEF EditStore, Goes
    <2>2. old[w] = exprs
      BY <2>1 DEF EditorInv
    <2>3. /\ Asked[w] = edit[w] /\ Asked[w] # Nil
          /\ Asked'[w] = Nil /\ Answer'[w] = Result(exprs, edit[w])
      BY <1>2, <1>5, <2>1, <2>2
    <2>4. Table!Makes(w, Edited(exprs, edit[w]), Result(exprs, edit[w]))
      BY <1>4, <2>1, <2>2, <2>3 DEF Table!Makes
    <2>5. edit[w].op \in {"Replace", "Remove"} => Table!Has(edit[w].index)
      BY <2>1, <2>2 DEF InRange, Table!Has
    <2>6. CASE edit[w].op = "Add"
      <3>1. /\ Edited(exprs, edit[w]) = Append(exprs, edit[w].expr)
            /\ Result(exprs, edit[w]) = Table!Position(Len(exprs))
        BY <2>6 DEF Edited, Result, Table!Position
      <3>2. Table!Add(w)
        BY <2>3, <2>4, <2>6, <3>1 DEF Table!Add, Table!Asks
      <3> QED
        BY <3>2 DEF Table!Next
    <2>7. CASE edit[w].op = "Replace"
      <3>1. /\ Edited(exprs, edit[w]) = [exprs EXCEPT ![edit[w].index + 1] = edit[w].expr]
            /\ Result(exprs, edit[w]) = Table!Done
        BY <2>1, <2>2, <2>7 DEF Edited, Result, Table!Done
      <3>2. Table!Replace(w)
        BY <2>3, <2>4, <2>5, <2>7, <3>1 DEF Table!Replace, Table!Asks
      <3> QED
        BY <3>2 DEF Table!Next
    <2>8. CASE edit[w].op = "Remove"
      <3>1. /\ Edited(exprs, edit[w]) = [exprs EXCEPT ![edit[w].index + 1] = Nil]
            /\ Result(exprs, edit[w]) = Table!Done
        BY <2>1, <2>2, <2>8 DEF Edited, Result, Table!Done
      <3>2. Table!Remove(w)
        BY <2>3, <2>4, <2>5, <2>8, <3>1 DEF Table!Remove, Table!Asks
      <3> QED
        BY <3>2 DEF Table!Next
    <2>9. CASE edit[w].op = "Reset"
      <3>1. Edited(exprs, edit[w]) = << >> /\ Result(exprs, edit[w]) = Table!Done
        BY <2>9 DEF Edited, Result, Table!Done
      <3>2. Table!Reset(w)
        BY <2>3, <2>4, <2>9, <3>1 DEF Table!Reset, Table!Asks
      <3> QED
        BY <3>2 DEF Table!Next
    <2>10. edit[w].op \in {"Add", "Replace", "Remove", "Reset"}
      BY <1>1 DEF Edits, NoEdit
    <2> QED
      BY <2>6, <2>7, <2>8, <2>9, <2>10
  <1>11. CASE EditInvalidate(w)
    <2>1. pc[w] = "stored" /\ pc'[w] = "unlock" /\ UNCHANGED <<exprs, edit, old>>
      BY <1>1, <1>11 DEF EditInvalidate, Goes, table
    <2>2. Asked'[w] = Asked[w] /\ Answer'[w] = Answer[w]
      BY <1>5, <2>1
    <2> QED
      BY <1>4, <1>6, <2>1, <2>2
  <1>12. CASE EditUnlock(w)
    <2>1. pc[w] = "unlock" /\ pc'[w] = "idle" /\ UNCHANGED exprs
      BY <1>1, <1>12 DEF EditUnlock, Goes
    <2>2. Asked'[w] = Asked[w] /\ Answer[w] # Nil /\ Answer'[w] = Nil
      BY <1>2, <1>5, <2>1
    <2>3. Table!Return(w)
      BY <1>4, <1>6, <2>1, <2>2 DEF Table!Return
    <2> QED
      BY <2>3 DEF Table!Next
  <1> QED
    BY <1>7, <1>8, <1>9, <1>10, <1>11, <1>12 DEF Editing

\* The edits implement the expression table: each takes effect once, as it
\* was asked for, on the table the edits before it left, and is answered so.
THEOREM Implements == Spec => TableSpec
  <1>1. Init => Table!Init
    BY InitialAssumption DEF Init, Table!Init, Asked, Answer
  <1>2. ASSUME Inv, [Next]_vars
        PROVE  [Table!Next]_<<exprs, Asked, Answer>>
    <2>1. TypeOK /\ EditorInv /\ CallerInv
      BY <1>2 DEF Inv
    <2>2. ASSUME NEW g \in Callers,
                 \/ CallLoad(g) \/ CallHit(g) \/ CallMiss(g) \/ CallSet(g) \/ Returns(g)
                 \/ \E a \in Answers : Answered(g, a)
          PROVE  UNCHANGED <<exprs, Asked, Answer>>
      <3>1. UNCHANGED <<exprs, edit, old>> /\ \A w \in Editors : pc'[w] = pc[w]
        BY <2>1, <2>2, RolesAssumption
           DEF TypeOK, CallLoad, CallHit, CallMiss, CallSet, Returns, Answered, AnswersWith,
               Goes, table
      <3> QED
        BY <3>1 DEF Asked, Answer
    <2>3. UNCHANGED vars => UNCHANGED <<exprs, Asked, Answer>>
      BY DEF vars, table, Asked, Answer
    <2> QED
      BY <1>2, <2>1, <2>2, <2>3, EditorImplements, Steps, EvaluatingSteps
  <1> QED
    BY <1>1, <1>2, Invariance, PTL DEF Spec, TableSpec, Table!Spec

-----------------------------------------------------------------------------

\* No entry of a plan calls a builtin a custom function shadows.
UsablePlan(p) == \A i \in DOMAIN p : p[i] # Nil => UsableKind(p[i]) # "none"

PlansUsable ==
    /\ \A i \in DOMAIN cache : UsablePlan(cache[i].plan)
    /\ \A g \in Callers : UsablePlan(plan[g])

\* An answer is undefined exactly where the call's own table has nothing, and
\* a fast one is that of an expression a plan may hold.
SoundAnswer(g, i, a) ==
    /\ a.expr = Nil <=> Own(g, i) = Nil
    /\ a.fast => a.expr # Nil /\ UsableKind(a.expr) # "none"

AnswersSound ==
    \A g \in Callers : \A i \in DOMAIN answers[g] : SoundAnswer(g, i, answers[g][i])

LEMMA BuiltPlanUsable == \A t, ids : UsablePlan(BuildPlan(t, ids))
  BY DEF UsablePlan, BuildPlan

\* A plan with a bool fast path in it has a fast path for every expression.
LEMMA BoolPlanWhole ==
    ASSUME NEW t, NEW ids,
           NEW i \in DOMAIN ids, NEW j \in DOMAIN ids,
           BuildPlan(t, ids)[i] # Nil, Kind[BuildPlan(t, ids)[i]] = "bool",
           At(t, ids[j]) # Nil
    PROVE  BuildPlan(t, ids)[j] # Nil
  <1> DEFINE e == At(t, ids[i])
             f == At(t, ids[j])
  <1>1. e # Nil /\ BuildPlan(t, ids)[i] = e /\ UsableKind(e) # "none"
    BY DEF BuildPlan
  <1>2. UsableKind(e) = "bool"
    BY <1>1 DEF UsableKind
  <1>3. ~NeedsDecode(t, ids)
    BY <1>1, <1>2 DEF BuildPlan
  <1>4. UsableKind(f) # "none"
    BY <1>3 DEF NeedsDecode
  <1> QED
    BY <1>3, <1>4 DEF BuildPlan

\* The answers a position can get.
LEMMA AnswerSteps ==
    ASSUME TypeOK, CallerInv, PlansUsable, NEW g \in Callers,
           Skip(g) \/ FastAnswer(g) \/ FullAnswer(g)
    PROVE  \E a \in Answers : Answered(g, a) /\ SoundAnswer(g, Here(g), a)
  <1>0. AtPosition(g)
    BY DEF Skip, FastAnswer, FastHere, FullAnswer
  <1>1. args[g].ids \in Seq(Int) /\ Len(answers[g]) \in Nat
    BY <1>0, ListAssumption DEF TypeOK, CallerInv, AtPosition, Args
  <1>2. Here(g) \in DOMAIN args[g].ids
    BY <1>0, <1>1 DEF AtPosition, Here
  <1>3. Here(g) \in DOMAIN plan[g] /\ plan[g] \in Seq(Exprs \cup {Nil})
    BY <1>0, <1>2 DEF TypeOK, CallerInv, AtPosition
  <1>4. At(local[g], IndexHere(g)) = Own(g, Here(g))
    BY DEF IndexHere, Own
  <1>5. CASE Skip(g)
    <2> DEFINE a == [expr |-> Nil, fast |-> FALSE]
    <2>1. a \in Answers /\ Answered(g, a) /\ SoundAnswer(g, Here(g), a)
      BY <1>0, <1>4, <1>5 DEF Skip, Answered, Answers, SoundAnswer
    <2> QED
      BY <2>1
  <1>6. CASE FastAnswer(g)
    <2> DEFINE a == [expr |-> plan[g][Here(g)], fast |-> TRUE]
    <2>1. plan[g][Here(g)] # Nil /\ UsableKind(plan[g][Here(g)]) # "none"
      BY <1>3, <1>6 DEF FastAnswer, FastHere, PlansUsable, UsablePlan
    <2>2. a \in Answers /\ Answered(g, a)
      BY <1>0, <1>3, <1>4, <1>6 DEF FastAnswer, FastHere, Answered, Answers
    <2>3. SoundAnswer(g, Here(g), a)
      BY <1>4, <1>6, <2>1 DEF FastAnswer, FastHere, SoundAnswer
    <2> QED
      BY <2>2, <2>3
  <1>7. CASE FullAnswer(g)
    <2> DEFINE a == [expr |-> At(local[g], IndexHere(g)), fast |-> FALSE]
    <2>1. At(local[g], IndexHere(g)) \in Exprs \cup {Nil}
      <3>1. local[g] \in Seq(Exprs \cup {Nil})
        BY DEF TypeOK
      <3>2. CASE IndexHere(g) + 1 \in DOMAIN local[g]
        BY <3>1, <3>2 DEF At
      <3>3. CASE IndexHere(g) + 1 \notin DOMAIN local[g]
        BY <3>3 DEF At
      <3> QED
        BY <3>2, <3>3
    <2>2. a \in Answers /\ Answered(g, a)
      BY <1>0, <1>4, <1>7, <2>1 DEF FullAnswer, Answered, Answers
    <2>3. SoundAnswer(g, Here(g), a)
      BY <1>4 DEF SoundAnswer
    <2> QED
      BY <2>2, <2>3
  <1> QED
    BY <1>5, <1>6, <1>7

\* A caller's step builds or finds a plan, caches one, returns, or answers a
\* position soundly.
LEMMA SoundSteps ==
    ASSUME TypeOK, CallerInv, PlansUsable, NEW g \in Callers,
           Evaluating(g) \/ Cancelled(g)
    PROVE  \/ CallHit(g) \/ CallMiss(g) \/ CallSet(g) \/ Returns(g)
           \/ \E a \in Answers : Answered(g, a) /\ SoundAnswer(g, Here(g), a)
  <1>1. CASE Skip(g) \/ FastAnswer(g) \/ FullAnswer(g)
    BY <1>1, AnswerSteps
  <1>2. CASE \/ Cancelled(g) \/ FastError(g) \/ FastPanic(g)
             \/ DecodeError(g) \/ FullError(g) \/ CallReturn(g)
    BY <1>2 DEF Cancelled, FastError, FastPanic, DecodeError, FullError, CallReturn
  <1> QED
    BY <1>1, <1>2 DEF Evaluating

\* Plans come from buildPlan, whether built now or found in the cache.
LEMMA UsableStep ==
    ASSUME TypeOK, CallerInv, PlansUsable, [Next]_vars
    PROVE  PlansUsable'
  <1>1. CASE UNCHANGED <<cache, plan>>
    BY <1>1 DEF PlansUsable
  <1>2. ASSUME NEW w \in Editors, EditCall(w) \/ EditLock(w) \/ Editing(w)
        PROVE  PlansUsable'
    <2>1. UNCHANGED plan
      BY <1>2 DEF EditCall, EditLock, Editing, EditRejected, EditStore,
                  EditInvalidate, EditUnlock, call
    <2>2. cache' = cache \/ cache' = << >>
      BY <1>2 DEF EditCall, EditLock, Editing, EditRejected, EditStore,
                  EditInvalidate, EditUnlock
    <2> QED
      BY <2>1, <2>2 DEF PlansUsable
  <1>3. ASSUME NEW g \in Callers, CallHit(g)
        PROVE  PlansUsable'
    <2>1. PICK p \in Cache!Found(cache, Key(g)) : plan' = [plan EXCEPT ![g] = p]
      BY <1>3 DEF CallHit
    <2>2. UsablePlan(p)
      <3>1. cache \in Seq(Cache!Entry)
        BY DEF TypeOK
      <3>2. PICK i \in DOMAIN cache : cache[i].key = Key(g) /\ cache[i].plan = p
        BY <2>1, <3>1, FoundEntry
      <3> QED
        BY <3>2 DEF PlansUsable
    <2>3. UNCHANGED cache
      BY <1>3 DEF CallHit
    <2>4. \A h \in Callers : plan'[h] = plan[h] \/ plan'[h] = p
      BY <2>1 DEF TypeOK
    <2> QED
      BY <2>2, <2>3, <2>4 DEF PlansUsable
  <1>4. ASSUME NEW g \in Callers, CallMiss(g)
        PROVE  PlansUsable'
    <2> DEFINE p == BuildPlan(local[g], args[g].ids)
    <2>1. UsablePlan(p)
      BY BuiltPlanUsable
    <2>2. /\ UNCHANGED cache
          /\ \A h \in Callers : plan'[h] = plan[h] \/ plan'[h] = p
      BY <1>4 DEF CallMiss, TypeOK
    <2> HIDE DEF p
    <2> QED
      BY <2>1, <2>2 DEF PlansUsable
  <1>5. ASSUME NEW g \in Callers, CallSet(g)
        PROVE  PlansUsable'
    <2> DEFINE e == [key |-> Key(g), plan |-> plan[g]]
    <2>1. UNCHANGED plan
      BY <1>5 DEF CallSet, call
    <2>2. cache' = cache \/ cache' = Cache!Pushed(cache, e)
      BY <1>5 DEF CallSet
    <2>3. e \in Cache!Entry
      <3>1. args[g] \in Args /\ args[g].schema \in Schemas
        BY <1>5 DEF CallerInv, CallSet, Goes
      <3> QED
        BY <3>1 DEF TypeOK, Key, Keys, Args, Cache!Entry
    <2>4. \A i \in DOMAIN Cache!Pushed(cache, e) :
             \/ Cache!Pushed(cache, e)[i] = e
             \/ \E j \in DOMAIN cache : Cache!Pushed(cache, e)[i] = cache[j]
      BY <2>3, PushedEntries DEF TypeOK
    <2>5. UsablePlan(e.plan)
      BY DEF PlansUsable
    <2> HIDE DEF e
    <2> QED
      BY <2>1, <2>2, <2>4, <2>5 DEF PlansUsable
  <1>6. ASSUME NEW g \in Callers, Returns(g)
        PROVE  PlansUsable'
    <2>1. UNCHANGED cache /\ \A h \in Callers : plan'[h] = plan[h] \/ plan'[h] = << >>
      BY <1>6 DEF Returns, TypeOK
    <2>2. UsablePlan(<< >>)
      BY DEF UsablePlan
    <2> QED
      BY <2>1, <2>2 DEF PlansUsable
  <1>7. ASSUME NEW g \in Callers, CallLoad(g) \/ \E a \in Answers : Answered(g, a)
        PROVE  PlansUsable'
    <2>1. UNCHANGED <<cache, plan>>
      BY <1>7 DEF CallLoad, Answered, AnswersWith
    <2> QED
      BY <1>1, <2>1
  <1>8. UNCHANGED vars => UNCHANGED <<cache, plan>>
    BY DEF vars, call
  <1> QED
    BY <1>1, <1>2, <1>3, <1>4, <1>5, <1>6, <1>7, <1>8, Steps, EvaluatingSteps

\* Answers stay sound: a call's table and indices are its own until it returns.
LEMMA SoundStep ==
    ASSUME TypeOK, CallerInv, PlansUsable, AnswersSound, [Next]_vars
    PROVE  AnswersSound'
  <1>1. CASE UNCHANGED <<args, local, answers>>
    BY <1>1 DEF AnswersSound, SoundAnswer, Own
  <1>2. UNCHANGED vars => UNCHANGED <<args, local, answers>>
    BY DEF vars, call, walk
  <1>3. ASSUME NEW w \in Editors, EditCall(w) \/ EditLock(w) \/ Editing(w)
        PROVE  UNCHANGED <<args, local, answers>>
    BY <1>3 DEF EditCall, EditLock, Editing, EditRejected, EditStore,
                EditInvalidate, EditUnlock, call, walk
  <1>4. ASSUME NEW g \in Callers, CallHit(g) \/ CallMiss(g) \/ CallSet(g)
        PROVE  UNCHANGED <<args, local, answers>>
    BY <1>4 DEF CallHit, CallMiss, CallSet, call, walk
  <1>5. ASSUME NEW g \in Callers, CallLoad(g) \/ Returns(g)
        PROVE  AnswersSound'
    <2>1. answers'[g] = << >>
      BY <1>5 DEF CallerInv, CallLoad, Returns, Goes, walk, TypeOK
    <2>2. \A h \in Callers \ {g} :
             args'[h] = args[h] /\ local'[h] = local[h] /\ answers'[h] = answers[h]
      BY <1>5 DEF CallLoad, Returns, walk, TypeOK
    <2> QED
      BY <2>1, <2>2 DEF AnswersSound, SoundAnswer, Own
  <1>6. ASSUME NEW g \in Callers, NEW a \in Answers,
               Answered(g, a), SoundAnswer(g, Here(g), a)
        PROVE  AnswersSound'
    <2>1. /\ answers' = [answers EXCEPT ![g] = Append(answers[g], a)]
          /\ UNCHANGED <<args, local>>
      BY <1>6 DEF Answered, AnswersWith
    <2>2. /\ answers[g] \in Seq(Answers) /\ answers'[g] = Append(answers[g], a)
          /\ \A h \in Callers \ {g} : answers'[h] = answers[h]
      BY <2>1 DEF TypeOK
    <2>3. ASSUME NEW i \in DOMAIN answers'[g]
          PROVE  SoundAnswer(g, i, answers'[g][i])
      <3>1. CASE i = Here(g)
        <4>1. answers'[g][i] = a
          BY <2>2, <3>1 DEF Here
        <4> QED
          BY <1>6, <3>1, <4>1
      <3>2. CASE i # Here(g)
        <4>1. i \in DOMAIN answers[g] /\ answers'[g][i] = answers[g][i]
          BY <2>2, <2>3, <3>2 DEF Here
        <4> QED
          BY <4>1 DEF AnswersSound
      <3> QED
        BY <3>1, <3>2
    <2>4. \A h \in Callers : \A i \in DOMAIN answers'[h] : SoundAnswer(h, i, answers'[h][i])
      BY <2>2, <2>3 DEF AnswersSound
    <2> QED
      BY <2>1, <2>4 DEF AnswersSound, SoundAnswer, Own
  <1> QED
    BY <1>1, <1>2, <1>3, <1>4, <1>5, <1>6, Steps, SoundSteps

LEMMA SoundInvariance == Spec => [](PlansUsable /\ AnswersSound)
  <1>1. Init => PlansUsable /\ AnswersSound
    BY DEF Init, PlansUsable, UsablePlan, AnswersSound
  <1>2. Inv /\ (PlansUsable /\ AnswersSound) /\ [Next]_vars => (PlansUsable /\ AnswersSound)'
    BY UsableStep, SoundStep DEF Inv
  <1> QED
    BY <1>1, <1>2, Invariance, PTL DEF Spec

\* Whatever plan a call found, the indices it answers undefined are those its
\* own table has no expression at.
THEOREM RemovedCorrect == Spec => []RemovedIsUndefined
  <1>1. AnswersSound => RemovedIsUndefined
    BY DEF AnswersSound, SoundAnswer, RemovedIsUndefined
  <1> QED
    BY <1>1, SoundInvariance, PTL

\* No fast path answers for a builtin that a custom function shadows.
THEOREM ShadowedCorrect == Spec => []ShadowedNeverFast
  <1>1. AnswersSound => ShadowedNeverFast
    BY DEF AnswersSound, SoundAnswer, ShadowedNeverFast, UsableKind
  <1> QED
    BY <1>1, SoundInvariance, PTL

\* A call no edit overlaps plans a bool fast path only in a batch that has a
\* fast path for each of its expressions.
THEOREM BoolPlansWhole == Spec => []BoolOnlyWithoutDecode
  <1>1. ASSUME Inv
        PROVE  BoolOnlyWithoutDecode
    <2>1. SUFFICES ASSUME NEW g \in Callers, NEW i \in DOMAIN plan[g], NEW j \in DOMAIN plan[g],
                          pc[g] \in {"set", "walk"}, quiet[g], ~tainted[g],
                          plan[g][i] # Nil, Kind[plan[g][i]] = "bool", Own(g, j) # Nil
                   PROVE  plan[g][j] # Nil
      BY DEF BoolOnlyWithoutDecode
    <2>2. plan[g] = BuildPlan(local[g], args[g].ids) /\ DOMAIN plan[g] = DOMAIN args[g].ids
      BY <1>1, <2>1 DEF Inv, CallerInv, QuietInv
    <2> QED
      BY <2>1, <2>2, BoolPlanWhole DEF Own
  <1> QED
    BY <1>1, Invariance, PTL
=============================================================================
