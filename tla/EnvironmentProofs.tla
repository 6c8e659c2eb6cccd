-------------------------- MODULE EnvironmentProofs --------------------------
(***************************************************************************)
(* Proofs about the environments of an evaluation, for every number of     *)
(* inline slots, any names and any values.  One environment: the slots, the*)
(* map and the marks beside them behave as one map from names to bindings. *)
(* Binding a name changes that name's binding and clears its mark, whether *)
(* the name has a slot, takes a free one, makes the slots spill or is in   *)
(* the map already; marking marks that name alone.  All of them together:  *)
(* they stay well formed and a tree, they implement the abstract tree of   *)
(* scopes, the two walks up the tree read the nearest binding, and a rebase*)
(* keeps what a tuple reads below its block.                               *)
(***************************************************************************)
EXTENDS Environment, InductionLemmas

Slot == [name : Names, value : Values]
Map == [Names -> Values \cup {Unbound}]

Kinds == {"root", "top", "block", "tuple", "input", "body"}

\* The fields of an environment.
Fields ==
    [parent : Nat, kind : Kinds, from : Nat,
     inline : Seq(Slot), plainInline : SUBSET Nat,
     bindings : Map \cup {NoMap}, plainArrays : SUBSET Names]

\* No name has two slots, marks are on bindings the environment has, and an
\* environment uses its slots or its map and never both.
WellFormed(env) ==
    /\ env \in Fields
    /\ \A i, j \in DOMAIN env.inline : env.inline[i].name = env.inline[j].name => i = j
    /\ env.plainInline \subseteq DOMAIN env.inline
    /\ Spilled(env) => env.inline = << >>
    /\ \A n \in env.plainArrays : Spilled(env) /\ env.bindings[n] # Unbound

\* A name's binding in a well-formed environment.
Rebound(env, n, b) == [BindingsOf(env) EXCEPT ![n] = b]

-----------------------------------------------------------------------------

\* A name has one slot or none.
LEMMA OneSlot ==
    ASSUME NEW env, WellFormed(env), NEW n, NEW i \in Slots(env, n)
    PROVE  Slots(env, n) = {i} /\ (CHOOSE j \in Slots(env, n) : TRUE) = i
  <1>1. Slots(env, n) = {i}
    BY DEF WellFormed, Slots
  <1> QED
    BY <1>1

\* What LookupDirect returns is a value or Unbound; a slot's value is never
\* Unbound.
LEMMA DirectType ==
    ASSUME NEW env, WellFormed(env), NEW n \in Names
    PROVE  /\ LookupDirect(env, n) \in Values \cup {Unbound}
           /\ ~Spilled(env) => (LookupDirect(env, n) = Unbound <=> Slots(env, n) = {})
  <1>1. CASE Spilled(env)
    BY <1>1 DEF WellFormed, Fields, Map, LookupDirect, Spilled
  <1>2. CASE ~Spilled(env) /\ Slots(env, n) = {}
    BY <1>2 DEF LookupDirect
  <1>3. CASE ~Spilled(env) /\ Slots(env, n) # {}
    <2>1. PICK i \in Slots(env, n) : TRUE
      BY <1>3
    <2>2. LookupDirect(env, n) = env.inline[i].value
      BY <1>3, <2>1, OneSlot DEF LookupDirect
    <2>3. i \in DOMAIN env.inline /\ env.inline \in Seq(Slot)
      BY <2>1 DEF Slots, WellFormed, Fields
    <2>4. env.inline[i] \in Slot
      BY <2>3
    <2>5. env.inline[i].value \in Values
      BY <2>4 DEF Slot
    <2> QED
      BY <1>3, <2>2, <2>5, NameAssumption
  <1> QED
    BY <1>1, <1>2, <1>3

\* What a slot says of the name it holds.
LEMMA SlotRead ==
    ASSUME NEW env, WellFormed(env), ~Spilled(env), NEW n \in Names, NEW i \in Slots(env, n)
    PROVE  /\ LookupDirect(env, n) = env.inline[i].value
           /\ Marked(env, n) <=> i \in env.plainInline
  BY OneSlot DEF LookupDirect, Marked

LEMMA MarkedType ==
    ASSUME NEW env, NEW n
    PROVE  Marked(env, n) \in BOOLEAN
  <1>1. CASE Spilled(env)
    BY <1>1 DEF Marked
  <1>2. CASE ~Spilled(env)
    BY <1>2 DEF Marked
  <1> QED
    BY <1>1, <1>2

\* A binding as BindingsOf gives it.
LEMMA BindingOf ==
    ASSUME NEW env, NEW n \in Names
    PROVE  BindingsOf(env)[n] =
               IF LookupDirect(env, n) = Unbound THEN Unbound
               ELSE [value |-> LookupDirect(env, n), plain |-> Marked(env, n)]
  BY DEF BindingsOf

\* Two environments have the same bindings but for n's when they read and mark
\* every other name alike.
LEMMA SameButOne ==
    ASSUME NEW env, NEW new, NEW n \in Names, NEW v \in Values, NEW plain \in BOOLEAN,
           LookupDirect(new, n) = v, Marked(new, n) <=> plain,
           \A m \in Names \ {n} :
               /\ LookupDirect(new, m) = LookupDirect(env, m)
               /\ LookupDirect(env, m) # Unbound => (Marked(new, m) <=> Marked(env, m))
    PROVE  BindingsOf(new) = Rebound(env, n, [value |-> v, plain |-> plain])
  <1>1. v # Unbound
    BY NameAssumption
  <1>2. \A e, m : Marked(e, m) \in BOOLEAN
    BY MarkedType
  <1>3. BindingsOf(new)[n] = [value |-> v, plain |-> plain]
    <2>1. Marked(new, n) = plain
      BY <1>2
    <2> QED
      BY <1>1, <2>1, BindingOf
  <1>4. ASSUME NEW m \in Names \ {n}
        PROVE  BindingsOf(new)[m] = BindingsOf(env)[m]
    <2>1. CASE LookupDirect(env, m) = Unbound
      BY <2>1, BindingOf
    <2>2. CASE LookupDirect(env, m) # Unbound
      <3>1. Marked(new, m) = Marked(env, m)
        BY <1>2, <2>2
      <3> QED
        BY <2>2, <3>1, BindingOf
    <2> QED
      BY <2>1, <2>2
  <1>5. \A e : BindingsOf(e) = [m \in Names |-> BindingsOf(e)[m]]
    BY DEF BindingsOf
  <1> DEFINE B == BindingsOf(env)
             C == BindingsOf(new)
             b == [value |-> v, plain |-> plain]
  <1>6. /\ B = [m \in Names |-> B[m]]
        /\ C = [m \in Names |-> C[m]]
        /\ C[n] = b
        /\ \A m \in Names \ {n} : C[m] = B[m]
    BY <1>3, <1>4, <1>5
  <1>7. Rebound(env, n, b) = [B EXCEPT ![n] = b]
    BY DEF Rebound
  <1> HIDE DEF B, C, b
  <1>8. C = [B EXCEPT ![n] = b]
    BY <1>6
  <1> QED
    BY <1>7, <1>8 DEF B, C, b

-----------------------------------------------------------------------------

\* The name is in the map: its value changes there.
LEMMA BindInMap ==
    ASSUME NEW env, WellFormed(env), NEW n \in Names, NEW v \in Values, Spilled(env)
    PROVE  /\ WellFormed(Bind(env, n, v))
           /\ LookupDirect(Bind(env, n, v), n) = v
           /\ BindingsOf(Bind(env, n, v)) = Rebound(env, n, [value |-> v, plain |-> FALSE])
  <1> DEFINE new == [env EXCEPT !.bindings[n] = v, !.plainArrays = @ \ {n}]
  <1>1. Bind(env, n, v) = new
    BY DEF Bind
  <1>2. /\ env \in Fields /\ env.bindings \in Map /\ env.inline = << >>
        /\ env.plainInline \subseteq {}
    <2>1. env.bindings \in Map
      BY DEF WellFormed, Fields, Spilled
    <2>2. env.inline = << >> /\ DOMAIN << >> = {}
      BY DEF WellFormed
    <2> QED
      BY <2>1, <2>2 DEF WellFormed
  <1>3. /\ new.bindings = [env.bindings EXCEPT ![n] = v]
        /\ new.plainArrays = env.plainArrays \ {n}
        /\ new.inline = env.inline /\ new.plainInline = env.plainInline
    BY <1>2 DEF Fields
  <1>4. new.bindings \in Map /\ new.bindings # NoMap
    BY <1>2, <1>3, NameAssumption DEF Map
  <1>5. WellFormed(new)
    <2>1. new \in Fields
      BY <1>2, <1>4 DEF Fields
    <2>2. \A m \in new.plainArrays : new.bindings[m] # Unbound
      BY <1>2, <1>3 DEF WellFormed, Map, Fields
    <2> HIDE DEF new
    <2> QED
      BY <1>2, <1>3, <1>4, <2>1, <2>2 DEF WellFormed, Spilled
  <1>6. Spilled(new)
    BY <1>4 DEF Spilled
  <1> HIDE DEF new
  <1>7. /\ LookupDirect(new, n) = v /\ ~Marked(new, n)
        /\ \A m \in Names \ {n} :
              LookupDirect(new, m) = LookupDirect(env, m) /\ (Marked(new, m) <=> Marked(env, m))
    BY <1>2, <1>3, <1>6 DEF LookupDirect, Marked, Map
  <1> QED
    BY <1>1, <1>5, <1>7, SameButOne

\* The name has a slot: its value changes there and the slot's mark goes.
LEMMA BindInSlot ==
    ASSUME NEW env, WellFormed(env), NEW n \in Names, NEW v \in Values,
           ~Spilled(env), Slots(env, n) # {}
    PROVE  /\ WellFormed(Bind(env, n, v))
           /\ LookupDirect(Bind(env, n, v), n) = v
           /\ BindingsOf(Bind(env, n, v)) = Rebound(env, n, [value |-> v, plain |-> FALSE])
  <1>1. PICK i \in Slots(env, n) : TRUE
    OBVIOUS
  <1> DEFINE new == [env EXCEPT !.inline[i].value = v, !.plainInline = @ \ {i}]
  <1>2. Bind(env, n, v) = new
    BY <1>1, OneSlot DEF Bind
  <1>3. /\ env \in Fields /\ env.inline \in Seq(Slot)
        /\ i \in DOMAIN env.inline /\ env.inline[i].name = n
    BY <1>1 DEF WellFormed, Fields, Slots
  <1>4. /\ new.bindings = env.bindings /\ new.plainArrays = env.plainArrays
        /\ new.inline = [env.inline EXCEPT ![i].value = v]
        /\ new.plainInline = env.plainInline \ {i}
    BY <1>3 DEF Fields
  <1>5. /\ new.inline \in Seq(Slot) /\ DOMAIN new.inline = DOMAIN env.inline
        /\ \A j \in DOMAIN env.inline :
              /\ new.inline[j].name = env.inline[j].name
              /\ new.inline[j].value = IF j = i THEN v ELSE env.inline[j].value
    <2>1. \A j \in DOMAIN env.inline : env.inline[j] \in Slot
      BY <1>3
    <2> QED
      BY <1>3, <1>4, <2>1 DEF Slot
  <1>6. new \in Fields
    BY <1>3, <1>4, <1>5 DEF Fields
  <1>7. ~Spilled(new)
    BY <1>4 DEF Spilled
  <1> HIDE DEF new
  <1>8. WellFormed(new)
    BY <1>4, <1>5, <1>6, <1>7 DEF WellFormed, Spilled
  <1>9. \A m : Slots(new, m) = Slots(env, m)
    BY <1>5 DEF Slots
  <1>10. LookupDirect(new, n) = v /\ ~Marked(new, n)
    BY <1>1, <1>3, <1>4, <1>5, <1>7, <1>8, <1>9, SlotRead
  <1>11. ASSUME NEW m \in Names \ {n}
         PROVE  /\ LookupDirect(new, m) = LookupDirect(env, m)
                /\ Marked(new, m) <=> Marked(env, m)
    <2>1. CASE Slots(env, m) = {}
      BY <1>7, <1>9, <2>1 DEF LookupDirect, Marked
    <2>2. CASE Slots(env, m) # {}
      <3>1. PICK j \in Slots(env, m) : TRUE
        BY <2>2
      <3>2. j # i /\ j \in DOMAIN env.inline
        BY <1>3, <3>1 DEF Slots
      <3> QED
        BY <1>4, <1>5, <1>7, <1>8, <1>9, <3>1, <3>2, SlotRead
    <2> QED
      BY <2>1, <2>2
  <1> QED
    BY <1>2, <1>8, <1>10, <1>11, SameButOne

\* The name takes a free slot.
LEMMA BindInFreeSlot ==
    ASSUME NEW env, WellFormed(env), NEW n \in Names, NEW v \in Values,
           ~Spilled(env), Slots(env, n) = {}, Len(env.inline) < InlineCap
    PROVE  /\ WellFormed(Bind(env, n, v))
           /\ LookupDirect(Bind(env, n, v), n) = v
           /\ BindingsOf(Bind(env, n, v)) = Rebound(env, n, [value |-> v, plain |-> FALSE])
  <1> DEFINE s == [name |-> n, value |-> v]
             i == Len(env.inline) + 1
             new == [env EXCEPT !.inline = Append(@, s)]
  <1>1. Bind(env, n, v) = new
    BY DEF Bind
  <1>2. /\ env \in Fields /\ env.inline \in Seq(Slot) /\ s \in Slot
        /\ env.plainInline \subseteq DOMAIN env.inline
    BY DEF WellFormed, Fields, Slot
  <1>3. /\ new.bindings = env.bindings /\ new.plainArrays = env.plainArrays
        /\ new.inline = Append(env.inline, s) /\ new.plainInline = env.plainInline
    BY <1>2 DEF Fields
  <1>4. /\ new.inline \in Seq(Slot) /\ DOMAIN new.inline = DOMAIN env.inline \cup {i}
        /\ i \notin DOMAIN env.inline /\ new.inline[i] = s
        /\ \A j \in DOMAIN env.inline : new.inline[j] = env.inline[j]
    BY <1>2, <1>3
  <1>5. new \in Fields
    BY <1>2, <1>3, <1>4 DEF Fields
  <1>6. ~Spilled(new)
    BY <1>3 DEF Spilled
  <1>7. \A j \in DOMAIN env.inline : env.inline[j].name # n
    BY DEF Slots
  <1> HIDE DEF new, i
  <1>8. s.name = n /\ s.value = v
    OBVIOUS
  <1> HIDE DEF s
  <1>9. WellFormed(new)
    BY <1>2, <1>3, <1>4, <1>5, <1>6, <1>7, <1>8 DEF WellFormed, Spilled
  <1>10. /\ Slots(new, n) = {i}
         /\ \A m \in Names \ {n} : Slots(new, m) = Slots(env, m)
    BY <1>4, <1>7, <1>8 DEF Slots
  <1>11. LookupDirect(new, n) = v /\ ~Marked(new, n)
    <2>1. i \in Slots(new, n) /\ i \notin new.plainInline
      BY <1>2, <1>3, <1>4, <1>10
    <2> QED
      BY <1>4, <1>6, <1>8, <1>9, <2>1, SlotRead
  <1>12. ASSUME NEW m \in Names \ {n}
         PROVE  /\ LookupDirect(new, m) = LookupDirect(env, m)
                /\ Marked(new, m) <=> Marked(env, m)
    <2>1. CASE Slots(env, m) = {}
      BY <1>6, <1>10, <2>1 DEF LookupDirect, Marked
    <2>2. CASE Slots(env, m) # {}
      <3>1. PICK j \in Slots(env, m) : TRUE
        BY <2>2
      <3>2. j \in DOMAIN env.inline
        BY <3>1 DEF Slots
      <3> QED
        BY <1>3, <1>4, <1>6, <1>9, <1>10, <3>1, <3>2, SlotRead
    <2> QED
      BY <2>1, <2>2
  <1> QED
    BY <1>1, <1>9, <1>11, <1>12, SameButOne

\* Spilling moves every binding and every mark to the map and changes neither.
LEMMA SpillKeeps ==
    ASSUME NEW env, WellFormed(env), ~Spilled(env)
    PROVE  /\ WellFormed(Spill(env)) /\ Spilled(Spill(env))
           /\ \A m \in Names :
                 /\ LookupDirect(Spill(env), m) = LookupDirect(env, m)
                 /\ Marked(Spill(env), m) <=> Marked(env, m)
  <1> DEFINE new == Spill(env)
             marks == {env.inline[i].name : i \in env.plainInline}
  <1>1. env \in Fields /\ env.inline \in Seq(Slot) /\ env.plainInline \subseteq DOMAIN env.inline
    BY DEF WellFormed, Fields
  <1>2. ASSUME NEW i \in DOMAIN env.inline
        PROVE  env.inline[i].name \in Names
    <2>1. env.inline[i] \in Slot
      BY <1>1
    <2> QED
      BY <2>1 DEF Slot
  <1>3. marks \subseteq Names
    BY <1>1, <1>2
  <1>4. Inlined(env) \in Map /\ Inlined(env) # NoMap
    BY DirectType, NameAssumption DEF Inlined, Map
  <1>5. /\ new.bindings = Inlined(env) /\ new.plainArrays = marks
        /\ new.inline = << >> /\ new.plainInline = {}
    BY <1>1 DEF Spill, Fields
  <1>6. new \in Fields
    <2>1. << >> \in Seq(Slot)
      OBVIOUS
    <2> HIDE DEF marks
    <2> QED
      BY <1>1, <1>3, <1>4, <2>1 DEF Spill, Fields, marks
  <1>7. Spilled(new)
    BY <1>4, <1>5 DEF Spilled
  <1>8. \A m \in Names : m \in marks <=> Slots(env, m) \cap env.plainInline # {}
    BY <1>1 DEF Slots
  <1> HIDE DEF new, marks
  <1>9. ASSUME NEW m \in Names
        PROVE  /\ LookupDirect(new, m) = LookupDirect(env, m)
               /\ Marked(new, m) <=> Marked(env, m)
    BY <1>5, <1>7, <1>8 DEF LookupDirect, Inlined, Marked
  <1>10. \A m \in marks : new.bindings[m] # Unbound
    <2>1. ASSUME NEW m \in marks
          PROVE  LookupDirect(env, m) # Unbound
      BY <1>3, <1>8, <2>1, DirectType
    <2> QED
      BY <1>3, <1>5, <2>1 DEF Inlined
  <1>11. WellFormed(new)
    BY <1>5, <1>6, <1>7, <1>10 DEF WellFormed
  <1> QED
    BY <1>7, <1>9, <1>11 DEF new

\* No slot is left: the slots spill and the name goes to the map.
LEMMA BindSpills ==
    ASSUME NEW env, WellFormed(env), NEW n \in Names, NEW v \in Values,
           ~Spilled(env), Slots(env, n) = {}, ~(Len(env.inline) < InlineCap)
    PROVE  /\ WellFormed(Bind(env, n, v))
           /\ LookupDirect(Bind(env, n, v), n) = v
           /\ BindingsOf(Bind(env, n, v)) = Rebound(env, n, [value |-> v, plain |-> FALSE])
  <1> DEFINE spilt == Spill(env)
             new == [spilt EXCEPT !.bindings[n] = v]
  <1>1. Bind(env, n, v) = new
    BY DEF Bind
  <1>2. WellFormed(spilt) /\ Spilled(spilt)
    BY SpillKeeps
  <1>3. /\ \A m \in Names : LookupDirect(spilt, m) = LookupDirect(env, m)
        /\ \A m \in Names : Marked(spilt, m) <=> Marked(env, m)
    BY SpillKeeps
  <1>4. LookupDirect(env, n) = Unbound
    BY DEF LookupDirect
  <1> HIDE DEF spilt
  <1>5. n \notin spilt.plainArrays
    BY <1>2, <1>3, <1>4 DEF WellFormed, LookupDirect
  <1>6. new = [spilt EXCEPT !.bindings[n] = v, !.plainArrays = @ \ {n}]
    <2>1. spilt.plainArrays \ {n} = spilt.plainArrays
      BY <1>5
    <2>2. spilt \in Fields
      BY <1>2 DEF WellFormed
    <2> QED
      BY <2>1, <2>2 DEF Fields
  <1>7. new = Bind(spilt, n, v)
    BY <1>2, <1>6 DEF Bind
  <1>8. /\ WellFormed(new) /\ LookupDirect(new, n) = v
        /\ BindingsOf(new) = Rebound(spilt, n, [value |-> v, plain |-> FALSE])
    BY <1>2, <1>7, BindInMap
  <1>9. BindingsOf(spilt) = BindingsOf(env)
    <2>1. ASSUME NEW m \in Names
          PROVE  Marked(spilt, m) = Marked(env, m)
      BY <1>3 DEF Marked
    <2> QED
      BY <1>3, <2>1 DEF BindingsOf
  <1> QED
    BY <1>1, <1>8, <1>9 DEF Rebound

-----------------------------------------------------------------------------

\* Bind gives a name a value and clears its mark, wherever the name is kept,
\* and disturbs no other name: what a scope binds does not depend on how many
\* names it has bound before.
THEOREM BindRebinds ==
    ASSUME NEW env, WellFormed(env), NEW n \in Names, NEW v \in Values
    PROVE  /\ WellFormed(Bind(env, n, v))
           /\ LookupDirect(Bind(env, n, v), n) = v
           /\ BindingsOf(Bind(env, n, v)) = Rebound(env, n, [value |-> v, plain |-> FALSE])
  BY BindInMap, BindInSlot, BindInFreeSlot, BindSpills

\* MarkPlainArray after Bind marks the name that was bound and no other.
THEOREM MarkMarksOne ==
    ASSUME NEW env, WellFormed(env), NEW n \in Names, LookupDirect(env, n) # Unbound
    PROVE  /\ WellFormed(MarkPlainArray(env, n))
           /\ BindingsOf(MarkPlainArray(env, n))
                = Rebound(env, n, [value |-> LookupDirect(env, n), plain |-> TRUE])
  <1> DEFINE new == MarkPlainArray(env, n)
             v == LookupDirect(env, n)
  <1>1. v \in Values
    BY DirectType
  <1>2. env \in Fields
    BY DEF WellFormed
  <1>3. CASE Spilled(env)
    <2>1. /\ new.bindings = env.bindings /\ new.inline = env.inline
          /\ new.plainInline = env.plainInline
          /\ new.plainArrays = env.plainArrays \cup {n}
          /\ new \in Fields
      BY <1>2, <1>3 DEF MarkPlainArray, Fields
    <2>2. env.bindings[n] # Unbound
      BY <1>3 DEF LookupDirect
    <2> HIDE DEF new
    <2>3. WellFormed(new)
      BY <1>3, <2>1, <2>2 DEF WellFormed, Spilled
    <2>4. /\ LookupDirect(new, n) = v /\ Marked(new, n)
          /\ \A m \in Names \ {n} :
                /\ LookupDirect(new, m) = LookupDirect(env, m)
                /\ Marked(new, m) <=> Marked(env, m)
      BY <1>3, <2>1 DEF LookupDirect, Marked, Spilled
    <2> QED
      BY <1>1, <2>3, <2>4, SameButOne DEF new
  <1>4. CASE ~Spilled(env)
    <2>1. PICK i \in Slots(env, n) : TRUE
      BY <1>4, DirectType
    <2>2. Slots(env, n) = {i} /\ i \in DOMAIN env.inline
      BY <2>1, OneSlot DEF Slots
    <2>3. i \in Nat
      BY <1>2, <2>2 DEF Fields
    <2>4. /\ new.bindings = env.bindings /\ new.inline = env.inline
          /\ new.plainInline = env.plainInline \cup {i}
          /\ new.plainArrays = env.plainArrays
          /\ new \in Fields
      BY <1>2, <1>4, <2>2, <2>3 DEF MarkPlainArray, Fields
    <2> HIDE DEF new
    <2>5. WellFormed(new)
      BY <1>4, <2>2, <2>4 DEF WellFormed, Spilled
    <2>6. ~Spilled(new) /\ \A m : Slots(new, m) = Slots(env, m)
      BY <1>4, <2>4 DEF Spilled, Slots
    <2>7. ASSUME NEW m \in Names
          PROVE  LookupDirect(new, m) = LookupDirect(env, m)
      <3>1. CASE Slots(env, m) = {}
        BY <1>4, <2>6, <3>1 DEF LookupDirect
      <3>2. CASE Slots(env, m) # {}
        <4>1. PICK j \in Slots(env, m) : TRUE
          BY <3>2
        <4> QED
          BY <1>4, <2>4, <2>5, <2>6, <4>1, SlotRead
      <3> QED
        BY <3>1, <3>2
    <2>8. \A m \in Names \ {n} : i \notin Slots(env, m)
      BY <2>1 DEF Slots
    <2>9. /\ Marked(new, n)
          /\ \A m \in Names \ {n} : Marked(new, m) <=> Marked(env, m)
      BY <1>4, <2>2, <2>4, <2>6, <2>8 DEF Marked
    <2> QED
      BY <1>1, <2>5, <2>7, <2>9, SameButOne DEF new
  <1> QED
    BY <1>3, <1>4

\* A new scope is well formed and binds nothing.
THEOREM ChildIsEmpty ==
    ASSUME NEW kind \in Kinds, NEW parent \in Nat
    PROVE  /\ WellFormed(Child(kind, parent))
           /\ \A n \in Names : BindingsOf(Child(kind, parent))[n] = Unbound
  <1> DEFINE c == Child(kind, parent)
  <1>1. << >> \in Seq(Slot) /\ DOMAIN << >> = {}
    OBVIOUS
  <1>2. /\ c.inline = << >> /\ c.plainInline = {} /\ c.bindings = NoMap /\ c.plainArrays = {}
        /\ c \in Fields
    BY <1>1 DEF Child, Fields
  <1> HIDE DEF c
  <1>3. WellFormed(c) /\ ~Spilled(c)
    BY <1>1, <1>2 DEF WellFormed, Spilled
  <1>4. \A n \in Names : LookupDirect(c, n) = Unbound
    BY <1>1, <1>2, <1>3 DEF LookupDirect, Slots
  <1> QED
    BY <1>3, <1>4 DEF BindingsOf, c

-----------------------------------------------------------------------------

\* A name has a binding where it has a value.
LEMMA BoundWhereValue ==
    ASSUME NEW env, WellFormed(env), NEW n \in Names
    PROVE  BindingsOf(env)[n] = Unbound <=> LookupDirect(env, n) = Unbound
  <1>1. CASE LookupDirect(env, n) = Unbound
    BY <1>1, BindingOf
  <1>2. CASE LookupDirect(env, n) # Unbound
    <2>1. LookupDirect(env, n) \in Values /\ Marked(env, n) \in BOOLEAN
      BY <1>2, DirectType, MarkedType
    <2>2. \A x \in Values, y \in BOOLEAN : [value |-> x, plain |-> y] # Unbound
      BY NameAssumption
    <2>3. BindingsOf(env)[n] = [value |-> LookupDirect(env, n), plain |-> Marked(env, n)]
      BY <1>2, BindingOf
    <2> QED
      BY <1>2, <2>1, <2>2, <2>3, Zenon
  <1> QED
    BY <1>1, <1>2

\* The well-formed environments, and the name a fold takes first.
Environments == {env \in Fields : WellFormed(env)}
First(names) == CHOOSE n \in names : TRUE

\* The fold of a map's entries into a scope, one set of names after another.
Folded(out, env, names, map) ==
    out = [s \in SUBSET names |->
              IF s = {} THEN env ELSE Bind(out[s \ {First(s)}], First(s), map[First(s)])]

\* BindEach is the end of such a fold.
LEMMA BindEachFolds ==
    ASSUME NEW env, WellFormed(env), NEW names \in SUBSET Names, IsFiniteSet(names),
           NEW map \in [names -> Values]
    PROVE  \E out : Folded(out, env, names, map) /\ BindEach(env, names, map) = out[names]
  <1> DEFINE Unfolded(out) == [s \in SUBSET names |->
                                IF s = {} THEN env
                                ELSE Bind(out[s \ {First(s)}], First(s), map[First(s)])]
             Out == CHOOSE out : out = Unfolded(out)
  <1>1. \E out : out = Unfolded(out)
    <2> DEFINE I == SUBSET names
               m == Cardinality(names)
               rank == [s \in I |-> Cardinality(s)]
               own == [s \in I |-> env]
               prev == [s \in I |-> s \ {First(s)}]
               step == [s \in I |-> [c \in Environments |-> Bind(c, First(s), map[First(s)])]]
    <2>1. ASSUME NEW s \in I, s # {}
          PROVE  First(s) \in s /\ First(s) \in Names /\ map[First(s)] \in Values
      BY <2>1 DEF First
    <2>2. Recursion(I, m, rank, Environments, {{}}, own, prev, step)
      <3>1. m \in Nat /\ rank \in [I -> 0 .. m]
        BY FS_CardinalityType, FS_Subset
      <3>2. own \in [I -> Environments]
        BY DEF Environments, WellFormed
      <3>3. ASSUME NEW s \in I \ {{}}
            PROVE  prev[s] \in I /\ rank[prev[s]] < rank[s] /\ step[s] \in [Environments -> Environments]
        <4>1. s \in I /\ s # {} /\ prev[s] = s \ {First(s)} /\ prev[s] \in I
          OBVIOUS
        <4>2. IsFiniteSet(s) /\ First(s) \in s
          BY <2>1, <4>1, FS_Subset
        <4>3. Cardinality(s \ {First(s)}) = Cardinality(s) - 1 /\ Cardinality(s) \in Nat
          BY <4>2, FS_RemoveElement, FS_CardinalityType
        <4>4. \A c \in Environments : Bind(c, First(s), map[First(s)]) \in Environments
          <5> SUFFICES ASSUME NEW c \in Environments
                       PROVE  Bind(c, First(s), map[First(s)]) \in Environments
            OBVIOUS
          <5>1. First(s) \in Names /\ map[First(s)] \in Values
            BY <2>1, <4>1
          <5>2. WellFormed(Bind(c, First(s), map[First(s)]))
            BY <5>1, BindRebinds DEF Environments
          <5> QED
            BY <5>2 DEF Environments, WellFormed
        <4> QED
          BY <4>1, <4>3, <4>4
      <3> HIDE DEF I, m, rank, own, prev, step
      <3> QED
        BY <3>1, <3>2, <3>3 DEF Recursion
    <2>3. PICK f \in [I -> Environments] : Solves(f, I, {{}}, own, prev, step)
      <3> HIDE DEF I, m, rank, own, prev, step
      <3> QED
        BY <2>2, RankRecursion
    <2>4. ASSUME NEW s \in I
          PROVE  f[s] = Unfolded(f)[s]
      <3>1. f[s] = IF s \in {{}} THEN own[s] ELSE step[s][f[prev[s]]]
        BY <2>3 DEF Solves
      <3>2. f[prev[s]] \in Environments
        OBVIOUS
      <3> QED
        BY <3>1, <3>2
    <2>5. f = Unfolded(f)
      BY <2>4
    <2> QED
      BY <2>5
  <1>2. Out = Unfolded(Out)
    BY <1>1
  <1>3. BindEach(env, names, map) = Out[names]
    BY DEF BindEach, FoldSet, MapThenFoldSet, First
  <1> QED
    BY <1>2, <1>3 DEF Folded

\* What a scope keeps when names are bound in it.
Placed(new, env) == new.parent = env.parent /\ new.kind = env.kind /\ new.from = env.from

\* Binding a name moves no scope.
LEMMA BindPlaces ==
    ASSUME NEW env, WellFormed(env), NEW n, NEW v
    PROVE  Placed(Bind(env, n, v), env)
  BY DEF WellFormed, Fields, Bind, Spill, Placed

\* Reads of a name after another was bound.
LEMMA BindReads ==
    ASSUME NEW env, WellFormed(env), NEW n \in Names, NEW v \in Values, NEW m \in Names
    PROVE  LookupDirect(Bind(env, n, v), m) = IF m = n THEN v ELSE LookupDirect(env, m)
  <1> DEFINE new == Bind(env, n, v)
             b == [value |-> v, plain |-> FALSE]
  <1>1. /\ WellFormed(new) /\ LookupDirect(new, n) = v
        /\ BindingsOf(new) = Rebound(env, n, b)
    BY BindRebinds
  <1> HIDE DEF new, b
  <1>2. CASE m # n
    <2>1. BindingsOf(new)[m] = BindingsOf(env)[m]
      <3>1. m \in DOMAIN BindingsOf(env)
        BY DEF BindingsOf
      <3> QED
        BY <1>1, <1>2, <3>1 DEF Rebound
    <2>2. CASE LookupDirect(new, m) = Unbound
      <3>1. LookupDirect(env, m) = Unbound
        BY <1>1, <2>1, <2>2, BoundWhereValue
      <3> QED
        BY <1>2, <2>2, <3>1 DEF new
    <2>3. CASE LookupDirect(new, m) # Unbound
      <3>1. LookupDirect(env, m) # Unbound
        BY <1>1, <2>1, <2>3, BoundWhereValue
      <3>2. /\ BindingsOf(new)[m].value = LookupDirect(new, m)
            /\ BindingsOf(env)[m].value = LookupDirect(env, m)
        <4>1. /\ BindingsOf(new)[m] = [value |-> LookupDirect(new, m), plain |-> Marked(new, m)]
              /\ BindingsOf(env)[m] = [value |-> LookupDirect(env, m), plain |-> Marked(env, m)]
          BY <2>3, <3>1, BindingOf
        <4> QED
          BY <4>1
      <3> QED
        BY <1>2, <2>1, <3>2 DEF new
    <2> QED
      BY <2>2, <2>3
  <1> QED
    BY <1>1, <1>2 DEF new

\* The bindings of a map given to a scope, none of them marked.
BoundTo(new, env, names, map) ==
    \A n \in Names : BindingsOf(new)[n] = IF n \in names THEN Binding(map[n], FALSE)
                                          ELSE BindingsOf(env)[n]

\* Binding each entry of a map binds every name of it to its value there,
\* unmarked, and leaves the other names as they were.
THEOREM BindEachBinds ==
    ASSUME NEW env, WellFormed(env), NEW names \in SUBSET Names, IsFiniteSet(names),
           NEW map \in [names -> Values]
    PROVE  LET new == BindEach(env, names, map)
           IN  /\ WellFormed(new) /\ Placed(new, env) /\ BoundTo(new, env, names, map)
               /\ \A n \in Names :
                     LookupDirect(new, n) = IF n \in names THEN map[n] ELSE LookupDirect(env, n)
  <1>1. PICK out : Folded(out, env, names, map) /\ BindEach(env, names, map) = out[names]
    BY BindEachFolds
  <1> DEFINE Good(s) ==
                /\ WellFormed(out[s]) /\ Placed(out[s], env)
                /\ \A n \in Names :
                     LookupDirect(out[s], n) = IF n \in s THEN map[n] ELSE LookupDirect(env, n)
                /\ \A n \in Names :
                     BindingsOf(out[s])[n] = IF n \in s THEN Binding(map[n], FALSE)
                                             ELSE BindingsOf(env)[n]
             I == SUBSET names
             rank == [s \in I |-> Cardinality(s)]
             P == {s \in I : Good(s)}
  <1>2. Good({})
    <2>1. out[{}] = env
      BY <1>1 DEF Folded
    <2> QED
      BY <2>1 DEF Placed
  <1>3. ASSUME NEW s \in I, s # {}, Good(s \ {First(s)})
        PROVE  Good(s)
    <2> DEFINE n == First(s)
               t == s \ {n}
    <2>1. n \in s /\ n \in Names /\ map[n] \in Values
      BY <1>3 DEF First
    <2>2. out[s] = Bind(out[t], n, map[n])
      BY <1>1, <1>3 DEF Folded
    <2>3. Good(t)
      BY <1>3
    <2> HIDE DEF n, t
    <2>4. WellFormed(out[t])
      BY <2>3
    <2>5. WellFormed(out[s])
      BY <2>4, <2>1, <2>2, BindRebinds
    <2>6. Placed(out[s], env)
      BY <2>3, <2>2, BindPlaces DEF Placed
    <2>7. ASSUME NEW m \in Names
          PROVE  LookupDirect(out[s], m) = IF m \in s THEN map[m] ELSE LookupDirect(env, m)
      <3>1. LookupDirect(out[s], m) = IF m = n THEN map[n] ELSE LookupDirect(out[t], m)
        BY <2>3, <2>1, <2>2, BindReads
      <3>2. LookupDirect(out[t], m) = IF m \in t THEN map[m] ELSE LookupDirect(env, m)
        BY <2>3
      <3> QED
        BY <2>1, <3>1, <3>2 DEF t
    <2>8. ASSUME NEW m \in Names
          PROVE  BindingsOf(out[s])[m] = IF m \in s THEN Binding(map[m], FALSE)
                                         ELSE BindingsOf(env)[m]
      <3>0. BindingsOf(out[s]) = Rebound(out[t], n, Binding(map[n], FALSE))
        BY <2>1, <2>2, <2>4, BindRebinds DEF Binding
      <3>1. BindingsOf(out[s]) = [BindingsOf(out[t]) EXCEPT ![n] = Binding(map[n], FALSE)]
        BY <3>0 DEF Rebound
      <3>2. DOMAIN BindingsOf(out[t]) = Names
        BY DEF BindingsOf
      <3>3. BindingsOf(out[t])[m] = IF m \in t THEN Binding(map[m], FALSE) ELSE BindingsOf(env)[m]
        BY <2>3
      <3> QED
        BY <2>1, <3>1, <3>2, <3>3 DEF t
    <2> QED
      BY <2>5, <2>6, <2>7, <2>8
  <1>4. I \subseteq P
    <2>1. rank \in [I -> Nat]
      BY FS_CardinalityType, FS_Subset
    <2>2. ASSUME NEW s \in I, \A t \in I : rank[t] < rank[s] => t \in P
          PROVE  s \in P
      <3>1. CASE s = {}
        BY <1>2, <3>1
      <3>2. CASE s # {}
        <4>1. First(s) \in s /\ IsFiniteSet(s) /\ s \ {First(s)} \in I
          BY <3>2, FS_Subset DEF First
        <4>2. Cardinality(s \ {First(s)}) = Cardinality(s) - 1 /\ Cardinality(s) \in Nat
          BY <4>1, FS_RemoveElement, FS_CardinalityType
        <4>3. rank[s \ {First(s)}] < rank[s]
          BY <4>1, <4>2
        <4>4. s \ {First(s)} \in P
          BY <2>2, <4>1, <4>3
        <4> HIDE DEF Good
        <4> QED
          BY <1>3, <3>2, <4>4
      <3> QED
        BY <3>1, <3>2
    <2> HIDE DEF I, P, rank
    <2> QED
      BY <2>1, <2>2, RankInduction
  <1>5. Good(names)
    <2> HIDE DEF Good
    <2> QED
      BY <1>4
  <1> QED
    BY <1>1, <1>5 DEF BoundTo

\* A rebinding adds at most its name to those a scope binds.
LEMMA ReboundNames ==
    ASSUME NEW env, WellFormed(env), NEW new, WellFormed(new),
           NEW n \in Names, NEW v \in Values, NEW plain \in BOOLEAN,
           BindingsOf(new) = Rebound(env, n, [value |-> v, plain |-> plain])
    PROVE  BoundNames(new) = BoundNames(env) \cup {n}
  <1> DEFINE b == [value |-> v, plain |-> plain]
  <1>1. b # Unbound
    BY NameAssumption
  <1>2. DOMAIN BindingsOf(env) = Names
    BY DEF BindingsOf
  <1> HIDE DEF b
  <1>3. BindingsOf(new)[n] = b /\ \A m \in Names \ {n} : BindingsOf(new)[m] = BindingsOf(env)[m]
    BY <1>2 DEF Rebound, b
  <1>4. LookupDirect(new, n) # Unbound
    BY <1>1, <1>3, BoundWhereValue
  <1>5. \A m \in Names \ {n} : LookupDirect(new, m) = Unbound <=> LookupDirect(env, m) = Unbound
    BY <1>3, BoundWhereValue
  <1> QED
    BY <1>4, <1>5 DEF BoundNames

-----------------------------------------------------------------------------
(* The environments of an evaluation together.                             *)

\* The scopes that the environments stand for.
Scope(env) == [parent |-> env.parent, vars |-> BindingsOf(env)]
ScopeOf == [e \in DOMAIN envs |-> Scope(envs[e])]

AllWellFormed == envs \in Seq(Fields) /\ \A e \in DOMAIN envs : WellFormed(envs[e])

\* A scope is older than those below it, and only the root has none above.
Tree ==
    \A e \in DOMAIN envs :
        envs[e].parent < e /\ (envs[e].kind = "block" => envs[e].parent # 0)

\* Nothing binds more than finitely many names, so that a range over a scope ends.
FewBound == \A e \in DOMAIN envs : IsFiniteSet(BoundNames(envs[e]))

Inv == AllWellFormed /\ Tree /\ FewBound

LEMMA BindingsType ==
    ASSUME NEW env, WellFormed(env)
    PROVE  BindingsOf(env) \in ScopeTree!Vars
  <1>1. ASSUME NEW n \in Names
        PROVE  BindingsOf(env)[n] \in ScopeTree!Bindings \cup {Unbound}
    <2>1. CASE LookupDirect(env, n) = Unbound
      BY <2>1, BindingOf
    <2>2. CASE LookupDirect(env, n) # Unbound
      <3>1. LookupDirect(env, n) \in Values /\ Marked(env, n) \in BOOLEAN
        BY <2>2, DirectType, MarkedType
      <3>2. \A x \in Values, y \in BOOLEAN :
               [value |-> x, plain |-> y] \in ScopeTree!Bindings
        BY DEF ScopeTree!Bindings
      <3>3. BindingsOf(env)[n] = [value |-> LookupDirect(env, n), plain |-> Marked(env, n)]
        BY <2>2, BindingOf
      <3> QED
        BY <3>1, <3>2, <3>3, Zenon
    <2> QED
      BY <2>1, <2>2
  <1>2. BindingsOf(env) = [n \in Names |-> BindingsOf(env)[n]]
    BY DEF BindingsOf
  <1> DEFINE B == BindingsOf(env)
  <1>3. B = [n \in Names |-> B[n]] /\ \A n \in Names : B[n] \in ScopeTree!Bindings \cup {Unbound}
    BY <1>1, <1>2
  <1> HIDE DEF B
  <1>4. B \in [Names -> ScopeTree!Bindings \cup {Unbound}]
    BY <1>3
  <1> QED
    BY <1>4 DEF B, ScopeTree!Vars

\* A new scope binds no name.
LEMMA ChildBindsNone ==
    ASSUME NEW kind \in Kinds, NEW parent \in Nat
    PROVE  /\ \A n \in Names : LookupDirect(Child(kind, parent), n) = Unbound
           /\ BoundNames(Child(kind, parent)) = {} /\ IsFiniteSet(BoundNames(Child(kind, parent)))
  <1>1. \A n \in Names : LookupDirect(Child(kind, parent), n) = Unbound
    BY ChildIsEmpty, BoundWhereValue
  <1> QED
    BY <1>1, FS_EmptySet DEF BoundNames

\* A new scope, and one with a single binding, as the abstract tree has them.
LEMMA ChildBindings ==
    ASSUME NEW kind \in Kinds, NEW parent \in Nat
    PROVE  /\ BindingsOf(Child(kind, parent)) = Nothing
           /\ \A n, b : Rebound(Child(kind, parent), n, b) = Only(n, b)
  <1>1. BindingsOf(Child(kind, parent)) = Nothing
    <2> DEFINE B == BindingsOf(Child(kind, parent))
    <2>1. B = [n \in Names |-> B[n]] /\ \A n \in Names : B[n] = Unbound
      BY ChildIsEmpty DEF BindingsOf
    <2> HIDE DEF B
    <2> QED
      BY <2>1 DEF B, Nothing
  <1> QED
    BY <1>1 DEF Rebound, Only

\* A new well-formed environment is a new scope.
LEMMA AppendOpens ==
    ASSUME Inv, NEW c, WellFormed(c), IsFiniteSet(BoundNames(c)), c.parent \in DOMAIN envs,
           envs' = Append(envs, c)
    PROVE  Inv' /\ ScopeTree!Open(c.parent, BindingsOf(c))
  <1> DEFINE old == ScopeOf
             new == ScopeOf'
             n == Len(envs)
  <1>1. n \in Nat /\ c \in Fields /\ envs \in Seq(Fields) /\ DOMAIN envs = 1 .. n
    BY DEF Inv, AllWellFormed, WellFormed
  <1>2. /\ envs' \in Seq(Fields) /\ DOMAIN envs' = 1 .. n + 1 /\ envs'[n + 1] = c
        /\ \A e \in 1 .. n : envs'[e] = envs[e]
    BY <1>1
  <1>3. Inv'
    <2>1. AllWellFormed'
      BY <1>1, <1>2 DEF Inv, AllWellFormed
    <2>2. Tree'
      BY <1>1, <1>2 DEF Inv, Tree
    <2>3. FewBound'
      <3>1. \A e \in 1 .. n + 1 : IsFiniteSet(BoundNames(envs'[e]))
        BY <1>1, <1>2 DEF Inv, FewBound
      <3> QED
        BY <1>2, <3>1 DEF FewBound, BoundNames
    <2> QED
      BY <2>1, <2>2, <2>3 DEF Inv
  <1>4. old = [e \in 1 .. n |-> Scope(envs[e])] /\ new = [e \in 1 .. n + 1 |-> Scope(envs'[e])]
    BY <1>1, <1>2 DEF ScopeOf
  <1> DEFINE S == {Scope(envs'[e]) : e \in 1 .. n + 1}
  <1>5. old \in [1 .. n -> S] /\ new \in [1 .. n + 1 -> S]
    BY <1>1, <1>2, <1>4
  <1>6. new[n + 1] = Scope(c) /\ \A e \in 1 .. n : new[e] = old[e]
    BY <1>1, <1>2, <1>4
  <1>7. Scope(c) = [parent |-> c.parent, vars |-> BindingsOf(c)]
    BY DEF Scope
  <1> HIDE DEF old, new, n, S
  <1>8. old \in Seq(S) /\ new \in Seq(S) /\ Len(old) = n /\ Len(new) = n + 1 /\ DOMAIN old = 1 .. n
    BY <1>1, <1>5
  <1>9. SubSeq(new, 1, n) = old
    BY <1>1, <1>6, <1>8
  <1>10. /\ Len(new) = Len(old) + 1 /\ SubSeq(new, 1, Len(old)) = old
         /\ c.parent \in DOMAIN old /\ BindingsOf(c) \in ScopeTree!Vars
         /\ new[Len(new)] = [parent |-> c.parent, vars |-> BindingsOf(c)]
    BY <1>1, <1>6, <1>7, <1>8, <1>9, BindingsType
  <1> QED
    BY <1>3, <1>10 DEF ScopeTree!Open, ScopeOf, Scope, old, new

\* Opening a scope is a step of the abstract tree.
LEMMA OpenIsNext ==
    ASSUME NEW parent, NEW bindings, ScopeTree!Open(parent, bindings)
    PROVE  ScopeTree!Next
  <1> DEFINE new == ScopeOf'[Len(ScopeOf')]
  <1>1. new = [parent |-> parent, vars |-> bindings]
    BY DEF ScopeTree!Open, ScopeOf, Scope
  <1> HIDE DEF new
  <1>2. new.parent = parent /\ new.vars = bindings
    BY <1>1
  <1>3. ScopeTree!Open(new.parent, new.vars)
    BY <1>2 DEF ScopeTree!Open
  <1> QED
    BY <1>3 DEF ScopeTree!Next, ScopeTree!Open, ScopeOf, Scope, new

\* A rebinding of one environment is that rebinding of its scope, and a step of
\* the abstract tree or none.
LEMMA ReboundBinds ==
    ASSUME Inv, NEW e \in DOMAIN envs, NEW new, WellFormed(new),
           Placed(new, envs[e]), IsFiniteSet(BoundNames(new)),
           NEW n \in Names, NEW b \in ScopeTree!Bindings,
           BindingsOf(new) = Rebound(envs[e], n, b),
           envs' = [envs EXCEPT ![e] = new]
    PROVE  Inv' /\ ScopeTree!Bind(e, n, b) /\ [ScopeTree!Next]_ScopeOf
  <1> DEFINE old == ScopeOf
             next == ScopeOf'
  <1>1. envs \in Seq(Fields) /\ new \in Fields /\ DOMAIN envs = 1 .. Len(envs) /\ Len(envs) \in Nat
    BY DEF Inv, AllWellFormed, WellFormed
  <1>2. /\ envs' \in Seq(Fields) /\ DOMAIN envs' = DOMAIN envs /\ envs'[e] = new
        /\ \A d \in DOMAIN envs \ {e} : envs'[d] = envs[d]
    BY <1>1
  <1>3. Inv'
    <2>1. AllWellFormed'
      BY <1>2 DEF Inv, AllWellFormed
    <2>2. Tree'
      BY <1>2 DEF Inv, Tree, Placed
    <2>3. FewBound'
      <3>1. \A d \in DOMAIN envs : IsFiniteSet(BoundNames(envs'[d]))
        BY <1>2 DEF Inv, FewBound
      <3> QED
        BY <1>2, <3>1 DEF FewBound, BoundNames
    <2> QED
      BY <2>1, <2>2, <2>3 DEF Inv
  <1>4. /\ old = [d \in DOMAIN envs |-> Scope(envs[d])]
        /\ next = [d \in DOMAIN envs |-> Scope(envs'[d])]
    BY <1>2 DEF ScopeOf
  <1>5. /\ \A d \in DOMAIN envs \ {e} : next[d] = old[d]
        /\ next[e] = [parent |-> envs[e].parent, vars |-> Rebound(envs[e], n, b)]
        /\ old[e] = [parent |-> envs[e].parent, vars |-> BindingsOf(envs[e])]
    BY <1>2, <1>4 DEF Scope, Placed
  <1>6. DOMAIN old = DOMAIN envs /\ DOMAIN next = DOMAIN envs
    BY <1>4
  <1>7. n \in DOMAIN BindingsOf(envs[e])
    BY DEF BindingsOf
  <1>8. /\ next[e].vars[n] = b
        /\ next[e] = [old[e] EXCEPT !.vars[n] = b]
    BY <1>5, <1>7 DEF Rebound
  <1>9. next = [old EXCEPT ![e].vars[n] = b]
    <2> HIDE DEF old, next
    <2>1. /\ old = [d \in DOMAIN envs |-> old[d]]
          /\ next = [d \in DOMAIN envs |-> next[d]]
      BY <1>4 DEF old, next
    <2> QED
      BY <1>5, <1>8, <2>1
  <1>0. ScopeTree!Bind(e, n, b)
    BY <1>9 DEF ScopeTree!Bind, ScopeOf, Scope
  <1>10. CASE old[e].vars[n] = b
    <2>1. Rebound(envs[e], n, b) = BindingsOf(envs[e])
      <3> DEFINE B == BindingsOf(envs[e])
      <3>1. B = [m \in Names |-> B[m]] /\ B[n] = b
        BY <1>5, <1>10 DEF BindingsOf
      <3> HIDE DEF B
      <3>2. [B EXCEPT ![n] = b] = B
        BY <3>1
      <3> QED
        BY <3>2 DEF B, Rebound
    <2>2. \A d \in DOMAIN envs : next[d] = old[d]
      BY <1>5, <2>1
    <2>3. next = old
      BY <1>4, <2>2
    <2> QED
      BY <1>0, <1>3, <2>3
  <1>11. CASE old[e].vars[n] # b
    <2>1. Len(next) = Len(old)
      BY <1>1, <1>4
    <2>2. next[e].vars[n] # old[e].vars[n] /\ next[e].vars[n] \in ScopeTree!Bindings
      BY <1>8, <1>11
    <2>3. next = [old EXCEPT ![e].vars[n] = next[e].vars[n]]
      BY <1>8, <1>9
    <2>4. ScopeTree!Next
      BY <1>6, <2>1, <2>2, <2>3 DEF ScopeTree!Next, ScopeTree!Bind, ScopeOf, Scope
    <2> QED
      BY <1>0, <1>3, <2>4
  <1> QED
    BY <1>10, <1>11

\* A bound name's scope after a mark that may follow the binding.
MaybeMarked(env, n, plain) == IF plain THEN MarkPlainArray(env, n) ELSE env

LEMMA BindThenMark ==
    ASSUME NEW env, WellFormed(env), NEW n \in Names, NEW v \in Values, NEW plain \in BOOLEAN
    PROVE  LET new == MaybeMarked(Bind(env, n, v), n, plain)
           IN  /\ WellFormed(new) /\ Placed(new, env)
               /\ BindingsOf(new) = Rebound(env, n, [value |-> v, plain |-> plain])
               /\ IsFiniteSet(BoundNames(env)) => IsFiniteSet(BoundNames(new))
  <1> DEFINE bound == Bind(env, n, v)
             new == MaybeMarked(bound, n, plain)
             b == [value |-> v, plain |-> plain]
  <1>1. WellFormed(bound) /\ BindingsOf(bound) = Rebound(env, n, [value |-> v, plain |-> FALSE])
    BY BindRebinds
  <1>2. Placed(bound, env)
    BY BindPlaces
  <1>3. /\ WellFormed(new) /\ Placed(new, env)
        /\ BindingsOf(new) = Rebound(env, n, b)
    <2>1. CASE ~plain
      BY <1>1, <1>2, <2>1 DEF MaybeMarked
    <2>2. CASE plain
      <3>1. LookupDirect(bound, n) = v /\ v # Unbound
        BY BindRebinds, NameAssumption
      <3>2. /\ WellFormed(new)
            /\ BindingsOf(new) = Rebound(bound, n, [value |-> v, plain |-> TRUE])
        <4> HIDE DEF bound
        <4> QED
          BY <1>1, <2>2, <3>1, MarkMarksOne DEF MaybeMarked
      <3>3. Rebound(bound, n, [value |-> v, plain |-> TRUE]) = Rebound(env, n, b)
        BY <1>1, <2>2 DEF Rebound
      <3>4. Placed(new, bound)
        <4>1. bound \in Fields
          BY <1>1 DEF WellFormed
        <4> HIDE DEF bound
        <4> QED
          BY <2>2, <4>1 DEF MaybeMarked, MarkPlainArray, Fields, Placed
      <3> QED
        BY <1>2, <3>2, <3>3, <3>4 DEF Placed
    <2> QED
      BY <2>1, <2>2
  <1>4. BoundNames(new) = BoundNames(env) \cup {n}
    <2> HIDE DEF new
    <2> QED
      BY <1>3, ReboundNames
  <1>5. IsFiniteSet(BoundNames(env)) => IsFiniteSet(BoundNames(env) \cup {n})
    BY FS_AddElement
  <1> QED
    BY <1>3, <1>4, <1>5

\* The root environment, which holds the builtins in its map, is the abstract
\* tree's only scope.
THEOREM InitImplements == Init => Inv /\ ScopeTree!Init
  <1> SUFFICES ASSUME Init PROVE Inv /\ ScopeTree!Init
    OBVIOUS
  <1> DEFINE map == [n \in Names |-> IF n \in Builtins THEN Absent ELSE Unbound]
             root == [Child("root", 0) EXCEPT !.bindings = map]
  <1>1. map \in Map /\ map # NoMap
    BY NameAssumption DEF Map
  <1>2. /\ root.inline = << >> /\ root.plainInline = {} /\ root.plainArrays = {}
        /\ root.bindings = map /\ root.parent = 0
        /\ root \in Fields
    <2>1. << >> \in Seq(Slot)
      OBVIOUS
    <2> HIDE DEF map
    <2> QED
      BY <1>1, <2>1 DEF Child, Fields, Kinds
  <1>3. envs = <<root>>
    BY DEF Init
  <1> HIDE DEF root, map
  <1>4. WellFormed(root)
    <2>1. DOMAIN << >> = {}
      OBVIOUS
    <2> QED
      BY <1>1, <1>2, <2>1 DEF WellFormed
  <1>5. Inv
    <2>1. AllWellFormed
      BY <1>2, <1>3, <1>4 DEF AllWellFormed
    <2>2. DOMAIN envs = {1} /\ envs[1] = root
      BY <1>3
    <2>3. Tree
      <3>1. root.kind = "root"
        BY DEF root, Child
      <3> QED
        BY <1>2, <2>2, <3>1 DEF Tree
    <2>4. FewBound
      <3>1. \A n \in Names : LookupDirect(root, n) = map[n]
        BY <1>1, <1>2 DEF LookupDirect, Spilled
      <3>2. BoundNames(root) \subseteq Builtins
        BY <3>1 DEF BoundNames, map
      <3>3. IsFiniteSet(BoundNames(root))
        BY <3>2, FiniteAssumption, FS_Subset
      <3> QED
        BY <2>2, <3>3 DEF FewBound
    <2> QED
      BY <2>1, <2>3, <2>4 DEF Inv
  <1>6. ScopeOf = <<[parent |-> 0, vars |-> BindingsOf(root)]>>
    <2>1. DOMAIN envs = {1} /\ envs[1] = root
      BY <1>3
    <2> DEFINE b == BindingsOf(root)
    <2>2. ScopeOf = [e \in {1} |-> [parent |-> 0, vars |-> b]]
      BY <1>2, <2>1 DEF ScopeOf, Scope
    <2> HIDE DEF b
    <2> QED
      BY <2>2 DEF b
  <1>7. ScopeTree!Init
    BY <1>4, <1>6, BindingsType DEF ScopeTree!Init, ScopeOf, Scope
  <1> QED
    BY <1>5, <1>7

\* The steps of an evaluation that open one scope or bind one name, $x := v
\* and lambda parameters among them, do to the abstract tree what they are asked.
LEMMA StepImplements ==
    ASSUME Inv, NEW e \in Own, NEW n \in Names, NEW v \in Values, NEW plain \in BOOLEAN
    PROVE  /\ OpenScope(e) => Inv' /\ ScopeTree!Open(e, Nothing)
           /\ OpenRoot(e, v) => Inv' /\ ScopeTree!Open(e, Only(RootInput, Binding(v, FALSE)))
           /\ OpenTuple(e, n, v) => Inv' /\ ScopeTree!Open(e, Only(n, Binding(v, FALSE)))
           /\ CallLambda(e, n, v, plain) => Inv' /\ ScopeTree!Open(e, Only(n, Binding(v, plain)))
           /\ BindVariable(e, n, v, plain) =>
                 Inv' /\ ScopeTree!Bind(e, n, Binding(v, plain)) /\ [ScopeTree!Next]_ScopeOf
  <1>1. e \in DOMAIN envs /\ e \in Nat /\ WellFormed(envs[e]) /\ IsFiniteSet(BoundNames(envs[e]))
    BY DEF Own, Inv, AllWellFormed, FewBound
  <1>2. \A kind \in Kinds :
           /\ WellFormed(Child(kind, e)) /\ Child(kind, e).parent = e
           /\ IsFiniteSet(BoundNames(Child(kind, e)))
    BY <1>1, ChildIsEmpty, ChildBindsNone DEF Child
  <1>3. ASSUME NEW kind \in Kinds, NEW m \in Names, NEW p \in BOOLEAN,
               envs' = Append(envs, MaybeMarked(Bind(Child(kind, e), m, v), m, p))
        PROVE  Inv' /\ ScopeTree!Open(e, Only(m, Binding(v, p)))
    <2> DEFINE c == MaybeMarked(Bind(Child(kind, e), m, v), m, p)
    <2>1. /\ WellFormed(c) /\ c.parent = e /\ IsFiniteSet(BoundNames(c))
          /\ BindingsOf(c) = Rebound(Child(kind, e), m, [value |-> v, plain |-> p])
      BY <1>2, BindThenMark DEF Placed
    <2>2. BindingsOf(c) = Only(m, Binding(v, p))
      BY <1>1, <2>1, ChildBindings DEF Binding
    <2> HIDE DEF c
    <2>3. envs' = Append(envs, c)
      BY <1>3 DEF c
    <2>4. Inv' /\ ScopeTree!Open(c.parent, BindingsOf(c))
      BY <1>1, <2>1, <2>3, AppendOpens
    <2> QED
      BY <2>1, <2>2, <2>4
  <1>4. ASSUME OpenScope(e)
        PROVE  Inv' /\ ScopeTree!Open(e, Nothing)
    <2> DEFINE c == Child("block", e)
    <2>1. /\ envs' = Append(envs, c)
          /\ WellFormed(c) /\ c.parent = e /\ IsFiniteSet(BoundNames(c))
          /\ BindingsOf(c) = Nothing
      BY <1>1, <1>2, <1>4, ChildBindings DEF OpenScope, Kinds
    <2> HIDE DEF c
    <2>2. Inv' /\ ScopeTree!Open(c.parent, BindingsOf(c))
      BY <1>1, <2>1, AppendOpens
    <2> QED
      BY <2>1, <2>2
  <1>5. ASSUME OpenRoot(e, v)
        PROVE  Inv' /\ ScopeTree!Open(e, Only(RootInput, Binding(v, FALSE)))
    <2>1. RootInput \in Names
      BY NameAssumption
    <2>2. envs' = Append(envs, MaybeMarked(Bind(Child("input", e), RootInput, v), RootInput, FALSE))
      BY <1>5 DEF OpenRoot, MaybeMarked
    <2> QED
      BY <1>3, <2>1, <2>2 DEF Kinds
  <1>6. ASSUME OpenTuple(e, n, v)
        PROVE  Inv' /\ ScopeTree!Open(e, Only(n, Binding(v, FALSE)))
    <2>1. envs' = Append(envs, MaybeMarked(Bind(Child("tuple", e), n, v), n, FALSE))
      BY <1>6 DEF OpenTuple, MaybeMarked
    <2> QED
      BY <1>3, <2>1 DEF Kinds
  <1>7. ASSUME CallLambda(e, n, v, plain)
        PROVE  Inv' /\ ScopeTree!Open(e, Only(n, Binding(v, plain)))
    <2>1. envs' = Append(envs, MaybeMarked(Bind(Child("body", e), n, v), n, plain))
      BY <1>7 DEF CallLambda, MaybeMarked
    <2> QED
      BY <1>3, <2>1 DEF Kinds
  <1>8. ASSUME BindVariable(e, n, v, plain)
        PROVE  Inv' /\ ScopeTree!Bind(e, n, Binding(v, plain)) /\ [ScopeTree!Next]_ScopeOf
    <2> DEFINE new == MaybeMarked(Bind(envs[e], n, v), n, plain)
               b == Binding(v, plain)
    <2>1. envs' = [envs EXCEPT ![e] = new]
      BY <1>8 DEF BindVariable, MaybeMarked
    <2>2. b \in ScopeTree!Bindings
      BY DEF ScopeTree!Bindings, Binding
    <2>3. /\ WellFormed(new) /\ Placed(new, envs[e]) /\ IsFiniteSet(BoundNames(new))
          /\ BindingsOf(new) = Rebound(envs[e], n, b)
      BY <1>1, BindThenMark DEF Binding
    <2> HIDE DEF new, b
    <2>4. Inv' /\ ScopeTree!Bind(e, n, b) /\ [ScopeTree!Next]_ScopeOf
      BY <1>1, <2>1, <2>2, <2>3, ReboundBinds
    <2> QED
      BY <2>4 DEF b
  <1> QED
    BY <1>4, <1>5, <1>6, <1>7, <1>8

-----------------------------------------------------------------------------

\* The scopes that bind a name, and their parents.
Binders(e, n) == {i \in 1 .. e : LookupDirect(envs[i], n) # Unbound}
Parents(e) == [i \in 1 .. e |-> envs[i].parent]

\* Going up the tree from a scope meets scopes only, each older than the last.
LEMMA ClimbTypes ==
    ASSUME Inv, NEW e \in DOMAIN envs
    PROVE  /\ e \in Nat /\ e <= Len(envs)
           /\ \A i \in 1 .. e : WellFormed(envs[i]) /\ Parents(e)[i] \in 0 .. i - 1
  <1>1. e \in Nat /\ e <= Len(envs) /\ \A i \in 1 .. e : i \in DOMAIN envs
    BY DEF Inv, AllWellFormed
  <1>2. \A i \in 1 .. e : envs[i].parent \in Nat /\ envs[i].parent < i
    BY <1>1 DEF Inv, AllWellFormed, Tree, WellFormed, Fields
  <1> QED
    BY <1>1, <1>2 DEF Inv, AllWellFormed, Parents

\* Lookup is such a climb, for the value.
LEMMA LookupClimbs ==
    ASSUME Inv, NEW e \in DOMAIN envs, NEW n \in Names
    PROVE  LET own == [i \in 1 .. e |-> LookupDirect(envs[i], n)]
           IN  \E at : Climb(at, e, Unbound, Binders(e, n), own, Parents(e)) /\ Lookup(e, n) = at[e]
  <1> DEFINE own == [i \in 1 .. e |-> LookupDirect(envs[i], n)]
             Unfolded(at) == [i \in 0 .. e |->
                        IF i = 0 THEN Unbound
                        ELSE IF LookupDirect(envs[i], n) # Unbound THEN LookupDirect(envs[i], n)
                        ELSE at[envs[i].parent]]
             At == CHOOSE at : at = Unfolded(at)
  <1>1. PICK f : Climb(f, e, Unbound, Binders(e, n), own, Parents(e))
    <2>1. \A i \in 1 .. e : own[i] \in Values \cup {Unbound}
      BY ClimbTypes, DirectType
    <2> HIDE DEF own
    <2> QED
      BY <2>1, ClimbTypes, ClimbEnds
  <1>2. ASSUME NEW at
        PROVE  Climb(at, e, Unbound, Binders(e, n), own, Parents(e)) <=> at = Unfolded(at)
    <2>1. \A i \in 0 .. e \ {0} : i \in 1 .. e
      BY ClimbTypes
    <2>2. \A i \in 0 .. e :
             (IF i = 0 THEN Unbound ELSE IF i \in Binders(e, n) THEN own[i] ELSE at[Parents(e)[i]])
             = (IF i = 0 THEN Unbound
                ELSE IF LookupDirect(envs[i], n) # Unbound THEN LookupDirect(envs[i], n)
                ELSE at[envs[i].parent])
      BY <2>1 DEF Binders, Parents
    <2> QED
      BY <2>2 DEF Climb
  <1>3. At = Unfolded(At)
    BY <1>1, <1>2
  <1>4. Lookup(e, n) = At[e]
    BY DEF Lookup
  <1> QED
    BY <1>2, <1>3, <1>4

\* boundPlainArray is one, for the mark.
LEMMA BoundPlainArrayClimbs ==
    ASSUME Inv, NEW e \in DOMAIN envs, NEW n \in Names
    PROVE  LET own == [i \in 1 .. e |-> Marked(envs[i], n)]
           IN  \E at : /\ Climb(at, e, FALSE, Binders(e, n), own, Parents(e))
                       /\ BoundPlainArray(e, n) = at[e]
  <1> DEFINE own == [i \in 1 .. e |-> Marked(envs[i], n)]
             Unfolded(at) == [i \in 0 .. e |->
                        IF i = 0 THEN FALSE
                        ELSE IF LookupDirect(envs[i], n) # Unbound THEN Marked(envs[i], n)
                        ELSE at[envs[i].parent]]
             At == CHOOSE at : at = Unfolded(at)
  <1>1. PICK f : Climb(f, e, FALSE, Binders(e, n), own, Parents(e))
    <2>1. \A i \in 1 .. e : own[i] \in BOOLEAN
      BY MarkedType
    <2> HIDE DEF own
    <2> QED
      BY <2>1, ClimbTypes, ClimbEnds
  <1>2. ASSUME NEW at
        PROVE  Climb(at, e, FALSE, Binders(e, n), own, Parents(e)) <=> at = Unfolded(at)
    <2>1. \A i \in 0 .. e \ {0} : i \in 1 .. e
      BY ClimbTypes
    <2>2. \A i \in 0 .. e :
             (IF i = 0 THEN FALSE ELSE IF i \in Binders(e, n) THEN own[i] ELSE at[Parents(e)[i]])
             = (IF i = 0 THEN FALSE
                ELSE IF LookupDirect(envs[i], n) # Unbound THEN Marked(envs[i], n)
                ELSE at[envs[i].parent])
      BY <2>1 DEF Binders, Parents
    <2> QED
      BY <2>2 DEF Climb
  <1>3. At = Unfolded(At)
    BY <1>1, <1>2
  <1>4. BoundPlainArray(e, n) = At[e]
    BY Zenon DEF BoundPlainArray
  <1> QED
    BY <1>2, <1>3, <1>4

\* The abstract tree's walk starts at any of its scopes; from e it takes the same way.
LEMMA NearestClimbs ==
    ASSUME Inv, NEW e \in DOMAIN envs, NEW n \in Names
    PROVE  LET own == [i \in 1 .. Len(envs) |-> BindingsOf(envs[i])[n]]
               m == Len(envs)
           IN  \E at : /\ Climb(at, m, Unbound, Binders(m, n), own, Parents(m))
                       /\ ScopeTree!Nearest(e, n) = at[e]
  <1> DEFINE m == Len(envs)
             own == [i \in 1 .. m |-> BindingsOf(envs[i])[n]]
             Unfolded(at) == [t \in 0 .. Len(ScopeOf) |->
                        IF t = 0 THEN Unbound
                        ELSE IF ScopeOf[t].vars[n] # Unbound THEN ScopeOf[t].vars[n]
                        ELSE at[ScopeOf[t].parent]]
             At == CHOOSE at : at = Unfolded(at)
  <1>0. m \in DOMAIN envs /\ DOMAIN envs = 1 .. m
    BY DEF Inv, AllWellFormed
  <1>1. PICK f : Climb(f, m, Unbound, Binders(m, n), own, Parents(m))
    <2>1. \A i \in 1 .. m : own[i] \in ScopeTree!Bindings \cup {Unbound}
      <3>1. \A i \in 1 .. m : BindingsOf(envs[i]) \in ScopeTree!Vars
        BY <1>0, BindingsType DEF Inv, AllWellFormed
      <3> QED
        BY <3>1 DEF ScopeTree!Vars
    <2> HIDE DEF own, m
    <2> QED
      BY <1>0, <2>1, ClimbTypes, ClimbEnds
  <1>2. /\ Len(ScopeOf) = m
        /\ \A t \in 1 .. m :
              ScopeOf[t].parent = envs[t].parent /\ ScopeOf[t].vars = BindingsOf(envs[t])
    BY <1>0 DEF ScopeOf, Scope
  <1>3. ASSUME NEW at
        PROVE  Climb(at, m, Unbound, Binders(m, n), own, Parents(m)) <=> at = Unfolded(at)
    <2>1. \A i \in 0 .. m \ {0} : i \in 1 .. m
      BY <1>0
    <2>2. \A i \in 1 .. m : BindingsOf(envs[i])[n] = Unbound <=> LookupDirect(envs[i], n) = Unbound
      BY BoundWhereValue, ClimbTypes, <1>0
    <2>3. ASSUME NEW i \in 0 .. m
          PROVE  (IF i = 0 THEN Unbound
                  ELSE IF i \in Binders(m, n) THEN own[i] ELSE at[Parents(m)[i]])
                 = (IF i = 0 THEN Unbound
                    ELSE IF ScopeOf[i].vars[n] # Unbound THEN ScopeOf[i].vars[n]
                    ELSE at[ScopeOf[i].parent])
      BY <1>2, <2>1, <2>2 DEF Binders, Parents
    <2> HIDE DEF own
    <2> QED
      BY <1>2, <2>3 DEF Climb
  <1>4. At = Unfolded(At)
    BY <1>1, <1>3
  <1>5. ScopeTree!Nearest(e, n) = At[e]
    BY DEF ScopeTree!Nearest, ScopeOf, Scope
  <1> QED
    BY <1>3, <1>4, <1>5

\* The three climbs meet the same scope.
LEMMA ReadsAgree ==
    ASSUME Inv
    PROVE  ReadsNearest
  <1> SUFFICES ASSUME NEW e \in DOMAIN envs, NEW n \in Names
               PROVE  IF Lookup(e, n) = Unbound
                      THEN ScopeTree!Nearest(e, n) = Unbound /\ ~BoundPlainArray(e, n)
                      ELSE ScopeTree!Nearest(e, n)
                             = [value |-> Lookup(e, n), plain |-> BoundPlainArray(e, n)]
    BY DEF ReadsNearest
  <1> DEFINE m == Len(envs)
             values == [i \in 1 .. e |-> LookupDirect(envs[i], n)]
             marks == [i \in 1 .. e |-> Marked(envs[i], n)]
             bindings == [i \in 1 .. m |-> BindingsOf(envs[i])[n]]
  <1>1. PICK value : /\ Climb(value, e, Unbound, Binders(e, n), values, Parents(e))
                     /\ Lookup(e, n) = value[e]
    BY LookupClimbs
  <1>2. PICK plain : /\ Climb(plain, e, FALSE, Binders(e, n), marks, Parents(e))
                     /\ BoundPlainArray(e, n) = plain[e]
    BY BoundPlainArrayClimbs
  <1>3. PICK near : /\ Climb(near, m, Unbound, Binders(m, n), bindings, Parents(m))
                    /\ ScopeTree!Nearest(e, n) = near[e]
    BY NearestClimbs
  <1> DEFINE Agree(i) == IF value[i] = Unbound THEN near[i] = Unbound /\ plain[i] = FALSE
                         ELSE near[i] = [value |-> value[i], plain |-> plain[i]]
             I == 0 .. e
             P == {i \in I : Agree(i)}
  <1>4. ASSUME NEW i \in I, \A j \in I : j < i => Agree(j)
        PROVE  Agree(i)
    <2>1. e \in Nat /\ e <= m /\ m \in Nat
      BY ClimbTypes DEF Inv, AllWellFormed
    <2>2. CASE i = 0
      <3>1. value[0] = Unbound /\ plain[0] = FALSE /\ near[0] = Unbound
        BY <1>1, <1>2, <1>3, <2>1 DEF Climb
      <3> QED
        BY <2>2, <3>1
    <2>3. CASE i # 0 /\ LookupDirect(envs[i], n) # Unbound
      <3>1. i \in 1 .. e /\ i \in 1 .. m /\ i \in Binders(e, n) /\ i \in Binders(m, n)
        BY <2>1, <2>3 DEF Binders
      <3>2. value[i] = LookupDirect(envs[i], n)
        BY <1>1, <2>3, <3>1 DEF Climb
      <3>3. plain[i] = Marked(envs[i], n)
        BY <1>2, <2>3, <3>1 DEF Climb
      <3>4. near[i] = BindingsOf(envs[i])[n]
        BY <1>3, <2>1, <2>3, <3>1 DEF Climb
      <3>5. near[i] = [value |-> LookupDirect(envs[i], n), plain |-> Marked(envs[i], n)]
        BY <2>3, <3>4, BindingOf
      <3> QED
        BY <2>3, <3>2, <3>3, <3>5, Zenon
    <2>4. CASE i # 0 /\ LookupDirect(envs[i], n) = Unbound
      <3> DEFINE p == envs[i].parent
      <3>1. /\ i \in 1 .. e /\ i \in 1 .. m /\ i \notin Binders(e, n) /\ i \notin Binders(m, n)
            /\ p \in I /\ p < i /\ Parents(e)[i] = p /\ Parents(m)[i] = p
        <4>1. i \in 1 .. e /\ i \in 1 .. m
          BY <2>1, <2>4
        <4> QED
          BY <2>1, <2>4, <4>1, ClimbTypes DEF Binders, Parents
      <3>2. value[i] = value[p]
        BY <1>1, <2>4, <3>1 DEF Climb
      <3>3. plain[i] = plain[p]
        BY <1>2, <2>4, <3>1 DEF Climb
      <3>4. near[i] = near[p]
        <4>1. i \in 0 .. m
          BY <3>1
        <4> HIDE DEF bindings
        <4>2. near[i] = near[Parents(m)[i]]
          BY <1>3, <2>4, <3>1, <4>1 DEF Climb
        <4> QED
          BY <3>1, <4>2
      <3>5. Agree(p)
        BY <1>4, <3>1
      <3> QED
        BY <3>2, <3>3, <3>4, <3>5
    <2> QED
      BY <2>2, <2>3, <2>4
  <1>5. I \subseteq P
    <2>1. \A i \in I : (\A j \in I : j < i => j \in P) => i \in P
      <3> HIDE DEF Agree
      <3> QED
        BY <1>4
    <2>2. e \in Nat
      BY ClimbTypes
    <2> HIDE DEF P
    <2> QED
      BY <2>1, <2>2, IntervalInduction
  <1>6. Agree(e)
    <2>1. e \in I
      BY ClimbTypes
    <2> HIDE DEF Agree
    <2> QED
      BY <1>5, <2>1
  <1> QED
    BY <1>1, <1>2, <1>3, <1>6

-----------------------------------------------------------------------------

\* The climb that Chain makes, and its end.
Chained(chain, e, end) ==
    chain = [i \in 0 .. e |-> IF i \in {0, end} THEN {} ELSE {i} \cup chain[envs[i].parent]]

LEMMA ChainClimbs ==
    ASSUME Inv, NEW e \in DOMAIN envs, NEW end
    PROVE  \E chain \in [0 .. e -> SUBSET Nat] :
               Chained(chain, e, end) /\ Chain(e, end) = chain[e]
  <1> DEFINE Unfolded(c) == [i \in 0 .. e |-> IF i \in {0, end} THEN {} ELSE {i} \cup c[envs[i].parent]]
             C == CHOOSE c : c = Unfolded(c)
             I == 0 .. e
             rank == [i \in I |-> i]
             own == [i \in I |-> {}]
             prev == [i \in I |-> envs[i].parent]
             step == [i \in I |-> [s \in SUBSET Nat |-> {i} \cup s]]
  <1>1. e \in Nat /\ \A i \in I \ {0} : envs[i].parent \in I /\ envs[i].parent < i
    <2>1. \A i \in I \ {0} : i \in 1 .. e
      BY ClimbTypes
    <2> QED
      BY <2>1, ClimbTypes DEF Parents
  <1>2. Recursion(I, e, rank, SUBSET Nat, {0, end}, own, prev, step)
    <2>1. rank \in [I -> 0 .. e] /\ own \in [I -> SUBSET Nat]
      BY <1>1
    <2>2. \A i \in I \ {0, end} :
             prev[i] \in I /\ rank[prev[i]] < rank[i] /\ step[i] \in [SUBSET Nat -> SUBSET Nat]
      BY <1>1
    <2> HIDE DEF I, rank, own, prev, step
    <2> QED
      BY <1>1, <2>1, <2>2 DEF Recursion
  <1>3. PICK f \in [I -> SUBSET Nat] : Solves(f, I, {0, end}, own, prev, step)
    <2> HIDE DEF I, rank, own, prev, step
    <2> QED
      BY <1>2, RankRecursion
  <1>4. ASSUME NEW i \in I
        PROVE  f[i] = Unfolded(f)[i]
    <2>1. f[i] = IF i \in {0, end} THEN own[i] ELSE step[i][f[prev[i]]]
      BY <1>3 DEF Solves
    <2>2. CASE i \in {0, end}
      BY <2>1, <2>2
    <2>3. CASE i \notin {0, end}
      <3>1. f[prev[i]] \in SUBSET Nat
        BY <1>1, <1>3, <2>3
      <3> QED
        BY <2>1, <2>3, <3>1
    <2> QED
      BY <2>2, <2>3
  <1>5. f = Unfolded(f)
    BY <1>4
  <1>6. C = Unfolded(C)
    BY <1>5
  <1>7. Chain(e, end) = C[e]
    BY DEF Chain
  <1>8. C \in [I -> SUBSET Nat]
    <2> DEFINE P == {i \in I : C[i] \in SUBSET Nat}
    <2>1. ASSUME NEW i \in I, \A j \in I : j < i => C[j] \in SUBSET Nat
          PROVE  C[i] \in SUBSET Nat
      <3>1. C[i] = IF i \in {0, end} THEN {} ELSE {i} \cup C[envs[i].parent]
        BY <1>6
      <3> HIDE DEF C
      <3> QED
        BY <1>1, <2>1, <3>1
    <2>2. \A i \in I : (\A j \in I : j < i => j \in P) => i \in P
      <3> HIDE DEF C
      <3> QED
        BY <2>1
    <2>3. I \subseteq P
      <3> HIDE DEF P
      <3> QED
        BY <1>1, <2>2, IntervalInduction
    <2> HIDE DEF C
    <2>4. C = Unfolded(C)
      BY <1>6
    <2> QED
      BY <2>3, <2>4
  <1> QED
    BY <1>6, <1>7, <1>8 DEF Chained

\* A chain's scopes, from one of them up.
LEMMA ChainRange ==
    ASSUME Inv, NEW e \in DOMAIN envs, NEW end, NEW chain \in [0 .. e -> SUBSET Nat],
           Chained(chain, e, end)
    PROVE  \A i \in 0 .. e : chain[i] \subseteq 1 .. i
  <1> DEFINE P == {i \in 0 .. e : chain[i] \subseteq 1 .. i}
  <1>1. ASSUME NEW i \in 0 .. e, \A j \in 0 .. e : j < i => j \in P
        PROVE  i \in P
    <2>1. chain[i] = IF i \in {0, end} THEN {} ELSE {i} \cup chain[envs[i].parent]
      BY DEF Chained
    <2>2. CASE i \in {0, end}
      BY <2>1, <2>2
    <2>3. CASE i \notin {0, end}
      <3> DEFINE p == envs[i].parent
      <3>1. p \in 0 .. e /\ p < i /\ i \in Nat
        <4>1. i \in 1 .. e
          BY <2>3, ClimbTypes
        <4> QED
          BY <4>1, ClimbTypes DEF Parents
      <3>2. chain[p] \subseteq 1 .. p
        BY <1>1, <3>1
      <3> HIDE DEF p
      <3>3. \A k \in 1 .. p : k \in 1 .. i
        BY <3>1
      <3>4. chain[i] = {i} \cup chain[p]
        BY <2>1, <2>3 DEF p
      <3> QED
        BY <2>3, <3>1, <3>2, <3>3, <3>4
    <2> QED
      BY <2>2, <2>3
  <1>2. e \in Nat
    BY ClimbTypes
  <1>3. 0 .. e \subseteq P
    <2> HIDE DEF P
    <2> QED
      BY <1>1, <1>2, IntervalInduction
  <1> QED
    BY <1>3

\* The blocks of a tuple's chain are scopes of the evaluation, and have scopes above.
LEMMA BlockPlace ==
    ASSUME Inv, NEW e \in DOMAIN envs, NEW end \in Blocks(e)
    PROVE  /\ end \in 1 .. e /\ end \in DOMAIN envs
           /\ envs[end].parent \in DOMAIN envs /\ envs[end].parent \in Nat
  <1>1. end \in 1 .. e
    <2>1. PICK chain \in [0 .. e -> SUBSET Nat] : Chained(chain, e, 0) /\ Chain(e, 0) = chain[e]
      BY ChainClimbs
    <2>2. e \in 0 .. e
      BY ClimbTypes
    <2> QED
      BY <2>1, <2>2, ChainRange DEF Blocks
  <1>2. end \in DOMAIN envs /\ DOMAIN envs = 1 .. Len(envs)
    BY <1>1 DEF Inv, AllWellFormed
  <1>3. envs[end].parent \in Nat /\ envs[end].parent < end /\ envs[end].parent # 0
    BY <1>2 DEF Blocks, Inv, AllWellFormed, WellFormed, Fields, Tree
  <1> QED
    BY <1>1, <1>2, <1>3

\* A tuple is below one block at most with only tuples between.
LEMMA OneBlock ==
    ASSUME Inv, NEW e \in DOMAIN envs, NEW x \in Blocks(e), NEW y \in Blocks(e)
    PROVE  x = y
  <1> SUFFICES ASSUME x # y PROVE FALSE
    OBVIOUS
  <1>0. e \in Nat
    BY ClimbTypes
  <1>1. PICK all \in [0 .. e -> SUBSET Nat] : Chained(all, e, 0) /\ Chain(e, 0) = all[e]
    BY ChainClimbs
  <1>2. PICK toX \in [0 .. e -> SUBSET Nat] : Chained(toX, e, x) /\ Chain(e, x) = toX[e]
    BY ChainClimbs
  <1>3. PICK toY \in [0 .. e -> SUBSET Nat] : Chained(toY, e, y) /\ Chain(e, y) = toY[e]
    BY ChainClimbs
  <1> DEFINE One(i) == x \in all[i] /\ y \in all[i] => x \in toY[i] \/ y \in toX[i]
             P == {i \in 0 .. e : One(i)}
  <1>4. ASSUME NEW i \in 0 .. e, \A j \in 0 .. e : j < i => j \in P
        PROVE  i \in P
    <2> SUFFICES ASSUME x \in all[i], y \in all[i]
                 PROVE  x \in toY[i] \/ y \in toX[i]
      OBVIOUS
    <2>1. i # 0
      BY <1>1 DEF Chained
    <2> DEFINE p == envs[i].parent
    <2>2. p \in 0 .. e /\ p < i
      <3>1. i \in 1 .. e
        BY <2>1, ClimbTypes
      <3> QED
        BY <3>1, ClimbTypes DEF Parents
    <2>3. all[i] = {i} \cup all[p]
      BY <1>1, <2>1 DEF Chained
    <2>4. i # x => toX[i] = {i} \cup toX[p]
      BY <1>2, <2>1 DEF Chained
    <2>5. i # y => toY[i] = {i} \cup toY[p]
      BY <1>3, <2>1 DEF Chained
    <2>6. One(p)
      BY <1>4, <2>2
    <2> HIDE DEF p
    <2> QED
      BY <2>3, <2>4, <2>5, <2>6
  <1>5. 0 .. e \subseteq P
    <2> HIDE DEF P
    <2> QED
      BY <1>0, <1>4, IntervalInduction
  <1>6. x \in Chain(e, y) \/ y \in Chain(e, x)
    <2>1. One(e)
      BY <1>0, <1>5
    <2> QED
      BY <1>1, <1>2, <1>3, <2>1 DEF Blocks
  <1> QED
    BY <1>6 DEF Blocks

\* What BindAll copies: every binding of from, over those of env.
LEMMA BindAllCopies ==
    ASSUME NEW env, WellFormed(env), NEW from, WellFormed(from), IsFiniteSet(BoundNames(from))
    PROVE  LET new == BindAll(env, from)
           IN  /\ WellFormed(new) /\ Placed(new, env)
               /\ \A n \in Names :
                     LookupDirect(new, n) = IF LookupDirect(from, n) # Unbound
                                            THEN LookupDirect(from, n) ELSE LookupDirect(env, n)
               /\ IsFiniteSet(BoundNames(env)) => IsFiniteSet(BoundNames(new))
  <1> DEFINE names == BoundNames(from)
             map == [n \in names |-> LookupDirect(from, n)]
             new == BindEach(env, names, map)
  <1>1. names \in SUBSET Names /\ \A n \in Names : n \in names <=> LookupDirect(from, n) # Unbound
    BY DEF BoundNames
  <1>2. map \in [names -> Values]
    BY <1>1, DirectType
  <1>3. \A n \in names : map[n] = LookupDirect(from, n)
    OBVIOUS
  <1>4. BindAll(env, from) = new
    BY DEF BindAll
  <1> HIDE DEF map, names
  <1>5. /\ WellFormed(new) /\ Placed(new, env)
        /\ \A n \in Names :
              LookupDirect(new, n) = IF n \in names THEN map[n] ELSE LookupDirect(env, n)
    BY <1>1, <1>2, BindEachBinds DEF names
  <1>6. BoundNames(new) \subseteq BoundNames(env) \cup BoundNames(from)
    BY <1>5 DEF BoundNames, names
  <1>7. IsFiniteSet(BoundNames(env)) => IsFiniteSet(BoundNames(new))
    <2> HIDE DEF new
    <2> QED
      BY <1>6, FS_Union, FS_Subset
  <1> QED
    BY <1>1, <1>3, <1>4, <1>5, <1>7

\* The climb of a rebase: what the scopes of a chain bind, the outer ones first.
Empty(e, end) == [Child("tuple", envs[end].parent) EXCEPT !.from = e]
Moved(f, e, end) ==
    f = [i \in 0 .. e |->
            IF i \in {0, end} THEN Empty(e, end) ELSE BindAll(f[envs[i].parent], envs[i])]

LEMMA EmptyBindsNone ==
    ASSUME Inv, NEW e \in DOMAIN envs, NEW end \in Blocks(e)
    PROVE  /\ WellFormed(Empty(e, end)) /\ Empty(e, end).parent = envs[end].parent
           /\ Empty(e, end).from = e
           /\ \A n \in Names : LookupDirect(Empty(e, end), n) = Unbound
           /\ IsFiniteSet(BoundNames(Empty(e, end)))
  <1> DEFINE c == Child("tuple", envs[end].parent)
             new == [c EXCEPT !.from = e]
  <1>1. /\ WellFormed(c) /\ c.parent = envs[end].parent
        /\ \A n \in Names : LookupDirect(c, n) = Unbound
    <2>1. "tuple" \in Kinds /\ envs[end].parent \in Nat
      BY BlockPlace DEF Kinds
    <2> QED
      BY <2>1, ChildIsEmpty, ChildBindsNone DEF Child
  <1>2. e \in Nat
    BY ClimbTypes
  <1>3. /\ new \in Fields /\ new.from = e /\ new.parent = c.parent
        /\ new.inline = c.inline /\ new.plainInline = c.plainInline
        /\ new.bindings = c.bindings /\ new.plainArrays = c.plainArrays
    <2>1. c \in Fields
      BY <1>1 DEF WellFormed
    <2> HIDE DEF c
    <2> QED
      BY <1>2, <2>1 DEF Fields
  <1> HIDE DEF new, c
  <1>4. WellFormed(new)
    BY <1>1, <1>3 DEF WellFormed, Spilled
  <1>5. \A n \in Names : LookupDirect(new, n) = LookupDirect(c, n)
    BY <1>3 DEF LookupDirect, Slots, Spilled
  <1>6. BoundNames(new) = {}
    BY <1>1, <1>5 DEF BoundNames
  <1> QED
    BY <1>1, <1>3, <1>4, <1>5, <1>6, FS_EmptySet DEF new, c, Empty

LEMMA RebasedClimbs ==
    ASSUME Inv, NEW e \in DOMAIN envs, NEW end \in Blocks(e)
    PROVE  \E f : /\ Moved(f, e, end) /\ Rebased(e, end) = f[e]
                  /\ \A i \in 0 .. e : /\ WellFormed(f[i]) /\ Placed(f[i], Empty(e, end))
                                       /\ IsFiniteSet(BoundNames(f[i]))
  <1> DEFINE Unfolded(f) == [i \in 0 .. e |->
                            IF i \in {0, end} THEN Empty(e, end)
                            ELSE BindAll(f[envs[i].parent], envs[i])]
             F == CHOOSE f : f = Unfolded(f)
             I == 0 .. e
             rank == [i \in I |-> i]
             own == [i \in I |-> Empty(e, end)]
             prev == [i \in I |-> envs[i].parent]
             step == [i \in I |-> [c \in Environments |-> BindAll(c, envs[i])]]
  <1>1. /\ e \in Nat
        /\ \A i \in I \ {0} : /\ envs[i].parent \in I /\ envs[i].parent < i
                              /\ WellFormed(envs[i]) /\ IsFiniteSet(BoundNames(envs[i]))
    <2>1. \A i \in I \ {0} : i \in 1 .. e
      BY ClimbTypes
    <2>2. \A i \in 1 .. e : i \in DOMAIN envs
      BY ClimbTypes DEF Inv, AllWellFormed
    <2> QED
      BY <2>1, <2>2, ClimbTypes DEF Parents, Inv, FewBound
  <1>2. \A c : c \in Environments <=> WellFormed(c)
    BY DEF Environments, WellFormed
  <1>3. Recursion(I, e, rank, Environments, {0, end}, own, prev, step)
    <2>1. rank \in [I -> 0 .. e] /\ own \in [I -> Environments]
      BY <1>1, <1>2, EmptyBindsNone
    <2>2. ASSUME NEW i \in I \ {0, end}
          PROVE  /\ prev[i] \in I /\ rank[prev[i]] < rank[i]
                 /\ step[i] \in [Environments -> Environments]
      <3>1. ASSUME NEW c \in Environments
            PROVE  BindAll(c, envs[i]) \in Environments
        BY <1>1, <1>2, BindAllCopies
      <3> QED
        BY <1>1, <3>1
    <2> HIDE DEF I, rank, own, prev, step
    <2> QED
      BY <1>1, <2>1, <2>2 DEF Recursion
  <1>4. PICK f \in [I -> Environments] : Solves(f, I, {0, end}, own, prev, step)
    <2> HIDE DEF I, rank, own, prev, step
    <2> QED
      BY <1>3, RankRecursion
  <1>5. ASSUME NEW i \in I
        PROVE  f[i] = Unfolded(f)[i]
    <2>1. f[i] = IF i \in {0, end} THEN own[i] ELSE step[i][f[prev[i]]]
      BY <1>4 DEF Solves
    <2>2. CASE i \in {0, end}
      BY <2>1, <2>2
    <2>3. CASE i \notin {0, end}
      <3>1. f[prev[i]] \in Environments
        BY <1>1, <1>4, <2>3
      <3> QED
        BY <2>1, <2>3, <3>1
    <2> QED
      BY <2>2, <2>3
  <1>6. f = Unfolded(f)
    BY <1>5
  <1>7. F = Unfolded(F)
    BY <1>6
  <1>8. Rebased(e, end) = F[e]
    BY DEF Rebased, Empty
  <1> DEFINE Good(i) == /\ WellFormed(F[i]) /\ Placed(F[i], Empty(e, end))
                        /\ IsFiniteSet(BoundNames(F[i]))
             P == {i \in I : Good(i)}
  <1>9. ASSUME NEW i \in I, \A j \in I : j < i => Good(j)
        PROVE  Good(i)
    <2>1. F[i] = IF i \in {0, end} THEN Empty(e, end) ELSE BindAll(F[envs[i].parent], envs[i])
      BY <1>7
    <2> HIDE DEF F
    <2>2. CASE i \in {0, end}
      BY <2>1, <2>2, EmptyBindsNone DEF Placed
    <2>3. CASE i \notin {0, end}
      <3>1. Good(envs[i].parent)
        BY <1>1, <1>9, <2>3
      <3>2. /\ WellFormed(F[i]) /\ Placed(F[i], F[envs[i].parent])
            /\ IsFiniteSet(BoundNames(F[i]))
        BY <1>1, <2>1, <2>3, <3>1, BindAllCopies
      <3> QED
        BY <3>1, <3>2 DEF Placed
    <2> QED
      BY <2>2, <2>3
  <1>10. I \subseteq P
    <2>1. \A i \in I : (\A j \in I : j < i => j \in P) => i \in P
      <3> HIDE DEF Good
      <3> QED
        BY <1>9
    <2> HIDE DEF P
    <2> QED
      BY <1>1, <2>1, IntervalInduction
  <1>11. \A i \in I : Good(i)
    <2> HIDE DEF Good
    <2> QED
      BY <1>10
  <1> QED
    BY <1>7, <1>8, <1>11 DEF Moved

\* A rebased scope reads a name as the tuple did, where a scope below the
\* block binds it, and nothing else.
LEMMA RebasedReadsAsBelow ==
    ASSUME Inv, NEW e \in DOMAIN envs, NEW end \in Blocks(e), NEW n \in Names
    PROVE  LookupDirect(Rebased(e, end), n)
             = IF \E i \in Chain(e, end) : LookupDirect(envs[i], n) # Unbound
               THEN Lookup(e, n) ELSE Unbound
  <1> DEFINE values == [i \in 1 .. e |-> LookupDirect(envs[i], n)]
  <1>0. e \in Nat
    BY ClimbTypes
  <1>1. PICK f : /\ Moved(f, e, end) /\ Rebased(e, end) = f[e]
                 /\ \A i \in 0 .. e : WellFormed(f[i]) /\ Placed(f[i], Empty(e, end))
    BY RebasedClimbs
  <1>2. PICK chain \in [0 .. e -> SUBSET Nat] : Chained(chain, e, end) /\ Chain(e, end) = chain[e]
    BY ChainClimbs
  <1>3. PICK value : /\ Climb(value, e, Unbound, Binders(e, n), values, Parents(e))
                     /\ Lookup(e, n) = value[e]
    BY LookupClimbs
  <1> DEFINE Below(i) == \E j \in chain[i] : LookupDirect(envs[j], n) # Unbound
             Good(i) == LookupDirect(f[i], n) = IF Below(i) THEN value[i] ELSE Unbound
             P == {i \in 0 .. e : Good(i)}
  <1>4. ASSUME NEW i \in 0 .. e, \A j \in 0 .. e : j < i => Good(j)
        PROVE  Good(i)
    <2>1. CASE i \in {0, end}
      <3>1. f[i] = Empty(e, end) /\ chain[i] = {}
        BY <1>1, <1>2, <2>1 DEF Moved, Chained
      <3> QED
        BY <3>1, EmptyBindsNone
    <2>2. CASE i \notin {0, end}
      <3> DEFINE p == envs[i].parent
      <3>1. /\ i \in 1 .. e /\ p \in 0 .. e /\ p < i /\ Parents(e)[i] = p
            /\ WellFormed(envs[i]) /\ IsFiniteSet(BoundNames(envs[i]))
        <4>1. i \in 1 .. e /\ i \in DOMAIN envs
          BY <2>2, ClimbTypes DEF Inv, AllWellFormed
        <4> QED
          BY <4>1, ClimbTypes DEF Parents, Inv, FewBound
      <3>2. f[i] = BindAll(f[p], envs[i])
        BY <1>1, <2>2 DEF Moved
      <3>3. chain[i] = {i} \cup chain[p]
        BY <1>2, <2>2 DEF Chained
      <3>4. LookupDirect(f[i], n) = IF LookupDirect(envs[i], n) # Unbound
                                    THEN LookupDirect(envs[i], n) ELSE LookupDirect(f[p], n)
        BY <1>1, <3>1, <3>2, BindAllCopies
      <3>5. CASE LookupDirect(envs[i], n) # Unbound
        <4>1. value[i] = LookupDirect(envs[i], n)
          BY <1>3, <2>2, <3>1, <3>5 DEF Climb, Binders
        <4> QED
          BY <3>3, <3>4, <3>5, <4>1
      <3>6. CASE LookupDirect(envs[i], n) = Unbound
        <4>1. value[i] = value[p]
          BY <1>3, <2>2, <3>1, <3>6 DEF Climb, Binders
        <4>2. Good(p)
          BY <1>4, <3>1
        <4> HIDE DEF p
        <4> QED
          BY <3>3, <3>4, <3>6, <4>1, <4>2
      <3> QED
        BY <3>5, <3>6
    <2> QED
      BY <2>1, <2>2
  <1>5. 0 .. e \subseteq P
    <2>1. \A i \in 0 .. e : (\A j \in 0 .. e : j < i => j \in P) => i \in P
      <3> HIDE DEF Good
      <3> QED
        BY <1>4
    <2> HIDE DEF P
    <2> QED
      BY <1>0, <2>1, IntervalInduction
  <1>6. Good(e)
    <2> HIDE DEF Good
    <2> QED
      BY <1>0, <1>5
  <1> QED
    BY <1>1, <1>2, <1>3, <1>6

\* evalCore's scope, with the input and every variable of the caller, is one new scope.
LEMMA StartImplements ==
    ASSUME Inv, NEW v \in Values, Start(v)
    PROVE  Inv' /\ ScopeTree!Open(1, Given(v)) /\ envs'[Len(envs')].from = 0
  <1> DEFINE top == Child("top", 1)
             context == Bind(top, Context, v)
             input == Bind(context, RootInput, v)
             map == [n \in VarNames |-> v]
             c == BindEach(input, VarNames, map)
  <1>1. WellFormed(top) /\ top.parent = 1 /\ top.from = 0
    BY ChildIsEmpty DEF Kinds, Child
  <1>0. BindingsOf(top) = Nothing
    BY ChildBindings DEF Kinds
  <1> HIDE DEF top
  <1>2. Context \in Names /\ RootInput \in Names /\ VarNames \in SUBSET Names
    BY NameAssumption
  <1>3. /\ WellFormed(context) /\ Placed(context, top)
        /\ BindingsOf(context) = Rebound(top, Context, Binding(v, FALSE))
    BY <1>1, <1>2, BindRebinds, BindPlaces DEF Binding
  <1> HIDE DEF context
  <1>4. /\ WellFormed(input) /\ Placed(input, context)
        /\ BindingsOf(input) = Rebound(context, RootInput, Binding(v, FALSE))
    BY <1>2, <1>3, BindRebinds, BindPlaces DEF Binding
  <1>5. \A n \in Names \ {Context, RootInput} : LookupDirect(input, n) = Unbound
    <2>1. ASSUME NEW n \in Names \ {Context, RootInput}
          PROVE  LookupDirect(input, n) = Unbound
      <3>1. LookupDirect(input, n) = LookupDirect(context, n)
        BY <1>2, <1>3, BindReads
      <3>2. LookupDirect(context, n) = LookupDirect(top, n)
        BY <1>1, <1>2, BindReads DEF context
      <3>3. LookupDirect(top, n) = Unbound
        BY ChildBindsNone DEF top, Kinds
      <3> QED
        BY <3>1, <3>2, <3>3
    <2> QED
      BY <2>1
  <1> HIDE DEF input
  <1>6. IsFiniteSet(VarNames) /\ map \in [VarNames -> Values]
    BY FiniteAssumption
  <1> HIDE DEF map
  <1>7. /\ WellFormed(c) /\ Placed(c, input)
        /\ \A n \in Names :
              LookupDirect(c, n) = IF n \in VarNames THEN map[n] ELSE LookupDirect(input, n)
        /\ BoundTo(c, input, VarNames, map)
    BY <1>2, <1>4, <1>6, BindEachBinds
  <1>14. BindingsOf(c) = Given(v)
    <2> DEFINE B == BindingsOf(c)
               In == BindingsOf(input)
    <2>1. \A n \in VarNames : map[n] = v
      BY DEF map
    <2>2. In = [[Nothing EXCEPT ![Context] = Binding(v, FALSE)]
                  EXCEPT ![RootInput] = Binding(v, FALSE)]
      BY <1>0, <1>3, <1>4 DEF Rebound
    <2>3. \A n \in Names : In[n] = IF n \in {Context, RootInput} THEN Binding(v, FALSE) ELSE Unbound
      BY <1>2, <2>2 DEF Nothing
    <2>4. B = [n \in Names |-> B[n]]
      BY DEF BindingsOf
    <2>5. \A n \in Names : B[n] = IF n \in VarNames THEN Binding(map[n], FALSE) ELSE In[n]
      BY <1>7 DEF BoundTo
    <2> HIDE DEF B, In
    <2>6. \A n \in Names :
             B[n] = IF n \in {Context, RootInput} \cup VarNames THEN Binding(v, FALSE) ELSE Unbound
      BY <2>1, <2>3, <2>5
    <2> QED
      BY <2>4, <2>6 DEF B, Given
  <1>8. IsFiniteSet(BoundNames(c))
    <2>1. BoundNames(c) \subseteq (VarNames \cup {Context}) \cup {RootInput}
      BY <1>5, <1>7 DEF BoundNames
    <2>2. IsFiniteSet((VarNames \cup {Context}) \cup {RootInput})
      BY <1>6, FS_AddElement
    <2> HIDE DEF c
    <2> QED
      BY <2>1, <2>2, FS_Subset
  <1>9. envs' = Append(envs, c) /\ Len(envs) = 1
    BY DEF Start, top, context, input, map
  <1>10. c.parent = 1 /\ c.from = 0
    BY <1>1, <1>3, <1>4, <1>7 DEF Placed
  <1> HIDE DEF c
  <1>11. c.parent \in DOMAIN envs /\ envs \in Seq(Fields) /\ c \in Fields
    BY <1>7, <1>9, <1>10 DEF Inv, AllWellFormed, WellFormed
  <1>12. Inv' /\ ScopeTree!Open(1, Given(v))
    <2>1. Inv' /\ ScopeTree!Open(c.parent, BindingsOf(c))
      BY <1>7, <1>8, <1>9, <1>11, AppendOpens
    <2> QED
      BY <1>10, <1>14, <2>1
  <1>13. envs'[Len(envs')] = c
    BY <1>9, <1>11
  <1> QED
    BY <1>10, <1>12, <1>13

\* A rebased tuple is one new scope, below the block's parent.
LEMMA RebaseImplements ==
    ASSUME Inv, NEW e \in Own, NEW end \in Blocks(e), Rebase(e, end)
    PROVE  /\ Inv' /\ ScopeTree!Next
           /\ ScopeTree!Open(envs[end].parent, BindingsOf(envs'[Len(envs')]))
  <1>0. e \in DOMAIN envs /\ e \in Nat
    BY DEF Own, Inv, AllWellFormed
  <1>1. PICK f : /\ Moved(f, e, end) /\ Rebased(e, end) = f[e]
                 /\ \A i \in 0 .. e : /\ WellFormed(f[i]) /\ Placed(f[i], Empty(e, end))
                                      /\ IsFiniteSet(BoundNames(f[i]))
    BY <1>0, RebasedClimbs
  <1>2. PICK c, p : c = Rebased(e, end) /\ p = envs[end].parent
    OBVIOUS
  <1>3. /\ WellFormed(c) /\ IsFiniteSet(BoundNames(c))
        /\ c.parent = p /\ p \in DOMAIN envs
    BY <1>0, <1>1, <1>2, EmptyBindsNone, BlockPlace DEF Placed
  <1>4. envs' = Append(envs, c)
    BY <1>2 DEF Rebase
  <1>5. Inv' /\ ScopeTree!Open(c.parent, BindingsOf(c))
    BY <1>3, <1>4, AppendOpens
  <1>6. envs'[Len(envs')] = c
    BY <1>3, <1>4 DEF Inv, AllWellFormed, WellFormed
  <1>7. ScopeTree!Next
    BY <1>5, OpenIsNext
  <1> QED
    BY <1>2, <1>3, <1>5, <1>6, <1>7 DEF ScopeTree!Open

-----------------------------------------------------------------------------

\* The environments stay well formed and a tree whatever an evaluation does,
\* and each of its steps is a step of the abstract tree of scopes or none.
THEOREM NextImplements == Inv /\ [Next]_vars => Inv' /\ [ScopeTree!Next]_ScopeOf
  <1> SUFFICES ASSUME Inv, [Next]_vars
               PROVE  Inv' /\ [ScopeTree!Next]_ScopeOf
    OBVIOUS
  <1>1. ASSUME UNCHANGED envs
        PROVE  Inv' /\ ScopeOf' = ScopeOf
    BY <1>1 DEF Inv, AllWellFormed, Tree, FewBound, ScopeOf
  <1>2. CASE UNCHANGED vars
    BY <1>1, <1>2 DEF vars
  <1>3. CASE Ended
    BY <1>1, <1>3 DEF Ended, vars
  <1>4. ASSUME NEW v \in Values, Start(v)
        PROVE  Inv' /\ [ScopeTree!Next]_ScopeOf
    BY <1>4, StartImplements, OpenIsNext
  <1>5. ASSUME NEW e \in Own, NEW end \in Blocks(e), Rebase(e, end)
        PROVE  Inv' /\ [ScopeTree!Next]_ScopeOf
    BY <1>5, RebaseImplements
  <1>6. ASSUME NEW e \in Own, NEW n \in Names, NEW v \in Values, NEW plain \in BOOLEAN,
               \/ OpenScope(e) \/ OpenRoot(e, v) \/ OpenTuple(e, n, v)
               \/ CallLambda(e, n, v, plain) \/ BindVariable(e, n, v, plain)
        PROVE  Inv' /\ [ScopeTree!Next]_ScopeOf
    BY <1>6, StepImplements, OpenIsNext
  <1>7. Bindable \subseteq Names /\ Context \in Names /\ Absent \in Values
    BY NameAssumption DEF Bindable
  <1> DEFINE Kept == Inv' /\ [ScopeTree!Next]_ScopeOf
  <1> HIDE DEF Kept
  <1>8. ASSUME NEW e \in Own, OpenScope(e) PROVE Kept
    BY <1>6, <1>7, <1>8 DEF Kept
  <1>9. ASSUME NEW e \in Own, NEW v \in Values, OpenRoot(e, v) PROVE Kept
    BY <1>6, <1>7, <1>9 DEF Kept
  <1>10. ASSUME NEW e \in Own, NEW n \in Bindable, NEW v \in Values, OpenTuple(e, n, v)
         PROVE  Kept
    BY <1>6, <1>7, <1>10 DEF Kept
  <1>11. ASSUME NEW e \in Own, NEW n \in Bindable, NEW v \in Values,
                NEW plain \in IF v = Absent THEN {FALSE} ELSE BOOLEAN,
                CallLambda(e, n, v, plain) \/ BindVariable(e, n, v, plain)
         PROVE  Kept
    BY <1>6, <1>7, <1>11 DEF Kept
  <1>12. CASE Next
    <2> SUFFICES Kept
      BY DEF Kept
    <2> QED
      BY <1>3, <1>4, <1>5, <1>8, <1>9, <1>10, <1>11, <1>12 DEF Next, Kept
  <1> QED
    BY <1>2, <1>12

\* Whatever an operation is asked, the abstract tree gets that and no more.
LEMMA EachAsAsked ==
    ASSUME Inv
    PROVE  AsAsked
  <1>1. Bindable \subseteq Names /\ RootInput \in Names /\ Absent \in Values
    BY NameAssumption DEF Bindable
  <1>2. \A v \in Values : Start(v) => ScopeTree!Open(1, Given(v))
    BY StartImplements
  <1>3. ASSUME NEW e \in Own
        PROVE  /\ OpenScope(e) => ScopeTree!Open(e, Nothing)
               /\ \A v \in Values :
                     OpenRoot(e, v) => ScopeTree!Open(e, Only(RootInput, Binding(v, FALSE)))
    BY <1>1, StepImplements
  <1>4. ASSUME NEW e \in Own, NEW end \in Blocks(e)
        PROVE  Rebase(e, end) => ScopeTree!Open(envs[end].parent, BindingsOf(envs'[Len(envs')]))
    BY RebaseImplements
  <1>5. ASSUME NEW e \in Own, NEW n \in Bindable, NEW v \in Values
        PROVE  OpenTuple(e, n, v) => ScopeTree!Open(e, Only(n, Binding(v, FALSE)))
    BY <1>1, StepImplements
  <1>6. ASSUME NEW e \in Own, NEW n \in Bindable, NEW v \in Values, NEW plain \in BOOLEAN
        PROVE  /\ CallLambda(e, n, v, plain) => ScopeTree!Open(e, Only(n, Binding(v, plain)))
               /\ BindVariable(e, n, v, plain) => ScopeTree!Bind(e, n, Binding(v, plain))
    BY <1>1, StepImplements
  <1> QED
    BY <1>2, <1>3, <1>4, <1>5, <1>6 DEF AsAsked

\* An evaluation's environments are always well formed: no name has two slots,
\* marks are on bindings, and a scope is older than those below it.
THEOREM EnvironmentsWellFormed == Spec => []Inv
  <1>1. Init => Inv
    BY InitImplements
  <1>2. Inv /\ [Next]_vars => Inv'
    BY NextImplements
  <1> QED
    BY <1>1, <1>2, PTL DEF Spec

\* Slots, maps, marks and spilling implement the abstract tree of scopes, and
\* each operation does to it what it is asked: a name gets the value and the
\* mark of its binding, whatever it had before.
THEOREM EnvironmentsImplementScopes == Spec => ScopeSpec
  <1>1. Init => ScopeTree!Init
    BY InitImplements
  <1>2. Inv /\ [Next]_vars => [ScopeTree!Next]_ScopeOf
    BY NextImplements
  <1>3. Inv => AsAsked
    BY EachAsAsked
  <1> QED
    BY <1>1, <1>2, <1>3, EnvironmentsWellFormed, PTL
    DEF Spec, ScopeSpec, ScopeTree!Spec, ScopeOf, Scope

\* Lookup and boundPlainArray always agree on the scope that binds a name.
THEOREM ReadsAlwaysNearest == Spec => []ReadsNearest
  <1>1. Inv => ReadsNearest
    BY ReadsAgree
  <1> QED
    BY <1>1, EnvironmentsWellFormed, PTL

\* What a rebase makes reads as the tuple did below its block.
LEMMA RebaseReads ==
    ASSUME Inv, NEW e \in Own, NEW end \in Blocks(e), Rebase(e, end)
    PROVE  RebasedReads(envs'[Len(envs')])
  <1> DEFINE new == Rebased(e, end)
             block == CHOOSE x \in Blocks(new.from) : envs[x].parent = new.parent
  <1>1. e \in DOMAIN envs /\ envs \in Seq(Fields)
    BY DEF Own, Inv, AllWellFormed
  <1>2. new.from = e /\ new.parent = envs[end].parent /\ WellFormed(new)
    <2>1. PICK f : /\ Moved(f, e, end) /\ Rebased(e, end) = f[e]
                   /\ \A i \in 0 .. e : /\ WellFormed(f[i]) /\ Placed(f[i], Empty(e, end))
                                        /\ IsFiniteSet(BoundNames(f[i]))
      BY <1>1, RebasedClimbs
    <2>2. e \in 0 .. e
      BY <1>1, ClimbTypes
    <2> QED
      BY <1>1, <2>1, <2>2, EmptyBindsNone DEF Placed
  <1>3. envs'[Len(envs')] = new
    <2>1. envs' = Append(envs, new)
      BY DEF Rebase
    <2> HIDE DEF new
    <2> QED
      BY <1>1, <1>2, <2>1 DEF WellFormed
  <1>4. block = end
    <2>1. block \in Blocks(e)
      BY <1>2
    <2> QED
      BY <1>1, <2>1, OneBlock
  <1>5. \A n \in Names :
           LookupDirect(new, n) = IF \E i \in Chain(e, end) : LookupDirect(envs[i], n) # Unbound
                                  THEN Lookup(e, n) ELSE Unbound
    BY <1>1, RebasedReadsAsBelow
  <1> HIDE DEF new
  <1>6. RebasedReads(new)
    BY <1>2, <1>4, <1>5 DEF RebasedReads
  <1> QED
    BY <1>3, <1>6

\* A scope that is opened otherwise was not rebased.
LEMMA OpenedNotRebased ==
    ASSUME Inv, NEW e \in Own, NEW n \in Names, NEW v \in Values, NEW plain \in BOOLEAN,
           \/ OpenScope(e) \/ OpenRoot(e, v) \/ OpenTuple(e, n, v)
           \/ CallLambda(e, n, v, plain) \/ BindVariable(e, n, v, plain)
    PROVE  Len(envs') > Len(envs) => envs'[Len(envs')].from = 0
  <1>1. e \in DOMAIN envs /\ e \in Nat /\ envs \in Seq(Fields) /\ Len(envs) \in Nat
    BY DEF Own, Inv, AllWellFormed
  <1>2. \A kind \in Kinds : WellFormed(Child(kind, e)) /\ Child(kind, e).from = 0
    BY <1>1, ChildIsEmpty DEF Child
  <1>3. ASSUME NEW c, WellFormed(c), c.from = 0, envs' = Append(envs, c)
        PROVE  envs'[Len(envs')].from = 0
    BY <1>1, <1>3 DEF WellFormed
  <1>4. ASSUME NEW kind \in Kinds, NEW m \in Names, NEW p \in BOOLEAN,
               envs' = Append(envs, MaybeMarked(Bind(Child(kind, e), m, v), m, p))
        PROVE  envs'[Len(envs')].from = 0
    <2> DEFINE c == MaybeMarked(Bind(Child(kind, e), m, v), m, p)
    <2>1. WellFormed(c) /\ c.from = 0
      BY <1>2, BindThenMark DEF Placed
    <2> HIDE DEF c
    <2>2. envs' = Append(envs, c)
      BY <1>4 DEF c
    <2> QED
      BY <1>3, <2>1, <2>2
  <1>5. CASE OpenScope(e)
    <2>1. envs' = Append(envs, Child("block", e))
      BY <1>5 DEF OpenScope
    <2> QED
      BY <1>2, <1>3, <2>1 DEF Kinds
  <1>6. CASE OpenRoot(e, v)
    <2>1. envs' = Append(envs, MaybeMarked(Bind(Child("input", e), RootInput, v), RootInput, FALSE))
      BY <1>6 DEF OpenRoot, MaybeMarked
    <2> QED
      BY <1>4, <2>1, NameAssumption DEF Kinds
  <1>7. CASE OpenTuple(e, n, v)
    <2>1. envs' = Append(envs, MaybeMarked(Bind(Child("tuple", e), n, v), n, FALSE))
      BY <1>7 DEF OpenTuple, MaybeMarked
    <2> QED
      BY <1>4, <2>1 DEF Kinds
  <1>8. CASE CallLambda(e, n, v, plain)
    <2>1. envs' = Append(envs, MaybeMarked(Bind(Child("body", e), n, v), n, plain))
      BY <1>8 DEF CallLambda, MaybeMarked
    <2> QED
      BY <1>4, <2>1 DEF Kinds
  <1>9. CASE BindVariable(e, n, v, plain)
    <2> DEFINE new == MaybeMarked(Bind(envs[e], n, v), n, plain)
    <2>1. envs' = [envs EXCEPT ![e] = new]
      BY <1>9 DEF BindVariable, MaybeMarked
    <2> HIDE DEF new
    <2>2. Len(envs') = Len(envs)
      BY <1>1, <2>1
    <2> QED
      BY <1>1, <2>2
  <1> QED
    BY <1>5, <1>6, <1>7, <1>8, <1>9

\* A tuple moved out of a block always reads each name its chain binds as it
\* did below the block, and no variable of the block.
THEOREM RebaseAlwaysKeepsBindings == Spec => RebaseKeepsBindings
  <1> DEFINE Moving == (Len(envs') > Len(envs) /\ envs'[Len(envs')].from # 0)
                          => RebasedReads(envs'[Len(envs')])
  <1>1. Inv /\ [Next]_vars => [Moving]_vars
    <2> SUFFICES ASSUME Inv, Next
                 PROVE  Moving
      OBVIOUS
    <2>1. Len(envs) \in Nat
      BY DEF Inv, AllWellFormed
    <2>2. CASE Ended
      BY <2>1, <2>2 DEF Ended, vars
    <2>3. ASSUME NEW v \in Values, Start(v) PROVE Moving
      BY <2>3, StartImplements
    <2>4. ASSUME NEW e \in Own, NEW end \in Blocks(e), Rebase(e, end) PROVE Moving
      BY <2>4, RebaseReads
    <2>5. ASSUME NEW e \in Own, NEW n \in Names, NEW v \in Values, NEW plain \in BOOLEAN,
                 \/ OpenScope(e) \/ OpenRoot(e, v) \/ OpenTuple(e, n, v)
                 \/ CallLambda(e, n, v, plain) \/ BindVariable(e, n, v, plain)
          PROVE  Moving
      BY <2>5, OpenedNotRebased
    <2>6. Bindable \subseteq Names /\ Context \in Names /\ Absent \in Values
      BY NameAssumption DEF Bindable
    <2> HIDE DEF Moving
    <2>7. ASSUME NEW e \in Own, OpenScope(e) PROVE Moving
      BY <2>5, <2>6, <2>7
    <2>8. ASSUME NEW e \in Own, NEW v \in Values, OpenRoot(e, v) PROVE Moving
      BY <2>5, <2>6, <2>8
    <2>9. ASSUME NEW e \in Own, NEW n \in Bindable, NEW v \in Values, OpenTuple(e, n, v)
          PROVE  Moving
      BY <2>5, <2>6, <2>9
    <2>10. ASSUME NEW e \in Own, NEW n \in Bindable, NEW v \in Values,
                  NEW plain \in IF v = Absent THEN {FALSE} ELSE BOOLEAN,
                  CallLambda(e, n, v, plain) \/ BindVariable(e, n, v, plain)
           PROVE  Moving
      BY <2>5, <2>6, <2>10
    <2> QED
      BY <2>2, <2>3, <2>4, <2>7, <2>8, <2>9, <2>10 DEF Next
  <1> QED
    BY <1>1, EnvironmentsWellFormed, PTL DEF Spec, RebaseKeepsBindings
=============================================================================
