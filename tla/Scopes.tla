------------------------------- MODULE Scopes -------------------------------
(***************************************************************************)
(* What the environments of an evaluation promise: a tree of scopes, each  *)
(* a map from names to bindings, and a name is read from the nearest scope *)
(* that binds it.  A binding says with its value whether the value is a    *)
(* plain array; a rebinding forgets what the old one said.                 *)
(***************************************************************************)
EXTENDS Naturals, Sequences

CONSTANTS Names, Values, Unbound

Bindings == [value : Values, plain : BOOLEAN]
Vars == [Names -> Bindings \cup {Unbound}]

VARIABLE scopes   \* each scope's parent, 0 at the root, and its bindings

\* the nearest binding of n from scope s up; a parent is older than its child
Nearest(s, n) ==
    LET bound[t \in 0 .. Len(scopes)] ==
            IF t = 0 THEN Unbound
            ELSE IF scopes[t].vars[n] # Unbound THEN scopes[t].vars[n]
            ELSE bound[scopes[t].parent]
    IN  bound[s]

Init == \E v \in Vars : scopes = <<[parent |-> 0, vars |-> v]>>

\* a new scope, with the bindings it is given, leaves the others as they are
Open(parent, bindings) ==
    /\ parent \in DOMAIN scopes /\ bindings \in Vars
    /\ Len(scopes') = Len(scopes) + 1
    /\ SubSeq(scopes', 1, Len(scopes)) = scopes
    /\ scopes'[Len(scopes')] = [parent |-> parent, vars |-> bindings]

\* a name gets a binding, whatever it was bound to, and nothing else changes
Bind(s, n, binding) ==
    /\ binding \in Bindings
    /\ scopes' = [scopes EXCEPT ![s].vars[n] = binding]

Next ==
    \/ \E new \in {scopes'[Len(scopes')]} : Open(new.parent, new.vars)
    \/ /\ Len(scopes') = Len(scopes)
       /\ \E s \in DOMAIN scopes, n \in Names :
            /\ scopes'[s].vars[n] # scopes[s].vars[n]
            /\ Bind(s, n, scopes'[s].vars[n])

Spec == Init /\ [][Next]_scopes
=============================================================================
