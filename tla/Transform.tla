------------------------------- MODULE Transform -------------------------------
(***************************************************************************)
(* The transform operator of internal/evaluator/eval_transform.go, over    *)
(* the objects and arrays of an evaluation.                                *)
(*                                                                         *)
(* A heap is a sequence of containers; a value is the place of one in it,  *)
(* or Scalar, or Fun for a function.  A container's items are its entries in *)
(* order, an array's by index.  clone is the transform that made an object *)
(* as a copy of its input, 0 for any other container; a frozen object was  *)
(* decoded from the input.                                                 *)
(***************************************************************************)
EXTENDS Integers, Sequences, SequencesExt, FiniteSetsExt

CONSTANTS
    CycleCheckDepth,   \* the depth from which a copy records the containers it is in
    MemoMinLen, ChainLookahead   \* which containers a search remembers

ASSUME TransformAssumption ==
    CycleCheckDepth \in Nat /\ MemoMinLen \in Nat /\ ChainLookahead \in Nat

Scalar == 0
Fun == -1
IsRef(v) == v > 0

Entry(key, value) == [key |-> key, value |-> value]
Object(items, clone) == [type |-> "object", items |-> items, clone |-> clone, frozen |-> FALSE]
ArrayOf(values) ==
    [type |-> "array", items |-> [i \in DOMAIN values |-> Entry(i, values[i])], clone |-> 0, frozen |-> FALSE]
Children(heap, v) == [i \in DOMAIN heap[v].items |-> heap[v].items[i].value]

\* OrderedMap.Set and Delete
Set(items, key, value) ==
    IF \E i \in DOMAIN items : items[i].key = key
    THEN [i \in DOMAIN items |-> IF items[i].key = key THEN Entry(key, value) ELSE items[i]]
    ELSE Append(items, Entry(key, value))
Delete(items, key) == SelectSeq(items, LAMBDA e : e.key # key)

IsObject(heap, v) == IsRef(v) /\ heap[v].type = "object"
\* transformClone.owns
Owns(heap, id, v) == IsObject(heap, v) /\ heap[v].clone = id
\* isContainer
IsContainer(heap, v) ==
    IsRef(v) /\ (IF heap[v].type = "object" THEN ~heap[v].frozen ELSE heap[v].items # <<>>)

-----------------------------------------------------------------------------
(* The copy of the input: copyTree with the frames of transformClone.      *)

\* valuePath.enter: path is the containers the copy is in
Reenters(path, v) == \E i \in CycleCheckDepth + 1 .. Len(path) : path[i] = v

RECURSIVE Copy(_, _, _, _)
Copy(heap, v, id, path) ==
    IF ~IsRef(v) THEN [heap |-> heap, value |-> Scalar, err |-> ""]   \* cloneLeaf
    ELSE IF Reenters(path, v) THEN [heap |-> heap, value |-> Scalar, err |-> "U1001"]
    ELSE LET Child(acc, e) ==
                 LET c == Copy(acc.heap, e.value, id, Append(path, v))
                 IN  IF acc.err # "" THEN acc
                     ELSE [heap |-> c.heap, err |-> c.err, items |-> Append(acc.items, Entry(e.key, c.value))]
             all == FoldLeft(Child, [heap |-> heap, err |-> "", items |-> <<>>], heap[v].items)
             copy == [heap[v] EXCEPT !.items = all.items, !.frozen = FALSE,
                                     !.clone = IF heap[v].type = "object" THEN id ELSE 0]
         IN  [heap |-> Append(all.heap, copy), value |-> Len(all.heap) + 1, err |-> all.err]

-----------------------------------------------------------------------------
(* Searching a value.  A memo holds the containers known to hold a match   *)
(* and those known to hold none.                                           *)

NoMemo == [yes |-> {}, no |-> {}]
Known(memo, v) == v \in memo.yes \cup memo.no
\* search, over a container's children, recorded for the container if worth it
Recorded(worth, v, search) ==
    IF ~worth THEN search
    ELSE IF search.found THEN [search EXCEPT !.memo.yes = @ \cup {v}]
    ELSE [search EXCEPT !.memo.no = @ \cup {v}]

\* worthMemo
RECURSIVE WorthMemo(_, _, _)
WorthMemo(heap, v, level) ==
    LET containers == SelectSeq(Children(heap, v), LAMBDA c : IsContainer(heap, c))
    IN  IF level > ChainLookahead THEN TRUE
        ELSE IF Len(heap[v].items) >= MemoMinLen \/ Len(containers) >= 2 THEN level = 0
        ELSE containers # <<>> /\ WorthMemo(heap, containers[1], level + 1)

\* leadsToMember, a searchTree: found and the memo after
RECURSIVE Leads(_, _, _, _, _)
Leads(heap, id, memo, v, path) ==
    LET worth == WorthMemo(heap, v, 0)
        Child(acc, c) == IF acc.found THEN acc ELSE Leads(heap, id, acc.memo, c, Append(path, v))
        Answer(found) == [found |-> found, memo |-> memo]
    IN  IF Owns(heap, id, v) THEN Answer(TRUE)
        ELSE IF ~IsContainer(heap, v) THEN Answer(FALSE)
        ELSE IF worth /\ Known(memo, v) THEN Answer(v \in memo.yes)
        ELSE IF Reenters(path, v) THEN Answer(FALSE)
        ELSE Recorded(worth, v, FoldLeft(Child, Answer(FALSE), Children(heap, v)))

\* a detacher: the transform and target it works for, its memos and copies
Detacher(id, target, ownedLeaf, leadsIn) ==
    [id |-> id, target |-> target, ownedLeaf |-> ownedLeaf, leadsIn |-> leadsIn, memo |-> NoMemo,
     found |-> FALSE, copies |-> <<>>]

\* a bug: the search stops at the update itself
ReachOwned(heap, d, v, path) == [d EXCEPT !.found = (v = d.target)]

\* detacher.reach: a searchTree whose visit may search leadsIn first
RECURSIVE Reach(_, _, _, _), ReachIn(_, _, _, _, _)
Reach(heap, d, v, path) ==
    IF v = d.target THEN [d EXCEPT !.found = TRUE]
    ELSE IF ~IsRef(v) \/ (d.ownedLeaf /\ Owns(heap, d.id, v)) THEN [d EXCEPT !.found = FALSE]
    ELSE ReachIn(heap, [d EXCEPT !.found = FALSE], v, path, Leads(heap, d.id, d.leadsIn, v, <<>>))

ReachIn(heap, d, v, path, leads) ==
    LET worth == WorthMemo(heap, v, 0)
        now == [d EXCEPT !.leadsIn = leads.memo]
        Child(acc, c) == IF acc.found THEN acc ELSE Reach(heap, acc, c, Append(path, v))
    IN  IF ~leads.found THEN now
        ELSE IF worth /\ Known(d.memo, v) THEN [now EXCEPT !.found = v \in d.memo.yes]
        ELSE IF Reenters(path, v) THEN now
        ELSE Recorded(worth, v, FoldLeft(Child, now, Children(heap, v)))

\* detacher.copy: every container of v that reaches the target copied, the
\* target without its children.  copies holds what was copied, as pairs.
RECURSIVE DetachCopy(_, _, _), DetachIn(_, _, _)
DetachCopy(heap, d, v) == DetachIn(heap, Reach(heap, d, v, <<>>), v)

DetachIn(heap, d, v) ==
    LET made == SelectSeq(d.copies, LAMBDA c : c[1] = v)
        new == Len(heap) + 1
        opened == [heap |-> Append(heap, [heap[v] EXCEPT !.clone = 0, !.frozen = FALSE]),
                   d |-> [d EXCEPT !.copies = Append(@, <<v, new>>)], value |-> new]
        Placed(i, c) == [c EXCEPT !.heap[new].items[i].value = c.value, !.value = new]
        Child(acc, i) == Placed(i, DetachCopy(acc.heap, acc.d, heap[v].items[i].value))
    IN  IF ~d.found THEN [heap |-> heap, d |-> d, value |-> v]
        ELSE IF made # <<>> THEN [heap |-> heap, d |-> d, value |-> made[1][2]]
        ELSE IF v = d.target THEN opened
        ELSE FoldLeft(Child, opened, [i \in DOMAIN heap[v].items |-> i])

-----------------------------------------------------------------------------
(* What a value holds, and what it looks like down to a depth.             *)

RECURSIVE ReachFrom(_, _)
ReachFrom(heap, refs) ==
    LET next == refs \cup {v \in UNION {ToSet(Children(heap, r)) : r \in refs} : IsRef(v)}
    IN  IF next = refs THEN refs ELSE ReachFrom(heap, next)
Below(heap, v) == ReachFrom(heap, {c \in ToSet(Children(heap, v)) : IsRef(c)})
ContainsItself(heap, v) == \E r \in ReachFrom(heap, {v}) : r \in Below(heap, r)

RECURSIVE Unfold(_, _, _)
Unfold(heap, v, depth) ==
    IF ~IsRef(v) \/ depth = 0 THEN <<>>
    ELSE <<heap[v].type, [i \in DOMAIN heap[v].items |->
                            <<heap[v].items[i].key, Unfold(heap, heap[v].items[i].value, depth - 1)>>]>>

-----------------------------------------------------------------------------
(* A transform: its input copied, then an update and a delete for each     *)
(* object its pattern matched.                                             *)

\* a document before any transform
Before(heap, root) ==
    [heap |-> heap, root |-> root, input |-> 0, doc |-> Scalar, id |-> 0, left |-> <<>>, noBinds |-> TRUE,
     matched |-> FALSE, leadsIn |-> NoMemo, err |-> ""]

\* applyTransform's clone of input, and of what a rebound $clone returned
Cloned(st, input, id) ==
    LET c == Copy(st.heap, input, id, <<>>)
    IN  [st EXCEPT !.heap = c.heap, !.input = input, !.doc = c.value, !.err = c.err, !.id = id]

\* the objects the pattern matched; noBinds when no clause binds a variable
Matched(st, targets, noBinds) == [st EXCEPT !.matched = TRUE, !.left = targets, !.noBinds = noBinds]

\* what a clause came to: an update its value (Scalar if undefined or null), a delete
\* clause the keys it names, and both the error of an evaluation that fails
Updating(value) == [value |-> value, err |-> ""]
Deleting(keys) == [keys |-> keys, err |-> ""]

\* the transform ends with an error, after what was merged
EndedBy(st, err) == [st EXCEPT !.err = err, !.left = <<>>]

\* a bug: the update is merged as it is
MergeAsIs(st, target, update) ==
    [st EXCEPT !.heap[target].items =
        FoldLeft(LAMBDA items, e : Set(items, e.key, e.value), @, st.heap[update].items)]

\* applyTarget's update: detached from the target, then merged into it
Merge(st, target, update) ==
    LET Into(copied) ==
            [st EXCEPT !.heap = [copied.heap EXCEPT ![target].items =
                           FoldLeft(LAMBDA items, e : Set(items, e.key, e.value), @,
                                    copied.heap[copied.value].items)],
                       !.leadsIn = copied.d.leadsIn]
    IN  Into(DetachCopy(st.heap, Detacher(st.id, target, st.noBinds, st.leadsIn), update))

\* a bug: a target outside the clone is changed too
AppliedAnywhere(st, update, deletion) ==
    LET target == Head(st.left)
        next == [st EXCEPT !.left = Tail(@)]
    IN  IF update.err # "" THEN EndedBy(next, update.err)
        ELSE IF IsObject(st.heap, update.value) THEN Merge(next, target, update.value) ELSE next

\* one target: the update clause came to update, and the delete clause to
\* deletion.  An object outside the clone is only validated, by the same clauses
\* (validateTransformClauses).
Applied(st, update, deletion) ==
    LET target == Head(st.left)
        next == [st EXCEPT !.left = Tail(@)]
        owned == Owns(st.heap, st.id, target)
        updated == IF owned /\ IsObject(st.heap, update.value) THEN Merge(next, target, update.value) ELSE next
    IN  IF update.err # "" THEN EndedBy(next, update.err)
        ELSE IF update.value # Scalar /\ ~IsObject(st.heap, update.value) THEN EndedBy(next, "T2011")
        ELSE IF deletion.err # "" THEN EndedBy(updated, deletion.err)
        ELSE IF ~owned THEN next
        ELSE [updated EXCEPT !.heap[target].items = FoldLeft(Delete, @, deletion.keys)]
=============================================================================
