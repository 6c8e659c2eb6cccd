----------------------------- MODULE JsonValues -----------------------------
(***************************************************************************)
(* The values gnata passes around: JSON as it stands in the raw bytes and  *)
(* the Go values it decodes to.  A value is a record with one field, which *)
(* names its type, so that values of different types are different.  An   *)
(* object is a sequence of <<key, value>> pairs, since raw bytes may name  *)
(* a key twice; a decoded object names it once.                            *)
(*                                                                         *)
(* Numbers and strings are names.  What the properties need to know of     *)
(* them is given by constants: Float is the float64 a number parses to,    *)
(* which several numbers may share, and Infinity when it is out of range.  *)
(***************************************************************************)
EXTENDS Integers, Sequences, SequencesExt

CONSTANTS
    Float,        \* number -> the float64 it rounds to
    Infinity,     \* the float64 of a number beyond its range
    Zeros,        \* the numbers whose float64 is 0 or -0
    Negatives,    \* the numbers below 0
    Trim,         \* string -> the string without surrounding space
    ParseFloat,   \* string -> the number strconv.ParseFloat reads, or NoNumber
    ParseRadix,   \* string with a 0x, 0b or 0o prefix -> its integer, or NoNumber
    NoNumber

Num(n) == [num |-> n]
Str(s) == [str |-> s]
Lit(l) == [lit |-> l]
Arr(s) == [arr |-> s]
Obj(s) == [obj |-> s]
Bool(b) == Lit(IF b THEN "true" ELSE "false")
Null == Lit("null")

Undefined == [undefined |-> TRUE]
Error(code) == [error |-> code]
\* a result computed by op from numbers or strings, and the length of an array
Calc(op, inputs) == [calc |-> <<op, inputs>>]
Count(n) == [count |-> n]

Is(type, v) == type \in DOMAIN v

-----------------------------------------------------------------------------
\* OrderedMap.Set: a key that is there keeps its place and takes the new value
MapSet(pairs, pair) ==
    LET at == {i \in DOMAIN pairs : pairs[i][1] = pair[1]}
    IN  IF at = {} THEN Append(pairs, pair)
        ELSE [i \in DOMAIN pairs |-> IF i \in at THEN pair ELSE pairs[i]]

\* decodeJSON: the Go value of raw JSON
RECURSIVE Decode(_)
Decode(v) ==
    IF Is("arr", v) THEN Arr([i \in DOMAIN v.arr |-> Decode(v.arr[i])])
    ELSE IF Is("obj", v)
    THEN LET pairs == [i \in DOMAIN v.obj |-> <<v.obj[i][1], Decode(v.obj[i][2])>>]
         IN  Obj(FoldLeft(MapSet, <<>>, pairs))
    ELSE v

\* MapGet on a decoded object, nothing on any other value
Field(v, key) ==
    IF Is("obj", v) /\ \E i \in DOMAIN v.obj : v.obj[i][1] = key
    THEN v.obj[CHOOSE i \in DOMAIN v.obj : v.obj[i][1] = key][2]
    ELSE Undefined

\* what an array value adds to a sequence that flattens it one level
Spread(v) == IF Is("arr", v) THEN v.arr ELSE IF v = Undefined THEN <<>> ELSE <<v>>

\* CollapseSequence: nothing, the lone value, or the array of several
Collapse(s) ==
    IF s = <<>> THEN Undefined ELSE IF Len(s) = 1 THEN s[1] ELSE Arr(s)

\* ToBoolean: an array is true when something in it is, at any depth; digits
\* out of range are not, although the float64 infinity is
RECURSIVE Truthy(_)
Truthy(v) ==
    \/ Is("lit", v) /\ v.lit = "true"
    \/ Is("str", v) /\ v.str # ""
    \/ Is("num", v) /\ v.num \notin Zeros /\ (Float[v.num] # Infinity \/ v.num = Infinity)
    \/ Is("count", v) /\ v.count # 0
    \/ Is("obj", v) /\ v.obj # <<>>
    \/ Is("arr", v) /\ \E i \in DOMAIN v.arr : Truthy(v.arr[i])
=============================================================================
