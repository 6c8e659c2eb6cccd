------------------------------ MODULE SourceTrees ------------------------------
(***************************************************************************)
(* What a tree of the parser must be, said of the tree alone: the symbols  *)
(* it was read from, the binding powers its shape respects, its height.    *)
(* The definitions do not follow the parser; they read its trees.          *)
(***************************************************************************)
EXTENDS Integers, Sequences, SequencesExt, FiniteSetsExt

Closing == {")", "]", "}"}
Infix == {"**", "*", "/", "%", "+", "-", "&", "!=", "<=", ">=", "=", "<", ">", "in", "and", "or",
          "~>", "?:", "??", "..", ":=", "."}

IsInfix(n) == n.type \in Infix /\ n.kids # <<>>

\* every node in the tree n
RECURSIVE Subtrees(_)
Subtrees(n) ==
    LET below == ToSet(n.kids) \cup UNION {ToSet(n.marks[i].kids) : i \in DOMAIN n.marks}
    IN  {n} \cup UNION {Subtrees(k) : k \in below}

-----------------------------------------------------------------------------
(* The symbols of a tree, from left to right.                              *)

\* a source without the separators that may stand before a closer
Trimmed(src) ==
    LET last(i) == src[i] \in {",", ";"} /\ i < Len(src) /\ src[i + 1] \in Closing
    IN  FoldLeft(LAMBDA acc, i : IF last(i) THEN acc ELSE Append(acc, src[i]), <<>>,
                 [i \in 1 .. Len(src) |-> i])

RECURSIVE Yield(_)
Separated(kids, separators) ==
    FoldLeft(LAMBDA acc, i : acc \o (IF i = 1 THEN <<>> ELSE <<separators[1 + ((i - 2) % Len(separators))]>>)
                                 \o Yield(kids[i]),
             <<>>, [i \in 1 .. Len(kids) |-> i])
Enclosed(open, kids, separators, close) == <<open>> \o Separated(kids, separators) \o <<close>>

MarkYield(mark) ==
    CASE mark.symbol = "[]"          -> <<"[", "]">>
      [] mark.symbol \in {"#", "@"}  -> <<mark.symbol>> \o Yield(mark.kids[1])
      [] mark.symbol \in {"{", "{-"} -> Enclosed("{", mark.kids, <<":", ",">>, "}")

Bare(n) ==
    LET k == n.kids
    IN  CASE IsInfix(n)            -> Yield(k[1]) \o <<n.type>> \o Yield(k[2])
          [] n.type = "?" /\ k # <<>> -> Yield(k[1]) \o <<"?">> \o Separated(Tail(k), <<":">>)
          [] n.type = "minus"      -> <<"-">> \o Yield(k[1])
          [] n.type = "num"        -> [i \in 1 .. n.minus |-> "-"] \o <<"num">>
          [] n.type = "array"      -> Enclosed("[", k, <<",">>, "]")
          [] n.type = "object"     -> Enclosed("{", k, <<":", ",">>, "}")
          [] n.type = "block"      -> Enclosed("(", k, <<";">>, ")")
          [] n.type = "transform"  -> Enclosed("|", k, <<"|", ",">>, "|")
          [] n.type = "subscript"  -> Yield(k[1]) \o <<"[">> \o Yield(k[2]) \o <<"]">>
          [] n.type \in {"call", "partial"} -> Yield(k[1]) \o Enclosed("(", Tail(k), <<",">>, ")")
          [] n.type = "sort"       -> Yield(k[1]) \o <<"^">> \o Enclosed("(", Tail(k), <<",">>, ")")
          [] n.type = "term"       -> n.text \o Yield(k[1])
          [] n.type = "lambda"     -> <<"function">> \o Enclosed("(", Front(k), <<",">>, ")") \o n.text
                                        \o <<"{">> \o Yield(Last(k)) \o <<"}">>
          [] n.type = "regex"      -> <<"/">> \o n.text \o <<"/">>
          [] n.type = "name" /\ n.text # <<>> -> n.text
          [] OTHER                 -> <<n.type>>

Yield(n) == FoldLeft(LAMBDA acc, m : acc \o MarkYield(m), Bare(n), n.marks)

-----------------------------------------------------------------------------
(* The binding powers a shape respects, given the power of each operator.  *)

\* the power an operator asks of the operators in its right operand
RightPower(op, power) ==
    CASE op = "."                                  -> power[op] - 1
      [] op = "minus"                              -> 70
      [] op = "?"                                  -> 0
      [] op \in {"~>", "?:", "??", "..", ":="}     -> power[op] - 1
      [] OTHER                                     -> power[op]

\* the symbol that joined a node to its left operand, if one did
Joint(n) ==
    CASE IsInfix(n)                          -> n.type
      [] n.type = "?" /\ n.kids # <<>>         -> "?"
      [] n.type \in {"call", "partial"}        -> "("
      [] n.type = "subscript"                  -> "["
      [] n.type = "sort"                       -> "^"
      [] OTHER                                 -> ""
OpenRight(n) == Joint(n) \notin {"", "(", "[", "^"} \/ n.type = "minus"
MarkSymbol(m) == CASE m.symbol = "[]" -> "[" [] m.symbol = "{-" -> "{" [] OTHER -> m.symbol

\* the powers of the operators applied to what n starts with
RECURSIVE Spine(_, _), Edge(_, _)
Spine(n, power) ==
    {power[MarkSymbol(n.marks[i])] : i \in DOMAIN n.marks}
        \cup (IF Joint(n) = "" THEN {} ELSE {power[Joint(n)]} \cup Spine(n.kids[1], power))

\* the powers of the operators that n ends with an operand of
BareEdge(n, power) ==
    IF OpenRight(n)
    THEN {RightPower(IF n.type = "minus" THEN "minus" ELSE Joint(n), power)} \cup Edge(Last(n.kids), power)
    ELSE {}
Edge(n, power) ==
    IF n.type = "num" /\ n.minus > 0 /\ \A i \in DOMAIN n.marks : MarkSymbol(n.marks[i]) # "{"
    THEN {RightPower("minus", power)}
    ELSE IF n.marks = <<>> THEN BareEdge(n, power) ELSE {}

\* no operator of an operand lets go of what it could have taken, and none
\* takes what binds more loosely
Respects(n, power) ==
    /\ OpenRight(n) => \A q \in Spine(Last(n.kids), power) :
            q > RightPower(IF n.type = "minus" THEN "minus" ELSE Joint(n), power)
    /\ Joint(n) # "" => \A r \in Edge(n.kids[1], power) : r >= power[Joint(n)]
    /\ \A i \in DOMAIN n.marks : \A r \in BareEdge(n, power) : r >= power[MarkSymbol(n.marks[i])]

-----------------------------------------------------------------------------
\* the nodes on the longest way down; a sort's term is part of the sort
RECURSIVE HeightOf(_)
HeightOf(n) ==
    LET below == ToSet(n.kids) \cup UNION {ToSet(n.marks[i].kids) : i \in DOMAIN n.marks}
        own == IF n.type = "term" THEN 0 ELSE 1
    IN  own + Max({0} \cup {HeightOf(k) : k \in below})
=============================================================================
