-------------------------------- MODULE Parser --------------------------------
(***************************************************************************)
(* The operator precedence parser of internal/parser/parser.go, and how    *)
(* the lexer reads a / in prefix and in infix position.                    *)
(*                                                                         *)
(* A source is a sequence of symbols, one per token but for a regex: its   *)
(* slashes and what they enclose are read as one token or as several.  A   *)
(* parser is passed from operator to operator, with the node parsed last;  *)
(* once err is set the operators leave it as it is.                        *)
(***************************************************************************)
EXTENDS Integers, Sequences, SequencesExt, FiniteSetsExt

CONSTANT MaxDepth   \* the deepest nesting the parser accepts

ASSUME DepthAssumption == MaxDepth \in Nat

Eof == "eof"
Left == {"**", "*", "/", "%", "+", "-", "&", "!=", "<=", ">=", "=", "<", ">", "in", "and", "or"}
Right == {"~>", "?:", "??", "..", ":="}
Openers == {"(", "[", "{"}
Closers == {")", "]", "}"}

\* bindingPower
Power(t) ==
    CASE t \in {"(", "["}                                  -> 80
      [] t \in {"@", "#", "."}                             -> 75
      [] t = "{"                                           -> 70
      [] t \in {"**", "*", "/", "%"}                       -> 60
      [] t \in {"+", "-", "&"}                             -> 50
      [] t = "~>"                                          -> 45
      [] t \in {"!=", "<=", ">=", "=", "<", ">", "in", "^"} -> 40
      [] t = "and"                                         -> 30
      [] t = "or"                                          -> 25
      [] t \in {"..", "?", "?:", "??"}                     -> 20
      [] t = ":="                                          -> 10
      [] OTHER                                             -> 0

-----------------------------------------------------------------------------
(* Nodes.  marks holds what the postfix operators that return their left   *)
(* side set on it, in order: [], #, @ and a group, { on a path and {- on a *)
(* step.  Of two of a kind the code keeps the last; marks keeps both.      *)

Node(type, kids) ==
    [type |-> type, kids |-> kids, text |-> <<>>, minus |-> 0, marks |-> <<>>,
     kept |-> FALSE, indexKeep |-> FALSE]
Leaf(type) == Node(type, <<>>)
Marked(node, symbol, kids) == [node EXCEPT !.marks = Append(@, [symbol |-> symbol, kids |-> kids])]

HasMark(node, symbol) == \E i \in DOMAIN node.marks : node.marks[i].symbol = symbol
KeepArray(node) == HasMark(node, "[]")

\* indexLast: a # was bound after any @
IndexLast(node) ==
    LET bound == SelectSeq(node.marks, LAMBDA m : m.symbol \in {"#", "@"})
    IN  bound # <<>> /\ Last(bound).symbol = "#"

\* isPathLike
RECURSIVE PathLike(_)
PathLike(node) ==
    \/ node.type \in {"name", "sort", "."} \/ HasMark(node, "#")
    \/ node.type = "subscript" /\ PathLike(node.kids[1])

-----------------------------------------------------------------------------
(* The parser and its lookahead.                                           *)

Fail(p, code) == [p EXCEPT !.err = code]
Defer(p, code) == IF p.deferred = "" THEN [p EXCEPT !.deferred = code] ELSE p
Give(p, node) == [p EXCEPT !.node = node]
On(p, Op(_)) == IF p.err # "" THEN p ELSE Op(p)

\* regexEnd: the / that closes a regex, by one count of all brackets
RegexEnd(src, start) ==
    LET Depth(i) == Len(SelectSeq(SubSeq(src, start, i), LAMBDA c : c \in Openers))
                  - Len(SelectSeq(SubSeq(src, start, i), LAMBDA c : c \in Closers))
        ends == {i \in start .. Len(src) : src[i] = "/" /\ Depth(i) = 0}
    IN  IF ends = {} THEN 0 ELSE Min(ends)

\* lenientRegexEnd, for a regex with brackets left open: classes hold any
\* symbol, a closing bracket that closes nothing is a literal
LenientRegexEnd(src, start) ==
    LET Step(st, i) ==
            LET c == src[i]
            IN  IF st.end # 0 THEN st
                ELSE IF c \in {"[", "]"} THEN [st EXCEPT !.class = (c = "[")]
                ELSE IF st.class THEN st
                ELSE IF c = "(" /\ st.unmatched > 0 THEN [st EXCEPT !.unmatched = @ - 1]
                ELSE IF c \in {"(", "{"} THEN [st EXCEPT !.open = Append(@, c)]
                ELSE IF c = ")" /\ st.open # <<>> THEN [st EXCEPT !.open = Front(@)]
                ELSE IF c = ")" THEN [st EXCEPT !.unmatched = @ + 1]
                ELSE IF c = "}" /\ st.open # <<>> /\ Last(st.open) = "{"
                    THEN [st EXCEPT !.open = Front(@)]
                ELSE IF c = "/" /\ st.open = <<>> /\ st.unmatched = 0 THEN [st EXCEPT !.end = i]
                ELSE st
    IN  FoldLeft(Step, [end |-> 0, class |-> FALSE, open |-> <<>>, unmatched |-> 0],
                 [k \in 1 .. Len(src) - start + 1 |-> start + k - 1]).end

\* Parser.next over Lexer.Next
Next(p, infix) ==
    LET t == IF p.at > Len(p.src) THEN Eof ELSE p.src[p.at]
        strict == RegexEnd(p.src, p.at + 1)
        end == IF strict # 0 THEN strict ELSE LenientRegexEnd(p.src, p.at + 1)
    IN  IF t = "/" /\ ~infix
        THEN IF end = 0 THEN Fail(p, "S0302")
             ELSE IF end = p.at + 1 THEN Fail(p, "S0301")
             ELSE [p EXCEPT !.token = "regex", !.text = SubSeq(p.src, p.at + 1, end - 1), !.at = end + 1]
        ELSE IF t \in {"!", "~"} THEN Fail(p, "S0204")
        ELSE [p EXCEPT !.token = t, !.at = @ + 1]

Advance(p) == Next(p, FALSE)
AdvanceInfix(p) == Next(p, TRUE)

\* expect
Expect(p, t) ==
    IF p.token = t THEN p ELSE Fail(p, IF p.token = Eof THEN "S0203" ELSE "S0202")
Consume(p, t) == On(Expect(p, t), Advance)
ConsumeInfix(p, t) == On(Expect(p, t), AdvanceInfix)

-----------------------------------------------------------------------------
(* Expressions.                                                            *)

RECURSIVE Expression(_, _), Chain(_, _, _), List(_, _, _, _), Pairs(_, _), Statements(_, _)
RECURSIVE SignatureText(_, _, _), GiveKeep(_, _)

\* parseArgument
Argument(p) ==
    IF p.token = "?" THEN Give(Advance(p), Leaf("?")) ELSE Expression(p, 0)

\* a sort's term, with its direction
Term(p) ==
    LET ordered == IF p.token \in {"<", ">"} THEN Advance(p) ELSE p
    IN  On(On(ordered, LAMBDA q : Expression(q, 0)),
           LAMBDA q : Give(q, [Node("term", <<q.node>>) EXCEPT
                                   !.text = IF p.token \in {"<", ">"} THEN <<p.token>> ELSE <<>>]))

\* the loops over comma-separated items, up to the closer; the items are
\* given as the kids of a list
List(p, Item(_), close, items) ==
    IF p.token = close THEN Give(p, Node("list", items))
    ELSE IF p.token = Eof THEN Fail(p, "S0203")
    ELSE On(Item(p), LAMBDA q :
            On(IF q.token = "," THEN Advance(q) ELSE Expect(q, close),
               LAMBDA r : List(r, Item, close, Append(items, q.node))))

\* parseObjectPairs
Pairs(p, items) ==
    IF p.token = "}" THEN Give(p, Node("list", items))
    ELSE IF p.token = Eof THEN Fail(p, "S0203")
    ELSE On(Expression(p, 0), LAMBDA key :
         On(Consume(key, ":"), LAMBDA q :
         On(Expression(q, 0), LAMBDA value :
         On(IF value.token = "," THEN Advance(value) ELSE Expect(value, "}"),
            LAMBDA r : Pairs(r, items \o <<key.node, value.node>>)))))

\* the statements of a block after its first
Statements(p, items) ==
    IF p.token # ";" THEN Give(ConsumeInfix(p, ")"), Node("block", items))
    ELSE On(Advance(p), LAMBDA q :
            IF q.token = ")" THEN Give(AdvanceInfix(q), Node("block", items))
            ELSE On(Expression(q, 0), LAMBDA r : Statements(r, Append(items, r.node))))

\* parseParenOrBlock
Block(p) ==
    On(AdvanceInfix(p), LAMBDA q :
        IF q.token = ")" THEN Give(AdvanceInfix(q), Leaf("block"))
        ELSE On(Expression(q, 0), LAMBDA r : Statements(r, <<r.node>>)))

\* parseSignatureString
SignatureText(p, depth, text) ==
    IF p.token \in {Eof, "{"} THEN Expect(p, ">")
    ELSE IF p.token = ">" /\ depth = 1 THEN [Advance(p) EXCEPT !.text = Append(text, ">")]
    ELSE On(Advance(p), LAMBDA q :
            SignatureText(q, CASE p.token = "<" -> depth + 1 [] p.token = ">" -> depth - 1
                               [] OTHER -> depth, Append(text, p.token)))

\* parseLambda; ParseSig's own errors are not modelled
Lambda(p) ==
    On(Consume(p, "("), LAMBDA q :
    On(List(q, Argument, ")", <<>>), LAMBDA params :
    On(AdvanceInfix(params), LAMBDA r :
        IF \E i \in DOMAIN params.node.kids :
            LET param == params.node.kids[i]
            IN  param.type # "$x" \/ \E s \in {"#", "@", "{", "{-"} : HasMark(param, s)
        THEN Fail(r, "S0208")
        ELSE LET signed == IF r.token # "<" THEN [r EXCEPT !.text = <<>>]
                           ELSE On(Advance(r), LAMBDA s : SignatureText(s, 1, <<"<">>))
             IN  On(On(signed, LAMBDA s : Consume(s, "{")), LAMBDA s :
                 On(Expression(s, 0), LAMBDA body :
                 Give(Consume(body, "}"),
                      [Node("lambda", Append(params.node.kids, body.node)) EXCEPT !.text = signed.text]))))))

\* parseTransform
Transform(p) ==
    On(AdvanceInfix(p), LAMBDA q :
    On(Expression(q, 0), LAMBDA pattern :
    On(Consume(pattern, "|"), LAMBDA r :
    On(Expression(r, 0), LAMBDA update :
        IF update.token # ","
        THEN Give(Consume(update, "|"), Node("transform", <<pattern.node, update.node>>))
        ELSE On(On(Advance(update), LAMBDA s : Expression(s, 0)), LAMBDA delete :
                Give(Consume(delete, "|"),
                     Node("transform", <<pattern.node, update.node, delete.node>>)))))))

\* a prefix minus, folded into a number literal
Minus(p) ==
    On(On(AdvanceInfix(p), LAMBDA q : Expression(q, 70)), LAMBDA r :
        Give(r, IF r.node.type = "num" THEN [r.node EXCEPT !.minus = @ + 1]
                ELSE Node("minus", <<r.node>>)))

Bracketed(p, type, close) ==
    On(IF close = "}" THEN Pairs(p, <<>>) ELSE List(p, LAMBDA q : Expression(q, 0), close, <<>>),
       LAMBDA q : Give(AdvanceInfix(q), Node(type, q.node.kids)))

\* nud
Nud(p) ==
    LET t == p.token
    IN  CASE t = Eof -> Give(Defer(p, "S0207"), Leaf("missing"))
          [] t = "function" -> On(AdvanceInfix(p), LAMBDA q :
                IF q.token = "(" THEN Lambda(q) ELSE Give(q, [Leaf("name") EXCEPT !.text = <<t>>]))
          [] t \in {"and", "or", "in"} -> Give(AdvanceInfix(p), [Leaf("name") EXCEPT !.text = <<t>>])
          [] t = "regex" -> Give(AdvanceInfix(p), [Leaf("regex") EXCEPT !.text = p.text])
          [] t \in {"name", "$x", "num", "str", "value", "*", "**", "%"} ->
                Give(AdvanceInfix(p), Leaf(t))
          [] t = "-" -> Minus(p)
          [] t = "[" -> On(AdvanceInfix(p), LAMBDA q : Bracketed(q, "array", "]"))
          [] t = "{" -> On(AdvanceInfix(p), LAMBDA q : Bracketed(q, "object", "}"))
          [] t = "(" -> Block(p)
          [] t = "|" -> Transform(p)
          [] OTHER -> Fail(p, "S0211")

\* a bug: every operator groups to the right
BinaryFromTheRight(p, left, type, power) ==
    On(On(Advance(p), LAMBDA q : Expression(q, power - 1)), LAMBDA r : Give(r, Node(type, <<left, r.node>>)))

\* an infix operator, whose right side binds tighter than power
Binary(p, left, type, power) ==
    On(On(Advance(p), LAMBDA q : Expression(q, power)), LAMBDA r : Give(r, Node(type, <<left, r.node>>)))

\* a bug: the else part is read and forgotten
ConditionalHalf(p, left) ==
    On(On(Advance(p), LAMBDA q : Expression(q, 0)), LAMBDA then :
        On(IF then.token # ":" THEN then ELSE On(Advance(then), LAMBDA q : Expression(q, 0)),
           LAMBDA q : Give(q, Node("?", <<left, then.node>>))))

\* the conditional operator
Conditional(p, left) ==
    On(On(Advance(p), LAMBDA q : Expression(q, 0)), LAMBDA then :
        IF then.token # ":" THEN Give(then, Node("?", <<left, then.node>>))
        ELSE On(On(Advance(then), LAMBDA q : Expression(q, 0)), LAMBDA else :
                Give(else, Node("?", <<left, then.node, else.node>>))))

\* parseBinding
Binding(p, left, focus) ==
    On(On(Advance(p), LAMBDA q : Expression(q, 80)), LAMBDA q :
        IF q.node.type # "$x" THEN Fail(q, "S0214")
        ELSE Give(IF ~focus THEN q
                  ELSE IF left.type = "subscript" THEN Defer(q, "S0215")
                  ELSE IF left.type = "sort" THEN Defer(q, "S0216") ELSE q,
                  Marked(left, IF focus THEN "@" ELSE "#", <<q.node>>)))

\* parseFunctionCall
Call(p, callee) ==
    On(On(Advance(p), LAMBDA q : List(q, Argument, ")", <<>>)), LAMBDA q :
        Give(AdvanceInfix(q),
             Node(IF \E i \in DOMAIN q.node.kids : q.node.kids[i].type = "?" THEN "partial" ELSE "call",
                  <<callee>> \o q.node.kids)))

\* an empty []: the # it follows along the subscripts, if any, takes it too
GiveKeep(node, again) ==
    IF IndexLast(node) THEN [node EXCEPT !.kept = TRUE, !.indexKeep = @ \/ ~again]
    ELSE IF node.type = "subscript" THEN [node EXCEPT !.kids[1] = GiveKeep(@, again)]
    ELSE node

\* parseSubscript
Subscript(p, left) ==
    LET grouped == \E i \in DOMAIN left.marks : left.marks[i].symbol = "{-"
    IN  On(Advance(p), LAMBDA q :
            IF q.token = "]"
            THEN Give(Advance(q), GiveKeep(Marked(left, "[]", <<>>), KeepArray(left)))
            ELSE On(Expression(IF grouped THEN Defer(q, "S0209") ELSE q, 0), LAMBDA r :
                    Give(ConsumeInfix(r, "]"), Node("subscript", <<left, r.node>>))))

\* parseSortExpr
Sort(p, left) ==
    On(On(Advance(p), LAMBDA q : Consume(q, "(")), LAMBDA q :
    On(List(q, Term, ")", <<>>), LAMBDA r : Give(Advance(r), Node("sort", <<left>> \o r.node.kids))))

\* a group after its {: on a path ("{") or on a step ("{-")
Group(p, left) ==
    LET grouped == HasMark(left, "{") \/ HasMark(left, "{-")
    IN  On(Advance(IF grouped THEN Defer(p, "S0210") ELSE p), LAMBDA q :
        On(Pairs(q, <<>>), LAMBDA r :
            Give(AdvanceInfix(r), Marked(left, IF PathLike(left) THEN "{" ELSE "{-", r.node.kids))))

\* led
Led(p) ==
    LET t == p.token left == p.node
    IN  CASE t = "(" -> Call(p, left)
          [] t = "[" -> Subscript(p, left)
          [] t = "{" -> Group(p, left)
          [] t = "^" -> Sort(p, left)
          [] t = "?" -> Conditional(p, left)
          [] t \in {"@", "#"} -> Binding(p, left, t = "@")
          [] t = "." -> Binary(p, left, ".", 74)
          [] t = ":=" /\ left.type # "$x" -> Fail(p, "S0212")
          [] t \in Left -> Binary(p, left, t, Power(t))
          [] t \in Right -> Binary(p, left, t, Power(t) - 1)

\* expression: its first operand and the operators that bind tighter than
\* power.  height is that of the tallest subtree finished in this call.
Expression(p, power) ==
    IF p.depth = MaxDepth THEN Fail(p, "S0218")
    ELSE On(Nud([p EXCEPT !.depth = @ + 1, !.height = 0]), LAMBDA q :
         On(Chain(q, power, q.height + 1), LAMBDA r :
            [r EXCEPT !.depth = p.depth, !.height = Max({p.height, @})]))

\* a bug: an operator's own node is counted on its right side only
ChainByRight(p, power, height) ==
    IF height > MaxDepth THEN Fail(p, "S0218")
    ELSE IF Power(p.token) <= power THEN [p EXCEPT !.height = height]
    ELSE On(Led([p EXCEPT !.height = 0]),
            LAMBDA q : Chain(q, power, Max({height, q.height + 1})))

\* the loop of expression
Chain(p, power, height) ==
    IF height > MaxDepth THEN Fail(p, "S0218")
    ELSE IF Power(p.token) <= power THEN [p EXCEPT !.height = height]
    ELSE On(Led([p EXCEPT !.height = 0]),
            LAMBDA q : Chain(q, power, Max({height, q.height}) + 1))

\* NewParser and Parse
Parse(src) ==
    LET p == Advance([src |-> src, at |-> 1, token |-> Eof, text |-> <<>>, node |-> Leaf("none"),
                      depth |-> 0, height |-> 0, deferred |-> "", err |-> ""])
    IN  On(On(p, LAMBDA q : Expression(q, 0)), LAMBDA q :
            IF q.token # Eof THEN Fail(q, "S0201") ELSE Fail(q, q.deferred))
=============================================================================
