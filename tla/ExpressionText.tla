--------------------------- MODULE ExpressionText ---------------------------
(***************************************************************************)
(* Expressions of the pseudocode as text and as trees: `ExprParser` and     *)
(* `expr_pseudo` of stc_pseudocode.py. A text is a sequence of tokens, with  *)
(* " " for a space (statements are split at spaces, expressions skip them). *)
(* A tree is [op, kids]; a leaf has no kids and its token as op, and one     *)
(* name of each kind stands for all: the list l, the table t, the variables *)
(* x and y, the sole keypad keys.                                           *)
(***************************************************************************)
EXTENDS Naturals, Sequences

Node(op, kids) == [op |-> op, kids |-> kids]
Leaf(token) == Node(token, <<>>)

PRECEDENCE == << {"or"}, {"and"}, {"=", "!=", "<", ">", "<=", ">="},
                 {"+", "-"}, {"*", "/", "%"} >>
Operators == UNION {PRECEDENCE[i] : i \in DOMAIN PRECEDENCE}
LEVEL == [op \in Operators |-> CHOOSE i \in DOMAIN PRECEDENCE : op \in PRECEDENCE[i]]
UNARY_LEVEL == Len(PRECEDENCE) + 1
NOT_LEVEL == LEVEL["="]

Means(token) == CASE token = "==" -> "=" [] token = "<>" -> "!="
                  [] token = "mod" -> "%" [] OTHER -> token

Lists == {"l"}
Tables == {"t"}
\* Only these words of the language are not names where an operand is expected:
\* not, pixel, item and length.
Words == {"or", "and", "mod", "a", "key", "is", "pressed", "released", "read", "of",
          "contains", "controller", "dx", "randint"}
Identifiers == {"x", "y", "led", "keys"} \cup Words
Numbers == {"0", "1", "5"}

\* Phrases that stand for an expression made of other things.
Sugar ==
    { [says |-> <<"a", "key", "is", "pressed">>, means |-> Node(">=", <<Leaf("keys"), Leaf("0")>>)],
      [says |-> <<"key", "5", "is", "pressed">>, means |-> Node("=", <<Leaf("keys"), Leaf("5")>>)],
      [says |-> <<"key", "5", "is", "released">>,
       means |-> Node("not", <<Node("=", <<Leaf("keys"), Leaf("5")>>)>>)],
      [says |-> <<"read", "led">>, means |-> Leaf("led")],
      [says |-> <<"on">>, means |-> Leaf("1")], [says |-> <<"off">>, means |-> Leaf("0")],
      [says |-> <<"length", "of", "l">>, means |-> Leaf("length")],
      [says |-> <<"controller", "dx">>, means |-> Leaf("controller")] }

-----------------------------------------------------------------------------
(* Reading: a result is the tree and the tokens after it, or a failure *)

Took(node, rest) == [node |-> node, rest |-> rest]
Failure == Took(Leaf("error"), <<>>)

StartsWith(ts, prefix) ==
    Len(prefix) <= Len(ts) /\ SubSeq(ts, 1, Len(prefix)) = prefix
After(ts, n) == SubSeq(ts, n + 1, Len(ts))

Then(r, More(_)) == IF r = Failure THEN r ELSE More(r)
Expect(r, tokens) ==
    Then(r, LAMBDA q : IF StartsWith(q.rest, tokens)
                       THEN Took(q.node, After(q.rest, Len(tokens))) ELSE Failure)
Wrap(op, r) == Then(r, LAMBDA q : Took(Node(op, <<q.node>>), q.rest))

RECURSIVE Parse(_, _), Climb(_, _), Atom(_)

\* ExprParser.parse: `not` is read where comparisons are.
Parse(level, ts) ==
    IF level > Len(PRECEDENCE) THEN Atom(ts)
    ELSE IF level = NOT_LEVEL /\ StartsWith(ts, <<"not">>)
    THEN Wrap("not", Parse(level, Tail(ts)))
    ELSE Climb(level, Parse(level + 1, ts))

ClimbRight(level, r) ==
    IF r = Failure \/ r.rest = <<>> \/ Means(Head(r.rest)) \notin PRECEDENCE[level]
    THEN r
    ELSE Then(Parse(level, Tail(r.rest)),
              LAMBDA q : Took(Node(Means(Head(r.rest)), <<r.node, q.node>>), q.rest))

Climb(level, r) ==
    IF r = Failure \/ r.rest = <<>> \/ Means(Head(r.rest)) \notin PRECEDENCE[level]
    THEN r
    ELSE Then(Parse(level + 1, Tail(r.rest)),
              LAMBDA q : Climb(level, Took(Node(Means(Head(r.rest)), <<r.node, q.node>>), q.rest)))

\* Two atoms, and whether the pixel is said to be on or off, or neither.
Pixel(ts) ==
    Then(Atom(ts), LAMBDA x : Then(Atom(x.rest), LAMBDA y :
        LET pixel == Node("pixel", <<x.node, y.node>>)
        IN  CASE StartsWith(y.rest, <<"is", "on">>) -> Took(pixel, After(y.rest, 2))
              [] StartsWith(y.rest, <<"is", "off">>) ->
                    Took(Node("not", <<pixel>>), After(y.rest, 2))
              [] StartsWith(y.rest, <<"is">>) -> Failure
              [] OTHER -> Took(pixel, y.rest)))

Randint(ts) ==
    Then(Parse(1, ts), LAMBDA low :
        LET comma == IF StartsWith(low.rest, <<",">>) THEN 1 ELSE 0
        IN  Then(Expect(Parse(1, After(low.rest, comma)), <<")">>), LAMBDA high :
                Took(Node("randint", <<low.node, high.node>>), high.rest)))

\* ExprParser.atom. Its own `not` takes an atom.
Atom(ts) ==
    IF ts = <<>> THEN Failure
    ELSE LET token == Head(ts)
             rest == Tail(ts)
             phrases == {s \in Sugar : StartsWith(ts, s.says)}
         IN  CASE phrases # {} ->
                     LET s == CHOOSE s \in phrases : TRUE
                     IN  Took(s.means, After(ts, Len(s.says)))
               [] token = "(" -> Expect(Parse(1, rest), <<")">>)
               [] token \in {"-", "not"} -> Wrap(token, Atom(rest))
               [] token = "pixel" -> Pixel(rest)
               [] StartsWith(ts, <<"randint", "(">>) -> Randint(Tail(rest))
               [] token = "item" -> Wrap("item", Expect(Atom(rest), <<"of", "l">>))
               [] token \in Lists ->
                     IF StartsWith(rest, <<"contains">>)
                     THEN Wrap("contains", Parse(1, Tail(rest))) ELSE Failure
               [] token \in Tables ->
                     IF StartsWith(rest, <<"[">>)
                     THEN Wrap("index", Expect(Parse(1, Tail(rest)), <<"]">>)) ELSE Failure
               [] token \in Identifiers \cup Numbers -> Took(Leaf(token), rest)
               [] OTHER -> Failure

\* expression(): all of the text.
Expression(text) ==
    LET r == Parse(1, SelectSeq(text, LAMBDA token : token # " "))
    IN  IF r.rest = <<>> THEN r.node ELSE Failure.node

-----------------------------------------------------------------------------
(* Printing *)

RECURSIVE Printed(_, _)
Spaced(text) == <<" ">> \o text \o <<" ">>

\* A name's text: a leaf is its own but for two.
LeafText(op) == CASE op = "length" -> <<"length", " ", "of", " ", "l">>
                  [] op = "controller" -> <<"controller", " ", "dx">>
                  [] OTHER -> <<op>>

RightUnclosed(n, parent) ==
    LET level == LEVEL[n.op]
        text == Printed(n.kids[1], level) \o Spaced(<<n.op>>) \o Printed(n.kids[2], level)
    IN  IF level < parent THEN <<"(">> \o text \o <<")">> ELSE text

BinaryPrinted(n, parent) ==
    LET level == LEVEL[n.op]
        text == Printed(n.kids[1], level) \o Spaced(<<n.op>>) \o Printed(n.kids[2], level + 1)
    IN  IF level < parent THEN <<"(">> \o text \o <<")">> ELSE text

\* expr_pseudo: parentheses only where the precedence of a binary operator
\* demands them.
Printed(n, parent) ==
    CASE n.kids = <<>> -> LeafText(n.op)
      [] n.op = "not" -> <<"not", " ">> \o Printed(n.kids[1], UNARY_LEVEL)
      [] n.op = "-" /\ Len(n.kids) = 1 -> <<"-">> \o Printed(n.kids[1], UNARY_LEVEL)
      [] n.op = "pixel" ->
            <<"pixel", " ">> \o Printed(n.kids[1], 0) \o <<" ">> \o Printed(n.kids[2], 0)
            \o <<" ", "is", " ", "on">>
      [] n.op = "randint" ->
            <<"randint", "(">> \o Printed(n.kids[1], 0) \o <<",", " ">>
            \o Printed(n.kids[2], 0) \o <<")">>
      [] n.op = "item" ->
            <<"item", " ">> \o Printed(n.kids[1], UNARY_LEVEL) \o <<" ", "of", " ", "l">>
      [] n.op = "contains" -> <<"l", " ", "contains", " ">> \o Printed(n.kids[1], 0)
      [] n.op = "index" -> <<"t", "[">> \o Printed(n.kids[1], 0) \o <<"]">>
      [] OTHER -> BinaryPrinted(n, parent)

ExprPseudo(n) == Printed(n, 0)

=============================================================================
