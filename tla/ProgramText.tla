---------------------------- MODULE ProgramText -----------------------------
(***************************************************************************)
(* Programs as text: what `parse` of stc_pseudocode.py makes of the lines    *)
(* of a script and what `emit_pseudocode` writes for them. /decompile does   *)
(* one after the other, and its answer may be sent to it again.              *)
(* A statement is a verb, a row of Verbs, and the expressions in its slots.  *)
(* A script is a sequence of lines, [indent, head], of which only the shape  *)
(* matters: the text of a line is a statement's and is looked at there.      *)
(***************************************************************************)
EXTENDS ExpressionText, FiniteSets, FiniteSetsExt

CONSTANTS
    Trees,       \* expressions a program may be made of
    Fillings,    \* sequences of expressions that fill the slots of a verb
    Flat,        \* texts of an expression without parentheses
    Scripts      \* scripts: sequences of lines

-----------------------------------------------------------------------------
(* Statements *)

\* The slots: one with no space in it (\S+), and one with anything (.+).
WORD == "\\S+"
SOME == ".+"
Slots == {WORD, SOME}

\* The verbs in the order they are tried; a name that must be declared as
\* something (l a list, scr a matrix, seg and leds displays) is a literal.
Verbs == <<
    <<"while", SOME, ":">>, <<"repeat", "until", SOME, ":">>, <<"repeat", SOME, ":">>,
    <<"if", SOME, "then:">>,
    <<"wait", "until", SOME>>, <<"wait", SOME, "ms">>, <<"wait", SOME, "seconds">>,
    <<"light", "pixel", WORD, WORD>>, <<"clear", "pixel", WORD, WORD>>,
    <<"set", "pixel", WORD, WORD, "to", "lit">>, <<"set", "pixel", WORD, WORD, "brightness", SOME>>,
    <<"draw", "row", WORD, "=", SOME>>, <<"show", "image", "t", "on", "scr">>,
    <<"scroll", "scr", "left">>, <<"set", "scr", "brightness", SOME>>, <<"clear", "scr">>,
    <<"delete", "all", "of", "l">>, <<"add", SOME, "to", "l">>, <<"delete", SOME, "of", "l">>,
    <<"insert", SOME, "at", SOME, "of", "l">>,
    <<"replace", "item", SOME, "of", "l", "with", SOME>>,
    <<"arcade", "create", "hero", "kind", "player">>,
    <<"arcade", "place", "hero", "x", SOME, "y", SOME>>,
    <<"arcade", "move", "hero", "vx", SOME, "vy", SOME>>,
    <<"arcade", "set", "hero", "stay in screen">>, <<"arcade", "score", "add", SOME>>,
    <<"arcade", "game", "over", "win">>,
    <<"arcade", "tilemap", "map", "cols", WORD, "rows", WORD, "tile", WORD>>,
    <<"arcade", "set", "tile", "map", "col", WORD, "row", WORD, "to", SOME>>,
    <<"arcade", "set", "wall", "map", "tile", WORD>>, <<"arcade", "set", "frame", "hero", "to", SOME>>,
    <<"lcd", "print", "text", "on", "lcd1">>, <<"lcd", "print", SOME, "on", "lcd1">>,
    <<"lcd", "set", "cursor", WORD, WORD, "on", "lcd1">>, <<"lcd", "clear", "lcd1">>,
    <<"tft", "pixel", WORD, WORD, "R", WORD, "G", WORD, "B", WORD, "on", "tft1">>,
    <<"tft", "fill", WORD, WORD, WORD, WORD, "R", WORD, "G", WORD, "B", WORD, "on", "tft1">>,
    <<"tft", "clear", "tft1">>, <<"tft", "print", "text", "on", "tft1">>,
    <<"tft", "print", SOME, "on", "tft1">>, <<"tft", "set", "cursor", WORD, WORD, "on", "tft1">>,
    <<"oled", "pixel", WORD, WORD, WORD, "on", "oled1">>, <<"oled", "clear", "oled1">>,
    <<"oled", "print", "text", "on", "oled1">>, <<"oled", "print", SOME, "on", "oled1">>,
    <<"oled", "set", "cursor", WORD, WORD, "on", "oled1">>,
    <<"set", "rgb1", "colour", "to", "R", WORD, "G", WORD, "B", WORD>>,
    <<"show", "number", SOME, "on", "seg">>, <<"show", "digit", SOME, "=", "value", SOME, "on", "seg">>,
    <<"set", "digit", SOME, "to", "segments", SOME, "on", "seg">>, <<"clear", "seg">>,
    <<"turn", "on", "led", SOME, "on", "leds">>, <<"turn", "off", "led", SOME, "on", "leds">>,
    <<"set", "leds", "to", SOME, "on", "leds">>, <<"light", "only", "led", SOME, "on", "leds">>,
    <<"turn", "on", "lamp">>, <<"turn", "off", "lamp">>, <<"turn", "off", "beeper">>,
    <<"set", "lamp", "high">>, <<"set", "part1", "to", SOME>>, <<"set", "port1", "to", SOME>>,
    <<"print", "text">>, <<"print", SOME>>, <<"set", "beeper", "to", SOME, "hz">>,
    <<"set", "motor", "to", SOME, "percent">>, <<"set", "x", "to", SOME>>,
    <<"change", "x", "by", SOME>>, <<"toggle", "lamp">>, <<"stop">> >>

CALL == Len(Verbs) + 1
Arity(v) == Len(SelectSeq(Verbs[v], LAMBDA part : part \in Slots))
Row(parts) == CHOOSE v \in DOMAIN Verbs : Verbs[v] = parts
SetTone == Row(<<"set", "beeper", "to", SOME, "hz">>)
Silence == Row(<<"turn", "off", "beeper">>)

Statement(verb, args) == [verb |-> verb, args |-> args]
NotUnderstood == Statement(0, <<>>)

RECURSIVE Bindings(_, _), Filled(_, _), Arguments(_), Listed(_)

\* The ways a text matches the parts of a verb, which are a space apart: the
\* texts of its slots.
Bindings(parts, text) ==
    LET more(n) == IF Len(parts) = 1 THEN IF n = Len(text) THEN {<<>>} ELSE {}
                   ELSE IF StartsWith(After(text, n), <<" ">>)
                   THEN Bindings(Tail(parts), After(text, n + 1)) ELSE {}
        fits(n) == Head(parts) = SOME \/ \A i \in 1..n : text[i] # " "
    IN  IF Head(parts) \in Slots
        THEN UNION {{<<SubSeq(text, 1, n)>> \o b : b \in more(n)} : n \in {k \in 1..Len(text) : fits(k)}}
        ELSE IF StartsWith(text, <<Head(parts)>>) THEN more(1) ELSE {}

\* Of those, the one with the shortest text in its first slot, then its second.
Lazy(bindings) ==
    CHOOSE b \in bindings : \A c \in bindings :
        b = c \/ \E i \in DOMAIN b : /\ \A j \in 1..(i - 1) : b[j] = c[j]
                                     /\ Len(b[i]) < Len(c[i])

\* split_arguments: at the commas outside parentheses.
Count(text, n, token) == Cardinality({i \in 1..n : text[i] = token})
Arguments(text) ==
    LET commas == {i \in DOMAIN text : text[i] = "," /\ Count(text, i, "(") = Count(text, i, ")")}
    IN  IF commas = {} THEN <<text>>
        ELSE <<SubSeq(text, 1, Min(commas) - 1)>> \o Arguments(After(text, Min(commas)))

Understood(verb, texts) ==
    LET args == [i \in DOMAIN texts |-> Expression(texts[i])]
    IN  IF \E i \in DOMAIN args : args[i] = Failure.node THEN NotUnderstood
        ELSE Statement(verb, args)

\* A call: f takes one argument and g two, in parentheses or after a space.
ReadCall(text) ==
    LET rest == SelectSeq(SubSeq(text, 2, 2), LAMBDA c : c # " ") \o After(text, 2)
        enclosed == StartsWith(rest, <<"(">>) /\ rest[Len(rest)] = ")"
        args == Arguments(IF enclosed THEN SubSeq(rest, 2, Len(rest) - 1) ELSE rest)
    IN  IF Len(args) = (IF text[1] = "f" THEN 1 ELSE 2) THEN Understood(CALL, args)
        ELSE NotUnderstood

\* simple_statement: the first verb that matches is the one. Turning a beeper
\* off is a tone of 0 Hz.
ReadStatement(text) ==
    LET matching == {v \in DOMAIN Verbs : Bindings(Verbs[v], text) # {}}
        v == Min(matching)
    IN  CASE text[1] \in {"f", "g"} -> ReadCall(text)
          [] matching = {} -> NotUnderstood
          [] v = Silence -> Statement(SetTone, <<Leaf("0")>>)
          [] OTHER -> Understood(v, Lazy(Bindings(Verbs[v], text)))

Filled(parts, texts) ==
    LET slot == Head(parts) \in Slots
        part == IF slot THEN Head(texts) ELSE <<Head(parts)>>
    IN  IF Len(parts) = 1 THEN part
        ELSE part \o <<" ">> \o Filled(Tail(parts), IF slot THEN Tail(texts) ELSE texts)

Listed(texts) ==
    IF Len(texts) = 1 THEN texts[1] ELSE texts[1] \o <<",", " ">> \o Listed(Tail(texts))

Callee(args) == IF Len(args) = 1 THEN "f" ELSE "g"

\* stmts_pseudo, for one statement.
PrintStatement(s) ==
    LET texts == [i \in DOMAIN s.args |-> ExprPseudo(s.args[i])]
    IN  CASE s.verb = CALL -> <<Callee(s.args), " ">> \o Listed(texts)
          [] s = Statement(SetTone, <<Leaf("0")>>) -> Filled(Verbs[Silence], <<>>)
          [] OTHER -> Filled(Verbs[s.verb], texts)

-----------------------------------------------------------------------------
(* Scripts *)

Openers == {"forever:", "if:"}     \* "forever:" stands for every loop
Line(indent, head) == [indent |-> indent, head |-> head]
Block(head, kids, orelse) == [head |-> head, kids |-> kids, orelse |-> orelse]

Body(kids, next) == [kids |-> kids, next |-> next]
Inconsistent == Body(<<Block("error", <<>>, <<>>)>>, 0)

RECURSIVE ParseBlock(_, _, _), ParseLines(_, _, _, _), ScriptPrinted(_, _)

At(lines, i, parent) == i \in DOMAIN lines /\ lines[i].indent > parent

\* parse_block: the block under an indent has the indent of its first line.
ParseBlock(lines, index, parent) ==
    IF At(lines, index, parent) THEN ParseLines(lines, index, parent, lines[index].indent)
    ELSE Body(<<>>, index)

ParseLines(lines, index, parent, indent) ==
    IF ~At(lines, index, parent) THEN Body(<<>>, index)
    ELSE IF lines[index] \notin [indent : {indent}, head : Openers \cup {"statement"}]
    THEN Inconsistent
    ELSE LET head == lines[index].head
             inner == IF head \in Openers THEN ParseBlock(lines, index + 1, indent)
                      ELSE Body(<<>>, index + 1)
             orelse == IF /\ head = "if:" /\ inner.next \in DOMAIN lines
                          /\ lines[inner.next] = Line(indent, "else:")
                       THEN ParseBlock(lines, inner.next + 1, indent)
                       ELSE Body(<<>>, inner.next)
             rest == ParseLines(lines, orelse.next, parent, indent)
         IN  IF Inconsistent \in {inner, orelse, rest} THEN Inconsistent
             ELSE Body(<<Block(head, inner.kids, orelse.kids)>> \o rest.kids, rest.next)

\* stmts_pseudo: two spaces a level, and an ELSE only where it has a body.
ScriptPrinted(blocks, depth) ==
    IF blocks = <<>> THEN <<>>
    ELSE LET b == Head(blocks)
         IN  <<Line(2 * depth, b.head)>> \o ScriptPrinted(b.kids, depth + 1)
             \o (IF b.orelse = <<>> THEN <<>>
                 ELSE <<Line(2 * depth, "else:")>> \o ScriptPrinted(b.orelse, depth + 1))
             \o ScriptPrinted(Tail(blocks), depth)

-----------------------------------------------------------------------------
(* What somebody writes: every operand in parentheses *)

RECURSIVE Written(_)
Closed(n) == <<"(">> \o Written(n) \o <<")">>
Written(n) ==
    CASE n.kids = <<>> -> LeafText(n.op)
      [] Len(n.kids) = 1 /\ n.op \in {"not", "-"} -> <<n.op>> \o Closed(n.kids[1])
      [] n.op = "pixel" ->
            <<"pixel">> \o Closed(n.kids[1]) \o Closed(n.kids[2]) \o <<"is", " ", "on">>
      [] n.op = "randint" ->
            <<"randint", "(">> \o Closed(n.kids[1]) \o <<",">> \o Closed(n.kids[2]) \o <<")">>
      [] n.op = "item" -> <<"item">> \o Closed(n.kids[1]) \o <<"of", " ", "l">>
      [] n.op = "contains" -> <<"l", " ", "contains">> \o Closed(n.kids[1])
      [] n.op = "index" -> <<"t", "[">> \o Written(n.kids[1]) \o <<"]">>
      [] OTHER -> Closed(n.kids[1]) \o <<n.op>> \o Closed(n.kids[2])

WrittenStatement(v, args) ==
    LET texts == [i \in DOMAIN args |-> Written(args[i])]
    IN  IF v = CALL THEN <<Callee(args), "(">> \o Listed(texts) \o <<")">>
        ELSE Filled(Verbs[v], texts)

-----------------------------------------------------------------------------
(* /decompile, and /decompile of its answer *)

VARIABLES
    kind,    \* what the text is of: "expression", "statement" or "script"
    text,    \* the text
    tree,    \* what it was read as
    first,   \* what the first text was read as
    stage    \* "written", "read", "printed", "reread" or "refused"

textVars == <<kind, text, tree, first, stage>>

TextInit ==
    /\ stage = "written" /\ tree = <<>> /\ first = <<>>
    /\ \/ kind = "expression" /\ \E n \in Trees : text = Written(n)
       \/ kind = "expression" /\ text \in Flat
       \/ kind = "script" /\ text \in Scripts
       \/ /\ kind = "statement"
          /\ \E v \in DOMAIN Verbs \cup {CALL}, args \in Fillings :
                /\ IF v = CALL THEN Len(args) \in {1, 2} ELSE Len(args) = Arity(v)
                /\ text = WrittenStatement(v, args)

Reading == CASE kind = "expression" -> Expression(text)
             [] kind = "statement" -> ReadStatement(text)
             [] kind = "script" -> ParseBlock(text, 1, 0).kids

Unread(t) == CASE kind = "expression" -> t = Failure.node
               [] kind = "statement" -> t = NotUnderstood
               [] kind = "script" -> t = Inconsistent.kids

\* parse: of what somebody wrote, and of what was printed.
Read ==
    /\ stage \in {"written", "printed"}
    /\ tree' = Reading
    /\ first' = IF stage = "written" THEN tree' ELSE first
    /\ stage' = CASE stage = "printed" -> "reread"
                  [] Unread(tree') -> "refused"
                  [] OTHER -> "read"
    /\ UNCHANGED <<kind, text>>

\* emit_pseudocode
Emit ==
    /\ stage = "read"
    /\ text' = CASE kind = "expression" -> ExprPseudo(tree)
                 [] kind = "statement" -> PrintStatement(tree)
                 [] kind = "script" -> ScriptPrinted(tree, 1)
    /\ stage' = "printed"
    /\ UNCHANGED <<kind, tree, first>>

TextNext == Read \/ Emit
TextSpec == TextInit /\ [][TextNext]_textVars

-----------------------------------------------------------------------------
(* What a printed tree loses *)

Binary(n) == Len(n.kids) = 2 /\ n.op \in Operators
Enclosed(n, parent) == Binary(n) /\ LEVEL[n.op] < parent

RECURSIVE BeginsNot(_, _), EndsOpen(_, _), Fragile(_, _, _)

\* The text of n begins with a `not`; it ends with what a list contains, which
\* goes on as far as it can.
BeginsNot(n, parent) ==
    /\ ~Enclosed(n, parent)
    /\ n.op = "not" \/ (Binary(n) /\ BeginsNot(n.kids[1], LEVEL[n.op]))
EndsOpen(n, parent) ==
    /\ ~Enclosed(n, parent)
    /\ \/ n.op = "contains"
       \/ n.op \in {"not", "-"} /\ Len(n.kids) = 1 /\ EndsOpen(n.kids[1], UNARY_LEVEL)
       \/ (Binary(n) /\ EndsOpen(n.kids[2], LEVEL[n.op] + 1))

\* The tree is not read back from its text: `not` and `contains` reach over
\* what follows, because neither is put in parentheses, and the coordinates of
\* a pixel are atoms and are printed without parentheses. The text is read at a
\* level, and a `not` it begins with at NOT_LEVEL or before.
Fragile(n, parent, level) ==
    LET entry == IF Enclosed(n, parent) THEN 1 ELSE level
    IN  CASE n.kids = <<>> -> FALSE
          [] Binary(n) ->
                \/ /\ entry <= NOT_LEVEL /\ NOT_LEVEL <= LEVEL[n.op]
                   /\ BeginsNot(n.kids[1], LEVEL[n.op])
                \/ EndsOpen(n.kids[1], LEVEL[n.op])
                \/ Fragile(n.kids[1], LEVEL[n.op], entry)
                \/ Fragile(n.kids[2], LEVEL[n.op] + 1, LEVEL[n.op] + 1)
          [] n.op = "pixel" ->
                \/ \E i \in 1..2 : Binary(n.kids[i]) \/ Fragile(n.kids[i], 0, UNARY_LEVEL)
                \/ EndsOpen(n.kids[1], 0) /\ n.kids[2].op = "-"
          [] n.op \in {"contains", "randint", "index"} ->
                \E i \in DOMAIN n.kids : Fragile(n.kids[i], 0, 1)
          [] OTHER -> Fragile(n.kids[1], UNARY_LEVEL, UNARY_LEVEL)

Alone(ts, token) == \E i \in 3..(Len(ts) - 1) : SubSeq(ts, i - 1, i + 1) = <<" ", token, " ">>

\* Nor is a statement, if an expression is not, if one with a space is in a slot
\* for a word, if a call's arguments look enclosed, or if the word after a slot
\* is a variable of the expression in it.
FragileStatement(s) ==
    LET texts == [i \in DOMAIN s.args |-> ExprPseudo(s.args[i])]
        listed == Listed(texts)
        slots == SelectSeq(IF s.verb = CALL THEN <<>> ELSE Verbs[s.verb],
                           LAMBDA part : part \in Slots)
    IN  \/ \E i \in DOMAIN s.args : Fragile(s.args[i], 0, 1)
        \/ \E i \in DOMAIN slots : slots[i] = WORD /\ Count(texts[i], Len(texts[i]), " ") > 0
        \/ s.verb = CALL /\ listed[1] = "(" /\ listed[Len(listed)] = ")"
        \/ s.verb = Row(<<"arcade", "place", "hero", "x", SOME, "y", SOME>>)
           /\ Alone(texts[1] \o <<" ">>, "y")

Survives == CASE kind = "expression" -> ~Fragile(first, 0, 1)
              [] kind = "statement" -> ~FragileStatement(first)
              [] kind = "script" -> TRUE

\* "the pseudocode back end's output has to parse back to the identical tree"
\* (stc_pseudocode.py:187): of every text that is understood, what is printed is
\* read as the tree it was printed from.
ParsesBackAlways == stage = "reread" => tree = first

\* The same, and exactly which trees do not come back.
ParsesBack == stage = "reread" => (tree = first <=> Survives)

-----------------------------------------------------------------------------
(* What a text means *)

RECURSIVE Meaning(_, _)

Last(ts, Separates(_)) == Max({0} \cup {i \in DOMAIN ts : Separates(i)})

\* A text without parentheses: it is split at the last of its loosest binary
\* operators. A word is an operand unless there is one before it, and an operator
\* is binary after an operand. A `not` it begins with is of all that is left once
\* `or` and `and` have split it, but of the next operand only where the text is
\* (tight) on the right of a comparison or of arithmetic.
Meaning(ts, tight) ==
    LET operand[i \in 0..Len(ts)] ==
            i > 0 /\ ts[i] \in Identifiers \cup Numbers /\ ~operand[i - 1]
        binary(i) == Means(ts[i]) \in Operators /\ operand[i - 1]
        at(level) == Last(ts, LAMBDA i : binary(i) /\ Means(ts[i]) \in PRECEDENCE[level])
        levels == {level \in DOMAIN PRECEDENCE : at(level) # 0}
        whole == /\ ts # <<>> /\ ts[1] = "not" /\ ~tight
                 /\ \A level \in levels : level >= NOT_LEVEL
        prefixed == IF Len(ts) > 1 /\ ts[1] \in {"not", "-"} THEN <<Meaning(Tail(ts), tight)>> ELSE <<>>
        kids == IF levels = {} \/ whole THEN prefixed
                ELSE LET level == Min(levels)
                     IN  <<Meaning(SubSeq(ts, 1, at(level) - 1), tight),
                           Meaning(After(ts, at(level)), level >= NOT_LEVEL)>>
        op == IF levels = {} \/ whole THEN ts[1] ELSE Means(ts[at(Min(levels))])
        phrases == {s \in Sugar : s.says = ts}
    IN  IF phrases # {} THEN (CHOOSE s \in phrases : TRUE).means
        ELSE IF
           \/ Leaf("error") \in {kids[i] : i \in DOMAIN kids}
           \/ kids = <<>> /\ (Len(ts) # 1 \/ ts[1] \notin Identifiers \cup Numbers)
        THEN Leaf("error") ELSE Node(op, kids)

\* The line a line is in: the last one before it that is further left.
Enclosing(lines, i) == Last(lines, LAMBDA j : j < i /\ lines[j].indent < lines[i].indent)
Before(lines, i) == Last(lines, LAMBDA j : j < i /\ Enclosing(lines, j) = Enclosing(lines, i))

RECURSIVE Depth(_, _)
Depth(lines, i) == IF Enclosing(lines, i) = 0 THEN 1 ELSE 1 + Depth(lines, Enclosing(lines, i))

WellFormed(lines) ==
    \A i \in DOMAIN lines :
        /\ Enclosing(lines, i) # 0 => lines[Enclosing(lines, i)].head # "statement"
        /\ Before(lines, i) # 0 => lines[Before(lines, i)].indent = lines[i].indent
        /\ lines[i].head = "else:" =>
             Before(lines, i) # 0 /\ lines[Before(lines, i)].head = "if:"

\* The lines as they should be printed: two spaces for every line they are in,
\* and no ELSE that has nothing in it.
Indented(lines) ==
    LET kept == {i \in DOMAIN lines :
                    lines[i].head = "else:" =>
                        \E j \in DOMAIN lines : Enclosing(lines, j) = i}
        nth(k) == CHOOSE i \in kept : Cardinality({j \in kept : j <= i}) = k
    IN  [k \in 1..Cardinality(kept) |-> Line(2 * Depth(lines, nth(k)), lines[nth(k)].head)]

\* What is understood is what is meant: precedence and `not` in a text without
\* parentheses, and in a script the lines under a line and the IF of an ELSE;
\* what has no meaning is refused.
ReadsAsMeant ==
    stage \in {"read", "refused"} =>
        /\ kind = "expression" /\ text \in Flat => tree = Meaning(text, FALSE)
        /\ kind = "script" => IF WellFormed(text) THEN ScriptPrinted(tree, 1) = Indented(text)
                              ELSE stage = "refused"

=============================================================================
