---------------------------- MODULE MCPseudocode ----------------------------
(* A pseudocode program on its way through /decompile and back: its          *)
(* declarations on four boards, or one expression, statement or script.      *)
EXTENDS Declarations, TLC

VARIABLES
    side,                            \* "declarations" or "text"
    kind, text, tree, first, stage

-----------------------------------------------------------------------------
(* Declarations: port X with pins t (its PWM is the tone's timer), s and w,  *)
(* and port Y with a and b                                                   *)

MCPins == {"t", "s", "w", "a", "b"}
MCPorts == {"X", "Y"}
MCPortOf == [p \in MCPins |-> IF p \in {"a", "b"} THEN "Y" ELSE "X"]

Pin(p, use) == [kind |-> "PIN", name |-> p \o use, pins |-> <<p>>, port |-> "X", use |-> use]
Part(k, name, pins, port) ==
    [kind |-> k, name |-> name, pins |-> pins, port |-> port, use |-> "output"]

MCLines ==
    {Pin("t", u) : u \in {"output", "pwm", "tone"}} \cup {Pin("s", u) : u \in {"input", "pwm", "tone"}}
    \cup {Pin("w", u) : u \in {"pwm", "tone"}} \cup {Pin("a", u) : u \in {"output", "pwm", "tone", "analog"}}
    \cup {Pin("b", u) : u \in {"tone", "analog"}}
    \cup {Part("PIN", "dup", <<"t">>, "X"), Part("PORT", "toutput", <<>>, "X"), Part("PORT", "y", <<>>, "Y"),
          Part("74HC595", "shift", <<"t", "a">>, "X"), Part("74HC595", "y", <<"t", "t">>, "X"),
          Part("KEYPAD4X4", "keys", <<"a", "b">>, "X"), Part("MATRIX8X8", "scr", <<"a", "b">>, "X"),
          Part("MATRIX8X8", "scr", <<"t", "a">>, "X"), Part("SEVENSEG8", "seg", <<"t", "s">>, "Y"),
          Part("SEVENSEG8", "sseg", <<"a", "b">>, "X"), Part("LEDBANK8", "led", <<>>, "X")}
MCNames == {d.name : d \in MCLines}

Board(family, brt, adc, pwm, tone, shared, inputOnly) ==
    [family |-> family, baudFromBrt |-> brt, shared |-> shared, inputOnly |-> inputOnly,
     able |-> ("analog" :> adc) @@ ("pwm" :> pwm) @@ ("tone" :> tone)]
MCBoards ==
    {Board("8051", TRUE, {"t", "s", "w"}, {"t", "s"}, MCPins, {}, {}),
     Board("8051", FALSE, {}, {}, MCPins, {}, {}),
     Board("avr", TRUE, {"a", "b"}, {"t", "s", "w"}, {"t"}, {"t", "s"}, {}),
     Board("core", TRUE, {"a", "b"}, {"t", "s", "w"}, {"t", "s", "w"}, {"w"}, {"b"})}

-----------------------------------------------------------------------------
(* Texts *)

N(op, kids) == [op |-> op, kids |-> kids]
MCLeaf(token) == N(token, <<>>)

\* Every operator over `operands`, and over `others` on its other side.
Over(unary, binary, operands, others) ==
    {N(op, <<n>>) : op \in unary, n \in operands}
    \cup {N(op, <<n, k>>) : op \in binary, n \in operands, k \in others}
    \cup {N(op, <<k, n>>) : op \in binary, n \in operands, k \in others}

Loose == {"not", "-", "contains", "item", "index"}
Tight == {"or", "and", "=", "+", "*", "pixel", "randint"}
Leaves == {MCLeaf("x"), MCLeaf("length")}
Single == {MCLeaf("x")}
Small == Single \cup Over({"not", "-", "contains"}, {"and", "=", "-", "pixel"}, Single, Single)
Beside == {MCLeaf("x"), N("not", <<MCLeaf("x")>>), N("contains", <<MCLeaf("x")>>)}
Deep == Over({"not", "-", "contains"}, {"and", "=", "-", "pixel"}, Small, Small)
Wide == Leaves \cup Over(Loose, Tight, Leaves, Leaves)
MCTrees == Leaves \cup Wide \cup Over(Loose, Tight, Wide, Wide)
           \cup Over({"not", "-", "contains"}, {"and", "=", "-", "pixel"}, Deep, Beside)

\* The texts of the slots of a statement: only of two slots both vary.
Filling == {MCLeaf("x"), MCLeaf("y"), MCLeaf("0"), MCLeaf("length"), MCLeaf("controller"),
            N("-", <<MCLeaf("x")>>), N("not", <<MCLeaf("y")>>), N("item", <<MCLeaf("1")>>),
            N("contains", <<MCLeaf("x")>>), N("index", <<MCLeaf("y")>>),
            N("+", <<MCLeaf("x"), MCLeaf("y")>>), N("-", <<MCLeaf("y"), MCLeaf("x")>>),
            N("*", <<N("+", <<MCLeaf("x"), MCLeaf("y")>>), N("+", <<MCLeaf("1"), MCLeaf("x")>>)>>),
            N("=", <<N("not", <<MCLeaf("x")>>), MCLeaf("1")>>),
            N("randint", <<MCLeaf("x"), MCLeaf("5")>>), N("pixel", <<MCLeaf("1"), MCLeaf("y")>>)}
MCFillings ==
    {<<>>} \cup {<<f>> : f \in Filling} \cup Filling \X Filling
    \cup UNION {{[[i \in 1..n |-> MCLeaf("5")] EXCEPT ![j] = f] : j \in 1..n, f \in Filling} : n \in 3..7}

Tokens == {"x", "not", "-", "and", "=", "+"}
Phrases == {<<"a", "key", "is", "pressed">>, <<"key", "5", "is", "released">>, <<"read", "led">>, <<"on">>}
MCFlat == UNION {[1..n -> Tokens] : n \in 1..5}
          \cup Phrases \cup {<<"not">> \o p : p \in Phrases}
          \cup {<<"x", o, "x", p, "x", q, "x">> : o, p, q \in {"or", "and", "=", "<>", "-", "+", "*", "mod"}}

MCLine == [indent : {2, 4, 6}, head : {"statement", "forever:", "if:", "else:"}]
MCScripts == {s \in UNION {[1..n -> MCLine] : n \in 1..4} : s[1].indent # 6}

T == INSTANCE ProgramText WITH Trees <- MCTrees, Fillings <- MCFillings,
                               Flat <- MCFlat, Scripts <- MCScripts

textVars == <<kind, text, tree, first, stage>>
notDeclarations == <<side, textVars>>
notText == <<side, declVars>>
mcVars == <<declVars, side, textVars>>

MCInit ==
    \/ /\ side = "declarations" /\ DeclInit
       /\ kind = "none" /\ text = <<>> /\ tree = <<>> /\ first = <<>> /\ stage = "none"
    \/ /\ side = "text" /\ T!TextInit
       /\ board = (CHOOSE b \in MCBoards : TRUE) /\ prints = "nowhere" /\ again = FALSE
       /\ program = <<>> /\ printed = <<>> /\ outcome = "reading"

MCNext ==
    \/ side = "declarations" /\ DeclNext /\ UNCHANGED notDeclarations
    \/ side = "text" /\ T!TextNext /\ UNCHANGED notText

MCSpec == MCInit /\ [][MCNext]_mcVars

\* ProgramText's properties
ParsesBack == T!ParsesBack
ParsesBackAlways == T!ParsesBackAlways
ReadsAsMeant == T!ReadsAsMeant
=============================================================================
