---------------------------- MODULE Declarations ----------------------------
(***************************************************************************)
(* The PIN, PORT and PART lines of a program, as `parse` of                *)
(* stc_pseudocode.py reads them: a line is resolved by the board, checked   *)
(* against the lines before it and kept, or the program is refused.         *)
(* `emit_pseudocode` writes a program back with its lines in another order, *)
(* and what it writes is read again (/decompile promises a fixed point).    *)
(* Names, locations and directions are data; the order of the lines and     *)
(* what each kind of line checks, and what it does not, is what can go      *)
(* wrong: two lines that drive one pin.                                     *)
(***************************************************************************)
EXTENDS Naturals, Sequences, FiniteSets

CONSTANTS
    Pins,        \* the pins of the boards
    Ports,       \* the whole ports
    PortOf,      \* the port a pin is a bit of
    Misspelt,    \* a port as no board spells it
    Names,       \* names of pins, ports and parts
    Boards,      \* the boards: see BoardType
    Lines,       \* the lines a program may begin with
    MaxLines     \* the most lines a program has

Uses == {"output", "input", "analog", "pwm", "tone"}
Shifted == {"74HC595", "KEYPAD4X4", "MATRIX8X8"}
Banks == {"SEVENSEG8", "LEDBANK8"}
Parts == Shifted \cup Banks
Kinds == {"PIN", "PORT"} \cup Parts

\* A line: a PIN has one location, a PART its control pins, a PORT, a matrix
\* and the banks a whole port; only a PIN's and a PORT's direction vary.
Line == [kind : Kinds, name : Names, pins : Seq(Pins),
         port : Ports \cup {Misspelt}, use : Uses]

\* A board: its family, whether serial output leaves Timer 1 alone, the pins
\* that can do analog input, PWM and tone, those whose PWM is the timer the
\* tone needs, and the analog inputs with no digital buffer.
BoardType == [family : {"8051", "avr", "core"}, baudFromBrt : BOOLEAN,
              able : [{"analog", "pwm", "tone"} -> SUBSET Pins],
              shared : SUBSET Pins, inputOnly : SUBSET Pins]

ASSUME DeclarationAssumption ==
    /\ PortOf \in [Pins -> Ports]
    /\ Misspelt \notin Ports
    /\ Lines \subseteq Line
    /\ \A d \in Lines : d.kind = "PIN" => Len(d.pins) = 1
    /\ Boards \subseteq BoardType
    /\ MaxLines \in Nat

VARIABLES
    board,       \* the DEVICE line
    program,     \* the lines kept so far, in order
    printed,     \* the lines of the printed program still to be read
    again,       \* whether the program being read was printed
    outcome,     \* "reading", "parsed", "refused" or "escaped"
    prints       \* whether a script prints: "nowhere", "seen" by uses_uart or "unseen"

declVars == <<board, program, printed, again, outcome, prints>>

Held == {program[i] : i \in DOMAIN program}
OfKind(lines, kinds) == {d \in lines : d.kind \in kinds}
Bits(port) == {p \in Pins : PortOf[p] = port}
Located(d) == IF d.kind = "PIN" THEN {d.pins[1]} ELSE {d.pins[i] : i \in DOMAIN d.pins}

\* What a part claims: its control pins, and a matrix its columns. The port of
\* a SEVENSEG8's segments and that of a LEDBANK8 are not claimed.
Claims(d) == IF d.kind = "MATRIX8X8" THEN Located(d) \cup Bits(d.port)
             ELSE IF d.kind = "LEDBANK8" THEN {} ELSE Located(d)

PinsHeld(lines) == UNION {Located(d) : d \in OfKind(lines, {"PIN"})}
Claimed(lines) == UNION {Claims(d) : d \in OfKind(lines, Parts)}
PortsHeld(lines) == {d.port : d \in OfKind(lines, {"PORT"})}
Using(lines, use) ==
    UNION {Located(d) : d \in {e \in OfKind(lines, {"PIN"}) : e.use = use}}

-----------------------------------------------------------------------------
(* What a line is refused for *)

Supports(d) ==
    CASE d.kind = "PORT" -> board.family # "core"
      [] d.kind \in {"KEYPAD4X4", "MATRIX8X8"} -> board.family = "8051"
      [] OTHER -> TRUE

\* A PIN's name is looked for among the pins, a PORT's among pins and ports, a
\* PART's everywhere.
NameTaken(lines, d) ==
    \E e \in lines :
        /\ e.name = d.name
        /\ e.kind \in CASE d.kind = "PIN" -> {"PIN"}
                        [] d.kind = "PORT" -> {"PIN", "PORT"}
                        [] OTHER -> Kinds

Unable(d) == d.use \in DOMAIN board.able /\ d.pins[1] \notin board.able[d.use]

\* The tone needs a timer of its own.
TimerTaken(lines, d) ==
    \/ d.use = "tone" /\ \/ Using(lines, "tone") # {}
                         \/ Using(lines, "pwm") \cap board.shared # {}
    \/ d.use = "pwm" /\ d.pins[1] \in board.shared /\ Using(lines, "tone") # {}

\* On an 8051 a PIN is looked for among everything declared before it.
ClaimsForgotten(lines, p) ==
    p \in PinsHeld(lines) \/ PortOf[p] \in PortsHeld(lines)
Occupied(lines, p) ==
    p \in PinsHeld(lines) \cup Claimed(lines) \/ PortOf[p] \in PortsHeld(lines)

\* Only the 8051 targets look for clashes of location, and the Arduino core's
\* analog pins are accepted before any other question is asked.
PinRefused(lines, d) ==
    IF board.family = "core" /\ d.pins[1] \in board.able["analog"]
    THEN d.pins[1] \in board.inputOnly /\ d.use # "analog"
    ELSE \/ Unable(d)
         \/ TimerTaken(lines, d)
         \/ board.family = "8051" /\ Occupied(lines, d.pins[1])

\* `PORT`: its bits may be neither pins nor claimed.
PortRefused(lines, d) ==
    \/ d.port \notin Ports \/ d.port \in PortsHeld(lines)
    \/ Bits(d.port) \cap (PinsHeld(lines) \cup Claimed(lines)) # {}

Twice(d) == \E i, j \in DOMAIN d.pins : i # j /\ d.pins[i] = d.pins[j]

\* A 74HC595, a keypad, a matrix: every pin claimed is looked for everywhere.
ShiftedRefused(lines, d) ==
    \/ Twice(d)
    \/ d.kind = "MATRIX8X8" /\ Located(d) \cap Bits(d.port) # {}
    \/ Claims(d) \cap (PinsHeld(lines) \cup Claimed(lines)) # {}
    \/ \E p \in Claims(d) : PortOf[p] \in PortsHeld(lines)

\* A SEVENSEG8 looks for its select pins among pins and claims and for its
\* segment port among the ports; a LEDBANK8 looks for nothing.
BankRefused(lines, d) ==
    \/ d.port \notin Ports
    \/ /\ d.kind = "SEVENSEG8"
       /\ \/ Twice(d)
          \/ Claims(d) \cap (PinsHeld(lines) \cup Claimed(lines)) # {}
          \/ d.port \in PortsHeld(lines)

\* A line of no known kind is not understood.
Refused(lines, d) ==
    \/ d.kind \notin Kinds \/ ~Supports(d) \/ NameTaken(lines, d)
    \/ d.kind = "PIN" /\ PinRefused(lines, d)
    \/ d.kind = "PORT" /\ PortRefused(lines, d)
    \/ d.kind \in Shifted /\ ShiftedRefused(lines, d)
    \/ d.kind \in Banks /\ board.family # "core" /\ BankRefused(lines, d)

\* The Arduino core supports "part" and resolves no port.
Unresolved(d) == d.kind \in Banks /\ board.family = "core"

-----------------------------------------------------------------------------
(* Printing: parts, then ports, then pins, each in the order they came in *)

\* A SEVENSEG8's port is printed as `P` and the port, which only an 8051 reads.
Spelt(d) == IF d.kind = "SEVENSEG8" /\ board.family = "avr"
            THEN [d EXCEPT !.port = Misspelt] ELSE d

\* The lines of some kinds, as the loop over the program collects them.
Section(kinds) ==
    LET upTo[n \in 0..Len(program)] ==
            IF n = 0 THEN <<>>
            ELSE IF program[n].kind \in kinds THEN Append(upTo[n - 1], program[n])
            ELSE upTo[n - 1]
    IN  upTo[Len(program)]

PortsBehindPins == Section(Parts) \o Section({"PIN"}) \o Section({"PORT"})
Ordered == Section(Parts) \o Section({"PORT"}) \o Section({"PIN"})
Canonical == [i \in DOMAIN Ordered |-> Spelt(Ordered[i])]

-----------------------------------------------------------------------------

DeclInit ==
    /\ board \in Boards
    /\ prints \in {"nowhere", "seen", "unseen"}
    /\ program = <<>> /\ printed = <<>> /\ again = FALSE
    /\ outcome = "reading"

\* The next line of what is read: anything the first time, and what was
\* printed the second.
NextLine ==
    IF again THEN {printed[i] : i \in DOMAIN printed \cap {1}}
    ELSE IF Len(program) < MaxLines THEN Lines ELSE {}

Keep(d) ==
    /\ outcome = "reading" /\ d \in NextLine
    /\ ~Refused(Held, d) /\ ~Unresolved(d)
    /\ program' = Append(program, d)
    /\ printed' = IF again THEN Tail(printed) ELSE printed
    /\ UNCHANGED <<board, again, outcome, prints>>

Refuse(d) ==
    /\ outcome = "reading" /\ d \in NextLine
    /\ Refused(Held, d)
    /\ outcome' = "refused"
    /\ UNCHANGED <<board, program, printed, again, prints>>

\* No error of the language: the request fails.
Escape(d) ==
    /\ outcome = "reading" /\ d \in NextLine
    /\ ~Refused(Held, d) /\ Unresolved(d)
    /\ outcome' = "escaped"
    /\ UNCHANGED <<board, program, printed, again, prints>>

\* uses_uart looks for a print in the bodies of blocks and not in an ELSE.
UsesUart == prints = "seen"

\* The scripts follow the declarations. Where the baud rate is Timer 1's, a
\* program that prints has no tone.
Begin ==
    /\ outcome = "reading" /\ printed = <<>>
    /\ outcome' = IF /\ UsesUart /\ ~board.baudFromBrt
                     /\ Using(Held, "tone") # {}
                  THEN "refused" ELSE "parsed"
    /\ UNCHANGED <<board, program, printed, again, prints>>

Decompile ==
    /\ outcome = "parsed" /\ ~again
    /\ again' = TRUE /\ outcome' = "reading"
    /\ printed' = Canonical /\ program' = <<>>
    /\ UNCHANGED <<board, prints>>

DeclNext ==
    \/ \E d \in NextLine : Keep(d) \/ Refuse(d) \/ Escape(d)
    \/ Begin
    \/ Decompile

DeclSpec == DeclInit /\ [][DeclNext]_declVars

-----------------------------------------------------------------------------
(* Properties *)

\* The pins a line drives or reads, and for a PORT all eight.
Owns(d) == IF d.kind = "PORT" THEN Bits(d.port) ELSE Claims(d)

NeedsTimer(d) ==
    /\ d.kind = "PIN"
    /\ d.use = "tone" \/ (d.use = "pwm" /\ d.pins[1] \in board.shared)

\* What the second of two lines is not asked: a PIN's location, except on an
\* 8051; the timer, for an analog pin of the Arduino core; and whether the
\* select pins of a SEVENSEG8 are in a PORT.
PinUnasked(d, e) ==
    \/ e.kind = "PIN" /\ board.family # "8051"
    \/ d.kind = "PORT" /\ e.kind = "SEVENSEG8"
TimerUnasked(e) == board.family = "core" /\ e.pins[1] \in board.able["analog"]

\* "Two names for one physical pin is always a mistake, and nothing downstream
\* would notice" (1158): no two lines of a program that is kept own one pin, and
\* none takes the timer the tone is made with, in whatever order they come and
\* also when the program was printed and read again, but for what no check asks.
\* Nor does the console take it, but for a print in an ELSE.
OneOwner ==
    /\ outcome = "parsed" /\ ~board.baudFromBrt /\ Using(Held, "tone") # {} =>
           prints # "seen"
    /\ \A i, j \in DOMAIN program :
        LET d == program[i]
            e == program[j]
        IN  i < j =>
            /\ Owns(d) \cap Owns(e) # {} => PinUnasked(d, e)
            /\ /\ NeedsTimer(d) /\ NeedsTimer(e)
               /\ d.use = "tone" \/ e.use = "tone"
               => TimerUnasked(e)

\* A program that was accepted is accepted when it comes back printed, in
\* another order (README: "feeding the result back in returns it unchanged").
\* Two kinds of line do not come back: a SEVENSEG8 of an AVR board, whose port
\* is misspelt, and a PORT over the select pins of a SEVENSEG8, now after it.
ReprintAccepted ==
    again /\ outcome = "refused" =>
        \/ printed[1].port = Misspelt
        \/ /\ printed[1].kind = "PORT"
           /\ \E d \in OfKind(Held, {"SEVENSEG8"}) :
                 Owns(d) \cap Bits(printed[1].port) # {}

=============================================================================
