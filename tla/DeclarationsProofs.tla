------------------------- MODULE DeclarationsProofs -------------------------
(***************************************************************************)
(* No two lines of a program own one pin or take the tone's timer, whatever *)
(* the boards, the lines and their number: OneOwner is inductive, because a *)
(* line is compared with all those kept before it.  And a program that was  *)
(* accepted is accepted when it is printed in another order and read again: *)
(* a line is refused for one other line, and of two lines that change       *)
(* places either asks what the other asked.                                 *)
(***************************************************************************)
EXTENDS Declarations, Integers, SequenceTheorems, WellFoundedInduction, TLAPS

\* What `OneOwner` says of a line and a later one.
Apart(d, e) ==
    /\ Owns(d) \cap Owns(e) # {} => PinUnasked(d, e)
    /\ /\ NeedsTimer(d) /\ NeedsTimer(e)
       /\ d.use = "tone" \/ e.use = "tone"
       => TimerUnasked(e)

\* The lines kept are a sequence, and each is apart from those after it.
Kept ==
    /\ program \in Seq(Held)
    /\ \A i, j \in DOMAIN program : i < j => Apart(program[i], program[j])

-----------------------------------------------------------------------------

\* The pins of a line that is held are among those that are looked up.
LEMMA HeldIsLookedUp ==
    ASSUME NEW lines, NEW d \in lines, d.kind \in Kinds
    PROVE  /\ d.kind = "PIN" => Owns(d) \subseteq PinsHeld(lines)
           /\ d.kind = "PORT" => d.port \in PortsHeld(lines)
           /\ d.kind \in Parts => Owns(d) \subseteq Claimed(lines)
<1>1. ASSUME d.kind = "PIN"
      PROVE  Owns(d) \subseteq PinsHeld(lines)
  <2>1. d \in OfKind(lines, {"PIN"})
    BY <1>1 DEF OfKind
  <2>2. Owns(d) = Located(d)
    BY <1>1 DEF Owns, Claims
  <2> QED
    BY <2>1, <2>2 DEF PinsHeld
<1>2. d.kind = "PORT" => d.port \in PortsHeld(lines)
  BY DEF PortsHeld, OfKind
<1>3. ASSUME d.kind \in Parts
      PROVE  Owns(d) \subseteq Claimed(lines)
  <2>1. d \in OfKind(lines, Parts)
    BY <1>3 DEF OfKind
  <2>2. Owns(d) = Claims(d)
    BY <1>3 DEF Owns, Parts, Shifted, Banks
  <2> QED
    BY <2>1, <2>2 DEF Claimed
<1> QED
  BY <1>1, <1>2, <1>3

\* A pin two lines own is looked up, by itself or by its port.
LEMMA SharedIsLookedUp ==
    ASSUME NEW lines, NEW d \in lines, d.kind \in Kinds, NEW p \in Owns(d)
    PROVE  \/ p \in PinsHeld(lines) \cup Claimed(lines)
           \/ d.kind = "PORT" /\ p \in Bits(d.port) /\ PortOf[p] \in PortsHeld(lines)
<1>1. CASE d.kind = "PORT"
  BY <1>1, HeldIsLookedUp DEF Owns, Bits
<1>2. CASE d.kind \in {"PIN"} \cup Parts
  BY <1>2, HeldIsLookedUp
<1> QED
  BY <1>1, <1>2 DEF Kinds

\* A line that is not refused owns no pin of the lines held, but where no check
\* asks.
LEMMA PinsApart ==
    ASSUME NEW lines, NEW d \in lines, d.kind \in Kinds,
           NEW e, ~Refused(lines, e), ~Unresolved(e)
    PROVE  Owns(d) \cap Owns(e) # {} => PinUnasked(d, e)
<1> SUFFICES ASSUME NEW p \in Owns(d), p \in Owns(e)
             PROVE  PinUnasked(d, e)
  OBVIOUS
<1>1. \/ p \in PinsHeld(lines) \cup Claimed(lines)
      \/ d.kind = "PORT" /\ p \in Bits(d.port) /\ PortOf[p] \in PortsHeld(lines)
  BY SharedIsLookedUp
<1>2. e.kind \in Kinds
  BY DEF Refused
<1>3. CASE e.kind = "PIN"
  <2>1. p = e.pins[1]
    BY <1>3 DEF Owns, Claims, Located
  <2>2. ~PinRefused(lines, e)
    BY <1>3 DEF Refused
  <2>3. Occupied(lines, p)
    BY <1>1 DEF Occupied
  <2>4. board.family # "8051"
    BY <2>1, <2>2, <2>3 DEF PinRefused
  <2> QED
    BY <1>3, <2>4 DEF PinUnasked
<1>4. CASE e.kind = "PORT"
  <2>1. ~PortRefused(lines, e)
    BY <1>4 DEF Refused
  <2>2. p \in Bits(e.port)
    BY <1>4 DEF Owns
  <2>3. PortOf[p] = e.port
    BY <2>2 DEF Bits
  <2> QED
    BY <1>1, <2>1, <2>2, <2>3 DEF PortRefused
<1>5. CASE e.kind \in Shifted
  <2>1. ~ShiftedRefused(lines, e)
    BY <1>5 DEF Refused
  <2>2. p \in Claims(e)
    BY <1>5 DEF Owns, Shifted
  <2> QED
    BY <1>1, <2>1, <2>2 DEF ShiftedRefused
<1>6. CASE e.kind = "SEVENSEG8"
  <2>1. ~BankRefused(lines, e)
    BY <1>6 DEF Refused, Unresolved, Banks
  <2>2. p \in Claims(e)
    BY <1>6 DEF Owns
  <2>3. d.kind = "PORT"
    BY <1>1, <1>6, <2>1, <2>2 DEF BankRefused
  <2> QED
    BY <1>6, <2>3 DEF PinUnasked
<1>7. CASE e.kind = "LEDBANK8"
  BY <1>7 DEF Owns, Claims
<1> QED
  BY <1>2, <1>3, <1>4, <1>5, <1>6, <1>7 DEF Kinds, Parts, Banks

\* Nor does it take the tone's timer twice.
LEMMA TimersApart ==
    ASSUME NEW lines, NEW d \in lines, NEW e, ~Refused(lines, e),
           NeedsTimer(d), NeedsTimer(e), d.use = "tone" \/ e.use = "tone"
    PROVE  TimerUnasked(e)
<1>1. ~PinRefused(lines, e)
  BY DEF NeedsTimer, Refused
<1>2. d.pins[1] \in Using(lines, d.use)
  <2>1. d \in {c \in OfKind(lines, {"PIN"}) : c.use = d.use}
    BY DEF NeedsTimer, OfKind
  <2>2. d.pins[1] \in Located(d)
    BY DEF NeedsTimer, Located
  <2> QED
    BY <2>1, <2>2 DEF Using
<1>3. TimerTaken(lines, e)
  BY <1>2 DEF TimerTaken, NeedsTimer
<1> QED
  BY <1>1, <1>3 DEF PinRefused, TimerUnasked

-----------------------------------------------------------------------------

\* Lines stay apart while the board is the same.
LEMMA ApartStays ==
    ASSUME board' = board, NEW d, NEW e, Apart(d, e)
    PROVE  Apart(d, e)'
BY DEF Apart, PinUnasked, TimerUnasked, NeedsTimer, Owns, Claims, Bits, Located

\* The tone and the console of a program that is kept do not share Timer 1.
ConsoleApart ==
    outcome = "parsed" /\ ~board.baudFromBrt /\ Using(Held, "tone") # {} =>
        prints # "seen"

\* A line read keeps the console apart.
LEMMA ConsoleApartByStep ==
    ASSUME ConsoleApart, [DeclNext]_declVars
    PROVE  ConsoleApart'
<1>1. CASE Begin
  <2>1. Using(Held, "tone")' = Using(Held, "tone")
    BY <1>1 DEF Begin, Using, Held, OfKind, Located
  <2> QED
    BY <1>1, <2>1 DEF Begin, ConsoleApart, UsesUart
<1>2. CASE Decompile \/ \E d \in NextLine : Keep(d) \/ Refuse(d) \/ Escape(d)
  BY <1>2 DEF Decompile, Keep, Refuse, Escape, ConsoleApart
<1>3. CASE UNCHANGED declVars
  <2>1. Using(Held, "tone")' = Using(Held, "tone")
    BY <1>3 DEF declVars, Using, Held, OfKind, Located
  <2> QED
    BY <1>3, <2>1 DEF declVars, ConsoleApart
<1> QED
  BY <1>1, <1>2, <1>3 DEF DeclNext

\* A line read keeps what was declared.
LEMMA KeptByStep ==
    ASSUME Kept, \A d \in Held : d.kind \in Kinds, [DeclNext]_declVars
    PROVE  Kept' /\ \A d \in Held' : d.kind \in Kinds
<1>1. ASSUME NEW d \in NextLine, Keep(d)
      PROVE  Kept' /\ \A c \in Held' : c.kind \in Kinds
  <2> DEFINE n == Len(program)
  <2>1. /\ program \in Seq(Held \cup {d}) /\ n \in Nat /\ DOMAIN program = 1..n
        /\ program' = Append(program, d)
        /\ board' = board
    BY <1>1 DEF Kept, Keep, Held
  <2>2. /\ DOMAIN program' = 1..(n + 1)
        /\ program'[n + 1] = d
        /\ \A i \in 1..n : program'[i] = program[i]
        /\ program' \in Seq(Held \cup {d})
    BY <2>1
  <2>3. Held' = Held \cup {d}
    BY <2>1, <2>2 DEF Held
  <2>4. d.kind \in Kinds /\ ~Refused(Held, d) /\ ~Unresolved(d)
    BY <1>1 DEF Keep, Refused
  <2>5. ASSUME NEW c \in Held
        PROVE  Apart(c, d)
    <3>1. c.kind \in Kinds
      OBVIOUS
    <3> QED
      BY <2>4, <3>1, PinsApart, TimersApart DEF Apart
  <2>6. ASSUME NEW i \in 1..(n + 1), NEW j \in 1..(n + 1), i < j
        PROVE  Apart(program'[i], program'[j])
    <3>1. CASE j = n + 1
      <4>1. program[i] \in Held
        BY <2>1, <2>6, <3>1 DEF Held
      <4> QED
        BY <2>1, <2>2, <2>5, <2>6, <3>1, <4>1
    <3>2. CASE j # n + 1
      BY <2>1, <2>2, <2>6, <3>2 DEF Kept
    <3> QED
      BY <3>1, <3>2
  <2>7. ASSUME NEW i \in DOMAIN program', NEW j \in DOMAIN program', i < j
        PROVE  Apart(program[i], program[j])'
    <3>1. Apart(program'[i], program'[j])
      BY <2>2, <2>6, <2>7
    <3> QED
      BY <2>1, <3>1, ApartStays
  <2> QED
    BY <2>2, <2>3, <2>4, <2>7 DEF Kept
<1>2. ASSUME program' = <<>>
      PROVE  Kept' /\ \A c \in Held' : c.kind \in Kinds
  BY <1>2 DEF Kept, Held
<1>3. ASSUME UNCHANGED <<program, board>>
      PROVE  Kept' /\ \A c \in Held' : c.kind \in Kinds
  BY <1>3, ApartStays DEF Kept, Held
<1>4. \/ \E d \in NextLine : Keep(d)
      \/ program' = <<>>
      \/ UNCHANGED <<program, board>>
  BY DEF DeclNext, Refuse, Escape, Begin, Decompile, declVars
<1> QED
  BY <1>1, <1>2, <1>3, <1>4

\* No two lines of a program that is kept own one pin or take the tone's timer,
\* but where no check asks: parse's clash checks, in any order of the lines.
THEOREM DeclarationsHaveOneOwner == DeclSpec => []OneOwner
<1> DEFINE Inv == Kept /\ ConsoleApart /\ \A d \in Held : d.kind \in Kinds
<1>1. DeclInit => Inv
  <2>1. DeclInit => Kept /\ \A d \in Held : d.kind \in Kinds
    BY DEF DeclInit, Kept, Held
  <2>2. DeclInit => ConsoleApart
    BY DEF DeclInit, ConsoleApart
  <2> QED
    BY <2>1, <2>2
<1>2. Inv /\ [DeclNext]_declVars => Inv'
  BY KeptByStep, ConsoleApartByStep
<1>3. Inv => OneOwner
  BY DEF Kept, ConsoleApart, OneOwner, Apart
<1> QED
  BY <1>1, <1>2, <1>3, PTL DEF DeclSpec


-----------------------------------------------------------------------------
(* What is printed: the order of the lines *)

\* A set of naturals that is not empty has a least member.
LEMMA LeastIs ==
    ASSUME NEW S \in SUBSET Nat, S # {}
    PROVE  \E m \in S : \A k \in S : m <= k
<1>1. IsWellFoundedOn(OpToRel(<, Nat), Nat) BY NatLessThanWellFounded
<1>2. PICK m \in S : \A k \in S : ~ (<<k, m>> \in OpToRel(<, Nat)) BY <1>1, WFMin
<1>3. \A k \in S : ~(k < m) BY <1>2 DEF OpToRel
<1> QED BY <1>3

\* A set that has 0 and the successor of each of its members has every natural.
LEMMA Induction ==
    ASSUME NEW S, 0 \in S, \A n \in Nat : n \in S => n + 1 \in S
    PROVE  Nat \subseteq S
<1> SUFFICES ASSUME Nat \ S # {} PROVE FALSE
  OBVIOUS
<1>1. PICK m \in Nat \ S : \A k \in Nat \ S : m <= k BY LeastIs
<1>2. m # 0 /\ m - 1 \in Nat /\ (m - 1) + 1 = m /\ ~(m <= m - 1) BY <1>1
<1>3. m - 1 \in S BY <1>1, <1>2
<1> QED BY <1>1, <1>2, <1>3

\* What the selection of the first n lines is, given that of the lines before.
Longer(before, n, kinds) ==
    IF n = 0 THEN <<>>
    ELSE IF program[n].kind \in kinds THEN Append(before[n - 1], program[n])
    ELSE before[n - 1]

Selection(f, kinds, m) == f = [n \in 0..m |-> Longer(f, n, kinds)]

\* There is one up to every line.
LEMMA SelectionExists ==
    ASSUME NEW kinds, NEW m \in Nat
    PROVE  \E f : Selection(f, kinds, m)
<1> DEFINE some == {n \in Nat : \E f : Selection(f, kinds, n)}
<1>1. 0 \in some
  <2>1. Selection([n \in 0..0 |-> <<>>], kinds, 0) BY DEF Selection, Longer
  <2> QED BY <2>1
<1>2. ASSUME NEW n \in Nat, n \in some PROVE n + 1 \in some
  <2>1. PICK f : Selection(f, kinds, n) BY <1>2
  <2> DEFINE g == [k \in 0..n+1 |-> Longer(f, k, kinds)]
  <2>2. \A k \in 0..n : f[k] = Longer(f, k, kinds) BY <2>1 DEF Selection
  <2>3. \A k \in 0..n : g[k] = f[k] BY <2>2
  <2>4. ASSUME NEW k \in 0..n+1 PROVE Longer(f, k, kinds) = Longer(g, k, kinds)
    <3>1. k = 0 \/ g[k - 1] = f[k - 1] BY <2>3
    <3> HIDE DEF g
    <3> QED BY <3>1 DEF Longer
  <2>5. g = [k \in 0..n+1 |-> Longer(g, k, kinds)] BY <2>4
  <2>6. Selection(g, kinds, n + 1) BY <2>5 DEF Selection
  <2> QED BY <2>6
<1> HIDE DEF some
<1>3. m \in some BY <1>1, <1>2, Induction
<1> QED BY <1>3 DEF some

\* What a section holds: lines of its kinds, in the order in which they came.
Select(s, n, kinds) ==
    /\ s \in Seq(Held)
    /\ \A k \in DOMAIN s : s[k].kind \in kinds /\ \E i \in 1..n : s[k] = program[i]
    /\ \A k, l \in DOMAIN s : k < l =>
         \E i, j \in 1..n : i < j /\ s[k] = program[i] /\ s[l] = program[j]

\* That is what a section is, by induction on the lines looked at.
LEMMA SectionSelects ==
    ASSUME program \in Seq(Held), NEW kinds
    PROVE  Select(Section(kinds), Len(program), kinds)
<1> DEFINE L == Len(program)
           f == CHOOSE g : Selection(g, kinds, L)
           good == {n \in Nat : n <= L => Select(f[n], n, kinds)}
<1>1. L \in Nat /\ DOMAIN program = 1..L /\ \A n \in 1..L : program[n] \in Held OBVIOUS
<1>2. Selection(f, kinds, L) BY <1>1, SelectionExists
<1>3. Section(kinds) = f[L] BY DEF Section, Selection, Longer
<1> HIDE DEF f
<1>4. \A n \in 0..L : f[n] = Longer(f, n, kinds) BY <1>2 DEF Selection
<1>5. 0 \in good
  <2>1. f[0] = <<>> BY <1>1, <1>4 DEF Longer
  <2>2. Select(<<>>, 0, kinds)
    <3>1. <<>> \in Seq(Held) /\ DOMAIN <<>> = {} OBVIOUS
    <3> QED BY <3>1 DEF Select
  <2> QED BY <2>1, <2>2
<1>6. ASSUME NEW n \in Nat, n \in good PROVE n + 1 \in good
  <2> SUFFICES ASSUME n + 1 <= L PROVE Select(f[n + 1], n + 1, kinds)
    OBVIOUS
  <2> DEFINE s == f[n]
             d == program[n + 1]
  <2>1. Select(s, n, kinds) /\ d \in Held BY <1>1, <1>6
  <2>2. f[n + 1] = IF d.kind \in kinds THEN Append(s, d) ELSE s BY <1>1, <1>4 DEF Longer
  <2> HIDE DEF s, d
  <2>3. CASE d.kind \notin kinds
    <3>1. f[n + 1] = s /\ 1..n \subseteq 1..n+1 BY <2>2, <2>3
    <3> QED BY <2>1, <3>1 DEF Select
  <2>4. CASE d.kind \in kinds
    <3> DEFINE r == Append(s, d)
               c == Len(s)
    <3>1. s \in Seq(Held) /\ c \in Nat /\ DOMAIN s = 1..c BY <2>1 DEF Select
    <3>2. /\ r \in Seq(Held) /\ DOMAIN r = 1..c+1 /\ r[c + 1] = d
          /\ \A k \in 1..c : r[k] = s[k]
      BY <2>1, <3>1
    <3> HIDE DEF r, c
    <3>3. n + 1 \in 1..n+1 /\ d = program[n + 1] /\ 1..n \subseteq 1..n+1 BY DEF d
    <3>4. ASSUME NEW k \in DOMAIN r
          PROVE  r[k].kind \in kinds /\ \E i \in 1..n+1 : r[k] = program[i]
      <4>1. CASE k = c + 1 BY <2>4, <3>2, <3>3, <4>1
      <4>2. CASE k # c + 1
        <5>1. k \in DOMAIN s /\ r[k] = s[k] BY <3>1, <3>2, <4>2
        <5> QED BY <2>1, <3>3, <5>1 DEF Select
      <4> QED BY <4>1, <4>2
    <3>5. ASSUME NEW k \in DOMAIN r, NEW l \in DOMAIN r, k < l
          PROVE  \E i, j \in 1..n+1 : i < j /\ r[k] = program[i] /\ r[l] = program[j]
      <4>1. k \in DOMAIN s /\ r[k] = s[k] BY <3>1, <3>2, <3>5
      <4>2. CASE l = c + 1
        <5>1. PICK i \in 1..n : s[k] = program[i] BY <2>1, <4>1 DEF Select
        <5>2. i < n + 1 /\ i \in 1..n+1 OBVIOUS
        <5> QED BY <3>2, <3>3, <4>1, <4>2, <5>1, <5>2
      <4>3. CASE l # c + 1
        <5>1. l \in DOMAIN s /\ r[l] = s[l] BY <3>1, <3>2, <4>3
        <5> QED BY <2>1, <3>3, <3>5, <4>1, <5>1 DEF Select
      <4> QED BY <4>2, <4>3
    <3>6. Select(r, n + 1, kinds) BY <3>2, <3>4, <3>5 DEF Select
    <3> QED BY <2>2, <2>4, <3>6 DEF r
  <2> QED BY <2>3, <2>4
<1> HIDE DEF good
<1>7. L \in good BY <1>1, <1>5, <1>6, Induction
<1> QED BY <1>1, <1>3, <1>7 DEF good

\* The printed order: as they came, or the kind of the one is printed before that of the
\* other.
Earlier(d, e) ==
    \/ d.kind \in Parts /\ e.kind \in {"PORT", "PIN"}
    \/ d.kind = "PORT" /\ e.kind = "PIN"

InOrder(d, e) ==
    \E i, j \in DOMAIN program :
        d = program[i] /\ e = program[j] /\ (i < j \/ Earlier(d, e))

Sorted(s) ==
    /\ s \in Seq(Held)
    /\ \A k, l \in DOMAIN s : k < l => InOrder(s[k], s[l])

Precede(a, b) == \A k \in DOMAIN a : \A l \in DOMAIN b : InOrder(a[k], b[l])
Within(s, a, b) ==
    \A k \in DOMAIN s : (\E i \in DOMAIN a : s[k] = a[i]) \/ (\E i \in DOMAIN b : s[k] = b[i])

\* Two sorted sequences are one, when every line of the first may come before every line
\* of the second.
LEMMA Joined ==
    ASSUME NEW a, NEW b, Sorted(a), Sorted(b), Precede(a, b)
    PROVE  Sorted(a \o b) /\ Within(a \o b, a, b)
<1> DEFINE s == a \o b
<1>1. a \in Seq(Held) /\ b \in Seq(Held) BY DEF Sorted
<1>2. /\ Len(a) \in Nat /\ DOMAIN a = 1..Len(a) /\ Len(b) \in Nat /\ DOMAIN b = 1..Len(b)
  BY <1>1
<1>3. /\ s \in Seq(Held) /\ DOMAIN s = 1..Len(a)+Len(b)
      /\ \A k \in 1..Len(a)+Len(b) : s[k] = IF k <= Len(a) THEN a[k] ELSE b[k - Len(a)]
  BY <1>1, <1>2, ConcatProperties
<1> HIDE DEF s
<1>4. ASSUME NEW k \in DOMAIN s
      PROVE  \/ k \in DOMAIN a /\ s[k] = a[k]
             \/ k > Len(a) /\ k - Len(a) \in DOMAIN b /\ s[k] = b[k - Len(a)]
  BY <1>2, <1>3
<1>5. ASSUME NEW k \in DOMAIN s, NEW l \in DOMAIN s, k < l PROVE InOrder(s[k], s[l])
  <2>1. CASE k \in DOMAIN a /\ s[k] = a[k]
    <3>1. CASE l \in DOMAIN a /\ s[l] = a[l] BY <1>5, <2>1, <3>1 DEF Sorted
    <3>2. CASE l - Len(a) \in DOMAIN b /\ s[l] = b[l - Len(a)] BY <2>1, <3>2 DEF Precede
    <3> QED BY <1>4, <3>1, <3>2
  <2>2. CASE k > Len(a) /\ k - Len(a) \in DOMAIN b /\ s[k] = b[k - Len(a)]
    <3>1. l > Len(a) /\ k \in Nat /\ l \in Nat BY <1>2, <1>3, <1>5, <2>2
    <3>2. l - Len(a) \in DOMAIN b /\ s[l] = b[l - Len(a)] BY <1>2, <1>4, <3>1
    <3>3. k - Len(a) < l - Len(a) BY <1>2, <1>5, <3>1
    <3> QED BY <2>2, <3>2, <3>3 DEF Sorted
  <2> QED BY <1>4, <2>1, <2>2
<1>6. Sorted(s) BY <1>3, <1>5 DEF Sorted
<1>7. Within(s, a, b) BY <1>4 DEF Within
<1> QED BY <1>6, <1>7 DEF s

\* The three sections one after another.
LEMMA OrderedIsSorted ==
    ASSUME program \in Seq(Held)
    PROVE  Sorted(Ordered)
<1> DEFINE parts == Section(Parts)
           ports == Section({"PORT"})
           pins == Section({"PIN"})
<1>1. DOMAIN program = 1..Len(program) /\ Len(program) \in Nat OBVIOUS
<1>2. ASSUME NEW kinds
      PROVE  /\ Sorted(Section(kinds))
             /\ \A k \in DOMAIN Section(kinds) :
                  Section(kinds)[k].kind \in kinds
                  /\ \E i \in DOMAIN program : Section(kinds)[k] = program[i]
  <2>1. Select(Section(kinds), Len(program), kinds) BY SectionSelects
  <2> QED BY <1>1, <2>1 DEF Select, Sorted, InOrder
<1>3. Sorted(parts) /\ Sorted(ports) /\ Sorted(pins) BY <1>2
<1>4. /\ \A k \in DOMAIN parts : parts[k].kind \in Parts /\ \E i \in DOMAIN program : parts[k] = program[i]
      /\ \A k \in DOMAIN ports : ports[k].kind = "PORT" /\ \E i \in DOMAIN program : ports[k] = program[i]
      /\ \A k \in DOMAIN pins : pins[k].kind = "PIN" /\ \E i \in DOMAIN program : pins[k] = program[i]
  BY <1>2
<1> HIDE DEF parts, ports, pins
<1>5. Precede(parts, ports) BY <1>4 DEF Precede, InOrder, Earlier
<1> DEFINE both == parts \o ports
<1>6. Sorted(both) /\ Within(both, parts, ports) BY <1>3, <1>5, Joined
<1> HIDE DEF both
<1>7. Precede(both, pins) BY <1>4, <1>6 DEF Precede, Within, InOrder, Earlier
<1>8. Sorted(both \o pins) BY <1>3, <1>6, <1>7, Joined
<1> QED BY <1>8 DEF Ordered, both, parts, ports, pins

-----------------------------------------------------------------------------
(* What a line is refused for is one other line, or nothing but itself *)

\* What is looked up among several lines is what is looked up in each of them.
LEMMA LookedUpInEach ==
    ASSUME NEW lines, NEW x
    PROVE  /\ x \in PinsHeld(lines) => \E d \in lines : x \in PinsHeld({d})
           /\ x \in Claimed(lines) => \E d \in lines : x \in Claimed({d})
           /\ x \in PortsHeld(lines) => \E d \in lines : x \in PortsHeld({d})
           /\ \A use : x \in Using(lines, use) => \E d \in lines : x \in Using({d}, use)
<1>1. ASSUME NEW kinds, NEW d \in OfKind(lines, kinds)
      PROVE  d \in lines /\ d \in OfKind({d}, kinds)
  BY DEF OfKind
<1>2. ASSUME x \in PinsHeld(lines) PROVE \E d \in lines : x \in PinsHeld({d})
  <2>1. PICK d \in OfKind(lines, {"PIN"}) : x \in Located(d) BY <1>2 DEF PinsHeld
  <2> QED BY <1>1, <2>1 DEF PinsHeld
<1>3. ASSUME x \in Claimed(lines) PROVE \E d \in lines : x \in Claimed({d})
  <2>1. PICK d \in OfKind(lines, Parts) : x \in Claims(d) BY <1>3 DEF Claimed
  <2> QED BY <1>1, <2>1 DEF Claimed
<1>4. ASSUME x \in PortsHeld(lines) PROVE \E d \in lines : x \in PortsHeld({d})
  <2>1. PICK d \in OfKind(lines, {"PORT"}) : x = d.port BY <1>4 DEF PortsHeld
  <2> QED BY <1>1, <2>1 DEF PortsHeld
<1>5. ASSUME NEW use, x \in Using(lines, use) PROVE \E d \in lines : x \in Using({d}, use)
  <2>1. PICK d \in OfKind(lines, {"PIN"}) : d.use = use /\ x \in Located(d) BY <1>5 DEF Using
  <2> QED BY <1>1, <2>1 DEF Using
<1> QED BY <1>2, <1>3, <1>4, <1>5

\* Among no lines nothing is found.
LEMMA LookedUpInNone ==
    /\ PinsHeld({}) = {} /\ Claimed({}) = {} /\ PortsHeld({}) = {}
    /\ \A use : Using({}, use) = {}
BY DEF PinsHeld, Claimed, PortsHeld, Using, OfKind

\* A line that is refused among others is refused alone or after one of them.
LEMMA RefusedForOne ==
    ASSUME NEW lines, NEW e, Refused(lines, e)
    PROVE  Refused({}, e) \/ \E d \in lines : Refused({d}, e)
<1> SUFFICES ASSUME ~Refused({}, e), \A d \in lines : ~Refused({d}, e) PROVE FALSE
  OBVIOUS
<1>1. /\ e.kind \in Kinds /\ Supports(e)
      /\ e.kind = "PIN" => ~PinRefused({}, e)
      /\ e.kind = "PORT" => ~PortRefused({}, e)
      /\ e.kind \in Shifted => ~ShiftedRefused({}, e)
      /\ e.kind \in Banks /\ board.family # "core" => ~BankRefused({}, e)
  BY DEF Refused
<1>2. ASSUME NEW d \in lines
      PROVE  /\ ~NameTaken({d}, e)
             /\ e.kind = "PIN" => ~PinRefused({d}, e)
             /\ e.kind = "PORT" => ~PortRefused({d}, e)
             /\ e.kind \in Shifted => ~ShiftedRefused({d}, e)
             /\ e.kind \in Banks /\ board.family # "core" => ~BankRefused({d}, e)
  BY DEF Refused
<1>3. ~NameTaken(lines, e) BY <1>2 DEF NameTaken
<1>4. ASSUME e.kind = "PIN" PROVE ~PinRefused(lines, e)
  <2>1. ASSUME TimerTaken(lines, e) PROVE \E d \in lines : TimerTaken({d}, e)
    <3>1. CASE e.use = "tone" /\ Using(lines, "tone") # {}
      <4>1. PICK p : p \in Using(lines, "tone") BY <3>1
      <4>2. PICK d \in lines : p \in Using({d}, "tone") BY <4>1, LookedUpInEach
      <4> QED BY <3>1, <4>2 DEF TimerTaken
    <3>2. CASE e.use = "tone" /\ Using(lines, "pwm") \cap board.shared # {}
      <4>1. PICK p : p \in Using(lines, "pwm") /\ p \in board.shared BY <3>2
      <4>2. PICK d \in lines : p \in Using({d}, "pwm") BY <4>1, LookedUpInEach
      <4> QED BY <3>2, <4>1, <4>2 DEF TimerTaken
    <3>3. CASE e.use = "pwm" /\ e.pins[1] \in board.shared /\ Using(lines, "tone") # {}
      <4>1. PICK p : p \in Using(lines, "tone") BY <3>3
      <4>2. PICK d \in lines : p \in Using({d}, "tone") BY <4>1, LookedUpInEach
      <4> QED BY <3>3, <4>2 DEF TimerTaken
    <3> QED BY <2>1, <3>1, <3>2, <3>3 DEF TimerTaken
  <2>2. ASSUME NEW p, Occupied(lines, p) PROVE \E d \in lines : Occupied({d}, p)
    <3>1. \/ p \in PinsHeld(lines) \/ p \in Claimed(lines)
          \/ PortOf[p] \in PortsHeld(lines)
      BY <2>2 DEF Occupied
    <3>2. CASE p \in PinsHeld(lines) BY <3>2, LookedUpInEach DEF Occupied
    <3>3. CASE p \in Claimed(lines) BY <3>3, LookedUpInEach DEF Occupied
    <3>4. CASE PortOf[p] \in PortsHeld(lines)
      <4>1. PICK d \in lines : PortOf[p] \in PortsHeld({d}) BY <3>4, LookedUpInEach
      <4> QED BY <4>1 DEF Occupied
    <3> QED BY <3>1, <3>2, <3>3, <3>4
  <2> QED BY <1>1, <1>2, <1>4, <2>1, <2>2 DEF PinRefused
<1>5. ASSUME NEW S, S \cap (PinsHeld(lines) \cup Claimed(lines)) # {}
      PROVE  \E d \in lines : S \cap (PinsHeld({d}) \cup Claimed({d})) # {}
  <2>1. PICK p \in S : p \in PinsHeld(lines) \/ p \in Claimed(lines) BY <1>5
  <2>2. PICK d \in lines : p \in PinsHeld({d}) \/ p \in Claimed({d}) BY <2>1, LookedUpInEach
  <2> QED BY <2>1, <2>2
<1>6. ASSUME NEW port, port \in PortsHeld(lines) PROVE \E d \in lines : port \in PortsHeld({d})
  BY <1>6, LookedUpInEach
<1>7. ASSUME e.kind = "PORT" PROVE ~PortRefused(lines, e)
  BY <1>1, <1>2, <1>5, <1>6, <1>7 DEF PortRefused
<1>8. ASSUME e.kind \in Shifted PROVE ~ShiftedRefused(lines, e)
  <2>1. ~ShiftedRefused({}, e) /\ \A d \in lines : ~ShiftedRefused({d}, e) BY <1>1, <1>2, <1>8
  <2>2. ~ \E d \in lines : Claims(e) \cap (PinsHeld({d}) \cup Claimed({d})) # {}
    BY <2>1 DEF ShiftedRefused
  <2>3. ~ \E d \in lines : \E p \in Claims(e) : PortOf[p] \in PortsHeld({d})
    BY <2>1 DEF ShiftedRefused
  <2>4. Claims(e) \cap (PinsHeld(lines) \cup Claimed(lines)) = {} BY <1>5, <2>2
  <2>5. ~ \E p \in Claims(e) : PortOf[p] \in PortsHeld(lines) BY <1>6, <2>3
  <2> QED BY <2>1, <2>4, <2>5 DEF ShiftedRefused
<1>9. ASSUME e.kind \in Banks, board.family # "core" PROVE ~BankRefused(lines, e)
  <2>1. ~BankRefused({}, e) /\ \A d \in lines : ~BankRefused({d}, e) BY <1>1, <1>2, <1>9
  <2>2. CASE e.kind # "SEVENSEG8" BY <2>1, <2>2 DEF BankRefused
  <2>3. CASE e.kind = "SEVENSEG8"
    <3>1. ~ \E d \in lines : Claims(e) \cap (PinsHeld({d}) \cup Claimed({d})) # {}
      BY <2>1, <2>3 DEF BankRefused
    <3>2. ~ \E d \in lines : e.port \in PortsHeld({d}) BY <2>1, <2>3 DEF BankRefused
    <3>3. Claims(e) \cap (PinsHeld(lines) \cup Claimed(lines)) = {} BY <1>5, <3>1
    <3>4. e.port \notin PortsHeld(lines) BY <1>6, <3>2
    <3> QED BY <2>1, <2>3, <3>3, <3>4 DEF BankRefused
  <2> QED BY <2>2, <2>3
<1> QED BY <1>1, <1>3, <1>4, <1>7, <1>8, <1>9 DEF Refused

\* And a line that is accepted among others is accepted alone and after each of them.
LEMMA AcceptedForEach ==
    ASSUME NEW lines, NEW e, ~Refused(lines, e)
    PROVE  ~Refused({}, e) /\ \A d \in lines : ~Refused({d}, e)
<1>1. ASSUME NEW few, few \subseteq lines PROVE ~Refused(few, e)
  <2>1. /\ PinsHeld(few) \subseteq PinsHeld(lines) /\ Claimed(few) \subseteq Claimed(lines)
        /\ PortsHeld(few) \subseteq PortsHeld(lines)
    BY <1>1 DEF PinsHeld, Claimed, PortsHeld, OfKind
  <2>2. \A use : Using(few, use) \subseteq Using(lines, use) BY <1>1 DEF Using, OfKind
  <2>3. e.kind \in Kinds /\ Supports(e) /\ ~NameTaken(few, e) BY <1>1 DEF Refused, NameTaken
  <2>4. ASSUME e.kind = "PIN" PROVE ~PinRefused(few, e)
    <3>1. ~PinRefused(lines, e) BY <2>4 DEF Refused
    <3>2. TimerTaken(few, e) => TimerTaken(lines, e) BY <2>2 DEF TimerTaken
    <3>3. \A p : Occupied(few, p) => Occupied(lines, p) BY <2>1 DEF Occupied
    <3> QED BY <3>1, <3>2, <3>3 DEF PinRefused
  <2>5. ASSUME e.kind = "PORT" PROVE ~PortRefused(few, e)
    <3>1. ~PortRefused(lines, e) BY <2>5 DEF Refused
    <3> QED BY <2>1, <3>1 DEF PortRefused
  <2>6. ASSUME e.kind \in Shifted PROVE ~ShiftedRefused(few, e)
    <3>1. ~ShiftedRefused(lines, e) BY <2>6 DEF Refused
    <3> QED BY <2>1, <3>1 DEF ShiftedRefused
  <2>7. ASSUME e.kind \in Banks, board.family # "core" PROVE ~BankRefused(few, e)
    <3>1. ~BankRefused(lines, e) BY <2>7 DEF Refused
    <3> QED BY <2>1, <3>1 DEF BankRefused
  <2> QED BY <2>3, <2>4, <2>5, <2>6, <2>7 DEF Refused
<1> QED BY <1>1

\* The two kinds of line that do not come back.
Excepted(d, e) ==
    \/ e.port = Misspelt
    \/ e.kind = "PORT" /\ d.kind = "SEVENSEG8" /\ Owns(d) \cap Bits(e.port) # {}

\* A line that is printed before one it came after has looked for what that looks for.
LEMMA SwappedIsAccepted ==
    ASSUME NEW d, NEW e, Earlier(d, e), ~Refused({e}, d), ~Unresolved(d), ~Refused({}, e),
           e.kind = "PIN" => e.pins[1] \in Pins
    PROVE  ~Refused({d}, e) \/ Excepted(d, e)
<1> SUFFICES ASSUME ~Excepted(d, e) PROVE ~Refused({d}, e)
  OBVIOUS
<1>1. e.kind \in Kinds /\ Supports(e) /\ d.kind \in Kinds BY DEF Refused
<1>2. ~NameTaken({e}, d) BY DEF Refused
<1>3. CASE d.kind \in Parts
  <2>1. /\ PinsHeld({d}) = {} /\ PortsHeld({d}) = {} /\ Claimed({d}) = Claims(d)
        /\ \A use : Using({d}, use) = {}
    BY <1>3 DEF PinsHeld, PortsHeld, Claimed, Using, OfKind, Parts, Shifted, Banks
  <2>2. ~NameTaken({d}, e) BY <1>3 DEF NameTaken, Earlier, Parts, Shifted, Banks
  <2>3. Owns(d) = Claims(d) BY <1>3 DEF Owns, Parts, Shifted, Banks
  <2>4. CASE e.kind = "PIN"
    <3>1. PinsHeld({e}) = {e.pins[1]} BY <2>4 DEF PinsHeld, OfKind, Located
    <3>2. ASSUME board.family = "8051" PROVE e.pins[1] \notin Claims(d)
      <4>1. CASE d.kind \in Shifted
        <5>1. ~ShiftedRefused({e}, d) BY <4>1 DEF Refused
        <5> QED BY <3>1, <5>1 DEF ShiftedRefused
      <4>2. CASE d.kind = "SEVENSEG8"
        <5>1. ~BankRefused({e}, d) BY <3>2, <4>2 DEF Refused, Banks
        <5> QED BY <3>1, <4>2, <5>1 DEF BankRefused
      <4>3. CASE d.kind = "LEDBANK8" BY <4>3 DEF Claims
      <4> QED BY <1>3, <4>1, <4>2, <4>3 DEF Parts, Banks
    <3>3. ~PinRefused({}, e) BY <2>4 DEF Refused
    <3>4. ~TimerTaken({d}, e) BY <2>1 DEF TimerTaken
    <3>5. board.family = "8051" => ~Occupied({d}, e.pins[1]) BY <2>1, <3>2 DEF Occupied
    <3>6. ~PinRefused({d}, e) BY <3>3, <3>4, <3>5 DEF PinRefused
    <3> QED BY <1>1, <2>2, <2>4, <3>6 DEF Refused, Shifted, Banks
  <2>5. CASE e.kind = "PORT"
    <3>1. PortsHeld({e}) = {e.port} BY <2>5 DEF PortsHeld, OfKind
    <3>2. board.family # "core" BY <1>1, <2>5 DEF Supports
    <3>3. Claims(d) \cap Bits(e.port) = {}
      <4>1. CASE d.kind \in Shifted
        <5>1. ~ShiftedRefused({e}, d) BY <4>1 DEF Refused
        <5> QED BY <3>1, <5>1 DEF ShiftedRefused, Bits
      <4>2. CASE d.kind = "SEVENSEG8" BY <2>3, <2>5, <4>2 DEF Excepted
      <4>3. CASE d.kind = "LEDBANK8" BY <4>3 DEF Claims
      <4> QED BY <1>3, <4>1, <4>2, <4>3 DEF Parts, Banks
    <3>4. ~PortRefused({}, e) BY <2>5 DEF Refused
    <3>5. ~PortRefused({d}, e) BY <2>1, <3>3, <3>4 DEF PortRefused
    <3> QED BY <1>1, <2>2, <2>5, <3>5 DEF Refused, Shifted, Banks
  <2> QED BY <1>3, <2>4, <2>5 DEF Earlier, Parts, Shifted, Banks
<1>4. CASE d.kind = "PORT"
  <2>1. e.kind = "PIN" BY <1>4 DEF Earlier, Parts, Shifted, Banks
  <2>2. /\ PinsHeld({d}) = {} /\ PortsHeld({d}) = {d.port} /\ Claimed({d}) = {}
        /\ \A use : Using({d}, use) = {}
    BY <1>4 DEF PinsHeld, PortsHeld, Claimed, Using, OfKind, Parts, Shifted, Banks
  <2>3. PinsHeld({e}) = {e.pins[1]} BY <2>1 DEF PinsHeld, OfKind, Located
  <2>4. ~NameTaken({d}, e) BY <1>4, <2>1 DEF NameTaken
  <2>5. ~PortRefused({e}, d) BY <1>4 DEF Refused
  <2>6. e.pins[1] \notin Bits(d.port) BY <2>3, <2>5 DEF PortRefused
  <2>7. ~PinRefused({}, e) BY <2>1 DEF Refused
  <2>8. ~TimerTaken({d}, e) BY <2>2 DEF TimerTaken
  <2>9. ~Occupied({d}, e.pins[1]) BY <2>1, <2>2, <2>6 DEF Occupied, Bits
  <2> QED BY <1>1, <2>1, <2>4, <2>7, <2>8, <2>9 DEF PinRefused, Refused, Shifted, Banks
<1> QED BY <1>3, <1>4 DEF Earlier

-----------------------------------------------------------------------------
(* The printed program is read again *)

\* Lines as the language has them; a PIN has its location.
Proper(d) == d \in Line /\ (d.kind = "PIN" => d.pins[1] \in Pins)

\* Of a program that is read for the first time: each line was accepted after each before it.
FirstRead ==
    /\ printed = <<>>
    /\ \A i \in DOMAIN program : ~Refused({}, program[i]) /\ ~Unresolved(program[i])
    /\ \A i, j \in DOMAIN program : i < j => ~Refused({program[i]}, program[j])

\* Of one that is read again: a line still to come is refused for none of those before it,
\* but for the two exceptions; and the console and the tone have been found apart.
Silent(d) == UsesUart /\ ~board.baudFromBrt => ~(d.kind = "PIN" /\ d.use = "tone")

SecondRead ==
    /\ \A k \in DOMAIN printed :
         /\ Refused({}, printed[k]) => printed[k].port = Misspelt
         /\ \A d \in Held : Refused({d}, printed[k]) => Excepted(d, printed[k])
         /\ Silent(printed[k])
    /\ \A k, l \in DOMAIN printed :
         k < l /\ Refused({printed[k]}, printed[l]) => Excepted(printed[k], printed[l])
    /\ \A d \in Held : Silent(d)

ReprintInv ==
    /\ again \in BOOLEAN
    /\ program \in Seq(Held) /\ (\A d \in Held : Proper(d))
    /\ printed \in Seq(Line) /\ (\A k \in DOMAIN printed : Proper(printed[k]))
    /\ ~again => FirstRead
    /\ again => SecondRead
    /\ ReprintAccepted

\* What the checks say of two lines depends on the board alone.
LEMMA RefusedStays ==
    ASSUME board' = board, NEW lines, NEW d
    PROVE  /\ Refused(lines, d)' <=> Refused(lines, d)
           /\ Unresolved(d)' <=> Unresolved(d)
<1>1. Supports(d)' <=> Supports(d) BY DEF Supports
<1>2. PinRefused(lines, d)' <=> PinRefused(lines, d)
  BY DEF PinRefused, Unable, TimerTaken, Occupied, Using, OfKind, Located, PinsHeld, Claimed,
         Claims, PortsHeld, Bits
<1>3. PortRefused(lines, d)' <=> PortRefused(lines, d)
  BY DEF PortRefused, OfKind, Located, PinsHeld, Claimed, Claims, PortsHeld, Bits
<1>4. ShiftedRefused(lines, d)' <=> ShiftedRefused(lines, d)
  BY DEF ShiftedRefused, Twice, OfKind, Located, PinsHeld, Claimed, Claims, PortsHeld, Bits
<1>5. BankRefused(lines, d)' <=> BankRefused(lines, d)
  BY DEF BankRefused, Twice, OfKind, Located, PinsHeld, Claimed, Claims, PortsHeld, Bits
<1>6. NameTaken(lines, d)' <=> NameTaken(lines, d) BY DEF NameTaken
<1> QED BY <1>1, <1>2, <1>3, <1>4, <1>5, <1>6 DEF Refused, Unresolved

\* Spelling a line as it is printed changes only a segment port, which no check looks up.
LEMMA SpeltIs ==
    ASSUME NEW d, Proper(d)
    PROVE  /\ Proper(Spelt(d)) /\ Spelt(d).kind = d.kind /\ Spelt(d).use = d.use
           /\ Spelt(d) = d \/ Spelt(d).port = Misspelt
           /\ \A e : Refused({Spelt(d)}, e) => Refused({d}, e)
           /\ \A e : Excepted(d, e) => Excepted(Spelt(d), e)
<1> SUFFICES ASSUME d.kind = "SEVENSEG8", Spelt(d) = [d EXCEPT !.port = Misspelt]
             PROVE  /\ Proper(Spelt(d)) /\ Spelt(d).kind = d.kind /\ Spelt(d).use = d.use
                    /\ Spelt(d) = d \/ Spelt(d).port = Misspelt
                    /\ \A e : Refused({Spelt(d)}, e) => Refused({d}, e)
                    /\ \A e : Excepted(d, e) => Excepted(Spelt(d), e)
  BY DEF Spelt
<1> DEFINE s == Spelt(d)
<1>1. /\ s \in Line /\ s.kind = "SEVENSEG8" /\ s.port = Misspelt
      /\ s.use = d.use /\ s.name = d.name /\ s.pins = d.pins
  BY DEF Proper, Line
<1> HIDE DEF s
<1>2. Claims(s) = Claims(d) BY <1>1 DEF Claims, Located
<1>3. PinsHeld({s}) = PinsHeld({d}) /\ PortsHeld({s}) = PortsHeld({d})
  BY <1>1 DEF PinsHeld, PortsHeld, OfKind
<1>4. Claimed({s}) = Claimed({d}) BY <1>1, <1>2 DEF Claimed, OfKind, Parts, Banks
<1>5. \A use : Using({s}, use) = Using({d}, use) BY <1>1 DEF Using, OfKind
<1>6. ASSUME NEW e PROVE Refused({s}, e) => Refused({d}, e)
  <2>1. NameTaken({s}, e) => NameTaken({d}, e) BY <1>1 DEF NameTaken
  <2>2. PinRefused({s}, e) => PinRefused({d}, e)
    BY <1>3, <1>4, <1>5 DEF PinRefused, TimerTaken, Occupied
  <2>3. PortRefused({s}, e) => PortRefused({d}, e) BY <1>3, <1>4 DEF PortRefused
  <2>4. ShiftedRefused({s}, e) => ShiftedRefused({d}, e) BY <1>3, <1>4 DEF ShiftedRefused
  <2>5. BankRefused({s}, e) => BankRefused({d}, e) BY <1>3, <1>4 DEF BankRefused
  <2> QED BY <2>1, <2>2, <2>3, <2>4, <2>5 DEF Refused
<1>7. Owns(s) = Owns(d) BY <1>1, <1>2 DEF Owns
<1>8. \A e : Excepted(d, e) => Excepted(s, e) BY <1>1, <1>7 DEF Excepted
<1>9. Proper(s) BY <1>1 DEF Proper
<1> QED BY <1>1, <1>6, <1>8, <1>9 DEF s

\* Two lines of the printed program, in its order.
LEMMA PrintedPairs ==
    ASSUME program \in Seq(Held), FirstRead, \A d \in Held : Proper(d),
           NEW d, NEW e, InOrder(d, e)
    PROVE  ~Refused({d}, e) \/ Excepted(d, e)
<1>1. PICK i \in DOMAIN program, j \in DOMAIN program :
        d = program[i] /\ e = program[j] /\ (i < j \/ Earlier(d, e))
  BY DEF InOrder
<1>2. CASE i < j BY <1>1, <1>2 DEF FirstRead
<1>3. CASE ~(i < j)
  <2>1. Earlier(d, e) BY <1>1, <1>3
  <2>2. d.kind # e.kind BY <2>1 DEF Earlier, Parts, Shifted, Banks
  <2>3. j < i
    <3>1. i \in Int /\ j \in Int /\ i # j BY <1>1, <2>2
    <3> QED BY <1>3, <3>1
  <2>4. ~Refused({e}, d) /\ ~Unresolved(d) /\ ~Refused({}, e) BY <1>1, <2>3 DEF FirstRead
  <2>5. e.kind = "PIN" => e.pins[1] \in Pins BY <1>1 DEF Held, Proper
  <2> QED BY <2>1, <2>4, <2>5, SwappedIsAccepted
<1> QED BY <1>2, <1>3

\* Printing: what is to be read is in order.
LEMMA DecompileKeeps == ReprintInv /\ ConsoleApart /\ Decompile => ReprintInv'
<1> SUFFICES ASSUME ReprintInv, ConsoleApart, Decompile PROVE ReprintInv'
  OBVIOUS
<1>1. /\ outcome = "parsed" /\ ~again /\ again' = TRUE /\ outcome' = "reading"
      /\ printed' = Canonical /\ program' = <<>> /\ board' = board /\ prints' = prints
  BY DEF Decompile
<1>2. FirstRead /\ program \in Seq(Held) /\ \A d \in Held : Proper(d) BY <1>1 DEF ReprintInv
<1> DEFINE s == Ordered
           c == Canonical
<1>3. s \in Seq(Held) /\ \A k, l \in DOMAIN s : k < l => InOrder(s[k], s[l])
  BY <1>2, OrderedIsSorted DEF Sorted
<1>4. c = [k \in DOMAIN s |-> Spelt(s[k])] BY DEF Canonical
<1> HIDE DEF s, c
<1>5. \A k \in DOMAIN s : s[k] \in Held /\ Proper(s[k]) BY <1>2, <1>3
<1>6. DOMAIN c = DOMAIN s /\ \A k \in DOMAIN s : c[k] = Spelt(s[k]) BY <1>4
<1>7. \A k \in DOMAIN c : Proper(c[k]) BY <1>5, <1>6, SpeltIs
<1>8. c \in Seq(Line)
  <2>1. DOMAIN c = 1..Len(s) /\ Len(s) \in Nat BY <1>3, <1>6
  <2>2. \A k \in 1..Len(s) : c[k] \in Line BY <1>7, <2>1 DEF Proper
  <2>3. c \in [1..Len(s) -> Line] BY <1>4, <2>1, <2>2
  <2> QED BY <2>1, <2>3
<1>9. ASSUME NEW k \in DOMAIN c PROVE Refused({}, c[k]) => c[k].port = Misspelt
  <2>1. PICK i \in DOMAIN program : s[k] = program[i] BY <1>5, <1>6 DEF Held
  <2>2. ~Refused({}, s[k]) BY <1>2, <2>1 DEF FirstRead
  <2> QED BY <1>5, <1>6, <2>2, SpeltIs
<1>10. ASSUME NEW k \in DOMAIN c, NEW l \in DOMAIN c, k < l, Refused({c[k]}, c[l])
       PROVE  Excepted(c[k], c[l])
  <2>1. InOrder(s[k], s[l]) /\ Proper(s[k]) /\ Proper(s[l]) BY <1>3, <1>5, <1>6, <1>10
  <2>2. CASE c[l].port = Misspelt BY <2>2 DEF Excepted
  <2>3. CASE c[l] = s[l]
    <3>1. Refused({s[k]}, s[l]) BY <1>6, <1>10, <2>1, <2>3, SpeltIs
    <3>2. Excepted(s[k], s[l]) BY <1>2, <2>1, <3>1, PrintedPairs
    <3> QED BY <1>6, <2>1, <2>3, <3>2, SpeltIs
  <2> QED BY <1>6, <2>1, <2>2, <2>3, SpeltIs
<1>11. ASSUME NEW k \in DOMAIN c PROVE Silent(c[k])
  <2>1. c[k].kind = s[k].kind /\ c[k].use = s[k].use /\ s[k] \in Held BY <1>5, <1>6, SpeltIs
  <2>2. ASSUME s[k].kind = "PIN", s[k].use = "tone" PROVE Using(Held, "tone") # {}
    <3>1. s[k].pins[1] \in Located(s[k]) /\ s[k] \in OfKind(Held, {"PIN"})
      BY <2>1, <2>2 DEF Located, OfKind
    <3> QED BY <2>2, <3>1 DEF Using
  <2> QED BY <1>1, <2>1, <2>2 DEF Silent, ConsoleApart, UsesUart
<1>12. Held' = {} BY <1>1 DEF Held
<1>13. SecondRead'
  <2>1. ASSUME NEW k \in DOMAIN printed' PROVE Silent(printed[k])'
    BY <1>1, <1>11 DEF Silent, UsesUart, c
  <2>2. ASSUME NEW k \in DOMAIN printed', NEW l \in DOMAIN printed', k < l,
               Refused({printed[k]}, printed[l])'
        PROVE  Excepted(printed[k], printed[l])'
    <3>1. Refused({c[k]}, c[l]) BY <1>1, <2>2, RefusedStays DEF c
    <3>2. Excepted(c[k], c[l]) BY <1>1, <1>10, <2>2, <3>1 DEF c
    <3> QED BY <1>1, <3>2 DEF Excepted, Owns, Claims, Bits, Located, c
  <2>3. ASSUME NEW k \in DOMAIN printed'
        PROVE  (Refused({}, printed[k]) => printed[k].port = Misspelt)'
    BY <1>1, <1>9, <2>3, RefusedStays DEF c
  <2> QED BY <1>12, <2>1, <2>2, <2>3 DEF SecondRead
<1>14. program' \in Seq(Held') /\ (\A d \in Held' : Proper(d)') BY <1>1, <1>12
<1>15. printed' \in Seq(Line) /\ \A k \in DOMAIN printed' : Proper(printed[k])'
  BY <1>1, <1>7, <1>8 DEF c, Proper
<1>16. ReprintAccepted' BY <1>1 DEF ReprintAccepted
<1> QED BY <1>1, <1>13, <1>14, <1>15, <1>16 DEF ReprintInv

\* The lines kept, with one more.
LEMMA OneMoreIs ==
    ASSUME program \in Seq(Held), NEW d, program' = Append(program, d)
    PROVE  /\ Held' = Held \cup {d} /\ program' \in Seq(Held') /\ Len(program) \in Nat
           /\ DOMAIN program = 1..Len(program) /\ DOMAIN program' = 1..Len(program)+1
           /\ \A i \in 1..Len(program) : program'[i] = program[i] /\ program[i] \in Held
           /\ program'[Len(program) + 1] = d
<1>1. program \in Seq(Held \cup {d}) BY DEF Held
<1>2. /\ program' \in Seq(Held \cup {d}) /\ Len(program) \in Nat
      /\ DOMAIN program = 1..Len(program) /\ DOMAIN program' = 1..Len(program)+1
      /\ \A i \in 1..Len(program) : program'[i] = program[i]
      /\ program'[Len(program) + 1] = d
  BY <1>1
<1>3. Held' = Held \cup {d} BY <1>2 DEF Held
<1> QED BY <1>2, <1>3

\* A line that is kept.
LEMMA KeepKeeps == ReprintInv /\ (\E d \in NextLine : Keep(d)) => ReprintInv'
<1> SUFFICES ASSUME ReprintInv, NEW d \in NextLine, Keep(d) PROVE ReprintInv'
  OBVIOUS
<1>1. /\ outcome = "reading" /\ ~Refused(Held, d) /\ ~Unresolved(d)
      /\ program' = Append(program, d)
      /\ printed' = IF again THEN Tail(printed) ELSE printed
      /\ board' = board /\ again' = again /\ outcome' = outcome /\ prints' = prints
  BY DEF Keep
<1>2. /\ again \in BOOLEAN /\ program \in Seq(Held) /\ \A c \in Held : Proper(c)
      /\ printed \in Seq(Line) /\ \A k \in DOMAIN printed : Proper(printed[k])
  BY DEF ReprintInv
<1> DEFINE n == Len(program)
           m == Len(printed)
<1>3. /\ Held' = Held \cup {d} /\ program' \in Seq(Held') /\ n \in Nat
      /\ DOMAIN program = 1..n /\ DOMAIN program' = 1..n+1
      /\ \A i \in 1..n : program'[i] = program[i] /\ program[i] \in Held
      /\ program'[n + 1] = d
  BY <1>1, <1>2, OneMoreIs
<1>4. ReprintAccepted' BY <1>1 DEF ReprintAccepted
<1>5. m \in Nat /\ DOMAIN printed = 1..m BY <1>2
<1> HIDE DEF n, m
<1>6. CASE ~again
  <2>1. d \in Lines /\ FirstRead /\ printed' = printed BY <1>1, <1>6 DEF NextLine, ReprintInv
  <2>2. Proper(d)
    <3>1. d \in Line /\ (d.kind = "PIN" => Len(d.pins) = 1) BY <2>1, DeclarationAssumption
    <3>2. d.pins \in Seq(Pins) BY <3>1 DEF Line
    <3>3. d.kind = "PIN" => d.pins[1] \in Pins BY <3>1, <3>2
    <3> QED BY <3>1, <3>3 DEF Proper
  <2>3. ~Refused({}, d) /\ \A c \in Held : ~Refused({c}, d) BY <1>1, AcceptedForEach
  <2>4. ASSUME NEW i \in 1..n+1
        PROVE  ~Refused({}, program'[i]) /\ ~Unresolved(program'[i])
    BY <1>1, <1>3, <2>1, <2>3 DEF FirstRead
  <2>5. ASSUME NEW i \in 1..n+1, NEW j \in 1..n+1, i < j
        PROVE  ~Refused({program'[i]}, program'[j])
    <3>1. i \in 1..n BY <1>3, <2>5
    <3>2. CASE j = n + 1 BY <1>3, <2>3, <3>1, <3>2
    <3>3. CASE j # n + 1
      <4>1. j \in 1..n BY <1>3, <3>3
      <4> QED BY <1>3, <2>1, <2>5, <3>1, <4>1 DEF FirstRead
    <3> QED BY <3>2, <3>3
  <2>6. FirstRead'
    <3>1. ASSUME NEW i \in DOMAIN program'
          PROVE  ~Refused({}, program[i])' /\ ~Unresolved(program[i])'
      BY <1>1, <1>3, <2>4, RefusedStays
    <3>2. ASSUME NEW i \in DOMAIN program', NEW j \in DOMAIN program', i < j
          PROVE  ~Refused({program[i]}, program[j])'
      <4>1. ~Refused({program'[i]}, program'[j]) BY <1>3, <2>5, <3>2
      <4> QED BY <1>1, <4>1, RefusedStays
    <3> QED BY <2>1, <3>1, <3>2 DEF FirstRead
  <2>7. \A c \in Held' : Proper(c)' BY <1>2, <1>3, <2>2 DEF Proper
  <2>8. \A k \in DOMAIN printed' : Proper(printed[k])' BY <1>2, <2>1 DEF Proper
  <2> QED BY <1>1, <1>2, <1>3, <1>4, <1>6, <2>1, <2>6, <2>7, <2>8 DEF ReprintInv
<1>7. CASE again
  <2>1. SecondRead /\ printed' = Tail(printed) /\ 1 \in DOMAIN printed /\ d = printed[1]
    BY <1>1, <1>7 DEF NextLine, ReprintInv
  <2>2. /\ m # 0 /\ printed' \in Seq(Line) /\ DOMAIN printed' = 1..m-1
        /\ \A k \in 1..m-1 : printed'[k] = printed[k + 1] /\ k + 1 \in DOMAIN printed
    BY <1>2, <1>5, <2>1 DEF m
  <2>3. ASSUME NEW k \in 1..m-1
        PROVE  /\ Refused({}, printed'[k]) => printed'[k].port = Misspelt
               /\ \A c \in Held' : Refused({c}, printed'[k]) => Excepted(c, printed'[k])
               /\ Silent(printed'[k]) /\ Proper(printed'[k])
    <3>1. 1 < k + 1 /\ k + 1 \in DOMAIN printed /\ printed'[k] = printed[k + 1] BY <1>5, <2>2
    <3>2. Refused({d}, printed[k + 1]) => Excepted(d, printed[k + 1])
      BY <2>1, <3>1 DEF SecondRead
    <3> QED BY <1>2, <1>3, <2>1, <3>1, <3>2 DEF SecondRead
  <2>4. ASSUME NEW k \in 1..m-1, NEW l \in 1..m-1, k < l, Refused({printed'[k]}, printed'[l])
        PROVE  Excepted(printed'[k], printed'[l])
    <3>1. k + 1 < l + 1 /\ k + 1 \in DOMAIN printed /\ l + 1 \in DOMAIN printed BY <2>2, <2>4
    <3> QED BY <2>1, <2>2, <2>4, <3>1 DEF SecondRead
  <2>5. \A c \in Held' : Silent(c) BY <1>3, <2>1 DEF SecondRead
  <2>6. SecondRead'
    <3>1. ASSUME NEW k \in DOMAIN printed'
          PROVE  (Refused({}, printed[k]) => printed[k].port = Misspelt)'
      BY <1>1, <2>2, <2>3, RefusedStays
    <3>2. ASSUME NEW k \in DOMAIN printed', NEW c \in Held', Refused({c}, printed[k])'
          PROVE  Excepted(c, printed[k])'
      <4>1. Refused({c}, printed'[k]) BY <1>1, <3>2, RefusedStays
      <4>2. Excepted(c, printed'[k]) BY <2>2, <2>3, <4>1
      <4> QED BY <1>1, <4>2 DEF Excepted, Owns, Claims, Bits, Located
    <3>3. ASSUME NEW k \in DOMAIN printed', NEW l \in DOMAIN printed', k < l,
                 Refused({printed[k]}, printed[l])'
          PROVE  Excepted(printed[k], printed[l])'
      <4>1. Refused({printed'[k]}, printed'[l]) BY <1>1, <3>3, RefusedStays
      <4>2. Excepted(printed'[k], printed'[l]) BY <2>2, <2>4, <3>3, <4>1
      <4> QED BY <1>1, <4>2 DEF Excepted, Owns, Claims, Bits, Located
    <3>4. \A k \in DOMAIN printed' : Silent(printed[k])' BY <1>1, <2>2, <2>3 DEF Silent, UsesUart
    <3>5. \A c \in Held' : Silent(c)' BY <1>1, <2>5 DEF Silent, UsesUart
    <3> QED BY <3>1, <3>2, <3>3, <3>4, <3>5 DEF SecondRead
  <2>7. \A c \in Held' : Proper(c)' BY <1>2, <1>3, <2>1 DEF Proper
  <2>8. \A k \in DOMAIN printed' : Proper(printed[k])' BY <2>2, <2>3 DEF Proper
  <2> QED BY <1>1, <1>2, <1>3, <1>4, <1>7, <2>2, <2>6, <2>7, <2>8 DEF ReprintInv
<1> QED BY <1>2, <1>6, <1>7

\* The rest of the invariant is of what is read, the board and the scripts alone.
LEMMA ReadsStay ==
    ASSUME ReprintInv, UNCHANGED <<board, program, printed, again, prints>>
    PROVE  /\ again' => again
           /\ ReprintAccepted' => ReprintInv'
<1>1. Held' = Held BY DEF Held
<1>2. FirstRead => FirstRead'
  <2> SUFFICES ASSUME FirstRead PROVE FirstRead'
    OBVIOUS
  <2>1. ASSUME NEW i \in DOMAIN program'
        PROVE  ~Refused({}, program[i])' /\ ~Unresolved(program[i])'
    BY RefusedStays DEF FirstRead
  <2>2. ASSUME NEW i \in DOMAIN program', NEW j \in DOMAIN program', i < j
        PROVE  ~Refused({program[i]}, program[j])'
    <3>1. ~Refused({program'[i]}, program'[j]) BY <2>2 DEF FirstRead
    <3> QED BY <3>1, RefusedStays
  <2> QED BY <2>1, <2>2 DEF FirstRead
<1>3. SecondRead => SecondRead'
  <2> SUFFICES ASSUME SecondRead PROVE SecondRead'
    OBVIOUS
  <2>1. ASSUME NEW k \in DOMAIN printed'
        PROVE  (Refused({}, printed[k]) => printed[k].port = Misspelt)' /\ Silent(printed[k])'
    BY RefusedStays DEF SecondRead, Silent, UsesUart
  <2>2. ASSUME NEW k \in DOMAIN printed', NEW c \in Held', Refused({c}, printed[k])'
        PROVE  Excepted(c, printed[k])'
    <3>1. Refused({c}, printed'[k]) BY <2>2, RefusedStays
    <3>2. Excepted(c, printed'[k]) BY <1>1, <2>2, <3>1 DEF SecondRead
    <3> QED BY <3>2 DEF Excepted, Owns, Claims, Bits, Located
  <2>3. ASSUME NEW k \in DOMAIN printed', NEW l \in DOMAIN printed', k < l,
               Refused({printed[k]}, printed[l])'
        PROVE  Excepted(printed[k], printed[l])'
    <3>1. Refused({printed'[k]}, printed'[l]) BY <2>3, RefusedStays
    <3>2. Excepted(printed'[k], printed'[l]) BY <2>3, <3>1 DEF SecondRead
    <3> QED BY <3>2 DEF Excepted, Owns, Claims, Bits, Located
  <2>4. \A c \in Held' : Silent(c)' BY <1>1 DEF SecondRead, Silent, UsesUart
  <2> QED BY <2>1, <2>2, <2>3, <2>4 DEF SecondRead
<1>4. (\A c \in Held' : Proper(c)') /\ \A k \in DOMAIN printed' : Proper(printed[k])'
  BY <1>1 DEF ReprintInv, Proper
<1> QED BY <1>1, <1>2, <1>3, <1>4 DEF ReprintInv

\* A line that is refused when the program is read again is one of the exceptions, and the
\* scripts that follow are not refused for the tone.
LEMMA RefuseKeeps ==
    ASSUME ReprintInv, [DeclNext]_declVars, ~ \E d \in NextLine : Keep(d), ~Decompile
    PROVE  ReprintInv'
<1>1. CASE \E d \in NextLine : Refuse(d)
  <2>1. PICK d \in NextLine : Refuse(d) BY <1>1
  <2>2. Refused(Held, d) /\ UNCHANGED <<board, program, printed, again, prints>> BY <2>1 DEF Refuse
  <2>3. ASSUME again
        PROVE  \/ printed[1].port = Misspelt
               \/ /\ printed[1].kind = "PORT"
                  /\ \E c \in OfKind(Held, {"SEVENSEG8"}) : Owns(c) \cap Bits(printed[1].port) # {}
    <3>1. 1 \in DOMAIN printed /\ d = printed[1] /\ SecondRead BY <2>3 DEF NextLine, ReprintInv
    <3>2. CASE Refused({}, d) BY <3>1, <3>2 DEF SecondRead
    <3>3. CASE \E c \in Held : Refused({c}, d)
      <4>1. PICK c \in Held : Refused({c}, d) BY <3>3
      <4>2. Excepted(c, d) BY <3>1, <4>1 DEF SecondRead
      <4> QED BY <3>1, <4>2 DEF Excepted, OfKind
    <3> QED BY <2>2, <3>2, <3>3, RefusedForOne
  <2>4. ReprintAccepted'
    BY <2>2, <2>3 DEF ReprintAccepted, OfKind, Held, Owns, Claims, Located, Bits
  <2> QED BY <2>2, <2>4, ReadsStay
<1>2. CASE \E d \in NextLine : Escape(d)
  <2>1. outcome' = "escaped" /\ UNCHANGED <<board, program, printed, again, prints>>
    BY <1>2 DEF Escape
  <2> QED BY <2>1, ReadsStay DEF ReprintAccepted
<1>3. CASE Begin
  <2>1. UNCHANGED <<board, program, printed, again, prints>> BY <1>3 DEF Begin
  <2>2. again => outcome' = "parsed"
    <3> SUFFICES ASSUME again, UsesUart, ~board.baudFromBrt, Using(Held, "tone") # {} PROVE FALSE
      BY <1>3 DEF Begin
    <3>1. PICK c \in OfKind(Held, {"PIN"}) : c.use = "tone" BY DEF Using
    <3> QED BY <3>1 DEF ReprintInv, SecondRead, Silent, OfKind
  <2> QED BY <2>1, <2>2, ReadsStay DEF ReprintAccepted
<1>4. CASE UNCHANGED declVars
  <2>1. UNCHANGED <<board, program, printed, again, prints, outcome>> BY <1>4 DEF declVars
  <2>2. ReprintAccepted'
    BY <2>1 DEF ReprintInv, ReprintAccepted, OfKind, Held, Owns, Claims, Located, Bits
  <2> QED BY <2>1, <2>2, ReadsStay
<1> QED BY <1>1, <1>2, <1>3, <1>4 DEF DeclNext

\* A program that was accepted is accepted when it comes back printed, its parts first, then
\* its ports, then its pins: whichever line of two is read first has asked all that the other
\* would have asked, but for a SEVENSEG8's port on an AVR board, and a PORT over its select
\* pins.
THEOREM ReprintsAreAccepted == DeclSpec => []ReprintAccepted
<1>1. DeclInit => ReprintInv /\ ConsoleApart
  <2>1. DeclInit => /\ Held = {} /\ program = <<>> /\ printed = <<>> /\ again = FALSE
                    /\ outcome = "reading"
    BY DEF DeclInit, Held
  <2>2. DeclInit => FirstRead BY <2>1 DEF FirstRead
  <2>3. DeclInit => ReprintAccepted /\ ConsoleApart BY <2>1 DEF ReprintAccepted, ConsoleApart
  <2>4. <<>> \in Seq(Line) /\ <<>> \in Seq({}) /\ DOMAIN <<>> = {} OBVIOUS
  <2> QED BY <2>1, <2>2, <2>3, <2>4 DEF ReprintInv
<1>2. ReprintInv /\ ConsoleApart /\ [DeclNext]_declVars => (ReprintInv /\ ConsoleApart)'
  BY KeepKeeps, DecompileKeeps, RefuseKeeps, ConsoleApartByStep
<1>3. ReprintInv => ReprintAccepted BY DEF ReprintInv
<1> QED BY <1>1, <1>2, <1>3, PTL DEF DeclSpec

=============================================================================
