------------------------------ MODULE EspProofs ------------------------------
(***************************************************************************)
(* Proofs about the ESP8266 runtime: the pin interrupts, for every set of  *)
(* pins and of routines; the millisecond clock and the calls that wait by  *)
(* reading a clock, for every counter, millisecond and routine; and the    *)
(* waveforms, for every set of pins, of duties and of tones.               *)
(***************************************************************************)
EXTENDS EspTime, EspWave, EspPins, WellFoundedInduction, TLAPS

-----------------------------------------------------------------------------
(* EspPins. *)

USE PinsAssumption DEF PinsAssumption

\* The pin invariant holds at power-up.
LEMMA PinsInitInv == PinsInit => EdgesInv
<1> SUFFICES ASSUME PinsInit PROVE EdgesInv
    OBVIOUS
<1>1. PinsTypeOK
    <2>1. routines \in [Usable -> Routines \cup {"none"}]
        BY DEF PinsInit
    <2>2. status \subseteq Usable /\ enabled \subseteq Usable /\ pending \subseteq Usable
          /\ unserved \subseteq Usable /\ undone \subseteq Usable
        BY Zenon DEF PinsInit
    <2>3. next \in 0..16 /\ pin \in Usable \cup {0}
        BY DEF PinsInit
    <2>5. unmasked \in BOOLEAN
        BY Zenon DEF PinsInit
    <2>4. doing \in {"sketch", "unmask", "clear", "enable", "remove"}
          /\ isr \in {"out", "clear", "loop", "routine"}
        BY DEF PinsInit
    <2> QED BY <2>1, <2>2, <2>3, <2>4, <2>5, Zenon DEF PinsTypeOK
<1>2. EdgesKept /\ Guarded /\ InStep
    BY DEF PinsInit, EdgesKept, Guarded, InStep
<1> QED BY <1>1, <1>2 DEF EdgesInv

-----------------------------------------------------------------------------

\* The usable pins are bits of the status word.
LEMMA PinsNatural == \A p \in Usable : p \in Nat /\ p >= 0 /\ p + 1 \in 0..16 /\ p \in 0..16
OBVIOUS

\* Every step keeps the types of the pins.
LEMMA TypeStep == PinsTypeOK /\ InStep /\ [PinsNext]_pinsVars => PinsTypeOK'
<1> SUFFICES ASSUME PinsTypeOK, InStep, [PinsNext]_pinsVars PROVE PinsTypeOK'
    OBVIOUS
<1> USE DEF PinsTypeOK, table, sketch, handler, pinHistory, Statement
<1>1. CASE Edge       BY <1>1 DEF Edge
<1>2. CASE Attach     BY <1>2 DEF Attach
<1>3. CASE Unmask     BY <1>3 DEF Unmask
<1>4. CASE Forget     BY <1>4 DEF Forget
<1>5. CASE Enable     BY <1>5 DEF Enable, InStep
<1>6. CASE Disable    BY <1>6 DEF Disable
<1>7. CASE Remove     BY <1>7 DEF Remove
<1>8. CASE Interrupt  BY <1>8 DEF Interrupt
<1>9. CASE Clear      BY <1>9 DEF Clear
<1>10. CASE Calls
    <2>1. PICK p \in Usable :
              /\ isr' = IF routines[p] \in Once THEN "routine" ELSE "loop"
              /\ next' = IF routines[p] \in Once THEN p ELSE p + 1
              /\ unserved' = unserved \ {p}
              /\ UNCHANGED <<undone, table, sketch, pending>>
        BY <1>10 DEF Calls
    <2> QED BY <2>1, PinsNatural
<1>11. CASE DetachesItself
    BY <1>11, PinsNatural DEF DetachesItself, InStep
<1>12. CASE Leaves    BY <1>12 DEF Leaves
<1>13. CASE UNCHANGED pinsVars   BY <1>13 DEF pinsVars
<1> QED BY <1>1, <1>2, <1>3, <1>4, <1>5, <1>6, <1>7, <1>8, <1>9, <1>10, <1>11, <1>12, <1>13
        DEF PinsNext, Sketch, PinInterrupt

\* The statements of the sketch stay in step with the pin they are about.
LEMMA InStepStep == PinsTypeOK /\ InStep /\ [PinsNext]_pinsVars => InStep'
<1> SUFFICES ASSUME PinsTypeOK, InStep, [PinsNext]_pinsVars PROVE InStep'
    OBVIOUS
<1> USE DEF PinsTypeOK, InStep, table, sketch, handler, pinHistory, Statement
<1>1. CASE Edge       BY <1>1 DEF Edge
<1>2. CASE Attach     BY <1>2 DEF Attach
<1>3. CASE Unmask     BY <1>3 DEF Unmask
<1>4. CASE Forget     BY <1>4 DEF Forget
<1>5. CASE Enable     BY <1>5 DEF Enable
<1>6. CASE Disable    BY <1>6 DEF Disable
<1>7. CASE Remove     BY <1>7 DEF Remove
<1>8. CASE Interrupt  BY <1>8 DEF Interrupt
<1>9. CASE Clear      BY <1>9 DEF Clear
<1>10. CASE Calls     BY <1>10 DEF Calls
<1>11. CASE DetachesItself   BY <1>11 DEF DetachesItself
<1>12. CASE Leaves    BY <1>12 DEF Leaves
<1>13. CASE UNCHANGED pinsVars   BY <1>13 DEF pinsVars
<1> QED BY <1>1, <1>2, <1>3, <1>4, <1>5, <1>6, <1>7, <1>8, <1>9, <1>10, <1>11, <1>12, <1>13
        DEF PinsNext, Sketch, PinInterrupt

\* A pin gets its interrupt with a routine to serve it, and loses it with its routine.
LEMMA GuardedStep == PinsTypeOK /\ InStep /\ Guarded /\ [PinsNext]_pinsVars => Guarded'
<1> SUFFICES ASSUME PinsTypeOK, InStep, Guarded, [PinsNext]_pinsVars PROVE Guarded'
    OBVIOUS
<1> USE DEF PinsTypeOK, InStep, Guarded, Servable, table, sketch, handler, pinHistory, Statement
<1>1. CASE Edge
    <2>1. UNCHANGED <<enabled, doing, pin, routines, unmasked, undone>>
        BY <1>1 DEF Edge
    <2> QED BY <2>1, Zenon
<1>2. CASE Attach
    <2>1. PICK p \in Usable, r \in Routines :
              /\ doing' \in {"unmask", "clear"} /\ pin' = p
              /\ routines' = [routines EXCEPT ![p] = r]
              /\ unserved' = unserved \ {p} /\ undone' = undone \ {p}
              /\ doing = "sketch"
              /\ UNCHANGED <<status, enabled, unmasked, isr, pending, next>>
        BY <1>2 DEF Attach
    <2>2. \A q \in Usable : q # p => routines'[q] = routines[q]
        BY <2>1
    <2>3. enabled \subseteq Usable /\ unserved \subseteq Usable
        OBVIOUS
    <2> QED BY <2>1, <2>2, <2>3
<1>3. CASE Unmask     BY <1>3 DEF Unmask
<1>4. CASE Forget     BY <1>4 DEF Forget
<1>5. CASE Enable     BY <1>5 DEF Enable
<1>6. CASE Disable
    <2>1. PICK p \in Usable :
              /\ enabled' = enabled \ {p} /\ unserved' = unserved \ {p} /\ pin' = p
              /\ doing = "sketch"
              /\ UNCHANGED <<undone, status, routines, unmasked, isr, pending, next>>
        BY <1>6 DEF Disable
    <2> QED BY <2>1
<1>7. CASE Remove     BY <1>7 DEF Remove
<1>8. CASE Interrupt  BY <1>8 DEF Interrupt
<1>9. CASE Clear      BY <1>9 DEF Clear
<1>10. CASE Calls
    <2>1. UNCHANGED <<enabled, doing, pin, routines, unmasked, undone>>
        BY <1>10 DEF Calls
    <2> QED BY <2>1, Zenon
<1>11. CASE DetachesItself   BY <1>11 DEF DetachesItself
<1>12. CASE Leaves    BY <1>12 DEF Leaves
<1>13. CASE UNCHANGED pinsVars   BY <1>13 DEF pinsVars
<1> QED BY <1>1, <1>2, <1>3, <1>4, <1>5, <1>6, <1>7, <1>8, <1>9, <1>10, <1>11, <1>12, <1>13
        DEF PinsNext, Sketch, PinInterrupt

-----------------------------------------------------------------------------
(* EdgesKept. *)

\* The sketch takes nothing out of the line but the pin it is about.
LEMMA SketchKept == EdgesInv /\ (Edge \/ Sketch) => EdgesKept'
<1> SUFFICES ASSUME PinsTypeOK, EdgesKept, Guarded, InStep, Edge \/ Sketch PROVE EdgesKept'
    BY DEF EdgesInv
<1> USE DEF PinsTypeOK, EdgesKept, InLine, InStep, table, sketch, handler, pinHistory, Statement
<1>1. CASE Edge
    <2>1. PICK p \in enabled :
              /\ status' = status \cup {p}
              /\ unserved' = IF doing = "sketch" \/ pin # p THEN unserved \cup {p} ELSE unserved
              /\ UNCHANGED <<undone, routines, unmasked, isr, pending, next>>
        BY <1>1 DEF Edge
    <2>2. doing = "sketch" \/ pin # p => Servable(p)
        BY DEF Guarded
    <2>3. ASSUME NEW q \in unserved' \ undone'
          PROVE  (unmasked /\ routines[q] # "none" /\ InLine(q))'
        <3>1. CASE q \in unserved
            BY <2>1, <2>3, <3>1
        <3>2. CASE q \notin unserved
            BY <2>1, <2>2, <2>3, <3>2 DEF Servable
        <3> QED BY <3>1, <3>2
    <2> QED BY <2>3
<1>2. CASE Attach
    <2>1. PICK p \in Usable, r \in Routines :
              /\ doing' \in {"unmask", "clear"} /\ pin' = p
              /\ routines' = [routines EXCEPT ![p] = r]
              /\ unserved' = unserved \ {p} /\ undone' = undone \ {p}
              /\ doing = "sketch"
              /\ UNCHANGED <<status, enabled, unmasked, isr, pending, next>>
        BY <1>2 DEF Attach
    <2>2. \A q \in Usable : q # p => routines'[q] = routines[q]
        BY <2>1
    <2>3. enabled \subseteq Usable /\ unserved \subseteq Usable
        OBVIOUS
    <2> QED BY <2>1, <2>2, <2>3
<1>3. CASE Unmask     BY <1>3 DEF Unmask
<1>4. CASE Forget     BY <1>4 DEF Forget
<1>5. CASE Enable     BY <1>5 DEF Enable
<1>6. CASE Disable
    <2>1. PICK p \in Usable :
              /\ enabled' = enabled \ {p} /\ unserved' = unserved \ {p} /\ pin' = p
              /\ doing = "sketch"
              /\ UNCHANGED <<undone, status, routines, unmasked, isr, pending, next>>
        BY <1>6 DEF Disable
    <2> QED BY <2>1
<1>7. CASE Remove     BY <1>7 DEF Remove
<1> QED BY <1>1, <1>2, <1>3, <1>4, <1>5, <1>6, <1>7 DEF Sketch

\* The interrupt takes a pin out of the line by calling its routine, or over into
\* `pending`.
LEMMA InterruptKept == EdgesInv /\ PinInterrupt => EdgesKept'
<1> SUFFICES ASSUME PinsTypeOK, EdgesKept, InStep, PinInterrupt PROVE EdgesKept'
    BY DEF EdgesInv
<1> USE DEF PinsTypeOK, EdgesKept, InLine, InStep, table, sketch, handler, pinHistory
<1>1. CASE Interrupt
    BY <1>1, PinsNatural DEF Interrupt
<1>2. CASE Clear
    BY <1>2, PinsNatural DEF Clear
<1>3. CASE Calls
    <2>1. PICK p \in Usable :
              /\ isr = "loop" /\ p >= next
              /\ \A q \in Usable : q \in next..(p-1) => ~Serves(q)
              /\ isr' = IF routines[p] \in Once THEN "routine" ELSE "loop"
              /\ next' = IF routines[p] \in Once THEN p ELSE p + 1
              /\ unserved' = unserved \ {p}
              /\ UNCHANGED <<undone, table, sketch, pending>>
        BY <1>3 DEF Calls
    <2>2. SUFFICES ASSUME NEW q \in unserved' \ undone'
                   PROVE  (unmasked /\ routines[q] # "none" /\ InLine(q))'
        OBVIOUS
    <2>3. q \in Usable /\ q # p /\ unmasked /\ routines[q] # "none" /\ InLine(q)
        BY <2>1, <2>2
    <2>4. q \in Nat /\ p \in Nat /\ next \in Nat
        BY <2>1, <2>3, PinsNatural
    <2>5. q \in pending /\ q >= next => q > p
        BY <2>1, <2>3, <2>4 DEF Serves
    <2>6. q \in status \/ (q \in pending /\ q > p)
        BY <2>1, <2>3, <2>5
    <2>7. InLine(q)'
        BY <2>1, <2>4, <2>6
    <2> QED BY <2>1, <2>3, <2>7
<1>4. CASE DetachesItself
    <2>1. SUFFICES ASSUME NEW q \in unserved' \ undone'
                   PROVE  (unmasked /\ routines[q] # "none" /\ InLine(q))'
        OBVIOUS
    <2>2. q \in Usable /\ q # next /\ unmasked /\ routines[q] # "none" /\ InLine(q)
        BY <1>4, <2>1 DEF DetachesItself
    <2>3. q \in Nat /\ next \in Nat
        BY <2>2, PinsNatural
    <2> QED BY <1>4, <2>2, <2>3 DEF DetachesItself
<1>5. CASE Leaves
    BY <1>5 DEF Leaves, Serves
<1> QED BY <1>1, <1>2, <1>3, <1>4, <1>5 DEF PinInterrupt

\* Every step keeps the pin invariant.
LEMMA PinsStepInv == EdgesInv /\ [PinsNext]_pinsVars => EdgesInv'
<1> SUFFICES ASSUME EdgesInv, [PinsNext]_pinsVars PROVE EdgesInv'
    OBVIOUS
<1>1. PinsTypeOK' /\ InStep' /\ Guarded'
    BY TypeStep, InStepStep, GuardedStep DEF EdgesInv
<1>2. EdgesKept'
    <2>1. CASE UNCHANGED pinsVars
        BY <2>1 DEF EdgesInv, pinsVars, EdgesKept, InLine
    <2>2. CASE PinsNext
        BY <2>2, SketchKept, InterruptKept DEF PinsNext
    <2> QED BY <2>1, <2>2
<1> QED BY <1>1, <1>2 DEF EdgesInv

\* The pin invariant holds of every behaviour.
LEMMA PinsSpecInv == PinsSpec => []EdgesInv
BY PinsInitInv, PinsStepInv, PTL DEF PinsSpec

\* Type correctness of the pin interrupts.
THEOREM PinsTypeCorrect == PinsSpec => []PinsTypeOK
BY PinsSpecInv, PTL DEF EdgesInv

\* No edge is lost between the latch and the routine, wherever pin_interrupt comes into
\* attachInterrupt and detachInterrupt and whatever edges come while it runs, but for a
\* pin whose new routine has undone an attachInterrupt that was not yet through.
THEOREM PinEdgesKept == PinsSpec => []EdgesKept
BY PinsSpecInv, PTL DEF EdgesInv

HIDE PinsAssumption DEF PinsAssumption

-----------------------------------------------------------------------------
(* EspClock and EspTime. *)

USE EspAssumption DEF EspAssumption

-----------------------------------------------------------------------------
(* The counter's arithmetic. *)

\* A sum of a value and less than a turn comes round at most once.
LEMMA TicksOnce ==
    \A a, d \in 0..(Turn-1) :
        /\ Ticks(a + d) = IF a + d < Turn THEN a + d ELSE (a + d) - Turn
        /\ Ticks(a + d) \in 0..(Turn-1)
BY DEF Ticks

\* The millisecond counter stays in its width.
LEMMA MillisRange == \A n \in 0..(MsTurn-1) : Millis(n + 1) \in 0..(MsTurn-1)
BY DEF Millis

\* Steps on the counter add up, as long as they do not go all round.
LEMMA TicksAdd ==
    \A a, d, e \in 0..(Turn-1) :
        d + e < Turn => Ticks(Ticks(a + d) + e) = Ticks(a + (d + e))
<1> SUFFICES ASSUME NEW a \in 0..(Turn-1), NEW d \in 0..(Turn-1), NEW e \in 0..(Turn-1),
                    d + e < Turn
             PROVE  Ticks(Ticks(a + d) + e) = Ticks(a + (d + e))
    OBVIOUS
<1>1. d + e \in 0..(Turn-1)
    OBVIOUS
<1>2. Ticks(a + (d + e)) = IF a + (d + e) < Turn THEN a + (d + e) ELSE (a + (d + e)) - Turn
    BY <1>1, TicksOnce
<1>3. /\ Ticks(a + d) = IF a + d < Turn THEN a + d ELSE (a + d) - Turn
      /\ Ticks(a + d) \in 0..(Turn-1)
    BY TicksOnce
<1>4. Ticks(Ticks(a + d) + e) =
          IF Ticks(a + d) + e < Turn THEN Ticks(a + d) + e ELSE (Ticks(a + d) + e) - Turn
    BY <1>3, TicksOnce
<1> QED BY <1>2, <1>3, <1>4

\* Two different distances end on different values.
LEMMA TicksDiffer ==
    \A a, d, e \in 0..(Turn-1) : d # e => Ticks(a + d) # Ticks(a + e)
BY TicksOnce

-----------------------------------------------------------------------------
(* EspClockInv. *)

\* The clock invariant holds at power-up.
LEMMA InitInv == EspClockInit => EspClockInv
<1> SUFFICES ASSUME EspClockInit PROVE EspClockInv
    OBVIOUS
<1>1. count \in 0..(Turn-1) /\ PerMs \in 0..(Turn-1) /\ PerMs - 0 = PerMs /\ 0 \in 0..(PerMs-1)
    BY DEF EspClockInit
<1>2. Ticks(count + PerMs) \in 0..(Turn-1)
    BY <1>1, TicksOnce
<1>3. EspClockTypeOK /\ ClockKeepsTime
    <2>1. /\ alarm \in 0..(Turn-1) /\ milliseconds \in 0..(MsTurn-1) /\ wholeMs \in 0..(MsTurn-1)
          /\ intoMs \in 0..(PerMs-1) /\ held \in 0..MaxBusy
        BY <1>1, <1>2 DEF EspClockInit
    <2>3. EspClockTypeOK
        BY <1>1, <2>1, Zenon DEF EspClockInit, EspClockTypeOK
    <2>2. ClockKeepsTime
        BY Zenon DEF EspClockInit, ClockKeepsTime
    <2> QED BY <2>2, <2>3
<1>4. AlarmAhead
    <2>1. alarm = Ticks(count + PerMs) /\ intoMs = 0 /\ ~due
        BY DEF EspClockInit
    <2>2. alarm = Ticks(count + (PerMs - intoMs))
        BY <1>1, <2>1
    <2> QED BY <2>1, <2>2 DEF AlarmAhead
<1> QED BY <1>3, <1>4 DEF EspClockInit, EspClockInv

\* While the interrupt waits, a tick finds the millisecond not yet over: the one that
\* holds it off cannot last a millisecond.
LEMMA CountPending == EspClockInv /\ Count /\ due => EspClockInv'
<1> SUFFICES ASSUME EspClockInv, Count, due PROVE EspClockInv'
    OBVIOUS
<1> USE DEF EspClockInv, EspClockTypeOK, Count, Urgent
<1>1. /\ off /\ held < MaxBusy /\ intoMs <= held
      /\ count = Ticks(alarm + intoMs)
    BY DEF AlarmAhead
<1>2. /\ intoMs' = intoMs + 1 /\ wholeMs' = wholeMs /\ due' = TRUE /\ held' = held + 1
      /\ intoMs' <= held' /\ intoMs' <= MaxBusy /\ off' = off /\ alarm' = alarm
      /\ milliseconds' = milliseconds
    <2>1. due' = TRUE
        BY Zenon
    <2>2. intoMs + 1 # PerMs
        BY <1>1
    <2>3. intoMs' = intoMs + 1 /\ wholeMs' = wholeMs /\ held' = held + 1
        BY <1>1, <2>2, Zenon
    <2> QED BY <1>1, <2>1, <2>3
<1>3. count' = Ticks(alarm' + intoMs') /\ count' \in 0..(Turn-1)
    <2>1. /\ alarm \in 0..(Turn-1) /\ intoMs \in 0..(Turn-1) /\ 1 \in 0..(Turn-1)
          /\ count \in 0..(Turn-1) /\ intoMs + 1 < Turn
        BY <1>1
    <2>2. Ticks(Ticks(alarm + intoMs) + 1) = Ticks(alarm + (intoMs + 1))
        BY <2>1, TicksAdd, Zenon
    <2>3. count' = Ticks(count + 1) /\ Ticks(count + 1) \in 0..(Turn-1)
        BY <2>1, TicksOnce, Zenon
    <2> QED BY <1>1, <1>2, <2>2, <2>3
<1>4. EspClockTypeOK'
    BY <1>1, <1>2, <1>3
<1>5. ClockKeepsTime'
    BY <1>2 DEF ClockKeepsTime
<1> QED BY <1>2, <1>3, <1>4, <1>5 DEF AlarmAhead

\* The tick that ends a millisecond meets the alarm.
LEMMA CountMeets == EspClockInv /\ Count /\ ~due /\ intoMs + 1 = PerMs => EspClockInv'
<1> SUFFICES ASSUME EspClockInv, Count, ~due, intoMs + 1 = PerMs PROVE EspClockInv'
    OBVIOUS
<1> USE DEF EspClockInv, EspClockTypeOK, Count
<1>1. alarm = Ticks(count + 1)
    BY DEF AlarmAhead
<1>2. /\ count' = alarm /\ due' = TRUE /\ alarm' = alarm /\ intoMs' = 0
      /\ wholeMs' = Millis(wholeMs + 1) /\ milliseconds' = milliseconds /\ off' = off
      /\ held' \in 0..MaxBusy /\ (off' \/ held' = 0)
    <2>1. count' = alarm /\ intoMs' = 0 /\ wholeMs' = Millis(wholeMs + 1)
        BY <1>1, Zenon
    <2>2. due' = TRUE
        BY <2>1, Zenon
    <2>3. held' \in 0..MaxBusy /\ (off' \/ held' = 0)
        OBVIOUS
    <2> QED BY <2>1, <2>2, <2>3
<1>3. wholeMs = milliseconds
    BY DEF ClockKeepsTime
<1>4. Ticks(alarm + 0) = alarm
    <2>1. alarm \in 0..(Turn-1) /\ 0 \in 0..(Turn-1) /\ alarm + 0 < Turn /\ alarm + 0 = alarm
        OBVIOUS
    <2> QED BY <2>1, TicksOnce, Zenon
<1>5. EspClockTypeOK' /\ ClockKeepsTime'
    BY <1>2, <1>3, MillisRange DEF ClockKeepsTime
<1> QED BY <1>2, <1>4, <1>5 DEF AlarmAhead

\* No other tick does.
LEMMA CountPasses == EspClockInv /\ Count /\ ~due /\ intoMs + 1 # PerMs => EspClockInv'
<1> SUFFICES ASSUME EspClockInv, Count, ~due, intoMs + 1 # PerMs PROVE EspClockInv'
    OBVIOUS
<1> USE DEF EspClockInv, EspClockTypeOK, Count
<1> DEFINE rest == PerMs - (intoMs + 1)
<1>1. /\ rest \in 1..(Turn-1) /\ rest + 1 \in 0..(Turn-1) /\ rest + 1 = PerMs - intoMs
      /\ 1 + rest = PerMs - intoMs /\ 1 \in 0..(Turn-1) /\ rest + 1 # 1
    OBVIOUS
<1>2. alarm = Ticks(count + (PerMs - intoMs)) /\ count' = Ticks(count + 1) /\ alarm' = alarm
    BY DEF AlarmAhead
<1>3. count' # alarm
    <2>1. PerMs - intoMs # 1 /\ PerMs - intoMs \in 0..(Turn-1) /\ count \in 0..(Turn-1)
        OBVIOUS
    <2> QED BY <1>1, <1>2, <2>1, TicksDiffer, Zenon
<1>4. alarm = Ticks(count' + rest)
    <2>1. count \in 0..(Turn-1) /\ rest \in 0..(Turn-1) /\ 1 + rest < Turn
        BY <1>1
    <2>2. Ticks(Ticks(count + 1) + rest) = Ticks(count + (1 + rest))
        BY <1>1, <2>1, TicksAdd, Zenon
    <2> QED BY <1>1, <1>2, <2>2
<1>5. /\ due' = FALSE /\ intoMs' = intoMs + 1 /\ wholeMs' = wholeMs /\ milliseconds' = milliseconds
      /\ off' = off /\ held' \in 0..MaxBusy /\ (off' \/ held' = 0)
    <2>1. due' = FALSE
        BY <1>3, Zenon
    <2> QED BY <2>1
<1>6. count' \in 0..(Turn-1)
    <2>1. count \in 0..(Turn-1)
        OBVIOUS
    <2> QED BY <1>1, <1>2, <2>1, TicksOnce, Zenon
<1>7. EspClockTypeOK' /\ ClockKeepsTime'
    BY <1>2, <1>3, <1>5, <1>6 DEF ClockKeepsTime
<1> QED BY <1>2, <1>4, <1>5, <1>7 DEF AlarmAhead

\* The interrupt moves the alarm on from where it was, however late it comes.
LEMMA TickInv == EspClockInv /\ EspTick => EspClockInv'
<1> SUFFICES ASSUME EspClockInv, EspTick PROVE EspClockInv'
    OBVIOUS
<1> USE DEF EspClockInv, EspClockTypeOK, EspTick, Urgent
<1>1. /\ count = Ticks(alarm + intoMs) /\ intoMs <= MaxBusy
      /\ wholeMs = Millis(milliseconds + 1)
    BY DEF AlarmAhead, ClockKeepsTime
<1>2. /\ intoMs \in 0..(Turn-1) /\ PerMs - intoMs \in 0..(Turn-1) /\ PerMs \in 0..(Turn-1)
      /\ intoMs + (PerMs - intoMs) = PerMs
    OBVIOUS
<1>3. Ticks(count + (PerMs - intoMs)) = Ticks(alarm + PerMs) /\ alarm' = Ticks(alarm + PerMs)
    <2>1. alarm \in 0..(Turn-1) /\ intoMs + (PerMs - intoMs) < Turn
        OBVIOUS
    <2>2. Ticks(Ticks(alarm + intoMs) + (PerMs - intoMs)) = Ticks(alarm + (intoMs + (PerMs - intoMs)))
        BY <1>2, <2>1, TicksAdd, Zenon
    <2> QED BY <1>1, <1>2, <2>2
<1>4. alarm' \in 0..(Turn-1)
    <2>1. alarm \in 0..(Turn-1)
        OBVIOUS
    <2> QED BY <1>2, <1>3, <2>1, TicksOnce, Zenon
<1>5. EspClockTypeOK' /\ ClockKeepsTime'
    BY <1>1, <1>4, MillisRange DEF ClockKeepsTime
<1> QED BY <1>3, <1>5 DEF AlarmAhead

\* Every step keeps the clock invariant.
LEMMA StepInv == EspClockInv /\ [EspClockNext]_espClockVars => EspClockInv'
<1> SUFFICES ASSUME EspClockInv, [EspClockNext]_espClockVars PROVE EspClockInv'
    OBVIOUS
<1>1. CASE Count
    BY <1>1, CountPending, CountMeets, CountPasses
<1>2. CASE EspTick
    BY <1>2, TickInv
<1>3. CASE Hold
    BY <1>3 DEF Hold, EspClockInv, EspClockTypeOK, ClockKeepsTime, AlarmAhead
<1>4. CASE Release
    <2>1. EspClockTypeOK' /\ (off' \/ held' = 0)
        <3>1. 0 \in 0..MaxBusy
            OBVIOUS
        <3> QED BY <1>4, <3>1, Zenon DEF Release, EspClockInv, EspClockTypeOK
    <2>2. ClockKeepsTime'
        BY <1>4 DEF Release, EspClockInv, ClockKeepsTime
    <2>3. AlarmAhead'
        <3>1. /\ count' = count /\ alarm' = alarm /\ due' = due /\ intoMs' = intoMs
              /\ off' = FALSE
            BY <1>4, Zenon DEF Release
        <3>2. CASE due
            BY <3>1, <3>2, Zenon DEF EspClockInv, AlarmAhead
        <3>3. CASE ~due
            BY <3>1, <3>3, Zenon DEF EspClockInv, AlarmAhead
        <3> QED BY <3>2, <3>3
    <2> QED BY <2>1, <2>2, <2>3 DEF EspClockInv
<1>5. CASE UNCHANGED espClockVars
    BY <1>5 DEF espClockVars, EspClockInv, EspClockTypeOK, ClockKeepsTime, AlarmAhead
<1> QED BY <1>1, <1>2, <1>3, <1>4, <1>5 DEF EspClockNext

\* The clock invariant holds of every behaviour.
LEMMA SpecInv == EspClockSpec => []EspClockInv
BY InitInv, StepInv, PTL DEF EspClockSpec

\* Type correctness of the clock.
THEOREM EspClockTypeCorrect == EspClockSpec => []EspClockTypeOK
BY SpecInv, PTL DEF EspClockInv

\* `milliseconds` loses no millisecond and counts none twice, however long after the
\* alarm its interrupt is taken, as long as interrupts are never off for a millisecond:
\* the alarm that tick sets is always ahead of the counter it is compared with.
THEOREM EspClockKeepsTime == EspClockSpec => []ClockKeepsTime
BY SpecInv, PTL DEF EspClockInv

-----------------------------------------------------------------------------
(* The calls of EspTime are clients of the clock. *)

\* A step of a call is a step of the clock or leaves it alone.
LEMMA CallStepIsClockStep == [TimeNext]_timeVars => [EspClockNext]_espClockVars
BY DEF TimeNext, timeVars, EspClockNext, espClockVars, TimeCount, Change, Comes, Ends, DelayBegins,
       PulseBegins, Begins, CallPolls, DelayPolls, PulsePolls, Looks, GivesUp, Notes, Measures, Step, CallIsOver

\* delay and pulseIn use the clock only by reading it.
THEOREM CallsUseClock == TimeSpec => EspClockSpec
<1>1. TimeInit => EspClockInit
    BY DEF TimeInit
<1> QED BY <1>1, CallStepIsClockStep, PTL DEF TimeSpec, EspClockSpec

-----------------------------------------------------------------------------
(* DelayInTime. *)

\* The milliseconds of a time are computed in one way.
LEMMA MillisOnce ==
    \A a, d \in 0..(MsTurn-1) :
        /\ Millis(a + d) = IF a + d < MsTurn THEN a + d ELSE (a + d) - MsTurn
        /\ Millis(a + d) \in 0..(MsTurn-1)
        /\ Millis(Millis(a + d) - a) = d
BY DEF Millis

\* One millisecond more.
LEMMA MillisNext ==
    \A a, d \in 0..(MsTurn-1) :
        d + 1 < MsTurn => Millis(Millis(a + d) + 1) = Millis(a + (d + 1))
<1> SUFFICES ASSUME NEW a \in 0..(MsTurn-1), NEW d \in 0..(MsTurn-1), d + 1 < MsTurn
             PROVE  Millis(Millis(a + d) + 1) = Millis(a + (d + 1))
    OBVIOUS
<1>1. d + 1 \in 0..(MsTurn-1) /\ 1 \in 0..(MsTurn-1)
    OBVIOUS
<1>2. Millis(a + (d + 1)) = IF a + (d + 1) < MsTurn THEN a + (d + 1) ELSE (a + (d + 1)) - MsTurn
    BY <1>1, MillisOnce
<1>3. /\ Millis(a + d) = IF a + d < MsTurn THEN a + d ELSE (a + d) - MsTurn
      /\ Millis(a + d) \in 0..(MsTurn-1)
    BY MillisOnce
<1>4. Millis(Millis(a + d) + 1) =
          IF Millis(a + d) + 1 < MsTurn THEN Millis(a + d) + 1 ELSE (Millis(a + d) + 1) - MsTurn
    BY <1>1, <1>3, MillisOnce
<1> QED BY <1>2, <1>3, <1>4

\* Whole numbers of milliseconds, in ticks.
LEMMA Multiples ==
    ASSUME NEW m \in Nat, NEW n \in Nat
    PROVE  /\ m * PerMs \in Nat
           /\ (m + 1) * PerMs = (m * PerMs) + PerMs
           /\ (m - 1) * PerMs = (m * PerMs) - PerMs
           /\ m < n => (m * PerMs) + PerMs <= n * PerMs
           /\ m <= n => m * PerMs <= n * PerMs
<1>1. m * PerMs \in Nat /\ n * PerMs \in Nat
    OBVIOUS
<1>2. (m + 1) * PerMs = (m * PerMs) + PerMs /\ (m - 1) * PerMs = (m * PerMs) - PerMs
    OBVIOUS
<1>3. ASSUME m < n PROVE (m * PerMs) + PerMs <= n * PerMs
    <2>1. \A k \in Nat : k * PerMs \in Nat
        OBVIOUS
    <2>2. (n - m) - 1 \in Nat
        BY <1>3
    <2>3. ((n - m) - 1) * PerMs = ((n * PerMs) - (m * PerMs)) - PerMs
        OBVIOUS
    <2> QED BY <1>1, <2>1, <2>2, <2>3
<1>4. m <= n => m * PerMs <= n * PerMs
    BY <1>1, <1>3
<1> QED BY <1>1, <1>2, <1>3, <1>4

\* A call of `delay` starts with nothing passed.
LEMMA BeginsInv ==
    ASSUME EspDelayInv, EspClockInv, DelayBegins
    PROVE  EspDelayInv'
<1>1. PICK n \in MsAsked : Begins("delay", milliseconds, n)
    BY DEF DelayBegins
<1>2. /\ n \in 0..(MsTurn-1) /\ milliseconds \in 0..(MsTurn-1) /\ intoMs \in 0..(PerMs-1)
      /\ MaxLag \in Nat
    BY TimeAssumption DEF EspClockInv, EspClockTypeOK
<1>3. /\ callAt' = "delay" /\ from' = milliseconds /\ asked' = n /\ elapsed' = 0 /\ unpolled' = 0
      /\ wholeMs' = wholeMs /\ intoMs' = intoMs /\ wholeMs = milliseconds
    BY <1>1, Zenon DEF Begins, espClockVars, Runs, EspClockInv, ClockKeepsTime
<1>4. Passed(0)'
    <2>1. milliseconds + 0 = milliseconds /\ Millis(milliseconds) = milliseconds
        BY <1>2 DEF Millis
    <2>2. (0 - 1) * PerMs = 0 - PerMs /\ 0 * PerMs = 0
        OBVIOUS
    <2>3. n # 0 => PerMs <= n * PerMs
        <3>1. 0 < n => (0 * PerMs) + PerMs <= n * PerMs
            BY <1>2, Multiples
        <3> QED BY <1>2, <2>2, <3>1
    <2> QED BY <1>2, <1>3, <2>1, <2>2, <2>3 DEF Passed
<1>5. 0 <= (n * PerMs) + 0
    <2>1. n * PerMs \in Nat
        BY <1>2, Multiples
    <2> QED BY <2>1
<1>6. 0 \in 0..(MsTurn-1)
    OBVIOUS
<1> QED BY <1>2, <1>3, <1>4, <1>5, <1>6 DEF EspDelayInv, DelayInTime

\* A tick of the timer is one tick more since the call.
LEMMA CountInv ==
    ASSUME EspDelayInv, EspClockInv, EspClockInv', TimeCount
    PROVE  EspDelayInv'
<1>1. /\ callAt' = callAt /\ from' = from /\ asked' = asked /\ callAt \notin {"delayed", "measured"}
      /\ unpolled' = (IF InCall THEN unpolled + 1 ELSE 0) /\ (InCall => unpolled < MaxLag)
      /\ elapsed' = (IF InCall /\ elapsed < Longest THEN elapsed + 1 ELSE elapsed)
      /\ intoMs' = (IF intoMs + 1 = PerMs THEN 0 ELSE intoMs + 1)
      /\ wholeMs' = (IF intoMs + 1 = PerMs THEN Millis(wholeMs + 1) ELSE wholeMs)
    BY DEF TimeCount, Count, callVars, Answered
<1>2. /\ MaxLag \in Nat /\ MaxLag < PerMs /\ unpolled \in 0..MaxLag /\ elapsed \in Nat
      /\ intoMs \in 0..(PerMs-1) /\ wholeMs \in 0..(MsTurn-1)
    BY TimeAssumption DEF EspDelayInv, EspClockInv, EspClockTypeOK
<1>3. unpolled' \in 0..MaxLag /\ elapsed' \in Nat /\ DelayInTime'
    BY <1>1, <1>2 DEF DelayInTime
<1>4. CASE callAt # "delay"
    BY <1>1, <1>3, <1>4 DEF EspDelayInv
<1>5. CASE callAt = "delay"
    <2>1. InCall /\ Longest = (asked * PerMs) + MaxLag + 1
        BY <1>5 DEF InCall, Answered, Longest
    <2>2. PICK d \in 0..(MsTurn-1) : Passed(d)
        BY <1>5 DEF EspDelayInv
    <2>3. /\ asked \in 0..(MsTurn-1) /\ from \in 0..(MsTurn-1)
          /\ elapsed <= (asked * PerMs) + unpolled
        BY <1>5 DEF EspDelayInv
    <2>4. /\ asked * PerMs \in Nat /\ d * PerMs \in Nat
          /\ (d - 1) * PerMs = (d * PerMs) - PerMs
          /\ (d + 1) * PerMs = (d * PerMs) + PerMs
          /\ asked < d => (asked * PerMs) + PerMs <= d * PerMs
        BY <2>3, Multiples
    <2>5. unpolled' = unpolled + 1 /\ elapsed' = elapsed + 1 /\ elapsed' <= (asked * PerMs) + unpolled'
        BY <1>1, <1>2, <2>1, <2>3, <2>4
    <2>6. CASE intoMs + 1 # PerMs
        <3>1. intoMs' = intoMs + 1 /\ wholeMs' = wholeMs
            BY <1>1, <2>6
        <3>2. Passed(d)'
            BY <1>1, <1>2, <2>2, <2>4, <2>5, <3>1 DEF Passed
        <3> QED BY <1>1, <1>3, <2>3, <2>5, <3>2 DEF EspDelayInv
    <2>7. CASE intoMs + 1 = PerMs
        <3>1. intoMs' = 0 /\ wholeMs' = Millis(wholeMs + 1)
            BY <1>1, <2>7
        <3>2. d + 1 < MsTurn
            <4>1. (d * PerMs) + PerMs <= (IF asked = 0 THEN PerMs ELSE asked * PerMs) + unpolled
                BY <1>2, <2>2, <2>4, <2>7 DEF Passed
            <4>2. CASE asked = 0
                <5>1. 0 < d => (0 * PerMs) + PerMs <= d * PerMs
                    BY Multiples
                <5> QED BY <1>2, <2>4, <4>1, <4>2, <5>1
            <4>3. CASE asked # 0
                <5>1. asked <= d => asked * PerMs <= d * PerMs
                    BY <2>3, Multiples
                <5> QED BY <1>2, <2>3, <2>4, <4>1, <4>3, <5>1
            <4> QED BY <4>2, <4>3
        <3>3. wholeMs' = Millis(from + (d + 1))
            <4>1. wholeMs = Millis(from + d)
                BY <2>2 DEF Passed
            <4> QED BY <2>3, <3>1, <3>2, <4>1, MillisNext
        <3>4. ((d + 1) - 1) * PerMs = d * PerMs
            OBVIOUS
        <3>5. Passed(d + 1)'
            BY <1>1, <1>2, <2>2, <2>3, <2>4, <2>5, <2>7, <3>1, <3>3, <3>4 DEF Passed
        <3>6. d + 1 \in 0..(MsTurn-1)
            BY <3>2
        <3> QED BY <1>1, <1>3, <2>3, <2>5, <3>5, <3>6 DEF EspDelayInv
    <2> QED BY <2>6, <2>7
<1> QED BY <1>4, <1>5

\* A poll goes on while fewer milliseconds have passed than are asked for, and ends when
\* as many have.
LEMMA PollInv ==
    ASSUME EspDelayInv, EspClockInv, DelayPolls
    PROVE  EspDelayInv'
<1>1. /\ callAt = "delay" /\ unpolled' = 0 /\ asked' = asked /\ from' = from /\ elapsed' = elapsed
      /\ callAt' = (IF Millis(milliseconds - from) < asked THEN "delay" ELSE "delayed")
      /\ wholeMs' = wholeMs /\ intoMs' = intoMs /\ ~due
    BY DEF DelayPolls, Step, Runs, espClockVars
<1>2. /\ MaxLag \in Nat /\ unpolled \in 0..MaxLag /\ elapsed \in Nat /\ MaxLag < PerMs
      /\ intoMs \in 0..(PerMs-1) /\ wholeMs = milliseconds
    BY <1>1, TimeAssumption DEF EspDelayInv, EspClockInv, EspClockTypeOK, ClockKeepsTime
<1>3. PICK d \in 0..(MsTurn-1) : Passed(d)
    BY <1>1 DEF EspDelayInv
<1>4. /\ asked \in 0..(MsTurn-1) /\ from \in 0..(MsTurn-1)
      /\ elapsed <= (asked * PerMs) + unpolled
    BY <1>1 DEF EspDelayInv
<1>5. Millis(milliseconds - from) = d
    BY <1>2, <1>3, <1>4, MillisOnce DEF Passed
<1>6. /\ asked * PerMs \in Nat /\ d * PerMs \in Nat
      /\ (d - 1) * PerMs = (d * PerMs) - PerMs
      /\ (asked - 1) * PerMs = (asked * PerMs) - PerMs
      /\ d < asked => (d * PerMs) + PerMs <= asked * PerMs
      /\ asked <= d => asked * PerMs <= d * PerMs
    BY <1>4, Multiples
<1>7. CASE d < asked
    <2>1. callAt' = "delay" /\ asked # 0
        BY <1>1, <1>4, <1>5, <1>7
    <2>2. Passed(d)'
        BY <1>1, <1>2, <1>3, <1>6, <1>7, <2>1 DEF Passed
    <2>3. elapsed' <= (asked' * PerMs) + unpolled'
        BY <1>1, <1>2, <1>3, <1>6, <1>7 DEF Passed
    <2> QED BY <1>1, <1>2, <1>4, <2>1, <2>2, <2>3 DEF EspDelayInv, DelayInTime
<1>8. CASE ~(d < asked)
    <2>1. callAt' = "delayed"
        BY <1>1, <1>5, <1>8
    <2>2. elapsed > (asked - 1) * PerMs
        BY <1>2, <1>3, <1>4, <1>6, <1>8 DEF Passed
    <2>3. elapsed <= (asked * PerMs) + MaxLag
        BY <1>2, <1>4, <1>6
    <2> QED BY <1>1, <1>2, <2>1, <2>2, <2>3 DEF EspDelayInv, DelayInTime
<1> QED BY <1>7, <1>8

\* The rest of TimeNext leaves a delay as it is.
LEMMA OthersInv ==
    ASSUME EspDelayInv, EspClockInv,
           Change \/ Comes \/ Ends \/ PulseBegins \/ PulsePolls \/ CallIsOver \/ UNCHANGED timeVars
    PROVE  EspDelayInv'
<1>1. 0 \in 0..MaxLag
    BY TimeAssumption
<1>2. CASE Change
    BY <1>2 DEF Change, InPulse, callVars, espClockVars, EspDelayInv, DelayInTime, Passed
<1>3. CASE Comes
    BY <1>3 DEF Comes, Hold, callVars, history, EspDelayInv, DelayInTime, Passed
<1>4. CASE Ends
    BY <1>4 DEF Ends, EspTick, Release, callVars, history, EspDelayInv, DelayInTime, Passed
<1>5. CASE PulseBegins
    BY <1>1, <1>5 DEF PulseBegins, Begins, EspDelayInv, DelayInTime
<1>6. CASE PulsePolls
    BY <1>1, <1>6 DEF PulsePolls, Looks, GivesUp, Notes, Measures, Step, EspDelayInv, DelayInTime
<1>7. CASE CallIsOver
    BY <1>1, <1>7 DEF CallIsOver, EspDelayInv, DelayInTime
<1>8. CASE UNCHANGED timeVars
    BY <1>8 DEF timeVars, espClockVars, callVars, history, EspDelayInv, DelayInTime, Passed
<1> QED BY <1>2, <1>3, <1>4, <1>5, <1>6, <1>7, <1>8

\* A delay of n milliseconds lasts more than n - 1 of them and no longer than n and the
\* time between two polls, however the tick and other routines come between its reads,
\* for every n the millisecond count can express.
THEOREM DelaysInTime == TimeSpec => []DelayInTime
<1>1. TimeInit => EspDelayInv
    BY TimeAssumption DEF TimeInit, CallsBegin, EspDelayInv, DelayInTime
<1>2. EspDelayInv /\ EspClockInv /\ EspClockInv' /\ [TimeNext]_timeVars => EspDelayInv'
    BY BeginsInv, CountInv, PollInv, OthersInv DEF TimeNext, CallPolls
<1>3. TimeSpec => []EspClockInv
    BY CallsUseClock, SpecInv, PTL
<1>4. EspDelayInv => DelayInTime
    BY DEF EspDelayInv
<1> QED BY <1>1, <1>2, <1>3, <1>4, PTL DEF TimeSpec

-----------------------------------------------------------------------------
(* PulseMeasured. *)

\* microseconds and the ticks of one
LEMMA Micro ==
    ASSUME NEW n \in Nat
    PROVE  /\ (n \div PerUs) \in Nat
           /\ (n \div PerUs) * PerUs <= n
           /\ n < ((n \div PerUs) * PerUs) + PerUs
           /\ (n \div PerUs) <= n
<1>1. PerUs \in Nat /\ PerUs > 0
    BY TimeAssumption
<1> DEFINE q == n \div PerUs  r == n % PerUs
<1>2. q \in Int /\ r \in 0..(PerUs-1) /\ n = (PerUs * q) + r
    BY <1>1
<1> HIDE DEF q, r
<1>3. q >= 0
    <2>1. SUFFICES ASSUME q <= -1 PROVE FALSE
        BY <1>2
    <2>2. PerUs * q <= PerUs * (-1)
        <3>1. (-1) - q \in Nat /\ PerUs * ((-1) - q) \in Nat
            BY <1>1, <1>2, <2>1
        <3> QED BY <1>1, <1>2, <3>1
    <2> QED BY <1>1, <1>2, <2>2
<1>4. q <= PerUs * q /\ PerUs * q = q * PerUs
    <2>1. (PerUs - 1) * q \in Nat
        BY <1>1, <1>2, <1>3
    <2> QED BY <1>1, <1>2, <2>1
<1> QED BY <1>1, <1>2, <1>3, <1>4 DEF q

\* products of microseconds
LEMMA Products ==
    ASSUME NEW a \in Int, NEW b \in Int
    PROVE  /\ a * PerUs \in Int
           /\ (a + b) * PerUs = (a * PerUs) + (b * PerUs)
           /\ (a - b) * PerUs = (a * PerUs) - (b * PerUs)
           /\ (a - 1) * PerUs = (a * PerUs) - PerUs
           /\ a <= b => a * PerUs <= b * PerUs
           /\ a < b => (a * PerUs) + PerUs <= b * PerUs
<1>1. PerUs \in Nat /\ PerUs > 0
    BY TimeAssumption
<1>2. /\ a * PerUs \in Int /\ b * PerUs \in Int
      /\ (a + b) * PerUs = (a * PerUs) + (b * PerUs)
      /\ (a - b) * PerUs = (a * PerUs) - (b * PerUs)
      /\ (a - 1) * PerUs = (a * PerUs) - PerUs
    BY <1>1
<1>3. \A k \in Nat : k * PerUs \in Nat
    BY <1>1
<1>4. ASSUME a <= b PROVE a * PerUs <= b * PerUs
    <2>1. b - a \in Nat /\ (b - a) * PerUs = (b * PerUs) - (a * PerUs)
        BY <1>1, <1>4
    <2>2. (b - a) * PerUs \in Nat
        BY <1>3, <2>1
    <2> QED BY <1>2, <2>1, <2>2
<1>5. ASSUME a < b PROVE (a * PerUs) + PerUs <= b * PerUs
    <2>1. (b - a) - 1 \in Nat /\ ((b - a) - 1) * PerUs = ((b * PerUs) - (a * PerUs)) - PerUs
        BY <1>1, <1>5
    <2>2. ((b - a) - 1) * PerUs \in Nat
        BY <1>3, <2>1
    <2> QED BY <1>1, <1>2, <2>1, <2>2
<1> QED BY <1>2, <1>4, <1>5

\* The difference of two times the counter has passed through in this order.
LEMMA SinceIs ==
    ASSUME NEW us \in Nat, EspClockTypeOK, us * PerUs <= count
    PROVE  /\ us <= Micros /\ Micros \in Nat
           /\ Since(us) = Micros - us
           /\ Micros * PerUs <= count
           /\ count < (Micros * PerUs) + PerUs
<1>1. count \in Nat /\ count < Turn /\ Turn \in Nat
    BY EspAssumption DEF EspClockTypeOK
<1>2. /\ Micros \in Nat /\ Micros <= count
      /\ Micros * PerUs <= count /\ count < (Micros * PerUs) + PerUs
    BY <1>1, Micro DEF Micros
<1>3. us <= Micros
    <2>1. PerUs \in Nat /\ us * PerUs \in Int /\ Micros * PerUs \in Int
        BY <1>2, TimeAssumption, Products
    <2>2. Micros < us => (Micros * PerUs) + PerUs <= us * PerUs
        BY <1>2, Products
    <2> QED BY <1>1, <1>2, <2>1, <2>2
<1>4. Micros - us \in 0..(Turn-1)
    BY <1>1, <1>2, <1>3
<1> QED BY <1>1, <1>2, <1>3, <1>4 DEF Since, Ticks

\* what the constants are
LEMMA PulseConstants ==
    /\ PerUs \in Nat /\ PerUs > 0 /\ MaxLag \in Nat /\ MinLevel \in Nat /\ MaxLag < Turn
    /\ 3 * MaxLag < MinLevel /\ Turn \in Nat /\ Slack = 3 * MaxLag /\ 2 * PerMs < Turn /\ PerMs \in Nat
BY TimeAssumption, EspAssumption DEF Slack

\* A tick of the timer lengthens what is measured and the pulse alike.
LEMMA PulseCount ==
    ASSUME PulseInv, EspClockInv, TimeCount
    PROVE  PulseInv'
<1>1. /\ callAt' = callAt /\ from' = from /\ asked' = asked /\ began' = began /\ level' = level
      /\ callAt # "measured" /\ callAt # "delayed" /\ (InCall => unpolled < MaxLag)
      /\ unpolled' = (IF InCall THEN unpolled + 1 ELSE 0)
      /\ elapsed' = (IF InCall /\ elapsed < Longest THEN elapsed + 1 ELSE elapsed)
      /\ turned' \in BOOLEAN /\ (~turned' => ~turned /\ (InCall => count' # 0))
      /\ steady' = (IF InPulse /\ steady < MinLevel THEN steady + 1 ELSE steady)
      /\ width' = (IF InPulse /\ level /\ width < Turn /\ callAt \notin {"let", "letLate"}
                   THEN width + 1 ELSE width)
      /\ count' = Ticks(count + 1)
    BY Zenon DEF TimeCount, Count, callVars, Answered
<1>2. /\ steady \in 0..MinLevel /\ width \in 0..Turn /\ level \in BOOLEAN /\ unpolled \in 0..MaxLag
      /\ from \in Nat /\ asked \in Nat /\ began \in Nat /\ elapsed \in Nat /\ turned \in BOOLEAN
      /\ count \in 0..(Turn-1)
    BY DEF PulseInv, PulseTypeOK, EspClockInv, EspClockTypeOK
<1>3. PulseTypeOK' /\ PulseMeasured'
    <2>1. level' \in BOOLEAN /\ turned' \in BOOLEAN
        BY <1>1, <1>2, Zenon
    <2>2. elapsed' \in Nat
        BY <1>1, <1>2
    <2>3. steady' \in 0..MinLevel /\ width' \in 0..Turn
        BY <1>1, <1>2, PulseConstants
    <2>4. unpolled' \in 0..MaxLag
        BY <1>1, <1>2, PulseConstants
    <2> QED BY <1>1, <1>2, <2>1, <2>2, <2>3, <2>4 DEF PulseTypeOK, PulseMeasured
<1>4. CASE ~(InPulse /\ ~turned)
    BY <1>1, <1>3, <1>4 DEF PulseInv, InPulse, InCall, Answered
<1>5. CASE turned'
    BY <1>3, <1>5 DEF PulseInv
<1>6. CASE InPulse /\ ~turned /\ ~turned'
    <2>1. /\ InCall /\ unpolled' = unpolled + 1 /\ unpolled < MaxLag /\ count' # 0
          /\ Longest = asked * PerUs
        BY <1>1, <1>6 DEF InPulse, Longest
    <2>2. count' = count + 1
        BY <1>1, <1>2, <2>1, PulseConstants DEF Ticks
    <2>3. from * PerUs \in Int /\ asked * PerUs \in Int /\ began * PerUs \in Int
        BY <1>2, PulseConstants
    <2>4. Asked'
        <3>1. Asked
            BY <1>6 DEF PulseInv, Reads
        <3> QED BY <1>1, <1>2, <2>1, <2>2, <2>3, <3>1, PulseConstants DEF Asked
    <2>5. \A n \in Nat : RisesSince(n) /\ n < 3 * MaxLag /\ callAt \notin {"let", "letLate"} =>
              (level => width' = steady' /\ width' <= n + 1 /\ width' <= count')
        BY <1>1, <1>2, <1>6, <2>2, PulseConstants DEF RisesSince
    <2>6. \A n \in Nat : FallsSince(n) /\ n < 3 * MaxLag /\ callAt \notin {"let", "letLate"} =>
              IF level' THEN width' <= count' /\ count' - width' = count - width
                       ELSE steady' <= n + 1 /\ (count' - steady') - width' = (count - steady) - width
        BY <1>1, <1>2, <1>6, <2>2, PulseConstants DEF FallsSince
    <2>7. \A rise \in Int : TimedFrom(rise) =>
              /\ began' * PerUs <= count' /\ (began' * PerUs) - Slack <= rise
              /\ rise < (began' * PerUs) + PerUs
        BY <1>1, <1>2, <2>2, <2>3, PulseConstants DEF TimedFrom
    <2>8. CASE callAt = "nextLate"
        <3>1. RisesSince(unpolled)
            BY <1>6, <2>8 DEF PulseInv, Reads
        <3>2. RisesSince(unpolled)'
            BY <1>1, <1>2, <2>1, <2>5, <2>8, <3>1, PulseConstants DEF RisesSince
        <3> QED BY <1>1, <1>3, <2>4, <2>8, <3>2 DEF PulseInv, Reads
    <2>9. CASE callAt = "next"
        <3>1. RisesSince(MaxLag + unpolled)
            BY <1>6, <2>9 DEF PulseInv, Reads
        <3>2. RisesSince(MaxLag + unpolled)'
            BY <1>1, <1>2, <2>1, <2>5, <2>9, <3>1, PulseConstants DEF RisesSince
        <3> QED BY <1>1, <1>3, <2>4, <2>9, <3>2 DEF PulseInv, Reads
    <2>10. CASE callAt = "note"
        <3>1. level /\ RisesSince((2 * MaxLag) + unpolled)
            BY <1>6, <2>10 DEF PulseInv, Reads
        <3>2. RisesSince((2 * MaxLag) + unpolled)'
            BY <1>1, <1>2, <2>1, <2>5, <2>10, <3>1, PulseConstants DEF RisesSince
        <3> QED BY <1>1, <1>3, <2>4, <2>10, <3>1, <3>2 DEF PulseInv, Reads
    <2>11. CASE callAt = "timeLate"
        <3>1. FallsSince(unpolled)
            BY <1>6, <2>11 DEF PulseInv, Reads
        <3>2. FallsSince(unpolled)'
            BY <1>1, <1>2, <2>1, <2>6, <2>7, <2>11, <3>1, PulseConstants DEF FallsSince, TimedFrom
        <3> QED BY <1>1, <1>3, <2>4, <2>11, <3>2 DEF PulseInv, Reads
    <2>12. CASE callAt = "time"
        <3>1. FallsSince(MaxLag + unpolled)
            BY <1>6, <2>12 DEF PulseInv, Reads
        <3>2. FallsSince(MaxLag + unpolled)'
            BY <1>1, <1>2, <2>1, <2>6, <2>7, <2>12, <3>1, PulseConstants DEF FallsSince, TimedFrom
        <3> QED BY <1>1, <1>3, <2>4, <2>12, <3>2 DEF PulseInv, Reads
    <2>13. CASE callAt = "ended"
        <3>1. ~level /\ FallsSince((2 * MaxLag) + unpolled)
            BY <1>6, <2>13 DEF PulseInv, Reads
        <3>2. FallsSince((2 * MaxLag) + unpolled)'
            BY <1>1, <1>2, <2>1, <2>6, <2>7, <2>13, <3>1, PulseConstants DEF FallsSince, TimedFrom
        <3> QED BY <1>1, <1>3, <2>4, <2>13, <3>1, <3>2 DEF PulseInv, Reads
    <2>14. CASE callAt \notin {"nextLate", "next", "note", "timeLate", "time", "ended"}
        BY <1>1, <1>3, <2>4, <2>14 DEF PulseInv, Reads
    <2> QED BY <2>8, <2>9, <2>10, <2>11, <2>12, <2>13, <2>14
<1> QED BY <1>4, <1>5, <1>6

\* A level is kept for longer than it takes to read the pin again: the pin changes
\* neither between the two reads that see a pulse come and its note, nor after the read
\* that sees it gone.
LEMMA PulseChange ==
    ASSUME PulseInv, EspClockInv, Change
    PROVE  PulseInv'
<1>1. /\ callAt' = callAt /\ from' = from /\ asked' = asked /\ began' = began /\ result' = result
      /\ InPulse /\ steady = MinLevel /\ (level' <=> ~level) /\ level' \in BOOLEAN /\ steady' = 0
      /\ width' = (IF level THEN width ELSE 0)
      /\ count' = count /\ elapsed' = elapsed /\ unpolled' = unpolled /\ turned' = turned
    BY Zenon DEF Change, callVars, espClockVars
<1>2. /\ width \in 0..Turn /\ level \in BOOLEAN /\ unpolled \in 0..MaxLag /\ count \in 0..(Turn-1)
      /\ from \in Nat /\ asked \in Nat /\ began \in Nat /\ elapsed \in Nat /\ turned \in BOOLEAN
    BY DEF PulseInv, PulseTypeOK, EspClockInv, EspClockTypeOK
<1>3. PulseTypeOK' /\ PulseMeasured'
    <2>1. level' \in BOOLEAN /\ turned' \in BOOLEAN
        BY <1>1, <1>2, Zenon
    <2>2. PulseMeasured'
        BY <1>1 DEF PulseMeasured, InPulse, InCall, Answered
    <2> QED BY <1>1, <1>2, <2>1, <2>2, PulseConstants DEF PulseTypeOK
<1>4. CASE turned
    BY <1>1, <1>3, <1>4 DEF PulseInv
<1>5. CASE ~turned
    <2>1. Asked'
        <3>1. Asked
            BY <1>1, <1>5 DEF PulseInv, Reads
        <3> QED BY <1>1, <3>1 DEF Asked
    <2>2. \A n \in Nat : (RisesSince(n) => (level' => width' = steady' /\ width' <= n /\ width' <= count'))
        BY <1>1, <1>2
    <2>3. ~(callAt = "note" /\ level /\ RisesSince((2 * MaxLag) + unpolled))
        BY <1>1, <1>2, PulseConstants DEF RisesSince
    <2>4. \A n \in Nat : n <= 3 * MaxLag /\ FallsSince(n) =>
              /\ level /\ ~level'
              /\ began' * PerUs <= count'
              /\ (began' * PerUs) - Slack <= (count' - steady') - width'
              /\ (count' - steady') - width' < (began' * PerUs) + PerUs
        BY <1>1, <1>2, PulseConstants DEF FallsSince, TimedFrom
    <2>5. CASE callAt \in {"nextLate", "next", "note"}
        BY <1>1, <1>2, <1>3, <1>5, <2>1, <2>2, <2>3, <2>5, PulseConstants DEF PulseInv, Reads, RisesSince
    <2>6. CASE callAt = "timeLate"
        <3>1. FallsSince(unpolled)
            BY <1>1, <1>5, <2>6 DEF PulseInv, Reads
        <3>2. FallsSince(unpolled)'
            BY <1>1, <1>2, <2>4, <3>1, PulseConstants DEF FallsSince, TimedFrom
        <3> QED BY <1>1, <1>3, <2>1, <2>6, <3>2 DEF PulseInv, Reads
    <2>7. CASE callAt = "time"
        <3>1. FallsSince(MaxLag + unpolled)
            BY <1>1, <1>5, <2>7 DEF PulseInv, Reads
        <3>2. FallsSince(MaxLag + unpolled)'
            BY <1>1, <1>2, <2>4, <3>1, PulseConstants DEF FallsSince, TimedFrom
        <3> QED BY <1>1, <1>3, <2>1, <2>7, <3>2 DEF PulseInv, Reads
    <2>8. callAt # "ended"
        <3>1. callAt = "ended" => ~level /\ FallsSince((2 * MaxLag) + unpolled)
            BY <1>1, <1>5 DEF PulseInv, Reads
        <3> QED BY <1>2, <2>4, <3>1, PulseConstants
    <2>9. CASE callAt \notin {"nextLate", "next", "note", "timeLate", "time", "ended"}
        BY <1>1, <1>3, <2>1, <2>9 DEF PulseInv, Reads
    <2> QED BY <2>5, <2>6, <2>7, <2>8, <2>9
<1> QED BY <1>4, <1>5

\* What pulseIn reads before it has anything to measure.
LEMMA PulseLooks ==
    ASSUME PulseInv, EspClockInv,
           \/ Looks("let", "letLate", "next")
           \/ Looks("next", "note", "nextLate")
           \/ Looks("time", "timeLate", "ended")
    PROVE  PulseInv'
<1>1. /\ from' = from /\ asked' = asked /\ began' = began /\ result' = result
      /\ level' = level /\ steady' = steady /\ width' = width
      /\ count' = count /\ elapsed' = elapsed /\ unpolled' = 0 /\ turned' = turned
      /\ callAt \in {"let", "next", "time"}
    BY Zenon DEF Looks, Step, pinVars, espClockVars
<1>2. /\ steady \in 0..MinLevel /\ width \in 0..Turn /\ level \in BOOLEAN /\ unpolled \in 0..MaxLag
      /\ from \in Nat /\ asked \in Nat /\ began \in Nat /\ elapsed \in Nat /\ turned \in BOOLEAN
      /\ count \in 0..(Turn-1)
    BY DEF PulseInv, PulseTypeOK, EspClockInv, EspClockTypeOK
<1>3. \/ callAt = "let" /\ callAt' = (IF level THEN "letLate" ELSE "next")
      \/ callAt = "next" /\ callAt' = (IF level THEN "note" ELSE "nextLate")
      \/ callAt = "time" /\ callAt' = (IF level THEN "timeLate" ELSE "ended")
    BY Zenon DEF Looks, Step
<1>4. PulseTypeOK' /\ PulseMeasured'
    <2>1. level' \in BOOLEAN /\ turned' \in BOOLEAN
        BY <1>1, <1>2, Zenon
    <2>2. PulseMeasured'
        BY <1>3 DEF PulseMeasured
    <2> QED BY <1>1, <1>2, <2>1, <2>2, PulseConstants DEF PulseTypeOK
<1>5. CASE turned
    BY <1>1, <1>4, <1>5 DEF PulseInv
<1>6. CASE ~turned
    <2>1. Reads
        BY <1>1, <1>6 DEF PulseInv, InPulse, InCall, Answered
    <2>2. Asked'
        BY <1>1, <2>1 DEF Reads, Asked
    <2>3. CASE callAt = "let"
        BY <1>1, <1>2, <1>3, <1>4, <2>2, <2>3 DEF PulseInv, Reads, RisesSince
    <2>4. CASE callAt = "next"
        <3>1. RisesSince(MaxLag + unpolled)
            BY <2>1, <2>4 DEF Reads
        <3>2. level => RisesSince((2 * MaxLag) + unpolled)'
            BY <1>1, <1>2, <3>1, PulseConstants DEF RisesSince
        <3>3. ~level => RisesSince(unpolled)'
            BY <1>1, <1>2 DEF RisesSince
        <3> QED BY <1>1, <1>2, <1>3, <1>4, <2>2, <2>4, <3>2, <3>3 DEF PulseInv, Reads
    <2>5. CASE callAt = "time"
        <3>1. FallsSince(MaxLag + unpolled)
            BY <2>1, <2>5 DEF Reads
        <3>2. level => FallsSince(unpolled)'
            BY <1>1, <1>2, <3>1, PulseConstants DEF FallsSince, TimedFrom
        <3>3. ~level => FallsSince((2 * MaxLag) + unpolled)'
            BY <1>1, <1>2, <3>1, PulseConstants DEF FallsSince, TimedFrom
        <3> QED BY <1>1, <1>2, <1>3, <1>4, <2>2, <2>5, <3>2, <3>3 DEF PulseInv, Reads
    <2> QED BY <1>1, <2>3, <2>4, <2>5
<1> QED BY <1>5, <1>6

\* After its timeout pulseIn gives 0, and not before.
LEMMA PulseGivesUp ==
    ASSUME PulseInv, EspClockInv,
           GivesUp("letLate", "let") \/ GivesUp("nextLate", "next") \/ GivesUp("timeLate", "time")
    PROVE  PulseInv'
<1>1. /\ from' = from /\ asked' = asked /\ began' = began /\ result' = 0
      /\ level' = level /\ steady' = steady /\ width' = width
      /\ count' = count /\ elapsed' = elapsed /\ unpolled' = 0 /\ turned' = turned
      /\ callAt \in {"letLate", "nextLate", "timeLate"}
    BY Zenon DEF GivesUp, Step, pinVars, espClockVars
<1>2. /\ steady \in 0..MinLevel /\ width \in 0..Turn /\ level \in BOOLEAN /\ unpolled \in 0..MaxLag
      /\ from \in Nat /\ asked \in Nat /\ began \in Nat /\ elapsed \in Nat /\ turned \in BOOLEAN
      /\ count \in 0..(Turn-1)
    BY DEF PulseInv, PulseTypeOK, EspClockInv, EspClockTypeOK
<1>3. \/ Since(from) >= asked /\ callAt' = "measured"
      \/ ~(Since(from) >= asked) /\ callAt = "letLate" /\ callAt' = "let"
      \/ ~(Since(from) >= asked) /\ callAt = "nextLate" /\ callAt' = "next"
      \/ ~(Since(from) >= asked) /\ callAt = "timeLate" /\ callAt' = "time"
    BY Zenon DEF GivesUp, Step
<1>4. PulseTypeOK'
    <2>1. level' \in BOOLEAN /\ turned' \in BOOLEAN
        BY <1>1, <1>2, Zenon
    <2> QED BY <1>1, <1>2, <2>1, PulseConstants DEF PulseTypeOK
<1>5. CASE turned
    BY <1>1, <1>4, <1>5 DEF PulseInv, PulseMeasured
<1>6. CASE ~turned
    <2>1. Reads
        BY <1>1, <1>6 DEF PulseInv, InPulse, InCall, Answered
    <2>2. Asked'
        BY <1>1, <2>1 DEF Reads, Asked
    <2>3. CASE Since(from) >= asked
        <3>1. /\ from <= Micros /\ Micros \in Nat /\ Since(from) = Micros - from
              /\ Micros * PerUs <= count
            BY <1>2, <2>1, SinceIs DEF Reads, Asked, EspClockInv
        <3>2. from + asked <= Micros
            BY <1>2, <2>3, <3>1
        <3>3. /\ (from + asked) * PerUs = (from * PerUs) + (asked * PerUs)
              /\ (asked - 1) * PerUs = (asked * PerUs) - PerUs
              /\ (from + asked) * PerUs <= Micros * PerUs
            <4>1. /\ (from + asked) * PerUs = (from * PerUs) + (asked * PerUs)
                  /\ (asked - 1) * PerUs = (asked * PerUs) - PerUs
                <5>1. from \in Int /\ asked \in Int
                    BY <1>2
                <5> QED BY <5>1, PulseConstants
            <4>2. from + asked \in Int /\ Micros \in Int
                BY <1>2, <3>1
            <4>3. (from + asked) * PerUs <= Micros * PerUs
                BY <3>2, <4>2, Products
            <4> QED BY <4>1, <4>3
        <3>4. from * PerUs \in Nat /\ asked * PerUs \in Nat /\ Micros * PerUs \in Nat
            BY <1>2, <3>1, PulseConstants
        <3>5. elapsed > (asked - 1) * PerUs
            BY <1>2, <2>1, <3>1, <3>3, <3>4, PulseConstants DEF Reads, Asked
        <3>6. callAt' = "measured"
            BY <1>3, <2>3
        <3> QED BY <1>1, <1>4, <3>5, <3>6 DEF PulseInv, PulseMeasured, InPulse, InCall, Answered
    <2>4. CASE ~(Since(from) >= asked) /\ callAt = "letLate"
        BY <1>3, <1>4, <2>2, <2>4 DEF PulseInv, PulseMeasured, Reads
    <2>5. CASE ~(Since(from) >= asked) /\ callAt = "nextLate"
        <3>1. RisesSince(unpolled)
            BY <2>1, <2>5 DEF Reads
        <3>2. RisesSince(MaxLag + unpolled)'
            BY <1>1, <1>2, <3>1, PulseConstants DEF RisesSince
        <3> QED BY <1>3, <1>4, <2>2, <2>5, <3>2 DEF PulseInv, PulseMeasured, Reads
    <2>6. CASE ~(Since(from) >= asked) /\ callAt = "timeLate"
        <3>1. FallsSince(unpolled)
            BY <2>1, <2>6 DEF Reads
        <3>2. FallsSince(MaxLag + unpolled)'
            BY <1>1, <1>2, <3>1, PulseConstants DEF FallsSince, TimedFrom
        <3> QED BY <1>3, <1>4, <2>2, <2>6, <3>2 DEF PulseInv, PulseMeasured, Reads
    <2> QED BY <1>1, <2>3, <2>4, <2>5, <2>6
<1> QED BY <1>5, <1>6

\* A pulse is noted at most Slack after its rise.
LEMMA PulseNotes ==
    ASSUME PulseInv, EspClockInv, Notes
    PROVE  PulseInv'
<1>1. /\ callAt = "note" /\ callAt' = "time" /\ began' = Micros
      /\ from' = from /\ asked' = asked /\ result' = result
      /\ level' = level /\ steady' = steady /\ width' = width
      /\ count' = count /\ elapsed' = elapsed /\ unpolled' = 0 /\ turned' = turned
    BY Zenon DEF Notes, Step, pinVars, espClockVars
<1>2. /\ steady \in 0..MinLevel /\ width \in 0..Turn /\ level \in BOOLEAN /\ unpolled \in 0..MaxLag
      /\ from \in Nat /\ asked \in Nat /\ elapsed \in Nat /\ turned \in BOOLEAN
      /\ count \in 0..(Turn-1) /\ count \in Nat
    BY PulseConstants DEF PulseInv, PulseTypeOK, EspClockInv, EspClockTypeOK
<1>3. /\ Micros \in Nat /\ Micros * PerUs <= count /\ count < (Micros * PerUs) + PerUs
      /\ Micros * PerUs \in Nat
    BY <1>2, Micro, PulseConstants DEF Micros
<1>4. PulseTypeOK' /\ PulseMeasured'
    <2>1. level' \in BOOLEAN /\ turned' \in BOOLEAN
        BY <1>1, <1>2, Zenon
    <2> QED BY <1>1, <1>2, <1>3, <2>1, PulseConstants DEF PulseTypeOK, PulseMeasured
<1>5. CASE turned
    BY <1>1, <1>4, <1>5 DEF PulseInv
<1>6. CASE ~turned
    <2>1. Reads
        BY <1>1, <1>6 DEF PulseInv, InPulse, InCall, Answered
    <2>2. Asked'
        BY <1>1, <2>1 DEF Reads, Asked
    <2>3. level /\ RisesSince((2 * MaxLag) + unpolled)
        BY <1>1, <2>1 DEF Reads
    <2>4. TimedFrom(count - width)'
        BY <1>1, <1>2, <1>3, <2>3, PulseConstants DEF TimedFrom, RisesSince
    <2>5. FallsSince(MaxLag + unpolled)'
        BY <1>1, <1>2, <2>3, <2>4 DEF FallsSince, RisesSince
    <2> QED BY <1>1, <1>4, <2>2, <2>5 DEF PulseInv, Reads
<1> QED BY <1>5, <1>6

\* A measured pulse is as long as it was, to a microsecond and Slack.
LEMMA PulseMeasures ==
    ASSUME PulseInv, EspClockInv, Measures
    PROVE  PulseInv'
<1>1. /\ callAt = "ended" /\ callAt' = "measured" /\ result' = Since(began)
      /\ from' = from /\ asked' = asked /\ began' = began
      /\ level' = level /\ steady' = steady /\ width' = width
      /\ count' = count /\ elapsed' = elapsed /\ unpolled' = 0 /\ turned' = turned
    BY Zenon DEF Measures, Step, pinVars, espClockVars
<1>2. /\ steady \in 0..MinLevel /\ width \in 0..Turn /\ level \in BOOLEAN /\ unpolled \in 0..MaxLag
      /\ from \in Nat /\ asked \in Nat /\ began \in Nat /\ elapsed \in Nat /\ turned \in BOOLEAN
      /\ count \in 0..(Turn-1)
    BY DEF PulseInv, PulseTypeOK, EspClockInv, EspClockTypeOK
<1>3. PulseTypeOK'
    <2>1. level' \in BOOLEAN /\ turned' \in BOOLEAN
        BY <1>1, <1>2, Zenon
    <2> QED BY <1>1, <1>2, <2>1, PulseConstants DEF PulseTypeOK
<1>4. CASE turned
    BY <1>1, <1>3, <1>4 DEF PulseInv, PulseMeasured
<1>5. CASE ~turned
    <2>1. ~level /\ FallsSince((2 * MaxLag) + unpolled)
        BY <1>1, <1>5 DEF PulseInv, Reads, InPulse, InCall, Answered
    <2>2. steady <= (2 * MaxLag) + unpolled /\ TimedFrom((count - steady) - width)
        BY <2>1 DEF FallsSince
    <2>3. /\ Micros \in Nat /\ Since(began) = Micros - began
          /\ Micros * PerUs <= count /\ count < (Micros * PerUs) + PerUs
        BY <1>2, <2>2, SinceIs DEF TimedFrom, EspClockInv
    <2>4. /\ (Micros - began) * PerUs = (Micros * PerUs) - (began * PerUs)
          /\ Micros * PerUs \in Int /\ began * PerUs \in Int
        BY <1>2, <2>3, Products, PulseConstants
    <2>5. /\ result' * PerUs < width' + PerUs + Slack
          /\ width' < (result' * PerUs) + PerUs + Slack
        <3>1. result' * PerUs = (Micros * PerUs) - (began * PerUs)
            BY <1>1, <2>3, <2>4
        <3> QED BY <1>1, <1>2, <2>2, <2>3, <2>4, <3>1, PulseConstants DEF TimedFrom
    <2> QED BY <1>1, <1>3, <2>5 DEF PulseInv, PulseMeasured, InPulse, InCall, Answered
<1> QED BY <1>4, <1>5

\* A call of pulseIn begins with nothing elapsed.
LEMMA PulseBeginsInv ==
    ASSUME PulseInv, EspClockInv, PulseBegins
    PROVE  PulseInv'
<1>1. PICK n \in Timeouts : Begins("let", Micros, n)
    BY DEF PulseBegins
<1>2. /\ callAt' = "let" /\ from' = Micros /\ asked' = n /\ elapsed' = 0 /\ unpolled' = 0
      /\ turned' = FALSE /\ level' \in BOOLEAN /\ steady' = MinLevel
      /\ width' = (IF level' THEN Turn ELSE 0) /\ count' = count /\ began' = began
    BY <1>1, Zenon DEF Begins, espClockVars
<1>3. n \in Nat /\ count \in Nat /\ began \in Nat
    BY TimeAssumption, EspAssumption DEF PulseInv, PulseTypeOK, EspClockInv, EspClockTypeOK
<1>4. Micros \in Nat /\ Micros * PerUs <= count /\ count < (Micros * PerUs) + PerUs
    BY <1>3, Micro DEF Micros
<1>5. PulseTypeOK' /\ PulseMeasured'
    <2>1. level' \in BOOLEAN /\ turned' \in BOOLEAN
        BY <1>2, Zenon
    <2>2. steady' \in 0..MinLevel /\ width' \in 0..Turn /\ unpolled' \in 0..MaxLag
        BY <1>2, PulseConstants
    <2> QED BY <1>2, <1>3, <1>4, <2>1, <2>2 DEF PulseTypeOK, PulseMeasured
<1>6. Reads'
    BY <1>2, <1>3, <1>4 DEF Reads, Asked
<1> QED BY <1>5, <1>6 DEF PulseInv

\* The rest of TimeNext is none of pulseIn's.
LEMMA PulseOthers ==
    ASSUME PulseInv, EspClockInv,
           Comes \/ Ends \/ DelayBegins \/ DelayPolls \/ CallIsOver \/ UNCHANGED timeVars
    PROVE  PulseInv'
<1>1. CASE Comes \/ Ends \/ UNCHANGED timeVars
    <2>1. /\ UNCHANGED <<callVars, pinVars, history>> /\ count' = count
        BY <1>1, Zenon DEF Comes, Ends, Hold, EspTick, Release, timeVars, espClockVars
    <2>2. PulseTypeOK' /\ PulseMeasured'
        BY <2>1, Zenon DEF PulseInv, PulseTypeOK, PulseMeasured, callVars, pinVars, history
    <2>3. Reads => Reads'
        BY <2>1, Zenon DEF Reads, Asked, RisesSince, FallsSince, TimedFrom, callVars, pinVars, history
    <2>4. InPulse' = InPulse /\ turned' = turned
        BY <2>1, Zenon DEF InPulse, InCall, Answered, callVars, history
    <2> QED BY <2>2, <2>3, <2>4, Zenon DEF PulseInv
<1>2. CASE DelayBegins
    <2>1. PICK n \in MsAsked : Begins("delay", milliseconds, n)
        BY <1>2 DEF DelayBegins
    <2>2. /\ callAt' = "delay" /\ from' = milliseconds /\ asked' = n /\ elapsed' = 0 /\ unpolled' = 0
          /\ turned' = FALSE /\ level' = FALSE /\ steady' = MinLevel
          /\ width' = (IF level' THEN Turn ELSE 0) /\ began' = began
        BY <2>1, Zenon DEF Begins
    <2>3. n \in Nat /\ milliseconds \in Nat /\ began \in Nat
        BY TimeAssumption, EspAssumption DEF PulseInv, PulseTypeOK, EspClockInv, EspClockTypeOK
    <2>4. level' \in BOOLEAN /\ turned' \in BOOLEAN
        BY <2>2, Zenon
    <2>5. steady' \in 0..MinLevel /\ width' \in 0..Turn /\ unpolled' \in 0..MaxLag
        BY <2>2, PulseConstants
    <2> QED BY <2>2, <2>3, <2>4, <2>5 DEF PulseInv, PulseTypeOK, PulseMeasured, InPulse
<1>3. CASE DelayPolls
    <2>1. /\ callAt' \in {"delay", "delayed"} /\ unpolled' = 0
          /\ UNCHANGED <<from, asked, began, pinVars, elapsed, width, turned>>
        BY <1>3, Zenon DEF DelayPolls, Step
    <2>2. level' \in BOOLEAN /\ turned' \in BOOLEAN
        BY <2>1, Zenon DEF PulseInv, PulseTypeOK, pinVars
    <2>3. PulseTypeOK'
        BY <2>1, <2>2, PulseConstants DEF PulseInv, PulseTypeOK, pinVars
    <2> QED BY <2>1, <2>3 DEF PulseInv, PulseMeasured, InPulse, InCall, Answered
<1>4. CASE CallIsOver
    <2>1. /\ callAt' = "idle" /\ from' = 0 /\ asked' = 0 /\ began' = 0 /\ elapsed' = 0
          /\ unpolled' = 0 /\ width' = 0 /\ steady' = MinLevel
        BY <1>4 DEF CallIsOver
    <2>2. level' \in BOOLEAN /\ turned' \in BOOLEAN
        BY <1>4, Zenon DEF CallIsOver
    <2> QED BY <2>1, <2>2, PulseConstants DEF PulseInv, PulseTypeOK, PulseMeasured, InPulse, InCall
<1> QED BY <1>1, <1>2, <1>3, <1>4

\* For every width of the counter, every clock rate and every lag of the reads by which
\* a level outlasts three of them: what pulseIn gives is the length of a whole pulse, to
\* a microsecond and its reads, or 0 after its timeout; and delay keeps its time.
THEOREM CallsAlwaysKeepTime == TimeSpec => []CallsKeepTime
<1>1. TimeInit => PulseInv
    <2> SUFFICES ASSUME TimeInit PROVE PulseInv
        OBVIOUS
    <2>1. /\ callAt = "idle" /\ from = 0 /\ asked = 0 /\ began = 0 /\ elapsed = 0
          /\ unpolled = 0 /\ width = 0 /\ steady = MinLevel
        BY DEF TimeInit, CallsBegin
    <2>2. level \in BOOLEAN /\ turned \in BOOLEAN
        BY Zenon DEF TimeInit, CallsBegin
    <2> QED BY <2>1, <2>2, PulseConstants DEF PulseInv, PulseTypeOK, PulseMeasured, InPulse, InCall
<1>2. PulseInv /\ EspClockInv /\ [TimeNext]_timeVars => PulseInv'
    BY PulseCount, PulseChange, PulseLooks, PulseGivesUp, PulseNotes, PulseMeasures, PulseBeginsInv,
       PulseOthers DEF TimeNext, CallPolls, PulsePolls
<1>3. TimeSpec => []EspClockInv
    BY CallsUseClock, SpecInv, PTL
<1>4. PulseInv => PulseMeasured
    BY DEF PulseInv
<1>5. DelayInTime /\ PulseMeasured => CallsKeepTime
    BY DEF CallsKeepTime
<1> QED BY <1>1, <1>2, <1>3, <1>4, <1>5, DelaysInTime, PTL DEF TimeSpec

HIDE EspAssumption DEF EspAssumption

-----------------------------------------------------------------------------
(* EspWave: the invariant *)

\* Half a period, that which ends with the edge to come, and when in its period that is.
Half(w) == IF w.level = 1 THEN w.high ELSE w.low
EdgeAt(w) == IF w.level = 1 THEN w.high ELSE w.high + w.low

WaveType ==
    [high : Nat, low : Nat, next : 0..(Turn-1), until : 0..(MsTurn-1),
     active : BOOLEAN, level : {0, 1}, timed : BOOLEAN]

Lengths(w) ==
    /\ w.high > 0 /\ w.low > 0 /\ w.high <= Turn \div 2 /\ w.low <= Turn \div 2
    /\ w.timed => w.high = w.low /\ w.high + Late < (MsTurn \div 2) * PerMs

\* The edge to come is d ticks ahead, or overdue by -d.
Ahead(p, d) ==
    /\ wave[p].next = Ticks(count + d)
    /\ phase[p] = (EdgeAt(wave[p]) - d) % Period(p)
    /\ d <= Half(wave[p])

\* A tone's time is up since o milliseconds and intoMs, and it ends with this half of
\* its period, or has been let go on for y ticks more.
UpSince(p, d, y) ==
    wave[p].timed => \E o \in Int :
        /\ 0 - o < MsTurn \div 2
        /\ wholeMs = Millis(wave[p].until + o)
        /\ (o * PerMs) + intoMs + d <= wave[p].high + y

\* FRC1 expires in time: it was loaded x ticks after the counter was read, and not with
\* less than MinLoad. What interrupts may be off is used once, by x and y together.
Armed(p, d) ==
    \E x, y \in 0..MaxOff :
        /\ x + y <= MaxOff /\ UpSince(p, d, y)
        /\ timer >= 0
        /\ IF timer > 0 THEN timer <= d + (MinLoad - 1) + x
           ELSE fired /\ 0 - d < (MinLoad - 1) + x + (IF off THEN held ELSE MaxOff)

\* reschedule is under way, at most that late,
PutOff(p, d) ==
    \E y \in Nat : y < (MinLoad - 1) + (2 * MaxOff) + held + d /\ UpSince(p, d, y)

\* has read the counter e ticks ago,
ReadAgo(e) == e \in 0..held /\ count = Ticks(now + e)

\* and has made the edges that were due then.
Loading(p, d) ==
    \E e \in Nat : /\ ReadAgo(e) /\ d + e > 0 /\ d + e <= Half(wave[p])
                   /\ soonest <= d + e /\ UpSince(p, d, held - e)

InPlace(p, d) ==
    /\ waveAt \in {"sketch", "other", "return"} => Armed(p, d)
    /\ waveAt \in {"look", "edges"} => PutOff(p, d)
    /\ waveAt = "edges" => \E e \in Nat : ReadAgo(e) /\ d + e <= Half(wave[p])
    /\ waveAt = "load" => Loading(p, d)

InWave(p) ==
    /\ Lengths(wave[p]) /\ out[p] = wave[p].level
    /\ \E d \in Int : Ahead(p, d) /\ InPlace(p, d)

WaveStates ==
    /\ wave \in [Pins -> WaveType] /\ out \in [Pins -> {0, 1}] /\ phase \in [Pins -> Int]
    /\ waveAt \in {"sketch", "other", "look", "edges", "load", "return"}
    /\ off <=> waveAt # "sketch"
    /\ held \in 0..MaxOff
    /\ now \in 0..(Turn-1) /\ soonest \in Nat /\ timer \in Int /\ fired \in BOOLEAN

WaveInv ==
    /\ EspClockInv /\ WaveStates
    /\ \A p \in Pins : wave[p].active => InWave(p)

-----------------------------------------------------------------------------
(* Remainders *)

\* A number is a multiple and a remainder,
LEMMA Remainder ==
    ASSUME NEW u \in Nat \ {0}, NEW n \in Int
    PROVE  (n \div u) \in Int /\ (n % u) \in 0..(u-1) /\ n = (u * (n \div u)) + (n % u)
OBVIOUS

\* in one way,
LEMMA OneRemainder ==
    ASSUME NEW u \in Nat \ {0}, NEW a \in Int, NEW b \in Int, NEW r \in 0..(u-1), NEW s \in 0..(u-1),
           (u * a) + r = (u * b) + s
    PROVE  r = s
<1>1. a - b \in Int /\ u * (a - b) = s - r
    OBVIOUS
<1>2. CASE a - b >= 1
    <2>1. ((a - b) - 1) \in Nat /\ u * ((a - b) - 1) \in Nat
        BY <1>2
    <2>2. u * ((a - b) - 1) = (u * (a - b)) - u
        OBVIOUS
    <2> QED BY <1>1, <2>1, <2>2
<1>3. CASE a - b <= -1
    <2>1. ((b - a) - 1) \in Nat /\ u * ((b - a) - 1) \in Nat
        BY <1>3
    <2>2. u * ((b - a) - 1) = (0 - (u * (a - b))) - u
        OBVIOUS
    <2> QED BY <1>1, <2>1, <2>2
<1>4. CASE a = b
    BY <1>4
<1> QED BY <1>2, <1>3, <1>4

\* that multiples do not change.
LEMMA SameRemainder ==
    ASSUME NEW u \in Nat \ {0}, NEW n \in Int, NEW k \in Int
    PROVE  (n + (u * k)) % u = n % u
<1> DEFINE m == n + (u * k)
<1>1. m \in Int
    OBVIOUS
<1>2. (n \div u) \in Int /\ (n % u) \in 0..(u-1) /\ n = (u * (n \div u)) + (n % u)
    BY Remainder
<1>3. (m \div u) \in Int /\ (m % u) \in 0..(u-1) /\ m = (u * (m \div u)) + (m % u)
    BY <1>1, Remainder
<1> DEFINE q == n \div u  r == n % u  o == m \div u  s == m % u
<1>4. q \in Int /\ r \in 0..(u-1) /\ n = (u * q) + r /\ o \in Int /\ s \in 0..(u-1) /\ m = (u * o) + s
    BY <1>2, <1>3
<1>5. m = n + (u * k)
    OBVIOUS
<1> HIDE DEF q, r, o, s, m
<1>6. q + k \in Int /\ (u * (q + k)) + r = (u * o) + s
    <2>1. u * (q + k) = (u * q) + (u * k)
        BY <1>4
    <2> QED BY <1>4, <1>5, <2>1
<1>7. r = s
    BY <1>4, <1>6, OneRemainder
<1> QED BY <1>7 DEF r, s, m

\* A sum and a difference may be reduced before or after.
LEMMA ReducedSum ==
    ASSUME NEW u \in Nat \ {0}, NEW n \in Int, NEW m \in Int
    PROVE  /\ ((n % u) + m) % u = (n + m) % u
           /\ (m - (n % u)) % u = (m - n) % u
<1> DEFINE q == n \div u  r == n % u
<1>1. q \in Int /\ r \in 0..(u-1) /\ n = (u * q) + r
    BY Remainder
<1> HIDE DEF q, r
<1>2. (r + m) \in Int /\ n + m = (r + m) + (u * q)
    BY <1>1
<1>3. (n + m) % u = (r + m) % u
    BY <1>1, <1>2, SameRemainder
<1> DEFINE l == m - n
<1>4. l \in Int /\ m - r = l + (u * q)
    BY <1>1
<1> HIDE DEF l
<1>5. (m - r) % u = l % u
    BY <1>1, <1>4, SameRemainder
<1> QED BY <1>3, <1>5 DEF r, l

\* Numbers of less than a turn.
LEMMA SmallRemainder ==
    ASSUME NEW u \in Nat \ {0}, NEW n \in Int
    PROVE  /\ n \in 0..(u-1) => n % u = n
           /\ n < 0 /\ 0 - n < u => n % u = u + n
OBVIOUS

-----------------------------------------------------------------------------
(* EspWave: the counters *)

\* What the proofs need of the clock's constants,
LEMMA ClockSizes ==
    /\ Turn \in Nat \ {0} /\ MsTurn \in Nat \ {0} /\ PerMs \in Nat \ {0} /\ MaxBusy \in Nat
    /\ MaxBusy < PerMs /\ 2 * PerMs < Turn
    /\ (Turn \div 2) \in Nat /\ 2 * (Turn \div 2) <= Turn /\ Turn <= (2 * (Turn \div 2)) + 1
    /\ (MsTurn \div 2) \in Nat \ {0} /\ 2 * (MsTurn \div 2) <= MsTurn
    /\ MsTurn <= (2 * (MsTurn \div 2)) + 1
BY EspAssumption DEF EspAssumption

\* and of the waves'.
LEMMA WaveSizes ==
    /\ MinLoad \in Nat \ {0} /\ MaxOff \in Nat \ {0} /\ MaxOff <= MaxBusy
    /\ Late \in Nat /\ Late = (3 * MaxOff) + MinLoad - 1 /\ Late < Turn \div 2
BY ClockSizes, WaveAssumption DEF WaveAssumption, Late

\* The counter's and the milliseconds' values.
LEMMA InRange == \A n \in Int : Ticks(n) \in 0..(Turn-1) /\ Millis(n) \in 0..(MsTurn-1)
BY ClockSizes, Remainder DEF Ticks, Millis

\* The counter goes on, and what was ahead of it comes nearer.
LEMMA Nearer ==
    ASSUME NEW c \in Int, NEW d \in Int
    PROVE  Ticks(c + d) = Ticks(Ticks(c + 1) + (d - 1))
<1>1. c + 1 \in Int /\ d - 1 \in Int /\ (c + 1) + (d - 1) = c + d
    OBVIOUS
<1>2. (((c + 1) % Turn) + (d - 1)) % Turn = ((c + 1) + (d - 1)) % Turn
    BY <1>1, ReducedSum, ClockSizes
<1> QED BY <1>1, <1>2 DEF Ticks

\* An edge that is put on is further ahead.
LEMMA Further ==
    ASSUME NEW c \in Int, NEW d \in Int, NEW e \in Int
    PROVE  Ticks(Ticks(c + d) + e) = Ticks(c + (d + e))
<1>1. c + d \in Int /\ (c + d) + e = c + (d + e)
    OBVIOUS
<1>2. (((c + d) % Turn) + e) % Turn = ((c + d) + e) % Turn
    BY <1>1, ReducedSum, ClockSizes
<1> QED BY <1>1, <1>2 DEF Ticks

\* How far ahead it is,
LEMMA Distance ==
    ASSUME NEW c \in Int, NEW d \in 0..(Turn-1)
    PROVE  Ticks(Ticks(c + d) - c) = d
<1>1. c + d \in Int /\ 0 - c \in Int /\ (c + d) + (0 - c) = d /\ d \in Int
    OBVIOUS
<1>2. (((c + d) % Turn) + (0 - c)) % Turn = ((c + d) + (0 - c)) % Turn
    BY <1>1, ReducedSum, ClockSizes
<1>3. Ticks(c + d) + (0 - c) = Ticks(c + d) - c
    BY <1>1, InRange
<1>4. d % Turn = d
    BY <1>1, SmallRemainder, ClockSizes
<1> QED BY <1>1, <1>2, <1>3, <1>4 DEF Ticks

\* and whether it is due.
LEMMA OverdueIs ==
    ASSUME NEW w \in WaveType, NEW c \in Int, NEW d \in Int, w.next = Ticks(c + d),
           0 - d < Turn \div 2, d <= Turn \div 2
    PROVE  Overdue(w, c) <=> d <= 0
<1>1. Ticks(c - Ticks(c + d)) = (0 - d) % Turn
    <2>1. c + d \in Int /\ c - (c + d) = 0 - d
        OBVIOUS
    <2>2. (c - ((c + d) % Turn)) % Turn = (c - (c + d)) % Turn
        BY <2>1, ReducedSum, ClockSizes
    <2> QED BY <2>1, <2>2 DEF Ticks
<1>2. (0 - d) \in Int
    OBVIOUS
<1>3. CASE d <= 0
    <2>1. (0 - d) \in 0..(Turn-1)
        BY <1>3, ClockSizes
    <2>2. (0 - d) % Turn = 0 - d
        BY <1>2, <2>1, SmallRemainder, ClockSizes
    <2> QED BY <1>1, <1>3, <2>2 DEF Overdue
<1>4. CASE d > 0
    <2>1. 0 - d < 0 /\ 0 - (0 - d) < Turn
        BY <1>4, ClockSizes
    <2>2. (0 - d) % Turn = Turn + (0 - d)
        BY <1>2, <2>1, SmallRemainder, ClockSizes
    <2>3. ~(Turn + (0 - d) < Turn \div 2)
        BY ClockSizes
    <2> QED BY <1>1, <1>4, <2>2, <2>3 DEF Overdue
<1> QED BY <1>3, <1>4

\* A tone's time is up when its milliseconds are.
LEMMA UpIs ==
    ASSUME NEW u \in 0..(MsTurn-1), NEW m \in Int, NEW o \in Int, m = Millis(u + o),
           0 - o <= MsTurn \div 2, o < MsTurn \div 2
    PROVE  IF o >= 0 THEN Millis(m - u) = o ELSE Millis(m - u) >= MsTurn \div 2
<1>1. Millis(m - u) = o % MsTurn
    <2>1. u + o \in Int /\ 0 - u \in Int /\ (u + o) + (0 - u) = o
        OBVIOUS
    <2>2. (((u + o) % MsTurn) + (0 - u)) % MsTurn = ((u + o) + (0 - u)) % MsTurn
        BY <2>1, ReducedSum, ClockSizes
    <2>3. m + (0 - u) = m - u
        OBVIOUS
    <2> QED BY <2>1, <2>2, <2>3 DEF Millis
<1>2. CASE o >= 0
    <2>1. o \in 0..(MsTurn-1)
        BY <1>2, ClockSizes
    <2> QED BY <1>1, <1>2, <2>1, SmallRemainder, ClockSizes
<1>3. CASE o < 0
    <2>1. 0 - o < MsTurn
        BY <1>3, ClockSizes
    <2>2. o % MsTurn = MsTurn + o
        BY <1>3, <2>1, SmallRemainder, ClockSizes
    <2>3. MsTurn + o >= MsTurn \div 2
        BY ClockSizes
    <2> QED BY <1>1, <1>3, <2>2, <2>3
<1> QED BY <1>2, <1>3

-----------------------------------------------------------------------------
(* EspWave: the edges of a wave *)

\* How far n edges more put the edge to come.
Advance(w, n) ==
    ((n \div 2) * (w.high + w.low))
        + (IF n % 2 = 0 THEN 0 ELSE IF w.level = 1 THEN w.low ELSE w.high)

\* They change the edge to come and the level, and nothing else of the wave.
LEMMA AfterEdgesAre ==
    ASSUME NEW w \in WaveType, NEW n \in Nat, Lengths(w)
    PROVE  LET v == AfterEdges(w, n) IN
           /\ v \in WaveType /\ Lengths(v)
           /\ v.high = w.high /\ v.low = w.low /\ v.until = w.until
           /\ v.active = w.active /\ v.timed = w.timed
           /\ v.level = (w.level + n) % 2
           /\ v.next = Ticks(w.next + Advance(w, n))
<1> DEFINE v == AfterEdges(w, n)
           toggled == IF n % 2 = 0 THEN 0 ELSE IF w.level = 1 THEN w.low ELSE w.high
           turns == (n \div 2) * (w.high + w.low)
<1>1. /\ w.high \in Nat /\ w.low \in Nat /\ w.next \in 0..(Turn-1) /\ w.level \in {0, 1}
      /\ w.until \in 0..(MsTurn-1) /\ w.active \in BOOLEAN /\ w.timed \in BOOLEAN
    BY DEF WaveType
<1>2. turns \in Int /\ toggled \in Int
    BY <1>1
<1>3. v = [w EXCEPT !.next = Ticks((@ + turns) + toggled), !.level = (@ + n) % 2]
    BY DEF AfterEdges
<1>4. Advance(w, n) = turns + toggled
    BY DEF Advance
<1> HIDE DEF v, turns, toggled
<1>5. /\ v.high = w.high /\ v.low = w.low /\ v.until = w.until
      /\ v.active = w.active /\ v.timed = w.timed
      /\ v.level = (w.level + n) % 2 /\ v.next = Ticks((w.next + turns) + toggled)
    BY <1>3 DEF WaveType
<1>6. (w.next + turns) + toggled = w.next + Advance(w, n) /\ (w.next + turns) + toggled \in Int
    BY <1>1, <1>2, <1>4
<1>7. v.level \in {0, 1}
    BY <1>1, <1>5
<1>8. v.next \in 0..(Turn-1)
    BY <1>5, <1>6, InRange
<1>9. v \in WaveType
    BY <1>1, <1>3, <1>5, <1>7, <1>8 DEF WaveType
<1>10. Lengths(v)
    BY <1>5 DEF Lengths
<1> QED BY <1>5, <1>6, <1>9, <1>10 DEF v

\* Edge by edge, half a period each; what is reached is a whole number of periods away
\* from where the wave was.
LEMMA AdvanceIs ==
    ASSUME NEW w \in WaveType, NEW n \in Nat, Lengths(w)
    PROVE  /\ Advance(w, n) \in Nat /\ n <= Advance(w, n)
           /\ Advance(w, 0) = 0
           /\ n > 0 => Advance(w, n) = Advance(w, n - 1) + Half(AfterEdges(w, n))
           /\ \E k \in Int : EdgeAt(AfterEdges(w, n)) - Advance(w, n)
                                 = EdgeAt(w) + ((w.high + w.low) * k)
<1>1. w.high \in Nat \ {0} /\ w.low \in Nat \ {0} /\ w.level \in {0, 1}
    BY DEF WaveType, Lengths
<1> DEFINE j == n \div 2
<1>2. j \in Nat /\ ((n = 2 * j /\ n % 2 = 0) \/ (n = (2 * j) + 1 /\ n % 2 = 1))
    OBVIOUS
<1>3. Advance(w, n) = (j * (w.high + w.low)) + (IF n % 2 = 0 THEN 0 ELSE IF w.level = 1 THEN w.low ELSE w.high)
    BY DEF Advance
<1>4. LET v == AfterEdges(w, n) IN v.high = w.high /\ v.low = w.low /\ v.level = (w.level + n) % 2
    BY AfterEdgesAre
<1> DEFINE period == w.high + w.low  turns == j * period
<1>5. period \in Nat /\ turns \in Nat /\ 2 * j <= turns /\ turns = period * j /\ period * (0 - j) = 0 - turns
      /\ period * (0 - (j + 1)) = (0 - turns) - period
    <2>1. period \in Nat /\ period >= 2
        BY <1>1
    <2> HIDE DEF j, period
    <2>2. j \in Nat /\ (period - 2) \in Nat /\ j * (period - 2) \in Nat
        BY <1>2, <2>1
    <2>3. j * (period - 2) = (j * period) - (2 * j)
        BY <1>2, <2>1
    <2> QED BY <1>2, <2>1, <2>2, <2>3
<1>6. Advance(w, 0) = 0
    <2>1. 0 \div 2 = 0 /\ 0 % 2 = 0
        OBVIOUS
    <2>2. 0 * (w.high + w.low) = 0
        BY <1>1
    <2> QED BY <2>1, <2>2 DEF Advance
<1>7. Advance(w, n) = turns + (IF n % 2 = 0 THEN 0 ELSE IF w.level = 1 THEN w.low ELSE w.high)
    BY <1>3
<1>8. Advance(w, n) \in Nat /\ n <= Advance(w, n)
    <2> HIDE DEF j, turns
    <2> QED BY <1>1, <1>2, <1>5, <1>7
<1>9. \E k \in Int : EdgeAt(AfterEdges(w, n)) - Advance(w, n) = EdgeAt(w) + ((w.high + w.low) * k)
    <2> HIDE DEF j, turns
    <2>1. CASE n % 2 = 0
        <3>1. (w.level + n) % 2 = w.level
            BY <1>1, <1>2, <2>1
        <3>2. EdgeAt(AfterEdges(w, n)) = EdgeAt(w)
            BY <1>4, <3>1 DEF EdgeAt
        <3>3. EdgeAt(w) \in Int
            BY <1>1 DEF EdgeAt
        <3>4. EdgeAt(AfterEdges(w, n)) - Advance(w, n) = EdgeAt(w) + (period * (0 - j))
            BY <1>5, <1>7, <2>1, <3>2, <3>3
        <3> QED BY <1>2, <3>4
    <2>2. CASE n % 2 = 1 /\ w.level = 1
        <3>1. (w.level + n) % 2 = 0
            BY <1>1, <1>2, <2>2
        <3>2. EdgeAt(AfterEdges(w, n)) = w.high + w.low /\ EdgeAt(w) = w.high
            BY <1>4, <2>2, <3>1 DEF EdgeAt
        <3>3. EdgeAt(AfterEdges(w, n)) - Advance(w, n) = EdgeAt(w) + (period * (0 - j))
            BY <1>1, <1>5, <1>7, <2>2, <3>2
        <3> QED BY <1>2, <3>3
    <2>3. CASE n % 2 = 1 /\ w.level = 0
        <3>1. (w.level + n) % 2 = 1
            BY <1>1, <1>2, <2>3
        <3>2. EdgeAt(AfterEdges(w, n)) = w.high /\ EdgeAt(w) = w.high + w.low
            BY <1>4, <2>3, <3>1 DEF EdgeAt
        <3>3. EdgeAt(AfterEdges(w, n)) - Advance(w, n) = EdgeAt(w) + (period * (0 - (j + 1)))
            BY <1>1, <1>5, <1>7, <2>3, <3>2
        <3>4. 0 - (j + 1) \in Int
            BY <1>2
        <3> QED BY <3>3, <3>4
    <2> QED BY <1>1, <1>2, <2>1, <2>2, <2>3
<1>10. ASSUME n > 0 PROVE Advance(w, n) = Advance(w, n - 1) + Half(AfterEdges(w, n))
    <2> DEFINE m == n - 1  i == m \div 2
    <2>1. m \in Nat /\ i \in Nat
        BY <1>10
    <2>2. IF n % 2 = 0 THEN m % 2 = 1 /\ i = j - 1 ELSE m % 2 = 0 /\ i = j
        BY <1>10
    <2>4. Advance(w, m) = (i * period) + (IF m % 2 = 0 THEN 0 ELSE IF w.level = 1 THEN w.low ELSE w.high)
        BY DEF Advance
    <2>5. (w.level + n) % 2 = IF n % 2 = 0 THEN w.level ELSE 1 - w.level
        BY <1>1
    <2>6. (j - 1) * period = turns - period
        BY <1>1, <1>2
    <2> HIDE DEF i, j, m, turns
    <2>7. CASE n % 2 = 0
        <3>1. i * period = turns - period
            BY <2>2, <2>6, <2>7
        <3>2. Half(AfterEdges(w, n)) = IF w.level = 1 THEN w.high ELSE w.low
            BY <1>1, <1>4, <2>5, <2>7 DEF Half
        <3> QED BY <1>1, <1>5, <1>7, <2>2, <2>4, <2>7, <3>1, <3>2 DEF m
    <2>8. CASE n % 2 = 1
        <3>1. i * period = turns
            BY <2>2, <2>8 DEF turns
        <3>2. Half(AfterEdges(w, n)) = IF w.level = 1 THEN w.low ELSE w.high
            BY <1>1, <1>4, <2>5, <2>8 DEF Half
        <3> QED BY <1>1, <1>5, <1>7, <2>2, <2>4, <2>8, <3>1, <3>2 DEF m
    <2> QED BY <1>2, <2>7, <2>8
<1> QED BY <1>6, <1>8, <1>9, <1>10

\* Of the numbers that have a property there is a least.
LEMMA LeastOf ==
    ASSUME NEW S \in SUBSET Nat, S # {}
    PROVE  \E m \in S : \A k \in S : m <= k
<1>1. IsWellFoundedOn(OpToRel(<, Nat), Nat)
    BY NatLessThanWellFounded
<1>2. PICK m \in S : \A k \in S : ~ (<<k, m>> \in OpToRel(<, Nat))
    BY <1>1, WFMin
<1>3. \A k \in S : ~(k < m)
    BY <1>2 DEF OpToRel
<1> QED BY <1>3

\* CaughtUp makes the edges that are due and no other: the next is ahead of the counter,
\* by no more than a half of the period, and where it would be of a wave that had been
\* served in time.
LEMMA CatchesUp ==
    ASSUME NEW w \in WaveType, NEW d \in Int, Lengths(w), now \in 0..(Turn-1),
           w.next = Ticks(now + d), 0 - d < Late, d <= Half(w)
    PROVE  LET v == CaughtUp(w) IN
           /\ v \in WaveType /\ Lengths(v) /\ v.high = w.high /\ v.low = w.low
           /\ v.until = w.until /\ v.active = w.active /\ v.timed = w.timed
           /\ \E e \in Int :
                /\ e > 0 /\ e <= Half(v) /\ v.next = Ticks(now + e)
                /\ \E k \in Int : EdgeAt(v) - e = (EdgeAt(w) - d) + ((w.high + w.low) * k)
<1>1. w.high \in Nat /\ w.low \in Nat /\ w.level \in {0, 1}
    BY DEF WaveType
<1> DEFINE Due(n) == Overdue(AfterEdges(w, n), now)
           S == {n \in Nat : d + Advance(w, n) > 0}
<1>2. \A n \in Nat : Advance(w, n) \in Nat /\ n <= Advance(w, n)
    BY AdvanceIs
<1>3. Late \in S
    BY <1>2, ClockSizes, WaveSizes
<1>4. PICK m \in S : \A k \in S : m <= k
    BY <1>3, LeastOf
<1>5. m \in 0..Turn /\ m \in Nat /\ d + Advance(w, m) > 0
    BY <1>3, <1>4, ClockSizes, WaveSizes
<1>6. \A k \in 0..(m-1) : d + Advance(w, k) <= 0
    <2> SUFFICES ASSUME NEW k \in 0..(m-1), d + Advance(w, k) > 0 PROVE FALSE
        BY <1>2
    <2>1. k \in S
        BY <1>5
    <2> QED BY <1>4, <1>5, <2>1
<1>7. LET v == AfterEdges(w, m) IN
      /\ v \in WaveType /\ Lengths(v) /\ v.high = w.high /\ v.low = w.low /\ v.until = w.until
      /\ v.active = w.active /\ v.timed = w.timed /\ v.level = (w.level + m) % 2
    BY <1>5, AfterEdgesAre
<1>8. Half(AfterEdges(w, m)) \in Nat /\ Half(AfterEdges(w, m)) <= Turn \div 2
    BY <1>1, <1>7 DEF Half, Lengths
<1>9. d + Advance(w, m) <= Half(AfterEdges(w, m))
    <2>1. CASE m = 0
        <3>1. Advance(w, 0) = 0
            BY AdvanceIs, 0 \in Nat
        <3>2. Half(AfterEdges(w, 0)) = Half(w)
            <4>1. (w.level + 0) % 2 = w.level
                BY <1>1
            <4> QED BY <1>7, <2>1, <4>1 DEF Half
        <3> QED BY <2>1, <3>1, <3>2
    <2>2. CASE m > 0
        <3>1. Advance(w, m) = Advance(w, m - 1) + Half(AfterEdges(w, m))
            BY <1>5, <2>2, AdvanceIs
        <3>2. m - 1 \in 0..(m-1) /\ m - 1 \in Nat
            BY <1>5, <2>2
        <3> QED BY <1>2, <1>6, <1>8, <3>1, <3>2
    <2> QED BY <1>5, <2>1, <2>2
<1>10. \A n \in Nat : AfterEdges(w, n).next = Ticks(now + (d + Advance(w, n))) /\ AfterEdges(w, n) \in WaveType
    <2> SUFFICES ASSUME NEW n \in Nat
                 PROVE  /\ AfterEdges(w, n).next = Ticks(now + (d + Advance(w, n)))
                        /\ AfterEdges(w, n) \in WaveType
        OBVIOUS
    <2>1. AfterEdges(w, n).next = Ticks(w.next + Advance(w, n)) /\ AfterEdges(w, n) \in WaveType
        BY AfterEdgesAre
    <2>2. AfterEdges(w, n).next = Ticks(Ticks(now + d) + Advance(w, n)) /\ AfterEdges(w, n) \in WaveType
        BY <2>1
    <2>3. now \in Int /\ Advance(w, n) \in Int
        BY <1>2
    <2> QED BY <2>2, <2>3, Further
<1>11. ~Due(m)
    <2>1. d + Advance(w, m) \in Int /\ 0 - (d + Advance(w, m)) < Turn \div 2 /\ d + Advance(w, m) <= Turn \div 2
        BY <1>2, <1>5, <1>8, <1>9, ClockSizes, WaveSizes
    <2>2. now \in Int
        OBVIOUS
    <2> QED BY <1>5, <1>10, <2>1, <2>2, OverdueIs
<1>12. \A k \in 0..(m-1) : Due(k)
    <2> SUFFICES ASSUME NEW k \in 0..(m-1) PROVE Due(k)
        OBVIOUS
    <2>1. k \in Nat /\ Advance(w, k) \in Nat
        BY <1>2, <1>5
    <2>2. d + Advance(w, k) \in Int /\ 0 - (d + Advance(w, k)) < Turn \div 2 /\ d + Advance(w, k) <= 0
        BY <1>6, <2>1, ClockSizes, WaveSizes
    <2>3. now \in Int /\ d + Advance(w, k) <= Turn \div 2
        BY <2>2, ClockSizes, WaveSizes
    <2> QED BY <1>10, <2>1, <2>2, <2>3, OverdueIs
<1> HIDE DEF Due
<1> DEFINE n0 == CHOOSE n \in 0..Turn : ~Due(n) /\ \A k \in 0..(n-1) : Due(k)
<1>13. n0 \in 0..Turn /\ ~Due(n0) /\ \A k \in 0..(n0-1) : Due(k)
    BY <1>5, <1>11, <1>12
<1>14. CaughtUp(w) = AfterEdges(w, n0)
    BY DEF CaughtUp, Due
<1> HIDE DEF n0
<1>15. n0 = m
    <2>1. CASE n0 < m
        <3>1. n0 \in 0..(m-1)
            BY <1>5, <1>13, <2>1, ClockSizes, WaveSizes
        <3> QED BY <1>12, <1>13, <3>1
    <2>2. CASE m < n0
        <3>1. m \in 0..(n0-1)
            BY <1>5, <1>13, <2>2, ClockSizes, WaveSizes
        <3> QED BY <1>11, <1>13, <3>1
    <2> QED BY <1>5, <1>13, <2>1, <2>2, ClockSizes, WaveSizes
<1>16. PICK k \in Int : EdgeAt(AfterEdges(w, m)) - Advance(w, m) = EdgeAt(w) + ((w.high + w.low) * k)
    BY <1>5, AdvanceIs
<1> DEFINE e == d + Advance(w, m)
<1>17. EdgeAt(AfterEdges(w, m)) - e = (EdgeAt(w) - d) + ((w.high + w.low) * k)
    <2>1. EdgeAt(AfterEdges(w, m)) \in Int /\ EdgeAt(w) \in Int
        BY <1>1, <1>7 DEF EdgeAt
    <2>2. (w.high + w.low) * k \in Int
        BY <1>1
    <2> QED BY <1>2, <1>5, <1>16, <2>1, <2>2
<1>18. e \in Int /\ e > 0 /\ e <= Half(AfterEdges(w, m)) /\ AfterEdges(w, m).next = Ticks(now + e)
    BY <1>2, <1>5, <1>9, <1>10
<1> HIDE DEF e
<1> QED BY <1>7, <1>14, <1>15, <1>17, <1>18

-----------------------------------------------------------------------------
(* EspWave: its steps *)

\* A step of the waves is a step of the clock or leaves it alone.
LEMMA WaveStepIsClockStep == [WaveNext]_espVars => [EspClockNext]_espClockVars
BY DEF WaveNext, espVars, EspClockNext, espClockVars, WaveCount, OtherRoutines, TimerInterrupt,
       Reschedule, ReadsCounter, MakesEdges, LoadsTimer, ReturnsFrom, WaveCalls, AnalogWrite, Tone,
       NoTone, StartWave, StopWave, Called

\* Nobody is later than Late, and no tone longer over than its half and that.
LEMMA InTime ==
    ASSUME NEW p, NEW d \in Int, InPlace(p, d), EspClockInv, WaveStates
    PROVE  \E y \in Nat : UpSince(p, d, y) /\ y - d < Late
<1>1. held \in 0..MaxOff
    BY DEF WaveStates
<1>2. CASE waveAt \in {"sketch", "other", "return"}
    <2>1. PICK x \in 0..MaxOff, y \in 0..MaxOff :
              /\ x + y <= MaxOff /\ UpSince(p, d, y) /\ timer >= 0
              /\ IF timer > 0 THEN timer <= d + (MinLoad - 1) + x
                 ELSE fired /\ 0 - d < (MinLoad - 1) + x + (IF off THEN held ELSE MaxOff)
        BY <1>2 DEF InPlace, Armed
    <2>2. timer \in Int
        BY DEF WaveStates
    <2>3. y - d < Late
        BY <1>1, <2>1, <2>2, ClockSizes, WaveSizes
    <2> QED BY <2>1, <2>3
<1>3. CASE waveAt \in {"look", "edges"}
    <2>1. PICK y \in Nat : y < (MinLoad - 1) + (2 * MaxOff) + held + d /\ UpSince(p, d, y)
        BY <1>3 DEF InPlace, PutOff
    <2>2. y - d < Late
        BY <1>1, <2>1, ClockSizes, WaveSizes
    <2> QED BY <2>1, <2>2
<1>4. CASE waveAt = "load"
    <2>1. PICK e \in Nat : e \in 0..held /\ d + e > 0 /\ UpSince(p, d, held - e)
        BY <1>4 DEF InPlace, Loading, ReadAgo
    <2>2. held - e \in Nat /\ (held - e) - d < Late
        BY <1>1, <2>1, ClockSizes, WaveSizes
    <2> QED BY <2>1, <2>2
<1> QED BY <1>2, <1>3, <1>4 DEF WaveStates

\* What a wave is at does not change while neither it nor the counter does.
LEMMA StaysAhead ==
    ASSUME NEW p, wave'[p] = wave[p], phase'[p] = phase[p],
           count' = count, wholeMs' = wholeMs, intoMs' = intoMs
    PROVE  /\ \A d \in Int : Ahead(p, d) => Ahead(p, d)'
           /\ \A d, y \in Int : UpSince(p, d, y) => UpSince(p, d, y)'
           /\ Lengths(wave[p]) => Lengths(wave[p])'
BY DEF Ahead, UpSince, Lengths, Period

\* A tick brings its edge nearer, and whatever its time is over by, it is by one more.
LEMMA CountsAhead ==
    ASSUME NEW p \in Pins, NEW d \in Int, EspClockInv, WaveStates, Lengths(wave[p]), Ahead(p, d),
           Count, wave' = wave, phase'[p] = (phase[p] + 1) % Period(p)
    PROVE  /\ Ahead(p, d - 1)'
           /\ \A y \in Int : UpSince(p, d, y) => UpSince(p, d - 1, y)'
<1>1. count \in Int /\ wholeMs \in Int /\ intoMs \in 0..(PerMs-1)
    BY DEF EspClockInv, EspClockTypeOK
<1>2. wave[p] \in WaveType /\ wave[p].high \in Nat \ {0} /\ wave[p].low \in Nat \ {0}
    BY DEF WaveStates, WaveType, Lengths
<1>3. Ahead(p, d - 1)'
    <2>1. wave[p].next = Ticks(count' + (d - 1))
        <3>1. count' = Ticks(count + 1)
            BY DEF Count
        <3> QED BY <1>1, <3>1, Nearer DEF Ahead
    <2>2. phase'[p] = (EdgeAt(wave[p]) - (d - 1)) % Period(p)
        <3>1. EdgeAt(wave[p]) - d \in Int /\ Period(p) \in Nat \ {0}
              /\ (EdgeAt(wave[p]) - d) + 1 = EdgeAt(wave[p]) - (d - 1)
            BY <1>2 DEF EdgeAt, Period
        <3>2. (((EdgeAt(wave[p]) - d) % Period(p)) + 1) % Period(p) = ((EdgeAt(wave[p]) - d) + 1) % Period(p)
            BY <3>1, ReducedSum
        <3> QED BY <3>1, <3>2 DEF Ahead
    <2>3. d - 1 <= Half(wave[p])
        BY <1>2 DEF Ahead, Half
    <2> QED BY <2>1, <2>2, <2>3 DEF Ahead, Period
<1>4. ASSUME NEW y \in Int, UpSince(p, d, y) PROVE UpSince(p, d - 1, y)'
    <2> SUFFICES ASSUME wave[p].timed PROVE UpSince(p, d - 1, y)'
        BY DEF UpSince
    <2>1. PICK o \in Int : /\ 0 - o < MsTurn \div 2
                           /\ wholeMs = Millis(wave[p].until + o)
                           /\ (o * PerMs) + intoMs + d <= wave[p].high + y
        BY <1>4 DEF UpSince
    <2>2. CASE intoMs + 1 # PerMs
        <3>1. intoMs' = intoMs + 1 /\ wholeMs' = wholeMs
            BY <2>2, Zenon DEF Count
        <3>2. o * PerMs \in Int
            BY ClockSizes
        <3>3. (o * PerMs) + intoMs' + (d - 1) <= wave[p].high + y
            BY <1>1, <1>2, <2>1, <3>1, <3>2
        <3> QED BY <2>1, <3>1, <3>3 DEF UpSince
    <2>3. CASE intoMs + 1 = PerMs
        <3>1. intoMs' = 0 /\ wholeMs' = Millis(wholeMs + 1)
            BY <2>3, Zenon DEF Count
        <3>2. (o + 1) * PerMs = (o * PerMs) + PerMs /\ o * PerMs \in Int /\ PerMs \in Nat
            BY ClockSizes
        <3>3. ((o + 1) * PerMs) + intoMs' + (d - 1) <= wave[p].high + y
            BY <1>1, <1>2, <2>1, <2>3, <3>1, <3>2
        <3>4. wave[p].until \in Int
            BY <1>2 DEF WaveType
        <3>5. Millis(wholeMs + 1) = Millis(wave[p].until + (o + 1))
            <4>1. wave[p].until + o \in Int /\ (wave[p].until + o) + 1 = wave[p].until + (o + 1)
                BY <3>4
            <4> DEFINE n == wave[p].until + o
            <4>2. ((n % MsTurn) + 1) % MsTurn = (n + 1) % MsTurn
                <5>1. n \in Int /\ 1 \in Int /\ MsTurn \in Nat \ {0}
                    BY <4>1, ClockSizes
                <5> HIDE DEF n
                <5> QED BY <5>1, ReducedSum
            <4> QED BY <2>1, <4>1, <4>2 DEF Millis
        <3>6. o + 1 \in Int /\ 0 - (o + 1) < MsTurn \div 2
            BY <2>1, ClockSizes
        <3> QED BY <3>1, <3>3, <3>5, <3>6 DEF UpSince
    <2> QED BY <2>2, <2>3
<1> QED BY <1>3, <1>4

\* WaveCount: time passes.
LEMMA CountKeepsPlace ==
    ASSUME WaveInv, WaveCount, NEW p \in Pins, wave[p].active
    PROVE  InWave(p)'
<1>1. /\ Count /\ ~(fired /\ ~off) /\ wave' = wave /\ out' = out /\ waveAt' = waveAt
      /\ now' = now /\ soonest' = soonest
      /\ timer' = (IF timer > 0 THEN timer - 1 ELSE timer)
      /\ (fired' <=> (fired \/ timer = 1))
      /\ phase'[p] = (phase[p] + 1) % Period(p)
    BY DEF WaveCount
<1>2. off' = off /\ (off => held' = held + 1) /\ (~off => held' = 0) /\ (off => held < MaxOff)
    BY DEF WaveCount, Count
<1>3. held \in 0..MaxOff /\ count \in Int
    BY DEF WaveInv, WaveStates, EspClockInv, EspClockTypeOK
<1>4. PICK d \in Int : Ahead(p, d) /\ InPlace(p, d)
    BY DEF WaveInv, InWave
<1>5. Ahead(p, d - 1)' /\ \A y \in Int : UpSince(p, d, y) => UpSince(p, d - 1, y)'
    BY <1>1, <1>4, CountsAhead DEF WaveInv, InWave
<1>6. ASSUME NEW e \in Nat, ReadAgo(e), off PROVE ReadAgo(e + 1)'
    <2>1. now \in Int
        BY DEF WaveInv, WaveStates
    <2>2. count' = Ticks(now + (e + 1))
        <3>1. count' = Ticks(count + 1)
            BY <1>1 DEF Count
        <3> QED BY <1>6, <2>1, <3>1, Further DEF ReadAgo
    <2>3. e + 1 \in 0..(held + 1)
        BY <1>3, <1>6 DEF ReadAgo
    <2> QED BY <1>1, <1>2, <1>6, <2>2, <2>3 DEF ReadAgo
<1>7. waveAt # "sketch" => off
    BY DEF WaveInv, WaveStates
<1>8. (Lengths(wave[p]) /\ out[p] = wave[p].level)' /\ d - 1 \in Int
    BY <1>1 DEF WaveInv, InWave, Lengths
<1>9. CASE waveAt \in {"sketch", "other", "return"}
    <2>1. PICK x \in 0..MaxOff, y \in 0..MaxOff :
              /\ x + y <= MaxOff /\ UpSince(p, d, y) /\ timer >= 0
              /\ IF timer > 0 THEN timer <= d + (MinLoad - 1) + x
                 ELSE fired /\ 0 - d < (MinLoad - 1) + x + (IF off THEN held ELSE MaxOff)
        BY <1>4, <1>9 DEF InPlace, Armed
    <2>2. timer \in Int
        BY DEF WaveInv, WaveStates
    <2>3. timer' >= 0
        BY <1>1, <2>1, <2>2
    <2>4. IF timer' > 0 THEN timer' <= (d - 1) + (MinLoad - 1) + x
          ELSE fired' /\ 0 - (d - 1) < (MinLoad - 1) + x + (IF off' THEN held' ELSE MaxOff)
        <3>1. CASE timer > 1
            BY <1>1, <2>1, <2>2, <3>1, ClockSizes, WaveSizes
        <3>2. CASE timer = 1
            BY <1>1, <1>2, <1>3, <2>1, <3>2, ClockSizes, WaveSizes
        <3>3. CASE timer = 0
            <4>1. fired /\ off
                BY <1>1, <2>1, <3>3
            <4>2. timer' = 0 /\ fired' /\ off' /\ held' = held + 1
                BY <1>1, <1>2, <3>3, <4>1
            <4> QED BY <1>3, <2>1, <3>3, <4>1, <4>2, ClockSizes, WaveSizes
        <3> QED BY <2>1, <2>2, <3>1, <3>2, <3>3
    <2>5. UpSince(p, d - 1, y)'
        BY <1>5, <2>1
    <2>6. Armed(p, d - 1)'
        BY <2>1, <2>3, <2>4, <2>5 DEF Armed
    <2>7. waveAt' \in {"sketch", "other", "return"}
        BY <1>1, <1>9
    <2>8. InPlace(p, d - 1)'
        BY <2>6, <2>7 DEF InPlace
    <2> QED BY <1>5, <1>8, <2>8 DEF InWave
<1>10. CASE waveAt \in {"look", "edges"}
    <2>1. PICK y \in Nat : y < (MinLoad - 1) + (2 * MaxOff) + held + d /\ UpSince(p, d, y)
        BY <1>4, <1>10 DEF InPlace, PutOff
    <2>2. held' = held + 1
        BY <1>2, <1>7, <1>10
    <2>3. y < (MinLoad - 1) + (2 * MaxOff) + held' + (d - 1)
        BY <1>3, <2>1, <2>2, ClockSizes, WaveSizes
    <2>4. PutOff(p, d - 1)'
        BY <1>5, <2>1, <2>3 DEF PutOff
    <2>5. waveAt = "edges" => (\E e \in Nat : ReadAgo(e) /\ (d - 1) + e <= Half(wave[p]))'
        <3> SUFFICES ASSUME waveAt = "edges" PROVE (\E e \in Nat : ReadAgo(e) /\ (d - 1) + e <= Half(wave[p]))'
            OBVIOUS
        <3>1. PICK e \in Nat : ReadAgo(e) /\ d + e <= Half(wave[p])
            BY <1>4 DEF InPlace
        <3>2. ReadAgo(e + 1)'
            BY <1>6, <1>7, <3>1
        <3>3. e + 1 \in Nat /\ (d - 1) + (e + 1) = d + e
            OBVIOUS
        <3> QED BY <1>1, <3>1, <3>2, <3>3
    <2>6. waveAt' \in {"look", "edges"}
        BY <1>1, <1>10
    <2>7. InPlace(p, d - 1)'
        BY <1>1, <2>4, <2>5, <2>6 DEF InPlace
    <2> QED BY <1>5, <1>8, <2>7 DEF InWave
<1>11. CASE waveAt = "load"
    <2>1. PICK e \in Nat : /\ ReadAgo(e) /\ d + e > 0 /\ d + e <= Half(wave[p])
                           /\ soonest <= d + e /\ UpSince(p, d, held - e)
        BY <1>4, <1>11 DEF InPlace, Loading
    <2>2. ReadAgo(e + 1)' /\ held' = held + 1
        BY <1>2, <1>6, <1>7, <1>11, <2>1
    <2>3. PICK y \in Int : y = held - e
        BY <1>3
    <2>4. UpSince(p, d - 1, y)'
        BY <1>5, <2>1, <2>3
    <2>5. /\ e + 1 \in Nat /\ (d - 1) + (e + 1) = d + e /\ held' - (e + 1) = y
          /\ soonest' = soonest /\ Half(wave'[p]) = Half(wave[p])
        BY <1>1, <1>3, <2>2, <2>3
    <2>6. Loading(p, d - 1)'
        BY <2>1, <2>2, <2>4, <2>5 DEF Loading
    <2>7. waveAt' = "load"
        BY <1>1, <1>11
    <2>8. InPlace(p, d - 1)'
        BY <2>6, <2>7 DEF InPlace
    <2> QED BY <1>5, <1>8, <2>8 DEF InWave
<1> QED BY <1>9, <1>10, <1>11 DEF WaveInv, WaveStates

\* What neither moves a wave's edges nor the counter keeps its place when it keeps what
\* is known of the step that reschedule is at.
LEMMA KeepsPlace ==
    ASSUME WaveInv, NEW p \in Pins, wave[p].active, wave'[p] = wave[p], phase'[p] = phase[p],
           out'[p] = out[p], count' = count, wholeMs' = wholeMs, intoMs' = intoMs,
           \A d \in Int : Ahead(p, d) /\ InPlace(p, d) => InPlace(p, d)'
    PROVE  InWave(p)'
<1>1. PICK d \in Int : Ahead(p, d) /\ InPlace(p, d)
    BY DEF WaveInv, InWave
<1>2. Ahead(p, d)' /\ Lengths(wave[p])'
    BY <1>1, StaysAhead DEF WaveInv, InWave
<1>3. (out[p] = wave[p].level)'
    BY DEF WaveInv, InWave
<1> QED BY <1>1, <1>2, <1>3 DEF InWave

\* What is known when no timer is due yet or one is served: no edge is later than what
\* it took to load the timer and to take its interrupt.
LEMMA ArmedIsPutOff ==
    ASSUME NEW p, NEW d \in Int, Armed(p, d), ~off, held = 0, WaveStates
    PROVE  PutOff(p, d)
<1>1. PICK x \in 0..MaxOff, y \in 0..MaxOff :
          /\ x + y <= MaxOff /\ UpSince(p, d, y) /\ timer >= 0
          /\ IF timer > 0 THEN timer <= d + (MinLoad - 1) + x
             ELSE fired /\ 0 - d < (MinLoad - 1) + x + (IF off THEN held ELSE MaxOff)
    BY DEF Armed
<1>2. timer \in Int
    BY DEF WaveStates
<1>3. y \in Nat /\ y < (MinLoad - 1) + (2 * MaxOff) + held + d
    BY <1>1, <1>2, ClockSizes, WaveSizes
<1> QED BY <1>1, <1>3 DEF PutOff

\* What a timer that runs or has fired is known to be in time for does not change with
\* the interrupts that are on or off, as long as these have not been off for longer.
LEMMA ArmedStays ==
    ASSUME NEW p, NEW d \in Int, Armed(p, d), WaveStates, held \in 0..MaxOff,
           \A y \in Int : UpSince(p, d, y) => UpSince(p, d, y)',
           timer' = timer, fired' = fired,
           (off /\ ~off') \/ (~off /\ ~fired) \/ (off' = off /\ held' = held)
    PROVE  Armed(p, d)'
<1>1. PICK x \in 0..MaxOff, y \in 0..MaxOff :
          /\ x + y <= MaxOff /\ UpSince(p, d, y) /\ timer >= 0
          /\ IF timer > 0 THEN timer <= d + (MinLoad - 1) + x
             ELSE fired /\ 0 - d < (MinLoad - 1) + x + (IF off THEN held ELSE MaxOff)
    BY DEF Armed
<1>2. timer \in Int /\ UpSince(p, d, y)'
    BY <1>1 DEF WaveStates
<1>3. IF timer' > 0 THEN timer' <= d + (MinLoad - 1) + x
      ELSE fired' /\ 0 - d < (MinLoad - 1) + x + (IF off' THEN held' ELSE MaxOff)
    BY <1>1, <1>2, ClockSizes, WaveSizes
<1> QED BY <1>1, <1>2, <1>3 DEF Armed

\* OtherRoutines, and the end of reschedule.
LEMMA OthersKeepPlace ==
    ASSUME WaveInv, OtherRoutines \/ ReturnsFrom, NEW p \in Pins, wave[p].active
    PROVE  InWave(p)'
<1>1. /\ wave' = wave /\ phase' = phase /\ out' = out /\ count' = count /\ wholeMs' = wholeMs
      /\ intoMs' = intoMs /\ timer' = timer /\ fired' = fired
      /\ waveAt \in {"sketch", "other", "return"} /\ waveAt' \in {"sketch", "other", "return"}
      /\ (off /\ ~off') \/ (~off /\ ~fired) \/ (off' = off /\ held' = held)
    BY DEF WaveInv, WaveStates, OtherRoutines, ReturnsFrom, EspTick, Urgent, Hold, Release, waveVars
<1>2. WaveStates /\ held \in 0..MaxOff
    BY DEF WaveInv, WaveStates
<1>3. ASSUME NEW d \in Int, Ahead(p, d), InPlace(p, d) PROVE InPlace(p, d)'
    <2>1. Armed(p, d)
        BY <1>1, <1>3 DEF InPlace
    <2>2. \A y \in Int : UpSince(p, d, y) => UpSince(p, d, y)'
        BY <1>1, StaysAhead
    <2>3. Armed(p, d)'
        BY <1>1, <1>2, <2>1, <2>2, ArmedStays
    <2> QED BY <1>1, <2>3 DEF InPlace
<1> QED BY <1>1, <1>3, KeepsPlace

\* TimerInterrupt, and a call for another pin.
LEMMA TakingKeepsPlace ==
    ASSUME WaveInv, NEW p \in Pins, wave[p].active, wave'[p] = wave[p], phase'[p] = phase[p],
           out'[p] = out[p], waveAt = "sketch", waveAt' = "look", Hold
    PROVE  InWave(p)'
<1>1. count' = count /\ wholeMs' = wholeMs /\ intoMs' = intoMs /\ held' = held /\ ~off /\ held = 0
    BY DEF Hold, WaveInv, EspClockInv
<1>2. ASSUME NEW d \in Int, Ahead(p, d), InPlace(p, d) PROVE InPlace(p, d)'
    <2>1. Armed(p, d)
        BY <1>2 DEF InPlace
    <2>2. PutOff(p, d)
        BY <1>1, <2>1, ArmedIsPutOff DEF WaveInv
    <2>3. \A y \in Int : UpSince(p, d, y) => UpSince(p, d, y)'
        BY <1>1, StaysAhead
    <2>4. PutOff(p, d)'
        BY <1>1, <2>2, <2>3 DEF PutOff
    <2> QED BY <2>4 DEF InPlace
<1> QED BY <1>1, <1>2, KeepsPlace

\* ReadsCounter.
LEMMA ReadingKeepsPlace ==
    ASSUME WaveInv, ReadsCounter, NEW p \in Pins, wave[p].active
    PROVE  InWave(p)'
<1>1. /\ wave' = wave /\ phase' = phase /\ out' = out /\ count' = count /\ wholeMs' = wholeMs
      /\ intoMs' = intoMs /\ held' = held /\ now' = count /\ waveAt = "look" /\ waveAt' = "edges"
    BY DEF ReadsCounter, espClockVars
<1>2. count \in 0..(Turn-1) /\ held \in 0..MaxOff
    BY DEF WaveInv, WaveStates, EspClockInv, EspClockTypeOK
<1>3. ReadAgo(0)'
    <2>1. count + 0 = count /\ count \in Int /\ 0 \in 0..held
        BY <1>2, ClockSizes
    <2>2. count % Turn = count
        BY <1>2, <2>1, SmallRemainder, ClockSizes
    <2> QED BY <1>1, <2>1, <2>2 DEF ReadAgo, Ticks
<1>4. ASSUME NEW d \in Int, Ahead(p, d), InPlace(p, d) PROVE InPlace(p, d)'
    <2>1. PutOff(p, d)
        BY <1>1, <1>4 DEF InPlace
    <2>2. \A y \in Int : UpSince(p, d, y) => UpSince(p, d, y)'
        BY <1>1, StaysAhead
    <2>3. PutOff(p, d)'
        BY <1>1, <2>1, <2>2 DEF PutOff
    <2>4. (\E e \in Nat : ReadAgo(e) /\ d + e <= Half(wave[p]))'
        <3>1. d + 0 <= Half(wave'[p])
            BY <1>1, <1>4 DEF Ahead
        <3> QED BY <1>3, <3>1
    <2> QED BY <1>1, <2>3, <2>4 DEF InPlace
<1> QED BY <1>1, <1>4, KeepsPlace

\* LoadsTimer.
LEMMA LoadingKeepsPlace ==
    ASSUME WaveInv, LoadsTimer, NEW p \in Pins, wave[p].active
    PROVE  InWave(p)'
<1>1. /\ wave' = wave /\ phase' = phase /\ out' = out /\ count' = count /\ wholeMs' = wholeMs
      /\ intoMs' = intoMs /\ waveAt = "load" /\ waveAt' = "return"
      /\ timer' = (IF soonest < MinLoad THEN MinLoad ELSE soonest)
    BY DEF LoadsTimer, espClockVars
<1>2. soonest \in Nat /\ held \in 0..MaxOff
    BY DEF WaveInv, WaveStates, EspClockInv, EspClockTypeOK
<1>3. ASSUME NEW d \in Int, Ahead(p, d), InPlace(p, d) PROVE InPlace(p, d)'
    <2>1. PICK e \in Nat : /\ e \in 0..held /\ d + e > 0 /\ soonest <= d + e /\ UpSince(p, d, held - e)
        BY <1>1, <1>3 DEF InPlace, Loading, ReadAgo
    <2>2. PICK y \in 0..MaxOff : y = held - e
        BY <1>2, <2>1, ClockSizes, WaveSizes
    <2>3. UpSince(p, d, y)'
        <3>1. UpSince(p, d, y)
            BY <2>1, <2>2
        <3>2. \A z \in Int : UpSince(p, d, z) => UpSince(p, d, z)'
            BY <1>1, StaysAhead
        <3> QED BY <3>1, <3>2
    <2>4. /\ e \in 0..MaxOff /\ e + y <= MaxOff
          /\ timer' \in Int /\ timer' > 0 /\ timer' >= 0 /\ timer' <= d + (MinLoad - 1) + e
        BY <1>1, <1>2, <2>1, <2>2, ClockSizes, WaveSizes
    <2>5. Armed(p, d)'
        BY <2>3, <2>4 DEF Armed
    <2> QED BY <1>1, <2>5 DEF InPlace
<1> QED BY <1>1, <1>3, KeepsPlace

\* StartWave: the wave's first edge is `high` ticks ahead, and its time is not up.
LEMMA StartedInWave ==
    ASSUME WaveInv, NEW p \in Pins, NEW high \in Nat \ {0}, NEW low \in Nat \ {0},
           NEW duration \in 0..((MsTurn \div 2) - 1), StartWave(p, high, low, duration),
           high <= Turn \div 2, low <= Turn \div 2,
           duration # 0 => high = low /\ high + Late < (MsTurn \div 2) * PerMs
    PROVE  InWave(p)' /\ wave'[p] \in WaveType
<1> DEFINE w == [high |-> high, low |-> low, next |-> Ticks(count + high),
                 until |-> Millis(milliseconds + duration), active |-> TRUE, level |-> 1,
                 timed |-> duration # 0]
<1>1. /\ wave'[p] = w /\ phase'[p] = 0 /\ out'[p] = 1 /\ Hold /\ waveAt' = "look"
    BY DEF StartWave, Called, WaveInv, WaveStates
<1>2. /\ count' = count /\ wholeMs' = wholeMs /\ intoMs' = intoMs /\ held' = held
      /\ ~due /\ held = 0
    BY <1>1 DEF Hold, WaveInv, EspClockInv
<1>3. count \in Int /\ milliseconds \in 0..(MsTurn-1) /\ wholeMs = milliseconds /\ intoMs \in 0..(PerMs-1)
    BY <1>2 DEF WaveInv, EspClockInv, EspClockTypeOK, ClockKeepsTime
<1>4. /\ w.high = high /\ w.low = low /\ w.next = Ticks(count + high)
      /\ w.until = Millis(milliseconds + duration) /\ w.active /\ w.level = 1
      /\ (w.timed <=> duration # 0)
    OBVIOUS
<1>5. w \in WaveType
    <2>1. w.next \in 0..(Turn-1) /\ w.until \in 0..(MsTurn-1)
        BY <1>3, InRange, ClockSizes, WaveSizes
    <2> QED BY <2>1 DEF WaveType
<1> HIDE DEF w
<1>6. Lengths(wave[p])' /\ (out[p] = wave[p].level)'
    BY <1>1, <1>4 DEF Lengths
<1>7. Ahead(p, high)'
    <2>1. EdgeAt(w) = high /\ Half(w) = high
        BY <1>4 DEF EdgeAt, Half
    <2>2. high - high = 0 /\ w.high + w.low \in Nat \ {0}
        BY <1>4
    <2>3. 0 % (w.high + w.low) = 0
        <3> DEFINE u == w.high + w.low
        <3>1. 0 \in 0..(u - 1) /\ u \in Nat \ {0} /\ 0 \in Int
            BY <2>2
        <3> HIDE DEF u
        <3>2. 0 % u = 0
            BY <3>1, SmallRemainder
        <3> QED BY <3>2 DEF u
    <2>4. wave'[p].next = Ticks(count' + high)
        BY <1>1, <1>2, <1>4
    <2>5. phase'[p] = (EdgeAt(w) - high) % (w.high + w.low)
        BY <1>1, <2>1, <2>2, <2>3
    <2>6. high <= Half(w)
        BY <2>1
    <2> QED BY <1>1, <2>4, <2>5, <2>6 DEF Ahead, Period
<1>8. UpSince(p, high, 0)'
    <2> SUFFICES ASSUME w.timed PROVE UpSince(p, high, 0)'
        BY <1>1 DEF UpSince
    <2> DEFINE o == 0 - duration
    <2>1. duration >= 1 /\ o \in Int /\ 0 - o < MsTurn \div 2
        BY <1>4, ClockSizes, WaveSizes
    <2>2. wholeMs = Millis(w.until + o)
        <3>1. milliseconds + duration \in Int /\ (milliseconds + duration) + o = milliseconds
            BY <1>3, ClockSizes, WaveSizes
        <3>2. milliseconds % MsTurn = milliseconds
            BY <1>3, SmallRemainder, ClockSizes, WaveSizes
        <3> DEFINE n == milliseconds + duration
        <3>3. ((n % MsTurn) + o) % MsTurn = (n + o) % MsTurn
            <4>1. n \in Int /\ o \in Int
                BY <2>1, <3>1
            <4> HIDE DEF n, o
            <4> QED BY <4>1, ReducedSum, ClockSizes, WaveSizes
        <3> HIDE DEF o
        <3> QED BY <1>3, <1>4, <3>1, <3>2, <3>3 DEF Millis
    <2>3. (o * PerMs) + intoMs + high <= high + 0
        <3>1. (duration - 1) \in Nat /\ (duration - 1) * PerMs \in Nat /\ o * PerMs = (0 - ((duration - 1) * PerMs)) - PerMs
            BY <2>1, ClockSizes, WaveSizes
        <3> HIDE DEF o
        <3> QED BY <1>3, <3>1, ClockSizes, WaveSizes
    <2> HIDE DEF o
    <2>4. (o * PerMs) + intoMs' + high <= wave'[p].high + 0
        BY <1>1, <1>2, <1>4, <2>3
    <2>5. wholeMs' = Millis(wave'[p].until + o)
        BY <1>1, <1>2, <2>2
    <2> QED BY <2>1, <2>4, <2>5 DEF UpSince
<1>9. PutOff(p, high)'
    <2>1. 0 < (MinLoad - 1) + (2 * MaxOff) + held' + high
        BY <1>2, ClockSizes, WaveSizes
    <2> QED BY <1>8, <2>1 DEF PutOff
<1>10. InPlace(p, high)'
    BY <1>1, <1>9 DEF InPlace
<1> QED BY <1>1, <1>5, <1>6, <1>7, <1>10 DEF InWave

\* What is known of `milliseconds` when o milliseconds have passed since a moment.
LEMMA MillisecondsSince ==
    ASSUME EspClockInv, NEW u \in 0..(MsTurn-1), NEW o \in Int, wholeMs = Millis(u + o),
           0 - o < MsTurn \div 2, o < MsTurn \div 2
    PROVE  LET q == IF due THEN o - 1 ELSE o
           IN IF q >= 0 THEN Millis(milliseconds - u) = q
                        ELSE Millis(milliseconds - u) >= MsTurn \div 2
<1>1. milliseconds \in 0..(MsTurn-1) /\ milliseconds \in Int /\ due \in BOOLEAN
    BY ClockSizes DEF EspClockInv, EspClockTypeOK
<1>2. CASE ~due
    <2>1. milliseconds = Millis(u + o)
        BY <1>2 DEF EspClockInv, ClockKeepsTime
    <2>2. 0 - o <= MsTurn \div 2
        BY ClockSizes
    <2>3. IF o >= 0 THEN Millis(milliseconds - u) = o ELSE Millis(milliseconds - u) >= MsTurn \div 2
        BY <1>1, <2>1, <2>2, UpIs
    <2> QED BY <1>2, <2>3
<1>3. CASE due
    <2> DEFINE q == o - 1
    <2>1. q \in Int /\ 0 - q <= MsTurn \div 2 /\ q < MsTurn \div 2
        BY ClockSizes
    <2>2. milliseconds = Millis(u + q)
        <3>1. Millis(milliseconds + 1) = Millis(u + o)
            BY <1>3 DEF EspClockInv, ClockKeepsTime
        <3> DEFINE n == milliseconds + 1  m == u + o
        <3>2. n \in Int /\ m \in Int /\ n + (0 - 1) = milliseconds /\ m + (0 - 1) = u + q /\ 0 - 1 \in Int
            BY <1>1
        <3>3. n % MsTurn = m % MsTurn
            BY <3>1 DEF Millis
        <3> HIDE DEF n, m, q
        <3>4. /\ ((n % MsTurn) + (0 - 1)) % MsTurn = (n + (0 - 1)) % MsTurn
              /\ ((m % MsTurn) + (0 - 1)) % MsTurn = (m + (0 - 1)) % MsTurn
            BY <3>2, ReducedSum, ClockSizes
        <3>5. milliseconds % MsTurn = milliseconds
            BY <1>1, SmallRemainder, ClockSizes
        <3> QED BY <3>2, <3>3, <3>4, <3>5 DEF Millis
    <2> HIDE DEF q
    <2>3. IF q >= 0 THEN Millis(milliseconds - u) = q ELSE Millis(milliseconds - u) >= MsTurn \div 2
        BY <1>1, <2>1, <2>2, UpIs
    <2> QED BY <1>3, <2>3 DEF q
<1> QED BY <1>1, <1>2, <1>3

\* A tone's time is not up since as long as half a turn of the milliseconds.
LEMMA NotSinceLong ==
    ASSUME NEW o \in Int, NEW i \in Nat, NEW d \in Int, NEW y \in Int, NEW high \in Nat,
           (o * PerMs) + i + d <= high + y, y - d < Late,
           high + Late < (MsTurn \div 2) * PerMs
    PROVE  o < MsTurn \div 2
<1> SUFFICES ASSUME o >= MsTurn \div 2 PROVE FALSE
    BY ClockSizes, WaveSizes
<1> DEFINE m == MsTurn \div 2
<1>1. m \in Nat /\ high + Late < m * PerMs /\ Late \in Nat /\ PerMs \in Nat
    BY ClockSizes, WaveSizes
<1>2. o >= m
    OBVIOUS
<1> HIDE DEF m
<1>3. (o - m) \in Nat /\ (o - m) * PerMs \in Nat /\ (o - m) * PerMs = (o * PerMs) - (m * PerMs)
      /\ o * PerMs \in Int /\ m * PerMs \in Int
    BY <1>1, <1>2
<1> QED BY <1>1, <1>3

\* MakesEdges finds a tone that goes on not over for longer than its interrupts have
\* been off: what is left of it may end e ticks before the half that it is in.
LEMMA NotUpYet ==
    ASSUME EspClockInv, WaveStates, off, NEW p \in Pins, NEW d \in Int, NEW y \in Int,
           Lengths(wave[p]), UpSince(p, d, y), y - d < Late, wave[p].timed, ~Ended(wave[p])
    PROVE  \E o \in Int : /\ 0 - o < MsTurn \div 2
                          /\ wholeMs = Millis(wave[p].until + o)
                          /\ (o * PerMs) + intoMs <= held
<1>1. intoMs \in 0..(PerMs-1) /\ held \in 0..MaxOff /\ due \in BOOLEAN
    BY DEF WaveStates, EspClockInv, EspClockTypeOK
<1>2. /\ wave[p] \in WaveType /\ wave[p].high \in Nat /\ wave[p].until \in 0..(MsTurn-1)
      /\ wave[p].high + Late < (MsTurn \div 2) * PerMs
    BY DEF WaveStates, WaveType, Lengths
<1>3. PICK o \in Int : /\ 0 - o < MsTurn \div 2
                       /\ wholeMs = Millis(wave[p].until + o)
                       /\ (o * PerMs) + intoMs + d <= wave[p].high + y
    BY DEF UpSince
<1>4. o < MsTurn \div 2
    <2>1. intoMs \in Nat
        BY <1>1
    <2> QED BY <1>2, <1>3, <2>1, NotSinceLong
<1>5. ~(Millis(milliseconds - wave[p].until) < MsTurn \div 2)
    BY DEF Ended
<1> DEFINE q == IF due THEN o - 1 ELSE o
<1>6. q < 0
    <2>1. IF q >= 0 THEN Millis(milliseconds - wave[p].until) = q
                    ELSE Millis(milliseconds - wave[p].until) >= MsTurn \div 2
        BY <1>2, <1>3, <1>4, MillisecondsSince
    <2>2. q \in Int /\ q < MsTurn \div 2
        BY <1>4, ClockSizes, WaveSizes
    <2> QED BY <1>5, <2>1, <2>2
<1>7. (o * PerMs) + intoMs <= held
    <2>1. CASE due
        <3>1. o <= 0
            BY <1>6, <2>1
        <3>2. (0 - o) \in Nat /\ (0 - o) * PerMs \in Nat /\ o * PerMs = 0 - ((0 - o) * PerMs)
            BY <3>1, ClockSizes, WaveSizes
        <3>3. intoMs <= held
            BY <2>1 DEF EspClockInv, AlarmAhead
        <3> QED BY <1>1, <3>2, <3>3
    <2>2. CASE ~due
        <3>1. o <= -1
            BY <1>6, <2>2
        <3>2. (0 - o) - 1 \in Nat /\ ((0 - o) - 1) * PerMs \in Nat
              /\ o * PerMs = (0 - (((0 - o) - 1) * PerMs)) - PerMs
            BY <3>1, ClockSizes, WaveSizes
        <3> QED BY <1>1, <3>2, ClockSizes, WaveSizes
    <2> QED BY <1>1, <2>1, <2>2
<1> QED BY <1>3, <1>7

\* MakesEdges: where each wave that goes on is then,
LEMMA EdgesOf ==
    ASSUME WaveInv, MakesEdges, NEW p \in Pins, wave'[p].active
    PROVE  /\ wave[p].active /\ wave'[p] \in WaveType /\ Lengths(wave[p])'
           /\ \E a \in Nat, e \in Nat :
                /\ a > 0 /\ a <= Half(wave'[p]) /\ Ticks(wave'[p].next - now) = a
                /\ ReadAgo(e)' /\ Ahead(p, a - e)' /\ UpSince(p, a - e, held - e)'
<1>1. /\ waveAt = "edges" /\ count' = count /\ wholeMs' = wholeMs /\ intoMs' = intoMs
      /\ held' = held /\ phase' = phase /\ now' = now
    BY DEF MakesEdges, espClockVars
<1>2. wave[p].active /\ ~Ended(wave[p]) /\ wave'[p] = CaughtUp(wave[p])
    BY DEF MakesEdges, Unused
<1>3. out'[p] = wave'[p].level /\ waveAt' = "load"
    BY DEF MakesEdges, WaveInv, WaveStates
<1> DEFINE w == wave[p]  v == wave'[p]
<1>4. /\ off /\ now \in 0..(Turn-1) /\ now \in Int /\ w \in WaveType /\ held \in 0..MaxOff /\ count \in Int
      /\ w.high \in Nat \ {0} /\ w.low \in Nat \ {0}
      /\ Lengths(w) /\ EspClockInv /\ WaveStates
    BY <1>1, <1>2 DEF WaveInv, WaveStates, WaveType, InWave, Lengths, EspClockInv, EspClockTypeOK
<1>5. PICK d \in Int : Ahead(p, d) /\ InPlace(p, d)
    BY <1>2 DEF WaveInv, InWave
<1>6. PICK y \in Nat : y < (MinLoad - 1) + (2 * MaxOff) + held + d /\ UpSince(p, d, y)
    BY <1>1, <1>5 DEF InPlace, PutOff
<1>7. PICK e \in Nat : e \in 0..held /\ count = Ticks(now + e) /\ d + e <= Half(w)
    BY <1>1, <1>5 DEF InPlace, ReadAgo
<1>8. w.next = Ticks(now + (d + e)) /\ 0 - (d + e) < Late
    <2>1. w.next = Ticks(Ticks(now + e) + d)
        BY <1>5, <1>7 DEF Ahead
    <2>2. e + d = d + e /\ e \in Int
        OBVIOUS
    <2>3. w.next = Ticks(now + (d + e))
        BY <1>4, <2>1, <2>2, Further
    <2>4. 0 - (d + e) < Late
        BY <1>4, <1>6, <1>7, ClockSizes, WaveSizes
    <2> QED BY <2>3, <2>4
<1>9. d + e \in Int
    OBVIOUS
<1>10. /\ v \in WaveType /\ Lengths(v) /\ v.high = w.high /\ v.low = w.low
       /\ v.until = w.until /\ v.active = w.active /\ v.timed = w.timed
       /\ \E a \in Int :
             /\ a > 0 /\ a <= Half(v) /\ v.next = Ticks(now + a)
             /\ \E k \in Int : EdgeAt(v) - a = (EdgeAt(w) - (d + e)) + ((w.high + w.low) * k)
    BY <1>2, <1>4, <1>7, <1>8, <1>9, CatchesUp
<1>11. PICK a \in Int, k \in Int :
             /\ a > 0 /\ a <= Half(v) /\ v.next = Ticks(now + a)
             /\ EdgeAt(v) - a = (EdgeAt(w) - (d + e)) + ((w.high + w.low) * k)
    BY <1>10
<1>12. Half(v) \in Nat /\ Half(v) <= Turn \div 2
    BY <1>10 DEF Half, Lengths, WaveType
<1>13. Ticks(v.next - now) = a
    <2>1. a \in 0..(Turn-1)
        BY <1>11, <1>12, ClockSizes, WaveSizes
    <2> QED BY <1>4, <1>11, <2>1, Distance
<1>14. Ahead(p, a - e)'
    <2>1. v.next = Ticks(count + (a - e))
        <3>1. e \in Int /\ a - e \in Int /\ e + (a - e) = a
            OBVIOUS
        <3>2. Ticks(Ticks(now + e) + (a - e)) = Ticks(now + (e + (a - e)))
            BY <1>4, <3>1, Further
        <3> QED BY <1>7, <1>11, <3>1, <3>2
    <2>2. phase[p] = (EdgeAt(v) - (a - e)) % (v.high + v.low)
        <3> DEFINE u == w.high + w.low  n == EdgeAt(w) - d
        <3>1. EdgeAt(w) \in Int /\ EdgeAt(v) \in Int /\ u \in Nat \ {0} /\ n \in Int /\ u * k \in Int
            <4>1. v.high = w.high /\ v.low = w.low /\ d \in Int
                BY <1>10
            <4>2. EdgeAt(w) \in Int /\ EdgeAt(v) \in Int
                BY <1>4, <4>1 DEF EdgeAt
            <4>3. u \in Nat \ {0}
                BY <1>4
            <4> HIDE DEF u
            <4> QED BY <4>2, <4>3
        <3>2. EdgeAt(v) - (a - e) = n + (u * k)
            BY <1>11, <3>1
        <3>3. phase[p] = n % u
            BY <1>5 DEF Ahead, Period
        <3> HIDE DEF u, n
        <3>4. (n + (u * k)) % u = n % u
            BY <3>1, SameRemainder
        <3> QED BY <1>10, <3>2, <3>3, <3>4 DEF u
    <2>3. a - e <= Half(v)
        BY <1>11, <1>12
    <2> QED BY <1>1, <2>1, <2>2, <2>3 DEF Ahead, Period
<1>15. UpSince(p, a - e, held - e)'
    <2> SUFFICES ASSUME v.timed PROVE UpSince(p, a - e, held - e)'
        BY DEF UpSince
    <2>1. y - d < Late
        BY <1>4, <1>6, ClockSizes, WaveSizes
    <2>2. w.timed /\ Half(v) = v.high
        BY <1>10 DEF Lengths, Half
    <2>3. PICK o \in Int : /\ 0 - o < MsTurn \div 2
                           /\ wholeMs = Millis(w.until + o)
                           /\ (o * PerMs) + intoMs <= held
        BY <1>2, <1>4, <1>6, <2>1, <2>2, NotUpYet
    <2>4. o * PerMs \in Int /\ intoMs \in Int /\ v.high \in Nat
        BY <1>4, <1>10, ClockSizes, WaveSizes DEF EspClockInv, EspClockTypeOK
    <2>5. (o * PerMs) + intoMs + (a - e) <= v.high + (held - e)
        BY <1>4, <1>11, <2>2, <2>3, <2>4
    <2> QED BY <1>1, <1>10, <2>3, <2>5 DEF UpSince
<1>16. ReadAgo(e)'
    BY <1>1, <1>7 DEF ReadAgo
<1>17. a \in Nat
    BY <1>11
<1> QED BY <1>2, <1>10, <1>11, <1>13, <1>14, <1>15, <1>16, <1>17 DEF Lengths

\* that the soonest edge is further than none of them,
LEMMA SoonestIs ==
    ASSUME WaveInv, MakesEdges, NEW p \in Pins, wave'[p].active
    PROVE  soonest' \in Nat /\ soonest' <= Ticks(wave'[p].next - now)
<1> DEFINE on == {q \in Pins : wave'[q].active}
           to == {Ticks(wave'[q].next - now) : q \in on}
<1>1. p \in on /\ on # {} /\ to # {}
    OBVIOUS
<1>2. to \in SUBSET Nat
    <2> SUFFICES ASSUME NEW q \in on PROVE Ticks(wave'[q].next - now) \in Nat
        OBVIOUS
    <2> QED BY EdgesOf
<1>3. \E t \in to : \A q \in on : t <= Ticks(wave'[q].next - now)
    <2>1. \E t \in to : \A k \in to : t <= k
        <3> HIDE DEF to
        <3> QED BY <1>1, <1>2, LeastOf
    <2> QED BY <2>1
<1>4. soonest' = CHOOSE t \in to : \A q \in on : t <= Ticks(wave'[q].next - now)
    BY <1>1 DEF MakesEdges
<1> HIDE DEF to
<1> QED BY <1>1, <1>2, <1>3, <1>4

\* and that it is known how far each is.
LEMMA EdgesKeepPlace ==
    ASSUME WaveInv, MakesEdges, NEW p \in Pins, wave'[p].active
    PROVE  InWave(p)'
<1>1. soonest' <= Ticks(wave'[p].next - now)
    BY SoonestIs
<1>2. /\ out'[p] = wave'[p].level /\ waveAt' = "load" /\ held' = held
      /\ wave'[p] \in WaveType /\ Lengths(wave[p])'
    BY EdgesOf DEF MakesEdges, WaveInv, WaveStates, espClockVars
<1>3. PICK a \in Nat, e \in Nat :
          /\ a > 0 /\ a <= Half(wave'[p]) /\ Ticks(wave'[p].next - now) = a
          /\ ReadAgo(e)' /\ Ahead(p, a - e)' /\ UpSince(p, a - e, held - e)'
    BY EdgesOf
<1>4. PICK d \in Int : d = a - e
    OBVIOUS
<1>5. d + e = a
    BY <1>4
<1>6. Loading(p, d)'
    BY <1>1, <1>3, <1>4, <1>5 DEF Loading
<1>7. InPlace(p, d)'
    BY <1>2, <1>6 DEF InPlace
<1> QED BY <1>2, <1>3, <1>4, <1>7 DEF InWave

\* A call: the pin's own wave, and those of the others.
LEMMA CallKeepsPlaces ==
    ASSUME WaveInv, NEW q \in Pins, NEW p \in Pins,
           \/ \E high \in Nat \ {0}, low \in Nat \ {0}, duration \in 0..((MsTurn \div 2) - 1) :
                /\ StartWave(q, high, low, duration)
                /\ high <= Turn \div 2 /\ low <= Turn \div 2
                /\ duration # 0 => high = low /\ high + Late < (MsTurn \div 2) * PerMs
           \/ \E end \in {0, 1} : StopWave(q, end)
    PROVE  /\ wave' \in [Pins -> WaveType] /\ out' \in [Pins -> {0, 1}]
           /\ wave'[p].active => InWave(p)'
<1>1. wave \in [Pins -> WaveType] /\ out \in [Pins -> {0, 1}] /\ phase \in [Pins -> Int]
    BY DEF WaveInv, WaveStates
<1>2. ASSUME Called(q), NEW w \in WaveType, wave' = [wave EXCEPT ![q] = w],
             NEW end \in {0, 1}, out' = [out EXCEPT ![q] = end],
             w.active => InWave(q)'
      PROVE  /\ wave' \in [Pins -> WaveType] /\ out' \in [Pins -> {0, 1}]
             /\ wave'[p].active => InWave(p)'
    <2>1. wave' \in [Pins -> WaveType] /\ out' \in [Pins -> {0, 1}]
        BY <1>1, <1>2
    <2>2. CASE p = q
        BY <1>1, <1>2, <2>1, <2>2
    <2>3. CASE p # q
        <3>1. /\ wave'[p] = wave[p] /\ out'[p] = out[p] /\ phase'[p] = phase[p]
              /\ waveAt = "sketch" /\ waveAt' = "look" /\ Hold
            BY <1>1, <1>2, <2>3 DEF Called
        <3> QED BY <2>1, <3>1, TakingKeepsPlace
    <2> QED BY <2>2, <2>3
<1>3. ASSUME NEW high \in Nat \ {0}, NEW low \in Nat \ {0}, NEW duration \in 0..((MsTurn \div 2) - 1),
             StartWave(q, high, low, duration), high <= Turn \div 2, low <= Turn \div 2,
             duration # 0 => high = low /\ high + Late < (MsTurn \div 2) * PerMs
      PROVE  /\ wave' \in [Pins -> WaveType] /\ out' \in [Pins -> {0, 1}]
             /\ wave'[p].active => InWave(p)'
    <2> DEFINE w == [high |-> high, low |-> low, next |-> Ticks(count + high),
                     until |-> Millis(milliseconds + duration), active |-> TRUE, level |-> 1,
                     timed |-> duration # 0]
    <2>1. Called(q) /\ wave' = [wave EXCEPT ![q] = w] /\ out' = [out EXCEPT ![q] = 1]
        BY <1>3 DEF StartWave
    <2>2. InWave(q)' /\ wave'[q] \in WaveType
        BY <1>3, StartedInWave
    <2>3. w \in WaveType
        BY <1>1, <2>1, <2>2
    <2> HIDE DEF w
    <2> QED BY <1>2, <2>1, <2>2, <2>3
<1>4. ASSUME NEW end \in {0, 1}, StopWave(q, end)
      PROVE  /\ wave' \in [Pins -> WaveType] /\ out' \in [Pins -> {0, 1}]
             /\ wave'[p].active => InWave(p)'
    <2>1. Unused \in WaveType /\ ~Unused.active
        BY ClockSizes, WaveSizes DEF Unused, WaveType
    <2>2. Called(q) /\ wave' = [wave EXCEPT ![q] = Unused] /\ out' = [out EXCEPT ![q] = end]
        BY <1>4 DEF StopWave
    <2> QED BY <1>2, <2>1, <2>2
<1> QED BY <1>3, <1>4

\* What a sketch may call.
LEMMA CallsAre ==
    ASSUME WaveInv, WaveCalls
    PROVE  \E q \in Pins :
               /\ \/ \E high \in Nat \ {0}, low \in Nat \ {0}, duration \in 0..((MsTurn \div 2) - 1) :
                       /\ StartWave(q, high, low, duration)
                       /\ high <= Turn \div 2 /\ low <= Turn \div 2
                       /\ duration # 0 => high = low /\ high + Late < (MsTurn \div 2) * PerMs
                  \/ \E end \in {0, 1} : StopWave(q, end)
               /\ Called(q)
<1>1. CASE \E q \in PwmPins : AnalogWrite(q)
    <2>1. PICK q \in PwmPins : AnalogWrite(q)
        BY <1>1
    <2>2. q \in Pins
        BY DEF Pins
    <2>3. CASE \E high \in Duties : StartWave(q, high, PerMs - high, 0)
        <3>1. PICK high \in Duties : StartWave(q, high, PerMs - high, 0)
            BY <2>3
        <3>2. high \in 1..(PerMs-1)
            BY WaveAssumption DEF WaveAssumption
        <3>3. high \in Nat \ {0} /\ PerMs - high \in Nat \ {0} /\ high <= Turn \div 2 /\ PerMs - high <= Turn \div 2
            BY <3>2, ClockSizes, WaveSizes
        <3>4. 0 \in 0..((MsTurn \div 2) - 1)
            BY ClockSizes
        <3> QED BY <2>2, <3>1, <3>3, <3>4 DEF StartWave
    <2>4. CASE StopWave(q, 0) \/ StopWave(q, 1)
        BY <2>2, <2>4 DEF StopWave
    <2> QED BY <2>1, <2>3, <2>4 DEF AnalogWrite
<1>2. CASE \E q \in TonePins : Tone(q) \/ NoTone(q)
    <2>1. PICK q \in TonePins : Tone(q) \/ NoTone(q)
        BY <1>2
    <2>2. q \in Pins
        BY DEF Pins
    <2>3. CASE Tone(q)
        <3>1. PICK half \in HalfPeriods, duration \in Durations : StartWave(q, half, half, duration)
            BY <2>3 DEF Tone
        <3>2. /\ half \in 1..(Turn \div 2) /\ half + Late < (MsTurn \div 2) * PerMs
              /\ duration \in 0..((MsTurn \div 2) - 1)
            BY WaveAssumption DEF WaveAssumption
        <3>3. half \in Nat \ {0} /\ half <= Turn \div 2
            BY <3>2, ClockSizes, WaveSizes
        <3> QED BY <2>2, <3>1, <3>2, <3>3 DEF StartWave
    <2>4. CASE NoTone(q)
        BY <2>2, <2>4 DEF NoTone, StopWave
    <2> QED BY <2>1, <2>3, <2>4
<1> QED BY <1>1, <1>2 DEF WaveCalls

\* The sketch starts with no wave.
LEMMA InitWaveInv == WaveInit => WaveInv
<1> SUFFICES ASSUME WaveInit PROVE WaveInv
    OBVIOUS
<1>1. EspClockInv
    BY InitInv DEF WaveInit
<1>2. WaveStates
    <2>1. Unused \in WaveType
        BY ClockSizes DEF Unused, WaveType
    <2>2. wave \in [Pins -> WaveType] /\ out \in [Pins -> {0, 1}] /\ phase \in [Pins -> Int]
        BY <2>1 DEF WaveInit
    <2>3. now \in 0..(Turn-1) /\ soonest \in Nat /\ timer \in Int
        BY ClockSizes DEF WaveInit, NoTimer
    <2>4. waveAt = "sketch" /\ off = FALSE /\ fired = FALSE /\ held = 0
        BY DEF WaveInit, EspClockInit
    <2>5. held \in 0..MaxOff
        BY <2>4, WaveSizes
    <2> QED BY <2>2, <2>3, <2>4, <2>5 DEF WaveStates
<1>3. \A p \in Pins : ~wave[p].active
    BY DEF WaveInit, Unused
<1> QED BY <1>1, <1>2, <1>3 DEF WaveInv

\* Every step keeps the types of the waves.
LEMMA StepWaveStates == WaveInv /\ [WaveNext]_espVars => WaveStates'
<1> SUFFICES ASSUME WaveInv, [WaveNext]_espVars PROVE WaveStates'
    OBVIOUS
<1> USE DEF WaveStates
<1>1. WaveStates /\ count \in 0..(Turn-1)
    BY DEF WaveInv, EspClockInv, EspClockTypeOK
<1>2. CASE WaveCount
    <2>1. phase' \in [Pins -> Int]
        <3> SUFFICES ASSUME NEW p \in Pins
                     PROVE  (IF wave[p].active THEN (phase[p] + 1) % Period(p) ELSE 0) \in Int
            BY <1>2 DEF WaveCount
        <3>1. CASE wave[p].active
            <4>1. wave[p].high \in Nat \ {0} /\ wave[p].low \in Nat \ {0}
                BY <1>1, <3>1 DEF WaveInv, InWave, Lengths, WaveType
            <4>2. Period(p) \in Nat \ {0} /\ phase[p] + 1 \in Int
                BY <1>1, <4>1 DEF Period
            <4> HIDE DEF WaveStates
            <4> QED BY <3>1, <4>2, Remainder
        <3> QED BY <3>1
    <2>2. timer' \in Int /\ fired' \in BOOLEAN
        BY <1>1, <1>2 DEF WaveCount
    <2>3. held' \in 0..MaxOff
        <3>1. (off => held' = held + 1 /\ held < MaxOff) /\ (~off => held' = 0)
            BY <1>2 DEF WaveCount, Count
        <3> QED BY <1>1, <3>1, WaveSizes
    <2> QED BY <1>1, <1>2, <2>1, <2>2, <2>3 DEF WaveCount, Count
<1>3. CASE OtherRoutines
    BY <1>1, <1>3, WaveSizes DEF OtherRoutines, EspTick, Urgent, Hold, Release, waveVars
<1>4. CASE TimerInterrupt
    BY <1>1, <1>4 DEF TimerInterrupt, Hold
<1>5. CASE ReadsCounter
    BY <1>1, <1>5 DEF ReadsCounter, espClockVars
<1>6. CASE MakesEdges
    <2> DEFINE on == {p \in Pins : wave'[p].active}
    <2>1. wave' \in [Pins -> WaveType]
        <3>1. \A p \in Pins : wave'[p] \in WaveType
            <4> SUFFICES ASSUME NEW p \in Pins PROVE wave'[p] \in WaveType
                OBVIOUS
            <4>1. CASE wave'[p].active
                BY <1>6, <4>1, EdgesOf
            <4>2. CASE ~wave'[p].active
                <5>1. Unused \in WaveType
                    BY ClockSizes, WaveSizes DEF Unused, WaveType
                <5>2. ASSUME wave[p].active, ~Ended(wave[p]) PROVE FALSE
                    <6>1. wave'[p] = CaughtUp(wave[p])
                        BY <1>6, <5>2 DEF MakesEdges
                    <6>2. CaughtUp(wave[p]).active = wave[p].active
                        BY <1>1 DEF CaughtUp, AfterEdges, WaveType
                    <6> QED BY <4>2, <5>2, <6>1, <6>2
                <5> QED BY <1>1, <1>6, <5>1, <5>2 DEF MakesEdges
            <4> QED BY <4>1, <4>2
        <3> QED BY <1>6, <3>1 DEF MakesEdges
    <2>2. out' \in [Pins -> {0, 1}]
        BY <1>1, <1>6, <2>1 DEF MakesEdges, WaveType
    <2>3. soonest' \in Nat
        <3>1. CASE on = {}
            BY <1>6, <3>1 DEF MakesEdges
        <3>2. CASE on # {}
            BY <1>6, <3>2, SoonestIs
        <3> QED BY <3>1, <3>2
    <2>4. timer' \in Int /\ waveAt' \in {"load", "return"}
        <3>1. CASE on = {}
            BY <1>6, <3>1 DEF MakesEdges, NoTimer
        <3>2. CASE on # {}
            BY <1>1, <1>6, <3>2 DEF MakesEdges
        <3> QED BY <3>1, <3>2
    <2> QED BY <1>1, <1>6, <2>1, <2>2, <2>3, <2>4 DEF MakesEdges, espClockVars
<1>7. CASE LoadsTimer
    <2>1. timer' \in Int
        BY <1>1, <1>7, ClockSizes, WaveSizes DEF LoadsTimer
    <2> QED BY <1>1, <1>7, <2>1 DEF LoadsTimer, espClockVars
<1>8. CASE ReturnsFrom
    BY <1>1, <1>8, ClockSizes, WaveSizes DEF ReturnsFrom, Release
<1>9. CASE WaveCalls
    <2>1. PICK q \in Pins :
              /\ \/ \E high \in Nat \ {0}, low \in Nat \ {0}, duration \in 0..((MsTurn \div 2) - 1) :
                      /\ StartWave(q, high, low, duration)
                      /\ high <= Turn \div 2 /\ low <= Turn \div 2
                      /\ duration # 0 => high = low /\ high + Late < (MsTurn \div 2) * PerMs
                 \/ \E end \in {0, 1} : StopWave(q, end)
              /\ Called(q)
        BY <1>9, CallsAre
    <2>2. wave' \in [Pins -> WaveType] /\ out' \in [Pins -> {0, 1}]
        BY <2>1, CallKeepsPlaces
    <2>3. /\ waveAt' = "look" /\ off' = TRUE /\ held' = held /\ phase' \in [Pins -> Int]
          /\ now' = now /\ soonest' = soonest /\ timer' = timer /\ fired' = fired
        BY <1>1, <2>1 DEF Called, Hold
    <2> QED BY <1>1, <2>2, <2>3
<1>10. CASE UNCHANGED espVars
    BY <1>1, <1>10 DEF espVars, espClockVars, waveVars
<1> QED BY <1>2, <1>3, <1>4, <1>5, <1>6, <1>7, <1>8, <1>9, <1>10 DEF WaveNext, Reschedule

\* Every step keeps every wave in its place.
LEMMA StepWaveInv == WaveInv /\ [WaveNext]_espVars => WaveInv'
<1> SUFFICES ASSUME WaveInv, [WaveNext]_espVars PROVE WaveInv'
    OBVIOUS
<1>1. EspClockInv'
    BY WaveStepIsClockStep, StepInv DEF WaveInv
<1>2. WaveStates'
    BY StepWaveStates
<1>3. ASSUME NEW p \in Pins, wave'[p].active PROVE InWave(p)'
    <2>1. CASE WaveCount
        BY <1>3, <2>1, CountKeepsPlace DEF WaveCount
    <2>2. CASE OtherRoutines \/ ReturnsFrom
        <3>1. wave[p].active
            BY <1>3, <2>2 DEF OtherRoutines, ReturnsFrom, waveVars
        <3> QED BY <2>2, <3>1, OthersKeepPlace
    <2>3. CASE TimerInterrupt
        BY <1>3, <2>3, TakingKeepsPlace DEF TimerInterrupt
    <2>4. CASE ReadsCounter
        BY <1>3, <2>4, ReadingKeepsPlace DEF ReadsCounter
    <2>5. CASE MakesEdges
        BY <1>3, <2>5, EdgesKeepPlace
    <2>6. CASE LoadsTimer
        BY <1>3, <2>6, LoadingKeepsPlace DEF LoadsTimer
    <2>7. CASE WaveCalls
        BY <1>3, <2>7, CallsAre, CallKeepsPlaces
    <2>8. CASE UNCHANGED espVars
        BY <1>3, <2>8 DEF espVars, espClockVars, waveVars, WaveInv, InWave, Lengths, Ahead, Period, InPlace, Armed,
                          PutOff, UpSince, ReadAgo, Loading
    <2> QED BY <2>1, <2>2, <2>3, <2>4, <2>5, <2>6, <2>7, <2>8 DEF WaveNext, Reschedule
<1> QED BY <1>1, <1>2, <1>3 DEF WaveInv

-----------------------------------------------------------------------------
(* EspWave: what follows *)

\* Each pin has the level that its wave had a moment ago.
LEMMA InvEdgesInTime == WaveInv => EdgesInTime
<1> SUFFICES ASSUME WaveInv, NEW p \in Pins, wave[p].active
             PROVE  \E d \in 0..Late :
                        out[p] = IF (phase[p] - d) % Period(p) < wave[p].high THEN 1 ELSE 0
    BY DEF EdgesInTime
<1> DEFINE w == wave[p]  u == w.high + w.low
<1>1. PICK d \in Int : Ahead(p, d) /\ InPlace(p, d)
    BY DEF WaveInv, InWave
<1>2. PICK y \in Nat : y - d < Late
    BY <1>1, InTime DEF WaveInv
<1>3. /\ w.high \in Nat \ {0} /\ w.low \in Nat \ {0} /\ w.level \in {0, 1} /\ out[p] = w.level
      /\ EdgeAt(w) \in Int /\ u \in Nat \ {0} /\ phase[p] = (EdgeAt(w) - d) % u /\ Period(p) = u
      /\ d <= Half(w)
    BY <1>1 DEF WaveInv, WaveStates, WaveType, InWave, Lengths, Ahead, EdgeAt, Period
<1>4. ASSUME NEW a \in Int, a > 0, a <= Half(w)
      PROVE  w.level = IF (EdgeAt(w) - a) % u < w.high THEN 1 ELSE 0
    <2>1. (EdgeAt(w) - a) \in 0..(u-1) /\ (EdgeAt(w) - a < w.high <=> w.level = 1)
        BY <1>3, <1>4 DEF EdgeAt, Half
    <2>2. (EdgeAt(w) - a) % u = EdgeAt(w) - a
        <3> DEFINE n == EdgeAt(w) - a
        <3>1. n \in Int /\ n \in 0..(u-1)
            BY <1>3, <2>1
        <3> HIDE DEF n, u
        <3> QED BY <1>3, <3>1, SmallRemainder DEF n
    <2> QED BY <1>3, <2>1, <2>2
<1>5. CASE d > 0
    <2>1. (phase[p] - 0) % u = (EdgeAt(w) - d) % u
        <3> DEFINE n == EdgeAt(w) - d
        <3>1. n \in Int /\ 0 \in Int
            BY <1>3
        <3> HIDE DEF n, u
        <3>2. ((n % u) + 0) % u = (n + 0) % u
            BY <1>3, <3>1, ReducedSum
        <3>3. n % u \in Int
            BY <1>3, <3>1, Remainder
        <3> QED BY <1>3, <3>1, <3>2, <3>3 DEF n
    <2>2. 0 \in 0..Late
        BY ClockSizes, WaveSizes
    <2> QED BY <1>3, <1>4, <1>5, <2>1, <2>2
<1>6. CASE d <= 0
    <2>1. 1 - d \in 0..Late
        BY <1>2, <1>6, ClockSizes, WaveSizes
    <2>2. (phase[p] - (1 - d)) % u = (EdgeAt(w) - 1) % u
        <3> DEFINE n == EdgeAt(w) - d  m == 0 - (1 - d)
        <3>1. n \in Int /\ m \in Int /\ n + m = EdgeAt(w) - 1
            BY <1>3
        <3>2. \A i \in Int : i - (1 - d) = i + m
            OBVIOUS
        <3> HIDE DEF n, m, u
        <3>3. ((n % u) + m) % u = (n + m) % u
            BY <1>3, <3>1, ReducedSum
        <3>4. n % u \in Int
            BY <1>3, <3>1, Remainder
        <3> QED BY <1>3, <3>1, <3>2, <3>3, <3>4 DEF n
    <2>3. 1 <= Half(w)
        BY <1>3 DEF Half
    <2> QED BY <1>3, <1>4, <2>1, <2>2, <2>3
<1> QED BY <1>5, <1>6

\* A tone is over for no longer than its half and that.
LEMMA InvTonesEndInTime == WaveInv => TonesEndInTime
<1> SUFFICES ASSUME WaveInv, NEW p \in Pins, wave[p].active, Ended(wave[p])
             PROVE  (Millis(milliseconds - wave[p].until) * PerMs) + intoMs <= wave[p].high + Late
    BY DEF TonesEndInTime
<1>1. PICK d \in Int : Ahead(p, d) /\ InPlace(p, d)
    BY DEF WaveInv, InWave
<1>2. PICK y \in Nat : UpSince(p, d, y) /\ y - d < Late
    BY <1>1, InTime DEF WaveInv
<1>3. intoMs \in Nat /\ due \in BOOLEAN
    BY ClockSizes, WaveSizes DEF WaveInv, EspClockInv, EspClockTypeOK
<1>4. /\ wave[p].high \in Nat /\ wave[p].until \in 0..(MsTurn-1)
      /\ wave[p].timed /\ wave[p].high + Late < (MsTurn \div 2) * PerMs
    BY DEF WaveInv, WaveStates, WaveType, InWave, Lengths, Ended
<1>5. PICK o \in Int : /\ 0 - o < MsTurn \div 2
                       /\ wholeMs = Millis(wave[p].until + o)
                       /\ (o * PerMs) + intoMs + d <= wave[p].high + y
    BY <1>2, <1>4 DEF UpSince
<1>6. o < MsTurn \div 2
    <2>1. y \in Int
        BY <1>2
    <2> QED BY <1>2, <1>3, <1>4, <1>5, <2>1, NotSinceLong
<1> DEFINE q == IF due THEN o - 1 ELSE o
<1>7. Millis(milliseconds - wave[p].until) = q
    <2>1. IF q >= 0 THEN Millis(milliseconds - wave[p].until) = q
                    ELSE Millis(milliseconds - wave[p].until) >= MsTurn \div 2
        BY <1>4, <1>5, <1>6, MillisecondsSince DEF WaveInv
    <2>2. Millis(milliseconds - wave[p].until) < MsTurn \div 2
        BY DEF Ended
    <2>3. Millis(milliseconds - wave[p].until) \in Int
        <3>1. milliseconds - wave[p].until \in Int
            BY <1>4 DEF WaveInv, EspClockInv, EspClockTypeOK
        <3> QED BY <3>1, InRange
    <2> HIDE DEF q
    <2> QED BY <2>1, <2>2, <2>3, ClockSizes, WaveSizes
<1>8. q * PerMs <= o * PerMs /\ q * PerMs \in Int /\ o * PerMs \in Int
    <2>1. (o - 1) * PerMs = (o * PerMs) - PerMs /\ o * PerMs \in Int
        BY ClockSizes, WaveSizes
    <2>2. q = o - 1 \/ q = o
        OBVIOUS
    <2> HIDE DEF q
    <2> QED BY <2>1, <2>2, ClockSizes, WaveSizes
<1> HIDE DEF q
<1> QED BY <1>2, <1>3, <1>4, <1>5, <1>7, <1>8, ClockSizes, WaveSizes

\* Waves keep time whatever the sketch calls, for whatever pins, and however other
\* routines put the interrupt off: no edge is lost or more than Late behind, and no tone
\* outlasts its duration by more than the half of a period in which it ends.
THEOREM WavesAlwaysKeepTime == WaveSpec => []WavesKeepTime
<1>1. WaveInv => WavesKeepTime
    BY InvEdgesInTime, InvTonesEndInTime DEF WavesKeepTime
<1> QED BY <1>1, InitWaveInv, StepWaveInv, PTL DEF WaveSpec

=============================================================================
