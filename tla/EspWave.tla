------------------------------ MODULE EspWave ------------------------------
(***************************************************************************)
(* The waveforms of the ESP8266's Arduino layer: analogWrite and tone are  *)
(* made by one timer, FRC1, which is loaded with the time to the next edge *)
(* of any pin and whose interrupt makes the edges that are due.  The table *)
(* of waves is shared by the sketch, which writes it with interrupts off,  *)
(* and the interrupt.                                                      *)
(***************************************************************************)
EXTENDS EspClock

CONSTANTS
    MaxOff,    \* the longest that interrupts stay off in a sketch with waves: the clock
               \* stands MaxBusy, but this is what the waves are late by,
    PwmPins,   \* the pins a sketch calls analogWrite for,
    TonePins,  \* and those it calls tone and noTone for
    MinLoad,   \* the least FRC1 is loaded with, 10
    Duties,    \* the ticks that analogWrite keeps a pin high, of PWM_PERIOD
    HalfPeriods, \* the ticks of half a period of tone
    Durations  \* in milliseconds, 0 for no end

\* The most that an edge is late: FRC1 is loaded, expires and is served, each of them
\* by an interrupt that may have been put off.
Late == (3 * MaxOff) + MinLoad - 1

\* PWM_PERIOD is a millisecond. No edge is as far as half a turn ahead or behind, and no
\* tone is over for half a turn of the milliseconds when it ends. A reschedule takes time.
ASSUME WaveAssumption ==
    /\ MinLoad \in Nat \ {0} /\ MaxOff \in 1..MaxBusy
    /\ Duties \subseteq 1..(PerMs-1) /\ HalfPeriods \subseteq 1..(Turn \div 2)
    /\ Durations \subseteq 0..((MsTurn \div 2) - 1)
    /\ Late < Turn \div 2
    /\ \A half \in HalfPeriods : half + Late < (MsTurn \div 2) * PerMs

VARIABLES
    wave,      \* the table; `high` and `low` are 0 in a pin's first call
    out,       \* the levels of the pins
    waveAt,    \* "sketch", "other": a routine that is not this one, or the step
               \* of reschedule that comes next
    now,       \* its local
    soonest,   \* its local
    timer,     \* FRC1's count, NoTimer when it is stopped
    fired,     \* FRC1's interrupt is pending
    phase      \* history: ticks since the wave began, modulo its period

waveVars == <<wave, out, waveAt, now, soonest, timer, fired, phase>>
espVars == <<espClockVars, waveVars>>

Pins == PwmPins \cup TonePins
NoTimer == 0 - 1
Unused == [high |-> 0, low |-> 0, next |-> 0, until |-> 0,
           active |-> FALSE, level |-> 0, timed |-> FALSE]

WaveInit ==
    /\ EspClockInit
    /\ wave = [p \in Pins |-> Unused]
    /\ out = [p \in Pins |-> 0]
    /\ waveAt = "sketch" /\ now = 0 /\ soonest = 0
    /\ timer = NoTimer /\ fired = FALSE
    /\ phase = [p \in Pins |-> 0]

Period(p) == wave[p].high + wave[p].low

\* FRC1 counts with FRC2; at zero it interrupts, and goes on from its other end,
\* which is so far away that it is taken to stand still.
WaveCount ==
    /\ ~(fired /\ ~off)
    /\ off => held < MaxOff
    /\ Count
    /\ timer' = IF timer > 0 THEN timer - 1 ELSE timer
    /\ fired' = (fired \/ timer = 1)
    /\ phase' = [p \in Pins |-> IF wave[p].active THEN (phase[p] + 1) % Period(p) ELSE 0]
    /\ UNCHANGED <<wave, out, waveAt, now, soonest>>

\* The millisecond tick, and the routines of others.
OtherRoutines ==
    \/ EspTick /\ UNCHANGED waveVars
    \/ /\ waveAt = "sketch" /\ ~fired /\ Hold
       /\ waveAt' = "other"
       /\ UNCHANGED <<wave, out, now, soonest, timer, fired, phase>>
    \/ /\ waveAt = "other" /\ Release
       /\ waveAt' = "sketch"
       /\ UNCHANGED <<wave, out, now, soonest, timer, fired, phase>>

-----------------------------------------------------------------------------
(* reschedule *)

\* (int)(now - next) >= 0 and (int)(bw_millis() - until) >= 0
Overdue(w, time) == Ticks(time - w.next) < Turn \div 2
Ended(w) == w.timed /\ Millis(milliseconds - w.until) < MsTurn \div 2

\* The wave w when it has made n edges more.
AfterEdges(w, n) ==
    LET toggled == IF n % 2 = 0 THEN 0 ELSE IF w.level = 1 THEN w.low ELSE w.high
    IN [w EXCEPT !.next = Ticks(@ + ((n \div 2) * (w.high + w.low)) + toggled),
                 !.level = (@ + n) % 2]

\* mutant: one edge an interrupt, however many are due
OneEdge(w) == IF Overdue(w, now) THEN AfterEdges(w, 1) ELSE w

\* Every edge that is due.
CaughtUp(w) ==
    AfterEdges(w, CHOOSE n \in 0..Turn : /\ ~Overdue(AfterEdges(w, n), now)
                                      /\ \A k \in 0..(n-1) : Overdue(AfterEdges(w, k), now))

ReadsCounter ==
    /\ waveAt = "look"
    /\ now' = count
    /\ waveAt' = "edges"
    /\ UNCHANGED <<espClockVars, wave, out, soonest, timer, fired, phase>>

\* The loop over the pins: ends the tones that are over, makes the edges that are
\* due, and finds the soonest of those to come.
MakesEdges ==
    /\ waveAt = "edges"
    /\ wave' = [p \in Pins |-> IF ~wave[p].active THEN wave[p]
                               ELSE IF Ended(wave[p]) THEN Unused
                               ELSE CaughtUp(wave[p])]
    /\ LET on == {p \in Pins : wave'[p].active} IN
       /\ out' = [p \in Pins |-> IF p \in on THEN wave'[p].level
                                 ELSE IF wave[p].active THEN 0 ELSE out[p]]
       /\ IF on = {} THEN timer' = NoTimer /\ waveAt' = "return" /\ soonest' = 0
          ELSE /\ soonest' = CHOOSE t \in {Ticks(wave'[p].next - now) : p \in on} :
                                 \A p \in on : t <= Ticks(wave'[p].next - now)
               /\ waveAt' = "load" /\ UNCHANGED timer
    /\ UNCHANGED <<espClockVars, now, fired, phase>>

\* FRC1_LOAD = soonest < 10 ? 10 : soonest
LoadsTimer ==
    /\ waveAt = "load"
    /\ timer' = IF soonest < MinLoad THEN MinLoad ELSE soonest
    /\ waveAt' = "return"
    /\ UNCHANGED <<espClockVars, wave, out, now, soonest, fired, phase>>

\* The interrupt's return, or interrupts_restore.
ReturnsFrom ==
    /\ waveAt = "return" /\ Release
    /\ waveAt' = "sketch" /\ now' = 0 /\ soonest' = 0
    /\ UNCHANGED <<wave, out, timer, fired, phase>>

Reschedule == ReadsCounter \/ MakesEdges \/ LoadsTimer \/ ReturnsFrom

\* timer_interrupt
TimerInterrupt ==
    /\ waveAt = "sketch" /\ fired /\ Hold
    /\ fired' = FALSE /\ waveAt' = "look"
    /\ UNCHANGED <<wave, out, now, soonest, timer, phase>>

-----------------------------------------------------------------------------
(* The sketch; each call ends in reschedule. *)

Called(p) ==
    /\ waveAt = "sketch" /\ ~fired /\ Hold
    /\ waveAt' = "look" /\ phase' = [phase EXCEPT ![p] = 0]
    /\ UNCHANGED <<now, soonest, timer, fired>>

\* start_wave
StartWave(p, high, low, duration) ==
    /\ Called(p)
    /\ wave' = [wave EXCEPT ![p] =
            [high |-> high, low |-> low, next |-> Ticks(count + high),
             until |-> Millis(milliseconds + duration), active |-> TRUE, level |-> 1,
             timed |-> duration # 0]]
    /\ out' = [out EXCEPT ![p] = 1]

\* stop_wave. The table's other columns are not read before start_wave has
\* written them.
StopWave(p, level) ==
    /\ Called(p)
    /\ wave' = [wave EXCEPT ![p] = Unused]
    /\ out' = [out EXCEPT ![p] = level]

AnalogWrite(p) ==
    \/ \E high \in Duties : StartWave(p, high, PerMs - high, 0)
    \/ StopWave(p, 0)
    \/ StopWave(p, 1)

Tone(p) == \E half \in HalfPeriods, duration \in Durations : StartWave(p, half, half, duration)

NoTone(p) == StopWave(p, 0)

WaveCalls ==
    \/ \E p \in PwmPins : AnalogWrite(p)
    \/ \E p \in TonePins : Tone(p) \/ NoTone(p)

WaveNext == WaveCount \/ OtherRoutines \/ TimerInterrupt \/ Reschedule \/ WaveCalls

WaveSpec == WaveInit /\ [][WaveNext]_espVars

WaveFairSpec ==
    /\ WaveSpec
    /\ WF_espVars(WaveCount) /\ WF_espVars(OtherRoutines /\ ~off') /\ WF_espVars(TimerInterrupt)
    /\ WF_espVars(Reschedule)

-----------------------------------------------------------------------------

WaveTypeOK ==
    /\ EspClockTypeOK
    /\ \A p \in Pins : /\ wave[p].next \in 0..(Turn-1) /\ wave[p].until \in 0..(MsTurn-1)
                       /\ wave[p].level \in {0, 1} /\ out[p] \in {0, 1}
    /\ waveAt \in {"sketch", "other", "look", "edges", "load", "return"}
    /\ now \in 0..(Turn-1) /\ soonest \in 0..(Turn-1) /\ timer \in NoTimer..Turn

\* A pin has the level that its wave had no more than `Late` ticks ago: no edge is
\* lost, made twice or put off for a turn of a counter, and none drifts, whatever
\* other waves and routines there are.
EdgesInTime ==
    \A p \in Pins : wave[p].active =>
        \E d \in 0..Late :
            out[p] = IF (phase[p] - d) % Period(p) < wave[p].high THEN 1 ELSE 0

\* A tone with a duration sounds no longer than that and the half of a period in
\* which it ends.
TonesEndInTime ==
    \A p \in Pins : wave[p].active /\ Ended(wave[p]) =>
        (Millis(milliseconds - wave[p].until) * PerMs) + intoMs <= wave[p].high + Late

\* No wave loses an edge or drifts, and no tone outlasts its duration by more than the
\* half of a period in which it ends.
WavesKeepTime == EdgesInTime /\ TonesEndInTime

\* Each active pin alternates between HIGH and LOW.
Alternates == \A p \in Pins : []<>(wave[p].active => out[p] = 0)
=============================================================================
