------------------------------ MODULE EspClock ------------------------------
(***************************************************************************)
(* The millisecond clock that every ESP8266 program is linked with         *)
(* (runtime.c).  A hardware timer counts and interrupts when it comes to   *)
(* the alarm; the interrupt counts a millisecond and moves the alarm on.   *)
(* The alarm is compared for equality: one that the counter has passed     *)
(* comes a whole turn of the counter later.                                *)
(*                                                                         *)
(* Time is the timer's: a step of the program or of a routine takes none,  *)
(* and an interrupt that can be taken is taken before time goes on.        *)
(***************************************************************************)
EXTENDS Integers

CONSTANTS
    Turn,      \* values of the counter, 2^32 on the chip
    MsTurn,    \* values of `milliseconds`, 2^32 as well
    PerMs,     \* FRC2_TICKS_PER_MS, 5000
    MaxBusy,   \* the longest that interrupts stay off: a routine of the
               \* sketch, reschedule, or both on end
    Starts     \* what the counter may hold when a program begins

ASSUME EspAssumption ==
    /\ Turn \in Nat /\ MsTurn \in Nat /\ PerMs \in Nat /\ MaxBusy \in Nat
    /\ MaxBusy < PerMs /\ 2 * PerMs < Turn /\ 1 < MsTurn
    /\ Starts \subseteq 0..(Turn-1)

VARIABLES
    count,     \* FRC2_COUNT
    alarm,     \* FRC2_ALARM
    due,       \* the alarm's interrupt is pending
    milliseconds,  \* the clock's count
    off,       \* interrupts cannot be taken
    held,      \* history: for how many ticks
    wholeMs,   \* history: whole milliseconds since bw_millis_begin,
    intoMs     \* history: and ticks since the last of them

espClockVars == <<count, alarm, due, milliseconds, off, held, wholeMs, intoMs>>

\* u32 arithmetic, on the counter's values and on the millisecond count's
Ticks(x) == x % Turn
Millis(x) == x % MsTurn

\* bw_millis_begin: the counter goes on from where it is.
EspClockInit ==
    /\ count \in Starts
    /\ alarm = Ticks(count + PerMs)
    /\ due = FALSE /\ milliseconds = 0
    /\ off = FALSE /\ held = 0
    /\ wholeMs = 0 /\ intoMs = 0

Urgent == due /\ ~off

\* The timer counts.
Count ==
    /\ ~Urgent
    /\ off => held < MaxBusy
    /\ count' = Ticks(count + 1)
    /\ due' = (due \/ count' = alarm)
    /\ held' = IF off THEN held + 1 ELSE 0
    /\ intoMs' = IF intoMs + 1 = PerMs THEN 0 ELSE intoMs + 1
    /\ wholeMs' = IF intoMs + 1 = PerMs THEN Millis(wholeMs + 1) ELSE wholeMs
    /\ UNCHANGED <<alarm, milliseconds, off>>

\* mutant: the alarm is set from the counter, which has gone on
EspTickFromCount ==
    /\ Urgent
    /\ due' = FALSE
    /\ milliseconds' = Millis(milliseconds + 1)
    /\ alarm' = Ticks(count + PerMs)
    /\ UNCHANGED <<count, off, held, wholeMs, intoMs>>

\* tick
EspTick ==
    /\ Urgent
    /\ due' = FALSE
    /\ milliseconds' = Millis(milliseconds + 1)
    /\ alarm' = Ticks(alarm + PerMs)
    /\ UNCHANGED <<count, off, held, wholeMs, intoMs>>

\* Another routine runs, or interrupts_off; a pending tick comes first.
Hold ==
    /\ ~off /\ ~due
    /\ off' = TRUE
    /\ UNCHANGED <<count, alarm, due, milliseconds, held, wholeMs, intoMs>>

\* It returns, or interrupts_restore.
Release ==
    /\ off
    /\ off' = FALSE /\ held' = 0
    /\ UNCHANGED <<count, alarm, due, milliseconds, wholeMs, intoMs>>

EspClockNext == Count \/ EspTick \/ Hold \/ Release

EspClockSpec == EspClockInit /\ [][EspClockNext]_espClockVars

-----------------------------------------------------------------------------

EspClockTypeOK ==
    /\ count \in 0..(Turn-1) /\ alarm \in 0..(Turn-1)
    /\ milliseconds \in 0..(MsTurn-1) /\ wholeMs \in 0..(MsTurn-1) /\ intoMs \in 0..(PerMs-1)
    /\ due \in BOOLEAN /\ off \in BOOLEAN /\ held \in 0..MaxBusy

\* `milliseconds` counts every millisecond of the timer and never drifts: it is
\* behind by one only while the tick waits for interrupts to be on again.
ClockKeepsTime ==
    wholeMs = IF due THEN Millis(milliseconds + 1) ELSE milliseconds

\* The alarm is where the current millisecond ends; while its interrupt is
\* pending, where it began, which is no longer ago than interrupts are off.
AlarmAhead ==
    IF due THEN /\ count = Ticks(alarm + intoMs)
                /\ intoMs <= MaxBusy
                /\ off => intoMs <= held
           ELSE alarm = Ticks(count + (PerMs - intoMs))

EspClockInv ==
    /\ EspClockTypeOK /\ ClockKeepsTime /\ AlarmAhead
    /\ off \/ held = 0
=============================================================================
