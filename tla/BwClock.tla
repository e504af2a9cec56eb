------------------------------ MODULE BwClock ------------------------------
(***************************************************************************)
(* The millisecond clock of a generated 8051 program: Timer 0 overflows    *)
(* every millisecond, its interrupt bw_tick re-arms the timer and counts   *)
(* in bw_ms, and the program reads bw_ms through bw_now, which holds the   *)
(* interrupt off because an 8051 copies the counter one byte at a time.    *)
(* `Base` is the number of values of a byte.  The scans a matrix, a        *)
(* seven-segment display or a LED bank add to bw_tick are not here.        *)
(***************************************************************************)
EXTENDS Integers

CONSTANT
    Base        \* values of one byte; 256 on the chip

ASSUME BaseAssumption == Base \in Nat /\ Base > 1 /\ Base % 2 = 0

M    == Base * Base             \* values of an unsigned int
Half == (Base \div 2) * Base    \* the first one a signed int reads as negative

\* 16-bit unsigned arithmetic on a sum or a difference of two counts
Wrap(x) == IF x >= M THEN x - M ELSE IF x < 0 THEN x + M ELSE x

Halves == {"low", "high"}

VARIABLES
    ms,      \* bw_ms, the counter of bw_tick
    TF0,     \* Timer 0's overflow flag: an interrupt is pending
    ET0,     \* Timer 0's interrupt is enabled
    reader,  \* the caller of bw_now: "idle", "reading", "got"
    copied,  \* the bytes of bw_ms the read has copied so far
    t,       \* the bytes of bw_now's local t
    clock,   \* history: overflows of the timer, modulo M
    snap     \* history: bw_ms at the moment the interrupt was held off

clockVars == <<ms, TF0, ET0, reader, copied, t, clock, snap>>
readVars  == <<reader, copied, t, snap>>

Byte(n, b) == IF b = "low" THEN n % Base ELSE n \div Base
Value(bs)  == (bs["high"] * Base) + bs["low"]

\* bw_setup has enabled the interrupt before any reader runs.
ClockInit ==
    /\ ms = 0 /\ clock = 0 /\ snap = 0
    /\ TF0 = FALSE /\ ET0 = TRUE
    /\ reader = "idle"
    /\ copied = {}
    /\ t = [b \in Halves |-> 0]

\* Mode 1 does not reload by itself: the next millisecond starts when the
\* interrupt writes TL0 and TH0, so no second overflow comes before that.
TimerOverflow ==
    /\ ~TF0
    /\ TF0' = TRUE
    /\ clock' = Wrap(clock + 1)
    /\ UNCHANGED <<ms, ET0, readVars>>

\* bw_tick: entering the vector clears TF0; nothing interrupts it.
TickIsr ==
    /\ TF0 /\ ET0
    /\ TF0' = FALSE
    /\ ms' = Wrap(ms + 1)
    /\ UNCHANGED <<ET0, clock, readVars>>

\* mutant: the read does not hold the interrupt off
HoldTickUnmasked ==
    /\ reader = "idle"
    /\ reader' = "reading"
    /\ copied' = {}
    /\ snap' = ms
    /\ UNCHANGED <<ms, TF0, ET0, t, clock>>

\* mutant: the read clears the pending interrupt with the enable bit
HoldTickClears ==
    /\ reader = "idle"
    /\ ET0' = FALSE /\ TF0' = FALSE
    /\ reader' = "reading"
    /\ copied' = {}
    /\ snap' = ms
    /\ UNCHANGED <<ms, t, clock>>

\* bw_now: ET0 = 0;
HoldTick ==
    /\ reader = "idle"
    /\ ET0' = FALSE
    /\ reader' = "reading"
    /\ copied' = {}
    /\ snap' = ms
    /\ UNCHANGED <<ms, TF0, t, clock>>

\* t = bw_ms;  one byte of it, in the order the compiler chose
CopyByte(b) ==
    /\ reader = "reading" /\ b \notin copied
    /\ t' = [t EXCEPT ![b] = Byte(ms, b)]
    /\ copied' = copied \cup {b}
    /\ UNCHANGED <<ms, TF0, ET0, reader, clock, snap>>

\* mutant: the interrupt stays off after a read
ReleaseTickStaysOff ==
    /\ reader = "reading" /\ copied = Halves
    /\ reader' = "got"
    /\ UNCHANGED <<ms, TF0, ET0, copied, t, clock, snap>>

\* ET0 = 1; return t;
ReleaseTick ==
    /\ reader = "reading" /\ copied = Halves
    /\ ET0' = TRUE
    /\ reader' = "got"
    /\ UNCHANGED <<ms, TF0, copied, t, clock, snap>>

\* the caller takes the value
Taken ==
    /\ reader = "got"
    /\ reader' = "idle"
    /\ UNCHANGED <<ms, TF0, ET0, copied, t, clock, snap>>

\* the part of the clock that runs whatever the program does
TimerStep == TimerOverflow \/ TickIsr

\* the steps of a call of bw_now after its first
ReadStep == (\E b \in Halves : CopyByte(b)) \/ ReleaseTick

ClockNext == TimerStep \/ HoldTick \/ ReadStep \/ Taken

ClockSpec == ClockInit /\ [][ClockNext]_clockVars

-----------------------------------------------------------------------------

ClockTypeOK ==
    /\ ms \in 0..(M-1) /\ clock \in 0..(M-1) /\ snap \in 0..(M-1)
    /\ TF0 \in BOOLEAN /\ ET0 \in BOOLEAN
    /\ reader \in {"idle", "reading", "got"}
    /\ copied \in SUBSET Halves
    /\ t \in [Halves -> 0..(Base-1)]

\* A read that has returned carries a value bw_ms really had, the one at the
\* moment the interrupt was held off, and never the high byte of one
\* millisecond with the low byte of the next (bw_now).
AtomicRead == reader = "got" => Value(t) = snap

\* Holding the interrupt off delays a tick and never loses one: at every
\* moment bw_ms has counted each overflow, but for the one still pending.
NoTickLost == clock = Wrap(ms + (IF TF0 THEN 1 ELSE 0))

\* What AtomicRead needs to be inductive: while the read is under way the
\* interrupt is off, bw_ms stands still and the copied bytes are its own.
ReadHeldOff ==
    /\ reader = "reading" =>
          /\ ~ET0
          /\ snap = ms
          /\ \A b \in copied : t[b] = Byte(snap, b)
    /\ reader = "got" => \A b \in Halves : t[b] = Byte(snap, b)

ClockInv == ClockTypeOK /\ ReadHeldOff /\ NoTickLost

=============================================================================
