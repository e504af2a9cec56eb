------------------------------ MODULE BwProofs ------------------------------
(***************************************************************************)
(* Proofs about the clock of a generated 8051 program and its two kinds of *)
(* caller, for every width of a byte, set of waits and length of a round.  *)
(***************************************************************************)
EXTENDS BwWait, BwDelay, TLAPS

-----------------------------------------------------------------------------
(* BwClock. *)

\* The two bytes of a count put together again give the count.
LEMMA BytesOfCount ==
    \A n \in Nat : /\ Byte(n, "low") \in 0..(Base-1)
                   /\ (Byte(n, "high") * Base) + Byte(n, "low") = n
BY BaseAssumption DEF Byte

\* The high byte of a 16-bit count is a byte.
LEMMA HighByte == \A n \in 0..(M-1) : Byte(n, "high") \in 0..(Base-1)
<1> SUFFICES ASSUME NEW n \in 0..(M-1) PROVE n \div Base \in 0..(Base-1)
    BY DEF Byte
<1> DEFINE q == n \div Base
<1>1. q \in Nat /\ n >= q * Base
    BY BaseAssumption, BytesOfCount DEF Byte, M
<1>2. q * Base < Base * Base
    BY <1>1, BaseAssumption DEF M
<1>3. q < Base
    BY <1>1, <1>2, BaseAssumption
<1> QED BY <1>1, <1>3, BaseAssumption

\* 16 bits have an even number of values, half of them non-negative.
LEMMA Sizes == M \in Nat /\ Half \in Nat /\ M = 2 * Half /\ Half > 0
<1> DEFINE h == Base \div 2
<1>1. h \in Nat /\ Base = 2 * h /\ h > 0
    BY BaseAssumption
<1>2. h * Base \in Nat /\ Base * Base = 2 * (h * Base) /\ h * Base > 0
    BY <1>1, BaseAssumption
<1> QED BY <1>2 DEF M, Half

\* Wrap keeps a sum or a difference of two counts a count.
LEMMA WrapType ==
    \A a, b \in 0..(M-1) : /\ Wrap(a + b) \in 0..(M-1)
                           /\ Wrap(a - b) \in 0..(M-1)
BY Sizes DEF Wrap

\* Counting one more.
LEMMA WrapNext == \A a \in 0..(M-1) : Wrap(a + 1) \in 0..(M-1)
BY Sizes DEF Wrap

-----------------------------------------------------------------------------

\* The clock invariant holds at power-up.
LEMMA ClockInitInv == ClockInit => ClockInv
<1> SUFFICES ASSUME ClockInit PROVE ClockInv
    OBVIOUS
<1> USE DEF ClockInit
<1>1. 0 \in 0..(M-1) /\ 0 \in 0..(Base-1)
    BY Sizes, BaseAssumption
<1>2. ClockTypeOK
    BY <1>1 DEF ClockTypeOK
<1>3. Wrap(0 + 0) = 0
    BY Sizes DEF Wrap
<1>4. NoTickLost
    BY <1>3 DEF NoTickLost
<1> QED BY <1>2, <1>4 DEF ClockInv, ReadHeldOff

\* Each step of the clock keeps its invariant.
LEMMA TimerOverflowInv == ClockInv /\ TimerOverflow => ClockInv'
<1> SUFFICES ASSUME ClockInv, TimerOverflow PROVE ClockInv'
    OBVIOUS
<1> USE DEF ClockInv, TimerOverflow, readVars
<1>1. clock = ms /\ clock' = Wrap(ms + 1)
    BY Sizes DEF ClockTypeOK, NoTickLost, Wrap
<1>2. ClockTypeOK'
    BY <1>1, WrapNext DEF ClockTypeOK
<1>3. NoTickLost'
    BY <1>1 DEF NoTickLost
<1> QED BY <1>2, <1>3 DEF ReadHeldOff

\* The tick of the timer keeps it.
LEMMA TickIsrInv == ClockInv /\ TickIsr => ClockInv'
<1> SUFFICES ASSUME ClockInv, TickIsr PROVE ClockInv'
    OBVIOUS
<1> USE DEF ClockInv, TickIsr, readVars
<1>1. ms' = clock /\ clock' = clock /\ ~TF0'
    BY DEF NoTickLost
<1>2. ClockTypeOK'
    BY <1>1 DEF ClockTypeOK
<1>3. NoTickLost'
    BY <1>1, <1>2, Sizes DEF NoTickLost, ClockTypeOK, Wrap
<1> QED BY <1>2, <1>3 DEF ReadHeldOff

\* So does a tick held off by the reader.
LEMMA HoldTickInv == ClockInv /\ HoldTick => ClockInv'
<1> SUFFICES ASSUME ClockInv, HoldTick PROVE ClockInv'
    OBVIOUS
<1> USE DEF ClockInv, HoldTick
<1>1. ClockTypeOK'
    BY DEF ClockTypeOK
<1>2. ReadHeldOff'
    BY DEF ReadHeldOff
<1> QED BY <1>1, <1>2 DEF NoTickLost

\* So does copying one byte of the counter.
LEMMA CopyByteInv == ASSUME NEW b \in Halves PROVE ClockInv /\ CopyByte(b) => ClockInv'
<1> SUFFICES ASSUME ClockInv, CopyByte(b) PROVE ClockInv'
    OBVIOUS
<1> USE DEF ClockInv, CopyByte
<1>1. Byte(ms, b) \in 0..(Base-1)
    BY BytesOfCount, HighByte, Sizes DEF ClockTypeOK, Halves
<1>2. ClockTypeOK'
    BY <1>1 DEF ClockTypeOK
<1>3. ReadHeldOff'
    BY DEF ReadHeldOff, ClockTypeOK
<1>4. NoTickLost'
    BY DEF NoTickLost
<1> QED BY <1>2, <1>3, <1>4

\* So does letting the timer interrupt again.
LEMMA ReleaseTickInv == ClockInv /\ ReleaseTick => ClockInv'
BY DEF ClockInv, ClockTypeOK, ReadHeldOff, NoTickLost, ReleaseTick

\* So does a reader taking its copy.
LEMMA TakenInv == ClockInv /\ Taken => ClockInv'
BY DEF ClockInv, ClockTypeOK, ReadHeldOff, NoTickLost, Taken

\* The invariant of the clock, whoever calls bw_now: the modules that extend
\* BwClock cite it for the clock's part of their own invariants.
LEMMA ClockStepInv == ClockInv /\ [ClockNext]_clockVars => ClockInv'
<1> SUFFICES ASSUME ClockInv, [ClockNext]_clockVars PROVE ClockInv'
    OBVIOUS
<1>1. CASE TimerOverflow   BY <1>1, TimerOverflowInv
<1>2. CASE TickIsr         BY <1>2, TickIsrInv
<1>3. CASE HoldTick        BY <1>3, HoldTickInv
<1>4. CASE \E b \in Halves : CopyByte(b)   BY <1>4, CopyByteInv
<1>5. CASE ReleaseTick     BY <1>5, ReleaseTickInv
<1>6. CASE Taken           BY <1>6, TakenInv
<1>7. CASE UNCHANGED clockVars
    BY <1>7 DEF clockVars, ClockInv, ClockTypeOK, ReadHeldOff, NoTickLost
<1> QED
    BY <1>1, <1>2, <1>3, <1>4, <1>5, <1>6, <1>7 DEF ClockNext, TimerStep, ReadStep

\* bw_now returns the value the counter had when the interrupt was held off.
LEMMA ReadIsSnap == ClockInv => AtomicRead
<1> SUFFICES ASSUME ClockInv, reader = "got" PROVE Value(t) = snap
    BY DEF AtomicRead
<1>1. t["low"] = Byte(snap, "low") /\ t["high"] = Byte(snap, "high")
    BY DEF ClockInv, ReadHeldOff, Halves
<1>2. snap \in Nat
    BY Sizes DEF ClockInv, ClockTypeOK
<1> QED BY <1>1, <1>2, BytesOfCount DEF Value

-----------------------------------------------------------------------------

\* bw_now never returns a torn count, whatever the width of a byte and in
\* whatever order the compiler copies the bytes.
THEOREM ClockReadsAtomically == ClockSpec => []AtomicRead
<1>1. ClockInit => ClockInv
    BY ClockInitInv
<1>2. ClockInv /\ [ClockNext]_clockVars => ClockInv'
    BY ClockStepInv
<1>3. ClockInv => AtomicRead
    BY ReadIsSnap
<1> QED BY <1>1, <1>2, <1>3, PTL DEF ClockSpec

\* Holding the interrupt off loses no tick.
THEOREM ClockCountsEveryOverflow == ClockSpec => []NoTickLost
<1>1. ClockInv => NoTickLost
    BY DEF ClockInv
<1> QED BY <1>1, ClockInitInv, ClockStepInv, PTL DEF ClockSpec

-----------------------------------------------------------------------------
(* BwDelay. *)

\* A step of a delay is a step of the clock or leaves it alone.
LEMMA DelayIsClockStep == [DelayNext]_delayingVars => [ClockNext]_clockVars
BY DEF DelayNext, delayingVars, ClockNext, TimerStep, DelayOverflow, DelayTick, TickCounted,
       DelayStep,
       DelayReads, ReadOwing, DelayRead, TakeStart, Poll, Call

\* The delay invariant holds at the start.
LEMMA DelayInitInv == DelayInit => DelayInv
BY ClockInitInv, Sizes, DelaysAssumption, MaxRoundAssumption
   DEF DelayInit, ClockInit, DelayInv, DelayTypeOK, CallerTypeOK, ClockInv, Accounted, NeverShort

\* A read of the delay loop is the counter's value at one moment.
LEMMA DelayReadIsSnap == DelayInv /\ Taken => Value(t) = snap
BY ReadIsSnap DEF DelayInv, DelayTypeOK, CallerTypeOK, ClockInv, AtomicRead, Taken

\* Every step of a delay keeps it.
LEMMA DelayStepInv == DelayInv /\ [DelayNext]_delayingVars => DelayInv'
<1> SUFFICES ASSUME DelayInv, [DelayNext]_delayingVars PROVE DelayInv'
    OBVIOUS
<1>0. ClockInv /\ ClockInv'
    BY DelayIsClockStep, ClockStepInv DEF DelayInv, DelayTypeOK, CallerTypeOK, ClockInv
<1>1. ClockTypeOK' /\ ReadHeldOff' /\ NoTickLost'
    BY <1>0 DEF ClockInv
<1> USE <1>1, MaxRoundAssumption, Sizes
        DEF DelayInv, DelayTypeOK, CallerTypeOK, delayVars, callerVars, Accounted, NeverShort,
            readVars
<1>2. CASE DelayOverflow
    BY <1>2 DEF DelayOverflow, TimerOverflow
<1>3. CASE DelayTick
    BY <1>3 DEF DelayTick, TickCounted, TickIsr
<1>4. CASE DelayReads
    BY <1>4 DEF DelayReads, ReadOwing, HoldTick
<1>5. CASE DelayRead
    <2>1. UNCHANGED <<ms, snap, delayVars>> /\ reader # "idle" /\ reader' # "idle"
        BY <1>5 DEF DelayRead, ReadStep, CopyByte, ReleaseTick
    <2> QED BY <2>1
<1>6. CASE TakeStart
    <2>1. Value(t) = snap
        BY <1>6, DelayReadIsSnap DEF TakeStart
    <2>2. seen <= left /\ owed <= seen
        BY <1>6 DEF TakeStart, Taken
    <2>3. start' \in 0..(M-1)
        BY <1>6, <2>1 DEF TakeStart, ClockTypeOK
    <2>4. CASE left = 0
        BY <1>6, <2>2, <2>3, <2>4 DEF TakeStart, Taken
    <2>5. CASE left > 0
        BY <1>6, <2>1, <2>2, <2>3, <2>5 DEF TakeStart, Taken
    <2> QED BY <2>4, <2>5
<1>7. CASE Poll
    <2>1. Value(t) = snap
        BY <1>7, DelayReadIsSnap DEF Poll
    <2> QED BY <1>7, <2>1 DEF Poll, Taken
<1>8. CASE Call
    BY <1>8, DelaysAssumption DEF Call, clockVars
<1>9. CASE UNCHANGED delayingVars
    BY <1>9 DEF delayingVars, clockVars
<1> QED
    BY <1>2, <1>3, <1>4, <1>5, <1>6, <1>7, <1>8, <1>9 DEF DelayNext, DelayStep

\* A delay spans as many ticks as it was asked for, whatever the interleaving
\* of the interrupt with its three reads.
THEOREM DelaysNeverShort == DelaySpec => []NeverShort
<1>1. DelayInv => NeverShort
    BY DEF DelayInv
<1> QED BY <1>1, DelayInitInv, DelayStepInv, PTL DEF DelaySpec

\* Every variable of a delaying program keeps its range.
THEOREM DelayTypeCorrect == DelaySpec => []DelayTypeOK
<1>1. DelayInv => DelayTypeOK
    BY DEF DelayInv
<1> QED BY <1>1, DelayInitInv, DelayStepInv, PTL DEF DelaySpec

-----------------------------------------------------------------------------
(* BwWait. *)

USE DEF readVars

-----------------------------------------------------------------------------
(* Arithmetic of the wrapping counter. *)

\* A deadline w ticks ahead is read back as w ticks ahead.
LEMMA WrapBack == \A a, w \in 0..(M-1) : Wrap(Wrap(a + w) - a) = w
BY Sizes DEF Wrap

\* A tick brings a deadline that is still ahead one tick closer.
LEMMA WrapCloser ==
    \A d, a \in 0..(M-1) :
        Wrap(d - a) > 0 => Wrap(d - Wrap(a + 1)) = Wrap(d - a) - 1
BY Sizes DEF Wrap

\* Seen from the other side, what is ahead by k is behind by M - k.
LEMMA WrapOpposite ==
    \A d, a \in 0..(M-1) :
        /\ Wrap(d - a) > 0 => Wrap(a - d) = M - Wrap(d - a)
        /\ Wrap(d - a) = 0 => d = a
BY Sizes DEF Wrap

\* A tick takes the counter one further past a deadline it has passed.
LEMMA WrapFurther ==
    \A d, a \in 0..(M-1) :
        Wrap(a - d) < M - 1 => Wrap(Wrap(a + 1) - d) = Wrap(a - d) + 1
BY Sizes DEF Wrap

\* A value of the counter is its own remainder.
LEMMA WrapSame ==
    \A a \in 0..(M-1) : Wrap(a - a) = 0 /\ Wrap(a - Wrap(a + 0)) = 0
BY Sizes DEF Wrap

-----------------------------------------------------------------------------
(* A wait is a client of the clock. *)

\* A step of a wait is a step of the clock or leaves it alone.
LEMMA NextIsClockStep == [Next]_vars => [ClockNext]_clockVars
BY DEF Next, vars, ClockNext, TimerStep, Overflow, Tick, TickCounted, TaskStep, ReadClock,
       ReadOwing,
       Read, ArmDeadline, StillWaiting, Resume, Dispatch, NextWait

\* A waiting task uses the clock only as bw_now lets it: the wait implements
\* the clock's specification.
THEOREM WaitUsesClock == Spec => ClockSpec
<1>1. Init => ClockInit
    BY DEF Init
<1> QED BY <1>1, NextIsClockStep, PTL DEF Spec, ClockSpec

\* bw_now is atomic for the waiting task too.
THEOREM WaitReadsAtomically == Spec => []AtomicRead
BY WaitUsesClock, ClockReadsAtomically, PTL

-----------------------------------------------------------------------------

\* What a task waits for fits the counter.
LEMMA WaitType == ASSUME NEW w \in Waits PROVE w \in 0..(M-1)
BY WaitsAssumption, Sizes

\* The types hold at the start.
LEMMA InitTypeOK == Init => TypeOK
BY ClockInitInv, Sizes, MaxRoundAssumption DEF Init, TypeOK, CallerTypeOK, ClockInv

\* Every step keeps the types.
LEMMA NextTypeOK == TypeOK /\ ClockInv /\ ClockInv' /\ [Next]_vars => TypeOK'
<1> SUFFICES ASSUME TypeOK, ClockInv, ClockInv', [Next]_vars PROVE TypeOK'
    OBVIOUS
<1> USE MaxRoundAssumption, Sizes DEF TypeOK, CallerTypeOK, vars, waitVars, callerVars
<1>0. ClockTypeOK'
    BY DEF ClockInv
<1> USE <1>0
<1>1. CASE Overflow   BY <1>1 DEF Overflow
<1>2. CASE Tick       BY <1>2 DEF Tick, TickCounted
<1>3. CASE ReadClock
    <2>1. wait \in 0..(M-1)
        BY WaitType
    <2> QED BY <1>3, <2>1 DEF ReadClock, ReadOwing
<1>4. CASE Read       BY <1>4 DEF Read
<1>5. CASE ArmDeadline
    <2>1. Value(t) = snap
        BY <1>5, ReadIsSnap DEF ArmDeadline, Taken, AtomicRead
    <2>2. Wrap(snap + wait) \in 0..(M-1)
        BY WaitType, WrapType DEF ClockTypeOK
    <2> QED BY <1>5, <2>1, <2>2 DEF ArmDeadline
<1>6. CASE StillWaiting   BY <1>6 DEF StillWaiting
<1>7. CASE Resume     BY <1>7 DEF Resume
<1>8. CASE Dispatch   BY <1>8 DEF Dispatch
<1>9. CASE NextWait   BY <1>9 DEF NextWait
<1>10. CASE UNCHANGED vars   BY <1>10
<1> QED
    BY <1>1, <1>2, <1>3, <1>4, <1>5, <1>6, <1>7, <1>8, <1>9, <1>10
       DEF Next, TaskStep

-----------------------------------------------------------------------------
(* NeverEarly. *)

\* The clock's invariant is part of the wait's, so each step keeps it.
LEMMA NextClockInv == WaitInv /\ [Next]_vars => ClockInv /\ ClockInv' /\ TypeOK'
BY NextIsClockStep, ClockStepInv, NextTypeOK DEF WaitInv, ClockInv, TypeOK, CallerTypeOK

\* The parts of WaitInv that speak of the wait, and not only of the clock.
WaitPart ==
    /\ DeadlineAhead /\ SeenAtRead /\ NeverEarly
    /\ pc \in {"yielded", "resumed"} => reader = "idle"

\* A tick keeps what is known of the wait.
LEMMA TickWaitPart == WaitInv /\ Tick /\ TypeOK' => WaitPart'
<1> SUFFICES ASSUME WaitInv, Tick, TypeOK' PROVE WaitPart'
    OBVIOUS
<1> USE DEF Tick, TickCounted, TickIsr, InWait, Armed, Arming
<1>1. Deadline' = Deadline /\ Deadline \in 0..(M-1)
    BY WaitType, WrapType DEF WaitInv, TypeOK, CallerTypeOK, ClockTypeOK, Deadline
<1>2. DeadlineAhead'
    <2> SUFFICES ASSUME InWait
                 PROVE  owed' <= wait /\ (owed' > 0 => Wrap(Deadline - ms') = owed')
        BY <1>1 DEF DeadlineAhead
    <2>1. owed <= wait /\ (owed > 0 => Wrap(Deadline - ms) = owed)
        BY DEF WaitInv, DeadlineAhead
    <2>2. owed' <= wait
        BY <2>1, WaitType DEF WaitInv, TypeOK, CallerTypeOK
    <2>3. ASSUME owed' > 0 PROVE Wrap(Deadline - ms') = owed'
        BY <1>1, <2>1, <2>3, WrapCloser DEF WaitInv, TypeOK, CallerTypeOK, ClockTypeOK
    <2> QED BY <2>2, <2>3
<1> QED BY <1>2 DEF WaitInv, WaitPart, SeenAtRead, NeverEarly

\* So does a look at the clock.
LEMMA ReadClockWaitPart == WaitInv /\ ReadClock => WaitPart'
<1> SUFFICES ASSUME WaitInv, ReadClock PROVE WaitPart'
    OBVIOUS
<1> USE DEF ReadClock, ReadOwing, HoldTick, WaitInv, TypeOK, CallerTypeOK, ClockTypeOK
<1>1. CASE pc = "arming"
    <2>1. Wrap(Wrap(ms + wait) - ms) = wait
        BY WrapBack, WaitType
    <2>2. DeadlineAhead'
        BY <1>1, <2>1, WaitType DEF DeadlineAhead, InWait, Armed, Arming, Deadline
    <2> QED BY <1>1, <2>2 DEF WaitPart, SeenAtRead, NeverEarly
<1>2. CASE pc = "checking"
    <2>1. owed <= wait /\ (owed > 0 => Wrap(until - ms) = owed)
        BY <1>2 DEF DeadlineAhead, InWait, Armed, Deadline
    <2> QED
        BY <1>2, <2>1
           DEF WaitPart, DeadlineAhead, SeenAtRead, NeverEarly, InWait, Armed,
               Arming, Deadline
<1> QED BY <1>1, <1>2

\* So does setting a deadline.
LEMMA ArmDeadlineWaitPart == WaitInv /\ ArmDeadline => WaitPart'
<1> SUFFICES ASSUME WaitInv, ArmDeadline PROVE WaitPart'
    OBVIOUS
<1> USE DEF ArmDeadline, Taken
<1>1. Value(t) = snap
    BY ReadIsSnap DEF WaitInv, TypeOK, CallerTypeOK, ClockInv, AtomicRead
<1>2. owed <= wait /\ (owed > 0 => Wrap(Wrap(snap + wait) - ms) = owed)
    BY DEF WaitInv, DeadlineAhead, InWait, Armed, Arming, Deadline
<1> QED
    BY <1>1, <1>2
       DEF WaitPart, DeadlineAhead, SeenAtRead, NeverEarly, InWait, Armed,
           Arming, Deadline

\* The check itself: a clock value with ticks still owed reads as behind.
LEMMA ResumeWaitPart == ASSUME WaitsFit PROVE WaitInv /\ Resume => WaitPart'
<1> SUFFICES ASSUME WaitInv, Resume PROVE WaitPart'
    OBVIOUS
<1> USE DEF Resume, Taken
<1>1. Value(t) = snap
    BY ReadIsSnap DEF WaitInv, TypeOK, CallerTypeOK, ClockInv, AtomicRead
<1>2. ASSUME seen > 0 PROVE FALSE
    <2>1. Wrap(until - snap) = seen /\ seen <= wait
        BY <1>2 DEF WaitInv, SeenAtRead
    <2>2. wait <= Half /\ wait \in Nat /\ seen \in Nat
        BY WaitType DEF WaitInv, TypeOK, CallerTypeOK, WaitsFit
    <2>3. Wrap(snap - until) = M - seen
        BY <1>2, <2>1, WrapOpposite DEF WaitInv, TypeOK, CallerTypeOK, ClockTypeOK
    <2>4. Wrap(snap - until) >= Half
        BY <2>1, <2>2, <2>3, Sizes
    <2> QED BY <1>1, <2>4 DEF Behind
<1>3. seen = 0
    BY <1>2, Sizes DEF WaitInv, TypeOK, CallerTypeOK
<1> QED
    BY <1>3 DEF WaitPart, DeadlineAhead, SeenAtRead, NeverEarly, InWait, Armed, Arming

\* Every step keeps the wait invariant, for waits of at most half the counter.
LEMMA NextWaitInv == ASSUME WaitsFit PROVE WaitInv /\ [Next]_vars => WaitInv'
<1> SUFFICES ASSUME WaitInv, [Next]_vars PROVE WaitInv'
    OBVIOUS
<1>0. ClockInv /\ ClockInv' /\ TypeOK'
    BY NextClockInv
<1>1. CASE Overflow
    BY <1>0, <1>1 DEF Overflow, TimerOverflow, waitVars, callerVars, WaitInv, ClockInv,
               DeadlineAhead, SeenAtRead, NeverEarly, InWait, Armed, Arming, Deadline
<1>2. CASE Tick
    BY <1>0, <1>2, TickWaitPart DEF WaitInv, WaitPart, ClockInv
<1>3. CASE ReadClock
    BY <1>0, <1>3, ReadClockWaitPart DEF WaitInv, WaitPart, ClockInv
<1>4. CASE Read
    <2>1. UNCHANGED <<ms, snap, waitVars>>
        BY <1>4 DEF Read, ReadStep, CopyByte, ReleaseTick
    <2>2. reader # "idle" /\ reader' # "idle"
        BY <1>4 DEF Read, ReadStep, CopyByte, ReleaseTick
    <2> QED
        BY <1>0, <2>1, <2>2
           DEF waitVars, callerVars, WaitInv, WaitPart, ClockInv, DeadlineAhead, SeenAtRead,
               NeverEarly, InWait, Armed, Arming, Deadline
<1>5. CASE ArmDeadline
    BY <1>0, <1>5, ArmDeadlineWaitPart DEF WaitInv, WaitPart, ClockInv
<1>6. CASE StillWaiting
    BY <1>0, <1>6 DEF StillWaiting, Taken, WaitInv, WaitPart, ClockInv, DeadlineAhead,
               SeenAtRead, NeverEarly, InWait, Armed, Arming, Deadline
<1>7. CASE Resume
    BY <1>0, <1>7, ResumeWaitPart DEF WaitInv, WaitPart, ClockInv
<1>8. CASE Dispatch
    BY <1>0, <1>8 DEF Dispatch, clockVars, WaitInv, WaitPart, ClockInv, DeadlineAhead,
               SeenAtRead, NeverEarly, InWait, Armed, Arming, Deadline
<1>9. CASE NextWait
    BY <1>0, <1>9 DEF NextWait, clockVars, WaitInv, WaitPart, ClockInv, DeadlineAhead,
               SeenAtRead, NeverEarly, InWait, Armed, Arming, Deadline
<1>10. CASE UNCHANGED vars
    BY <1>0, <1>10 DEF vars, waitVars, callerVars, clockVars, WaitInv, ClockInv, DeadlineAhead,
               SeenAtRead, NeverEarly, InWait, Armed, Arming, Deadline
<1> QED
    BY <1>1, <1>2, <1>3, <1>4, <1>5, <1>6, <1>7, <1>8, <1>9, <1>10
       DEF Next, TaskStep

\* The wait invariant holds at the start.
LEMMA InitWaitInv == Init => WaitInv
BY InitTypeOK, ClockInitInv
   DEF Init, ClockInit, WaitInv, ClockInv, DeadlineAhead, SeenAtRead, NeverEarly,
       InWait, Armed, Arming

\* Every variable of a waiting program keeps its range.
THEOREM WaitTypeOK == Spec => []TypeOK
<1>1. Init => TypeOK /\ ClockInv
    BY InitTypeOK, ClockInitInv DEF Init
<1>2. (TypeOK /\ ClockInv) /\ [Next]_vars => (TypeOK /\ ClockInv)'
    BY NextTypeOK, NextIsClockStep, ClockStepInv
<1> QED BY <1>1, <1>2, PTL DEF Spec

\* On a target whose waits fit in half the counter no wait ends early,
\* whatever the interleaving of the interrupt and however long the other
\* tasks take.
THEOREM WaitsNeverEndEarly == ASSUME WaitsFit PROVE Spec => []NeverEarly
<1>1. Init => WaitInv
    BY InitWaitInv
<1>2. WaitInv /\ [Next]_vars => WaitInv'
    BY NextWaitInv
<1>3. WaitInv => NeverEarly
    BY DEF WaitInv
<1> QED BY <1>1, <1>2, <1>3, PTL DEF Spec

-----------------------------------------------------------------------------
(* Prompt. *)

\* So does the invariant of promptness.
LEMMA InitPromptInv == Init => PromptInv
BY MaxRoundAssumption
   DEF Init, ClockInit, PromptInv, InWait, Armed, Arming, JustPassed, Undecided, PassedAtRead

\* A tick keeps the invariant of promptness.
LEMMA TickPromptInv ==
    ASSUME RoundFits
    PROVE  WaitInv /\ PromptInv /\ Tick /\ Timely => PromptInv'
<1> SUFFICES ASSUME WaitInv, PromptInv, Tick, Timely PROVE PromptInv'
    OBVIOUS
<1> USE DEF Tick, TickCounted, TickIsr, WaitInv, TypeOK, CallerTypeOK, ClockTypeOK, PromptInv
<1>1. Deadline' = Deadline /\ Deadline \in 0..(M-1) /\ InWait' = InWait
    BY WaitType, WrapType DEF Deadline, InWait, Armed, Arming
<1>2. InWait => lag' = lag + 1 /\ lag' <= MaxRound
    BY MaxRoundAssumption DEF Timely
<1>3. JustPassed'
    <2> SUFFICES ASSUME Undecided, InWait, owed' = 0 PROVE Wrap(ms' - Deadline) <= lag'
        BY <1>1 DEF JustPassed, Undecided
    <2>1. CASE owed = 0
        <3>1. Wrap(ms - Deadline) <= lag
            BY <2>1 DEF JustPassed, Undecided
        <3>2. lag \in Nat /\ lag < Half
            BY <1>2, MaxRoundAssumption, Sizes DEF RoundFits
        <3>3. ms \in 0..(M-1) /\ Wrap(ms - Deadline) \in Nat
            BY <1>1, WrapType
        <3>4. Wrap(ms - Deadline) < M - 1
            BY <3>1, <3>2, <3>3, Sizes
        <3>5. Wrap(ms' - Deadline) = Wrap(ms - Deadline) + 1
            BY <1>1, <3>3, <3>4, WrapFurther
        <3> QED BY <1>2, <3>1, <3>2, <3>3, <3>5
    <2>2. CASE owed # 0
        <3>1. owed = 1
            BY <2>2
        <3>2. Wrap(Deadline - ms) = 1
            BY <3>1 DEF DeadlineAhead
        <3>3. Wrap(Deadline - ms') = 0 /\ ms' \in 0..(M-1)
            BY <1>1, <3>2, WrapCloser, WrapNext
        <3>4. ms' = Deadline
            BY <1>1, <3>3, WrapOpposite
        <3> QED BY <1>1, <1>2, <3>4, WrapSame
    <2> QED BY <2>1, <2>2
<1> QED BY <1>1, <1>2, <1>3 DEF PassedAtRead, InWait, Armed, Arming

\* So does a look at the clock.
LEMMA ReadClockPromptInv == WaitInv /\ PromptInv /\ ReadClock => PromptInv'
<1> SUFFICES ASSUME WaitInv, PromptInv, ReadClock PROVE PromptInv'
    OBVIOUS
<1> USE MaxRoundAssumption
    DEF ReadClock, ReadOwing, HoldTick, WaitInv, TypeOK, CallerTypeOK, ClockTypeOK, PromptInv,
        InWait,
        Armed, Arming
<1>1. CASE pc = "arming"
    <2>1. wait = 0 => Wrap(ms - Wrap(ms + wait)) = 0
        BY WrapSame
    <2> QED BY <1>1, <2>1, WaitType DEF JustPassed, Undecided, PassedAtRead, Deadline
<1>2. CASE pc = "checking"
    <2>1. owed = 0 => Wrap(ms - until) <= lag /\ lag <= MaxRound
        BY <1>2 DEF JustPassed, Undecided, Deadline
    <2>2. until \in 0..(M-1) /\ ms \in 0..(M-1) /\ lag \in Nat
        OBVIOUS
    <2>3. Wrap(ms - until) \in Nat
        BY <2>2, WrapType
    <2>4. PassedAtRead'
        BY <1>2, <2>1, <2>2, <2>3 DEF PassedAtRead
    <2> QED BY <1>2, <2>4 DEF JustPassed, Undecided
<1> QED BY <1>1, <1>2

\* The check of a deadline that has passed does not read as "not yet".
LEMMA StillWaitingPromptInv ==
    ASSUME RoundFits
    PROVE  WaitInv /\ PromptInv /\ StillWaiting => PromptInv' /\ seen > 0
<1> SUFFICES ASSUME WaitInv, PromptInv, StillWaiting PROVE PromptInv' /\ seen > 0
    OBVIOUS
<1> USE DEF StillWaiting, Taken, WaitInv, TypeOK, CallerTypeOK, ClockTypeOK, PromptInv
<1>1. Value(t) = snap
    BY ReadIsSnap DEF ClockInv, AtomicRead
<1>2. ASSUME seen = 0 PROVE FALSE
    <2>1. Wrap(snap - until) <= MaxRound /\ Wrap(snap - until) \in Nat
        BY <1>2, WrapType DEF PassedAtRead
    <2> QED BY <1>1, <2>1, Sizes, MaxRoundAssumption DEF Behind, RoundFits
<1>3. seen > 0
    BY <1>2, Sizes
<1> QED BY <1>3 DEF JustPassed, Undecided, PassedAtRead, Deadline, InWait, Armed, Arming

\* So does setting a deadline.
LEMMA ArmDeadlinePromptInv == WaitInv /\ PromptInv /\ ArmDeadline => PromptInv'
<1> SUFFICES ASSUME WaitInv, PromptInv, ArmDeadline PROVE PromptInv'
    OBVIOUS
<1>1. Value(t) = snap
    BY ReadIsSnap
       DEF WaitInv, TypeOK, CallerTypeOK, ClockInv, AtomicRead, ArmDeadline, Taken
<1> QED
    BY <1>1
       DEF ArmDeadline, Taken, WaitInv, TypeOK, CallerTypeOK, ClockTypeOK, PromptInv, JustPassed,
           Undecided,
           PassedAtRead, Deadline, InWait, Armed, Arming

\* Every step keeps the invariant of promptness.
LEMMA NextPromptInv ==
    ASSUME RoundFits
    PROVE  WaitInv /\ PromptInv /\ Prompt /\ [TimelyNext]_vars => PromptInv' /\ Prompt'
<1> SUFFICES ASSUME WaitInv, PromptInv, Prompt, [TimelyNext]_vars
             PROVE  PromptInv' /\ Prompt'
    OBVIOUS
<1> USE DEF Prompt
<1>1. CASE Overflow
    BY <1>1 DEF Overflow, TimerOverflow, waitVars, callerVars, PromptInv, JustPassed, Undecided,
               PassedAtRead, Deadline, InWait, Armed, Arming
<1>2. CASE Tick
    <2>1. vars' # vars
        BY <1>2 DEF Tick, TickCounted, TickIsr, vars, clockVars
    <2>2. Timely
        BY <2>1 DEF TimelyNext
    <2> QED BY <1>2, <2>2, TickPromptInv DEF Tick, TickCounted
<1>3. CASE ReadClock
    BY <1>3, ReadClockPromptInv DEF ReadClock, ReadOwing
<1>4. CASE Read
    <2>1. UNCHANGED <<ms, snap, waitVars>> /\ reader # "idle" /\ reader' # "idle"
        BY <1>4 DEF Read, ReadStep, CopyByte, ReleaseTick
    <2> QED
        BY <2>1 DEF waitVars, callerVars, PromptInv, JustPassed, Undecided, PassedAtRead, Deadline,
                    InWait, Armed, Arming
<1>5. CASE ArmDeadline
    BY <1>5, ArmDeadlinePromptInv DEF ArmDeadline
<1>6. CASE StillWaiting
    <2>1. PromptInv' /\ seen > 0
        BY <1>6, StillWaitingPromptInv
    <2> QED BY <1>6, <2>1 DEF StillWaiting
<1>7. CASE Resume
    BY <1>7 DEF Resume, Taken, PromptInv, JustPassed, Undecided, PassedAtRead, InWait, Armed, Arming
<1>8. CASE Dispatch
    BY <1>8 DEF Dispatch, clockVars, PromptInv, JustPassed, Undecided, PassedAtRead, Deadline,
                InWait, Armed, Arming, WaitInv
<1>9. CASE NextWait
    BY <1>9 DEF NextWait, clockVars, PromptInv, JustPassed, Undecided, PassedAtRead, InWait,
                Armed, Arming, WaitInv
<1>10. CASE UNCHANGED vars
    BY <1>10 DEF vars, waitVars, callerVars, clockVars, PromptInv, JustPassed, Undecided,
                 PassedAtRead,
                Deadline, InWait, Armed, Arming
<1> QED
    BY <1>1, <1>2, <1>3, <1>4, <1>5, <1>6, <1>7, <1>8, <1>9, <1>10
       DEF TimelyNext, Next, TaskStep

\* Where moreover a round of the scheduler is shorter than half the counter,
\* no check is put off past the deadline.
THEOREM WaitsArePrompt ==
    ASSUME WaitsFit, RoundFits PROVE TimelySpec => []Prompt
<1>1. Init => WaitInv /\ PromptInv /\ Prompt
    BY InitWaitInv, InitPromptInv DEF Init, Prompt
<1>2. (WaitInv /\ PromptInv /\ Prompt) /\ [TimelyNext]_vars
        => (WaitInv /\ PromptInv /\ Prompt)'
    BY NextWaitInv, NextPromptInv DEF TimelyNext
<1> QED BY <1>1, <1>2, PTL DEF TimelySpec
=============================================================================
