------------------------------ MODULE BwReader ------------------------------
(***************************************************************************)
(* A caller of bw_now that waits for a number of milliseconds: what a      *)
(* task's `wait` (BwWait) and a lone script's delay_ms (BwDelay) have in   *)
(* common.  Each names its own places `pc` and keeps its own locals.       *)
(***************************************************************************)
EXTENDS BwClock

CONSTANT MaxRound \* the most ticks between two reads of one wait

ASSUME MaxRoundAssumption == MaxRound \in Nat

VARIABLES
    pc,      \* where the caller is
    owed,    \* history: ticks still missing from its wait
    seen,    \* history: what was owed when the last read was taken
    lag      \* history: ticks since the last read, up to MaxRound + 1

callerVars == <<pc, owed, seen, lag>>

TickCounted ==
    /\ TickIsr
    /\ owed' = IF owed > 0 THEN owed - 1 ELSE 0
    /\ lag' = IF lag > MaxRound THEN lag ELSE lag + 1
    /\ UNCHANGED <<pc, seen>>

\* a call of bw_now begins, with n milliseconds of the wait to go
ReadOwing(n) ==
    /\ HoldTick
    /\ owed' = n /\ seen' = n /\ lag' = 0
    /\ UNCHANGED pc

CallerTypeOK ==
    /\ ClockTypeOK
    /\ owed \in 0..(M-1) /\ seen \in 0..(M-1)
    /\ lag \in 0..(MaxRound+1)
=============================================================================
