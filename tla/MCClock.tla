------------------------------ MODULE MCClock ------------------------------
(***************************************************************************)
(* A generated program waits in one of two ways, as emit_c decides: by the *)
(* `wait` of a cooperative task or by the delay_ms of a lone script.  Both *)
(* read the one clock.                                                     *)
(***************************************************************************)
EXTENDS BwWait, BwDelay

VARIABLE lowering \* "task" or "delay"

\* two-bit bytes: a 16-value counter, 8 of them ahead
MCWaits == {0, 1, 8}

\* a wait the signed comparison cannot see as ahead
MCLongWaits == {9}

notTask == <<lowering, start, left>>
notDelay == <<lowering, until, wait>>
mcVars == <<vars, lowering, start, left>>

MCInit ==
    \/ lowering = "task" /\ Init /\ start = 0 /\ left = 0
    \/ lowering = "delay" /\ DelayInit /\ until = 0 /\ wait = 0

MCNext ==
    \/ lowering = "task" /\ TimelyNext /\ UNCHANGED notTask
    \/ lowering = "delay" /\ DelayPollsOn /\ UNCHANGED notDelay

MCFairSpec ==
    /\ MCInit /\ [][MCNext]_mcVars
    /\ WF_mcVars(lowering = "task" /\ Overflow /\ Timely /\ UNCHANGED notTask)
    /\ SF_mcVars(lowering = "task" /\ Tick /\ Timely /\ UNCHANGED notTask)
    /\ WF_mcVars(lowering = "task" /\ TaskStep /\ pc # "resumed" /\ UNCHANGED notTask)
    /\ WF_mcVars(lowering = "delay" /\ DelayOverflow /\ PollsOn /\ UNCHANGED notDelay)
    /\ SF_mcVars(lowering = "delay" /\ DelayTick /\ PollsOn /\ UNCHANGED notDelay)
    /\ WF_mcVars(lowering = "delay" /\ DelayStep /\ pc # "done" /\ UNCHANGED notDelay)

\* Every wait of a task and every delay of a lone script ends.
EveryWaitEnds == WaitEnds /\ DelayEnds
=============================================================================
