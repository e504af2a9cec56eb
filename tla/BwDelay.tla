------------------------------ MODULE BwDelay ------------------------------
(***************************************************************************)
(* delay_ms of a generated 8051 program that has one script and a part     *)
(* refreshed by bw_tick: it counts the changes of bw_ms it sees.           *)
(*                                                                         *)
(*     start = bw_ms;                                                      *)
(*     while (ms--) {                                                      *)
(*         for (;;) { now = bw_ms; if (now != start) break; }              *)
(*         start = bw_ms;                                                  *)
(*     }                                                                   *)
(*                                                                         *)
(* each read with the interrupt held off, as in bw_now.                    *)
(***************************************************************************)
EXTENDS BwReader \* pc: "start", "poll", "restart", "done"

CONSTANTS
    Delays,  \* the milliseconds delay_ms is called with
    MaxPoll  \* the most ticks between two of its reads

ASSUME DelaysAssumption == Delays \subseteq 0..(M-1)

VARIABLES
    start,   \* the local start
    left     \* the argument ms, counted down

delayVars == <<callerVars, start, left>>
delayingVars == <<clockVars, delayVars>>

DelayInit ==
    /\ ClockInit
    /\ pc = "start"
    /\ left \in Delays
    /\ start = 0
    /\ owed = 0 /\ seen = 0 /\ lag = 0

DelayOverflow == TimerOverflow /\ UNCHANGED delayVars

DelayTick == TickCounted /\ UNCHANGED <<start, left>>

\* ET0 = 0;  before any of the three reads
DelayReads ==
    /\ pc # "done"
    /\ ReadOwing(IF pc = "start" THEN left ELSE owed)
    /\ UNCHANGED <<start, left>>

DelayRead == ReadStep /\ UNCHANGED delayVars

\* mutant: the count tested after the round
TakeStartOneShort ==
    /\ pc \in {"start", "restart"}
    /\ Taken
    /\ start' = Value(t)
    /\ \/ left <= 1 /\ pc' = "done" /\ left' = 0
       \/ left > 1 /\ pc' = "poll" /\ left' = left - 1
    /\ UNCHANGED <<owed, seen, lag>>

\* start = bw_ms;  while (ms--)
TakeStart ==
    /\ pc \in {"start", "restart"}
    /\ Taken
    /\ start' = Value(t)
    /\ \/ left = 0 /\ pc' = "done" /\ left' = left
       \/ left > 0 /\ pc' = "poll" /\ left' = left - 1
    /\ UNCHANGED <<owed, seen, lag>>

\* now = bw_ms;  if (now != start) break;
Poll ==
    /\ pc = "poll"
    /\ Taken
    /\ pc' = IF Value(t) # start THEN "restart" ELSE "poll"
    /\ UNCHANGED <<start, left, owed, seen, lag>>

\* the script comes to its next wait
Call ==
    /\ pc = "done"
    /\ pc' = "start"
    /\ left' \in Delays
    /\ UNCHANGED <<clockVars, start, owed, seen, lag>>

DelayStep == DelayReads \/ DelayRead \/ TakeStart \/ Poll \/ Call

DelayNext == DelayOverflow \/ DelayTick \/ DelayStep

DelaySpec == DelayInit /\ [][DelayNext]_delayingVars

\* The loop does nothing but read: its reads are never MaxPoll ticks apart.
PollsOn == (pc # "done" /\ ~(pc = "start" /\ reader = "idle")) => lag' <= MaxPoll

DelayPollsOn == DelayNext /\ PollsOn

DelayFairSpec ==
    /\ DelayInit /\ [][DelayPollsOn]_delayingVars
    /\ WF_delayingVars(DelayOverflow /\ PollsOn)
    /\ SF_delayingVars(DelayTick /\ PollsOn)
    /\ WF_delayingVars(DelayStep /\ pc # "done")

-----------------------------------------------------------------------------

DelayTypeOK ==
    /\ CallerTypeOK
    /\ pc \in {"start", "poll", "restart", "done"}
    /\ start \in 0..(M-1)
    /\ left \in 0..(M-1)

\* A delay of ms milliseconds never ends before ms ticks have been counted
\* between its first and its last read of bw_ms: a tick that falls between
\* the read that ends one round and the read that starts the next is dropped,
\* which can only lengthen the delay.
NeverShort == pc = "done" => seen = 0

\* Every delay ends.
DelayEnds == pc = "start" ~> pc = "done"

\* Why: a round that is being polled accounts for one more tick than `left`,
\* until bw_ms has moved off `start`.
Accounted(o, now) ==
    CASE pc = "poll"    -> o <= left + (IF now = start THEN 1 ELSE 0)
      [] pc = "restart" -> o <= left
      [] pc = "start"   -> reader = "idle" \/ o <= left
      [] OTHER          -> TRUE

DelayInv ==
    /\ DelayTypeOK /\ ReadHeldOff /\ NoTickLost
    /\ Accounted(owed, ms)
    /\ reader # "idle" =>
          /\ Accounted(seen, snap)
          /\ owed <= seen
          /\ ms # snap => owed < seen \/ owed = 0
    /\ pc = "done" => reader = "idle"
    /\ NeverShort
=============================================================================
