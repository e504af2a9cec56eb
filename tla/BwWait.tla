------------------------------- MODULE BwWait -------------------------------
(***************************************************************************)
(* One `wait` of one cooperative task, as stmts_task lowers it:            *)
(*                                                                         *)
(*     task_until = bw_now() + (ms);  task_state = S;                      *)
(*     case S:  if ((int)(bw_now() - task_until) < 0) return;              *)
(*                                                                         *)
(* over the clock of BwClock.  The rest of the program is the time between *)
(* a `return` and the next dispatch.                                       *)
(***************************************************************************)
EXTENDS BwReader \* pc: "arming", "checking", "yielded", "resumed"

CONSTANT
    Waits    \* the milliseconds a program waits for: ms_of lets every
             \* count through, 0 included, that is not negative

ASSUME WaitsAssumption == Waits \subseteq 0..(M-1)

VARIABLES
    until,   \* task_until
    wait     \* the ms of the wait under way

waitVars == <<callerVars, until, wait>>
vars == <<clockVars, waitVars>>

Init ==
    /\ ClockInit
    /\ pc = "arming"
    /\ wait \in Waits
    /\ until = 0
    /\ owed = 0 /\ seen = 0 /\ lag = 0

Overflow == TimerOverflow /\ UNCHANGED waitVars

Tick == TickCounted /\ UNCHANGED <<until, wait>>

\* either call of bw_now
ReadClock ==
    /\ pc \in {"arming", "checking"}
    /\ ReadOwing(IF pc = "arming" THEN wait ELSE owed)
    /\ UNCHANGED <<until, wait>>

Read == ReadStep /\ UNCHANGED waitVars

\* task_until = bw_now() + (ms); and control falls into case S
ArmDeadline ==
    /\ pc = "arming"
    /\ Taken
    /\ until' = Wrap(Value(t) + wait)
    /\ pc' = "checking"
    /\ UNCHANGED <<wait, owed, seen, lag>>

\* mutants: the deadline compared without wrapping; the deadline itself
\* taken for not yet over
BehindUnsigned(now) == now < until
BehindInclusive(now) == now = until \/ Wrap(now - until) >= Half

Behind(now) == Wrap(now - until) >= Half    \* (int)(now - until) < 0

StillWaiting ==
    /\ pc = "checking"
    /\ Taken
    /\ Behind(Value(t))
    /\ pc' = "yielded"
    /\ UNCHANGED <<until, wait, owed, seen, lag>>

Resume ==
    /\ pc = "checking"
    /\ Taken
    /\ ~Behind(Value(t))
    /\ pc' = "resumed"
    /\ UNCHANGED <<until, wait, owed, seen, lag>>

\* the other tasks have had their turn; switch (task_state) enters at case S
Dispatch ==
    /\ pc = "yielded"
    /\ pc' = "checking"
    /\ UNCHANGED <<clockVars, until, wait, owed, seen, lag>>

\* the script goes on to another wait
NextWait ==
    /\ pc = "resumed"
    /\ pc' = "arming"
    /\ wait' \in Waits
    /\ UNCHANGED <<clockVars, until, owed, seen, lag>>

TaskStep ==
    \/ ReadClock \/ Read \/ ArmDeadline
    \/ StillWaiting \/ Resume \/ Dispatch \/ NextWait

Next == Overflow \/ Tick \/ TaskStep

Spec == Init /\ [][Next]_vars

\* A task in a wait reads the clock again before MaxRound + 1 ticks have
\* passed: the assumption on how long the other tasks keep the processor.
Armed  == pc \in {"checking", "yielded"}
Arming == pc = "arming" /\ reader # "idle"
InWait == Armed \/ Arming
Timely == InWait => lag' <= MaxRound

TimelyNext == Next /\ Timely
TimelySpec == Init /\ [][TimelyNext]_vars

\* start_scheduler dispatches every task again and again, and the timer does
\* not stop.  A pending interrupt is taken as soon as ET0 allows it, also when
\* the program keeps turning ET0 off: strong fairness.  Resting between two
\* waits is the script's own affair, but a wait that has begun is polled.
FairSpec ==
    /\ TimelySpec
    /\ WF_vars(Overflow /\ Timely)
    /\ SF_vars(Tick /\ Timely)
    /\ WF_vars(TaskStep /\ pc # "resumed")

-----------------------------------------------------------------------------

TypeOK ==
    /\ CallerTypeOK
    /\ pc \in {"arming", "checking", "yielded", "resumed"}
    /\ until \in 0..(M-1)
    /\ wait \in Waits

\* A wait never ends early: the task goes on only when the clock value it
\* decided on was read at least `wait` ticks after the one the deadline was
\* computed from, however late or rarely the task is dispatched.
NeverEarly == pc = "resumed" => seen = 0

\* A wait never outlasts its deadline by more than the task's own round: a
\* check made once the milliseconds are over is not read as "not yet".
Prompt == pc = "yielded" => seen > 0

\* Every wait a task begins comes to an end.
WaitEnds == pc = "arming" ~> pc = "resumed"

\* The conditions the two safety properties need, on a program's waits and
\* on the length of a round of the scheduler.
WaitsFit == \A w \in Waits : w <= Half
RoundFits == MaxRound < Half

-----------------------------------------------------------------------------
(* Why NeverEarly holds: the deadline is ahead of the counter by what is   *)
(* owed, from the first read of the wait to its last.                      *)

Deadline == IF Armed THEN until ELSE Wrap(snap + wait)

DeadlineAhead ==
    InWait =>
        /\ owed <= wait
        /\ owed > 0 => Wrap(Deadline - ms) = owed

\* what the check under way will decide on
SeenAtRead ==
    (pc = "checking" /\ reader # "idle" /\ seen > 0) =>
        Wrap(until - snap) = seen /\ seen <= wait

WaitInv ==
    /\ TypeOK /\ ReadHeldOff /\ NoTickLost
    /\ DeadlineAhead /\ SeenAtRead /\ NeverEarly
    /\ pc \in {"yielded", "resumed"} => reader = "idle"

(* Why Prompt holds: a deadline no check has seen to be over passed after  *)
(* the last read, so that it is fewer than Half ticks behind the counter.  *)

Undecided == InWait /\ (seen > 0 \/ reader = "idle" \/ pc = "arming")

JustPassed == (Undecided /\ owed = 0) => Wrap(ms - Deadline) <= lag

PassedAtRead ==
    (pc = "checking" /\ reader # "idle" /\ seen = 0) =>
        Wrap(snap - until) <= MaxRound

PromptInv ==
    /\ InWait => lag <= MaxRound
    /\ JustPassed /\ PassedAtRead
=============================================================================
