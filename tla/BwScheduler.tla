---------------------------- MODULE BwScheduler ----------------------------
(***************************************************************************)
(* The generated program at run time.  In C, start_scheduler calls the     *)
(* task functions in turn for ever; a call enters its switch at the task's *)
(* state and runs to a `return` or off its end.  In MicroPython, a loop    *)
(* calls next() on generators and drops those that have returned.  Between *)
(* any two instructions the millisecond tick may fall and an input may     *)
(* change.  `code` is one instruction sequence per task, as TaskLowering   *)
(* writes it.  A deadline is held as the ticks still missing  *)
(* from it: that the 16-bit comparison agrees is BwWait's concern.         *)
(***************************************************************************)
EXTENDS Integers, Sequences

CONSTANTS
    Programs,   \* records: `scripts`, `code`, their compiled functions, and
                \* `watchful`, which C is and MicroPython is not
    Vars,       \* variables and input pins
    Inputs,     \* input pins, subset of Vars
    Counters,   \* the REPEAT counters, 1..the most any program uses
    Width       \* values of an int

VARIABLES
    prog,    \* the program in flash
    env,     \* its variables and the levels of its input pins
    cur,     \* the task main() is calling
    pc,      \* the instruction of cur it is at, 0 between two calls
    state,   \* bw_taskN_state; the yield a generator stands at
    until,   \* bw_taskN_until or _deadline, as ticks still to come
    prev,    \* bw_taskN_prev or _prev of a hat
    fired,   \* the hat's local `fired`
    cnt      \* the counters and range iterators

vars == <<prog, env, cur, pc, state, until, prev, fired, cnt>>

Count  == Len(prog.code)
Tasks  == 1..Count
Hat(s) == prog.scripts[s].hat
Lines(s) == prog.code[s]
Finished == 65535   \* a task's state when its script is over

Value(e, en) == IF "num" \in DOMAIN e THEN e.num ELSE en[e.var]
Holds(c, en) == (en[c.var] # 0) = c.is

\* mutant: a state without a case starts the script over
EntryRestarts(s) ==
    IF \E i \in DOMAIN Lines(s) : Lines(s)[i].op = "case" /\ Lines(s)[i].n = state[s]
      THEN CHOOSE i \in DOMAIN Lines(s) :
              Lines(s)[i].op = "case" /\ Lines(s)[i].n = state[s]
      ELSE 1

\* where `switch (state)` lands in a task: the case, or past the switch
Entry(s) ==
    IF \E i \in DOMAIN Lines(s) : Lines(s)[i].op = "case" /\ Lines(s)[i].n = state[s]
      THEN CHOOSE i \in DOMAIN Lines(s) :
              Lines(s)[i].op = "case" /\ Lines(s)[i].n = state[s]
      ELSE Len(Lines(s))

\* C's static storage starts at zero.
Init ==
    /\ prog \in Programs
    /\ env = [v \in Vars |-> 0]
    /\ cur = 1 /\ pc = 0
    /\ state = [s \in Tasks |-> 0]
    /\ until = [s \in Tasks |-> 0]
    /\ prev  = [s \in Tasks |-> 0]
    /\ fired = FALSE
    /\ cnt = [i \in Counters |-> 0]

Tick ==
    /\ \E s \in Tasks : until[s] > 0
    /\ until' = [s \in Tasks |-> IF until[s] > 0 THEN until[s] - 1 ELSE 0]
    /\ UNCHANGED <<prog, env, cur, pc, state, prev, fired, cnt>>

InputChanges ==
    /\ \E i \in Inputs : env' = [env EXCEPT ![i] = 1 - @]
    /\ UNCHANGED <<prog, cur, pc, state, until, prev, fired, cnt>>

\* The task is called.  A hat in C samples its pin first, whatever its state;
\* a generator has its pin sampled at the head of its loop.
Dispatch ==
    /\ pc = 0 /\ (prog.watchful \/ state[cur] # Finished)
    /\ pc' = Entry(cur)
    /\ IF Hat(cur) = "none" \/ (state[cur] # 0 /\ ~prog.watchful)
         THEN UNCHANGED <<prev, fired>>
         ELSE /\ fired' = (env[Hat(cur)] = 1 /\ prev[cur] = 0)
              /\ prev' = [prev EXCEPT ![cur] = env[Hat(cur)]]
    /\ UNCHANGED <<prog, env, cur, state, until, cnt>>

-----------------------------------------------------------------------------
(* One action per kind of instruction. *)

Now == Lines(cur)[pc]
At(op) == pc > 0 /\ Now.op = op
Step(k) == pc' = pc + k /\ UNCHANGED cur
Return == pc' = 0 /\ cur' = (cur % Count) + 1
Quiet == UNCHANGED <<prog, prev, fired>>

\* a statement with an effect and no control flow
Assign ==
    /\ At("set")
    /\ env' = [env EXCEPT ![Now.stmt.var] = Value(Now.stmt.to, env)]
    /\ Step(1) /\ Quiet /\ UNCHANGED <<state, until, cnt>>

Increase ==
    /\ At("change")
    /\ env' = [env EXCEPT ![Now.stmt.var] = (@ + Now.stmt.by) % Width]
    /\ Step(1) /\ Quiet /\ UNCHANGED <<state, until, cnt>>

\* task_until = now + (ms);   and the entry of delay_ms
SetUntil ==
    /\ At("until")
    /\ until' = [until EXCEPT ![cur] = Now.ticks]
    /\ Step(1) /\ Quiet /\ UNCHANGED <<env, state, cnt>>

\* task_state = n;
SetState ==
    /\ At("state")
    /\ state' = [state EXCEPT ![cur] = Now.n]
    /\ Step(1) /\ Quiet /\ UNCHANGED <<env, until, cnt>>

\* a label, the head of for (;;), the call of a procedure
Pass ==
    /\ At("case") \/ At("for") \/ At("call")
    /\ Step(1) /\ Quiet /\ UNCHANGED <<env, state, until, cnt>>

\* if ((int)(now - task_until) < 0) return;
Due ==
    /\ At("due")
    /\ IF until[cur] > 0 THEN Return ELSE Step(1)
    /\ Quiet /\ UNCHANGED <<env, state, until, cnt>>

\* if (!(cond)) return;
Unless ==
    /\ At("unless")
    /\ IF Holds(Now.cond, env) THEN Step(1) ELSE Return
    /\ Quiet /\ UNCHANGED <<env, state, until, cnt>>

\* if (!fired) return;
Gate ==
    /\ At("gate")
    /\ IF fired THEN Step(1) ELSE Return
    /\ Quiet /\ UNCHANGED <<env, state, until, cnt>>

IfC ==
    /\ At("if")
    /\ IF Holds(Now.cond, env) THEN Step(1) ELSE Step(Now.skip)
    /\ Quiet /\ UNCHANGED <<env, state, until, cnt>>

JumpC ==
    /\ At("jump")
    /\ Step(Now.skip)
    /\ Quiet /\ UNCHANGED <<env, state, until, cnt>>

\* the four instructions of a counted loop: counting down in a static
\* across yields, or up in a local of straight-line code
Load ==
    /\ At("load") \/ At("zero")
    /\ cnt' = [cnt EXCEPT ![Now.ctr] = IF Now.op = "zero" THEN 0 ELSE Value(Now.count, env)]
    /\ Step(1) /\ Quiet /\ UNCHANGED <<env, state, until>>

IfLeft ==
    /\ At("ifnz") \/ At("iflt")
    /\ IF IF Now.op = "ifnz" THEN cnt[Now.ctr] # 0
                             ELSE cnt[Now.ctr] < Value(Now.count, env)
         THEN Step(1) ELSE Step(Now.skip)
    /\ Quiet /\ UNCHANGED <<env, state, until, cnt>>

CountOne ==
    /\ At("dec") \/ At("inc")
    /\ cnt' = [cnt EXCEPT ![Now.ctr] = IF Now.op = "dec" THEN @ - 1 ELSE @ + 1]
    /\ Step(1) /\ Quiet /\ UNCHANGED <<env, state, until>>

\* mutant: a back-edge that goes round instead of giving way
ReturnLoops ==
    /\ At("return")
    /\ pc' = Entry(cur)
    /\ Quiet /\ UNCHANGED <<env, cur, state, until, cnt>>

ReturnC ==
    /\ At("return")
    /\ Return /\ Quiet /\ UNCHANGED <<env, state, until, cnt>>

\* past the switch: task_state = 0xFFFF, or 0 for a hat
EndTask ==
    /\ At("end")
    /\ state' = [state EXCEPT ![cur] = Now.n]
    /\ Return /\ Quiet /\ UNCHANGED <<env, until, cnt>>

\* straight-line code: delay_ms, while (!(cond)) { }
SpinDue ==
    /\ At("spindue") /\ until[cur] = 0
    /\ Step(1) /\ Quiet /\ UNCHANGED <<env, state, until, cnt>>

Spin ==
    /\ At("spin") /\ Holds(Now.cond, env)
    /\ Step(1) /\ Quiet /\ UNCHANGED <<env, state, until, cnt>>

\* `for (;;) ;` takes no step: "hang" has no action.

-----------------------------------------------------------------------------
(* What only a generator has. *)

\* next() on the next generator that has not returned
NextGenerator ==
    LET after(k) == ((cur + k - 1) % Count) + 1
        ks == {k \in 1..Count : state'[after(k)] # Finished}
    IN  /\ pc' = 0
        /\ cur' = IF ks = {} THEN cur ELSE after(CHOOSE k \in ks : \A j \in ks : k <= j)

GiveWay(n) == state' = [state EXCEPT ![cur] = n] /\ NextGenerator

YieldPy ==
    /\ At("yield")
    /\ GiveWay(Now.n)
    /\ Quiet /\ UNCHANGED <<env, until, cnt>>

\* while the deadline has not come: yield
Pending ==
    /\ At("pending")
    /\ IF until[cur] > 0 THEN GiveWay(Now.n) ELSE Step(1) /\ UNCHANGED state
    /\ Quiet /\ UNCHANGED <<env, until, cnt>>

\* while not (cond): yield
Unmet ==
    /\ At("unmet")
    /\ IF Holds(Now.cond, env) THEN Step(1) /\ UNCHANGED state ELSE GiveWay(Now.n)
    /\ Quiet /\ UNCHANGED <<env, until, cnt>>

\* for _ in range(...)
RangeNext ==
    /\ At("range")
    /\ IF cnt[Now.ctr] = 0
         THEN Step(Now.skip) /\ UNCHANGED cnt
         ELSE Step(1) /\ cnt' = [cnt EXCEPT ![Now.ctr] = @ - 1]
    /\ Quiet /\ UNCHANGED <<env, state, until>>

\* if _fired:
Unfired ==
    /\ At("unfired")
    /\ IF fired THEN Step(1) ELSE Step(Now.skip)
    /\ Quiet /\ UNCHANGED <<env, state, until, cnt>>

\* return: StopIteration, and the generator is dropped
Leave ==
    /\ At("leave")
    /\ GiveWay(Finished)
    /\ Quiet /\ UNCHANGED <<env, until, cnt>>

GeneratorStep == YieldPy \/ Pending \/ Unmet \/ RangeNext \/ Unfired \/ Leave

TaskStep ==
    \/ Dispatch \/ Assign \/ Increase \/ SetUntil \/ SetState \/ Pass \/ Due
    \/ Unless \/ Gate \/ IfC \/ JumpC \/ Load \/ IfLeft \/ CountOne \/ ReturnC
    \/ EndTask \/ SpinDue \/ Spin \/ GeneratorStep

Next == Tick \/ InputChanges \/ TaskStep

Spec == Init /\ [][Next]_vars

\* The processor runs and the timer ticks.
FairSpec == Spec /\ WF_vars(TaskStep) /\ WF_vars(Tick)

-----------------------------------------------------------------------------

\* No script starves another: the scheduler comes round to every task that is
\* not over again and again, whatever the others are doing.
EveryTaskIsServed ==
    \A s \in 1..2 : []<>(cur = s \/ s > Count \/ (~prog.watchful /\ state[s] = Finished))

=============================================================================
