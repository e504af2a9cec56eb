-------------------------- MODULE ScratchContract --------------------------
(***************************************************************************)
(* What the generated program promises, without a word of how it is        *)
(* compiled: the scripts of a BrickWright program take turns; a script     *)
(* keeps the processor until it comes to a wait that is not over or to the *)
(* end of a loop iteration; a wait of n lasts at least n ticks; a pin hat  *)
(* starts its script at an edge between two looks at its pin; `stop` ends  *)
(* one script.  A lone script has nobody to yield to.                      *)
(*                                                                         *)
(* A script is a record: `body`, a sequence of statements, and `hat`, the  *)
(* input whose rising edge starts it or "none".  A statement is a record   *)
(* tagged by `op`; an expression is [num |-> n] or [var |-> v], a          *)
(* condition [var |-> v, is |-> b]: v is not zero, or it is.               *)
(***************************************************************************)
EXTENDS Integers, Sequences

CONSTANTS
    Programs,   \* records: `scripts`, a sequence of scripts, and `watchful`,
                \* a hat looks at its pin while its script runs too
    Vars,       \* the variables and the input pins of all of them
    Inputs,     \* the input pins, subset of Vars
    Width       \* a variable counts modulo Width

VARIABLES
    prog,    \* the program that is running
    env,     \* the values of its variables and inputs
    turn,    \* the script whose turn it is
    begun,   \* it has begun its turn
    rest,    \* of each script: what is left to do, a sequence of items
    sleep,   \* of each script: ticks until its wait is over
    prev     \* of each script: its hat's input when it last looked

vars == <<prog, env, turn, begun, rest, sleep, prev>>

Body(s)   == prog.scripts[s].body
Hat(s)    == prog.scripts[s].hat
Count     == Len(prog.scripts)
All       == 1..Count
Alone     == Count = 1 /\ Hat(1) = "none"

Eval(e, en) == IF "num" \in DOMAIN e THEN e.num ELSE en[e.var]
Holds(c, en) == (en[c.var] # 0) = c.is

Init ==
    /\ prog \in Programs
    /\ env = [v \in Vars |-> 0]
    /\ turn = 1 /\ begun = FALSE
    /\ rest = [s \in All |-> IF Hat(s) = "none" THEN Body(s) ELSE <<>>]
    /\ sleep = [s \in All |-> 0]
    /\ prev = [s \in All |-> 0]

Tick ==
    /\ \E s \in All : sleep[s] > 0
    /\ sleep' = [s \in All |-> IF sleep[s] > 0 THEN sleep[s] - 1 ELSE 0]
    /\ UNCHANGED <<prog, env, turn, begun, rest, prev>>

InputChanges ==
    /\ \E i \in Inputs : env' = [env EXCEPT ![i] = 1 - @]
    /\ UNCHANGED <<prog, turn, begun, rest, sleep, prev>>

\* A script's turn begins; an idle hat script looks for its edge.
Begin ==
    /\ ~begun /\ begun' = TRUE
    /\ IF Hat(turn) = "none" \/ (rest[turn] # <<>> /\ ~prog.watchful)
         THEN UNCHANGED <<rest, prev>>
         ELSE /\ prev' = [prev EXCEPT ![turn] = env[Hat(turn)]]
              /\ rest' = IF rest[turn] = <<>> /\ prev[turn] = 0 /\ env[Hat(turn)] = 1
                           THEN [rest EXCEPT ![turn] = Body(turn)] ELSE rest
    /\ UNCHANGED <<prog, env, turn, sleep>>

\* The scripts between two of them, in the order of turns.
Between(s, t) == {i \in All : IF s < t THEN s < i /\ i < t ELSE s < i \/ i < t}

\* The turn passes to the next script; those that are over may be left out.
EndTurn ==
    \/ /\ turn' \in All /\ begun' = FALSE
       /\ \A i \in Between(turn, turn') : Hat(i) = "none" /\ rest[i] = <<>>
    \/ Alone /\ UNCHANGED <<turn, begun>>

Idle ==
    /\ begun /\ rest[turn] = <<>>
    /\ EndTurn
    /\ UNCHANGED <<prog, env, rest, sleep, prev>>

-----------------------------------------------------------------------------
(* One action per kind of item at the head of what is left to do. *)

AtHead(op) == begun /\ rest[turn] # <<>> /\ Head(rest[turn]).op = op
Item == Head(rest[turn])
Becomes(items) == rest' = [rest EXCEPT ![turn] = items \o Tail(@)]
GoOn == UNCHANGED <<turn, begun>>

Set ==
    /\ AtHead("set")
    /\ env' = [env EXCEPT ![Item.var] = Eval(Item.to, env)]
    /\ Becomes(<<>>) /\ GoOn /\ UNCHANGED <<prog, sleep, prev>>

Change ==
    /\ AtHead("change")
    /\ env' = [env EXCEPT ![Item.var] = (@ + Item.by) % Width]
    /\ Becomes(<<>>) /\ GoOn /\ UNCHANGED <<prog, sleep, prev>>

Wait ==
    /\ AtHead("wait")
    /\ sleep' = [sleep EXCEPT ![turn] = Item.ticks]
    /\ Becomes(<<[op |-> "asleep"]>>) /\ GoOn /\ UNCHANGED <<prog, env, prev>>

Asleep ==
    /\ AtHead("asleep")
    /\ IF sleep[turn] = 0 THEN Becomes(<<>>) /\ GoOn ELSE UNCHANGED rest /\ EndTurn
    /\ UNCHANGED <<prog, env, sleep, prev>>

WaitUntil ==
    /\ AtHead("waituntil")
    /\ IF Holds(Item.cond, env) THEN Becomes(<<>>) /\ GoOn
                                ELSE UNCHANGED rest /\ EndTurn
    /\ UNCHANGED <<prog, env, sleep, prev>>

If ==
    /\ AtHead("if")
    /\ Becomes(IF Holds(Item.cond, env) THEN Item.body ELSE Item.orelse)
    /\ GoOn /\ UNCHANGED <<prog, env, sleep, prev>>

\* a procedure is a part of the script that calls it
Call ==
    /\ AtHead("call")
    /\ Becomes(Item.body) /\ GoOn /\ UNCHANGED <<prog, env, sleep, prev>>

Forever ==
    /\ AtHead("forever")
    /\ Becomes(Append(Item.body, [op |-> "again", loop |-> Item]))
    /\ GoOn /\ UNCHANGED <<prog, env, sleep, prev>>

While ==
    /\ AtHead("while")
    /\ Becomes(IF Holds(Item.cond, env)
                 THEN Append(Item.body, [op |-> "again", loop |-> Item]) ELSE <<>>)
    /\ GoOn /\ UNCHANGED <<prog, env, sleep, prev>>

Again ==
    /\ AtHead("again")
    /\ Becomes(<<Item.loop>>) /\ EndTurn /\ UNCHANGED <<prog, env, sleep, prev>>

\* the count is evaluated once, when the loop is entered
Repeat ==
    /\ AtHead("repeat")
    /\ Becomes(<<[op |-> "times", left |-> Eval(Item.count, env), body |-> Item.body]>>)
    /\ GoOn /\ UNCHANGED <<prog, env, sleep, prev>>

Times ==
    /\ AtHead("times")
    /\ Becomes(IF Item.left = 0 THEN <<>>
               ELSE Append(Item.body,
                      [op |-> "onedone", left |-> Item.left, body |-> Item.body]))
    /\ GoOn /\ UNCHANGED <<prog, env, sleep, prev>>

OneDone ==
    /\ AtHead("onedone")
    /\ Becomes(<<[op |-> "times", left |-> Item.left - 1, body |-> Item.body]>>)
    /\ EndTurn /\ UNCHANGED <<prog, env, sleep, prev>>

Stop ==
    /\ AtHead("stop")
    /\ rest' = [rest EXCEPT ![turn] = <<>>]
    /\ EndTurn /\ UNCHANGED <<prog, env, sleep, prev>>

Step ==
    \/ Set \/ Change \/ Wait \/ Asleep \/ WaitUntil \/ If \/ Call \/ Forever
    \/ While \/ Again \/ Repeat \/ Times \/ OneDone \/ Stop

Next == Tick \/ InputChanges \/ Begin \/ Idle \/ Step

Spec == Init /\ [][Next]_vars
=============================================================================
